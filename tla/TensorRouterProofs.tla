------------------------- MODULE TensorRouterProofs -------------------------
(***************************************************************************)
(* Theorems of TensorRouter, for any devices, tensors and number of calls: *)
(* its types, that what a transfer or a broadcast returns is true to its   *)
(* source, that the ledger counts every completed transfer once, and that  *)
(* sums over devices lose none of them, whichever collectives fail.        *)
(***************************************************************************)
EXTENDS TensorRouter, SequenceTheorems, FiniteSetTheorems, WellFoundedInduction, TLAPS

-----------------------------------------------------------------------------
(* Sums over finite sets.                                                  *)

Element(s) == CHOOSE x \in s : TRUE

\* The function that SumFunctionOnSet folds with.
SumsUp(iter, f, S) ==
    iter = [s \in SUBSET S |-> IF s = {} THEN 0 ELSE f[Element(s)] + iter[s \ {Element(s)}]]

LEMMA SumByIter ==
    ASSUME NEW f, NEW S
    PROVE  SumFunctionOnSet(f, S) = (CHOOSE iter : SumsUp(iter, f, S))[S]
  BY DEF SumFunctionOnSet, FoldFunctionOnSet, MapThenFoldSet, SumsUp, Element

LEMMA LeastNumber ==
    ASSUME NEW T \in SUBSET Nat, T # {} PROVE \E x \in T : \A y \in T : x <= y
<1>1. PICK x \in T : \A y \in T : ~ (<<y, x>> \in OpToRel(<, Nat))
  BY NatLessThanWellFounded, WFMin
<1>2. \A y \in T : ~ (y < x)
  BY <1>1 DEF OpToRel
<1>3. QED
  BY <1>2

LEMMA Removing ==
    ASSUME NEW S, IsFiniteSet(S), NEW s \in SUBSET S
    PROVE  /\ IsFiniteSet(s) /\ Cardinality(s) \in Nat /\ (Cardinality(s) = 0 <=> s = {})
           /\ \A x \in s : /\ s \ {x} \in SUBSET S
                           /\ Cardinality(s \ {x}) = Cardinality(s) - 1
           /\ s # {} => Element(s) \in s
<1>1. IsFiniteSet(s)
  BY FS_Subset
<1>2. \A x \in s : Cardinality(s \ {x}) = Cardinality(s) - 1
  BY <1>1, FS_RemoveElement
<1>3. s # {} => Element(s) \in s
  BY DEF Element
<1>4. QED
  BY <1>1, <1>2, <1>3, FS_CardinalityType, FS_EmptySet

\* Induction over the subsets of a finite set.
LEMMA SmallestSet ==
    ASSUME NEW S, IsFiniteSet(S), NEW Bad \in SUBSET SUBSET S, Bad # {}
    PROVE  \E s \in Bad : \A x \in s : s \ {x} \notin Bad
<1> DEFINE T == {Cardinality(s) : s \in Bad}
<1>1. T \in SUBSET Nat /\ T # {}
  BY Removing
<1>2. PICK n \in T : \A m \in T : n <= m
  BY <1>1, LeastNumber
<1>3. PICK s \in Bad : n = Cardinality(s)
  BY <1>2
<1>4. ASSUME NEW x \in s, s \ {x} \in Bad PROVE FALSE
  <2>1. Cardinality(s \ {x}) = Cardinality(s) - 1 /\ Cardinality(s) \in Nat
    BY Removing
  <2>2. Cardinality(s) <= Cardinality(s \ {x})
    BY <1>2, <1>3, <1>4
  <2>3. QED
    BY <2>1, <2>2
<1>5. QED
  BY <1>4

LEMMA SumsExist ==
    ASSUME NEW S, IsFiniteSet(S), NEW f PROVE \E iter : SumsUp(iter, f, S)
<1> DEFINE Adds(g, s) == g[s] = IF s = {} THEN 0 ELSE f[Element(s)] + g[s \ {Element(s)}]
           UpTo(n) == \E g : \A s \in SUBSET S : Cardinality(s) <= n => Adds(g, s)
           T == {n \in Nat : ~ UpTo(n)}
<1>1. 0 \notin T
  <2> DEFINE g == [s \in SUBSET S |-> 0]
  <2>1. \A s \in SUBSET S : Cardinality(s) <= 0 => s = {} /\ g[s] = 0
    BY Removing
  <2> HIDE DEF g
  <2>2. \A s \in SUBSET S : Cardinality(s) <= 0 => Adds(g, s)
    BY <2>1
  <2>3. QED
    BY <2>2
<1>2. ASSUME NEW n \in Nat, UpTo(n) PROVE UpTo(n + 1)
  <2>1. PICK g : \A s \in SUBSET S : Cardinality(s) <= n => Adds(g, s)
    BY <1>2
  <2> DEFINE h == [s \in SUBSET S |-> IF Cardinality(s) <= n THEN g[s]
                                      ELSE f[Element(s)] + g[s \ {Element(s)}]]
  <2>2. \A s \in SUBSET S :
            h[s] = IF Cardinality(s) <= n THEN g[s] ELSE f[Element(s)] + g[s \ {Element(s)}]
    OBVIOUS
  <2> HIDE DEF h
  <2>3. ASSUME NEW s \in SUBSET S, Cardinality(s) <= n + 1 PROVE Adds(h, s)
    <3>1. Cardinality(s) \in Nat /\ (Cardinality(s) = 0 <=> s = {})
      BY Removing
    <3>2. CASE s = {}
      BY <2>1, <2>2, <3>1, <3>2
    <3>3. CASE s # {}
      <4> PICK t : t = s \ {Element(s)}
        OBVIOUS
      <4>1. t \in SUBSET S /\ Cardinality(t) = Cardinality(s) - 1
        BY <3>3, Removing
      <4>2. Cardinality(t) <= n
        BY <2>3, <3>1, <4>1
      <4>3. h[t] = g[t]
        BY <2>2, <4>1, <4>2
      <4>4. Cardinality(s) <= n => g[s] = f[Element(s)] + g[t]
        BY <2>1, <3>3
      <4>5. h[s] = f[Element(s)] + g[t]
        BY <2>2, <4>4
      <4>6. QED
        BY <3>3, <4>3, <4>5
    <3>4. QED
      BY <3>2, <3>3
  <2>4. QED
    BY <2>3
<1>3. T = {}
  <2> SUFFICES ASSUME T # {} PROVE FALSE
    OBVIOUS
  <2>1. T \in SUBSET Nat
    OBVIOUS
  <2> HIDE DEF UpTo
  <2>2. PICK n \in T : \A m \in T : n <= m
    BY <2>1, LeastNumber
  <2>3. n \in Nat /\ n # 0 /\ ~ UpTo(n)
    BY <1>1, <2>2
  <2>4. n - 1 \in Nat /\ (n - 1) + 1 = n /\ n - 1 \notin T
    BY <2>2, <2>3
  <2>5. UpTo(n - 1)
    BY <2>4
  <2>6. QED
    BY <1>2, <2>3, <2>4, <2>5
<1>4. UpTo(Cardinality(S))
  BY <1>3, FS_CardinalityType
<1>5. PICK g : \A s \in SUBSET S : Cardinality(s) <= Cardinality(S) => Adds(g, s)
  BY <1>4
<1> DEFINE h == [s \in SUBSET S |-> g[s]]
<1>6. \A s \in SUBSET S :
        h[s] = IF s = {} THEN 0 ELSE f[Element(s)] + h[s \ {Element(s)}]
  <2> SUFFICES ASSUME NEW s \in SUBSET S
               PROVE  h[s] = IF s = {} THEN 0 ELSE f[Element(s)] + h[s \ {Element(s)}]
    OBVIOUS
  <2>1. Adds(g, s)
    BY <1>5, FS_Subset
  <2>2. s \ {Element(s)} \in SUBSET S
    OBVIOUS
  <2>3. QED
    BY <2>1, <2>2
<1>7. SumsUp(h, f, S)
  <2>1. h = [s \in SUBSET S |-> h[s]]
    OBVIOUS
  <2> HIDE DEF h
  <2>2. QED
    BY <1>6, <2>1 DEF SumsUp
<1>8. QED
  BY <1>7


\* What the steps of a fold add up.
Adding(iter, f, S) ==
    \A s \in SUBSET S : iter[s] = IF s = {} THEN 0 ELSE f[Element(s)] + iter[s \ {Element(s)}]

LEMMA SumIsFold ==
    ASSUME NEW S, IsFiniteSet(S), NEW f
    PROVE  \E iter : Adding(iter, f, S) /\ SumFunctionOnSet(f, S) = iter[S]
<1>1. PICK iter : iter = CHOOSE i : SumsUp(i, f, S)
  OBVIOUS
<1>2. SumsUp(iter, f, S)
  BY <1>1, SumsExist
<1>3. Adding(iter, f, S)
  <2>1. ASSUME NEW s \in SUBSET S
        PROVE  iter[s] = IF s = {} THEN 0 ELSE f[Element(s)] + iter[s \ {Element(s)}]
    <3>1. iter = [u \in SUBSET S |-> IF u = {} THEN 0 ELSE f[Element(u)] + iter[u \ {Element(u)}]]
      BY <1>2 DEF SumsUp
    <3>2. QED
      BY <3>1
  <2>2. QED
    BY <2>1 DEF Adding
<1>4. QED
  BY <1>1, <1>3, SumByIter

\* A set of numbers that sums do not leave.
Summable(V) == V \subseteq Int /\ 0 \in V /\ \A v, w \in V : v + w \in V

LEMMA FoldTyped ==
    ASSUME NEW S, IsFiniteSet(S), NEW f, NEW V, Summable(V), \A x \in S : f[x] \in V,
           NEW iter, Adding(iter, f, S)
    PROVE  \A s \in SUBSET S : iter[s] \in V
<1> DEFINE Bad == {s \in SUBSET S : iter[s] \notin V}
<1>1. ASSUME Bad # {} PROVE FALSE
  <2>1. PICK s \in Bad : \A x \in s : s \ {x} \notin Bad
    BY <1>1, SmallestSet
  <2>2. s # {}
    BY <2>1 DEF Adding, Summable
  <2>3. Element(s) \in s /\ s \ {Element(s)} \in SUBSET S
    BY <2>2, Removing
  <2>4. iter[s \ {Element(s)}] \in V /\ f[Element(s)] \in V
    BY <2>1, <2>3
  <2>5. iter[s] = f[Element(s)] + iter[s \ {Element(s)}]
    BY <2>2 DEF Adding
  <2>6. QED
    BY <2>1, <2>4, <2>5 DEF Summable
<1>2. QED
  BY <1>1

LEMMA SumTyped ==
    ASSUME NEW S, IsFiniteSet(S), NEW f, NEW V, Summable(V), \A x \in S : f[x] \in V
    PROVE  SumFunctionOnSet(f, S) \in V
<1>1. PICK iter : Adding(iter, f, S) /\ SumFunctionOnSet(f, S) = iter[S]
  BY SumIsFold
<1>2. QED
  BY <1>1, FoldTyped

AnyFirst(iter, f, S) == \A s \in SUBSET S : \A x \in s : iter[s] = f[x] + iter[s \ {x}]

\* Whichever element is taken first.
LEMMA FoldAnyFirst ==
    ASSUME NEW S, IsFiniteSet(S), NEW f, \A x \in S : f[x] \in Int,
           NEW iter, Adding(iter, f, S)
    PROVE  AnyFirst(iter, f, S)
<1>0. \A s \in SUBSET S : iter[s] \in Int
  <2>1. Summable(Int)
    BY DEF Summable
  <2>2. QED
    BY <2>1, FoldTyped
<1> DEFINE Bad == {s \in SUBSET S : \E x \in s : iter[s] # f[x] + iter[s \ {x}]}
<1>1. ASSUME Bad # {} PROVE FALSE
  <2>1. PICK s \in Bad : \A x \in s : s \ {x} \notin Bad
    BY <1>1, SmallestSet
  <2>2. PICK x \in s : iter[s] # f[x] + iter[s \ {x}]
    BY <2>1
  <2>3. PICK y : y = Element(s)
    OBVIOUS
  <2>4. s \in SUBSET S /\ y \in s /\ iter[s] = f[y] + iter[s \ {y}]
    BY <2>1, <2>2, <2>3, Removing DEF Adding
  <2>5. x # y /\ x \in s \ {y} /\ y \in s \ {x}
    BY <2>2, <2>4
  <2>6. PICK u : u = (s \ {x}) \ {y}
    OBVIOUS
  <2>7. u = (s \ {y}) \ {x} /\ u \in SUBSET S
    BY <2>4, <2>6
  <2>8. iter[s \ {y}] = f[x] + iter[u]
    BY <2>1, <2>4, <2>5, <2>7
  <2>9. iter[s \ {x}] = f[y] + iter[u]
    BY <2>1, <2>4, <2>5, <2>6
  <2>10. f[x] \in Int /\ f[y] \in Int /\ iter[u] \in Int
    BY <1>0, <2>4, <2>7
  <2>11. \A a, b, c \in Int : a + (b + c) = b + (a + c)
    OBVIOUS
  <2>12. f[y] + (f[x] + iter[u]) = f[x] + (f[y] + iter[u])
    BY <2>10, <2>11
  <2>13. QED
    BY <2>2, <2>4, <2>8, <2>9, <2>12
<1>2. QED
  BY <1>1 DEF AnyFirst

\* The sum of a part does not depend on the rest.
LEMMA FoldsAgree ==
    ASSUME NEW S, IsFiniteSet(S), NEW f, NEW iter, Adding(iter, f, S),
           NEW T, T \subseteq S, NEW g, NEW jter, Adding(jter, g, T), \A x \in T : f[x] = g[x]
    PROVE  \A s \in SUBSET T : iter[s] = jter[s]
<1> DEFINE Bad == {s \in SUBSET T : iter[s] # jter[s]}
<1>1. ASSUME Bad # {} PROVE FALSE
  <2>0. IsFiniteSet(T)
    BY FS_Subset
  <2>1. PICK s \in Bad : \A x \in s : s \ {x} \notin Bad
    BY <1>1, <2>0, SmallestSet
  <2>2. s \in SUBSET T /\ s \in SUBSET S
    BY <2>1
  <2>3. s # {}
    BY <2>1, <2>2 DEF Adding
  <2>4. Element(s) \in s
    BY <2>3 DEF Element
  <2>5. PICK u : u = s \ {Element(s)}
    OBVIOUS
  <2>6. iter[u] = jter[u] /\ f[Element(s)] = g[Element(s)]
    BY <2>1, <2>2, <2>4, <2>5
  <2>7. iter[s] = f[Element(s)] + iter[u] /\ jter[s] = g[Element(s)] + jter[u]
    BY <2>2, <2>3, <2>5 DEF Adding
  <2>8. QED
    BY <2>1, <2>6, <2>7
<1>2. QED
  BY <1>1

LEMMA SumOfNothing == ASSUME NEW f PROVE SumFunctionOnSet(f, {}) = 0
<1>1. PICK iter : Adding(iter, f, {}) /\ SumFunctionOnSet(f, {}) = iter[{}]
  BY SumIsFold, FS_EmptySet
<1>2. QED
  BY <1>1 DEF Adding

\* One more element adds its value.
LEMMA SumAdds ==
    ASSUME NEW S, IsFiniteSet(S), NEW x, x \notin S, NEW f, NEW g,
           \A y \in S : f[y] \in Int /\ f[y] = g[y], f[x] \in Int
    PROVE  SumFunctionOnSet(f, S \cup {x}) = SumFunctionOnSet(g, S) + f[x]
<1> PICK T : T = S \cup {x}
  OBVIOUS
<1>1. IsFiniteSet(T)
  BY FS_AddElement
<1>2. PICK iter : Adding(iter, f, T) /\ SumFunctionOnSet(f, T) = iter[T]
  BY <1>1, SumIsFold
<1>3. PICK jter : Adding(jter, g, S) /\ SumFunctionOnSet(g, S) = jter[S]
  BY SumIsFold
<1>4. T \ {x} = S /\ x \in T
  OBVIOUS
<1>5. iter[T] = f[x] + iter[S]
  <2>1. \A y \in T : f[y] \in Int
    OBVIOUS
  <2>2. AnyFirst(iter, f, T)
    <3>1. Adding(iter, f, T) /\ IsFiniteSet(T)
      BY <1>1, <1>2
    <3>2. QED
      BY ONLY <3>1, <2>1, FoldAnyFirst
  <2>3. QED
    BY <1>4, <2>2 DEF AnyFirst
<1>6. iter[S] = jter[S]
  <2>1. S \subseteq T /\ \A y \in S : f[y] = g[y]
    OBVIOUS
  <2>2. \A s \in SUBSET S : iter[s] = jter[s]
    <3>1. Adding(iter, f, T) /\ Adding(jter, g, S) /\ IsFiniteSet(T)
      BY <1>1, <1>2, <1>3
    <3>2. QED
      BY ONLY <3>1, <2>1, FoldsAgree
  <2>3. QED
    BY <2>2
<1>7. jter[S] \in Int
  <2>1. Summable(Int) /\ \A y \in S : g[y] \in Int
    BY DEF Summable
  <2>2. QED
    BY <1>3, <2>1, FoldTyped
<1>8. QED
  BY <1>2, <1>3, <1>5, <1>6, <1>7

LEMMA SumAgrees ==
    ASSUME NEW S, IsFiniteSet(S), NEW f, NEW g, \A y \in S : f[y] = g[y]
    PROVE  SumFunctionOnSet(f, S) = SumFunctionOnSet(g, S)
<1>1. PICK iter : Adding(iter, f, S) /\ SumFunctionOnSet(f, S) = iter[S]
  BY SumIsFold
<1>2. PICK jter : Adding(jter, g, S) /\ SumFunctionOnSet(g, S) = jter[S]
  BY SumIsFold
<1>3. QED
  BY <1>1, <1>2, FoldsAgree

\* Larger values have a larger sum.
LEMMA SumGrows ==
    ASSUME NEW S, IsFiniteSet(S), NEW f, NEW g,
           \A x \in S : f[x] \in Nat /\ g[x] \in Nat /\ f[x] >= g[x]
    PROVE  /\ SumFunctionOnSet(f, S) \in Nat /\ SumFunctionOnSet(g, S) \in Nat
           /\ SumFunctionOnSet(f, S) >= SumFunctionOnSet(g, S)
<1>0. Summable(Nat)
  BY DEF Summable
<1>1. \A s \in SUBSET S : SumFunctionOnSet(f, s) \in Nat /\ SumFunctionOnSet(g, s) \in Nat
  <2> SUFFICES ASSUME NEW s \in SUBSET S
               PROVE  SumFunctionOnSet(f, s) \in Nat /\ SumFunctionOnSet(g, s) \in Nat
    OBVIOUS
  <2>1. IsFiniteSet(s) /\ \A x \in s : f[x] \in Nat /\ g[x] \in Nat
    BY FS_Subset
  <2>2. SumFunctionOnSet(f, s) \in Nat
    BY <1>0, <2>1, SumTyped
  <2>3. SumFunctionOnSet(g, s) \in Nat
    BY <1>0, <2>1, SumTyped
  <2>4. QED
    BY <2>2, <2>3
<1> DEFINE Bad == {s \in SUBSET S : ~ (SumFunctionOnSet(f, s) >= SumFunctionOnSet(g, s))}
<1>2. ASSUME Bad # {} PROVE FALSE
  <2>1. PICK s \in Bad : \A x \in s : s \ {x} \notin Bad
    BY <1>2, SmallestSet
  <2>2. s # {}
    BY <2>1, SumOfNothing
  <2>3. PICK x \in s : TRUE
    BY <2>2
  <2>4. PICK u : u = s \ {x}
    OBVIOUS
  <2>5. IsFiniteSet(u) /\ x \notin u /\ u \in SUBSET S /\ s = u \cup {x} /\ u \notin Bad
    BY <2>1, <2>4, FS_Subset
  <2>6. /\ f[x] \in Int /\ g[x] \in Int /\ f[x] >= g[x]
        /\ \A y \in u : f[y] \in Int /\ f[y] = f[y] /\ g[y] \in Int /\ g[y] = g[y]
    BY <2>1, <2>5
  <2>7. SumFunctionOnSet(f, s) = SumFunctionOnSet(f, u) + f[x]
    BY <2>5, <2>6, SumAdds
  <2>8. SumFunctionOnSet(g, s) = SumFunctionOnSet(g, u) + g[x]
    BY <2>5, <2>6, SumAdds
  <2>9. SumFunctionOnSet(f, u) >= SumFunctionOnSet(g, u)
    BY <2>5
  <2>10. SumFunctionOnSet(f, u) \in Nat /\ SumFunctionOnSet(g, u) \in Nat
    BY <1>1, <2>5
  <2>11. SumFunctionOnSet(f, s) >= SumFunctionOnSet(g, s)
    BY <2>6, <2>7, <2>8, <2>9, <2>10
  <2>12. QED
    BY <2>1, <2>11
<1>3. QED
  BY <1>1, <1>2

\* A sum is no less than any of its values.
LEMMA SumCovers ==
    ASSUME NEW S, IsFiniteSet(S), NEW f, \A y \in S : f[y] \in Nat, NEW x \in S
    PROVE  SumFunctionOnSet(f, S) \in Nat /\ SumFunctionOnSet(f, S) >= f[x]
<1>1. PICK u : u = S \ {x}
  OBVIOUS
<1>2. IsFiniteSet(u) /\ x \notin u /\ S = u \cup {x}
  BY <1>1, FS_Subset
<1>3. f[x] \in Int /\ \A y \in u : f[y] \in Int /\ f[y] = f[y] /\ f[y] \in Nat
  BY <1>1
<1>4. SumFunctionOnSet(f, S) = SumFunctionOnSet(f, u) + f[x]
  BY <1>2, <1>3, SumAdds
<1>5. SumFunctionOnSet(f, u) \in Nat
  <2>1. Summable(Nat)
    BY DEF Summable
  <2>2. QED
    BY <1>2, <1>3, <2>1, SumTyped
<1>6. QED
  BY <1>4, <1>5

-----------------------------------------------------------------------------
(* The inductive invariant.                                                *)

States == {"waiting", "copying", "done", "failed"}

Maps(T) == UNION {[to -> T] : to \in SUBSET GPUs}

RouterCall == [kind : {"tasks", "fallback", "nccl"}, tensor : Tensors, src : GPUs,
               state : Maps(States), got : Maps(Values), held : SUBSET Values, stale : BOOLEAN]

IsSequence(s) == s \in Seq(Range(s))

Shape ==
    /\ platform \in {"numpy", "cupy", "nccl"}
    /\ shard \in [Tensors -> [GPUs -> Values]]
    /\ calls \in Seq(RouterCall) /\ Len(calls) <= MaxCalls
    /\ \A i \in DOMAIN calls : DOMAIN calls[i].got = DOMAIN calls[i].state
    /\ pending \in [Tensors -> SUBSET (Nat \X GPUs)]
    /\ completed \in Seq(Nat \X GPUs)
    /\ total \in Nat
    /\ groupOpen \in BOOLEAN /\ (groupOpen => platform = "nccl")
    /\ IsSequence(reductions)

\* A call has lost something to NCCL if it did what NCCL was told wrongly,
\* or what it did not even launch.
Lost(c) == c.kind = "nccl" /\ (c.stale \/ c.tensor.dtype \notin {"float16", "float32"})

\* What waiting copies will find has been seen by the call, and so has what
\* the others have found, as long as none has failed.
Held ==
    \A i \in DOMAIN calls :
        /\ ~ Ended(calls[i]) => shard[calls[i].tensor][calls[i].src] \in calls[i].held
        /\ ~ Broken(calls[i]) /\ ~ Lost(calls[i]) =>
            \A d \in DOMAIN calls[i].state :
                calls[i].state[d] = "done" => calls[i].got[d] \in calls[i].held

DoneJobs  == {j \in Jobs : calls[j[1]].kind = "tasks" /\ calls[j[1]].state[j[2]] = "done"}
DoneBytes == [j \in DoneJobs |-> calls[j[1]].tensor.nbytes]

Recorded ==
    /\ Range(completed) = DoneJobs /\ Len(completed) = Cardinality(DoneJobs)
    /\ total = SumFunction(DoneBytes)

\* The one job that a tensor has in the table is under way, or has failed.
Awaited ==
    \A t \in Tensors :
        /\ Cardinality(pending[t]) <= 1
        /\ \A j \in pending[t] : /\ j \in Jobs /\ calls[j[1]].tensor = t
                                 /\ calls[j[1]].state[j[2]] \in {"copying", "failed"}

\* NCCL has reduced arrays of t in place.
Changed(t) == \E j \in DOMAIN reductions :
                reductions[j].tensor = t /\ reductions[j].inPlace # {}

\* The arrays of a float16 tensor hold no less than at first, and just that
\* until one is reduced in place.
Kept ==
    \A t \in Tensors : t.dtype = "float16" =>
        /\ \A g \in GPUs : shard[t][g] \in Nat /\ shard[t][g] >= Shards[g]
        /\ ~ Changed(t) => shard[t] = Shards

RouterInv == Shape /\ Held /\ Recorded /\ Awaited /\ Kept /\ SumsCountEveryShard

-----------------------------------------------------------------------------
(* Calls and their copies.                                                 *)

LEMMA MapsAre ==
    ASSUME NEW T, NEW m
    PROVE  m \in Maps(T) <=> DOMAIN m \in SUBSET GPUs /\ m \in [DOMAIN m -> T]
  BY DEF Maps

LEMMA CallIs ==
    ASSUME Shape, NEW i \in DOMAIN calls
    PROVE  /\ calls[i] \in RouterCall /\ i \in 1 .. Len(calls) /\ i \in Nat \ {0}
           /\ calls[i].kind \in {"tasks", "fallback", "nccl"}
           /\ calls[i].tensor \in Tensors /\ calls[i].src \in GPUs
           /\ calls[i].tensor.nbytes \in Nat
           /\ DOMAIN calls[i].state \in SUBSET GPUs
           /\ calls[i].state \in [DOMAIN calls[i].state -> States]
           /\ calls[i].got \in [DOMAIN calls[i].state -> Values]
           /\ calls[i].held \in SUBSET Values
           /\ shard[calls[i].tensor][calls[i].src] \in Values
<1>1. calls \in Seq(RouterCall) /\ DOMAIN calls[i].got = DOMAIN calls[i].state
      /\ shard \in [Tensors -> [GPUs -> Values]]
  BY DEF Shape
<1>2. calls[i] \in RouterCall /\ i \in 1 .. Len(calls) /\ i \in Nat \ {0}
  BY <1>1
<1>3. /\ calls[i].kind \in {"tasks", "fallback", "nccl"}
      /\ calls[i].tensor \in Tensors /\ calls[i].src \in GPUs
      /\ calls[i].state \in Maps(States) /\ calls[i].got \in Maps(Values)
      /\ calls[i].held \in SUBSET Values
  BY <1>2 DEF RouterCall
<1>4. calls[i].tensor.nbytes \in Nat
  BY <1>3, RouterAssumption
<1>5. QED
  BY <1>1, <1>2, <1>3, <1>4, MapsAre

\* The names of the calls never change.
Lasting ==
    /\ calls' \in Seq(RouterCall) /\ DOMAIN calls \subseteq DOMAIN calls'
    /\ Len(calls') <= MaxCalls
    /\ \A i \in DOMAIN calls' : DOMAIN calls'[i].got = DOMAIN calls'[i].state
    /\ \A i \in DOMAIN calls :
        /\ calls'[i].kind = calls[i].kind /\ calls'[i].tensor = calls[i].tensor
        /\ calls'[i].src = calls[i].src /\ calls'[i].stale = calls[i].stale
        /\ DOMAIN calls'[i].state = DOMAIN calls[i].state

\* Of all copies only that of call i to d goes on.
Moved(i, d, state, got) ==
    /\ Lasting /\ DOMAIN calls' = DOMAIN calls
    /\ \A j \in DOMAIN calls : j # i => calls'[j] = calls[j]
    /\ calls'[i].held = calls[i].held
    /\ calls'[i].state[d] = state /\ calls'[i].got[d] = got
    /\ \A e \in DOMAIN calls[i].state : e # d => /\ calls'[i].state[e] = calls[i].state[e]
                                                 /\ calls'[i].got[e] = calls[i].got[e]

LEMMA MoveCopy ==
    ASSUME Shape, NEW i \in DOMAIN calls, NEW d \in DOMAIN calls[i].state,
           NEW state \in States, NEW got \in Values,
           calls' = [calls EXCEPT ![i] = [calls[i] EXCEPT !.state = [@ EXCEPT ![d] = state],
                                                          !.got = [@ EXCEPT ![d] = got]]]
    PROVE  Moved(i, d, state, got)
<1> PICK c, to : c = calls[i] /\ to = DOMAIN c.state
  OBVIOUS
<1>1. /\ c \in RouterCall /\ to \in SUBSET GPUs /\ d \in to
      /\ c.state \in [to -> States] /\ c.got \in [to -> Values]
  BY CallIs
<1> DEFINE s == [c.state EXCEPT ![d] = state]
           v == [c.got EXCEPT ![d] = got]
           n == [c EXCEPT !.state = s, !.got = v]
<1>2. /\ s \in [to -> States] /\ s[d] = state /\ \A e \in to : e # d => s[e] = c.state[e]
      /\ v \in [to -> Values] /\ v[d] = got /\ \A e \in to : e # d => v[e] = c.got[e]
  BY <1>1
<1>3. calls' = [calls EXCEPT ![i] = n]
  OBVIOUS
<1> HIDE DEF s, v
<1>4. DOMAIN s = to /\ DOMAIN v = to /\ s \in Maps(States) /\ v \in Maps(Values)
  BY <1>1, <1>2, MapsAre
<1>5. /\ n \in RouterCall /\ n.state = s /\ n.got = v
      /\ n.kind = c.kind /\ n.tensor = c.tensor /\ n.src = c.src /\ n.held = c.held
      /\ n.stale = c.stale
  BY <1>1, <1>4 DEF RouterCall
<1> HIDE DEF n
<1>6. calls \in Seq(RouterCall) /\ Len(calls) <= MaxCalls
  BY DEF Shape
<1>7. /\ calls' \in Seq(RouterCall) /\ DOMAIN calls' = DOMAIN calls /\ Len(calls') = Len(calls)
      /\ calls'[i] = n /\ \A j \in DOMAIN calls : j # i => calls'[j] = calls[j]
  BY <1>3, <1>5, <1>6
<1>8. Lasting
  BY <1>4, <1>5, <1>6, <1>7 DEF Lasting, Shape
<1>9. QED
  BY <1>2, <1>5, <1>7, <1>8 DEF Moved


LEMMA MoveState ==
    ASSUME Shape, NEW i \in DOMAIN calls, NEW d \in DOMAIN calls[i].state,
           NEW state \in States, calls' = [calls EXCEPT ![i].state[d] = state]
    PROVE  Moved(i, d, state, calls[i].got[d])
<1> PICK c, to, s, v : /\ c = calls[i] /\ to = DOMAIN c.state
                       /\ s = [c.state EXCEPT ![d] = state] /\ v = c.got[d]
  OBVIOUS
<1>1. c \in RouterCall /\ d \in to /\ c.got \in [to -> Values]
  BY CallIs
<1>2. v \in Values /\ [c.got EXCEPT ![d] = v] = c.got
  BY <1>1
<1>3. [c EXCEPT !.state = s, !.got = c.got] = [c EXCEPT !.state = s]
  BY <1>1 DEF RouterCall
<1>4. calls' = [calls EXCEPT ![i] = [c EXCEPT !.state = s, !.got = [c.got EXCEPT ![d] = v]]]
  BY <1>2, <1>3
<1>5. QED
  BY <1>2, <1>4, MoveCopy

LEMMA CopiedMoves ==
    ASSUME Shape, NEW i \in DOMAIN calls, NEW d \in DOMAIN calls[i].state, Copied(i, d)
    PROVE  Moved(i, d, "done", shard[calls[i].tensor][calls[i].src])
<1> PICK x : x = shard[calls[i].tensor][calls[i].src]
  OBVIOUS
<1>1. x \in Values /\ "done" \in States
  BY CallIs DEF States
<1>2. calls' = [calls EXCEPT ![i].state[d] = "done", ![i].got[d] = x]
  BY DEF Copied
<1> PICK c, s, v : /\ c = calls[i] /\ s = [c.state EXCEPT ![d] = "done"]
                   /\ v = [c.got EXCEPT ![d] = x]
  OBVIOUS
<1>3. c \in RouterCall /\ calls \in Seq(RouterCall)
  BY CallIs DEF Shape
<1>4. calls' = [calls EXCEPT ![i] = [c EXCEPT !.state = s, !.got = v]]
  BY <1>2, <1>3 DEF RouterCall
<1>5. QED
  BY <1>1, <1>4, MoveCopy

CopyStep(i, d) ==
    \/ StartTransfer(i, d)
    \/ FinishTransfer(i, d)
    \/ FailTransfer(i, d)
    \/ FallbackCopy(i, d)

\* What the steps of a copy do.
LEMMA CopyMoves ==
    ASSUME Shape, NEW i \in DOMAIN calls, NEW d \in DOMAIN calls[i].state, CopyStep(i, d)
    PROVE  /\ UNCHANGED <<platform, shard, groupOpen, reductions>>
           /\ calls[i].state[d] \in {"waiting", "copying"}
           /\ \/ /\ calls[i].kind = "tasks" /\ Complete(i, d)
                 /\ Moved(i, d, "done", shard[calls[i].tensor][calls[i].src])
              \/ /\ calls[i].kind = "fallback" /\ calls[i].state[d] = "waiting"
                 /\ UNCHANGED ledger
                 /\ Moved(i, d, "done", shard[calls[i].tensor][calls[i].src])
              \/ /\ calls[i].kind = "tasks" /\ UNCHANGED <<completed, total>>
                 /\ pending' = [pending EXCEPT ![calls[i].tensor] = {<<i, d>>}]
                 /\ Moved(i, d, "copying", calls[i].got[d])
              \/ Moved(i, d, "failed", calls[i].got[d]) /\ UNCHANGED ledger
<1>1. "copying" \in States /\ "failed" \in States
  BY DEF States
<1>2. CASE StartTransfer(i, d)
  <2>1. /\ UNCHANGED <<platform, shard, groupOpen, reductions>>
        /\ calls[i].state[d] \in {"waiting", "copying"} /\ calls[i].kind = "tasks"
    BY <1>2 DEF StartTransfer
  <2>2. \/ Copied(i, d) /\ Complete(i, d)
        \/ /\ calls' = [calls EXCEPT ![i].state[d] = "copying"] /\ UNCHANGED <<completed, total>>
           /\ pending' = [pending EXCEPT ![calls[i].tensor] = {<<i, d>>}]
    BY <1>2 DEF StartTransfer
  <2>3. QED
    BY <1>1, <2>1, <2>2, CopiedMoves, MoveState
<1>3. CASE FinishTransfer(i, d)
  <2>1. /\ UNCHANGED <<platform, shard, groupOpen, reductions>>
        /\ calls[i].state[d] \in {"waiting", "copying"} /\ calls[i].kind = "tasks"
        /\ Copied(i, d) /\ Complete(i, d)
    BY <1>3 DEF FinishTransfer
  <2>2. QED
    BY <2>1, CopiedMoves
<1>4. CASE FailTransfer(i, d)
  <2>1. /\ UNCHANGED <<platform, shard, groupOpen, reductions>> /\ UNCHANGED ledger
        /\ calls[i].state[d] \in {"waiting", "copying"}
        /\ calls' = [calls EXCEPT ![i].state[d] = "failed"]
    BY <1>4 DEF FailTransfer
  <2>2. QED
    BY <1>1, <2>1, MoveState
<1>5. CASE FallbackCopy(i, d)
  <2>1. /\ UNCHANGED <<platform, shard, groupOpen, reductions>> /\ UNCHANGED ledger
        /\ calls[i].state[d] = "waiting" /\ calls[i].kind = "fallback"
        /\ Copied(i, d) \/ calls' = [calls EXCEPT ![i].state[d] = "failed"]
    BY <1>5 DEF FallbackCopy
  <2>2. QED
    BY <1>1, <2>1, CopiedMoves, MoveState
<1>6. QED
  BY <1>2, <1>3, <1>4, <1>5 DEF CopyStep

\* One more call, of copies that are all in the same state.
Begun(kind, t, src, to, state, got) ==
    LET z == Len(calls) + 1
    IN  /\ Lasting /\ DOMAIN calls' = DOMAIN calls \cup {z} /\ z \notin DOMAIN calls
        /\ \A j \in DOMAIN calls : calls'[j] = calls[j]
        /\ calls'[z].kind = kind /\ calls'[z].tensor = t /\ calls'[z].src = src
        /\ calls'[z].held = {shard[t][src]} /\ calls'[z].stale = groupOpen
        /\ DOMAIN calls'[z].state = to /\ DOMAIN calls'[z].got = to
        /\ \A d \in to : calls'[z].state[d] = state /\ calls'[z].got[d] = got

LEMMA CallBegins ==
    ASSUME Shape, Len(calls) < MaxCalls,
           NEW kind \in {"tasks", "fallback", "nccl"}, NEW t \in Tensors, NEW src \in GPUs,
           NEW to \in SUBSET GPUs, NEW state \in States, NEW got \in Values,
           calls' = Append(calls, NewCall(kind, t, src, to, state, got))
    PROVE  Begun(kind, t, src, to, state, got)
<1> PICK c, z, x : /\ c = NewCall(kind, t, src, to, state, got) /\ z = Len(calls) + 1
                   /\ x = shard[t][src]
  OBVIOUS
<1>1. calls \in Seq(RouterCall) /\ x \in Values /\ groupOpen \in BOOLEAN
  BY DEF Shape
<1> PICK s, v : s = [d \in to |-> state] /\ v = [d \in to |-> got]
  OBVIOUS
<1>2. /\ s \in [to -> States] /\ v \in [to -> Values] /\ DOMAIN s = to /\ DOMAIN v = to
      /\ \A d \in to : s[d] = state /\ v[d] = got
  OBVIOUS
<1>3. s \in Maps(States) /\ v \in Maps(Values)
  BY <1>2, MapsAre
<1>4. /\ c.kind = kind /\ c.tensor = t /\ c.src = src /\ c.state = s /\ c.got = v
      /\ c.held = {x} /\ c.stale = groupOpen
      /\ c = [kind |-> kind, tensor |-> t, src |-> src, state |-> s, got |-> v,
              held |-> {x}, stale |-> groupOpen]
  BY DEF NewCall
<1>5. c \in RouterCall
  BY <1>1, <1>3, <1>4 DEF RouterCall
<1>6. /\ calls' \in Seq(RouterCall) /\ DOMAIN calls' = DOMAIN calls \cup {z}
      /\ z \notin DOMAIN calls /\ calls'[z] = c /\ Len(calls') = Len(calls) + 1
      /\ \A j \in DOMAIN calls : calls'[j] = calls[j]
  BY <1>1, <1>5
<1>7. Len(calls') <= MaxCalls
  BY <1>1, <1>6, RouterAssumption
<1>8. Lasting
  BY <1>2, <1>4, <1>6, <1>7 DEF Lasting, Shape
<1>9. QED
  BY <1>2, <1>4, <1>6, <1>8 DEF Begun

\* A collective has changed arrays under the calls.
Overwritten(t, S, v) ==
    /\ Lasting /\ DOMAIN calls' = DOMAIN calls
    /\ shard' \in [Tensors -> [GPUs -> Values]]
    /\ \A u \in Tensors, g \in GPUs :
            shard'[u][g] = IF u = t /\ g \in S THEN v ELSE shard[u][g]
    /\ \A i \in DOMAIN calls :
        /\ calls'[i].state = calls[i].state /\ calls'[i].got = calls[i].got
        /\ calls[i].held \subseteq calls'[i].held
        /\ calls[i].tensor = t /\ calls[i].src \in S /\ ~ Ended(calls[i]) => v \in calls'[i].held

LEMMA OverwriteMeans ==
    ASSUME Shape, NEW t \in Tensors, NEW S \in SUBSET GPUs, NEW v \in Values, Overwrite(t, S, v)
    PROVE  Overwritten(t, S, v)
<1>1. /\ shard \in [Tensors -> [GPUs -> Values]] /\ calls \in Seq(RouterCall)
      /\ Len(calls) <= MaxCalls /\ DOMAIN calls = 1 .. Len(calls) /\ Len(calls) \in Nat
  BY DEF Shape
<1> PICK m : m = [g \in GPUs |-> IF g \in S THEN v ELSE shard[t][g]]
  OBVIOUS
<1>2. m \in [GPUs -> Values] /\ \A g \in GPUs : m[g] = IF g \in S THEN v ELSE shard[t][g]
  BY <1>1
<1>3. shard' = [shard EXCEPT ![t] = m]
  BY <1>1 DEF Overwrite
<1>4. /\ shard' \in [Tensors -> [GPUs -> Values]]
      /\ \A u \in Tensors, g \in GPUs :
            shard'[u][g] = IF u = t /\ g \in S THEN v ELSE shard[u][g]
  BY <1>1, <1>2, <1>3
<1>5. /\ DOMAIN calls' = 1 .. Len(calls)
      /\ \A i \in DOMAIN calls :
            calls'[i] = IF calls[i].tensor = t /\ calls[i].src \in S /\ ~ Ended(calls[i])
                        THEN [calls[i] EXCEPT !.held = @ \cup {v}] ELSE calls[i]
  BY <1>1 DEF Overwrite
<1>6. \A c \in RouterCall :
        LET n == [c EXCEPT !.held = @ \cup {v}]
        IN  /\ n \in RouterCall /\ n.held = c.held \cup {v}
            /\ n.kind = c.kind /\ n.tensor = c.tensor /\ n.src = c.src /\ n.stale = c.stale
            /\ n.state = c.state /\ n.got = c.got
  BY DEF RouterCall
<1>7. \A i \in DOMAIN calls :
        /\ calls'[i] \in RouterCall
        /\ calls'[i].kind = calls[i].kind /\ calls'[i].tensor = calls[i].tensor
        /\ calls'[i].src = calls[i].src /\ calls'[i].stale = calls[i].stale
        /\ calls'[i].state = calls[i].state /\ calls'[i].got = calls[i].got
        /\ calls[i].held \subseteq calls'[i].held
        /\ calls[i].tensor = t /\ calls[i].src \in S /\ ~ Ended(calls[i]) => v \in calls'[i].held
  <2> SUFFICES ASSUME NEW i \in DOMAIN calls
               PROVE  /\ calls'[i] \in RouterCall
                      /\ calls'[i].kind = calls[i].kind /\ calls'[i].tensor = calls[i].tensor
                      /\ calls'[i].src = calls[i].src /\ calls'[i].stale = calls[i].stale
                      /\ calls'[i].state = calls[i].state /\ calls'[i].got = calls[i].got
                      /\ calls[i].held \subseteq calls'[i].held
                      /\ calls[i].tensor = t /\ calls[i].src \in S /\ ~ Ended(calls[i])
                            => v \in calls'[i].held
    OBVIOUS
  <2>1. calls[i] \in RouterCall
    BY <1>1
  <2>2. CASE calls[i].tensor = t /\ calls[i].src \in S /\ ~ Ended(calls[i])
    BY <1>5, <1>6, <2>1, <2>2
  <2>3. CASE ~ (calls[i].tensor = t /\ calls[i].src \in S /\ ~ Ended(calls[i]))
    BY <1>5, <2>1, <2>3
  <2>4. QED
    BY <2>2, <2>3
<1>8. calls' \in Seq(RouterCall) /\ Len(calls') = Len(calls)
  <2>1. calls' = [i \in 1 .. Len(calls) |-> calls'[i]]
    BY <1>1 DEF Overwrite
  <2>2. \A i \in 1 .. Len(calls) : calls'[i] \in RouterCall
    BY <1>1, <1>7
  <2>3. QED
    BY <1>1, <1>5, <2>1, <2>2
<1>9. Lasting
  BY <1>1, <1>5, <1>7, <1>8 DEF Lasting, Shape
<1>10. QED
  BY <1>1, <1>4, <1>5, <1>7, <1>9 DEF Overwritten


LEMMA NothingOverwritten ==
    ASSUME Shape, UNCHANGED <<shard, calls>>, NEW t, NEW v PROVE Overwritten(t, {}, v)
  BY DEF Overwritten, Lasting, Shape

-----------------------------------------------------------------------------
(* Requests.                                                               *)

LEMMA RequestBegins ==
    ASSUME Shape, Request
    PROVE  /\ UNCHANGED <<platform, shard, ledger, reductions>>
           /\ groupOpen' \in BOOLEAN /\ (groupOpen' => platform = "nccl")
           /\ \E kind \in {"tasks", "fallback", "nccl"}, t \in Tensors, src \in GPUs,
                 to \in SUBSET GPUs, state \in {"waiting", "done"}, got \in Values :
                /\ Begun(kind, t, src, to, state, got)
                /\ state = "done" <=> kind = "nccl"
                /\ kind = "nccl" /\ ~ groupOpen /\ t.dtype \in {"float16", "float32"}
                        => got = shard[t][src]
<1>1. /\ Junk \in Values /\ "waiting" \in States /\ "done" \in States
      /\ groupOpen \in BOOLEAN /\ (groupOpen => platform = "nccl")
  BY DEF Values, States, Shape
<1>2. PICK t \in Tensors, src \in Sources :
        \/ \E dst \in GPUs : Transfer(t, src, dst)
        \/ \E dsts \in (SUBSET GPUs) \ {{}} :
            \/ BroadcastTasks(t, src, dsts)
            \/ NcclBroadcast(t, src, dsts)
            \/ NcclBroadcastFails(t, src, dsts)
  BY DEF Request
<1>3. src \in GPUs /\ shard[t][src] \in Values
  BY RouterAssumption DEF Shape
<1>4. ASSUME NEW dst \in GPUs, Transfer(t, src, dst)
      PROVE  /\ UNCHANGED <<platform, shard, ledger, groupOpen, reductions>>
             /\ Begun("tasks", t, src, {dst}, "waiting", Junk)
  BY <1>1, <1>3, <1>4, CallBegins DEF Transfer, MoreCalls
<1>5. ASSUME NEW dsts \in (SUBSET GPUs) \ {{}}, BroadcastTasks(t, src, dsts)
      PROVE  /\ UNCHANGED <<platform, shard, ledger, groupOpen, reductions>>
             /\ Begun("tasks", t, src, dsts \ {src}, "waiting", Junk)
  <2>1. dsts \ {src} \in SUBSET GPUs
    OBVIOUS
  <2>2. QED
    BY <1>1, <1>3, <1>5, <2>1, CallBegins DEF BroadcastTasks, MoreCalls
<1>6. ASSUME NEW dsts \in (SUBSET GPUs) \ {{}}, NcclBroadcast(t, src, dsts)
      PROVE  /\ UNCHANGED <<platform, shard, ledger, groupOpen, reductions>>
             /\ \E v \in Values :
                    /\ Begun("nccl", t, src, dsts \ {src}, "done", v)
                    /\ ~ groupOpen /\ t.dtype \in {"float16", "float32"} => v = shard[t][src]
  <2>1. PICK v \in Received(t, src) :
            calls' = Append(calls, NewCall("nccl", t, src, dsts \ {src}, "done", v))
    BY <1>6 DEF NcclBroadcast
  <2>2. /\ v \in {Junk, shard[t][src]}
        /\ ~ groupOpen /\ t.dtype \in {"float16", "float32"} => v = shard[t][src]
    BY DEF Received
  <2>3. v \in Values /\ dsts \ {src} \in SUBSET GPUs
    BY <1>1, <1>3, <2>2
  <2>4. Len(calls) < MaxCalls /\ UNCHANGED <<platform, shard, ledger, groupOpen, reductions>>
    BY <1>6 DEF NcclBroadcast, MoreCalls
  <2>5. Begun("nccl", t, src, dsts \ {src}, "done", v)
    BY <1>1, <1>3, <2>1, <2>3, <2>4, CallBegins
  <2>6. QED
    BY <2>2, <2>3, <2>4, <2>5
<1>7. ASSUME NEW dsts \in (SUBSET GPUs) \ {{}}, NcclBroadcastFails(t, src, dsts)
      PROVE  /\ UNCHANGED <<platform, shard, ledger, reductions>>
             /\ groupOpen' \in BOOLEAN /\ platform = "nccl"
             /\ Begun("fallback", t, src, dsts \ {src}, "waiting", Junk)
  <2>1. dsts \ {src} \in SUBSET GPUs
    OBVIOUS
  <2>2. /\ UNCHANGED <<platform, shard, ledger, reductions>>
        /\ groupOpen' \in BOOLEAN /\ platform = "nccl" /\ Len(calls) < MaxCalls
        /\ calls' = Append(calls, NewCall("fallback", t, src, dsts \ {src}, "waiting", Junk))
    BY <1>1, <1>7 DEF NcclBroadcastFails, MoreCalls, UsesNccl
  <2>3. QED
    BY <1>1, <1>3, <2>1, <2>2, CallBegins
<1>8. CASE \E dst \in GPUs : Transfer(t, src, dst)
  <2>1. PICK dst \in GPUs : Transfer(t, src, dst)
    BY <1>8
  <2>2. {dst} \in SUBSET GPUs
    OBVIOUS
  <2>3. QED
    BY <1>1, <1>3, <1>4, <2>1, <2>2
<1>9. CASE \E dsts \in (SUBSET GPUs) \ {{}} :
            \/ BroadcastTasks(t, src, dsts)
            \/ NcclBroadcast(t, src, dsts)
            \/ NcclBroadcastFails(t, src, dsts)
  <2>1. PICK dsts \in (SUBSET GPUs) \ {{}} :
            \/ BroadcastTasks(t, src, dsts)
            \/ NcclBroadcast(t, src, dsts)
            \/ NcclBroadcastFails(t, src, dsts)
    BY <1>9
  <2>2. dsts \ {src} \in SUBSET GPUs
    OBVIOUS
  <2>3. CASE BroadcastTasks(t, src, dsts)
    BY <1>1, <1>3, <1>5, <2>2, <2>3
  <2>4. CASE NcclBroadcast(t, src, dsts)
    BY <1>1, <1>3, <1>6, <2>2, <2>4
  <2>5. CASE NcclBroadcastFails(t, src, dsts)
    BY <1>1, <1>3, <1>7, <2>2, <2>5
  <2>6. QED
    BY <2>1, <2>3, <2>4, <2>5
<1>10. QED
  BY <1>2, <1>8, <1>9

-----------------------------------------------------------------------------
(* Reductions.                                                             *)

LEMMA SumReduction ==
    ASSUME NEW values \in [GPUs -> Values], NEW D \in SUBSET GPUs
    PROVE  Reduction("sum", values, D) \in Values
<1>1. IsFiniteSet(D)
  BY RouterAssumption, FS_Subset
<1>2. CASE \E g \in D : values[g] = Junk
  BY <1>2 DEF Reduction, Values
<1>3. CASE ~ \E g \in D : values[g] = Junk
  <2>1. \A g \in D : values[g] \in Int
    BY <1>3 DEF Values
  <2>2. Summable(Int)
    BY DEF Summable
  <2>3. SumFunctionOnSet(values, D) \in Int
    BY <1>1, <2>1, <2>2, SumTyped
  <2>4. Reduction("sum", values, D) = SumFunctionOnSet(values, D)
    BY <1>3 DEF Reduction
  <2>5. QED
    BY <2>3, <2>4 DEF Values
<1>4. QED
  BY <1>2, <1>3

LEMMA NcclSumTyped ==
    ASSUME Shape, NEW t \in Tensors, NEW D \in SUBSET GPUs PROVE NcclSum(t, D) \in Values
<1>1. shard[t] \in [GPUs -> Values]
  BY DEF Shape
<1>2. QED
  BY <1>1, SumReduction DEF NcclSum, Values

ReduceStep(t, op, D) ==
    \/ SwitchReduce(t, op, D)
    \/ NcclReduce(t, op, D)
    \/ \E fault \in {"before", "inside", "after"} : NcclReduceFails(t, op, D, fault)

LEMMA ReduceMoves ==
    ASSUME Shape, NEW t \in Tensors, NEW op \in Operations, NEW D \in Groups, ReduceStep(t, op, D)
    PROVE  /\ UNCHANGED <<platform, ledger>> /\ (\E r : reductions' = Append(reductions, r))
           /\ groupOpen' \in BOOLEAN /\ (groupOpen' => platform = "nccl")
           /\ \E S \in SUBSET GPUs, v \in Values : Overwritten(t, S, v)
<1>1. /\ D \in SUBSET GPUs /\ groupOpen \in BOOLEAN /\ (groupOpen => platform = "nccl")
      /\ Junk \in Values
  BY RouterAssumption DEF Shape, Values
<1>2. CASE SwitchReduce(t, op, D)
  <2>1. UNCHANGED <<shard, calls, groupOpen>>
    BY <1>2 DEF SwitchReduce
  <2>2. UNCHANGED <<platform, ledger>> /\ \E r : reductions' = Append(reductions, r)
    BY <1>2 DEF SwitchReduce, Reduced
  <2>3. Overwritten(t, {}, Junk) /\ {} \in SUBSET GPUs
    BY <2>1, NothingOverwritten
  <2>4. QED
    BY <1>1, <2>1, <2>2, <2>3
<1>3. CASE NcclReduce(t, op, D)
  <2> PICK S, v : S = (IF groupOpen THEN {} ELSE D) /\ v = NcclSum(t, D)
    OBVIOUS
  <2>1. S \in SUBSET GPUs /\ v \in Values
    BY <1>1, NcclSumTyped
  <2>2. Overwrite(t, S, v) /\ groupOpen' = groupOpen
    BY <1>3 DEF NcclReduce
  <2>3. UNCHANGED <<platform, ledger>> /\ \E r : reductions' = Append(reductions, r)
    BY <1>3 DEF NcclReduce, Reduced
  <2>4. Overwritten(t, S, v)
    BY <2>1, <2>2, OverwriteMeans
  <2>5. QED
    BY <1>1, <2>1, <2>2, <2>3, <2>4
<1>4. CASE \E fault \in {"before", "inside", "after"} : NcclReduceFails(t, op, D, fault)
  <2>1. PICK fault \in {"before", "inside", "after"} : NcclReduceFails(t, op, D, fault)
    BY <1>4
  <2>2. PICK S \in SUBSET D :
            /\ Overwrite(t, S, NcclSum(t, D))
            /\ \E result \in SwitchResults("sum", shard'[t], D) : Reduced(t, op, fault, S, result)
    BY <2>1 DEF NcclReduceFails
  <2>3. groupOpen' \in BOOLEAN /\ platform = "nccl"
    BY <1>1, <2>1 DEF NcclReduceFails, UsesNccl
  <2>4. UNCHANGED <<platform, ledger>> /\ \E r : reductions' = Append(reductions, r)
    BY <2>2 DEF Reduced
  <2>5. S \in SUBSET GPUs /\ NcclSum(t, D) \in Values
    BY <1>1, NcclSumTyped
  <2>6. Overwritten(t, S, NcclSum(t, D))
    BY <2>2, <2>5, OverwriteMeans
  <2>7. QED
    BY <2>3, <2>4, <2>5, <2>6
<1>5. QED
  BY <1>2, <1>3, <1>4 DEF ReduceStep

\* The three kinds of steps.
LEMMA NextIs ==
    ASSUME Next
    PROVE  \/ Request
           \/ \E i \in DOMAIN calls : \E d \in DOMAIN calls[i].state : CopyStep(i, d)
           \/ \E t \in Tensors, op \in Operations, D \in Groups : ReduceStep(t, op, D)
  BY DEF Next, Copy, AllReduce, CopyStep, ReduceStep


-----------------------------------------------------------------------------
(* Every step keeps the invariant.                                         *)

LEMMA AppendIs ==
    ASSUME NEW s, IsSequence(s), NEW x, NEW z, z = Append(s, x)
    PROVE  /\ IsSequence(z) /\ Len(z) = Len(s) + 1 /\ DOMAIN z = 1 .. Len(s) + 1
           /\ z[Len(s) + 1] = x /\ \A i \in DOMAIN s : z[i] = s[i]
           /\ DOMAIN s = 1 .. Len(s) /\ Len(s) \in Nat /\ Range(z) = Range(s) \cup {x}
<1> PICK R : R = Range(s) \cup {x}
  OBVIOUS
<1>1. s \in Seq(Range(s)) /\ Range(s) \subseteq R /\ x \in R
  BY DEF IsSequence
<1>2. s \in Seq(R)
  BY <1>1, SeqMonotonic
<1>3. /\ z \in Seq(R) /\ Len(z) = Len(s) + 1 /\ DOMAIN z = 1 .. Len(s) + 1
      /\ z[Len(s) + 1] = x /\ \A i \in DOMAIN s : z[i] = s[i]
      /\ DOMAIN s = 1 .. Len(s) /\ Len(s) \in Nat
  BY <1>1, <1>2
<1>4. Range(z) = R
  <2>1. DOMAIN z = DOMAIN s \cup {Len(s) + 1}
    BY <1>3
  <2>2. QED
    BY <1>3, <2>1 DEF Range
<1>5. QED
  BY <1>3, <1>4 DEF IsSequence

LEMMA RouterInitShape == Init => Shape
<1> SUFFICES ASSUME Init PROVE Shape
  OBVIOUS
<1>1. shard \in [Tensors -> [GPUs -> Values]]
  BY RouterAssumption DEF Init, Values
<1>2. \A T : <<>> \in Seq(T)
  OBVIOUS
<1>3. Len(<<>>) = 0 /\ DOMAIN <<>> = {}
  BY EmptySeq
<1>4. calls \in Seq(RouterCall) /\ completed \in Seq(Nat \X GPUs) /\ IsSequence(reductions)
  BY <1>2 DEF Init, IsSequence
<1>5. pending \in [Tensors -> SUBSET (Nat \X GPUs)]
  BY DEF Init
<1>6. Len(calls) <= MaxCalls /\ \A i \in DOMAIN calls : DOMAIN calls[i].got = DOMAIN calls[i].state
  BY <1>3, RouterAssumption DEF Init
<1>7. QED
  BY <1>1, <1>4, <1>5, <1>6 DEF Init, Shape

LEMMA NextRouterShape == Shape /\ [Next]_vars => Shape'
<1> SUFFICES ASSUME Shape, [Next]_vars PROVE Shape'
  OBVIOUS
<1>1. CASE UNCHANGED vars
  BY <1>1 DEF Shape, vars, ledger
<1>2. CASE Request
  <2>1. Lasting /\ UNCHANGED <<platform, shard, pending, completed, total, reductions>>
    BY <1>2, RequestBegins DEF Begun, ledger
  <2>2. groupOpen' \in BOOLEAN /\ (groupOpen' => platform = "nccl")
    BY <1>2, RequestBegins
  <2>3. QED
    BY <2>1, <2>2 DEF Lasting, Shape
<1>3. ASSUME NEW i \in DOMAIN calls, NEW d \in DOMAIN calls[i].state, CopyStep(i, d)
      PROVE  Shape'
  <2>1. Lasting /\ UNCHANGED <<platform, shard, groupOpen, reductions>>
    BY <1>3, CopyMoves DEF Moved
  <2>2. /\ pending' \in [Tensors -> SUBSET (Nat \X GPUs)]
        /\ completed' \in Seq(Nat \X GPUs) /\ total' \in Nat
    <3> PICK j, t, n : j = <<i, d>> /\ t = calls[i].tensor /\ n = calls[i].tensor.nbytes
      OBVIOUS
    <3>1. j \in Nat \X GPUs /\ t \in Tensors /\ n \in Nat
      BY CallIs
    <3>2. /\ pending \in [Tensors -> SUBSET (Nat \X GPUs)]
          /\ completed \in Seq(Nat \X GPUs) /\ total \in Nat
      BY DEF Shape
    <3>3. \/ /\ pending' = [pending EXCEPT ![t] = {}] /\ completed' = Append(completed, j)
             /\ total' = total + n
          \/ pending' = [pending EXCEPT ![t] = {j}] /\ UNCHANGED <<completed, total>>
          \/ UNCHANGED <<pending, completed, total>>
      BY <1>3, CopyMoves DEF Complete, ledger
    <3> PICK J : J = Nat \X GPUs
      OBVIOUS
    <3>4. /\ j \in J /\ t \in Tensors /\ n \in Nat /\ total \in Nat
          /\ pending \in [Tensors -> SUBSET J] /\ completed \in Seq(J)
      BY <3>1, <3>2
    <3>5. pending' \in [Tensors -> SUBSET J]
      <4>1. {j} \in SUBSET J /\ {} \in SUBSET J
        BY <3>4
      <4>2. QED
        BY ONLY <3>3, <3>4, <4>1
    <3>6. completed' \in Seq(J)
      BY ONLY <3>3, <3>4, SMTT(40)
    <3>7. total' \in Nat
      BY ONLY <3>3, <3>4
    <3>8. QED
      BY <3>5, <3>6, <3>7
  <2>3. QED
    BY <2>1, <2>2 DEF Lasting, Shape
<1>4. ASSUME NEW t \in Tensors, NEW op \in Operations, NEW D \in Groups, ReduceStep(t, op, D)
      PROVE  Shape'
  <2>1. /\ UNCHANGED <<platform, pending, completed, total>>
        /\ groupOpen' \in BOOLEAN /\ (groupOpen' => platform = "nccl")
        /\ shard' \in [Tensors -> [GPUs -> Values]] /\ Lasting
    BY <1>4, ReduceMoves DEF Overwritten, ledger
  <2>2. IsSequence(reductions')
    BY <1>4, ReduceMoves, AppendIs DEF Shape
  <2>3. QED
    BY <2>1, <2>2 DEF Lasting, Shape, IsSequence
<1>5. QED
  BY <1>1, <1>2, <1>3, <1>4, NextIs

LEMMA NextHeld == Shape /\ Held /\ [Next]_vars => Held'
<1> SUFFICES ASSUME Shape, Held, [Next]_vars PROVE Held'
  OBVIOUS
<1> DEFINE Good(i) ==
            /\ ~ Ended(calls[i]) => shard[calls[i].tensor][calls[i].src] \in calls[i].held
            /\ ~ Broken(calls[i]) /\ ~ Lost(calls[i]) =>
                \A d \in DOMAIN calls[i].state :
                    calls[i].state[d] = "done" => calls[i].got[d] \in calls[i].held
<1>0. \A i \in DOMAIN calls : Good(i)
  BY DEF Held
<1>1. CASE UNCHANGED vars
  BY <1>0, <1>1 DEF Held, vars
<1>2. CASE Request
  <2>1. PICK kind \in {"tasks", "fallback", "nccl"}, t \in Tensors, src \in GPUs,
             to \in SUBSET GPUs, state \in {"waiting", "done"}, got \in Values :
            /\ Begun(kind, t, src, to, state, got)
            /\ state = "done" <=> kind = "nccl"
            /\ kind = "nccl" /\ ~ groupOpen /\ t.dtype \in {"float16", "float32"}
                    => got = shard[t][src]
    BY <1>2, RequestBegins
  <2>2. shard' = shard
    BY <1>2, RequestBegins
  <2> PICK z : z = Len(calls) + 1
    OBVIOUS
  <2>3. /\ DOMAIN calls' = DOMAIN calls \cup {z}
        /\ \A j \in DOMAIN calls : calls'[j] = calls[j]
        /\ calls'[z].kind = kind /\ calls'[z].tensor = t /\ calls'[z].src = src
        /\ calls'[z].held = {shard[t][src]} /\ calls'[z].stale = groupOpen
        /\ DOMAIN calls'[z].state = to
        /\ \A d \in to : calls'[z].state[d] = state /\ calls'[z].got[d] = got
    BY <2>1 DEF Begun
  <2>4. \A i \in DOMAIN calls : Good(i)'
    BY <1>0, <2>2, <2>3
  <2>5. Good(z)'
    BY <2>1, <2>2, <2>3 DEF Lost
  <2>6. QED
    BY <2>3, <2>4, <2>5 DEF Held
<1>3. ASSUME NEW i \in DOMAIN calls, NEW d \in DOMAIN calls[i].state, CopyStep(i, d)
      PROVE  Held'
  <2>1. /\ shard' = shard /\ calls[i].state[d] \in {"waiting", "copying"}
        /\ \E state, got : /\ Moved(i, d, state, got)
                           /\ state = "done" => got = shard[calls[i].tensor][calls[i].src]
    BY <1>3, CopyMoves
  <2>2. PICK state, got : /\ Moved(i, d, state, got)
                          /\ state = "done" => got = shard[calls[i].tensor][calls[i].src]
    BY <2>1
  <2>3. \A j \in DOMAIN calls : j # i => Good(j)'
    BY <1>0, <2>1, <2>2 DEF Moved
  <2>4. Good(i)'
    <3>1. /\ calls'[i].kind = calls[i].kind /\ calls'[i].tensor = calls[i].tensor
          /\ calls'[i].src = calls[i].src /\ calls'[i].stale = calls[i].stale
          /\ DOMAIN calls'[i].state = DOMAIN calls[i].state /\ calls'[i].held = calls[i].held
          /\ calls'[i].state[d] = state /\ calls'[i].got[d] = got
          /\ \A e \in DOMAIN calls[i].state : e # d => /\ calls'[i].state[e] = calls[i].state[e]
                                                       /\ calls'[i].got[e] = calls[i].got[e]
      BY <2>2 DEF Moved, Lasting
    <3>2. ~ Returned(calls[i])
      BY <2>1 DEF Returned
    <3>3. Broken(calls[i]) => Broken(calls'[i])
      BY <2>1, <3>1 DEF Broken
    <3>4. ~ Broken(calls'[i]) =>
            /\ shard[calls[i].tensor][calls[i].src] \in calls[i].held
            /\ ~ Broken(calls[i])
      BY <1>0, <3>2, <3>3 DEF Ended
    <3>5. Lost(calls'[i]) <=> Lost(calls[i])
      BY <3>1 DEF Lost
    <3>6. ~ Ended(calls'[i]) => shard'[calls'[i].tensor][calls'[i].src] \in calls'[i].held
      BY <2>1, <3>1, <3>4 DEF Ended
    <3>7. ASSUME ~ Broken(calls'[i]), ~ Lost(calls'[i]), NEW e \in DOMAIN calls'[i].state,
                 calls'[i].state[e] = "done"
          PROVE  calls'[i].got[e] \in calls'[i].held
      <4>1. CASE e = d
        BY <2>2, <3>1, <3>4, <3>7, <4>1
      <4>2. CASE e # d
        BY <1>0, <3>1, <3>4, <3>5, <3>7, <4>2
      <4>3. QED
        BY <4>1, <4>2
    <3>8. QED
      BY <3>6, <3>7
  <2>5. DOMAIN calls' = DOMAIN calls
    BY <2>2 DEF Moved
  <2>6. QED
    BY <2>3, <2>4, <2>5 DEF Held
<1>4. ASSUME NEW t \in Tensors, NEW op \in Operations, NEW D \in Groups, ReduceStep(t, op, D)
      PROVE  Held'
  <2>1. PICK S \in SUBSET GPUs, v \in Values : Overwritten(t, S, v)
    BY <1>4, ReduceMoves
  <2>2. ASSUME NEW i \in DOMAIN calls PROVE Good(i)'
    <3>1. /\ calls'[i].kind = calls[i].kind /\ calls'[i].tensor = calls[i].tensor
          /\ calls'[i].src = calls[i].src /\ calls'[i].stale = calls[i].stale
          /\ calls'[i].state = calls[i].state /\ calls'[i].got = calls[i].got
          /\ calls[i].held \subseteq calls'[i].held
          /\ calls[i].tensor = t /\ calls[i].src \in S /\ ~ Ended(calls[i])
                => v \in calls'[i].held
      BY <2>1 DEF Overwritten, Lasting
    <3>2. /\ calls[i].tensor \in Tensors /\ calls[i].src \in GPUs
      BY CallIs
    <3>3. shard'[calls[i].tensor][calls[i].src] =
            IF calls[i].tensor = t /\ calls[i].src \in S THEN v
            ELSE shard[calls[i].tensor][calls[i].src]
      BY <2>1, <3>2 DEF Overwritten
    <3>4. /\ Broken(calls'[i]) <=> Broken(calls[i])
          /\ Ended(calls'[i]) <=> Ended(calls[i])
          /\ Lost(calls'[i]) <=> Lost(calls[i])
      BY <3>1 DEF Broken, Returned, Ended, Lost
    <3>5. QED
      BY <1>0, <3>1, <3>3, <3>4
  <2>3. DOMAIN calls' = DOMAIN calls
    BY <2>1 DEF Overwritten
  <2>4. QED
    BY <2>2, <2>3 DEF Held
<1>5. QED
  BY <1>1, <1>2, <1>3, <1>4, NextIs


LEMMA JobIs ==
    ASSUME Shape, NEW i, NEW d
    PROVE  /\ <<i, d>> \in Jobs <=> i \in DOMAIN calls /\ d \in DOMAIN calls[i].state
           /\ <<i, d>> \in DoneJobs <=> /\ i \in DOMAIN calls /\ d \in DOMAIN calls[i].state
                                        /\ calls[i].kind = "tasks" /\ calls[i].state[d] = "done"
<1>1. ASSUME i \in DOMAIN calls, d \in DOMAIN calls[i].state
      PROVE  i \in 1 .. MaxCalls /\ d \in GPUs
  BY <1>1, CallIs, RouterAssumption DEF Shape
<1>2. QED
  BY <1>1 DEF Jobs, DoneJobs

LEMMA JobsAre ==
    ASSUME Shape
    PROVE  /\ \A j \in Jobs : j = <<j[1], j[2]>> /\ j[1] \in DOMAIN calls
                              /\ j[2] \in DOMAIN calls[j[1]].state
           /\ DoneJobs \subseteq Jobs /\ IsFiniteSet(DoneJobs)
           /\ \A j \in DoneJobs : DoneBytes[j] = calls[j[1]].tensor.nbytes /\ DoneBytes[j] \in Nat
           /\ DOMAIN DoneBytes = DoneJobs
<1>1. /\ \A j \in Jobs : j = <<j[1], j[2]>> /\ j[1] \in DOMAIN calls
                         /\ j[2] \in DOMAIN calls[j[1]].state
      /\ DoneJobs \subseteq Jobs
  BY DEF Jobs, DoneJobs
<1>2. IsFiniteSet((1 .. MaxCalls) \X GPUs)
  <2>1. IsFiniteSet(1 .. MaxCalls) /\ IsFiniteSet(GPUs)
    BY RouterAssumption, FS_Interval
  <2>2. QED
    BY <2>1, FS_Product
<1>3. IsFiniteSet(DoneJobs)
  BY <1>2, FS_Subset DEF DoneJobs, Jobs
<1>4. QED
  BY <1>1, <1>3, CallIs DEF DoneBytes

\* No transfer is done by the step.
LEMMA SameJobs ==
    ASSUME Shape, Shape', Lasting,
           \A i \in DOMAIN calls : \A d \in DOMAIN calls[i].state :
                calls[i].kind = "tasks" =>
                    (calls'[i].state[d] = "done" <=> calls[i].state[d] = "done"),
           \A i \in DOMAIN calls' : i \notin DOMAIN calls => calls'[i].kind # "tasks"
                    \/ \A d \in DOMAIN calls'[i].state : calls'[i].state[d] # "done"
    PROVE  DoneJobs' = DoneJobs /\ DoneBytes' = DoneBytes
<1>1. DoneJobs' = DoneJobs
  BY DEF DoneJobs, Jobs, Lasting
<1>2. \A j \in DoneJobs : calls'[j[1]].tensor = calls[j[1]].tensor
  BY JobsAre DEF Lasting
<1>3. QED
  BY <1>1, <1>2 DEF DoneBytes

\* The transfer of call i to d is done by the step.
LEMMA OneMoreJob ==
    ASSUME Shape, Shape', NEW i \in DOMAIN calls, NEW d \in DOMAIN calls[i].state,
           calls[i].kind = "tasks", calls[i].state[d] # "done",
           NEW got, Moved(i, d, "done", got), NEW j, j = <<i, d>>
    PROVE  /\ j \notin DoneJobs /\ DoneJobs' = DoneJobs \cup {j}
           /\ SumFunction(DoneBytes)' = SumFunction(DoneBytes) + calls[i].tensor.nbytes
<1>1. j \notin DoneJobs
  BY JobIs
<1>2. DoneJobs' = DoneJobs \cup {j}
  <2>1. j \in Jobs /\ Jobs' = Jobs
    BY JobIs DEF Jobs, Moved, Lasting
  <2>2. \A k \in Jobs : k # j => (k \in DoneJobs' <=> k \in DoneJobs)
    <3> SUFFICES ASSUME NEW k \in Jobs, k # j PROVE k \in DoneJobs' <=> k \in DoneJobs
      OBVIOUS
    <3>1. k = <<k[1], k[2]>> /\ k[1] \in DOMAIN calls /\ k[2] \in DOMAIN calls[k[1]].state
      BY JobsAre
    <3>2. /\ calls'[k[1]].kind = calls[k[1]].kind
          /\ calls'[k[1]].state[k[2]] = calls[k[1]].state[k[2]]
      BY <3>1 DEF Moved, Lasting
    <3>3. QED
      BY <2>1, <3>2 DEF DoneJobs
  <2>3. j \in DoneJobs'
    BY <2>1 DEF DoneJobs, Moved, Lasting
  <2>4. DoneJobs \subseteq Jobs /\ DoneJobs' \subseteq Jobs
    BY <2>1 DEF DoneJobs
  <2>5. QED
    BY <2>1, <2>2, <2>3, <2>4
<1> PICK S, f, g : S = DoneJobs /\ f = DoneBytes' /\ g = DoneBytes
  OBVIOUS
<1>3. IsFiniteSet(S) /\ DOMAIN g = S
  BY JobsAre
<1>4. DOMAIN f = S \cup {j}
  BY <1>2 DEF DoneBytes
<1>5. f[j] = calls[i].tensor.nbytes /\ f[j] \in Int
  <2>1. f[j] = calls'[i].tensor.nbytes
    BY <1>2 DEF DoneBytes
  <2>2. QED
    BY <2>1, CallIs DEF Moved, Lasting
<1>6. \A k \in S : f[k] = g[k] /\ f[k] \in Int
  <2> SUFFICES ASSUME NEW k \in S PROVE f[k] = g[k] /\ f[k] \in Int
    OBVIOUS
  <2>1. k[1] \in DOMAIN calls /\ g[k] = calls[k[1]].tensor.nbytes /\ g[k] \in Nat
    BY JobsAre
  <2>2. f[k] = calls'[k[1]].tensor.nbytes
    BY <1>2 DEF DoneBytes
  <2>3. QED
    BY <2>1, <2>2 DEF Moved, Lasting
<1>7. SumFunctionOnSet(f, S \cup {j}) = SumFunctionOnSet(g, S) + f[j]
  <2>1. j \notin S /\ IsFiniteSet(S) /\ f[j] \in Int /\ \A k \in S : f[k] \in Int /\ f[k] = g[k]
    BY <1>1, <1>3, <1>5, <1>6
  <2>2. QED
    BY ONLY <2>1, SumAdds
<1>8. SumFunction(DoneBytes)' = SumFunctionOnSet(f, S \cup {j})
  BY <1>4 DEF SumFunction
<1>9. SumFunction(DoneBytes) = SumFunctionOnSet(g, S)
  BY <1>3 DEF SumFunction
<1>10. QED
  BY <1>1, <1>2, <1>5, <1>7, <1>8, <1>9

LEMMA NextRecorded == Shape /\ Shape' /\ Recorded /\ [Next]_vars => Recorded'
<1> SUFFICES ASSUME Shape, Shape', Recorded, [Next]_vars PROVE Recorded'
  OBVIOUS
<1>0. ASSUME DoneJobs' = DoneJobs, DoneBytes' = DoneBytes, UNCHANGED <<completed, total>>
      PROVE  Recorded'
  BY <1>0 DEF Recorded
<1>1. CASE UNCHANGED vars
  BY <1>1 DEF Recorded, DoneBytes, DoneJobs, Jobs, vars, ledger
<1>2. CASE Request
  <2>1. PICK kind \in {"tasks", "fallback", "nccl"}, t \in Tensors, src \in GPUs,
             to \in SUBSET GPUs, state \in {"waiting", "done"}, got \in Values :
            Begun(kind, t, src, to, state, got) /\ (state = "done" <=> kind = "nccl")
    BY <1>2, RequestBegins
  <2>2. DoneJobs' = DoneJobs /\ DoneBytes' = DoneBytes
    BY <2>1, SameJobs DEF Begun
  <2>3. QED
    BY <1>0, <1>2, <2>2, RequestBegins DEF ledger
<1>3. ASSUME NEW i \in DOMAIN calls, NEW d \in DOMAIN calls[i].state, CopyStep(i, d)
      PROVE  Recorded'
  <2>1. CASE calls[i].kind = "tasks" /\ Complete(i, d)
             /\ Moved(i, d, "done", shard[calls[i].tensor][calls[i].src])
    <3> PICK j : j = <<i, d>>
      OBVIOUS
    <3>1. /\ j \notin DoneJobs /\ DoneJobs' = DoneJobs \cup {j}
          /\ SumFunction(DoneBytes)' = SumFunction(DoneBytes) + calls[i].tensor.nbytes
      BY <1>3, <2>1, CopyMoves, OneMoreJob
    <3>2. completed' = Append(completed, j) /\ total' = total + calls[i].tensor.nbytes
      BY <2>1 DEF Complete
    <3>3. /\ completed \in Seq(Nat \X GPUs) /\ j \in Nat \X GPUs
      BY CallIs DEF Shape
    <3>4. IsSequence(completed)
      BY <3>3 DEF IsSequence, Range
    <3>5. Range(completed') = Range(completed) \cup {j} /\ Len(completed') = Len(completed) + 1
      BY <3>2, <3>4, AppendIs
    <3>6. Cardinality(DoneJobs \cup {j}) = Cardinality(DoneJobs) + 1
      BY <3>1, JobsAre, FS_AddElement
    <3>7. QED
      BY <3>1, <3>2, <3>5, <3>6 DEF Recorded
  <2>2. CASE /\ UNCHANGED <<completed, total>>
             /\ \E state, got : /\ Moved(i, d, state, got)
                                /\ state = "done" => calls[i].kind = "fallback"
    <3>1. PICK state, got : /\ Moved(i, d, state, got)
                            /\ state = "done" => calls[i].kind = "fallback"
      BY <2>2
    <3>2. calls[i].state[d] # "done"
      BY <1>3, CopyMoves
    <3>3. DoneJobs' = DoneJobs /\ DoneBytes' = DoneBytes
      <4>1. \A k \in DOMAIN calls : \A e \in DOMAIN calls[k].state :
                calls[k].kind = "tasks" =>
                    (calls'[k].state[e] = "done" <=> calls[k].state[e] = "done")
        BY <3>1, <3>2 DEF Moved
      <4>2. Lasting /\ DOMAIN calls' = DOMAIN calls
        BY <3>1 DEF Moved
      <4>3. QED
        BY <4>1, <4>2, SameJobs
    <3>4. QED
      BY <1>0, <2>2, <3>3
  <2>3. QED
    BY <1>3, <2>1, <2>2, CopyMoves DEF ledger
<1>4. ASSUME NEW t \in Tensors, NEW op \in Operations, NEW D \in Groups, ReduceStep(t, op, D)
      PROVE  Recorded'
  <2>1. PICK S \in SUBSET GPUs, v \in Values : Overwritten(t, S, v)
    BY <1>4, ReduceMoves
  <2>2. DoneJobs' = DoneJobs /\ DoneBytes' = DoneBytes
    BY <2>1, SameJobs DEF Overwritten
  <2>3. QED
    BY <1>0, <1>4, <2>2, ReduceMoves DEF ledger
<1>5. QED
  BY <1>1, <1>2, <1>3, <1>4, NextIs


LEMMA NextAwaited == Shape /\ Shape' /\ Awaited /\ [Next]_vars => Awaited'
<1> SUFFICES ASSUME Shape, Shape', Awaited, [Next]_vars PROVE Awaited'
  OBVIOUS
<1> DEFINE Waits(u, j) == /\ j \in Jobs /\ calls[j[1]].tensor = u
                          /\ calls[j[1]].state[j[2]] \in {"copying", "failed"}
<1>0. ASSUME UNCHANGED pending, Lasting,
             \A u \in Tensors : \A j \in pending[u] :
                calls'[j[1]].state[j[2]] \in {"copying", "failed"}
      PROVE  Awaited'
  <2>1. \A u \in Tensors : \A j \in pending[u] : Waits(u, j)
    BY DEF Awaited
  <2>2. \A u \in Tensors : \A j \in pending[u] : Waits(u, j)'
    BY <1>0, <2>1, JobsAre DEF Jobs, Lasting
  <2>3. QED
    BY <1>0, <2>2 DEF Awaited
<1>1. CASE UNCHANGED vars
  BY <1>1 DEF Awaited, Jobs, vars, ledger
<1>2. CASE Request
  <2>1. UNCHANGED pending /\ Lasting /\ \A i \in DOMAIN calls : calls'[i] = calls[i]
    BY <1>2, RequestBegins DEF Begun, ledger
  <2>2. \A u \in Tensors : \A j \in pending[u] :
            calls'[j[1]].state[j[2]] \in {"copying", "failed"}
    BY <2>1, JobsAre DEF Awaited
  <2>3. QED
    BY <1>0, <2>1, <2>2
<1>3. ASSUME NEW i \in DOMAIN calls, NEW d \in DOMAIN calls[i].state, CopyStep(i, d)
      PROVE  Awaited'
  <2>1. PICK state, got : Moved(i, d, state, got)
    BY <1>3, CopyMoves
  <2> PICK t, x : t = calls[i].tensor /\ x = <<i, d>>
    OBVIOUS
  <2>2. t \in Tensors /\ pending \in [Tensors -> SUBSET (Nat \X GPUs)]
    BY CallIs DEF Shape
  \* The jobs of other tensors, and of other copies, are as they were.
  <2>3. ASSUME NEW u \in Tensors, NEW j \in pending[u], j # x PROVE Waits(u, j)'
    <3>1. /\ j = <<j[1], j[2]>> /\ j[1] \in DOMAIN calls /\ j[2] \in DOMAIN calls[j[1]].state
          /\ calls[j[1]].tensor = u /\ calls[j[1]].state[j[2]] \in {"copying", "failed"}
      BY JobsAre DEF Awaited
    <3>2. j[1] # i \/ j[2] # d
      BY <2>3, <3>1
    <3>3. /\ calls'[j[1]].tensor = u /\ calls'[j[1]].state[j[2]] = calls[j[1]].state[j[2]]
      BY <2>1, <3>1, <3>2 DEF Moved, Lasting
    <3>4. j \in Jobs'
      BY <2>1, <3>1 DEF Awaited, Jobs, Moved, Lasting
    <3>5. QED
      BY <3>1, <3>3, <3>4
  <2>4. x \in pending[t] => calls[i].state[d] = "copying"
    BY <1>3, <2>2, CopyMoves DEF Awaited
  <2>5. CASE Complete(i, d)
    <3>1. /\ pending'[t] = {} /\ \A u \in Tensors : u # t => pending'[u] = pending[u]
      BY <2>2, <2>5 DEF Complete
    <3>2. \A u \in Tensors : u # t => x \notin pending[u]
      BY DEF Awaited
    <3>3. \A u \in Tensors : \A j \in pending'[u] : Waits(u, j)'
      BY <2>3, <3>1, <3>2
    <3>4. \A u \in Tensors : Cardinality(pending'[u]) <= 1
      <4>1. Cardinality({}) = 0
        BY FS_EmptySet
      <4>2. \A u \in Tensors : Cardinality(pending[u]) <= 1
        BY DEF Awaited
      <4>3. \A u \in Tensors : u # t => Cardinality(pending'[u]) <= 1
        BY <3>1, <4>2
      <4>4. Cardinality(pending'[t]) <= 1
        BY <3>1, <4>1
      <4>5. QED
        BY <4>3, <4>4
    <3>5. QED
      BY <3>3, <3>4 DEF Awaited
  <2>6. CASE pending' = [pending EXCEPT ![t] = {x}] /\ Moved(i, d, "copying", calls[i].got[d])
    <3>1. /\ pending'[t] = {x} /\ \A u \in Tensors : u # t => pending'[u] = pending[u]
      BY <2>2, <2>6
    <3>2. \A u \in Tensors : u # t => x \notin pending[u]
      BY DEF Awaited
    <3>3. Waits(t, x)'
      <4>1. x \in Jobs'
        BY <2>1, JobIs DEF Jobs, Moved, Lasting
      <4>2. QED
        BY <2>6, <4>1 DEF Moved, Lasting
    <3>4. \A u \in Tensors : \A j \in pending'[u] : Waits(u, j)'
      BY <2>3, <3>1, <3>2, <3>3
    <3>5. \A u \in Tensors : Cardinality(pending'[u]) <= 1
      <4>1. Cardinality({x}) = 1
        BY FS_Singleton
      <4>2. \A u \in Tensors : Cardinality(pending[u]) <= 1
        BY DEF Awaited
      <4>3. \A u \in Tensors : u # t => Cardinality(pending'[u]) <= 1
        BY <3>1, <4>2
      <4>4. Cardinality(pending'[t]) <= 1
        BY <3>1, <4>1
      <4>5. QED
        BY <4>3, <4>4
    <3>6. QED
      BY <3>4, <3>5 DEF Awaited
  <2>7. CASE UNCHANGED pending /\ (x \in pending[t] => Moved(i, d, "failed", calls[i].got[d]))
    <3>1. \A u \in Tensors : x \in pending[u] => u = t
      BY DEF Awaited
    <3>2. \A u \in Tensors : \A j \in pending[u] :
            calls'[j[1]].state[j[2]] \in {"copying", "failed"}
      <4> SUFFICES ASSUME NEW u \in Tensors, NEW j \in pending[u]
                   PROVE  calls'[j[1]].state[j[2]] \in {"copying", "failed"}
        OBVIOUS
      <4>1. CASE j = x
        BY <2>7, <3>1, <4>1 DEF Moved
      <4>2. CASE j # x
        BY <2>3, <4>2
      <4>3. QED
        BY <4>1, <4>2
    <3>3. QED
      BY <1>0, <2>1, <2>7, <3>2 DEF Moved
  <2>8. QED
    BY <1>3, <2>4, <2>5, <2>6, <2>7, CopyMoves DEF ledger
<1>4. ASSUME NEW t \in Tensors, NEW op \in Operations, NEW D \in Groups, ReduceStep(t, op, D)
      PROVE  Awaited'
  <2>1. PICK S \in SUBSET GPUs, v \in Values : Overwritten(t, S, v)
    BY <1>4, ReduceMoves
  <2>2. UNCHANGED pending /\ Lasting /\ \A i \in DOMAIN calls : calls'[i].state = calls[i].state
    BY <1>4, <2>1, ReduceMoves DEF Overwritten, ledger
  <2>3. \A u \in Tensors : \A j \in pending[u] :
            calls'[j[1]].state[j[2]] \in {"copying", "failed"}
    BY <2>2, JobsAre DEF Awaited
  <2>4. QED
    BY <1>0, <2>2, <2>3
<1>5. QED
  BY <1>1, <1>2, <1>3, <1>4, NextIs

\* The entry of a reduction in the history.
Entry(t, op, fault, S, result) ==
    [tensor |-> t, op |-> op, fault |-> fault, stale |-> groupOpen, inPlace |-> S, result |-> result]

\* What the steps of allreduce leave in the arrays of S, and return.
Outcome(t, op, D, fault, S, result) ==
    /\ S \in SUBSET D
    /\ reductions' = Append(reductions, Entry(t, op, fault, S, result))
    /\ Overwritten(t, S, NcclSum(t, D))
    /\ \/ result = NoResult
       \/ /\ op = "sum" => result = [g \in D |-> Reduction("sum", shard'[t], D)]
          /\ S # {} => fault = "after"
       \/ S = D /\ fault = "none" /\ result = [g \in D |-> shard'[t][g]]
       \/ DOMAIN result = D /\ UsesNccl(D) /\ groupOpen /\ fault = "none"

LEMMA ReducesTo ==
    ASSUME Shape, NEW t \in Tensors, NEW op \in Operations, NEW D \in Groups, ReduceStep(t, op, D)
    PROVE  \E fault, S, result : Outcome(t, op, D, fault, S, result)
<1>1. D \in SUBSET GPUs /\ shard \in [Tensors -> [GPUs -> Values]]
  BY RouterAssumption DEF Shape
<1>2. \A fault, S, result : Reduced(t, op, fault, S, result) =>
        reductions' = Append(reductions, Entry(t, op, fault, S, result))
  BY DEF Reduced, Entry
<1>3. CASE SwitchReduce(t, op, D)
  <2>1. UNCHANGED <<shard, calls, groupOpen>>
    BY <1>3 DEF SwitchReduce
  <2>2. PICK result \in SwitchResults(op, shard[t], D) : Reduced(t, op, "none", {}, result)
    BY <1>3 DEF SwitchReduce
  <2>3. result = NoResult \/ (op = "sum" => result = [g \in D |-> Reduction("sum", shard'[t], D)])
    BY <2>1 DEF SwitchResults
  <2>4. Overwritten(t, {}, NcclSum(t, D)) /\ {} \in SUBSET D
    BY <2>1, NothingOverwritten
  <2>5. Outcome(t, op, D, "none", {}, result)
    BY <1>2, <2>2, <2>3, <2>4 DEF Outcome
  <2>6. QED
    BY <2>5
<1>4. CASE NcclReduce(t, op, D)
  <2> PICK S, result : /\ S = (IF groupOpen THEN {} ELSE D)
                       /\ result = [g \in D |-> shard'[t][g]]
    OBVIOUS
  <2>1. UsesNccl(D) /\ Overwrite(t, S, NcclSum(t, D)) /\ Reduced(t, op, "none", S, result)
    BY <1>4 DEF NcclReduce
  <2>2. S \in SUBSET D /\ S \in SUBSET GPUs
    BY <1>1
  <2>3. Overwritten(t, S, NcclSum(t, D))
    BY <1>1, <2>1, <2>2, NcclSumTyped, OverwriteMeans
  <2>4. S = D \/ groupOpen
    OBVIOUS
  <2>5. DOMAIN result = D
    OBVIOUS
  <2>6. Outcome(t, op, D, "none", S, result)
    BY <1>2, <2>1, <2>2, <2>3, <2>4, <2>5 DEF Outcome
  <2>7. QED
    BY <2>6
<1>5. CASE \E fault \in {"before", "inside", "after"} : NcclReduceFails(t, op, D, fault)
  <2>1. PICK fault \in {"before", "inside", "after"} : NcclReduceFails(t, op, D, fault)
    BY <1>5
  <2>2. PICK S \in SUBSET D :
            /\ S # {} => fault = "after"
            /\ Overwrite(t, S, NcclSum(t, D))
            /\ \E result \in SwitchResults("sum", shard'[t], D) : Reduced(t, op, fault, S, result)
    BY <2>1 DEF NcclReduceFails
  <2>3. PICK result \in SwitchResults("sum", shard'[t], D) : Reduced(t, op, fault, S, result)
    BY <2>2
  <2>4. result = NoResult \/ result = [g \in D |-> Reduction("sum", shard'[t], D)]
    BY DEF SwitchResults
  <2>5. Overwritten(t, S, NcclSum(t, D))
    BY <1>1, <2>2, NcclSumTyped, OverwriteMeans
  <2>6. Outcome(t, op, D, fault, S, result)
    BY <1>2, <2>2, <2>3, <2>4, <2>5 DEF Outcome
  <2>7. QED
    BY <2>6
<1>6. QED
  BY <1>3, <1>4, <1>5 DEF ReduceStep

\* A sum of numbers is their sum.
LEMMA SumOfNumbers ==
    ASSUME NEW values, NEW D \in SUBSET GPUs, \A g \in D : values[g] \in Nat
    PROVE  Reduction("sum", values, D) = SumFunctionOnSet(values, D)
<1>1. \A g \in D : values[g] # Junk
  BY RouterAssumption
<1>2. QED
  BY <1>1 DEF Reduction

\* What NCCL leaves in place counts all it has reduced.
LEMMA NcclSumCounts ==
    ASSUME Shape, Kept, NEW t \in Tensors, t.dtype = "float16", NEW D \in SUBSET GPUs
    PROVE  /\ NcclSum(t, D) = SumFunctionOnSet(shard[t], D) /\ NcclSum(t, D) \in Nat
           /\ NcclSum(t, D) >= SumFunctionOnSet(Shards, D)
           /\ SumFunctionOnSet(Shards, D) \in Nat
           /\ \A g \in D : NcclSum(t, D) >= Shards[g]
<1>1. /\ IsFiniteSet(D) /\ Shards \in [GPUs -> Nat]
  BY RouterAssumption, FS_Subset
<1> PICK f : f = shard[t]
  OBVIOUS
<1>2. \A g \in D : f[g] \in Nat /\ Shards[g] \in Nat /\ f[g] >= Shards[g]
  BY <1>1 DEF Kept
<1>3. NcclSum(t, D) = SumFunctionOnSet(f, D)
  BY <1>2, SumOfNumbers DEF NcclSum
<1>4. /\ SumFunctionOnSet(f, D) \in Nat /\ SumFunctionOnSet(Shards, D) \in Nat
      /\ SumFunctionOnSet(f, D) >= SumFunctionOnSet(Shards, D)
  BY <1>1, <1>2, SumGrows
<1>5. \A g \in D : SumFunctionOnSet(f, D) >= f[g]
  BY <1>1, <1>2, SumCovers
<1>6. \A g \in D : SumFunctionOnSet(f, D) >= Shards[g]
  BY <1>2, <1>4, <1>5
<1>7. QED
  BY <1>3, <1>4, <1>6

LEMMA EntryIs ==
    ASSUME NEW t, NEW op, NEW fault, NEW S, NEW result, NEW r, r = Entry(t, op, fault, S, result)
    PROVE  /\ r.tensor = t /\ r.op = op /\ r.fault = fault /\ r.stale = groupOpen
           /\ r.inPlace = S /\ r.result = result
  BY DEF Entry

LEMMA NextKept == Shape /\ Kept /\ [Next]_vars => Kept'
<1> SUFFICES ASSUME Shape, Kept, [Next]_vars PROVE Kept'
  OBVIOUS
<1>1. ASSUME UNCHANGED <<shard, reductions>> PROVE Kept'
  BY <1>1 DEF Kept, Changed
<1>2. CASE UNCHANGED vars
  BY <1>1, <1>2 DEF vars
<1>3. CASE Request
  BY <1>1, <1>3, RequestBegins
<1>4. ASSUME NEW i \in DOMAIN calls, NEW d \in DOMAIN calls[i].state, CopyStep(i, d)
      PROVE  Kept'
  BY <1>1, <1>4, CopyMoves
<1>5. ASSUME NEW t \in Tensors, NEW op \in Operations, NEW D \in Groups, ReduceStep(t, op, D)
      PROVE  Kept'
  <2>1. PICK fault, S, result : Outcome(t, op, D, fault, S, result)
    BY <1>5, ReducesTo
  <2>2. PICK r : r = Entry(t, op, fault, S, result)
    OBVIOUS
  <2>3. r.tensor = t /\ r.inPlace = S /\ reductions' = Append(reductions, r)
    BY <2>1, <2>2, EntryIs DEF Outcome
  <2>4. PICK z : z = Len(reductions) + 1
    OBVIOUS
  <2>5. /\ DOMAIN reductions \subseteq DOMAIN reductions' /\ z \in DOMAIN reductions'
        /\ reductions'[z] = r /\ \A k \in DOMAIN reductions : reductions'[k] = reductions[k]
    <3>1. /\ DOMAIN reductions' = 1 .. Len(reductions) + 1 /\ reductions'[Len(reductions) + 1] = r
          /\ \A k \in DOMAIN reductions : reductions'[k] = reductions[k]
          /\ DOMAIN reductions = 1 .. Len(reductions) /\ Len(reductions) \in Nat
      BY <2>3, AppendIs DEF Shape
    <3>2. QED
      BY <2>4, <3>1
  <2>6. \A u \in Tensors : ~ Changed(u)' => ~ Changed(u) /\ (u = t => S = {})
    BY <2>3, <2>5 DEF Changed
  <2>7. D \in SUBSET GPUs /\ S \in SUBSET D /\ Overwritten(t, S, NcclSum(t, D))
    BY <2>1, RouterAssumption DEF Outcome
  <2>8. SUFFICES ASSUME NEW u \in Tensors, u.dtype = "float16"
                 PROVE  /\ \A g \in GPUs : shard'[u][g] \in Nat /\ shard'[u][g] >= Shards[g]
                        /\ ~ Changed(u)' => shard'[u] = Shards
    BY DEF Kept
  <2>9. /\ \A g \in GPUs : shard[u][g] \in Nat /\ shard[u][g] >= Shards[g]
        /\ ~ Changed(u) => shard[u] = Shards
    BY <2>8 DEF Kept
  <2>10. \A g \in GPUs : shard'[u][g] = IF u = t /\ g \in S THEN NcclSum(t, D) ELSE shard[u][g]
    BY <2>7 DEF Overwritten
  <2>11. \A g \in GPUs : shard'[u][g] \in Nat /\ shard'[u][g] >= Shards[g]
    <3>1. u = t => /\ NcclSum(t, D) \in Nat
                   /\ \A g \in D : NcclSum(t, D) >= Shards[g]
      BY <2>7, <2>8, NcclSumCounts
    <3>2. QED
      BY <2>7, <2>9, <2>10, <3>1
  <2>12. ASSUME ~ Changed(u)' PROVE shard'[u] = Shards
    <3>1. shard[u] = Shards /\ (u = t => S = {})
      BY <2>6, <2>9, <2>12
    <3>2. shard'[u] \in [GPUs -> Values] /\ Shards \in [GPUs -> Nat]
      BY <2>7, RouterAssumption DEF Overwritten
    <3>3. \A g \in GPUs : shard'[u][g] = Shards[g]
      BY <2>10, <3>1
    <3>4. QED
      BY <3>2, <3>3
  <2>13. QED
    BY <2>11, <2>12
<1>6. QED
  BY <1>2, <1>3, <1>4, <1>5, NextIs

\* What the property says of a reduction.
Counts(r, undisturbed) ==
    /\ r.op = "sum" /\ r.tensor.dtype = "float16"
    /\ ~ (UsesNccl(DOMAIN r.result) /\ r.stale /\ r.fault = "none")
    => \A g \in DOMAIN r.result :
            /\ r.result[g] >= SumFunctionOnSet(Shards, DOMAIN r.result)
            /\ undisturbed => r.result[g] = SumFunctionOnSet(Shards, DOMAIN r.result)

\* The new reduction counts every shard, if nothing was changed before.
LEMMA NewReductionCounts ==
    ASSUME Shape, Kept, Kept', platform' = platform,
           NEW t \in Tensors, NEW op \in Operations, NEW D \in Groups,
           NEW fault, NEW S, NEW result, Outcome(t, op, D, fault, S, result),
           NEW undisturbed \in BOOLEAN,
           undisturbed => ~ Changed(t) /\ (fault = "after" => S = {}),
           ~ Changed(t) /\ S = {} => ~ Changed(t)'
    PROVE  Counts(Entry(t, op, fault, S, result), undisturbed)
<1> PICK r : r = Entry(t, op, fault, S, result)
  OBVIOUS
<1>1. /\ r.tensor = t /\ r.op = op /\ r.fault = fault /\ r.stale = groupOpen
      /\ r.inPlace = S /\ r.result = result
  BY EntryIs
<1>2. IsFiniteSet(D) /\ D \in SUBSET GPUs /\ Shards \in [GPUs -> Nat]
  BY RouterAssumption, FS_Subset
<1> PICK all, sum, f : /\ all = SumFunctionOnSet(Shards, D) /\ sum = NcclSum(t, D)
                       /\ f = shard'[t]
  OBVIOUS
<1>3. SUFFICES ASSUME op = "sum", t.dtype = "float16",
                      ~ (UsesNccl(DOMAIN result) /\ groupOpen /\ fault = "none"),
                      NEW g \in DOMAIN result
               PROVE  /\ result[g] >= SumFunctionOnSet(Shards, DOMAIN result)
                      /\ undisturbed => result[g] = SumFunctionOnSet(Shards, DOMAIN result)
  BY <1>1 DEF Counts
<1>4. /\ S \in SUBSET D /\ Overwritten(t, S, sum)
      /\ \/ result = NoResult
         \/ /\ result = [h \in D |-> Reduction("sum", f, D)]
            /\ S # {} => fault = "after"
         \/ S = D /\ fault = "none" /\ result = [h \in D |-> f[h]]
         \/ DOMAIN result = D /\ UsesNccl(D) /\ groupOpen /\ fault = "none"
  BY <1>3 DEF Outcome
<1>5. CASE result = NoResult
  BY <1>3, <1>5 DEF NoResult
<1>6. CASE result = [h \in D |-> Reduction("sum", f, D)] /\ (S # {} => fault = "after")
  <2>1. DOMAIN result = D /\ result[g] = Reduction("sum", f, D)
    BY <1>3, <1>6
  <2>2. \A h \in D : f[h] \in Nat /\ Shards[h] \in Nat /\ f[h] >= Shards[h]
    BY <1>2, <1>3 DEF Kept
  <2>3. result[g] = SumFunctionOnSet(f, D)
    BY <1>2, <2>1, <2>2, SumOfNumbers
  <2>4. SumFunctionOnSet(f, D) >= all
    BY <1>2, <2>2, SumGrows
  <2>5. undisturbed => f = Shards
    BY <1>3, <1>6 DEF Kept
  <2>6. QED
    BY <2>1, <2>3, <2>4, <2>5
<1>7. CASE S = D /\ fault = "none" /\ result = [h \in D |-> f[h]]
  <2>1. DOMAIN result = D /\ g \in D /\ result[g] = f[g]
    BY <1>3, <1>7
  <2>2. f[g] = sum
    BY <1>2, <1>4, <1>7, <2>1 DEF Overwritten
  <2>3. sum = SumFunctionOnSet(shard[t], D) /\ sum >= all
    BY <1>2, <1>3, NcclSumCounts
  <2>4. undisturbed => shard[t] = Shards
    BY <1>3 DEF Kept
  <2>5. QED
    BY <2>1, <2>2, <2>3, <2>4
<1>8. QED
  BY <1>3, <1>4, <1>5, <1>6, <1>7

LEMMA NextSums ==
    Shape /\ Kept /\ Kept' /\ SumsCountEveryShard /\ [Next]_vars => SumsCountEveryShard'
<1> SUFFICES ASSUME Shape, Kept, Kept', SumsCountEveryShard, [Next]_vars
             PROVE  SumsCountEveryShard'
  OBVIOUS
<1>0. \A k \in DOMAIN reductions : Counts(reductions[k], Undisturbed(k))
  BY DEF SumsCountEveryShard, Counts
<1>1. ASSUME UNCHANGED <<platform, reductions>> PROVE SumsCountEveryShard'
  BY <1>1 DEF SumsCountEveryShard, Undisturbed, UsesNccl
<1>2. CASE UNCHANGED vars
  BY <1>1, <1>2 DEF vars
<1>3. CASE Request
  BY <1>1, <1>3, RequestBegins
<1>4. ASSUME NEW i \in DOMAIN calls, NEW d \in DOMAIN calls[i].state, CopyStep(i, d)
      PROVE  SumsCountEveryShard'
  BY <1>1, <1>4, CopyMoves
<1>5. ASSUME NEW t \in Tensors, NEW op \in Operations, NEW D \in Groups, ReduceStep(t, op, D)
      PROVE  SumsCountEveryShard'
  <2>1. PICK fault, S, result : Outcome(t, op, D, fault, S, result)
    BY <1>5, ReducesTo
  <2>2. PICK r, z, n : /\ r = Entry(t, op, fault, S, result) /\ z = Len(reductions) + 1
                       /\ n = Len(reductions)
    OBVIOUS
  <2>3. r.tensor = t /\ r.fault = fault /\ r.inPlace = S /\ reductions' = Append(reductions, r)
    BY <2>1, <2>2, EntryIs DEF Outcome
  <2>4. /\ DOMAIN reductions' = 1 .. z /\ DOMAIN reductions = 1 .. n /\ n \in Nat /\ z = n + 1
        /\ reductions'[z] = r /\ \A k \in 1 .. n : reductions'[k] = reductions[k]
    BY <2>2, <2>3, AppendIs DEF Shape
  <2>5. platform' = platform
    BY <1>5, ReduceMoves
  <2>6. \A k \in 1 .. n : Undisturbed(k)' <=> Undisturbed(k)
    <3> SUFFICES ASSUME NEW k \in 1 .. n PROVE Undisturbed(k)' <=> Undisturbed(k)
      OBVIOUS
    <3>1. reductions'[k] = reductions[k] /\ \A j \in 1 .. k - 1 : reductions'[j] = reductions[j]
      BY <2>4
    <3>2. QED
      BY <3>1 DEF Undisturbed
  <2>7. PICK undisturbed \in BOOLEAN : undisturbed <=> Undisturbed(z)'
    OBVIOUS
  <2>8. undisturbed => ~ Changed(t) /\ (fault = "after" => S = {})
    <3> SUFFICES ASSUME Undisturbed(z)' PROVE ~ Changed(t) /\ (fault = "after" => S = {})
      BY <2>7
    <3>1. /\ \A j \in 1 .. z - 1 : reductions'[j].tensor = t => reductions'[j].inPlace = {}
          /\ fault = "after" => S = {}
      BY <2>3, <2>4 DEF Undisturbed
    <3>2. 1 .. z - 1 = 1 .. n
      BY <2>4
    <3>3. QED
      BY <2>4, <3>1, <3>2 DEF Changed
  <2>9. ~ Changed(t) /\ S = {} => ~ Changed(t)'
    <3> SUFFICES ASSUME ~ Changed(t), S = {}, NEW j \in 1 .. z, reductions'[j].tensor = t
                 PROVE  reductions'[j].inPlace = {}
      BY <2>4 DEF Changed
    <3>1. j \in 1 .. n \/ j = z
      BY <2>4
    <3>2. QED
      BY <2>3, <2>4, <3>1 DEF Changed
  <2>10. Counts(r, undisturbed)
    BY <2>1, <2>2, <2>5, <2>8, <2>9, NewReductionCounts
  <2>11. \A k \in 1 .. z : Counts(reductions'[k], Undisturbed(k)')
    <3> SUFFICES ASSUME NEW k \in 1 .. z PROVE Counts(reductions'[k], Undisturbed(k)')
      OBVIOUS
    <3>1. CASE k = z
      BY <2>4, <2>7, <2>10, <3>1 DEF Counts
    <3>2. CASE k \in 1 .. n
      BY <1>0, <2>4, <2>6, <3>2 DEF Counts
    <3>3. QED
      BY <2>4, <3>1, <3>2
  <2>12. QED
    BY <2>4, <2>5, <2>11 DEF SumsCountEveryShard, Counts, UsesNccl
<1>6. QED
  BY <1>2, <1>3, <1>4, <1>5, NextIs

-----------------------------------------------------------------------------
(* The invariant holds, and so do the properties.                          *)

LEMMA RouterInit == Init => RouterInv
<1> SUFFICES ASSUME Init PROVE RouterInv
  OBVIOUS
<1>1. Shape
  BY RouterInitShape
<1>2. DOMAIN calls = {} /\ Range(completed) = {} /\ Len(completed) = 0
  BY EmptySeq DEF Init, Range
<1>3. Held /\ Kept /\ SumsCountEveryShard
  <2>1. DOMAIN reductions = {}
    BY EmptySeq DEF Init
  <2>2. Shards \in [GPUs -> Nat] /\ \A t \in Tensors : shard[t] = Shards
    BY RouterAssumption DEF Init
  <2>3. Kept
    BY <2>2 DEF Kept
  <2>4. QED
    BY <1>2, <2>1, <2>3 DEF Held, SumsCountEveryShard
<1>4. Recorded
  <2>1. DoneJobs = {}
    BY <1>2 DEF DoneJobs, Jobs
  <2>2. DOMAIN DoneBytes = {}
    BY <2>1 DEF DoneBytes
  <2>3. SumFunction(DoneBytes) = 0
    BY <2>2, SumOfNothing DEF SumFunction
  <2>4. QED
    BY <1>2, <2>1, <2>3, FS_EmptySet DEF Recorded, Init
<1>5. Awaited
  <2>1. \A t \in Tensors : pending[t] = {}
    BY DEF Init
  <2>2. QED
    BY <2>1, FS_EmptySet DEF Awaited
<1>6. QED
  BY <1>1, <1>3, <1>4, <1>5 DEF RouterInv

LEMMA RouterNext == RouterInv /\ [Next]_vars => RouterInv'
  BY NextRouterShape, NextHeld, NextRecorded, NextAwaited, NextKept, NextSums DEF RouterInv

\* The invariant holds in every reachable state.
THEOREM RouterInvariant == Spec => []RouterInv
  BY RouterInit, RouterNext, PTL DEF Spec

\* Types: what the table of pending transfers and the list of completed ones
\* name are transfers that were asked for, one at most for each tensor, and
\* only NCCL leaves a group open.
THEOREM RouterTypeCorrect == Spec => []TypeOK
<1>1. RouterInv => TypeOK
  <2> SUFFICES ASSUME RouterInv PROVE TypeOK
    OBVIOUS
  <2>1. Shape /\ Recorded /\ Awaited
    BY DEF RouterInv
  <2>2. \A i \in DOMAIN calls :
        /\ calls[i].tensor \in Tensors /\ calls[i].src \in GPUs
        /\ \A d \in DOMAIN calls[i].state :
            /\ calls[i].state[d] \in {"waiting", "copying", "done", "failed"}
            /\ calls[i].got[d] \in Values
    BY <2>1, CallIs DEF States
  <2>3. Range(completed) \subseteq Jobs
    BY <2>1, JobsAre DEF Recorded
  <2>4. \A t \in Tensors : pending[t] \subseteq Jobs /\ Cardinality(pending[t]) <= 1
    BY <2>1 DEF Awaited
  <2>5. QED
    BY <2>1, <2>2, <2>3, <2>4 DEF TypeOK, Shape
<1>2. QED
  BY <1>1, RouterInvariant, PTL

\* A transfer or a broadcast that returns gives every destination something
\* that the array of the source has held since the call.
THEOREM CopiesAreTrue == Spec => []ReturnedCopiesAreTrue
<1>1. RouterInv => ReturnedCopiesAreTrue
  <2> SUFFICES ASSUME RouterInv, NEW i \in DOMAIN calls, Returned(calls[i]), ~ Lost(calls[i]),
                      NEW d \in DOMAIN calls[i].got
               PROVE  calls[i].got[d] \in calls[i].held
    BY DEF ReturnedCopiesAreTrue, Range, Lost
  <2>1. DOMAIN calls[i].got = DOMAIN calls[i].state
    BY DEF RouterInv, Shape
  <2>2. ~ Broken(calls[i])
    BY DEF Returned, Broken
  <2>3. QED
    BY <2>1, <2>2 DEF Returned, RouterInv, Held
<1>2. QED
  BY <1>1, RouterInvariant, PTL

\* Every transfer that is done is completed once, with its bytes, and what
\* stays pending is under way or has failed.
THEOREM LedgerCountsTransfers == Spec => []LedgerIsTrue
<1>1. RouterInv => LedgerIsTrue
  BY DEF LedgerIsTrue, RouterInv, Recorded, Awaited, DoneBytes, DoneJobs
<1>2. QED
  BY <1>1, RouterInvariant, PTL

\* A sum of a float16 tensor that returns counts every device at least once,
\* whatever collectives have failed half-way before, and exactly once as long
\* as none has reduced an array in place.
THEOREM SumsLoseNothing == Spec => []SumsCountEveryShard
<1>1. RouterInv => SumsCountEveryShard
  BY DEF RouterInv
<1>2. QED
  BY <1>1, RouterInvariant, PTL


=============================================================================
