------------------------ MODULE KVCacheManagerProofs ------------------------
(***************************************************************************)
(* Proofs about the KV cache for any devices, models, sequences, layers    *)
(* and sizes: its types, the accounting of the pools, their order of       *)
(* eviction, expiry, and that a lookup by string prefix names the right    *)
(* sequence.                                                               *)
(***************************************************************************)
EXTENDS KVCacheManager, FiniteSetTheorems, SequenceTheorems, WellFoundedInduction, TLAPS

-----------------------------------------------------------------------------
(* The units that the entries of a pool occupy.                            *)

\* What a pool holds: finitely many entries, under their cache keys.
Entry(k, e) == e \in Entries /\ k = CacheKey(e.model, e.seq, e.layer)

Pool(c) ==
    /\ c = [k \in DOMAIN c |-> c[k]]
    /\ IsFiniteSet(DOMAIN c)
    /\ \A k \in DOMAIN c : Entry(k, c[k])

LEMMA UnitsOfEntry ==
    ASSUME NEW k, NEW n \in Nat
    PROVE  IsFiniteSet({k} \X (1 .. n)) /\ Cardinality({k} \X (1 .. n)) = n
<1> DEFINE I == 1 .. n
           K == {k}
<1>1. IsFiniteSet(I) /\ Cardinality(I) = n
  BY FS_Interval
<1>2. IsFiniteSet(K) /\ Cardinality(K) = 1
  BY FS_Singleton
<1> HIDE DEF I, K
<1>3. IsFiniteSet(K \X I) /\ Cardinality(K \X I) = Cardinality(K) * Cardinality(I)
  BY <1>1, <1>2, FS_Product
<1>4. Cardinality(K \X I) = n
  BY <1>1, <1>2, <1>3
<1> QED  BY <1>3, <1>4 DEF I, K

\* The entries of a pool occupy finitely many units.
LEMMA OccupiedFinite ==
    ASSUME NEW c, Pool(c)
    PROVE  IsFiniteSet(Occupied(c)) /\ Bytes(c) \in Nat
<1> DEFINE Units(k) == {k} \X (1 .. c[k].nbytes)
           f == [k \in DOMAIN c |-> Units(k)]
           T == {Units(k) : k \in DOMAIN c}
<1>1. f \in Surjection(DOMAIN c, T)
  BY DEF Surjection
<1>2. IsFiniteSet(T)
  <2> HIDE DEF f, T
  <2> QED  BY <1>1, FS_Surjection DEF Pool
<1>3. ASSUME NEW U \in T PROVE IsFiniteSet(U)
  <2>1. PICK k \in DOMAIN c : U = {k} \X (1 .. c[k].nbytes)
    OBVIOUS
  <2>2. c[k].nbytes \in Nat
    BY DEF Pool, Entry, Entries
  <2> QED  BY <2>1, <2>2, UnitsOfEntry
<1>4. IsFiniteSet(UNION T)
  <2> HIDE DEF T
  <2> QED  BY <1>2, <1>3, FS_UNION
<1> QED  BY <1>4, FS_CardinalityType DEF Occupied, Bytes

\* Part of a pool is a pool, and occupies no more than the whole.
LEMMA RestrictPool ==
    ASSUME NEW c, Pool(c), NEW S \in SUBSET DOMAIN c
    PROVE  /\ Pool(Restrict(c, S))
           /\ DOMAIN Restrict(c, S) = S
           /\ Occupied(Restrict(c, S)) = UNION {{k} \X (1 .. c[k].nbytes) : k \in S}
           /\ Bytes(Restrict(c, S)) \in Nat
           /\ Bytes(Restrict(c, S)) <= Bytes(c)
<1>1. IsFiniteSet(S)
  BY FS_Subset DEF Pool
<1>2. Pool(Restrict(c, S)) /\ DOMAIN Restrict(c, S) = S
  BY <1>1 DEF Pool, Restrict
<1>3. Occupied(Restrict(c, S)) = UNION {{k} \X (1 .. c[k].nbytes) : k \in S}
  BY DEF Occupied, Restrict
<1>4. Occupied(Restrict(c, S)) \subseteq Occupied(c)
  BY <1>3 DEF Occupied
<1>5. Bytes(Restrict(c, S)) <= Bytes(c)
  BY <1>4, OccupiedFinite, FS_Subset DEF Bytes
<1> QED  BY <1>2, <1>3, <1>5, OccupiedFinite

\* The units of a pool are those of any part of it and of the rest.
LEMMA SplitPool ==
    ASSUME NEW c, Pool(c), NEW S \in SUBSET DOMAIN c
    PROVE  Bytes(c) = Bytes(Restrict(c, S)) + Bytes(Restrict(c, DOMAIN c \ S))
<1> DEFINE A == Occupied(Restrict(c, S))
           B == Occupied(Restrict(c, DOMAIN c \ S))
<1>1. /\ A = UNION {{k} \X (1 .. c[k].nbytes) : k \in S}
      /\ B = UNION {{k} \X (1 .. c[k].nbytes) : k \in DOMAIN c \ S}
  BY RestrictPool
<1>2. Occupied(c) = A \cup B
  BY <1>1 DEF Occupied
<1>3. A \cap B = {}
  <2>1. ASSUME NEW u \in A PROVE u[1] \in S
    BY <1>1
  <2>2. ASSUME NEW u \in B PROVE u[1] \notin S
    BY <1>1
  <2> QED  BY <2>1, <2>2
<1>4. IsFiniteSet(A) /\ IsFiniteSet(B)
  BY RestrictPool, OccupiedFinite
<1>5. Cardinality(A \cap B) = 0
  BY <1>3, FS_EmptySet
<1>6. Cardinality(A) \in Nat /\ Cardinality(B) \in Nat
  BY <1>4, FS_CardinalityType
<1>7. Cardinality(A \cup B) = Cardinality(A) + Cardinality(B) - Cardinality(A \cap B)
  <2> HIDE DEF A, B
  <2> QED  BY <1>4, FS_Union
<1>8. Cardinality(A \cup B) = Cardinality(A) + Cardinality(B)
  BY <1>5, <1>6, <1>7
<1> QED  BY <1>2, <1>8 DEF Bytes

\* One entry of a pool, and the others.
LEMMA SplitEntry ==
    ASSUME NEW c, Pool(c), NEW k \in DOMAIN c
    PROVE  Bytes(c) = c[k].nbytes + Bytes(Restrict(c, DOMAIN c \ {k}))
<1>1. c[k].nbytes \in Nat
  BY DEF Pool, Entry, Entries
<1>2. Occupied(Restrict(c, {k})) = {k} \X (1 .. c[k].nbytes)
  BY RestrictPool
<1>3. Bytes(Restrict(c, {k})) = c[k].nbytes
  BY <1>1, <1>2, UnitsOfEntry DEF Bytes
<1> QED  BY <1>3, SplitPool

\* What _remove leaves.
LEMMA WithoutPool ==
    ASSUME NEW c, Pool(c), NEW K
    PROVE  /\ Pool(Without(c, K))
           /\ Bytes(Without(c, K)) = Bytes(c) - Bytes(Restrict(c, K \cap DOMAIN c))
           /\ Bytes(Without(c, K)) \in Nat
           /\ Bytes(Restrict(c, K \cap DOMAIN c)) \in Nat
<1> DEFINE S == K \cap DOMAIN c
<1>1. DOMAIN c \ S = DOMAIN c \ K
  OBVIOUS
<1>2. Bytes(c) = Bytes(Restrict(c, S)) + Bytes(Restrict(c, DOMAIN c \ S))
  BY SplitPool
<1>3. Bytes(Restrict(c, S)) \in Nat
  BY RestrictPool
<1>4. Bytes(Without(c, K)) \in Nat /\ Pool(Without(c, K))
  BY RestrictPool DEF Without
<1>5. Bytes(Without(c, K)) = Bytes(Restrict(c, DOMAIN c \ S))
  BY <1>1 DEF Without
<1> QED  BY <1>2, <1>3, <1>4, <1>5

\* What an assignment to a key leaves of the part S of a pool.
LEMMA InsertPool ==
    ASSUME NEW c, Pool(c), NEW S \in SUBSET DOMAIN c, NEW k, NEW e, Entry(k, e)
    PROVE  /\ Pool(With(c, S, k, e))
           /\ Bytes(With(c, S, k, e)) \in Nat
           /\ e.nbytes <= Bytes(With(c, S, k, e))
           /\ Bytes(With(c, S, k, e)) <= Bytes(Restrict(c, S)) + e.nbytes
<1> DEFINE d == [x \in S \cup {k} |-> IF x = k THEN e ELSE c[x]]
           R == S \ {k}
<1>1. IsFiniteSet(S)
  BY FS_Subset DEF Pool
<1>2. IsFiniteSet(DOMAIN d)
  BY <1>1, FS_AddElement
<1>3. Pool(d)
  BY <1>2 DEF Pool
<1>4. Restrict(d, DOMAIN d \ {k}) = Restrict(c, R)
  BY DEF Restrict
<1>5. Bytes(d) = e.nbytes + Bytes(Restrict(c, R))
  <2>1. k \in DOMAIN d /\ d[k] = e
    OBVIOUS
  <2> HIDE DEF d, R
  <2> QED  BY <1>3, <1>4, <2>1, SplitEntry
<1>6. Pool(Restrict(c, S)) /\ DOMAIN Restrict(c, S) = S /\ Bytes(Restrict(c, S)) \in Nat
  BY RestrictPool
<1>7. Restrict(Restrict(c, S), R) = Restrict(c, R)
  BY DEF Restrict
<1>8. Bytes(Restrict(c, R)) <= Bytes(Restrict(c, S)) /\ Bytes(Restrict(c, R)) \in Nat
  <2> HIDE DEF R
  <2>1. R \in SUBSET DOMAIN Restrict(c, S)
    BY <1>6 DEF R
  <2> QED  BY <1>6, <1>7, <2>1, RestrictPool
<1>9. e.nbytes \in Nat
  BY DEF Entry, Entries
<1> HIDE DEF d
<1>10. Bytes(d) \in Nat /\ e.nbytes <= Bytes(d) /\ Bytes(d) <= Bytes(Restrict(c, S)) + e.nbytes
  BY <1>5, <1>6, <1>8, <1>9
<1> QED  BY <1>3, <1>10 DEF d, With

\* Entry k of a pool replaced by one with n more units.
LEMMA GrowPool ==
    ASSUME NEW c, Pool(c), NEW k \in DOMAIN c, NEW d, DOMAIN d = DOMAIN c,
           d = [x \in DOMAIN c |-> d[x]],
           \A x \in DOMAIN c \ {k} : d[x] = c[x],
           Entry(k, d[k]), NEW n \in Nat, d[k].nbytes = c[k].nbytes + n
    PROVE  Pool(d) /\ Bytes(d) = Bytes(c) + n
<1>1. Pool(d)
  BY DEF Pool
<1>2. Restrict(d, DOMAIN d \ {k}) = Restrict(c, DOMAIN c \ {k})
  BY DEF Restrict
<1>3. Bytes(Restrict(c, DOMAIN c \ {k})) \in Nat
  BY RestrictPool
<1>4. c[k].nbytes \in Nat
  BY DEF Pool, Entry, Entries
<1>5. Bytes(d) = d[k].nbytes + Bytes(Restrict(d, DOMAIN d \ {k}))
  BY <1>1, SplitEntry
<1>6. Bytes(c) = c[k].nbytes + Bytes(Restrict(c, DOMAIN c \ {k}))
  BY SplitEntry
<1> QED  BY <1>1, <1>2, <1>3, <1>4, <1>5, <1>6

-----------------------------------------------------------------------------
(* What one step of the manager does to the accounts of pool g.            *)

Shape ==
    /\ cached = [g \in GPUs |-> cached[g]]
    /\ \A g \in GPUs : Pool(cached[g])

Typed ==
    /\ used \in [GPUs -> Int]
    /\ capacity \in [GPUs -> Nat \ {0}]
    /\ devices \in Seq(GPUs)
    /\ \A i, j \in DOMAIN devices : devices[i] = devices[j] => i = j
    /\ uneven \subseteq extended /\ extended \subseteq Range(devices)

\* A new pool.
Resets(g) == Bytes(cached'[g]) = 0 /\ used'[g] = 0

\* f units leave the pool, and _used_bytes.
Removes(g) ==
    \E f \in Nat :
        /\ Bytes(cached'[g]) = Bytes(cached[g]) - f
        /\ used'[g] = used[g] - f
        /\ capacity'[g] = capacity[g]

\* f units are evicted, then an entry of n units is stored, within the
\* capacity or in the room of what was evicted.
Inserts(g) ==
    \E f \in Nat, n \in Nat \ {0} :
        /\ n <= Bytes(cached'[g])
        /\ Bytes(cached'[g]) <= Bytes(cached[g]) - f + n
        /\ used'[g] = used[g] - f + n
        /\ capacity'[g] = capacity[g]
        /\ used'[g] <= capacity[g] \/ n <= f

\* extend_kv, without regard to the capacity: an entry grows by b, and n are
\* counted.
Grows(g) ==
    /\ Appends /\ g \in extended'
    /\ \E b \in Nat, n \in Nat :
        /\ Bytes(cached'[g]) = Bytes(cached[g]) + b
        /\ used'[g] = used[g] + n
        /\ capacity'[g] = capacity[g]
        /\ b = n \/ g \in uneven'

Accounts ==
    /\ Shape'
    /\ Typed'
    /\ \A g \in GPUs :
        \/ Resets(g)
        \/ /\ g \in extended => g \in extended'
           /\ g \in uneven => g \in uneven'
    /\ \A g \in GPUs : Resets(g) \/ Removes(g) \/ Inserts(g) \/ Grows(g)

LEMMA BytesNat ==
    ASSUME Shape, NEW g \in GPUs PROVE Bytes(cached[g]) \in Nat
BY OccupiedFinite DEF Shape

\* A function that is updated at one argument.
LEMMA Updated ==
    ASSUME NEW D, NEW f, f = [x \in D |-> f[x]], NEW g \in D, NEW v,
           NEW h, h = [f EXCEPT ![g] = v]
    PROVE  /\ h[g] = v
           /\ \A x \in D \ {g} : h[x] = f[x]
           /\ h = [x \in D |-> h[x]]
OBVIOUS

LEMMA DevicesAppend ==
    ASSUME Typed, NEW g \in GPUs,
           devices' = IF Known(g) THEN devices ELSE Append(devices, g)
    PROVE  /\ devices' \in Seq(GPUs)
           /\ \A i, j \in DOMAIN devices' : devices'[i] = devices'[j] => i = j
           /\ extended \subseteq Range(devices')
<1>1. CASE Known(g)
  BY <1>1 DEF Typed
<1>2. CASE ~ Known(g)
  <2>1. devices' \in Seq(GPUs) /\ devices \in Seq(GPUs)
    BY <1>2 DEF Typed
  <2>2. \A i \in DOMAIN devices : devices[i] # g
    BY <1>2 DEF Known, Range
  <2>3. /\ DOMAIN devices = 1 .. Len(devices) /\ DOMAIN devices' = 1 .. (Len(devices) + 1)
        /\ \A i \in DOMAIN devices : devices'[i] = devices[i]
        /\ devices'[Len(devices) + 1] = g
        /\ Len(devices) \in Nat
    BY <1>2, <2>1
  <2>4. Range(devices) \subseteq Range(devices')
    BY <2>3 DEF Range
  <2> QED  BY <2>1, <2>2, <2>3, <2>4 DEF Typed
<1> QED  BY <1>1, <1>2

\* put, on a pool that is or becomes known.
LEMMA PutAccounts ==
    ASSUME Shape, Typed, NEW g \in GPUs, NEW k, NEW e, Entry(k, e), Put(g, k, e),
           devices' = IF Known(g) THEN devices ELSE Append(devices, g),
           extended' = extended, uneven' = uneven
    PROVE  Accounts
<1> DEFINE n == e.nbytes
<1>1. n \in Nat \ {0}
  BY DEF Entry, Entries
<1>2. Pool(cached[g]) /\ Bytes(cached[g]) \in Nat /\ used[g] \in Int
  BY BytesNat DEF Shape, Typed
<1>3. ASSUME NEW h \in GPUs, h # g, cached'[h] = cached[h], used'[h] = used[h],
             capacity' = capacity
      PROVE  Removes(h) /\ Pool(cached'[h])
  <2>1. Bytes(cached[h]) \in Nat /\ used[h] \in Int
    BY BytesNat DEF Typed
  <2>2. Bytes(cached'[h]) = Bytes(cached[h]) - 0 /\ used'[h] = used[h] - 0
    BY <1>3, <2>1
  <2> QED  BY <1>3, <2>2 DEF Removes, Shape
<1>4. ASSUME NEW K, NEW f \in Nat, Insert(g, k, e, K, f), capacity' = capacity,
             f = Bytes(Restrict(cached[g], K \cap DOMAIN cached[g])),
             used[g] - f + n <= capacity[g] \/ n <= f
      PROVE  Accounts
  <2> DEFINE S == DOMAIN cached[g] \ K
             d == With(cached[g], S, k, e)
  <2>1. Pool(d) /\ Bytes(d) \in Nat /\ n <= Bytes(d)
        /\ Bytes(d) <= Bytes(Restrict(cached[g], S)) + n
    BY <1>2, InsertPool
  <2>2. Bytes(Restrict(cached[g], S)) = Bytes(cached[g]) - f
    BY <1>2, <1>4, WithoutPool DEF Without
  <2>3. cached' = [cached EXCEPT ![g] = d] /\ used' = [used EXCEPT ![g] = @ - f + n]
    BY <1>4 DEF Insert
  <2> HIDE DEF d
  <2>4. /\ cached'[g] = d /\ used'[g] = used[g] - f + n
        /\ \A h \in GPUs \ {g} : cached'[h] = cached[h] /\ used'[h] = used[h]
        /\ cached' = [h \in GPUs |-> cached'[h]]
        /\ used' \in [GPUs -> Int]
    <3>1. used[g] - f + n \in Int
      BY <1>1, <1>2
    <3>2. /\ cached'[g] = d
          /\ \A h \in GPUs \ {g} : cached'[h] = cached[h]
          /\ cached' = [h \in GPUs |-> cached'[h]]
      BY <2>3, Updated DEF Shape
    <3> QED  BY <2>3, <3>1, <3>2 DEF Typed
  <2>5. Inserts(g)
    <3>1. n <= Bytes(cached'[g]) /\ Bytes(cached'[g]) <= Bytes(cached[g]) - f + n
      BY <2>1, <2>2, <2>4
    <3>2. capacity'[g] = capacity[g] /\ (used'[g] <= capacity[g] \/ n <= f)
      BY <1>4, <2>4
    <3> QED  BY <1>1, <1>4, <2>4, <3>1, <3>2 DEF Inserts
  <2>6. Shape'
    BY <1>3, <1>4, <2>1, <2>4 DEF Shape
  <2>7. Typed'
    BY <1>4, <2>4, DevicesAppend DEF Typed
  <2> QED  BY <1>3, <1>4, <2>4, <2>5, <2>6, <2>7 DEF Accounts
<1>5. CASE PutFits(g, k, e)
  <2>1. Insert(g, k, e, {}, 0) /\ capacity' = capacity /\ used[g] + n <= capacity[g]
    BY <1>5 DEF PutFits, Fits
  <2>2. 0 = Bytes(Restrict(cached[g], {} \cap DOMAIN cached[g]))
    <3>1. Occupied(Restrict(cached[g], {})) = {}
      BY DEF Occupied, Restrict
    <3> QED  BY <3>1, FS_EmptySet DEF Bytes
  <2>3. used[g] - 0 + n <= capacity[g]
    BY <1>1, <1>2, <2>1
  <2> QED  BY <1>4, <2>1, <2>2, <2>3
<1>6. CASE PutEvicts(g, k, e)
  <2>1. PICK i \in 0 .. Len(order[g]) :
            Freed(g, i) >= n /\ Insert(g, k, e, Oldest(g, i), Freed(g, i))
    BY <1>6 DEF PutEvicts
  <2>2. Freed(g, i) \in Nat
    BY <1>2, WithoutPool DEF Freed
  <2>3. capacity' = capacity /\ n <= Freed(g, i)
    BY <1>1, <1>6, <2>1, <2>2 DEF PutEvicts
  <2> QED  BY <1>4, <2>1, <2>2, <2>3 DEF Freed
<1>7. CASE PutRefused(g, e)
  <2>1. PICK i \in 0 .. Len(order[g]) :
            /\ cached' = [cached EXCEPT ![g] = Without(@, Oldest(g, i))]
            /\ used' = [used EXCEPT ![g] = @ - Freed(g, i)]
    BY <1>7 DEF PutRefused
  <2>2. /\ Pool(Without(cached[g], Oldest(g, i)))
        /\ Bytes(Without(cached[g], Oldest(g, i))) = Bytes(cached[g]) - Freed(g, i)
        /\ Freed(g, i) \in Nat
    BY <1>2, WithoutPool DEF Freed
  <2>3. /\ cached'[g] = Without(cached[g], Oldest(g, i))
        /\ used'[g] = used[g] - Freed(g, i)
        /\ \A h \in GPUs \ {g} : cached'[h] = cached[h] /\ used'[h] = used[h]
        /\ cached' = [h \in GPUs |-> cached'[h]]
        /\ used' \in [GPUs -> Int]
    <3>1. used[g] - Freed(g, i) \in Int
      BY <1>2, <2>2
    <3>2. /\ cached'[g] = Without(cached[g], Oldest(g, i))
          /\ \A h \in GPUs \ {g} : cached'[h] = cached[h]
          /\ cached' = [h \in GPUs |-> cached'[h]]
      BY <2>1, Updated DEF Shape
    <3> QED  BY <2>1, <3>1, <3>2 DEF Typed
  <2>4. capacity' = capacity
    BY <1>7 DEF PutRefused
  <2>5. Removes(g)
    BY <2>2, <2>3, <2>4 DEF Removes
  <2>6. Shape'
    BY <1>3, <2>2, <2>3, <2>4 DEF Shape
  <2>7. Typed'
    BY <2>3, <2>4, DevicesAppend DEF Typed
  <2> QED  BY <1>3, <2>3, <2>4, <2>5, <2>6, <2>7 DEF Accounts
<1> QED  BY <1>5, <1>6, <1>7 DEF Put

\* Removal of the keys K of pool g.
LEMMA RemoveAccounts ==
    ASSUME Shape, Typed, NEW g \in GPUs, NEW K,
           cached'[g] = Without(cached[g], K),
           used'[g] = used[g] - Bytes(Restrict(cached[g], K \cap DOMAIN cached[g])),
           capacity'[g] = capacity[g]
    PROVE  Removes(g) /\ Pool(cached'[g]) /\ used'[g] \in Int
<1> DEFINE f == Bytes(Restrict(cached[g], K \cap DOMAIN cached[g]))
<1>1. Pool(cached[g]) /\ used[g] \in Int
  BY DEF Shape, Typed
<1>2. Pool(cached'[g]) /\ Bytes(cached'[g]) = Bytes(cached[g]) - f /\ f \in Nat
  BY <1>1, WithoutPool
<1> HIDE DEF f
<1>3. used'[g] = used[g] - f
  BY DEF f
<1> QED  BY <1>1, <1>2, <1>3 DEF Removes

\* An entry that is touched, lapses or is extended stays an entry of its key.
LEMMA EntryFlagged ==
    ASSUME NEW k, NEW e, Entry(k, e), NEW b \in BOOLEAN
    PROVE  /\ Entry(k, [e EXCEPT !.expired = b])
           /\ [e EXCEPT !.expired = b].nbytes = e.nbytes
<1>1. e \in Entries /\ k = CacheKey(e.model, e.seq, e.layer)
  BY DEF Entry
<1> DEFINE d == [e EXCEPT !.expired = b]
<1>2. d \in Entries /\ d.nbytes = e.nbytes
      /\ d.model = e.model /\ d.seq = e.seq /\ d.layer = e.layer
  BY <1>1 DEF Entries
<1> QED  BY <1>1, <1>2 DEF Entry

LEMMA EntryExtended ==
    ASSUME NEW k, NEW e, Entry(k, e), NEW n \in Nat, NEW z \in BOOLEAN
    PROVE  /\ Entry(k, [e EXCEPT !.nbytes = @ + n, !.expired = z])
           /\ [e EXCEPT !.nbytes = @ + n, !.expired = z].nbytes = e.nbytes + n
<1>1. e \in Entries /\ k = CacheKey(e.model, e.seq, e.layer)
  BY DEF Entry
<1> DEFINE d == [e EXCEPT !.nbytes = @ + n, !.expired = z]
<1>2. e.nbytes + n \in Nat \ {0}
  BY <1>1 DEF Entries
<1>3. d \in Entries /\ d.nbytes = e.nbytes + n
      /\ d.model = e.model /\ d.seq = e.seq /\ d.layer = e.layer
  BY <1>1, <1>2 DEF Entries
<1> QED  BY <1>1, <1>3 DEF Entry

\* evict_sequence, and get when it finds nothing.
LEMMA RemoveAllAccounts ==
    ASSUME Shape, Typed, NEW gone, RemoveAll(gone), UNCHANGED managerVars
    PROVE  Accounts
<1>1. ASSUME NEW g \in GPUs
      PROVE  Removes(g) /\ Pool(cached'[g]) /\ used'[g] \in Int
  <2>1. /\ cached'[g] = Without(cached[g], gone[g])
        /\ used'[g] = used[g] - Bytes(Restrict(cached[g], gone[g] \cap DOMAIN cached[g]))
        /\ capacity'[g] = capacity[g]
    BY DEF RemoveAll
  <2> QED  BY <2>1, RemoveAccounts
<1>2. Shape'
  BY <1>1 DEF Shape, RemoveAll
<1>3. Typed' /\ extended' = extended /\ uneven' = uneven
  BY <1>1 DEF Typed, RemoveAll, managerVars
<1> QED  BY <1>1, <1>2, <1>3 DEF Accounts

\* The ttl of an entry of pool g begins anew, or runs out.
LEMMA TouchAccounts ==
    ASSUME Shape, Typed, NEW g \in GPUs, NEW k \in DOMAIN cached[g], NEW b \in BOOLEAN,
           cached'[g] = [cached[g] EXCEPT ![k].expired = b],
           used'[g] = used[g], capacity'[g] = capacity[g]
    PROVE  Removes(g) /\ Pool(cached'[g]) /\ used'[g] \in Int
<1> DEFINE c == cached[g]
           d == cached'[g]
<1>1. Pool(c) /\ used[g] \in Int /\ Bytes(c) \in Nat
  BY BytesNat DEF Shape, Typed
<1>2. Entry(k, c[k])
  BY <1>1 DEF Pool
<1>3. c = [x \in DOMAIN c |-> c[x]]
  BY <1>1 DEF Pool
<1>4. /\ d[k] = [c[k] EXCEPT !.expired = b]
      /\ \A x \in DOMAIN c \ {k} : d[x] = c[x]
      /\ DOMAIN d = DOMAIN c
      /\ d = [x \in DOMAIN c |-> d[x]]
  BY <1>3
<1>5. Entry(k, d[k]) /\ d[k].nbytes = c[k].nbytes
  BY <1>2, <1>4, EntryFlagged
<1>6. d[k].nbytes = c[k].nbytes + 0 /\ k \in DOMAIN c
  <2>1. c[k].nbytes \in Nat
    BY <1>2 DEF Entry, Entries
  <2> QED  BY <1>5, <2>1
<1> HIDE DEF c, d
<1>7. Pool(d) /\ Bytes(d) = Bytes(c) + 0
  <2>1. /\ DOMAIN d = DOMAIN c
        /\ d = [x \in DOMAIN c |-> d[x]]
        /\ \A x \in DOMAIN c \ {k} : d[x] = c[x]
        /\ Entry(k, d[k]) /\ 0 \in Nat /\ d[k].nbytes = c[k].nbytes + 0
        /\ k \in DOMAIN c /\ Pool(c)
    BY <1>1, <1>4, <1>5, <1>6
  <2> QED  BY ONLY <2>1, GrowPool
<1>8. Bytes(d) = Bytes(c) - 0 /\ used'[g] = used[g] - 0
  BY <1>1, <1>7
<1> QED  BY <1>1, <1>7, <1>8 DEF c, d, Removes

\* get when it finds the entry.
LEMMA GetHitAccounts ==
    ASSUME Shape, Typed, NEW m, NEW s, NEW l, GetHit(m, s, l)
    PROVE  Accounts
<1> DEFINE k == CacheKey(m, s, l)
<1>1. PICK i \in DOMAIN devices :
        /\ FirstDevice(i, LAMBDA g : Live(g, k))
        /\ LET h      == devices[i]
               before == {devices[j] : j \in 1 .. (i - 1)}
               gone   == [g \in GPUs |-> IF g \in before THEN {k} ELSE {}]
           IN  /\ cached' = [g \in GPUs |->
                    IF g = h THEN [cached[g] EXCEPT ![k].expired = FALSE]
                             ELSE Without(cached[g], gone[g])]
               /\ used' = [g \in GPUs |->
                    used[g] - Bytes(Restrict(cached[g], gone[g] \cap DOMAIN cached[g]))]
  BY DEF GetHit
<1> DEFINE h == devices[i]
           before == {devices[j] : j \in 1 .. (i - 1)}
           gone == [g \in GPUs |-> IF g \in before THEN {k} ELSE {}]
<1>2. h \in GPUs /\ h \notin before
  <2>1. devices \in Seq(GPUs) /\ i \in 1 .. Len(devices)
    BY DEF Typed
  <2>2. \A j \in 1 .. (i - 1) : j \in DOMAIN devices /\ j # i
    BY <2>1
  <2> QED  BY <2>1, <2>2 DEF Typed
<1>3. k \in DOMAIN cached[h]
  BY <1>1 DEF FirstDevice, Live, Holds
<1>4. capacity' = capacity /\ devices' = devices /\ extended' = extended /\ uneven' = uneven
  BY DEF GetHit, managerVars
<1>5. ASSUME NEW g \in GPUs, g # h
      PROVE  Removes(g) /\ Pool(cached'[g]) /\ used'[g] \in Int
  <2>1. /\ cached'[g] = Without(cached[g], gone[g])
        /\ used'[g] = used[g] - Bytes(Restrict(cached[g], gone[g] \cap DOMAIN cached[g]))
        /\ capacity'[g] = capacity[g]
    BY <1>1, <1>4, <1>5
  <2> HIDE DEF gone
  <2> QED  BY <2>1, RemoveAccounts
<1>6. Removes(h) /\ Pool(cached'[h]) /\ used'[h] \in Int
  <2>1. /\ cached'[h] = [cached[h] EXCEPT ![k].expired = FALSE]
        /\ used'[h] = used[h] - Bytes(Restrict(cached[h], gone[h] \cap DOMAIN cached[h]))
    BY <1>1, <1>2
  <2>2. Bytes(Restrict(cached[h], gone[h] \cap DOMAIN cached[h])) = 0
    <3>1. gone[h] \cap DOMAIN cached[h] = {}
      BY <1>2
    <3>2. Occupied(Restrict(cached[h], {})) = {}
      BY DEF Occupied, Restrict
    <3> QED  BY <3>1, <3>2, FS_EmptySet DEF Bytes
  <2>3. used[h] \in Int
    BY <1>2 DEF Typed
  <2>4. used'[h] = used[h] /\ capacity'[h] = capacity[h]
    BY <1>4, <2>1, <2>2, <2>3
  <2> HIDE DEF h, k
  <2> QED  BY <1>2, <1>3, <2>1, <2>4, TouchAccounts
<1>7. cached' = [g \in GPUs |-> cached'[g]] /\ used' = [g \in GPUs |-> used'[g]]
  BY <1>1
<1> HIDE DEF h, k, gone, before
<1>8. \A g \in GPUs : Removes(g) /\ Pool(cached'[g]) /\ used'[g] \in Int
  BY <1>5, <1>6
<1>9. Shape' /\ Typed'
  BY <1>4, <1>7, <1>8 DEF Shape, Typed
<1> QED  BY <1>4, <1>8, <1>9 DEF Accounts

\* The pools a step does not touch.
LEMMA SameAccounts ==
    ASSUME Shape, Typed, NEW g \in GPUs,
           cached'[g] = cached[g], used'[g] = used[g], capacity'[g] = capacity[g]
    PROVE  Removes(g) /\ Pool(cached'[g]) /\ used'[g] \in Int
<1>1. Bytes(cached[g]) \in Nat /\ used[g] \in Int /\ Pool(cached[g])
  BY BytesNat DEF Shape, Typed
<1>2. Bytes(cached'[g]) = Bytes(cached[g]) - 0 /\ used'[g] = used[g] - 0
  BY <1>1
<1> QED  BY <1>1, <1>2 DEF Removes

LEMMA LapseAccounts ==
    ASSUME Shape, Typed, NEW g \in GPUs, NEW k, Lapse(g, k), UNCHANGED managerVars
    PROVE  Accounts
<1>1. /\ k \in DOMAIN cached[g]
      /\ cached' = [cached EXCEPT ![g] = [cached[g] EXCEPT ![k].expired = TRUE]]
      /\ used' = used /\ capacity' = capacity
      /\ devices' = devices /\ extended' = extended /\ uneven' = uneven
  BY DEF Lapse, managerVars
<1>2. /\ cached'[g] = [cached[g] EXCEPT ![k].expired = TRUE]
      /\ \A h \in GPUs \ {g} : cached'[h] = cached[h]
      /\ cached' = [h \in GPUs |-> cached'[h]]
  BY <1>1, Updated DEF Shape
<1>3. Removes(g) /\ Pool(cached'[g])
  BY <1>1, <1>2, TouchAccounts
<1>4. \A h \in GPUs \ {g} : Removes(h) /\ Pool(cached'[h])
  BY <1>1, <1>2, SameAccounts
<1>5. Shape' /\ Typed'
  BY <1>1, <1>2, <1>3, <1>4 DEF Shape, Typed
<1> QED  BY <1>1, <1>3, <1>4, <1>5 DEF Accounts

\* An entry of pool g grows by b, whether n = b of it are counted or not.
LEMMA EnlargeAccounts ==
    ASSUME Shape, Typed, Appends, NEW g \in GPUs, g \in Range(devices),
           NEW k \in DOMAIN cached[g],
           NEW b \in Nat, NEW n \in Nat, NEW z \in BOOLEAN, Enlarge(g, k, b, z),
           used' = [used EXCEPT ![g] = @ + n], capacity' = capacity, devices' = devices,
           extended' = extended \cup {g},
           uneven' \in {uneven, uneven \cup {g}}, b = n \/ g \in uneven'
    PROVE  Accounts
<1>1. Pool(cached[g]) /\ used[g] \in Int /\ Bytes(cached[g]) \in Nat
  BY BytesNat DEF Shape, Typed
<1> DEFINE c == cached[g]
           e == c[k]
           d == [c EXCEPT ![k] = [e EXCEPT !.nbytes = @ + b, !.expired = z]]
<1>2. c = [x \in DOMAIN c |-> c[x]] /\ Entry(k, e)
  BY <1>1 DEF Pool
<1>3. cached' = [cached EXCEPT ![g] = d]
  <2> DEFINE a == [e EXCEPT !.nbytes = @ + b]
             f == [cached EXCEPT ![g] = [c EXCEPT ![k] = a]]
  <2>1. cached' = [f EXCEPT ![g] = [f[g] EXCEPT ![k] = [f[g][k] EXCEPT !.expired = z]]]
    BY DEF Enlarge
  <2>2. f[g] = [c EXCEPT ![k] = a] /\ f[g][k] = a
    BY <1>2 DEF Shape
  <2>3. [f EXCEPT ![g] = d] = [cached EXCEPT ![g] = d]
    OBVIOUS
  <2>4. [a EXCEPT !.expired = z] = [e EXCEPT !.nbytes = @ + b, !.expired = z]
    OBVIOUS
  <2> HIDE DEF a
  <2>5. [[c EXCEPT ![k] = a] EXCEPT ![k] = [a EXCEPT !.expired = z]] = d
    BY <2>4
  <2>6. QED
    BY <2>1, <2>2, <2>3, <2>5
<1>4. /\ d[k] = [e EXCEPT !.nbytes = @ + b, !.expired = z]
      /\ \A x \in DOMAIN c \ {k} : d[x] = c[x]
      /\ DOMAIN d = DOMAIN c
      /\ d = [x \in DOMAIN c |-> d[x]]
  BY <1>2
<1>5. Entry(k, d[k]) /\ d[k].nbytes = c[k].nbytes + b
  <2> DEFINE x == [e EXCEPT !.nbytes = @ + b, !.expired = z]
  <2>1. Entry(k, x) /\ x.nbytes = e.nbytes + b
    <3> HIDE DEF e, c
    <3> QED  BY <1>2, EntryExtended
  <2>2. d[k] = x
    BY <1>4
  <2> HIDE DEF x, d
  <2> QED  BY <2>1, <2>2
<1> HIDE DEF c, d, e
<1>6. Pool(d) /\ Bytes(d) = Bytes(c) + b
  <2>1. /\ DOMAIN d = DOMAIN c
        /\ d = [x \in DOMAIN c |-> d[x]]
        /\ \A x \in DOMAIN c \ {k} : d[x] = c[x]
        /\ Entry(k, d[k]) /\ b \in Nat /\ d[k].nbytes = c[k].nbytes + b
        /\ k \in DOMAIN c /\ Pool(c)
    BY <1>1, <1>4, <1>5 DEF c
  <2> QED  BY ONLY <2>1, GrowPool
<1>7. /\ cached'[g] = d
      /\ \A h \in GPUs \ {g} : cached'[h] = cached[h]
      /\ cached' = [h \in GPUs |-> cached'[h]]
  BY <1>3, Updated DEF Shape
<1>8. /\ used'[g] = used[g] + n
      /\ \A h \in GPUs \ {g} : used'[h] = used[h]
      /\ used' \in [GPUs -> Int]
  BY <1>1 DEF Typed
<1>9. Grows(g)
  BY <1>6, <1>7, <1>8 DEF Grows, c
<1>10. \A h \in GPUs \ {g} : Removes(h) /\ Pool(cached'[h])
  BY <1>7, <1>8, SameAccounts
<1>11. /\ extended \subseteq extended' /\ extended' \subseteq Range(devices')
       /\ uneven \subseteq uneven' /\ uneven' \subseteq extended'
  BY DEF Typed, Range
<1>12. Typed'
  BY <1>8, <1>11 DEF Typed
<1>13. Shape'
  BY <1>6, <1>7, <1>10 DEF Shape
<1>14. QED
  BY <1>9, <1>10, <1>11, <1>12, <1>13 DEF Accounts

LEMMA ExtendAccounts ==
    ASSUME Shape, Typed, NEW m \in Models, NEW s \in SeqIds, NEW l \in Layers,
           NEW n \in ExtendSizes, ExtendKV(m, s, l, n) \/ ExtendKVRaises(m, s, l, n)
    PROVE  Accounts
<1> DEFINE k == CacheKey(m, s, l)
<1>1. Appends
  BY DEF Appends
<1>2. n \in Nat /\ MaxEntry \in Nat
  BY SizeAssumption
<1>3. ASSUME NEW i \in DOMAIN devices, FirstDevice(i, LAMBDA h : Holds(h, k))
      PROVE  /\ devices[i] \in GPUs /\ devices[i] \in Range(devices)
             /\ k \in DOMAIN cached[devices[i]]
             /\ cached[devices[i]][k].nbytes \in Nat
             /\ cached[devices[i]][k].expired \in BOOLEAN
  <2>1. devices[i] \in GPUs /\ devices[i] \in Range(devices)
    BY DEF Typed, Range
  <2>2. k \in DOMAIN cached[devices[i]]
    BY <1>3 DEF FirstDevice, Holds
  <2> HIDE DEF k
  <2>3. cached[devices[i]][k] \in Entries
    BY <2>1, <2>2 DEF Shape, Pool, Entry
  <2>4. QED
    BY <2>1, <2>2, <2>3 DEF Entries
<1>4. CASE ExtendKV(m, s, l, n)
  <2>1. PICK i \in DOMAIN devices :
          /\ FirstDevice(i, LAMBDA h : Holds(h, k))
          /\ \E b \in n .. (MaxEntry - cached[devices[i]][k].nbytes) :
              /\ Enlarge(devices[i], k, b, FALSE)
              /\ used' = [used EXCEPT ![devices[i]] = @ + n]
              /\ extended' = extended \cup {devices[i]}
              /\ uneven' = IF b = n THEN uneven ELSE uneven \cup {devices[i]}
          /\ capacity' = capacity /\ devices' = devices
    BY <1>4 DEF ExtendKV
  <2>2. PICK g : g = devices[i]
    OBVIOUS
  <2>3. /\ g \in GPUs /\ g \in Range(devices) /\ k \in DOMAIN cached[g]
        /\ cached[g][k].nbytes \in Nat
    BY <1>3, <2>1, <2>2
  <2> HIDE DEF k
  <2>4. PICK b \in n .. (MaxEntry - cached[g][k].nbytes) :
          /\ Enlarge(g, k, b, FALSE)
          /\ used' = [used EXCEPT ![g] = @ + n]
          /\ extended' = extended \cup {g}
          /\ uneven' = IF b = n THEN uneven ELSE uneven \cup {g}
    BY <2>1, <2>2
  <2>5. b \in Nat
    BY <1>2, <2>3, <2>4
  <2>6. QED
    BY <1>1, <1>2, <2>1, <2>3, <2>4, <2>5, EnlargeAccounts
<1>5. CASE ExtendKVRaises(m, s, l, n)
  <2>1. PICK i \in DOMAIN devices, touched \in BOOLEAN :
          /\ FirstDevice(i, LAMBDA h : Holds(h, k))
          /\ Enlarge(devices[i], k, n, cached[devices[i]][k].expired /\ ~ touched)
          /\ extended' = extended \cup {devices[i]}
          /\ uneven' = uneven \cup {devices[i]}
          /\ used' = used /\ capacity' = capacity /\ devices' = devices
    BY <1>5 DEF ExtendKVRaises
  <2>2. PICK g : g = devices[i]
    OBVIOUS
  <2>3. /\ g \in GPUs /\ g \in Range(devices) /\ k \in DOMAIN cached[g]
        /\ cached[g][k].expired \in BOOLEAN
    BY <1>3, <2>1, <2>2
  <2> HIDE DEF k
  <2>4. PICK z \in BOOLEAN : z = (cached[g][k].expired /\ ~ touched)
    OBVIOUS
  <2>5. Enlarge(g, k, n, z)
    BY <2>1, <2>2, <2>4
  <2>6. used' = [used EXCEPT ![g] = @ + 0]
    BY <2>1, <2>3 DEF Typed
  <2>7. 0 \in Nat
    OBVIOUS
  <2>8. QED
    BY <1>1, <1>2, <2>1, <2>2, <2>3, <2>5, <2>6, <2>7, EnlargeAccounts
<1>6. QED
  BY <1>4, <1>5

LEMMA AddGpuAccounts ==
    ASSUME Shape, Typed, NEW g \in GPUs, NEW c \in Capacities, AddGpu(g, c)
    PROVE  Accounts
<1>1. /\ cached' = [cached EXCEPT ![g] = NoEntries]
      /\ used' = [used EXCEPT ![g] = 0]
      /\ capacity' = [capacity EXCEPT ![g] = IF c = 0 THEN DefaultCapacity ELSE c]
  BY DEF AddGpu
<1>2. /\ cached'[g] = NoEntries
      /\ \A h \in GPUs \ {g} : cached'[h] = cached[h]
      /\ cached' = [h \in GPUs |-> cached'[h]]
  BY <1>1, Updated DEF Shape
<1>3. /\ used'[g] = 0 /\ used' \in [GPUs -> Int] /\ capacity' \in [GPUs -> Nat \ {0}]
      /\ \A h \in GPUs \ {g} : used'[h] = used[h] /\ capacity'[h] = capacity[h]
  BY <1>1, CapacityAssumption, SizeAssumption DEF Typed
<1>4. Pool(NoEntries) /\ Bytes(NoEntries) = 0
  <2>1. Occupied(NoEntries) = {} /\ DOMAIN NoEntries = {}
    BY DEF Occupied, NoEntries
  <2>2. NoEntries = [k \in DOMAIN NoEntries |-> NoEntries[k]]
    BY DEF NoEntries
  <2> QED  BY <2>1, <2>2, FS_EmptySet DEF Pool, Bytes
<1>5. Resets(g) /\ Pool(cached'[g])
  BY <1>2, <1>3, <1>4 DEF Resets
<1>6. \A h \in GPUs \ {g} : Removes(h) /\ Pool(cached'[h])
  BY <1>2, <1>3, SameAccounts
<1>7. /\ devices' = IF Known(g) THEN devices ELSE Append(devices, g)
      /\ extended' = extended \ {g} /\ uneven' = uneven \ {g}
  BY DEF AddGpu
<1>8. Shape' /\ Typed'
  BY <1>2, <1>3, <1>5, <1>6, <1>7, DevicesAppend DEF Shape, Typed
<1> QED  BY <1>5, <1>6, <1>7, <1>8 DEF Accounts

\* Every step of the manager.
LEMMA NextAccounts ==
    ASSUME Shape, Typed, [Next]_vars
    PROVE  Accounts
<1>1. ASSUME NEW g \in GPUs, NEW c \in Capacities, AddGpu(g, c)
      PROVE  Accounts
  BY <1>1, AddGpuAccounts
<1>2. ASSUME NEW m \in Models, NEW s \in SeqIds, NEW l \in Layers, NEW n \in EntrySizes,
             NEW g \in GPUs, StoreKV(m, s, l, n, g)
      PROVE  Accounts
  <2>1. Entry(CacheKey(m, s, l), NewEntry(m, s, l, n))
    BY SizeAssumption DEF Entry, Entries, NewEntry
  <2> QED  BY <1>2, <2>1, PutAccounts DEF StoreKV
<1>3. ASSUME NEW m \in Models, NEW s \in SeqIds, NEW l \in Layers, GetKV(m, s, l)
      PROVE  Accounts
  BY <1>3, GetHitAccounts, RemoveAllAccounts DEF GetKV, GetMiss
<1>4. ASSUME NEW m \in Models, NEW s \in SeqIds, NEW l \in Layers, NEW n \in ExtendSizes,
             ExtendKV(m, s, l, n) \/ ExtendKVRaises(m, s, l, n)
      PROVE  Accounts
  BY <1>4, ExtendAccounts
<1>5. ASSUME NEW s \in SeqIds, EvictSequence(s)
      PROVE  Accounts
  BY <1>5, RemoveAllAccounts DEF EvictSequence
<1>6. ASSUME NEW g \in GPUs, NEW k \in Keys, Lapse(g, k), UNCHANGED managerVars
      PROVE  Accounts
  BY <1>6, LapseAccounts
<1>7. CASE UNCHANGED vars
  <2>1. /\ cached' = cached /\ used' = used /\ capacity' = capacity
        /\ devices' = devices /\ extended' = extended /\ uneven' = uneven
    BY <1>7 DEF vars, managerVars
  <2>2. \A g \in GPUs : Removes(g)
    BY <2>1, SameAccounts
  <2>3. Shape' /\ Typed'
    BY <2>1 DEF Shape, Typed
  <2> QED  BY <2>1, <2>2, <2>3 DEF Accounts
<1> QED
  BY <1>1, <1>2, <1>3, <1>4, <1>5, <1>6, <1>7 DEF Next, PrefillFromStorage

-----------------------------------------------------------------------------
(* Theorems.                                                               *)

LEMMA Initially ==
    ASSUME Init
    PROVE  Shape /\ Typed /\ \A g \in GPUs : Bytes(cached[g]) = 0 /\ used[g] = 0
<1>1. Pool(NoEntries) /\ Bytes(NoEntries) = 0
  <2>1. Occupied(NoEntries) = {} /\ DOMAIN NoEntries = {}
    BY DEF Occupied, NoEntries
  <2>2. NoEntries = [k \in DOMAIN NoEntries |-> NoEntries[k]]
    BY DEF NoEntries
  <2> QED  BY <2>1, <2>2, FS_EmptySet DEF Pool, Bytes
<1>2. /\ cached = [g \in GPUs |-> NoEntries]
      /\ used = [g \in GPUs |-> 0]
      /\ capacity = [g \in GPUs |-> DefaultCapacity]
      /\ devices = <<>> /\ extended = {} /\ uneven = {}
  BY DEF Init, PoolInit
<1>3. Shape
  BY <1>1, <1>2 DEF Shape
<1>4. Typed
  BY <1>2, CapacityAssumption DEF Typed
<1> QED  BY <1>1, <1>2, <1>3, <1>4

\* No pool undercounts in which extend_kv has not miscounted: whatever is
\* stored, overwritten, extended, evicted or expires, _used_bytes is at least
\* what the entries occupy.
Inv == Shape /\ Typed /\ NeverUndercounts

LEMMA Invariant == Spec => []Inv
<1>1. Init => Inv
  <2>1. ASSUME Init PROVE NeverUndercounts
    BY <2>1, Initially DEF NeverUndercounts
  <2> QED  BY <2>1, Initially DEF Inv
<1>2. Inv /\ [Next]_vars => Inv'
  <2> SUFFICES ASSUME Inv, [Next]_vars PROVE Inv'
    OBVIOUS
  <2>1. Accounts
    BY NextAccounts DEF Inv
  <2>2. ASSUME NEW g \in GPUs, g \notin uneven' PROVE Bytes(cached'[g]) <= used'[g]
    <3>1. /\ Bytes(cached[g]) \in Nat /\ used[g] \in Int
          /\ Bytes(cached[g]) <= used[g] \/ g \in uneven
      BY BytesNat DEF Inv, Typed, NeverUndercounts
    <3>2. Bytes(cached'[g]) \in Nat
      BY <2>1, OccupiedFinite DEF Accounts, Shape
    <3>3. CASE Resets(g)
      BY <3>3 DEF Resets
    <3>4. CASE Removes(g) /\ ~ Resets(g)
      BY <2>1, <2>2, <3>1, <3>4 DEF Removes, Accounts
    <3>5. CASE Inserts(g) /\ ~ Resets(g)
      BY <2>1, <2>2, <3>1, <3>2, <3>5 DEF Inserts, Accounts
    <3>6. CASE Grows(g) /\ ~ Resets(g)
      BY <2>1, <2>2, <3>1, <3>6 DEF Grows, Accounts
    <3> QED  BY <2>1, <3>3, <3>4, <3>5, <3>6 DEF Accounts
  <2> QED  BY <2>1, <2>2 DEF Inv, Accounts, NeverUndercounts
<1> QED  BY <1>1, <1>2, PTL DEF Spec

\* Pools hold entries under their own keys, with positive sizes, and the
\* bookkeeping stays in its types.
THEOREM TypeCorrect == Spec => []TypeOK
<1>1. Inv => TypeOK
  BY DEF Inv, Shape, Typed, TypeOK, Pool, Entry
<1> QED  BY <1>1, Invariant, PTL

\* NeverUndercounts: _used_bytes of a pool covers what its entries occupy,
\* after any history of calls, unless a call of extend_kv raised half-way in
\* it or grew an entry by more than it counted.
THEOREM UsedCoversEntries == Spec => []NeverUndercounts
<1>1. Inv => NeverUndercounts
  BY DEF Inv
<1> QED  BY <1>1, Invariant, PTL

\* Pools that extend_kv has not appended to stay within their capacity, and
\* what overwriting leaks never reaches it.
WithinCapacity == \A g \in GPUs \ extended : used[g] <= capacity[g]

StoreInv == Inv /\ WithinCapacity /\ LeakBelowCapacity

LEMMA StoreInvariant == Spec => []StoreInv
<1>1. Init => StoreInv
  <2> SUFFICES ASSUME Init PROVE StoreInv
    OBVIOUS
  <2>1. Shape /\ Typed /\ \A g \in GPUs : Bytes(cached[g]) = 0 /\ used[g] = 0
    BY Initially
  <2>2. \A g \in GPUs : capacity[g] \in Nat \ {0}
    BY <2>1 DEF Typed
  <2> QED  BY <2>1, <2>2 DEF StoreInv, Inv, NeverUndercounts, WithinCapacity, LeakBelowCapacity
<1>2. StoreInv /\ Inv' /\ [Next]_vars => StoreInv'
  <2> SUFFICES ASSUME StoreInv, Inv', [Next]_vars PROVE StoreInv'
    OBVIOUS
  <2>1. Accounts
    BY NextAccounts DEF StoreInv, Inv
  <2>2. ASSUME NEW g \in GPUs, g \notin extended'
        PROVE  used'[g] <= capacity'[g] /\ used'[g] - Bytes(cached'[g]) < capacity'[g]
    <3>1. /\ Bytes(cached[g]) \in Nat /\ used[g] \in Int /\ capacity[g] \in Nat \ {0}
          /\ Bytes(cached'[g]) \in Nat /\ capacity'[g] \in Nat \ {0}
      BY <2>1, BytesNat, OccupiedFinite DEF StoreInv, Inv, Accounts, Shape, Typed
    <3>2. CASE Resets(g)
      BY <3>1, <3>2 DEF Resets
    <3>3. CASE ~ Resets(g)
      <4>1. used[g] <= capacity[g] /\ used[g] - Bytes(cached[g]) < capacity[g]
        BY <2>1, <2>2, <3>3 DEF Accounts, StoreInv, WithinCapacity, LeakBelowCapacity
      <4>2. CASE Removes(g)
        BY <3>1, <4>1, <4>2 DEF Removes
      <4>3. CASE Inserts(g)
        BY <3>1, <4>1, <4>3 DEF Inserts
      <4> QED  BY <2>1, <2>2, <3>3, <4>2, <4>3 DEF Accounts, Grows
    <3> QED  BY <3>2, <3>3
  <2> QED  BY <2>2 DEF StoreInv, WithinCapacity, LeakBelowCapacity
<1> QED  BY <1>1, <1>2, Invariant, PTL DEF Spec

\* No history of stores, overwrites, evictions and expiries takes a pool
\* beyond its capacity that extend_kv has not appended to.
THEOREM CapacityRespected == Spec => []WithinCapacity
<1>1. StoreInv => WithinCapacity
  BY DEF StoreInv
<1> QED  BY <1>1, StoreInvariant, PTL

\* LeakBelowCapacity: overwriting entries never leaks the whole capacity of
\* a pool that extend_kv has not appended to.
THEOREM LeakIsBounded == Spec => []LeakBelowCapacity
<1>1. StoreInv => LeakBelowCapacity
  BY DEF StoreInv
<1> QED  BY <1>1, StoreInvariant, PTL

\* OnlyExtensionOverflows: whatever was extended, leaked and evicted before,
\* the only call that makes a pool exceed its capacity, or exceed it by more,
\* is extend_kv.
THEOREM OnlyAppendsOverflow == Spec => OnlyExtensionOverflows
<1>1. ASSUME Inv, [Next]_vars, NEW g \in GPUs,
             used'[g] > used[g], used'[g] > capacity'[g]
      PROVE  Appends
  <2>1. Accounts
    BY <1>1, NextAccounts DEF Inv
  <2>2. used[g] \in Int /\ used'[g] \in Int /\ capacity'[g] \in Nat \ {0}
        /\ capacity[g] \in Nat \ {0}
    BY <1>1, <2>1 DEF Inv, Accounts, Typed
  <2>3. ~ Resets(g) /\ ~ Removes(g)
    BY <1>1, <2>2 DEF Resets, Removes
  <2>4. ~ Inserts(g)
    BY <1>1, <2>2 DEF Inserts
  <2> QED  BY <2>1, <2>3, <2>4 DEF Accounts, Grows
<1>2. Inv /\ [Next]_vars =>
        \A g \in GPUs : used'[g] > used[g] /\ used'[g] > capacity'[g] => Appends
  BY <1>1
<1> QED  BY <1>2, Invariant, PTL DEF Spec, OnlyExtensionOverflows

-----------------------------------------------------------------------------
(* The order of a pool.                                                    *)

\* kept[i] is what remains of the first i members of s.
Keeps(kept, s, K, n) ==
    kept = [i \in 0 .. n |->
              IF i = 0 THEN <<>>
              ELSE IF s[i] \in K THEN kept[i - 1] ELSE Append(kept[i - 1], s[i])]

LEMMA DropByKept ==
    ASSUME NEW s, NEW K
    PROVE  Drop(s, K) = (CHOOSE kept : Keeps(kept, s, K, Len(s)))[Len(s)]
  BY DEF Drop, Keeps

LEMMA LeastNumber ==
    ASSUME NEW T \in SUBSET Nat, T # {} PROVE \E x \in T : \A y \in T : x <= y
<1>1. PICK x \in T : \A y \in T : ~ (<<y, x>> \in OpToRel(<, Nat))
  BY NatLessThanWellFounded, WFMin
<1>2. \A y \in T : ~ (y < x)
  BY <1>1 DEF OpToRel
<1>3. QED
  BY <1>2

LEMMA KeptExists ==
    ASSUME NEW s, NEW K, NEW n \in Nat PROVE \E kept : Keeps(kept, s, K, n)
<1> DEFINE T == {m \in Nat : ~ \E kept : Keeps(kept, s, K, m)}
<1>1. 0 \notin T
  <2> DEFINE f == [i \in 0 .. 0 |-> <<>>]
  <2>1. Keeps(f, s, K, 0)
    BY DEF Keeps
  <2>2. QED
    BY <2>1
<1>2. ASSUME NEW m \in Nat, m \notin T PROVE m + 1 \notin T
  <2>1. PICK f : Keeps(f, s, K, m)
    BY <1>2
  <2> DEFINE h == [i \in 0 .. (m + 1) |->
                     IF i <= m THEN f[i]
                     ELSE IF s[m + 1] \in K THEN f[m] ELSE Append(f[m], s[m + 1])]
  <2>2. \A i \in 0 .. (m + 1) :
            h[i] = IF i <= m THEN f[i]
                   ELSE IF s[m + 1] \in K THEN f[m] ELSE Append(f[m], s[m + 1])
    OBVIOUS
  <2>3. \A i \in 0 .. m :
            f[i] = IF i = 0 THEN <<>>
                   ELSE IF s[i] \in K THEN f[i - 1] ELSE Append(f[i - 1], s[i])
    BY <2>1 DEF Keeps
  <2>4. h = [i \in 0 .. (m + 1) |-> h[i]]
    OBVIOUS
  <2> HIDE DEF h
  <2>5. ASSUME NEW i \in 0 .. (m + 1)
        PROVE  h[i] = IF i = 0 THEN <<>>
                      ELSE IF s[i] \in K THEN h[i - 1] ELSE Append(h[i - 1], s[i])
    <3>1. CASE i = 0
      BY <2>2, <2>3, <3>1
    <3>2. CASE i \in 1 .. m
      <4>1. i \in 0 .. m /\ i - 1 \in 0 .. m /\ i # 0
        BY <3>2
      <4>2. h[i] = f[i] /\ h[i - 1] = f[i - 1]
        BY <2>2, <4>1
      <4>3. QED
        BY <2>3, <4>1, <4>2
    <3>3. CASE i = m + 1
      <4>1. h[i - 1] = f[m] /\ i # 0
        BY <2>2, <3>3
      <4>2. h[i] = IF s[m + 1] \in K THEN f[m] ELSE Append(f[m], s[m + 1])
        BY <2>2, <3>3
      <4>3. QED
        BY <3>3, <4>1, <4>2
    <3>4. QED
      BY <3>1, <3>2, <3>3
  <2>6. Keeps(h, s, K, m + 1)
    BY <2>4, <2>5 DEF Keeps
  <2>7. QED
    BY <2>6
<1>3. T = {}
  <2> SUFFICES ASSUME T # {} PROVE FALSE
    OBVIOUS
  <2>1. PICK m \in T : \A x \in T : m <= x
    BY LeastNumber
  <2>2. m \in Nat /\ m # 0
    BY <1>1, <2>1
  <2> HIDE DEF T
  <2>3. m - 1 \in Nat /\ m - 1 \notin T
    BY <2>1, <2>2
  <2>4. QED
    BY <1>2, <2>1, <2>2, <2>3
<1>4. QED
  BY <1>3

\* A sequence that lists nothing twice.
Distinct(s) == \A i, j \in DOMAIN s : s[i] = s[j] => i = j

LEMMA DistinctAppend ==
    ASSUME NEW S, NEW s \in Seq(S), NEW k \in S, Distinct(s), k \notin Range(s)
    PROVE  /\ Append(s, k) \in Seq(S) /\ Distinct(Append(s, k))
           /\ Range(Append(s, k)) = Range(s) \cup {k}
<1>1. /\ Append(s, k) \in Seq(S) /\ Len(s) \in Nat /\ DOMAIN s = 1 .. Len(s)
      /\ DOMAIN Append(s, k) = 1 .. (Len(s) + 1)
      /\ \A i \in DOMAIN s : Append(s, k)[i] = s[i]
      /\ Append(s, k)[Len(s) + 1] = k
  OBVIOUS
<1>2. \A i \in DOMAIN s : s[i] # k
  BY DEF Range
<1>3. \A i \in DOMAIN Append(s, k) : i \in DOMAIN s \/ i = Len(s) + 1
  BY <1>1
<1>4. Distinct(Append(s, k))
  BY <1>1, <1>2, <1>3 DEF Distinct
<1>5. Range(Append(s, k)) = Range(s) \cup {k}
  <2> PICK t : t = Append(s, k)
    OBVIOUS
  <2>1. Range(t) \subseteq Range(s) \cup {k}
    BY <1>1, <1>3 DEF Range
  <2>2. Range(s) \subseteq Range(t)
    BY <1>1 DEF Range
  <2>3. k \in Range(t)
    <3>1. Len(s) + 1 \in DOMAIN t /\ t[Len(s) + 1] = k
      BY <1>1
    <3>2. QED
      BY <3>1 DEF Range
  <2>4. QED
    BY <2>1, <2>2, <2>3
<1>6. QED
  BY <1>1, <1>4, <1>5

\* What _remove of the keys in K leaves of the order.
LEMMA DropLeaves ==
    ASSUME NEW S, NEW s \in Seq(S), Distinct(s), NEW K
    PROVE  /\ Drop(s, K) \in Seq(S) /\ Distinct(Drop(s, K))
           /\ Range(Drop(s, K)) = Range(s) \ K
<1> DEFINE f == CHOOSE kept : Keeps(kept, s, K, Len(s))
           Before(i) == {s[j] : j \in 1 .. i}
           Right(i) == /\ f[i] \in Seq(S) /\ Distinct(f[i])
                       /\ Range(f[i]) = Before(i) \ K
           T == {i \in 0 .. Len(s) : ~ Right(i)}
<1>1. Len(s) \in Nat /\ DOMAIN s = 1 .. Len(s) /\ \A i \in 1 .. Len(s) : s[i] \in S
  OBVIOUS
<1>2. \A i \in 0 .. Len(s) :
          f[i] = IF i = 0 THEN <<>>
                 ELSE IF s[i] \in K THEN f[i - 1] ELSE Append(f[i - 1], s[i])
  <2>1. \E kept : Keeps(kept, s, K, Len(s))
    BY <1>1, KeptExists
  <2>2. Keeps(f, s, K, Len(s))
    BY <2>1
  <2> HIDE DEF f
  <2>3. QED
    BY <2>2 DEF Keeps
<1> HIDE DEF f
<1>3. Right(0)
  <2>1. f[0] = <<>>
    BY <1>1, <1>2
  <2>2. Before(0) = {}
    OBVIOUS
  <2>3. QED
    BY <2>1, <2>2 DEF Distinct, Range
<1>4. ASSUME NEW i \in 1 .. Len(s), Right(i - 1) PROVE Right(i)
  <2>1. i \in 0 .. Len(s) /\ i # 0 /\ i - 1 \in Nat /\ s[i] \in S
    BY <1>1
  <2>2. Before(i) = Before(i - 1) \cup {s[i]}
    <3>1. 1 .. i = (1 .. (i - 1)) \cup {i}
      BY <1>1
    <3>2. QED
      BY <3>1
  <2>3. s[i] \notin Before(i - 1)
    <3>1. \A j \in 1 .. (i - 1) : j \in DOMAIN s /\ i \in DOMAIN s /\ j # i
      BY <1>1
    <3>2. QED
      BY <3>1 DEF Distinct
  <2> HIDE DEF Before
  <2>4. CASE s[i] \in K
    <3>1. f[i] = f[i - 1]
      BY <1>2, <2>1, <2>4
    <3>2. Before(i) \ K = Before(i - 1) \ K
      BY <2>2, <2>4
    <3>3. QED
      BY <1>4, <3>1, <3>2
  <2>5. CASE s[i] \notin K
    <3>1. f[i] = Append(f[i - 1], s[i])
      BY <1>2, <2>1, <2>5
    <3>2. s[i] \notin Range(f[i - 1])
      BY <1>4, <2>3
    <3>3. /\ f[i] \in Seq(S) /\ Distinct(f[i])
          /\ Range(f[i]) = Range(f[i - 1]) \cup {s[i]}
      BY <1>4, <2>1, <3>1, <3>2, DistinctAppend
    <3>4. Range(f[i]) = Before(i) \ K
      BY <1>4, <2>2, <2>5, <3>3
    <3>5. QED
      BY <3>3, <3>4
  <2>6. QED
    BY <2>4, <2>5
<1>5. T = {}
  <2> SUFFICES ASSUME T # {} PROVE FALSE
    OBVIOUS
  <2>1. T \in SUBSET Nat
    BY <1>1
  <2>2. PICK i \in T : \A x \in T : i <= x
    BY <2>1, LeastNumber
  <2>3. i \in 0 .. Len(s) /\ i # 0 /\ ~ Right(i)
    BY <1>3, <2>2
  <2>4. i \in 1 .. Len(s) /\ i - 1 \in 0 .. Len(s) /\ ~ (i <= i - 1)
    BY <1>1, <2>3
  <2>5. Right(i - 1)
    <3> HIDE DEF Right
    <3>1. QED
      BY <2>2, <2>4
  <2>6. QED
    BY <1>4, <2>3, <2>4, <2>5
<1>6. Right(Len(s))
  <2>1. Len(s) \in 0 .. Len(s)
    BY <1>1
  <2> HIDE DEF Right
  <2>2. QED
    BY <1>5, <2>1
<1>7. Before(Len(s)) = Range(s)
  BY <1>1 DEF Range
<1>8. Drop(s, K) = f[Len(s)]
  BY DropByKept DEF f
<1>9. QED
  BY <1>6, <1>7, <1>8

\* A sequence that lists nothing twice is as long as it has members.
LEMMA DistinctLength ==
    ASSUME NEW S, NEW s \in Seq(S), Distinct(s)
    PROVE  IsFiniteSet(Range(s)) /\ Len(s) = Cardinality(Range(s))
<1>1. Len(s) \in Nat /\ DOMAIN s = 1 .. Len(s)
  OBVIOUS
<1>2. IsFiniteSet(1 .. Len(s)) /\ Cardinality(1 .. Len(s)) = Len(s)
  BY <1>1, FS_Interval, SMTT(40)
<1> DEFINE f == [i \in 1 .. Len(s) |-> s[i]]
<1>3. f \in Bijection(1 .. Len(s), Range(s))
  <2>1. f \in [1 .. Len(s) -> Range(s)] /\ \A i \in 1 .. Len(s) : f[i] = s[i]
    BY <1>1 DEF Range
  <2> HIDE DEF f
  <2>2. IsInjective(f)
    BY <1>1, <2>1 DEF IsInjective, Distinct
  <2>3. \A x \in Range(s) : \E i \in 1 .. Len(s) : f[i] = x
    BY <1>1, <2>1 DEF Range
  <2>4. QED
    BY <2>1, <2>2, <2>3 DEF Bijection, Injection, Surjection
<1> HIDE DEF f
<1>4. IsFiniteSet(Range(s)) /\ Cardinality(Range(s)) = Cardinality(1 .. Len(s))
  BY <1>2, <1>3, FS_Bijection DEF ExistsBijection
<1>5. QED
  BY <1>2, <1>4

\* What order[g] is to the entries of the pool.
Listed(o, D) == o \in Seq(D) /\ Distinct(o) /\ Range(o) = D

Listings ==
    /\ order = [g \in GPUs |-> order[g]]
    /\ \A g \in GPUs : Listed(order[g], DOMAIN cached[g])

LEMMA ListedSequence ==
    ASSUME NEW S, NEW o \in Seq(S), Distinct(o) PROVE Listed(o, Range(o))
<1>1. \A i \in 1 .. Len(o) : o[i] \in Range(o)
  BY DEF Range
<1>2. o \in Seq(Range(o))
  BY <1>1
<1>3. QED
  BY <1>2 DEF Listed

LEMMA ListedAfterDrop ==
    ASSUME NEW o, NEW D, Listed(o, D), NEW K PROVE Listed(Drop(o, K), D \ K)
<1>1. Drop(o, K) \in Seq(D) /\ Distinct(Drop(o, K)) /\ Range(Drop(o, K)) = D \ K
  BY DropLeaves DEF Listed
<1>2. QED
  BY <1>1, ListedSequence

LEMMA ListedAfterAppend ==
    ASSUME NEW o, NEW D, Listed(o, D), NEW k, k \notin D
    PROVE  Listed(Append(o, k), D \cup {k})
<1>1. o \in Seq(D \cup {k}) /\ k \notin Range(o) /\ Distinct(o)
  <2>1. \A i \in 1 .. Len(o) : o[i] \in D \cup {k}
    BY DEF Listed
  <2>2. QED
    BY <2>1 DEF Listed
<1>2. QED
  BY <1>1, DistinctAppend DEF Listed

LEMMA DomainWithout ==
    ASSUME NEW c, NEW K PROVE DOMAIN Without(c, K) = DOMAIN c \ K
BY DEF Without, Restrict

\* What a step does to the pool: entries leave it, or one enters after that.
Leave(g) ==
    \E K : /\ order'[g] = Drop(order[g], K)
           /\ DOMAIN cached'[g] = DOMAIN cached[g] \ K

Enters(g) ==
    \E K, k : /\ k \notin DOMAIN cached[g] \ K
              /\ order'[g] = Append(Drop(order[g], K), k)
              /\ DOMAIN cached'[g] = (DOMAIN cached[g] \ K) \cup {k}

LEMMA LeaveByRemoval ==
    ASSUME NEW g, NEW K, cached'[g] = Without(cached[g], K), order'[g] = Drop(order[g], K)
    PROVE  Leave(g)
<1>1. DOMAIN cached'[g] = DOMAIN cached[g] \ K
  BY DomainWithout
<1>2. QED
  BY <1>1 DEF Leave

Stay(g) == order'[g] = order[g] /\ DOMAIN cached'[g] = DOMAIN cached[g]

Emptied(g) == order'[g] = <<>> /\ DOMAIN cached'[g] = {}

LEMMA KeepsListed ==
    ASSUME Listings, NEW g \in GPUs, Leave(g) \/ Enters(g) \/ Stay(g) \/ Emptied(g)
    PROVE  Listed(order'[g], DOMAIN cached'[g])
<1>1. Listed(order[g], DOMAIN cached[g])
  BY DEF Listings
<1>2. CASE Leave(g)
  BY <1>1, <1>2, ListedAfterDrop DEF Leave
<1>3. CASE Enters(g)
  <2>1. PICK K, k : /\ k \notin DOMAIN cached[g] \ K
                    /\ order'[g] = Append(Drop(order[g], K), k)
                    /\ DOMAIN cached'[g] = (DOMAIN cached[g] \ K) \cup {k}
    BY <1>3 DEF Enters
  <2>2. Listed(Drop(order[g], K), DOMAIN cached[g] \ K)
    BY <1>1, ListedAfterDrop
  <2>3. QED
    BY <2>1, <2>2, ListedAfterAppend
<1>4. CASE Stay(g)
  BY <1>1, <1>4 DEF Stay
<1>5. CASE Emptied(g)
  BY <1>5 DEF Emptied, Listed, Distinct, Range
<1>6. QED
  BY <1>2, <1>3, <1>4, <1>5

\* An assignment to key k after the keys in K are gone.
LEMMA InsertListed ==
    ASSUME Shape, Listings, NEW g \in GPUs, NEW k, NEW e, NEW K, NEW f, Insert(g, k, e, K, f)
    PROVE  Listings'
<1> DEFINE rest == DOMAIN cached[g] \ K
           o    == IF k \in rest THEN Drop(order[g], K) ELSE Append(Drop(order[g], K), k)
<1>1. /\ cached' = [cached EXCEPT ![g] = With(cached[g], rest, k, e)]
      /\ order' = [order EXCEPT ![g] = o]
  BY DEF Insert
<1>2. /\ cached'[g] = With(cached[g], rest, k, e)
      /\ \A h \in GPUs \ {g} : cached'[h] = cached[h]
  <2> HIDE DEF rest
  <2>1. QED
    BY <1>1, Updated DEF Shape
<1>3. /\ order'[g] = o
      /\ \A h \in GPUs \ {g} : order'[h] = order[h]
      /\ order' = [h \in GPUs |-> order'[h]]
  <2> HIDE DEF o
  <2>1. QED
    BY <1>1, Updated DEF Listings
<1>4. DOMAIN cached'[g] = rest \cup {k}
  BY <1>2 DEF With
<1>5. CASE k \in rest
  <2>1. Leave(g)
    BY <1>3, <1>4, <1>5 DEF Leave
  <2>2. \A h \in GPUs : Listed(order'[h], DOMAIN cached'[h])
    BY <1>2, <1>3, <2>1, KeepsListed DEF Listings
  <2>3. QED
    BY <1>3, <2>2 DEF Listings
<1>6. CASE k \notin rest
  <2>1. Enters(g)
    BY <1>3, <1>4, <1>6 DEF Enters
  <2>2. \A h \in GPUs : Listed(order'[h], DOMAIN cached'[h])
    BY <1>2, <1>3, <2>1, KeepsListed DEF Listings
  <2>3. QED
    BY <1>3, <2>2 DEF Listings
<1>7. QED
  BY <1>5, <1>6

\* A put that is refused has removed what it could.
LEMMA RefusalListed ==
    ASSUME Shape, Listings, NEW g \in GPUs, NEW e, PutRefused(g, e)
    PROVE  Listings'
<1>1. PICK i \in 0 .. Len(order[g]) :
        /\ cached' = [cached EXCEPT ![g] = Without(cached[g], Oldest(g, i))]
        /\ order' = [order EXCEPT ![g] = Drop(order[g], Oldest(g, i))]
  BY DEF PutRefused
<1>2. PICK K : K = Oldest(g, i)
  OBVIOUS
<1>3. /\ cached'[g] = Without(cached[g], K)
      /\ \A h \in GPUs \ {g} : cached'[h] = cached[h]
  BY <1>1, <1>2, Updated DEF Shape
<1>4. /\ order'[g] = Drop(order[g], K)
      /\ \A h \in GPUs \ {g} : order'[h] = order[h]
      /\ order' = [h \in GPUs |-> order'[h]]
  BY <1>1, <1>2, Updated DEF Listings
<1>5. Leave(g)
  BY <1>3, <1>4, LeaveByRemoval
<1>6. \A h \in GPUs : Listed(order'[h], DOMAIN cached'[h])
  BY <1>3, <1>4, <1>5, KeepsListed DEF Listings
<1>7. QED
  BY <1>4, <1>6 DEF Listings

LEMMA RemovalListed ==
    ASSUME Listings, NEW gone, RemoveAll(gone) PROVE Listings'
<1>1. /\ cached' = [g \in GPUs |-> Without(cached[g], gone[g])]
      /\ order' = [g \in GPUs |-> Drop(order[g], gone[g])]
  BY DEF RemoveAll
<1>2. ASSUME NEW g \in GPUs PROVE Listed(order'[g], DOMAIN cached'[g])
  <2>1. Leave(g)
    BY <1>1, LeaveByRemoval
  <2>2. QED
    BY <2>1, KeepsListed
<1>3. order' = [g \in GPUs |-> order'[g]]
  BY <1>1
<1>4. QED
  BY <1>2, <1>3 DEF Listings

\* The hit is moved to the end; the pools asked before lose their copy.
LEMMA HitListed ==
    ASSUME Shape, Typed, Listings, NEW m, NEW s, NEW l, GetHit(m, s, l) PROVE Listings'
<1> DEFINE k == CacheKey(m, s, l)
<1>1. PICK i \in DOMAIN devices :
        /\ FirstDevice(i, LAMBDA g : Live(g, k))
        /\ LET h      == devices[i]
               before == {devices[j] : j \in 1 .. (i - 1)}
               gone   == [g \in GPUs |-> IF g \in before THEN {k} ELSE {}]
           IN  /\ cached' = [g \in GPUs |->
                    IF g = h THEN [cached[g] EXCEPT ![k].expired = FALSE]
                             ELSE Without(cached[g], gone[g])]
               /\ order' = [g \in GPUs |->
                    IF g = h THEN MoveToEnd(order[g], k) ELSE Drop(order[g], gone[g])]
  BY DEF GetHit
<1> DEFINE h == devices[i]
           before == {devices[j] : j \in 1 .. (i - 1)}
           gone == [g \in GPUs |-> IF g \in before THEN {k} ELSE {}]
<1>2. h \in GPUs /\ k \in DOMAIN cached[h]
  BY <1>1 DEF FirstDevice, Live, Holds, Typed
<1>3. ASSUME NEW g \in GPUs, g # h PROVE Leave(g)
  <2>1. cached'[g] = Without(cached[g], gone[g]) /\ order'[g] = Drop(order[g], gone[g])
    BY <1>1, <1>3
  <2> HIDE DEF gone
  <2>2. QED
    BY <2>1, LeaveByRemoval
<1>4. Enters(h)
  <2>1. cached'[h] = [cached[h] EXCEPT ![k].expired = FALSE] /\ order'[h] = MoveToEnd(order[h], k)
    BY <1>1, <1>2
  <2> HIDE DEF h, k
  <2>2. DOMAIN cached'[h] = (DOMAIN cached[h] \ {k}) \cup {k}
    BY <1>2, <2>1
  <2>3. QED
    BY <2>1, <2>2 DEF Enters, MoveToEnd
<1>5. order' = [g \in GPUs |-> order'[g]]
  BY <1>1
<1> HIDE DEF h, k, gone, before
<1>6. \A g \in GPUs : Listed(order'[g], DOMAIN cached'[g])
  BY <1>3, <1>4, KeepsListed
<1>7. QED
  BY <1>5, <1>6 DEF Listings

\* Steps that leave the keys of every pool alone.
LEMMA SameListed ==
    ASSUME Listings, order' = order,
           \A g \in GPUs : DOMAIN cached'[g] = DOMAIN cached[g]
    PROVE  Listings'
BY DEF Listings

LEMMA NextListed ==
    ASSUME Shape, Typed, Listings, [Next]_vars PROVE Listings'
<1>1. ASSUME NEW g \in GPUs, NEW c \in Capacities, AddGpu(g, c)
      PROVE  Listings'
  <2>1. /\ cached' = [cached EXCEPT ![g] = NoEntries]
        /\ order' = [order EXCEPT ![g] = <<>>]
    BY <1>1 DEF AddGpu
  <2>2. cached'[g] = NoEntries /\ \A h \in GPUs \ {g} : cached'[h] = cached[h]
    BY <2>1, Updated DEF Shape
  <2>3. /\ order'[g] = <<>> /\ \A h \in GPUs \ {g} : order'[h] = order[h]
        /\ order' = [h \in GPUs |-> order'[h]]
    BY <2>1, Updated DEF Listings
  <2>4. Emptied(g)
    BY <2>2, <2>3 DEF Emptied, NoEntries
  <2>5. \A h \in GPUs : Listed(order'[h], DOMAIN cached'[h])
    BY <2>2, <2>3, <2>4, KeepsListed DEF Listings
  <2>6. QED
    BY <2>3, <2>5 DEF Listings
<1>2. ASSUME NEW m \in Models, NEW s \in SeqIds, NEW l \in Layers, NEW n \in EntrySizes,
             NEW g \in GPUs, StoreKV(m, s, l, n, g)
      PROVE  Listings'
  <2> DEFINE k == CacheKey(m, s, l)
             e == NewEntry(m, s, l, n)
  <2>1. Put(g, k, e)
    BY <1>2 DEF StoreKV
  <2> HIDE DEF k, e
  <2>2. QED
    BY <2>1, InsertListed, RefusalListed DEF Put, PutFits, PutEvicts
<1>3. ASSUME NEW m \in Models, NEW s \in SeqIds, NEW l \in Layers, GetKV(m, s, l)
      PROVE  Listings'
  BY <1>3, HitListed, RemovalListed DEF GetKV, GetMiss
<1>4. ASSUME NEW m \in Models, NEW s \in SeqIds, NEW l \in Layers, NEW n \in ExtendSizes,
             ExtendKV(m, s, l, n) \/ ExtendKVRaises(m, s, l, n)
      PROVE  Listings'
  <2> DEFINE k == CacheKey(m, s, l)
  <2>1. order' = order /\ \E i \in DOMAIN devices : \E b, z : Enlarge(devices[i], k, b, z)
    BY <1>4 DEF ExtendKV, ExtendKVRaises
  <2> HIDE DEF k
  <2>2. \A g \in GPUs : DOMAIN cached'[g] = DOMAIN cached[g]
    BY <2>1 DEF Shape, Enlarge
  <2>3. QED
    BY <2>1, <2>2, SameListed
<1>5. ASSUME NEW s \in SeqIds, EvictSequence(s)
      PROVE  Listings'
  BY <1>5, RemovalListed DEF EvictSequence
<1>6. ASSUME NEW g \in GPUs, NEW k \in Keys, Lapse(g, k), UNCHANGED managerVars
      PROVE  Listings'
  <2>1. cached' = [cached EXCEPT ![g][k].expired = TRUE] /\ order' = order
    BY <1>6 DEF Lapse
  <2>2. \A h \in GPUs : DOMAIN cached'[h] = DOMAIN cached[h]
    BY <2>1 DEF Shape
  <2>3. QED
    BY <2>1, <2>2, SameListed
<1>7. CASE UNCHANGED vars
  <2>1. cached' = cached /\ order' = order
    BY <1>7 DEF vars
  <2>2. QED
    BY <2>1, SameListed
<1>8. QED
  BY <1>1, <1>2, <1>3, <1>4, <1>5, <1>6, <1>7 DEF Next, PrefillFromStorage

LEMMA ListingsAlways == Spec => []Listings
<1>1. Init => Listings
  <2> SUFFICES ASSUME Init PROVE Listings
    OBVIOUS
  <2>1. order = [g \in GPUs |-> <<>>] /\ cached = [g \in GPUs |-> NoEntries]
    BY DEF Init, PoolInit
  <2>2. Listed(<<>>, DOMAIN NoEntries)
    BY DEF Listed, NoEntries, Distinct, Range
  <2>3. QED
    BY <2>1, <2>2 DEF Listings
<1>2. Inv /\ Listings /\ [Next]_vars => Listings'
  BY NextListed DEF Inv
<1>3. QED
  BY <1>1, <1>2, Invariant, PTL DEF Spec

\* OrderOK: the order from which the victims are taken lists the entries of
\* the pool, each once, after any history of stores, hits, expiries and
\* evictions.
THEOREM OrderIsExact == Spec => []OrderOK
<1>1. Listings => OrderOK
  BY DistinctLength DEF Listings, Listed, OrderOK
<1>2. QED
  BY <1>1, ListingsAlways, PTL

\* Some entry always can be evicted, when capacity is used up.
LEMMA OldestFrees ==
    ASSUME Shape, Listings, NEW g \in GPUs, DOMAIN cached[g] # {}
    PROVE  /\ 1 \in 0 .. Len(order[g])
           /\ EvictionStopsAt(g, 1, 1) /\ Freed(g, 1) >= 1
<1> DEFINE o == order[g]
           c == cached[g]
<1>1. Pool(c) /\ o \in Seq(DOMAIN c) /\ Range(o) = DOMAIN c
  BY DEF Shape, Listings, Listed
<1>2. Len(o) \in Nat /\ Len(o) # 0 /\ o[1] \in DOMAIN c
  <2>1. Len(o) \in Nat /\ DOMAIN o = 1 .. Len(o) /\ \A i \in 1 .. Len(o) : o[i] \in DOMAIN c
    BY <1>1
  <2>2. Len(o) # 0
    BY <1>1, <2>1 DEF Range
  <2>3. QED
    BY <2>1, <2>2
<1>3. Freed(g, 0) = 0
  <2>1. Oldest(g, 0) \cap DOMAIN c = {}
    BY DEF Oldest
  <2>2. Occupied(Restrict(c, {})) = {}
    BY DEF Occupied, Restrict
  <2>3. QED
    BY <2>1, <2>2, FS_EmptySet DEF Freed, Bytes
<1>4. Freed(g, 1) \in Nat /\ Freed(g, 1) >= 1
  <2>1. Oldest(g, 1) \cap DOMAIN c = {o[1]}
    BY <1>2 DEF Oldest
  <2>2. /\ Occupied(Restrict(c, {o[1]})) = {o[1]} \X (1 .. c[o[1]].nbytes)
    BY <1>1, <1>2, RestrictPool
  <2>3. c[o[1]].nbytes \in Nat /\ c[o[1]].nbytes >= 1
    BY <1>1, <1>2 DEF Pool, Entry, Entries
  <2>4. Bytes(Restrict(c, {o[1]})) = c[o[1]].nbytes
    BY <2>2, <2>3, UnitsOfEntry DEF Bytes
  <2>5. QED
    BY <2>1, <2>3, <2>4 DEF Freed
<1>5. EvictionStopsAt(g, 1, 1)
  <2>1. ~ (0 = Len(o) \/ Freed(g, 0) >= 1)
    BY <1>2, <1>3
  <2>2. \A j \in 0 .. (1 - 1) : j = 0
    OBVIOUS
  <2>3. QED
    BY <1>4, <2>1, <2>2 DEF EvictionStopsAt
<1>6. QED
  BY <1>2, <1>4, <1>5

\* SmallestIsStored: a pool that extend_kv has not appended to always stores
\* an entry of the smallest size, after evictions if need be, whatever has
\* been leaked: its leak is below its capacity, so that a pool which is full
\* has an entry to evict.
THEOREM PoolsAreNeverWedged == Spec => []SmallestIsStored
<1>1. StoreInv /\ Listings => SmallestIsStored
  <2> SUFFICES ASSUME StoreInv, Listings, NEW g \in GPUs, g \notin extended, ~ Fits(g, 1)
               PROVE  \E i \in 0 .. Len(order[g]) :
                        EvictionStopsAt(g, 1, i) /\ Freed(g, i) >= 1
    BY DEF SmallestIsStored
  <2>1. /\ Bytes(cached[g]) \in Nat /\ used[g] \in Int /\ capacity[g] \in Nat
        /\ used[g] - Bytes(cached[g]) < capacity[g]
    BY BytesNat DEF StoreInv, Inv, Typed, LeakBelowCapacity
  <2>2. Bytes(cached[g]) # 0
    BY <2>1 DEF Fits
  <2>3. DOMAIN cached[g] # {}
    <3>1. DOMAIN cached[g] = {} => Occupied(cached[g]) = {}
      BY DEF Occupied
    <3>2. QED
      BY <2>2, <3>1, FS_EmptySet DEF Bytes
  <2>4. QED
    BY <2>3, OldestFrees DEF StoreInv, Inv
<1>2. QED
  BY <1>1, StoreInvariant, ListingsAlways, PTL

-----------------------------------------------------------------------------
(* Expiry.                                                                 *)

\* No entry of pool g that has lapsed is live after the step.
LapsedStays(g) ==
    \A k \in DOMAIN cached[g] \cap DOMAIN cached'[g] :
        cached[g][k].expired => cached'[g][k].expired

LEMMA LapsedAfterRemoval ==
    ASSUME NEW g, NEW K, cached'[g] = Without(cached[g], K) PROVE LapsedStays(g)
BY DEF LapsedStays, Without, Restrict

LEMMA LapsedAfterTouch ==
    ASSUME NEW g, NEW k \in DOMAIN cached[g], Pool(cached[g]), NEW b \in BOOLEAN,
           cached'[g] = [cached[g] EXCEPT ![k].expired = b],
           b \/ ~ cached[g][k].expired
    PROVE  LapsedStays(g)
<1> DEFINE c == cached[g]
<1>1. c = [x \in DOMAIN c |-> c[x]] /\ c[k] \in Entries
  BY DEF Pool, Entry
<1>2. \A x \in DOMAIN c \ {k} : cached'[g][x] = c[x]
  BY <1>1
<1>3. cached'[g][k] = [c[k] EXCEPT !.expired = b]
  BY <1>1
<1>4. cached'[g][k].expired = b
  BY <1>1, <1>3 DEF Entries
<1>5. QED
  BY <1>2, <1>4 DEF LapsedStays

\* A lookup revives nothing: it touches an entry that has not lapsed.
LEMMA LapsedAfterHit ==
    ASSUME Shape, Typed, NEW m, NEW s, NEW l, GetHit(m, s, l), NEW g \in GPUs
    PROVE  LapsedStays(g)
<1> DEFINE k == CacheKey(m, s, l)
<1>1. PICK i \in DOMAIN devices :
        /\ FirstDevice(i, LAMBDA d : Live(d, k))
        /\ LET h      == devices[i]
               before == {devices[j] : j \in 1 .. (i - 1)}
               gone   == [d \in GPUs |-> IF d \in before THEN {k} ELSE {}]
           IN  cached' = [d \in GPUs |->
                    IF d = h THEN [cached[d] EXCEPT ![k].expired = FALSE]
                             ELSE Without(cached[d], gone[d])]
  BY DEF GetHit
<1> DEFINE h == devices[i]
           gone == [d \in GPUs |-> IF d \in {devices[j] : j \in 1 .. (i - 1)} THEN {k} ELSE {}]
<1>2. k \in DOMAIN cached[h] /\ ~ cached[h][k].expired
  BY <1>1 DEF FirstDevice, Live, Holds
<1>3. CASE g = h
  <2>1. cached'[g] = [cached[g] EXCEPT ![k].expired = FALSE]
    BY <1>1, <1>3
  <2> HIDE DEF h, k
  <2>2. QED
    BY <1>2, <1>3, <2>1, LapsedAfterTouch DEF Shape
<1>4. CASE g # h
  <2>1. cached'[g] = Without(cached[g], gone[g])
    BY <1>1, <1>4
  <2> HIDE DEF gone
  <2>2. QED
    BY <2>1, LapsedAfterRemoval
<1>5. QED
  BY <1>3, <1>4

LEMMA NextKeepsLapsed ==
    ASSUME Shape, Typed, [Next]_vars, ~ Stores, ~ Appends, NEW g \in GPUs
    PROVE  LapsedStays(g)
<1>1. ASSUME NEW d \in GPUs, NEW c \in Capacities, AddGpu(d, c)
      PROVE  LapsedStays(g)
  <2>1. cached' = [cached EXCEPT ![d] = NoEntries]
    BY <1>1 DEF AddGpu
  <2>2. cached'[d] = NoEntries /\ \A x \in GPUs \ {d} : cached'[x] = cached[x]
    BY <2>1, Updated DEF Shape
  <2>3. QED
    BY <2>2 DEF LapsedStays, NoEntries
<1>2. ASSUME NEW m \in Models, NEW s \in SeqIds, NEW l \in Layers, NEW n \in EntrySizes,
             NEW d \in GPUs, StoreKV(m, s, l, n, d)
      PROVE  FALSE
  BY <1>2 DEF Stores
<1>3. ASSUME NEW m \in Models, NEW s \in SeqIds, NEW l \in Layers, GetKV(m, s, l)
      PROVE  LapsedStays(g)
  <2>1. ASSUME GetMiss(m, s, l) PROVE LapsedStays(g)
    BY <2>1, LapsedAfterRemoval DEF GetMiss, RemoveAll
  <2>2. QED
    BY <1>3, <2>1, LapsedAfterHit DEF GetKV
<1>4. ASSUME NEW m \in Models, NEW s \in SeqIds, NEW l \in Layers, NEW n \in ExtendSizes,
             ExtendKV(m, s, l, n) \/ ExtendKVRaises(m, s, l, n)
      PROVE  FALSE
  BY <1>4 DEF Appends
<1>5. ASSUME NEW s \in SeqIds, EvictSequence(s)
      PROVE  LapsedStays(g)
  BY <1>5, LapsedAfterRemoval DEF EvictSequence, RemoveAll
<1>6. ASSUME NEW d \in GPUs, NEW k \in Keys, Lapse(d, k)
      PROVE  LapsedStays(g)
  <2>1. /\ k \in DOMAIN cached[d]
        /\ cached' = [cached EXCEPT ![d] = [cached[d] EXCEPT ![k].expired = TRUE]]
    BY <1>6 DEF Lapse
  <2>2. /\ cached'[d] = [cached[d] EXCEPT ![k].expired = TRUE]
        /\ \A x \in GPUs \ {d} : cached'[x] = cached[x]
    BY <2>1, Updated DEF Shape
  <2>3. LapsedStays(d)
    BY <2>1, <2>2, LapsedAfterTouch DEF Shape
  <2>4. QED
    BY <2>2, <2>3 DEF LapsedStays
<1>7. CASE UNCHANGED vars
  BY <1>7 DEF vars, LapsedStays
<1>8. QED
  BY <1>1, <1>2, <1>3, <1>4, <1>5, <1>6, <1>7 DEF Next, PrefillFromStorage

\* ExpiryIsFinal: of all the operations, lookups included, only a store and
\* extend_kv bring a lapsed entry back to life.
THEOREM OnlyWritesRevive == Spec => ExpiryIsFinal
<1>1. ASSUME Inv, [Next]_vars, NEW g \in GPUs, NEW k \in Keys,
             Holds(g, k), cached[g][k].expired, k \in DOMAIN cached'[g]
      PROVE  cached'[g][k].expired \/ Stores \/ Appends
  BY <1>1, NextKeepsLapsed DEF Inv, Holds, LapsedStays
<1>2. Inv /\ [Next]_vars =>
        \A g \in GPUs, k \in Keys :
            Holds(g, k) /\ cached[g][k].expired /\ k \in DOMAIN cached'[g] =>
                cached'[g][k].expired \/ Stores \/ Appends
  BY <1>1
<1>3. QED
  BY <1>2, Invariant, PTL DEF Spec, ExpiryIsFinal

-----------------------------------------------------------------------------
(* Cache keys as strings: a key starts with the prefix of its own model    *)
(* and sequence, and with that of no other, for ids without the separator. *)

\* What lookup_sequence_gpu asks of a key.
Prefix(m, s)     == m \o <<":">> \o s \o <<":">>
StartsWith(k, p) == Len(k) >= Len(p) /\ SubSeq(k, 1, Len(p)) = p

\* p begins as the prefix of m and s does.
Spells(p, m, s) ==
    /\ \A i \in 1 .. Len(m) : p[i] = m[i]
    /\ p[Len(m) + 1] = ":"
    /\ \A i \in 1 .. Len(s) : p[Len(m) + 1 + i] = s[i]
    /\ p[Len(m) + Len(s) + 2] = ":"

LEMMA PrefixTokens ==
    ASSUME NEW A, ":" \in A, NEW m \in Seq(A), NEW s \in Seq(A)
    PROVE  /\ Prefix(m, s) \in Seq(A)
           /\ Len(Prefix(m, s)) = Len(m) + Len(s) + 2
           /\ Spells(Prefix(m, s), m, s)
<1> DEFINE a == m \o <<":">>
           b == a \o s
<1>1. /\ a \in Seq(A) /\ Len(a) = Len(m) + 1
      /\ \A i \in 1 .. Len(a) : a[i] = IF i <= Len(m) THEN m[i] ELSE <<":">>[i - Len(m)]
  BY ConcatProperties
<1>2. /\ b \in Seq(A) /\ Len(b) = Len(m) + 1 + Len(s)
      /\ \A i \in 1 .. Len(b) : b[i] = IF i <= Len(a) THEN a[i] ELSE s[i - Len(a)]
  BY <1>1, ConcatProperties
<1> HIDE DEF a, b
<1>3. /\ b \o <<":">> \in Seq(A) /\ Len(b \o <<":">>) = Len(b) + 1
      /\ \A i \in 1 .. Len(b) + 1 :
            (b \o <<":">>)[i] = IF i <= Len(b) THEN b[i] ELSE <<":">>[i - Len(b)]
  BY <1>2, ConcatProperties, SMTT(40)
<1>4. Prefix(m, s) = b \o <<":">>
  BY DEF Prefix, a, b
<1>5. Len(m) \in Nat /\ Len(s) \in Nat
  OBVIOUS
<1>6. \A i \in 1 .. Len(m) : Prefix(m, s)[i] = m[i]
  BY <1>1, <1>2, <1>3, <1>4, <1>5
<1>7. Prefix(m, s)[Len(m) + 1] = ":"
  BY <1>1, <1>2, <1>3, <1>4, <1>5
<1>8. \A i \in 1 .. Len(s) : Prefix(m, s)[Len(m) + 1 + i] = s[i]
  BY <1>1, <1>2, <1>3, <1>4, <1>5
<1>9. Prefix(m, s)[Len(m) + Len(s) + 2] = ":"
  BY <1>1, <1>2, <1>3, <1>4, <1>5
<1>10. QED
  BY <1>1, <1>2, <1>3, <1>4, <1>5, <1>6, <1>7, <1>8, <1>9 DEF Spells

\* A cache key is the prefix of its sequence and the layer.
LEMMA KeyIsPrefixAndLayer ==
    ASSUME NEW A, ":" \in A, NEW m \in Seq(A), NEW s \in Seq(A), NEW l \in A
    PROVE  CacheKey(m, s, l) = Prefix(m, s) \o <<l>>
<1> DEFINE b == m \o <<":">> \o s
<1>1. b \in Seq(A) /\ <<":">> \in Seq(A) /\ <<l>> \in Seq(A)
  BY ConcatProperties
<1>2. <<":", l>> = <<":">> \o <<l>>
  OBVIOUS
<1>3. b \o (<<":">> \o <<l>>) = (b \o <<":">>) \o <<l>>
  BY <1>1, ConcatAssociative
<1>4. QED
  BY <1>2, <1>3 DEF CacheKey, Prefix

\* Every key starts with the prefix of its sequence.
LEMMA KeyStartsWithPrefix ==
    ASSUME NEW A, ":" \in A, NEW m \in Seq(A), NEW s \in Seq(A), NEW l \in A
    PROVE  /\ CacheKey(m, s, l) \in Seq(A)
           /\ Len(CacheKey(m, s, l)) = Len(m) + Len(s) + 3
           /\ \A i \in 1 .. Len(m) + Len(s) + 2 : CacheKey(m, s, l)[i] = Prefix(m, s)[i]
           /\ StartsWith(CacheKey(m, s, l), Prefix(m, s))
<1> DEFINE p == Prefix(m, s)
           k == CacheKey(m, s, l)
<1>1. p \in Seq(A) /\ Len(p) = Len(m) + Len(s) + 2
  BY PrefixTokens
<1>2. k = p \o <<l>>
  BY KeyIsPrefixAndLayer
<1>3. Len(m) \in Nat /\ Len(s) \in Nat
  OBVIOUS
<1> HIDE DEF p, k
<1>4. /\ k \in Seq(A) /\ Len(k) = Len(p) + 1
      /\ \A i \in 1 .. Len(p) + 1 : k[i] = IF i <= Len(p) THEN p[i] ELSE <<l>>[i - Len(p)]
  BY <1>1, <1>2, ConcatProperties
<1>5. SubSeq(k, 1, Len(p)) = p
  BY <1>1, <1>2, SubSeqOfConcat1, SubSeqFull
<1>6. QED
  BY <1>1, <1>3, <1>4, <1>5 DEF StartsWith, p, k

\* What a key that starts with a prefix has at each place.
LEMMA StartsWithTokens ==
    ASSUME NEW A, NEW k \in Seq(A), NEW p \in Seq(A), StartsWith(k, p)
    PROVE  Len(p) <= Len(k) /\ \A i \in 1 .. Len(p) : k[i] = p[i]
<1>1. Len(p) <= Len(k) /\ SubSeq(k, 1, Len(p)) = p
  BY DEF StartsWith
<1>2. \A i \in 1 .. Len(p) : SubSeq(k, 1, Len(p))[i] = k[i]
  BY <1>1, SubSeqProperties
<1>3. QED
  BY <1>1, <1>2

\* Two texts with the separators of prefixes that agree in all their tokens
\* have the same names between them.
LEMMA SameNames ==
    ASSUME NEW Plain, ":" \notin Plain,
           NEW m \in Seq(Plain), NEW s \in Seq(Plain),
           NEW n \in Seq(Plain), NEW t \in Seq(Plain), NEW q, NEW p,
           Spells(q, m, s), Spells(p, n, t),
           \A i \in 1 .. Len(m) + Len(s) + 2 : i <= Len(n) + Len(t) + 2 => p[i] = q[i]
    PROVE  m = n /\ s = t
<1> USE DEF Spells
<1>1. /\ Len(m) \in Nat /\ Len(s) \in Nat /\ Len(n) \in Nat /\ Len(t) \in Nat
      /\ \A i \in 1 .. Len(m) : m[i] # ":"
      /\ \A i \in 1 .. Len(s) : s[i] # ":"
      /\ \A i \in 1 .. Len(n) : n[i] # ":"
      /\ \A i \in 1 .. Len(t) : t[i] # ":"
  BY LenProperties, ElementOfSeq
<1>2. ~ Len(m) < Len(n)
  <2> SUFFICES ASSUME Len(m) < Len(n) PROVE FALSE
    OBVIOUS
  <2>1. Len(m) + 1 \in 1 .. Len(n) /\ Len(m) + 1 \in 1 .. Len(m) + Len(s) + 2
        /\ Len(m) + 1 <= Len(n) + Len(t) + 2
    BY <1>1
  <2>2. p[Len(m) + 1] = n[Len(m) + 1] /\ p[Len(m) + 1] = q[Len(m) + 1]
    BY <2>1
  <2>3. QED
    BY <1>1, <2>1, <2>2
<1>3. ~ Len(n) < Len(m)
  <2> SUFFICES ASSUME Len(n) < Len(m) PROVE FALSE
    OBVIOUS
  <2>1. Len(n) + 1 \in 1 .. Len(m) /\ Len(n) + 1 \in 1 .. Len(m) + Len(s) + 2
        /\ Len(n) + 1 <= Len(n) + Len(t) + 2
    BY <1>1
  <2>2. q[Len(n) + 1] = m[Len(n) + 1] /\ p[Len(n) + 1] = q[Len(n) + 1]
    BY <2>1
  <2>3. QED
    BY <1>1, <2>1, <2>2
<1>4. Len(m) = Len(n)
  BY <1>1, <1>2, <1>3
<1>5. ~ Len(s) < Len(t)
  <2> SUFFICES ASSUME Len(s) < Len(t) PROVE FALSE
    OBVIOUS
  <2>1. Len(s) + 1 \in 1 .. Len(t) /\ Len(m) + Len(s) + 2 = Len(n) + 1 + (Len(s) + 1)
        /\ Len(m) + Len(s) + 2 \in 1 .. Len(m) + Len(s) + 2
        /\ Len(m) + Len(s) + 2 <= Len(n) + Len(t) + 2
    BY <1>1, <1>4
  <2>2. p[Len(n) + 1 + (Len(s) + 1)] = t[Len(s) + 1]
    BY <2>1
  <2>3. p[Len(m) + Len(s) + 2] = ":"
    BY <2>1
  <2>4. QED
    BY <1>1, <2>1, <2>2, <2>3
<1>6. ~ Len(t) < Len(s)
  <2> SUFFICES ASSUME Len(t) < Len(s) PROVE FALSE
    OBVIOUS
  <2>1. Len(t) + 1 \in 1 .. Len(s) /\ Len(n) + Len(t) + 2 = Len(m) + 1 + (Len(t) + 1)
        /\ Len(n) + Len(t) + 2 \in 1 .. Len(m) + Len(s) + 2
        /\ Len(n) + Len(t) + 2 <= Len(n) + Len(t) + 2
    BY <1>1, <1>4
  <2>2. q[Len(m) + 1 + (Len(t) + 1)] = s[Len(t) + 1]
    BY <2>1
  <2>3. q[Len(n) + Len(t) + 2] = ":"
    BY <2>1
  <2>4. QED
    BY <1>1, <2>1, <2>2, <2>3
<1>7. Len(s) = Len(t)
  BY <1>1, <1>5, <1>6
<1>8. ASSUME NEW i \in 1 .. Len(m) PROVE m[i] = n[i]
  <2>1. i \in 1 .. Len(n) /\ i \in 1 .. Len(m) + Len(s) + 2 /\ i <= Len(n) + Len(t) + 2
    BY <1>1, <1>4
  <2>2. QED
    BY <2>1
<1>9. ASSUME NEW i \in 1 .. Len(s) PROVE s[i] = t[i]
  <2>1. i \in 1 .. Len(t) /\ Len(m) + 1 + i = Len(n) + 1 + i
        /\ Len(m) + 1 + i \in 1 .. Len(m) + Len(s) + 2
        /\ Len(m) + 1 + i <= Len(n) + Len(t) + 2
    BY <1>1, <1>4, <1>7
  <2>2. q[Len(m) + 1 + i] = s[i] /\ p[Len(n) + 1 + i] = t[i]
    BY <2>1
  <2>3. p[Len(m) + 1 + i] = q[Len(m) + 1 + i]
    BY <2>1
  <2>4. QED
    BY <2>1, <2>2, <2>3
<1>10. QED
  BY <1>4, <1>7, <1>8, <1>9, SeqEqual

\* No key of a sequence starts with the prefix of another one: the first two
\* separators are at the same places in both.
LEMMA OnlyItsOwnPrefix ==
    ASSUME NEW Plain, ":" \notin Plain,
           NEW m \in Seq(Plain), NEW s \in Seq(Plain),
           NEW n \in Seq(Plain), NEW t \in Seq(Plain), NEW l,
           StartsWith(CacheKey(m, s, l), Prefix(n, t))
    PROVE  m = n /\ s = t
<1> DEFINE A == Plain \cup {":", l}
<1>1. ":" \in A /\ l \in A /\ m \in Seq(A) /\ s \in Seq(A) /\ n \in Seq(A) /\ t \in Seq(A)
  BY SeqMonotonic
<1> HIDE DEF A
<1>2. /\ CacheKey(m, s, l) \in Seq(A)
      /\ \A i \in 1 .. Len(m) + Len(s) + 2 : CacheKey(m, s, l)[i] = Prefix(m, s)[i]
  BY <1>1, KeyStartsWithPrefix
<1>3. Prefix(n, t) \in Seq(A) /\ Len(Prefix(n, t)) = Len(n) + Len(t) + 2
  BY <1>1, PrefixTokens
<1>4. \A i \in 1 .. Len(Prefix(n, t)) : CacheKey(m, s, l)[i] = Prefix(n, t)[i]
  BY <1>2, <1>3, StartsWithTokens
<1>5. \A i \in 1 .. Len(m) + Len(s) + 2 :
        i <= Len(n) + Len(t) + 2 => Prefix(n, t)[i] = Prefix(m, s)[i]
  BY <1>2, <1>3, <1>4, LenProperties
<1>6. Spells(Prefix(m, s), m, s) /\ Spells(Prefix(n, t), n, t)
  BY <1>1, PrefixTokens
<1>7. QED
  BY <1>5, <1>6, SameNames

-----------------------------------------------------------------------------
(* Lookups.                                                                *)

Matches(g, m, s) == \E k \in DOMAIN cached[g] : StartsWith(k, Prefix(m, s))

\* The same in terms of the entries.
HoldsSequence(g, m, s) ==
    \E k \in DOMAIN cached[g] : cached[g][k].model = m /\ cached[g][k].seq = s

LEMMA LookupByMatches ==
    ASSUME NEW m, NEW s
    PROVE  LookupSequenceGpu(m, s) =
              {devices[i] : i \in {j \in DOMAIN devices :
                  Matches(devices[j], m, s)
                  /\ \A h \in 1 .. (j - 1) : ~ Matches(devices[h], m, s)}}
  BY DEF LookupSequenceGpu, FirstDevice, Matches, StartsWith, Prefix

LEMMA MatchesAreHolders ==
    ASSUME NEW Plain, ":" \notin Plain,
           Models \subseteq Seq(Plain), SeqIds \subseteq Seq(Plain), TypeOK,
           NEW m \in Models, NEW s \in SeqIds, NEW g \in GPUs
    PROVE  Matches(g, m, s) <=> HoldsSequence(g, m, s)
<1>1. ASSUME NEW k \in DOMAIN cached[g]
      PROVE  StartsWith(k, Prefix(m, s)) <=> cached[g][k].model = m /\ cached[g][k].seq = s
  <2> DEFINE e == cached[g][k]
  <2>1. e.model \in Models /\ e.seq \in SeqIds /\ k = CacheKey(e.model, e.seq, e.layer)
    BY DEF TypeOK, Entries
  <2>2. e.model \in Seq(Plain) /\ e.seq \in Seq(Plain) /\ m \in Seq(Plain) /\ s \in Seq(Plain)
    BY <2>1
  <2>3. StartsWith(k, Prefix(e.model, e.seq))
    <3> DEFINE A == Plain \cup {":", e.layer}
    <3>1. ":" \in A /\ e.layer \in A /\ e.model \in Seq(A) /\ e.seq \in Seq(A)
      BY <2>2, SeqMonotonic
    <3> HIDE DEF A
    <3>2. \A x, y \in Seq(A), l \in A : StartsWith(CacheKey(x, y, l), Prefix(x, y))
      BY <3>1, KeyStartsWithPrefix
    <3>3. StartsWith(CacheKey(e.model, e.seq, e.layer), Prefix(e.model, e.seq))
      BY <3>1, <3>2
    <3>4. QED
      BY <2>1, <3>3
  <2>4. StartsWith(k, Prefix(m, s)) => e.model = m /\ e.seq = s
    BY <2>1, <2>2, OnlyItsOwnPrefix
  <2>5. QED
    BY <2>3, <2>4
<1>2. QED
  BY <1>1 DEF Matches, HoldsSequence

\* lookup_sequence_gpu, which compares strings, answers with the first device
\* that has an entry of the model and sequence it is asked for, and with none
\* if there is none: for any ids without ":", one of which may well be a
\* prefix of another, and after any history of calls.
THEOREM LookupIsExact ==
    ASSUME NEW Plain, ":" \notin Plain,
           Models \subseteq Seq(Plain), SeqIds \subseteq Seq(Plain)
    PROVE  Spec => []LookupNamesTheSequence
<1>1. TypeOK => LookupNamesTheSequence
  <2> SUFFICES ASSUME TypeOK, NEW m \in Models, NEW s \in SeqIds
               PROVE  LET holders == {i \in DOMAIN devices : HoldsSequence(devices[i], m, s)}
                      IN  LookupSequenceGpu(m, s) =
                            {devices[i] : i \in {j \in holders : \A h \in holders : j <= h}}
    BY DEF LookupNamesTheSequence, HoldsSequence
  <2> DEFINE holders == {i \in DOMAIN devices : HoldsSequence(devices[i], m, s)}
             found   == {j \in DOMAIN devices :
                           Matches(devices[j], m, s)
                           /\ \A h \in 1 .. (j - 1) : ~ Matches(devices[h], m, s)}
  <2>1. DOMAIN devices = 1 .. Len(devices) /\ Len(devices) \in Nat
        /\ \A i \in DOMAIN devices : devices[i] \in GPUs
    BY DEF TypeOK
  <2>2. \A i \in DOMAIN devices :
            Matches(devices[i], m, s) <=> HoldsSequence(devices[i], m, s)
    BY <2>1, MatchesAreHolders
  <2>3. ASSUME NEW j \in DOMAIN devices
        PROVE  j \in found <=> j \in holders /\ \A h \in holders : j <= h
    <3>1. j \in Nat /\ 1 .. (j - 1) \subseteq DOMAIN devices
      BY <2>1
    <3>2. \A h \in DOMAIN devices : ~ (h \in 1 .. (j - 1)) <=> j <= h
      BY <2>1
    <3>3. QED
      BY <2>2, <3>1, <3>2
  <2>4. found = {j \in holders : \A h \in holders : j <= h}
    BY <2>3
  <2>5. QED
    BY <2>4, LookupByMatches
<1>2. QED
  BY <1>1, TypeCorrect, PTL

=============================================================================
