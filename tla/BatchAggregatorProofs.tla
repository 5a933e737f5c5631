------------------------ MODULE BatchAggregatorProofs ------------------------
(***************************************************************************)
(* Theorems of BatchAggregator for any models, lengths, buckets and limits *)
(* and any number of requests and loops: its types, that no request is     *)
(* lost or batched twice, that batches keep their limits, and that it      *)
(* implements RequestPool.                                                 *)
(***************************************************************************)
EXTENDS BatchAggregator, FiniteSetTheorems, SequenceTheorems, WellFoundedInduction, TLAPS

-----------------------------------------------------------------------------
(* Sorting by counting.                                                    *)

\* A sequence that lists nothing twice.
Distinct(s) == \A i, j \in DOMAIN s : s[i] = s[j] => i = j

\* The order of sorted(), and the place of an element in it.
Before(q, i, j) == q[i].len < q[j].len \/ (q[i].len = q[j].len /\ i < j)
Ahead(q, i)     == {j \in DOMAIN q : Before(q, j, i)}
Place(q, i)     == Cardinality(Ahead(q, i)) + 1
At(q, p)        == CHOOSE i \in DOMAIN q : Place(q, i) = p

LEMMA SortedByPlace ==
    ASSUME NEW q PROVE ByLength(q) = [p \in DOMAIN q |-> q[At(q, p)]]
  BY DEF ByLength, At, Place, Ahead, Before

LEMMA CountTo ==
    ASSUME NEW n \in Nat PROVE IsFiniteSet(1 .. n) /\ Cardinality(1 .. n) = n
  BY FS_Interval

LEMMA AheadIsFinite ==
    ASSUME NEW R, \A r \in R : r.len \in Nat, NEW q \in Seq(R), NEW i \in DOMAIN q
    PROVE  /\ IsFiniteSet(Ahead(q, i)) /\ Cardinality(Ahead(q, i)) \in Nat
           /\ Place(q, i) \in 1 .. Len(q)
<1> DEFINE D == 1 .. Len(q)
<1>1. DOMAIN q = D /\ Len(q) \in Nat /\ i \in D
  OBVIOUS
<1>2. IsFiniteSet(D) /\ Cardinality(D) = Len(q)
  BY <1>1, CountTo
<1> HIDE DEF D
<1>3. IsFiniteSet(D \ {i}) /\ Cardinality(D \ {i}) = Len(q) - 1
  BY <1>1, <1>2, FS_RemoveElement
<1>4. Ahead(q, i) \subseteq D \ {i}
  <2>1. i \in Nat /\ q[i].len \in Nat
    BY <1>1 DEF D
  <2>2. ~ Before(q, i, i)
    BY <2>1 DEF Before
  <2>3. QED
    BY <1>1, <2>2 DEF Ahead
<1>5. IsFiniteSet(Ahead(q, i)) /\ Cardinality(Ahead(q, i)) <= Len(q) - 1
  BY <1>3, <1>4, FS_Subset
<1>6. Cardinality(Ahead(q, i)) \in Nat
  BY <1>5, FS_CardinalityType
<1>7. QED
  BY <1>1, <1>5, <1>6 DEF Place

LEMMA PlacesGrow ==
    ASSUME NEW R, \A r \in R : r.len \in Nat, NEW q \in Seq(R),
           NEW i \in DOMAIN q, NEW j \in DOMAIN q, Before(q, i, j)
    PROVE  Place(q, i) < Place(q, j)
<1>1. \A k \in DOMAIN q : k \in Nat /\ q[k].len \in Nat
  OBVIOUS
<1>2. i \in Ahead(q, j) /\ i \notin Ahead(q, i)
  <2>1. ~ Before(q, i, i)
    BY <1>1 DEF Before
  <2>2. QED
    BY <2>1 DEF Ahead
<1>3. Ahead(q, i) \subseteq Ahead(q, j)
  <2> SUFFICES ASSUME NEW k \in DOMAIN q, Before(q, k, i) PROVE Before(q, k, j)
    BY DEF Ahead
  <2>1. QED
    BY <1>1 DEF Before
<1>4. Cardinality(Ahead(q, i)) < Cardinality(Ahead(q, j))
  BY <1>2, <1>3, AheadIsFinite, FS_Subset
<1>5. QED
  BY <1>4, AheadIsFinite DEF Place

LEMMA PlacesAreTaken ==
    ASSUME NEW R, \A r \in R : r.len \in Nat, NEW q \in Seq(R)
    PROVE  /\ \A i, j \in DOMAIN q : Place(q, i) = Place(q, j) => i = j
           /\ \A p \in DOMAIN q : At(q, p) \in DOMAIN q /\ Place(q, At(q, p)) = p
<1>1. DOMAIN q = 1 .. Len(q) /\ Len(q) \in Nat
      /\ \A k \in DOMAIN q : k \in Nat /\ q[k].len \in Nat
  OBVIOUS
<1>2. ASSUME NEW i \in DOMAIN q, NEW j \in DOMAIN q, Place(q, i) = Place(q, j)
      PROVE  i = j
  <2> SUFFICES ASSUME i # j PROVE FALSE
    OBVIOUS
  <2>1. Before(q, i, j) \/ Before(q, j, i)
    BY <1>1 DEF Before
  <2>2. Place(q, i) \in Nat /\ Place(q, j) \in Nat
    BY AheadIsFinite
  <2>3. Place(q, i) < Place(q, j) \/ Place(q, j) < Place(q, i)
    BY <2>1, PlacesGrow
  <2>4. QED
    BY <1>2, <2>2, <2>3
<1> DEFINE D == 1 .. Len(q)
           f == [i \in D |-> Place(q, i)]
<1>3. f \in Injection(D, D)
  <2>1. \A i \in D : f[i] = Place(q, i) /\ f[i] \in D
    BY <1>1, AheadIsFinite
  <2>2. f \in [D -> D]
    BY <2>1
  <2> HIDE DEF f
  <2>3. IsInjective(f)
    BY <1>1, <1>2, <2>1, <2>2 DEF IsInjective
  <2>4. QED
    BY <2>2, <2>3 DEF Injection
<1>4. f \in Surjection(D, D)
  <2>1. IsFiniteSet(D)
    BY <1>1, CountTo
  <2> HIDE DEF f, D
  <2>2. QED
    BY <1>3, <2>1, FS_Injection
<1>5. ASSUME NEW p \in DOMAIN q PROVE \E i \in DOMAIN q : Place(q, i) = p
  <2>1. \E i \in D : f[i] = p
    <3> HIDE DEF f
    <3>1. QED
      BY <1>1, <1>4 DEF Surjection
  <2>2. QED
    BY <1>1, <2>1
<1>6. \A p \in DOMAIN q : At(q, p) \in DOMAIN q /\ Place(q, At(q, p)) = p
  BY <1>5 DEF At
<1>7. QED
  BY <1>2, <1>6

\* sorted() lists the same requests, shorter ones first.
LEMMA SortingSorts ==
    ASSUME NEW R, \A r \in R : r.len \in Nat, NEW q \in Seq(R), NEW s, s = ByLength(q)
    PROVE  /\ s \in Seq(R) /\ Len(s) = Len(q) /\ Range(s) = Range(q)
           /\ \A i, j \in DOMAIN s : i < j => s[i].len <= s[j].len
           /\ Distinct(q) => Distinct(s)
<1>1. /\ DOMAIN q = 1 .. Len(q) /\ Len(q) \in Nat
      /\ \A k \in DOMAIN q : k \in Nat /\ q[k] \in R /\ q[k].len \in Nat
  OBVIOUS
<1>2. \A p \in DOMAIN q : At(q, p) \in DOMAIN q /\ Place(q, At(q, p)) = p
  BY PlacesAreTaken
<1>3. s = [p \in 1 .. Len(q) |-> q[At(q, p)]]
  BY <1>1, SortedByPlace
<1>4. s \in Seq(R) /\ Len(s) = Len(q) /\ DOMAIN s = DOMAIN q
      /\ \A p \in DOMAIN s : s[p] = q[At(q, p)]
  BY <1>1, <1>2, <1>3
<1>5. Range(s) = Range(q)
  <2>1. Range(s) \subseteq Range(q)
    BY <1>2, <1>4 DEF Range
  <2>2. ASSUME NEW i \in DOMAIN q PROVE q[i] \in Range(s)
    <3>1. Place(q, i) \in DOMAIN q
      BY <1>1, AheadIsFinite
    <3>2. At(q, Place(q, i)) = i
      BY <1>2, <3>1, PlacesAreTaken
    <3>3. s[Place(q, i)] = q[i]
      BY <1>4, <3>1, <3>2
    <3>4. QED
      BY <1>4, <3>1, <3>3 DEF Range
  <2>3. QED
    BY <2>1, <2>2 DEF Range
<1>6. ASSUME NEW i \in DOMAIN s, NEW j \in DOMAIN s, i < j PROVE s[i].len <= s[j].len
  <2> DEFINE a == At(q, i)
             b == At(q, j)
  <2>1. a \in DOMAIN q /\ b \in DOMAIN q /\ Place(q, a) = i /\ Place(q, b) = j
    BY <1>2, <1>4
  <2>2. s[i] = q[a] /\ s[j] = q[b] /\ i \in Nat /\ j \in Nat
    BY <1>1, <1>4
  <2> HIDE DEF a, b
  <2>3. ~ Before(q, b, a)
    <3> SUFFICES ASSUME Before(q, b, a) PROVE FALSE
      OBVIOUS
    <3>1. Place(q, b) < Place(q, a)
      BY <2>1, PlacesGrow
    <3>2. QED
      BY <1>6, <2>1, <2>2, <3>1
  <2>4. QED
    BY <1>1, <2>1, <2>2, <2>3 DEF Before
<1>7. ASSUME Distinct(q) PROVE Distinct(s)
  <2> SUFFICES ASSUME NEW i \in DOMAIN s, NEW j \in DOMAIN s, s[i] = s[j] PROVE i = j
    BY DEF Distinct
  <2>1. q[At(q, i)] = q[At(q, j)]
    BY <1>4
  <2>2. At(q, i) = At(q, j)
    BY <1>2, <1>4, <1>7, <2>1 DEF Distinct
  <2>3. QED
    BY <1>2, <1>4, <2>2
<1>8. QED
  BY <1>4, <1>5, <1>6, <1>7

-----------------------------------------------------------------------------
(* Grouping.                                                               *)

LEMMA MaxLenIs ==
    ASSUME NEW R, \A r \in R : r.len \in Nat, NEW b \in Seq(R), b # <<>>
    PROVE  /\ MaxLen(b) \in Nat /\ \A i \in DOMAIN b : b[i].len <= MaxLen(b)
           /\ \E i \in DOMAIN b : MaxLen(b) = b[i].len
<1> PICK s : s = ByLength(b)
  OBVIOUS
<1> DEFINE n == Len(b)
           L == {b[i].len : i \in DOMAIN b}
<1>1. /\ n \in Nat \ {0} /\ DOMAIN b = 1 .. n
      /\ \A i \in DOMAIN b : b[i] \in R /\ b[i].len \in Nat
  BY EmptySeq
<1>2. /\ DOMAIN s = 1 .. n /\ Range(s) = Range(b)
      /\ \A i, j \in DOMAIN s : i < j => s[i].len <= s[j].len
  BY SortingSorts
<1> HIDE DEF n
<1>3. n \in DOMAIN s
  BY <1>1, <1>2
<1>4. PICK k \in DOMAIN b : b[k] = s[n]
  BY <1>2, <1>3 DEF Range
<1>5. ASSUME NEW i \in DOMAIN b PROVE b[i].len <= b[k].len
  <2>1. PICK j \in DOMAIN s : s[j] = b[i]
    BY <1>2 DEF Range
  <2>2. j = n \/ j < n
    BY <1>1, <1>2, <2>1
  <2>3. CASE j = n
    BY <1>1, <1>4, <2>1, <2>3
  <2>4. CASE j < n
    BY <1>2, <1>3, <1>4, <2>1, <2>4
  <2>5. QED
    BY <2>2, <2>3, <2>4
<1>6. b[k].len \in L /\ \A y \in L : y \in Nat /\ b[k].len >= y
  BY <1>1, <1>5
<1>7. MaxLen(b) \in L /\ \A y \in L : MaxLen(b) >= y
  BY <1>6 DEF MaxLen, Max
<1>8. QED
  BY <1>1, <1>7

\* The last request of a batch of sorted ones is the longest.
LEMMA LastIsLongest ==
    ASSUME NEW R, \A r \in R : r.len \in Nat, NEW b \in Seq(R), b # <<>>,
           \A i \in DOMAIN b : b[i].len <= b[Len(b)].len
    PROVE  MaxLen(b) = b[Len(b)].len
<1>1. Len(b) \in DOMAIN b /\ b[Len(b)].len \in Nat
  BY EmptySeq
<1>2. MaxLen(b) \in Nat /\ b[Len(b)].len <= MaxLen(b) /\ MaxLen(b) <= b[Len(b)].len
  BY <1>1, MaxLenIs
<1>3. QED
  BY <1>1, <1>2

LEMMA LeastNumber ==
    ASSUME NEW T \in SUBSET Nat, T # {} PROVE \E x \in T : \A y \in T : x <= y
<1>1. PICK x \in T : \A y \in T : ~ (<<y, x>> \in OpToRel(<, Nat))
  BY NatLessThanWellFounded, WFMin
<1>2. \A y \in T : ~ (y < x)
  BY <1>1 DEF OpToRel
<1>3. QED
  BY <1>2

LEMMA BucketIs ==
    ASSUME NEW n \in Nat PROVE Bucket(n) \in Nat
<1> DEFINE wide == {i \in DOMAIN Buckets : n <= Buckets[i]}
<1>1. Buckets \in Seq(Nat \ {0}) /\ MaxSeqLen \in Nat
  BY FormingAssumption
<1>2. CASE wide = {}
  BY <1>1, <1>2 DEF Bucket
<1>3. CASE wide # {}
  <2>1. wide \in SUBSET Nat
    BY <1>1
  <2>2. \E x \in wide : \A y \in wide : x <= y
    BY <1>3, <2>1, LeastNumber
  <2>3. Min(wide) \in wide
    BY <2>2 DEF Min
  <2>4. Bucket(n) = Buckets[Min(wide)]
    BY <1>3 DEF Bucket
  <2>5. QED
    BY <1>1, <2>3, <2>4
<1>4. QED
  BY <1>2, <1>3

LEMMA PaddedIs ==
    ASSUME NEW R, \A r \in R : r.len \in Nat, NEW b \in Seq(R), b # <<>>
    PROVE  Padded(b) \in Nat
  BY MaxLenIs, BucketIs DEF Padded

\* The loop of _form_batches over the first n requests of s.
Empty == [closed |-> <<>>, cur |-> <<>>]
Loop(f, s, n) == f = [i \in 0 .. n |-> IF i = 0 THEN Empty ELSE Take(f[i - 1], s[i])]

LEMMA GroupedByLoop ==
    ASSUME NEW q
    PROVE  Grouped(q) = (CHOOSE f : Loop(f, ByLength(q), Len(q)))[Len(q)]
  BY DEF Grouped, Loop, Empty

LEMMA LoopExists ==
    ASSUME NEW s, NEW n \in Nat PROVE \E f : Loop(f, s, n)
<1> DEFINE T == {m \in Nat : ~ \E f : Loop(f, s, m)}
<1>1. 0 \notin T
  <2> DEFINE f == [i \in 0 .. 0 |-> Empty]
  <2>1. Loop(f, s, 0)
    BY DEF Loop
  <2>2. QED
    BY <2>1
<1>2. ASSUME NEW m \in Nat, m \notin T PROVE m + 1 \notin T
  <2>1. PICK f : Loop(f, s, m)
    BY <1>2
  <2> DEFINE h == [i \in 0 .. (m + 1) |-> IF i <= m THEN f[i] ELSE Take(f[m], s[m + 1])]
  <2>2. \A i \in 0 .. (m + 1) : h[i] = IF i <= m THEN f[i] ELSE Take(f[m], s[m + 1])
    OBVIOUS
  <2>3. \A i \in 0 .. m : f[i] = IF i = 0 THEN Empty ELSE Take(f[i - 1], s[i])
    BY <2>1 DEF Loop
  <2>4. h = [i \in 0 .. (m + 1) |-> h[i]]
    OBVIOUS
  <2> HIDE DEF h
  <2>5. ASSUME NEW i \in 0 .. (m + 1)
        PROVE  h[i] = IF i = 0 THEN Empty ELSE Take(h[i - 1], s[i])
    <3>1. CASE i = 0
      BY <2>2, <2>3, <3>1
    <3>2. CASE i \in 1 .. m
      <4>1. i \in 0 .. m /\ i - 1 \in 0 .. m /\ i # 0
        BY <3>2
      <4>2. h[i] = f[i] /\ h[i - 1] = f[i - 1]
        BY <2>2, <4>1
      <4>3. QED
        BY <2>3, <4>1, <4>2
    <3>3. CASE i = m + 1
      <4>1. h[i - 1] = f[m] /\ i # 0
        BY <2>2, <3>3
      <4>2. h[i] = Take(f[m], s[m + 1])
        BY <2>2, <3>3
      <4>3. QED
        BY <3>3, <4>1, <4>2
    <3>4. QED
      BY <3>1, <3>2, <3>3
  <2>6. Loop(h, s, m + 1)
    BY <2>4, <2>5 DEF Loop
  <2>7. QED
    BY <2>6
<1>3. T = {}
  <2> SUFFICES ASSUME T # {} PROVE FALSE
    OBVIOUS
  <2>1. PICK m \in T : \A x \in T : m <= x
    BY LeastNumber
  <2>2. m \in Nat /\ m # 0
    BY <1>1, <2>1
  <2> HIDE DEF T
  <2>3. m - 1 \in Nat /\ m - 1 \notin T
    BY <2>1, <2>2
  <2>4. QED
    BY <1>2, <2>1, <2>2, <2>3
<1>4. QED
  BY <1>3

\* What LateRequestsShareBucket says of one batch, and BatchesFit of its size.
Late(b)    == \A i \in (MinSplit + 1) .. Len(b) : Bucket(b[i].len) = Bucket(b[i - 1].len)
Good(R, b) == b \in Seq(R) /\ Len(b) \in 1 .. MaxBatch /\ Late(b)

Apart(B)   == \A b, c \in B : b # c => Range(b) \cap Range(c) = {}
Members(B) == UNION {Range(b) : b \in B}

\* What the loop has made of the first i requests of s.
Forms(g, R, s, i) ==
    /\ g \in [closed : Seq(Seq(R)), cur : Seq(R)]
    /\ \A b \in Range(g.closed) : Good(R, b)
    /\ Len(g.cur) <= MaxBatch /\ Late(g.cur)
    /\ g.cur # <<>> =>
        /\ g.cur[Len(g.cur)] = s[i]
        /\ \A k \in DOMAIN g.cur : g.cur[k].len <= g.cur[Len(g.cur)].len
    /\ g.cur = <<>> => i = 0
    /\ Members(Range(g.closed)) \cup Range(g.cur) = {s[p] : p \in 1 .. i}
    /\ Apart(Range(g.closed))
    /\ \A b \in Range(g.closed) : Range(b) \cap Range(g.cur) = {}

LEMMA AppendRange ==
    ASSUME NEW S, NEW s \in Seq(S), NEW k \in S
    PROVE  /\ Append(s, k) \in Seq(S) /\ Len(Append(s, k)) = Len(s) + 1
           /\ \A i \in 1 .. Len(s) : Append(s, k)[i] = s[i]
           /\ Append(s, k)[Len(s) + 1] = k
           /\ Range(Append(s, k)) = Range(s) \cup {k}
<1> PICK t : t = Append(s, k)
  OBVIOUS
<1>1. /\ t \in Seq(S) /\ Len(t) = Len(s) + 1 /\ Len(s) \in Nat
      /\ DOMAIN s = 1 .. Len(s) /\ DOMAIN t = 1 .. Len(s) + 1
      /\ \A i \in 1 .. Len(s) : t[i] = s[i]
      /\ t[Len(s) + 1] = k
  OBVIOUS
<1>2. Range(t) \subseteq Range(s) \cup {k}
  <2>1. \A i \in DOMAIN t : i \in DOMAIN s \/ i = Len(s) + 1
    BY <1>1
  <2>2. QED
    BY <1>1, <2>1 DEF Range
<1>3. Range(s) \subseteq Range(t)
  <2>1. \A i \in DOMAIN s : i \in DOMAIN t
    BY <1>1
  <2>2. QED
    BY <1>1, <2>1 DEF Range
<1>4. k \in Range(t)
  <2>1. Len(s) + 1 \in DOMAIN t
    BY <1>1
  <2>2. QED
    BY <1>1, <2>1 DEF Range
<1>5. QED
  BY <1>1, <1>2, <1>3, <1>4

LEMMA OneRange ==
    ASSUME NEW S, NEW k \in S
    PROVE  /\ <<k>> \in Seq(S) /\ Len(<<k>>) = 1 /\ <<k>>[1] = k
           /\ DOMAIN <<k>> = {1} /\ Range(<<k>>) = {k} /\ <<k>> # <<>>
  BY DEF Range

LEMMA EmptyRange ==
    ASSUME NEW S, NEW s \in Seq(S) PROVE (Range(s) = {}) <=> (s = <<>>)
<1>1. CASE s = <<>>
  BY <1>1 DEF Range
<1>2. CASE s # <<>>
  <2>1. 1 \in DOMAIN s
    BY <1>2, EmptySeq
  <2>2. s[1] \in Range(s)
    BY <2>1 DEF Range
  <2>3. QED
    BY <1>2, <2>2
<1>3. QED
  BY <1>1, <1>2

\* One more batch, which shares nothing with the others.
LEMMA OneMoreBatch ==
    ASSUME NEW B, NEW c, Apart(B), \A b \in B : Range(b) \cap Range(c) = {}
    PROVE  Apart(B \cup {c}) /\ Members(B \cup {c}) = Members(B) \cup Range(c)
  BY DEF Apart, Members

LEMMA FirstRequests ==
    ASSUME NEW R, NEW s \in Seq(R), Distinct(s), NEW i \in DOMAIN s
    PROVE  /\ {s[p] : p \in 1 .. i} = {s[p] : p \in 1 .. (i - 1)} \cup {s[i]}
           /\ s[i] \notin {s[p] : p \in 1 .. (i - 1)}
<1>1. i \in Nat \ {0} /\ DOMAIN s = 1 .. Len(s) /\ Len(s) \in Nat /\ i <= Len(s)
  OBVIOUS
<1>2. 1 .. i = (1 .. (i - 1)) \cup {i}
  BY <1>1
<1>3. \A p \in 1 .. (i - 1) : p \in DOMAIN s /\ p # i
  BY <1>1
<1>4. s[i] \notin {s[p] : p \in 1 .. (i - 1)}
  BY <1>3 DEF Distinct
<1>5. QED
  BY <1>2, <1>4

LEMMA TakeCloses ==
    ASSUME NEW R, \A r \in R : r.len \in Nat, NEW s \in Seq(R), Distinct(s), NEW i \in DOMAIN s, NEW g,
           Forms(g, R, s, i - 1), g.cur # <<>>,
           NEW h, h = [closed |-> Append(g.closed, g.cur), cur |-> <<s[i]>>]
    PROVE  Forms(h, R, s, i)
<1> PICK C, c, r : C = g.closed /\ c = g.cur /\ r = s[i]
  OBVIOUS
<1>1. /\ C \in Seq(Seq(R)) /\ c \in Seq(R) /\ r \in R /\ c # <<>>
      /\ \A b \in Range(C) : Good(R, b)
      /\ Len(c) <= MaxBatch /\ Late(c)
      /\ Members(Range(C)) \cup Range(c) = {s[p] : p \in 1 .. (i - 1)}
      /\ Apart(Range(C)) /\ \A b \in Range(C) : Range(b) \cap Range(c) = {}
  BY DEF Forms
<1>2. MaxBatch \in Nat \ {0} /\ MinSplit \in Nat \ {0}
  BY FormingAssumption
<1>3. Good(R, c)
  <2>1. Len(c) \in Nat \ {0}
    BY <1>1, EmptySeq
  <2>2. QED
    BY <1>1, <1>2, <2>1 DEF Good
<1>4. Append(C, c) \in Seq(Seq(R)) /\ Range(Append(C, c)) = Range(C) \cup {c}
  BY <1>1, AppendRange
<1>5. /\ <<r>> \in Seq(R) /\ Len(<<r>>) = 1 /\ <<r>>[1] = r
      /\ DOMAIN <<r>> = {1} /\ Range(<<r>>) = {r} /\ <<r>> # <<>>
  BY <1>1, OneRange
<1>6. h = [closed |-> Append(C, c), cur |-> <<r>>]
  OBVIOUS
<1> PICK D, e : D = Append(C, c) /\ e = <<r>>
  OBVIOUS
<1>7. h.closed = D /\ h.cur = e /\ h \in [closed : Seq(Seq(R)), cur : Seq(R)]
  BY <1>4, <1>5, <1>6
<1>8. Len(e) = 1 /\ e[1] = r /\ DOMAIN e = {1} /\ Range(e) = {r} /\ e # <<>>
  BY <1>5
<1>9. Len(e) <= MaxBatch /\ Late(e)
  BY <1>2, <1>8 DEF Late
<1>10. /\ Apart(Range(D)) /\ Members(Range(D)) = {s[p] : p \in 1 .. (i - 1)}
       /\ \A b \in Range(D) : Good(R, b)
  <2> PICK B : B = Range(C)
    OBVIOUS
  <2>1. Range(D) = B \cup {c}
    BY <1>4
  <2>2. Apart(B) /\ \A b \in B : Range(b) \cap Range(c) = {}
    BY <1>1
  <2>3. Apart(B \cup {c}) /\ Members(B \cup {c}) = Members(B) \cup Range(c)
    BY <2>2, OneMoreBatch
  <2>4. Members(B) \cup Range(c) = {s[p] : p \in 1 .. (i - 1)}
    BY <1>1
  <2>5. \A b \in B : Good(R, b)
    BY <1>1
  <2>6. QED
    BY <1>3, <2>1, <2>3, <2>4, <2>5
<1>11. /\ {s[p] : p \in 1 .. i} = {s[p] : p \in 1 .. (i - 1)} \cup {r}
       /\ r \notin {s[p] : p \in 1 .. (i - 1)}
  BY FirstRequests
<1>12. \A b \in Range(D) : Range(b) \cap Range(e) = {}
  BY <1>8, <1>10, <1>11 DEF Members
<1>13. Members(Range(D)) \cup Range(e) = {s[p] : p \in 1 .. i}
  BY <1>8, <1>10, <1>11
<1>14. \A k \in DOMAIN e : e[k].len <= e[Len(e)].len
  <2>1. e[1].len \in Nat
    BY <1>1, <1>8
  <2>2. QED
    BY <1>8, <2>1
<1>15. QED
  BY <1>7, <1>8, <1>9, <1>10, <1>12, <1>13, <1>14 DEF Forms

LEMMA TakeAppends ==
    ASSUME NEW R, \A r \in R : r.len \in Nat, NEW s \in Seq(R), Distinct(s),
           \A p, o \in DOMAIN s : p < o => s[p].len <= s[o].len,
           NEW i \in DOMAIN s, NEW g, Forms(g, R, s, i - 1),
           g.cur = <<>> \/ ~ Splits(g.cur, s[i].len),
           NEW h, h = [g EXCEPT !.cur = Append(@, s[i])]
    PROVE  Forms(h, R, s, i)
<1> PICK C, c, r, d : C = g.closed /\ c = g.cur /\ r = s[i] /\ d = Append(c, r)
  OBVIOUS
<1>1. /\ C \in Seq(Seq(R)) /\ c \in Seq(R) /\ r \in R
      /\ \A b \in Range(C) : Good(R, b)
      /\ Len(c) <= MaxBatch /\ Late(c)
      /\ c # <<>> => c[Len(c)] = s[i - 1] /\ \A k \in DOMAIN c : c[k].len <= c[Len(c)].len
      /\ c = <<>> => i - 1 = 0
      /\ Members(Range(C)) \cup Range(c) = {s[p] : p \in 1 .. (i - 1)}
      /\ Apart(Range(C)) /\ \A b \in Range(C) : Range(b) \cap Range(c) = {}
  BY DEF Forms
<1>2. MaxBatch \in Nat \ {0} /\ MinSplit \in Nat \ {0}
  BY FormingAssumption
<1>3. /\ d \in Seq(R) /\ Len(d) = Len(c) + 1 /\ Len(c) \in Nat
      /\ \A k \in 1 .. Len(c) : d[k] = c[k]
      /\ d[Len(c) + 1] = r /\ Range(d) = Range(c) \cup {r}
      /\ DOMAIN c = 1 .. Len(c) /\ DOMAIN d = 1 .. (Len(c) + 1)
  BY <1>1, AppendRange
<1>4. d # <<>>
  BY <1>3, EmptySeq
<1>5. h.closed = C /\ h.cur = d /\ h \in [closed : Seq(Seq(R)), cur : Seq(R)]
  <2>1. g \in [closed : Seq(Seq(R)), cur : Seq(R)]
    BY DEF Forms
  <2>2. h = [g EXCEPT !.cur = d]
    OBVIOUS
  <2>3. QED
    BY <1>3, <2>1, <2>2
<1>6. /\ {s[p] : p \in 1 .. i} = {s[p] : p \in 1 .. (i - 1)} \cup {r}
      /\ r \notin {s[p] : p \in 1 .. (i - 1)}
  <2>1. /\ {s[p] : p \in 1 .. i} = {s[p] : p \in 1 .. (i - 1)} \cup {s[i]}
        /\ s[i] \notin {s[p] : p \in 1 .. (i - 1)}
    BY FirstRequests, SMTT(30)
  <2>2. QED
    BY <2>1
<1>7. \A b \in Range(C) : Range(b) \cap Range(d) = {}
  <2>1. \A b \in Range(C) : r \notin Range(b)
    BY <1>1, <1>6 DEF Members
  <2>2. QED
    BY <1>1, <1>3, <2>1
<1>8. Members(Range(C)) \cup Range(d) = {s[p] : p \in 1 .. i}
  BY <1>1, <1>3, <1>6
<1>9. ASSUME c # <<>> PROVE c[Len(c)].len <= r.len /\ c[Len(c)].len \in Nat /\ r.len \in Nat
  <2>1. Len(c) \in DOMAIN c /\ c[Len(c)] \in R
    BY <1>1, <1>3, <1>9, EmptySeq
  <2>2. i \in Nat /\ DOMAIN s = 1 .. Len(s) /\ Len(s) \in Nat
    OBVIOUS
  <2>3. 1 .. (i - 1) # {}
    <3>1. c[Len(c)] \in Range(c)
      BY <2>1 DEF Range
    <3>2. QED
      BY <1>1, <3>1
  <2>4. i - 1 \in DOMAIN s /\ i - 1 < i
    BY <2>2, <2>3
  <2>5. s[i - 1].len <= s[i].len
    BY <2>4
  <2>6. QED
    BY <1>1, <1>9, <2>1, <2>5
<1>10. \A k \in DOMAIN d : d[k].len <= d[Len(d)].len
  <2> SUFFICES ASSUME NEW k \in DOMAIN d PROVE d[k].len <= r.len
    BY <1>3
  <2>1. r.len \in Nat
    BY <1>1
  <2>2. CASE k = Len(c) + 1
    BY <1>3, <2>1, <2>2
  <2>3. CASE k \in 1 .. Len(c)
    <3>1. c # <<>> /\ k \in DOMAIN c /\ d[k] = c[k] /\ c[k] \in R
      BY <1>1, <1>3, <2>3, EmptySeq
    <3>2. c[k].len \in Nat /\ c[k].len <= c[Len(c)].len
      BY <1>1, <3>1
    <3>3. QED
      BY <1>9, <3>1, <3>2
  <2>4. QED
    BY <1>3, <2>2, <2>3
<1>11. Len(d) <= MaxBatch
  <2>1. CASE c = <<>>
    <3>1. Len(c) = 0
      BY <2>1, EmptySeq
    <3>2. QED
      BY <1>2, <1>3, <3>1
  <2>2. CASE ~ Splits(c, r.len)
    <3>1. ~ (Len(c) >= MaxBatch)
      BY <2>2 DEF Splits
    <3>2. QED
      BY <1>2, <1>3, <3>1
  <2>3. QED
    BY <2>1, <2>2
<1>12. Late(d)
  <2> SUFFICES ASSUME NEW k \in (MinSplit + 1) .. Len(d)
               PROVE  Bucket(d[k].len) = Bucket(d[k - 1].len)
    BY DEF Late
  <2>1. k - 1 \in 1 .. Len(c) /\ k \in 1 .. (Len(c) + 1) /\ c # <<>>
    <3>1. k - 1 \in 1 .. Len(c) /\ k \in 1 .. (Len(c) + 1)
      BY <1>2, <1>3
    <3>2. QED
      BY <1>3, <3>1, EmptySeq
  <2>2. CASE k \in 1 .. Len(c)
    <3>1. k \in (MinSplit + 1) .. Len(c) /\ d[k] = c[k] /\ d[k - 1] = c[k - 1]
      BY <1>2, <1>3, <2>1, <2>2
    <3>2. QED
      BY <1>1, <3>1 DEF Late
  <2>3. CASE k = Len(c) + 1
    <3>1. d[k] = r /\ d[k - 1] = c[Len(c)] /\ Len(c) >= MinSplit
      BY <1>2, <1>3, <2>1, <2>3
    <3>2. Bucket(r.len) = Bucket(MaxLen(c))
      BY <2>1, <3>1 DEF Splits
    <3>3. MaxLen(c) = c[Len(c)].len
      BY <1>1, <2>1, LastIsLongest
    <3>4. QED
      BY <3>1, <3>2, <3>3
  <2>4. QED
    BY <1>3, <2>1, <2>2, <2>3
<1>13. d[Len(d)] = s[i]
  BY <1>3
<1>14. QED
  BY <1>1, <1>4, <1>5, <1>7, <1>8, <1>10, <1>11, <1>12, <1>13 DEF Forms

\* The batches in which a queue of requests X may be cut.
Cuts(B, R, X) == (\A b \in B : Good(R, b)) /\ Members(B) = X /\ Apart(B)

\* _form_batches puts each request of the queue into one batch.
LEMMA FormingCuts ==
    ASSUME NEW R, \A r \in R : r.len \in Nat, NEW q \in Seq(R), Distinct(q)
    PROVE  Cuts(Range(FormBatches(q)), R, Range(q))
<1> PICK s : s = ByLength(q)
  OBVIOUS
<1>1. /\ s \in Seq(R) /\ Len(s) = Len(q) /\ Range(s) = Range(q) /\ Distinct(s)
      /\ \A p, o \in DOMAIN s : p < o => s[p].len <= s[o].len
  BY SortingSorts
<1>2. Len(s) \in Nat /\ DOMAIN s = 1 .. Len(s)
  BY <1>1
<1> DEFINE f == CHOOSE x : Loop(x, s, Len(s))
           T == {i \in 0 .. Len(s) : ~ Forms(f[i], R, s, i)}
<1>3. \A i \in 0 .. Len(s) : f[i] = IF i = 0 THEN Empty ELSE Take(f[i - 1], s[i])
  <2>1. \E x : Loop(x, s, Len(s))
    BY <1>2, LoopExists
  <2>2. Loop(f, s, Len(s))
    BY <2>1
  <2> HIDE DEF f
  <2>3. QED
    BY <2>2 DEF Loop
<1>4. Grouped(q) = f[Len(s)]
  BY <1>1, GroupedByLoop
<1> HIDE DEF f
<1>5. Forms(f[0], R, s, 0)
  <2>1. f[0] = Empty /\ Range(<<>>) = {} /\ Len(<<>>) = 0 /\ DOMAIN <<>> = {}
    BY <1>2, <1>3 DEF Range
  <2>2. Empty.closed = <<>> /\ Empty.cur = <<>>
        /\ Empty \in [closed : Seq(Seq(R)), cur : Seq(R)]
    BY DEF Empty
  <2>3. {s[p] : p \in 1 .. 0} = {}
    OBVIOUS
  <2>4. Late(<<>>) /\ Len(<<>>) <= MaxBatch
    BY <2>1, FormingAssumption DEF Late
  <2>5. QED
    BY <2>1, <2>2, <2>3, <2>4 DEF Forms, Members, Apart
<1>6. ASSUME NEW i \in 1 .. Len(s), Forms(f[i - 1], R, s, i - 1) PROVE Forms(f[i], R, s, i)
  <2>1. f[i] = Take(f[i - 1], s[i]) /\ i \in DOMAIN s
    BY <1>2, <1>3
  <2> PICK g : g = f[i - 1]
    OBVIOUS
  <2>2. CASE g.cur # <<>> /\ Splits(g.cur, s[i].len)
    <3>1. f[i] = [closed |-> Append(g.closed, g.cur), cur |-> <<s[i]>>]
      BY <2>1, <2>2 DEF Take
    <3>2. QED
      BY <1>1, <1>6, <2>1, <2>2, <3>1, TakeCloses
  <2>3. CASE g.cur = <<>> \/ ~ Splits(g.cur, s[i].len)
    <3>1. f[i] = [g EXCEPT !.cur = Append(@, s[i])]
      BY <2>1, <2>3 DEF Take
    <3>2. QED
      BY <1>1, <1>6, <2>1, <2>3, <3>1, TakeAppends
  <2>4. QED
    BY <2>2, <2>3
<1>7. T = {}
  <2> SUFFICES ASSUME T # {} PROVE FALSE
    OBVIOUS
  <2>1. T \in SUBSET Nat
    BY <1>2
  <2>2. PICK i \in T : \A x \in T : i <= x
    BY <2>1, LeastNumber
  <2>3. i \in 0 .. Len(s) /\ i # 0 /\ ~ Forms(f[i], R, s, i)
    BY <1>5, <2>2
  <2>4. i \in 1 .. Len(s) /\ i - 1 \in 0 .. Len(s) /\ ~ (i <= i - 1)
    BY <1>2, <2>3
  <2>5. Forms(f[i - 1], R, s, i - 1)
    BY <2>2, <2>4
  <2>6. QED
    BY <1>6, <2>3, <2>4, <2>5
<1> PICK g : g = Grouped(q)
  OBVIOUS
<1>8. Forms(g, R, s, Len(s))
  <2>1. Len(s) \in 0 .. Len(s)
    BY <1>2
  <2>2. QED
    BY <1>4, <1>7, <2>1
<1>9. {s[p] : p \in 1 .. Len(s)} = Range(q)
  BY <1>1, <1>2 DEF Range
<1>10. CASE g.cur = <<>>
  <2>1. FormBatches(q) = g.closed /\ Range(g.cur) = {}
    BY <1>10 DEF FormBatches, Range
  <2>2. QED
    BY <1>8, <1>9, <2>1 DEF Forms, Cuts
<1>11. CASE g.cur # <<>>
  <2> PICK C, c : C = g.closed /\ c = g.cur
    OBVIOUS
  <2>1. /\ C \in Seq(Seq(R)) /\ c \in Seq(R) /\ c # <<>>
        /\ \A b \in Range(C) : Good(R, b)
        /\ Len(c) <= MaxBatch /\ Late(c) /\ Apart(Range(C))
        /\ \A b \in Range(C) : Range(b) \cap Range(c) = {}
        /\ Members(Range(C)) \cup Range(c) = Range(q)
    BY <1>8, <1>9, <1>11 DEF Forms
  <2>2. FormBatches(q) = Append(C, c)
    BY <1>11 DEF FormBatches
  <2>3. Range(Append(C, c)) = Range(C) \cup {c}
    BY <2>1, AppendRange
  <2>4. Len(c) \in Nat \ {0} /\ MaxBatch \in Nat
    BY <2>1, FormingAssumption, EmptySeq
  <2>5. Good(R, c)
    BY <2>1, <2>4 DEF Good
  <2> PICK B : B = Range(C)
    OBVIOUS
  <2>6. Apart(B \cup {c}) /\ Members(B \cup {c}) = Members(B) \cup Range(c)
    BY <2>1, OneMoreBatch
  <2>7. Range(FormBatches(q)) = B \cup {c}
    BY <2>2, <2>3
  <2>8. QED
    BY <2>1, <2>5, <2>6, <2>7 DEF Cuts
<1>12. QED
  BY <1>10, <1>11

-----------------------------------------------------------------------------
(* The inductive invariant.                                                *)

Mine(m) == {r \in submitted : r.model = m}

\* Queues list waiting requests of their model, each once.
Queues ==
    /\ submitted \subseteq Requests /\ IsFiniteSet(submitted)
    /\ \A r \in submitted : r.id <= Cardinality(submitted)
    /\ models \in Seq(Models)
    /\ queue = [m \in Models |-> queue[m]]
    /\ \A m \in Models :
        /\ queue[m] \in Seq(Mine(m)) /\ Distinct(queue[m])
        /\ queue[m] # <<>> => m \in Range(models)
    /\ running \in BOOLEAN /\ loops \in Nat

\* A batch keeps the limits and holds submitted requests of its model.
Formed ==
    \A b \in Batches :
        /\ b.model \in Models /\ Good(Mine(b.model), b.requests)
        /\ \A r \in Range(b.requests) : r.len <= b.padded

\* Each request is in a queue or in a batch, and in one only.
Once ==
    /\ \A b, c \in Batches : b # c => Range(b.requests) \cap Range(c.requests) = {}
    /\ \A b \in Batches, m \in Models : Range(b.requests) \cap Range(queue[m]) = {}
    /\ \A r \in submitted :
        r \in Range(queue[r.model]) \/ \E b \in Batches : r \in Range(b.requests)

AggInv == Queues /\ Formed /\ Once

-----------------------------------------------------------------------------
(* What a round of the loop does.                                          *)

Left(q, K)        == {i \in DOMAIN q : q[i] \notin K}
PlaceLeft(q, K, i) == Cardinality({j \in Left(q, K) : j <= i})

LEMMA RemainingAs ==
    ASSUME NEW q, NEW K
    PROVE  Remaining(q, K) = [p \in 1 .. Cardinality(Left(q, K)) |->
                                 q[CHOOSE i \in Left(q, K) : PlaceLeft(q, K, i) = p]]
  BY DEF Remaining, Left, PlaceLeft

LEMMA NothingRemoved ==
    ASSUME NEW R, NEW q \in Seq(R), NEW K, Range(q) \cap K = {}
    PROVE  Remaining(q, K) = q
<1> PICK n : n = Len(q)
  OBVIOUS
<1>1. n \in Nat /\ DOMAIN q = 1 .. n /\ q = [i \in 1 .. n |-> q[i]]
  OBVIOUS
<1>2. Left(q, K) = 1 .. n
  BY <1>1 DEF Left, Range
<1>3. Cardinality(1 .. n) = n
  BY <1>1, CountTo
<1>4. ASSUME NEW i \in 1 .. n PROVE PlaceLeft(q, K, i) = i
  <2>1. {j \in 1 .. n : j <= i} = 1 .. i /\ i \in Nat
    BY <1>1
  <2>2. QED
    BY <1>2, <2>1, CountTo DEF PlaceLeft
<1>5. ASSUME NEW p \in 1 .. n
      PROVE  (CHOOSE i \in Left(q, K) : PlaceLeft(q, K, i) = p) = p
  <2>1. p \in Left(q, K) /\ PlaceLeft(q, K, p) = p
    BY <1>2, <1>4
  <2> PICK c : c = CHOOSE i \in Left(q, K) : PlaceLeft(q, K, i) = p
    OBVIOUS
  <2>2. c \in Left(q, K) /\ PlaceLeft(q, K, c) = p
    BY <2>1
  <2>3. QED
    BY <1>2, <1>4, <2>2
<1> PICK N : N = Cardinality(Left(q, K))
  OBVIOUS
<1>6. Remaining(q, K) =
        [p \in 1 .. N |-> q[CHOOSE i \in Left(q, K) : PlaceLeft(q, K, i) = p]]
  BY RemainingAs
<1>7. N = n
  BY <1>2, <1>3
<1>8. QED
  BY <1>1, <1>5, <1>6, <1>7

LEMMA EverythingRemoved ==
    ASSUME NEW R, NEW q \in Seq(R), NEW K, Range(q) \subseteq K
    PROVE  Remaining(q, K) = <<>>
<1>1. Left(q, K) = {}
  BY DEF Left, Range
<1>2. Cardinality({}) = 0 /\ 1 .. 0 = {}
  BY FS_EmptySet
<1>3. DOMAIN Remaining(q, K) = {} /\ Remaining(q, K) = [p \in {} |-> q[p]]
  BY <1>1, <1>2, RemainingAs
<1>4. QED
  BY <1>3

\* A model that a round reaches has no batch that cannot be formed.
LEMMA ReachedModels ==
    ASSUME models \in Seq(Models)
    PROVE  Reached \subseteq Models /\ \A m \in Reached : ~ Raises(m)
<1> SUFFICES ASSUME NEW i \in DOMAIN models, \A h \in 1 .. i : ~ Raises(models[h])
             PROVE  models[i] \in Models /\ ~ Raises(models[i])
  BY DEF Reached
<1>1. i \in 1 .. i /\ models[i] \in Models
  OBVIOUS
<1>2. QED
  BY <1>1

\* The batches of a model are cut from its queue and keep the limits.
LEMMA BatchesOfModel ==
    ASSUME AggInv, NEW m \in Models, ~ Raises(m)
    PROVE  /\ \A b \in BatchesOf(m) :
                /\ b.model = m /\ Good(Mine(m), b.requests)
                /\ Range(b.requests) \subseteq Range(queue[m])
                /\ \A r \in Range(b.requests) : r.len <= b.padded
           /\ \A b, c \in BatchesOf(m) :
                b # c => Range(b.requests) \cap Range(c.requests) = {}
           /\ \A r \in Range(queue[m]) : \E b \in BatchesOf(m) : r \in Range(b.requests)
<1> PICK q, R, B : q = queue[m] /\ R = Mine(m) /\ B = Range(FormBatches(queue[m]))
  OBVIOUS
<1>1. q \in Seq(R) /\ Distinct(q)
  BY DEF AggInv, Queues
<1>2. \A r \in R : r.len \in Nat
  BY AggregatorAssumption DEF AggInv, Queues, Mine, Requests
<1>3. Cuts(B, R, Range(q))
  BY <1>1, <1>2, FormingCuts
<1>4. /\ \A x \in B : Good(R, x) /\ Range(x) \subseteq Range(q)
      /\ \A x, y \in B : x # y => Range(x) \cap Range(y) = {}
      /\ \A r \in Range(q) : \E x \in B : r \in Range(x)
  BY <1>3 DEF Cuts, Members, Apart
<1>5. ASSUME NEW x \in B, NEW r \in Range(x) PROVE r.len <= Padded(x)
  <2>1. Formable(x)
    BY DEF Raises
  <2>2. x \in Seq(R) /\ x # <<>> /\ MaxLen(x) <= Padded(x)
    <3>1. x \in Seq(R) /\ Len(x) \in 1 .. MaxBatch
      BY <1>4 DEF Good
    <3>2. MaxBatch \in Nat
      BY FormingAssumption
    <3>3. QED
      BY <2>1, <3>1, <3>2, EmptySeq DEF Formable
  <2>3. PICK i \in DOMAIN x : x[i] = r
    BY DEF Range
  <2>4. r \in R
    BY <2>2, <2>3
  <2>5. r.len \in Nat /\ MaxLen(x) \in Nat /\ r.len <= MaxLen(x)
    BY <1>2, <2>2, <2>3, <2>4, MaxLenIs
  <2>6. Padded(x) \in Nat
    BY <1>2, <2>2, PaddedIs
  <2>7. QED
    BY <2>2, <2>5, <2>6
<1>6. BatchesOf(m) = {[model |-> m, requests |-> x, padded |-> Padded(x)] : x \in B}
  BY DEF BatchesOf
<1> HIDE DEF AggInv
<1>7. \A b \in BatchesOf(m) : /\ b.requests \in B /\ b.model = m
                              /\ b = [model |-> m, requests |-> b.requests,
                                      padded |-> Padded(b.requests)]
  BY <1>6
<1>8. ASSUME NEW x \in B PROVE \E b \in BatchesOf(m) : b.requests = x
  <2>1. [model |-> m, requests |-> x, padded |-> Padded(x)] \in BatchesOf(m)
    BY <1>6
  <2>2. QED
    BY <2>1
<1>9. QED
  BY <1>4, <1>5, <1>7, <1>8

\* A round empties the queues of the models it reaches and leaves the others.
LEMMA RoundQueues ==
    ASSUME AggInv, AggregateOnce
    PROVE  /\ queue' = [m \in Models |-> IF m \in Reached THEN <<>> ELSE queue[m]]
           /\ dispatching' = dispatching \cup UNION {BatchesOf(m) : m \in Reached}
<1> DEFINE formed  == UNION {BatchesOf(m) : m \in Reached}
           batched == UNION {Range(b.requests) : b \in formed}
<1>1. /\ queue' = [m \in Models |-> Remaining(queue[m], batched)]
      /\ dispatching' = dispatching \cup formed
  BY DEF AggregateOnce
<1>2. Reached \subseteq Models /\ \A m \in Reached : ~ Raises(m)
  BY ReachedModels DEF AggInv, Queues
<1>3. \A m \in Models : queue[m] \in Seq(Mine(m))
  BY DEF AggInv, Queues
<1>4. ASSUME NEW m \in Reached
      PROVE  /\ \A b \in BatchesOf(m) : Range(b.requests) \subseteq Range(queue[m])
             /\ \A r \in Range(queue[m]) : \E b \in BatchesOf(m) : r \in Range(b.requests)
  BY <1>2, <1>4, BatchesOfModel
<1>5. ASSUME NEW m \in Reached PROVE Range(queue[m]) \subseteq batched
  BY <1>4
<1>6. ASSUME NEW m \in Models, m \notin Reached PROVE Range(queue[m]) \cap batched = {}
  <2> SUFFICES ASSUME NEW r \in Range(queue[m]), NEW o \in Reached,
                      NEW b \in BatchesOf(o), r \in Range(b.requests)
               PROVE  FALSE
    OBVIOUS
  <2>1. r \in Range(queue[o]) /\ o \in Models
    BY <1>2, <1>4
  <2>2. r \in Mine(o) /\ r \in Mine(m)
    BY <1>3, <2>1 DEF Range
  <2>3. QED
    BY <1>6, <2>2 DEF Mine
<1> HIDE DEF batched
<1>7. ASSUME NEW m \in Models
      PROVE  Remaining(queue[m], batched) = IF m \in Reached THEN <<>> ELSE queue[m]
  BY <1>3, <1>5, <1>6, NothingRemoved, EverythingRemoved
<1>8. QED
  BY <1>1, <1>7

\* The new batches are apart from each other, from the old ones and from what
\* is still queued: requests of different models differ.
LEMMA RoundKeeps ==
    ASSUME AggInv, LoopRound PROVE AggInv'
<1> PICK F : F = UNION {BatchesOf(m) : m \in Reached}
  OBVIOUS
<1>1. UNCHANGED <<submitted, models, running, loops, ended>> /\ AggregateOnce
  BY DEF LoopRound
<1>2. /\ queue' = [m \in Models |-> IF m \in Reached THEN <<>> ELSE queue[m]]
      /\ dispatching' = dispatching \cup F
  BY <1>1, RoundQueues
<1>3. Reached \subseteq Models /\ \A m \in Reached : ~ Raises(m)
  BY ReachedModels DEF AggInv, Queues
<1>4. Queues /\ Formed /\ Once
  BY DEF AggInv
<1>5. \A m : Mine(m)' = Mine(m)
  BY <1>1 DEF Mine
<1>6. \A m \in Models : queue[m] \in Seq(Mine(m))
  BY <1>4 DEF Queues
<1>7. Batches' = Batches \cup F
  BY <1>1, <1>2 DEF Batches
<1>8. \A m \in Models : queue'[m] = IF m \in Reached THEN <<>> ELSE queue[m]
  BY <1>2
<1>9. ASSUME NEW b \in F
      PROVE  /\ b.model \in Reached /\ b \in BatchesOf(b.model)
             /\ Good(Mine(b.model), b.requests)
             /\ Range(b.requests) \subseteq Range(queue[b.model])
             /\ \A r \in Range(b.requests) : r.len <= b.padded
  <2>1. PICK m \in Reached : b \in BatchesOf(m)
    BY <1>9
  <2>2. m \in Models /\ ~ Raises(m)
    BY <1>3, <2>1
  <2>3. /\ b.model = m /\ Good(Mine(m), b.requests)
        /\ Range(b.requests) \subseteq Range(queue[m])
        /\ \A r \in Range(b.requests) : r.len <= b.padded
    BY <2>1, <2>2, BatchesOfModel
  <2>4. QED
    BY <2>1, <2>3
<1>10. Queues'
  <2>1. ASSUME NEW m \in Models
        PROVE  /\ queue'[m] \in Seq(Mine(m)) /\ Distinct(queue'[m])
               /\ queue'[m] # <<>> => m \in Range(models)
    <3>1. /\ queue[m] \in Seq(Mine(m)) /\ Distinct(queue[m])
          /\ queue[m] # <<>> => m \in Range(models)
      BY <1>4 DEF Queues
    <3>2. <<>> \in Seq(Mine(m)) /\ Distinct(<<>>)
      BY DEF Distinct
    <3>3. QED
      BY <1>8, <3>1, <3>2
  <2>2. queue' = [m \in Models |-> queue'[m]]
    BY <1>2
  <2>3. QED
    BY <1>1, <1>4, <1>5, <2>1, <2>2 DEF Queues
<1>11. Formed'
  <2>1. \A b \in Batches :
          /\ b.model \in Models /\ Good(Mine(b.model), b.requests)
          /\ \A r \in Range(b.requests) : r.len <= b.padded
    BY <1>4 DEF Formed
  <2>2. \A b \in Batches \cup F :
          /\ b.model \in Models /\ Good(Mine(b.model), b.requests)
          /\ \A r \in Range(b.requests) : r.len <= b.padded
    BY <1>3, <1>9, <2>1
  <2>3. QED
    BY <1>5, <1>7, <2>2 DEF Formed
<1>12. ASSUME NEW m \in Models, NEW o \in Models, m # o
       PROVE  Range(queue[m]) \cap Range(queue[o]) = {}
  <2>1. Range(queue[m]) \subseteq Mine(m) /\ Range(queue[o]) \subseteq Mine(o)
    BY <1>6 DEF Range
  <2>2. QED
    BY <1>12, <2>1 DEF Mine
<1>13. /\ \A b, c \in Batches : b # c => Range(b.requests) \cap Range(c.requests) = {}
       /\ \A b \in Batches, m \in Models : Range(b.requests) \cap Range(queue[m]) = {}
       /\ \A r \in submitted :
            r \in Range(queue[r.model]) \/ \E b \in Batches : r \in Range(b.requests)
  BY <1>4 DEF Once
<1>14. ASSUME NEW b \in F, NEW c \in F, b # c
       PROVE  Range(b.requests) \cap Range(c.requests) = {}
  <2>1. CASE b.model = c.model
    <3>1. b.model \in Models /\ ~ Raises(b.model)
          /\ b \in BatchesOf(b.model) /\ c \in BatchesOf(b.model)
      BY <1>3, <1>9, <2>1
    <3>2. QED
      BY <1>14, <3>1, BatchesOfModel
  <2>2. CASE b.model # c.model
    BY <1>3, <1>9, <1>12, <2>2
  <2>3. QED
    BY <2>1, <2>2
<1>15. ASSUME NEW b \in F, NEW c \in Batches
       PROVE  Range(b.requests) \cap Range(c.requests) = {}
  BY <1>3, <1>9, <1>13
<1>16. ASSUME NEW b \in Batches \cup F, NEW c \in Batches \cup F, b # c
       PROVE  Range(b.requests) \cap Range(c.requests) = {}
  BY <1>13, <1>14, <1>15, <1>16
<1>17. Range(<<>>) = {}
  BY DEF Range
<1>18. ASSUME NEW b \in Batches \cup F, NEW m \in Models
       PROVE  Range(b.requests) \cap Range(queue'[m]) = {}
  <2>1. CASE m \in Reached
    BY <1>8, <1>17, <2>1
  <2>2. CASE m \notin Reached /\ b \in Batches
    BY <1>8, <1>13, <2>2
  <2>3. CASE m \notin Reached /\ b \in F
    <3>1. b.model \in Models /\ b.model # m
          /\ Range(b.requests) \subseteq Range(queue[b.model])
      BY <1>3, <1>9, <2>3
    <3>2. QED
      BY <1>8, <1>12, <2>3, <3>1
  <2>4. QED
    BY <2>1, <2>2, <2>3
<1>19. ASSUME NEW r \in submitted
       PROVE  \/ r \in Range(queue'[r.model])
              \/ \E b \in Batches \cup F : r \in Range(b.requests)
  <2>1. r.model \in Models
    BY <1>4 DEF Queues, Requests
  <2>2. CASE r.model \in Reached /\ r \in Range(queue[r.model])
    <3>1. \E b \in BatchesOf(r.model) : r \in Range(b.requests)
      BY <1>3, <2>1, <2>2, BatchesOfModel
    <3>2. BatchesOf(r.model) \subseteq F
      BY <2>2
    <3>3. QED
      BY <3>1, <3>2
  <2>3. CASE r.model \notin Reached
    BY <1>8, <1>13, <2>1, <2>3
  <2>4. QED
    BY <1>13, <2>2, <2>3
<1>20. Once'
  BY <1>1, <1>7, <1>16, <1>18, <1>19 DEF Once
<1>21. QED
  BY <1>10, <1>11, <1>20 DEF AggInv

-----------------------------------------------------------------------------
(* The other actions.                                                      *)

LEMMA GoodInMore ==
    ASSUME NEW R, NEW S, R \subseteq S, NEW b, Good(R, b) PROVE Good(S, b)
<1>1. b \in Seq(R) /\ \A i \in DOMAIN b : b[i] \in R
  BY DEF Good
<1>2. b \in Seq(S)
  BY <1>1
<1>3. QED
  BY <1>2 DEF Good

\* A queue takes a request that it does not hold.
LEMMA OneMoreRequest ==
    ASSUME NEW S, NEW q \in Seq(S), Distinct(q), NEW r \in S, r \notin Range(q),
           NEW t, t = Append(q, r)
    PROVE  Distinct(t)
<1>1. \A i \in DOMAIN q : q[i] # r
  BY DEF Range
<1>2. /\ Append(q, r) \in Seq(S) /\ Len(Append(q, r)) = Len(q) + 1
      /\ \A i \in 1 .. Len(q) : Append(q, r)[i] = q[i]
      /\ Append(q, r)[Len(q) + 1] = r
  BY AppendRange
<1>3. /\ t \in Seq(S) /\ Len(q) \in Nat
      /\ DOMAIN q = 1 .. Len(q) /\ DOMAIN t = 1 .. (Len(q) + 1)
      /\ \A i \in DOMAIN q : t[i] = q[i] /\ t[i] # r
      /\ t[Len(q) + 1] = r
  BY <1>1, <1>2
<1>4. ASSUME NEW i \in DOMAIN t, NEW j \in DOMAIN t, t[i] = t[j] PROVE i = j
  <2>1. (i \in DOMAIN q \/ i = Len(q) + 1) /\ (j \in DOMAIN q \/ j = Len(q) + 1)
    BY <1>3
  <2>2. QED
    BY <1>3, <1>4, <2>1 DEF Distinct
<1>5. QED
  BY <1>4 DEF Distinct

\* The request that Submit makes is a new one.
LEMMA SubmitMakes ==
    ASSUME AggInv, NEW m \in Models, NEW n \in Lengths, Submit(m, n)
    PROVE  \E r : /\ r \in Requests /\ r.model = m /\ r \notin submitted
                  /\ r.id \in 1 .. MaxRequests
                  /\ \A s \in submitted : s.id < r.id
                  /\ submitted' = submitted \cup {r}
                  /\ IsFiniteSet(submitted') /\ Cardinality(submitted') = r.id
                  /\ queue' = [queue EXCEPT ![m] = Append(queue[m], r)]
<1> PICK r, k : r = [id |-> k + 1, model |-> m, len |-> n] /\ k = Cardinality(submitted)
  OBVIOUS
<1>1. /\ submitted \subseteq Requests /\ IsFiniteSet(submitted)
      /\ \A s \in submitted : s.id <= k
  BY DEF AggInv, Queues
<1>2. k \in Nat
  BY <1>1, FS_CardinalityType
<1>3. /\ k < MaxRequests /\ submitted' = submitted \cup {r}
      /\ queue' = [queue EXCEPT ![m] = Append(queue[m], r)]
  BY DEF Submit
<1>4. MaxRequests \in Nat
  BY AggregatorAssumption
<1>5. r.id = k + 1 /\ r.model = m /\ r \in Requests /\ r.id \in 1 .. MaxRequests
  BY <1>2, <1>3, <1>4 DEF Requests
<1>6. \A s \in submitted : s.id \in Nat /\ s.id < r.id
  BY <1>1, <1>2, <1>5 DEF Requests
<1>7. r \notin submitted
  BY <1>2, <1>5, <1>6
<1>8. IsFiniteSet(submitted') /\ Cardinality(submitted') = k + 1
  BY <1>1, <1>3, <1>7, FS_AddElement
<1>9. QED
  BY <1>3, <1>5, <1>6, <1>7, <1>8

LEMMA SubmitKeeps ==
    ASSUME AggInv, NEW m \in Models, NEW n \in Lengths, Submit(m, n) PROVE AggInv'
<1>1. PICK r : /\ r \in Requests /\ r.model = m /\ r \notin submitted
               /\ \A s \in submitted : s.id < r.id
               /\ submitted' = submitted \cup {r}
               /\ IsFiniteSet(submitted') /\ Cardinality(submitted') = r.id
               /\ queue' = [queue EXCEPT ![m] = Append(queue[m], r)]
  BY SubmitMakes
<1>2. /\ models' = IF m \in Range(models) THEN models ELSE Append(models, m)
      /\ UNCHANGED <<running, loops, dispatching, ended>>
  BY DEF Submit
<1>3. Queues /\ Formed /\ Once
  BY DEF AggInv
<1>4. Batches' = Batches
  BY <1>2 DEF Batches
<1>5. /\ \A o : Mine(o) \subseteq Mine(o)'
      /\ r \in Mine(m)' /\ r \notin Mine(m)
  BY <1>1 DEF Mine
<1>6. /\ queue = [o \in Models |-> queue[o]]
      /\ \A o \in Models : /\ queue[o] \in Seq(Mine(o)) /\ Distinct(queue[o])
                           /\ queue[o] # <<>> => o \in Range(models)
  BY <1>3 DEF Queues
<1>7. /\ queue' = [o \in Models |-> queue'[o]]
      /\ queue'[m] = Append(queue[m], r)
      /\ \A o \in Models : o # m => queue'[o] = queue[o]
  BY <1>1, <1>6
<1>8. /\ queue'[m] \in Seq(Mine(m)') /\ Distinct(queue'[m])
      /\ Range(queue'[m]) = Range(queue[m]) \cup {r}
  <2> PICK S, q, t : S = Mine(m)' /\ q = queue[m] /\ t = queue'[m]
    OBVIOUS
  <2>1. Mine(m) \subseteq S /\ q \in Seq(Mine(m)) /\ Distinct(q) /\ r \in S
        /\ r \notin Mine(m) /\ t = Append(q, r)
    BY <1>5, <1>6, <1>7
  <2>2. q \in Seq(S) /\ r \notin Range(q)
    BY <2>1 DEF Range
  <2>3. Distinct(t)
    BY <2>1, <2>2, OneMoreRequest
  <2>4. t \in Seq(S) /\ Range(t) = Range(q) \cup {r}
    BY <2>1, <2>2, AppendRange
  <2>5. QED
    BY <2>3, <2>4
<1>9. models' \in Seq(Models) /\ Range(models') = Range(models) \cup {m}
  <2>1. models \in Seq(Models)
    BY <1>3 DEF Queues
  <2>2. CASE m \in Range(models)
    BY <1>2, <2>1, <2>2
  <2>3. CASE m \notin Range(models)
    BY <1>2, <2>1, <2>3, AppendRange
  <2>4. QED
    BY <2>2, <2>3
<1>10. Queues'
  <2>1. ASSUME NEW o \in Models
        PROVE  /\ queue'[o] \in Seq(Mine(o)') /\ Distinct(queue'[o])
               /\ queue'[o] # <<>> => o \in Range(models')
    <3>1. CASE o = m
      BY <1>8, <1>9, <3>1
    <3>2. CASE o # m
      <4>1. queue[o] \in Seq(Mine(o)')
        BY <1>5, <1>6
      <4>2. QED
        BY <1>6, <1>7, <1>9, <3>2, <4>1
    <3>3. QED
      BY <3>1, <3>2
  <2>2. submitted' \subseteq Requests
    BY <1>1, <1>3 DEF Queues
  <2>3. \A s \in submitted' : s.id <= Cardinality(submitted')
    <3>1. r.id \in Nat /\ \A s \in submitted : s.id \in Nat
      BY <1>1, <1>3 DEF Queues, Requests
    <3>2. QED
      BY <1>1, <3>1
  <2>4. running' \in BOOLEAN /\ loops' \in Nat
    BY <1>2, <1>3 DEF Queues
  <2>5. QED
    BY <1>1, <1>7, <1>9, <2>1, <2>2, <2>3, <2>4 DEF Queues
<1>11. Formed'
  <2>1. ASSUME NEW b \in Batches
        PROVE  /\ b.model \in Models /\ Good(Mine(b.model)', b.requests)
               /\ \A s \in Range(b.requests) : s.len <= b.padded
    <3>1. /\ b.model \in Models /\ Good(Mine(b.model), b.requests)
          /\ \A s \in Range(b.requests) : s.len <= b.padded
      BY <1>3 DEF Formed
    <3>2. Mine(b.model) \subseteq Mine(b.model)'
      BY <1>5
    <3>3. QED
      BY <3>1, <3>2, GoodInMore
  <2>2. QED
    BY <1>4, <2>1 DEF Formed
<1>12. /\ \A b, c \in Batches : b # c => Range(b.requests) \cap Range(c.requests) = {}
       /\ \A b \in Batches, o \in Models : Range(b.requests) \cap Range(queue[o]) = {}
       /\ \A s \in submitted :
            s \in Range(queue[s.model]) \/ \E b \in Batches : s \in Range(b.requests)
  BY <1>3 DEF Once
<1>13. ASSUME NEW b \in Batches PROVE r \notin Range(b.requests)
  <2>1. b.requests \in Seq(Mine(b.model))
    BY <1>3 DEF Formed, Good
  <2>2. Range(b.requests) \subseteq submitted
    BY <2>1 DEF Range, Mine
  <2>3. QED
    BY <1>1, <2>2
<1>14. ASSUME NEW b \in Batches, NEW o \in Models
       PROVE  Range(b.requests) \cap Range(queue'[o]) = {}
  <2>1. Range(queue'[o]) \subseteq Range(queue[o]) \cup {r}
    <3>1. CASE o = m
      BY <1>8, <3>1
    <3>2. CASE o # m
      BY <1>7, <3>2
    <3>3. QED
      BY <3>1, <3>2
  <2>2. Range(b.requests) \cap Range(queue[o]) = {} /\ r \notin Range(b.requests)
    BY <1>12, <1>13
  <2>3. QED
    BY <2>1, <2>2
<1>15. ASSUME NEW s \in submitted'
       PROVE  s \in Range(queue'[s.model]) \/ \E b \in Batches : s \in Range(b.requests)
  <2>1. CASE s = r
    BY <1>1, <1>8, <2>1
  <2>2. CASE s \in submitted
    <3>1. s.model \in Models
      BY <1>3, <2>2 DEF Queues, Requests
    <3>2. Range(queue[s.model]) \subseteq Range(queue'[s.model])
      BY <1>7, <1>8, <3>1
    <3>3. QED
      BY <1>12, <2>2, <3>2
  <2>3. QED
    BY <1>1, <2>1, <2>2
<1>16. Once'
  BY <1>4, <1>12, <1>14, <1>15 DEF Once
<1>17. QED
  BY <1>10, <1>11, <1>16 DEF AggInv

\* Steps that leave the requests and the batches as they are.
LEMMA OthersKeep ==
    ASSUME AggInv, UNCHANGED <<submitted, models, queue>>, Batches' = Batches,
           running' \in BOOLEAN, loops' \in Nat
    PROVE  AggInv'
<1>1. Queues /\ Formed /\ Once
  BY DEF AggInv
<1>2. \A m : Mine(m)' = Mine(m)
  BY DEF Mine
<1>3. Queues'
  BY <1>1, <1>2 DEF Queues
<1>4. Formed'
  BY <1>1, <1>2 DEF Formed
<1>5. Once'
  BY <1>1 DEF Once
<1>6. QED
  BY <1>3, <1>4, <1>5 DEF AggInv

\* A dispatched batch is still one of the batches.
LEMMA DispatchMoves ==
    ASSUME NEW b \in dispatching, Dispatch(b) PROVE Batches' = Batches
<1>1. /\ dispatching' = dispatching \ {b}
      /\ ended' = ended \cup {[batch |-> b, outcome |-> DispatchOutcome]}
  BY DEF Dispatch
<1> PICK d : d = [batch |-> b, outcome |-> DispatchOutcome]
  OBVIOUS
<1>2. {e.batch : e \in ended'} = {e.batch : e \in ended} \cup {b}
  <2>1. ended' = ended \cup {d} /\ d.batch = b
    BY <1>1
  <2>2. QED
    BY <2>1
<1>3. QED
  BY <1>1, <1>2 DEF Batches

LEMMA AggInit == Init => AggInv
<1> SUFFICES ASSUME Init PROVE AggInv
  OBVIOUS
<1>1. /\ submitted = {} /\ models = <<>> /\ queue = [m \in Models |-> <<>>]
      /\ running = FALSE /\ loops = 0 /\ Batches = {}
  BY DEF Init, Batches
<1>2. IsFiniteSet({}) /\ Distinct(<<>>)
  BY FS_EmptySet DEF Distinct
<1>3. /\ \A m \in Models : queue[m] = <<>> /\ queue[m] \in Seq(Mine(m)) /\ Distinct(queue[m])
      /\ queue = [m \in Models |-> queue[m]]
  BY <1>1, <1>2
<1>4. Queues
  <2>1. models \in Seq(Models) /\ loops \in Nat
    BY <1>1
  <2>2. running \in BOOLEAN
    BY <1>1, Zenon
  <2>3. submitted \subseteq Requests /\ IsFiniteSet(submitted)
        /\ \A r \in submitted : r.id <= Cardinality(submitted)
    BY <1>1, <1>2
  <2>4. QED
    BY <1>3, <2>1, <2>2, <2>3 DEF Queues
<1>5. Formed /\ Once
  BY <1>1 DEF Formed, Once
<1>6. QED
  BY <1>4, <1>5 DEF AggInv

LEMMA AggStep == AggInv /\ [Next]_vars => AggInv'
<1> SUFFICES ASSUME AggInv, [Next]_vars PROVE AggInv'
  OBVIOUS
<1>1. running \in BOOLEAN /\ loops \in Nat
  BY DEF AggInv, Queues
<1>2. CASE \E m \in Models, n \in Lengths : Submit(m, n)
  BY <1>2, SubmitKeeps
<1>3. CASE Start
  BY <1>1, <1>3, OthersKeep DEF Start, Batches
<1>4. CASE Stop
  BY <1>1, <1>4, OthersKeep DEF Stop, Batches
<1>5. CASE LoopRound
  BY <1>5, RoundKeeps
<1>6. CASE LoopEnd
  BY <1>1, <1>6, OthersKeep DEF LoopEnd, Batches
<1>7. CASE \E b \in dispatching : Dispatch(b)
  <2>1. PICK b \in dispatching : Dispatch(b)
    BY <1>7
  <2>2. Batches' = Batches
    BY <2>1, DispatchMoves
  <2>3. UNCHANGED <<submitted, models, running, loops, queue>>
    BY <2>1 DEF Dispatch
  <2>4. QED
    BY <1>1, <2>2, <2>3, OthersKeep
<1>8. CASE UNCHANGED vars
  BY <1>1, <1>8, OthersKeep DEF vars, Batches
<1>9. QED
  BY <1>2, <1>3, <1>4, <1>5, <1>6, <1>7, <1>8 DEF Next

LEMMA AggInvariant == Spec => []AggInv
<1>1. Init => AggInv
  BY AggInit
<1>2. AggInv /\ [Next]_vars => AggInv'
  BY AggStep
<1>3. QED
  BY <1>1, <1>2, PTL DEF Spec

-----------------------------------------------------------------------------
(* What follows of the states.                                             *)

LEMMA TypesFollow ==
    ASSUME AggInv PROVE TypeOK
<1>1. Queues /\ Formed
  BY DEF AggInv
<1>2. \A m : Mine(m) \subseteq {r \in Requests : r.model = m}
  BY <1>1 DEF Mine, Queues
<1>3. ASSUME NEW m \in Models
      PROVE  /\ Range(queue[m]) \subseteq {r \in Requests : r.model = m}
             /\ queue[m] # <<>> => m \in Range(models)
  <2>1. queue[m] \in Seq(Mine(m)) /\ (queue[m] # <<>> => m \in Range(models))
    BY <1>1 DEF Queues
  <2>2. Range(queue[m]) \subseteq Mine(m)
    BY <2>1 DEF Range
  <2>3. QED
    BY <1>2, <2>1, <2>2
<1>4. ASSUME NEW b \in Batches PROVE b.model \in Models /\ b.requests \in Seq(Requests)
  <2>1. b.model \in Models /\ b.requests \in Seq(Mine(b.model))
    BY <1>1 DEF Formed, Good
  <2>2. Mine(b.model) \subseteq Requests
    BY <1>2
  <2>3. QED
    BY <2>1, <2>2
<1>5. Range(models) \subseteq Models
  BY <1>1 DEF Queues, Range
<1>6. QED
  BY <1>1, <1>3, <1>4, <1>5 DEF TypeOK, Queues

LEMMA BatchesKeep ==
    ASSUME AggInv PROVE BatchesFit /\ LateRequestsShareBucket
<1>1. ASSUME NEW b \in Batches
      PROVE  /\ Len(b.requests) \in 1 .. MaxBatch /\ Late(b.requests)
             /\ \A r \in Range(b.requests) : r.model = b.model /\ r.len <= b.padded
  <2>1. /\ b.requests \in Seq(Mine(b.model)) /\ Len(b.requests) \in 1 .. MaxBatch
        /\ Late(b.requests) /\ \A r \in Range(b.requests) : r.len <= b.padded
    BY DEF AggInv, Formed, Good
  <2>2. \A r \in Range(b.requests) : r.model = b.model
    BY <2>1 DEF Range, Mine
  <2>3. QED
    BY <2>1, <2>2
<1>2. QED
  BY <1>1 DEF BatchesFit, LateRequestsShareBucket, Late

\* The places of a request in the queues, and the batches it is inside.
QueuedAt(r)    == UNION {{m} \X {i \in DOMAIN queue[m] : queue[m][i] = r} : m \in Models}
InsideOf(r)    == {b \in Batches : r \in Range(b.requests)}

LEMMA QueuedOnce ==
    ASSUME AggInv, NEW r \in submitted, r \in Range(queue[r.model])
    PROVE  (\E x : QueuedAt(r) = {x}) /\ InsideOf(r) = {}
<1>1. r.model \in Models
  BY DEF AggInv, Queues, Requests
<1>2. PICK i \in DOMAIN queue[r.model] : queue[r.model][i] = r
  BY DEF Range
<1>3. ASSUME NEW m \in Models, NEW j \in DOMAIN queue[m], queue[m][j] = r
      PROVE  m = r.model /\ j = i
  <2>1. queue[m] \in Seq(Mine(m)) /\ Distinct(queue[m])
    BY DEF AggInv, Queues
  <2>2. r \in Mine(m)
    BY <1>3, <2>1
  <2>3. m = r.model
    BY <2>2 DEF Mine
  <2>4. QED
    BY <1>2, <1>3, <2>1, <2>3 DEF Distinct
<1>4. QueuedAt(r) = {<<r.model, i>>}
  <2>1. <<r.model, i>> \in QueuedAt(r)
    BY <1>1, <1>2 DEF QueuedAt
  <2>2. ASSUME NEW x \in QueuedAt(r) PROVE x = <<r.model, i>>
    <3>1. PICK m \in Models : x \in {m} \X {j \in DOMAIN queue[m] : queue[m][j] = r}
      BY DEF QueuedAt
    <3>2. PICK j \in DOMAIN queue[m] : x = <<m, j>> /\ queue[m][j] = r
      BY <3>1
    <3>3. QED
      BY <1>3, <3>2
  <2>3. QED
    BY <2>1, <2>2
<1>5. InsideOf(r) = {}
  BY <1>1 DEF AggInv, Once, InsideOf
<1>6. QED
  BY <1>4, <1>5

LEMMA InsideOnce ==
    ASSUME AggInv, NEW r \in submitted, r \notin Range(queue[r.model])
    PROVE  QueuedAt(r) = {} /\ \E x : InsideOf(r) = {x}
<1>1. PICK b \in Batches : r \in Range(b.requests)
  BY DEF AggInv, Once
<1>2. InsideOf(r) = {b}
  BY <1>1 DEF AggInv, Once, InsideOf
<1>3. ASSUME NEW m \in Models, NEW j \in DOMAIN queue[m], queue[m][j] = r PROVE FALSE
  <2>1. r \in Range(queue[m])
    BY <1>3 DEF Range
  <2>2. QED
    BY <1>1, <2>1 DEF AggInv, Once
<1>4. QueuedAt(r) = {}
  BY <1>3 DEF QueuedAt
<1>5. QED
  BY <1>2, <1>4

LEMMA OnceFollows ==
    ASSUME AggInv PROVE EachRequestOnce
<1>1. ASSUME NEW r \in submitted
      PROVE  Cardinality(QueuedAt(r)) + Cardinality(InsideOf(r)) = 1
  <2>1. Cardinality({}) = 0 /\ \A x : Cardinality({x}) = 1
    BY FS_EmptySet, FS_Singleton
  <2>2. CASE r \in Range(queue[r.model])
    <3>1. PICK x : QueuedAt(r) = {x} /\ InsideOf(r) = {}
      BY <2>2, QueuedOnce
    <3>2. Cardinality(QueuedAt(r)) = 1 /\ Cardinality(InsideOf(r)) = 0
      BY <2>1, <3>1
    <3>3. QED
      BY <3>2
  <2>3. CASE r \notin Range(queue[r.model])
    <3>1. PICK x : QueuedAt(r) = {} /\ InsideOf(r) = {x}
      BY <2>3, InsideOnce
    <3>2. Cardinality(QueuedAt(r)) = 0 /\ Cardinality(InsideOf(r)) = 1
      BY <2>1, <3>1
    <3>3. QED
      BY <3>2
  <2>4. QED
    BY <2>2, <2>3
<1>2. QED
  BY <1>1 DEF EachRequestOnce, QueuedAt, InsideOf

\* Types: queues hold requests of their own model, and every model with a
\* request is among those a round looks at (submit, _aggregate_once).
THEOREM AggregatorTypeCorrect == Spec => []TypeOK
<1>1. AggInv => TypeOK
  BY TypesFollow
<1>2. QED
  BY <1>1, AggInvariant, PTL

\* No request is lost, queued twice or batched twice, however many loop
\* tasks run and whichever models a round fails for (submit,
\* _form_batches, _aggregate_once, _dispatch).
THEOREM RequestsOnce == Spec => []EachRequestOnce
<1>1. AggInv => EachRequestOnce
  BY OnceFollows
<1>2. QED
  BY <1>1, AggInvariant, PTL

\* A batch is of one model, within max_batch_size, and its rows are as long
\* as its longest request (_form_batches, _form_single_batch).
THEOREM BatchesKeepLimits == Spec => []BatchesFit
<1>1. AggInv => BatchesFit
  BY BatchesKeep
<1>2. QED
  BY <1>1, AggInvariant, PTL

\* Beyond the first requests of a batch all have the bucket of the one
\* before them (the change of bucket in _form_batches).
THEOREM LateRequestsAgree == Spec => []LateRequestsShareBucket
<1>1. AggInv => LateRequestsShareBucket
  BY BatchesKeep
<1>2. QED
  BY <1>1, AggInvariant, PTL

-----------------------------------------------------------------------------
(* The aggregator implements RequestPool.                                  *)

Waits  == UNION {Range(queue[m]) : m \in Models}
Handed == {Range(b.requests) : b \in Batches}

LEMMA SizeOfRange ==
    ASSUME NEW R, NEW s \in Seq(R), Len(s) \in 1 .. MaxBatch
    PROVE  Cardinality(Range(s)) \in 1 .. MaxBatch
<1> PICK n : n = Len(s)
  OBVIOUS
<1>1. MaxBatch \in Nat
  BY FormingAssumption
<1>2. n \in Nat \ {0} /\ n <= MaxBatch /\ DOMAIN s = 1 .. n /\ s \in [1 .. n -> R]
  BY <1>1
<1>3. IsFiniteSet(1 .. n) /\ Cardinality(1 .. n) = n
  BY <1>2, CountTo
<1>4. s \in Surjection(1 .. n, Range(s))
  BY <1>2 DEF Surjection, Range
<1> PICK D : D = 1 .. n
  OBVIOUS
<1>5. IsFiniteSet(Range(s)) /\ Cardinality(Range(s)) <= n
  <2>1. IsFiniteSet(D) /\ Cardinality(D) = n /\ s \in Surjection(D, Range(s))
    BY <1>3, <1>4
  <2>2. QED
    BY <2>1, FS_Surjection
<1>6. Range(s) # {}
  <2>1. 1 \in DOMAIN s
    BY <1>2
  <2>2. QED
    BY <2>1 DEF Range
<1>7. Cardinality(Range(s)) \in Nat /\ Cardinality(Range(s)) # 0
  BY <1>5, <1>6, FS_CardinalityType, FS_EmptySet
<1> PICK c : c = Cardinality(Range(s))
  OBVIOUS
<1>8. c \in Nat /\ c # 0 /\ c <= n
  BY <1>5, <1>7
<1>9. c \in 1 .. MaxBatch
  BY <1>1, <1>2, <1>8
<1>10. QED
  BY <1>9

LEMMA SubmitAccepts ==
    ASSUME AggInv, NEW m \in Models, NEW n \in Lengths, Submit(m, n)
    PROVE  \E r \in [id : 1 .. MaxRequests, model : Models, len : Lengths] : Pool!Accept(r)
<1>1. PICK r : /\ r \in Requests /\ r.model = m /\ r \notin submitted
               /\ r.id \in 1 .. MaxRequests
               /\ queue' = [queue EXCEPT ![m] = Append(queue[m], r)]
  BY SubmitMakes
<1>2. r \in [id : 1 .. MaxRequests, model : Models, len : Lengths]
  BY <1>1 DEF Requests
<1>3. \A o \in Models : queue[o] \in Seq(Mine(o))
  BY DEF AggInv, Queues
<1>4. \A o \in Models : Range(queue[o]) \subseteq submitted
  <2>1. \A o \in Models : Range(queue[o]) \subseteq Mine(o)
    BY <1>3 DEF Range
  <2>2. QED
    BY <2>1 DEF Mine
<1>5. \A b \in Batches : b.requests \in Seq(Mine(b.model))
  BY DEF AggInv, Formed, Good
<1>6. \A b \in Batches : Range(b.requests) \subseteq submitted
  <2>1. \A b \in Batches : Range(b.requests) \subseteq Mine(b.model)
    BY <1>5 DEF Range
  <2>2. QED
    BY <2>1 DEF Mine
<1>7. r \notin Waits \cup UNION Handed
  BY <1>1, <1>4, <1>6 DEF Waits, Handed
<1>8. Handed' = Handed
  BY DEF Submit, Handed, Batches
<1>9. queue = [o \in Models |-> queue[o]]
  BY DEF AggInv, Queues
<1>10. /\ queue'[m] = Append(queue[m], r)
       /\ \A o \in Models : o # m => queue'[o] = queue[o]
  BY <1>1, <1>9
<1>11. Range(queue'[m]) = Range(queue[m]) \cup {r}
  <2> PICK q, S : q = queue[m] /\ S = Requests
    OBVIOUS
  <2>1. q \in Seq(S) /\ r \in S
    <3>1. Mine(m) \subseteq Requests
      BY DEF Mine, AggInv, Queues
    <3>2. QED
      BY <1>1, <1>3, <3>1
  <2>2. QED
    BY <1>10, <2>1, AppendRange
<1>12. Waits' = Waits \cup {r}
  <2>1. Waits' = UNION {Range(queue'[o]) : o \in Models}
    BY DEF Waits
  <2>2. QED
    BY <1>10, <1>11, <2>1 DEF Waits
<1>13. Pool!Accept(r)
  BY <1>7, <1>8, <1>12 DEF Pool!Accept, Waits, Handed
<1>14. QED
  BY <1>2, <1>13

LEMMA RoundHandsOut ==
    ASSUME AggInv, LoopRound PROVE Pool!HandOut
<1> PICK F, new : F = UNION {BatchesOf(m) : m \in Reached} /\ new = Handed' \ Handed
  OBVIOUS
<1>1. UNCHANGED <<submitted, models, running, loops, ended>> /\ AggregateOnce
  BY DEF LoopRound
<1>2. /\ \A m \in Models : queue'[m] = IF m \in Reached THEN <<>> ELSE queue[m]
      /\ dispatching' = dispatching \cup F
  BY <1>1, RoundQueues
<1>3. Reached \subseteq Models /\ \A m \in Reached : ~ Raises(m)
  BY ReachedModels DEF AggInv, Queues
<1>4. Batches' = Batches \cup F
  BY <1>1, <1>2 DEF Batches
<1>5. Handed' = Handed \cup {Range(b.requests) : b \in F}
  BY <1>4 DEF Handed
<1>6. AggInv'
  BY RoundKeeps
<1>7. \A b, c \in Batches \cup F : b # c => Range(b.requests) \cap Range(c.requests) = {}
  BY <1>4, <1>6 DEF AggInv, Once
<1>8. ASSUME NEW x \in new
      PROVE  x \subseteq Waits /\ Cardinality(x) \in 1 .. MaxBatch
             /\ \E b \in F : x = Range(b.requests)
  <2>1. PICK b \in F : x = Range(b.requests)
    BY <1>5
  <2>2. PICK m \in Reached : b \in BatchesOf(m)
    BY <2>1
  <2>3. m \in Models /\ Good(Mine(m), b.requests)
        /\ Range(b.requests) \subseteq Range(queue[m])
    BY <1>3, <2>2, BatchesOfModel
  <2>4. Cardinality(x) \in 1 .. MaxBatch
    BY <2>1, <2>3, SizeOfRange DEF Good
  <2>5. QED
    BY <2>1, <2>3, <2>4 DEF Waits
<1>9. ASSUME NEW x \in new, NEW y \in new, x # y PROVE x \cap y = {}
  <2>1. PICK b \in F, c \in F : x = Range(b.requests) /\ y = Range(c.requests)
    BY <1>8
  <2>2. b # c
    BY <1>9, <2>1
  <2>3. QED
    BY <1>7, <2>1, <2>2
<1>10. UNION new = UNION {Range(queue[m]) : m \in Reached}
  <2>1. ASSUME NEW x \in new, NEW r \in x
        PROVE  \E m \in Reached : r \in Range(queue[m])
    <3>1. PICK b \in F : x = Range(b.requests)
      BY <1>8
    <3>2. PICK m \in Reached : b \in BatchesOf(m)
      BY <3>1
    <3>3. m \in Models /\ Range(b.requests) \subseteq Range(queue[m])
      BY <1>3, <3>2, BatchesOfModel
    <3>4. QED
      BY <3>1, <3>2, <3>3
  <2>2. ASSUME NEW m \in Reached, NEW r \in Range(queue[m])
        PROVE  \E x \in new : r \in x
    <3>1. m \in Models /\ ~ Raises(m)
      BY <1>3
    <3>2. PICK b \in BatchesOf(m) : r \in Range(b.requests)
      BY <3>1, BatchesOfModel
    <3>3. b \in F
      BY <3>2
    <3>4. \A c \in Batches : r \notin Range(c.requests)
      BY <3>1 DEF AggInv, Once
    <3>5. Range(b.requests) \notin Handed
      BY <3>2, <3>4 DEF Handed
    <3>6. QED
      BY <1>5, <3>2, <3>3, <3>5
  <2>3. QED
    BY <2>1, <2>2
<1>11. ASSUME NEW m \in Models, NEW o \in Models, m # o
       PROVE  Range(queue[m]) \cap Range(queue[o]) = {}
  <2>1. queue[m] \in Seq(Mine(m)) /\ queue[o] \in Seq(Mine(o))
    BY DEF AggInv, Queues
  <2>2. Range(queue[m]) \subseteq Mine(m) /\ Range(queue[o]) \subseteq Mine(o)
    BY <2>1 DEF Range
  <2>3. QED
    BY <1>11, <2>2 DEF Mine
<1>12. Waits' = Waits \ UNION new
  <2>1. Waits' = UNION {Range(queue'[m]) : m \in Models}
    BY DEF Waits
  <2>2. ASSUME NEW r, NEW m \in Models, r \in Range(queue'[m])
        PROVE  r \in Waits /\ r \notin UNION new
    <3>1. Range(<<>>) = {}
      BY DEF Range
    <3>2. m \notin Reached /\ r \in Range(queue[m])
      BY <1>2, <2>2, <3>1
    <3>3. QED
      BY <1>3, <1>10, <1>11, <3>2 DEF Waits
  <2>3. ASSUME NEW r, r \in Waits, r \notin UNION new
        PROVE  \E m \in Models : r \in Range(queue'[m])
    <3>1. PICK m \in Models : r \in Range(queue[m])
      BY <2>3 DEF Waits
    <3>2. m \notin Reached
      BY <1>10, <2>3, <3>1
    <3>3. QED
      BY <1>2, <3>1, <3>2
  <2>4. QED
    BY <2>1, <2>2, <2>3
<1>13. Handed \subseteq Handed'
  BY <1>5
<1>14. Pool!Disjoint(new)
  BY <1>9 DEF Pool!Disjoint
<1>15. \A x \in new : x \subseteq Waits /\ Cardinality(x) \in 1 .. MaxBatch
  BY <1>8
<1>16. \A x \in new : Pool!Cardinality(x) \in 1 .. MaxBatch
  <2>1. \A x : Pool!Cardinality(x) = Cardinality(x)
    BY DEF Pool!Cardinality, Cardinality
  <2>2. QED
    BY <1>15, <2>1
<1>17. QED
  BY <1>12, <1>13, <1>14, <1>15, <1>16 DEF Pool!HandOut, Waits, Handed

\* Every step shows the pool an Accept, a HandOut or nothing.
LEMMA StepsRefine ==
    ASSUME AggInv, [Next]_vars PROVE [Pool!Next]_<<Waits, Handed>>
<1>1. CASE \E m \in Models, n \in Lengths : Submit(m, n)
  BY <1>1, SubmitAccepts DEF Pool!Next
<1>2. CASE LoopRound
  BY <1>2, RoundHandsOut DEF Pool!Next
<1>3. CASE Start \/ Stop \/ LoopEnd \/ UNCHANGED vars
  BY <1>3 DEF Start, Stop, LoopEnd, vars, Waits, Handed, Batches
<1>4. CASE \E b \in dispatching : Dispatch(b)
  <2>1. PICK b \in dispatching : Dispatch(b)
    BY <1>4
  <2>2. Batches' = Batches
    BY <2>1, DispatchMoves
  <2>3. UNCHANGED queue
    BY <2>1 DEF Dispatch
  <2>4. QED
    BY <2>2, <2>3 DEF Waits, Handed
<1>5. QED
  BY <1>1, <1>2, <1>3, <1>4 DEF Next

\* The aggregator implements the pool: whatever rounds fail and however
\* many loops run, a request accepted waits until it is handed out, once,
\* in a batch within max_batch_size (submit, _aggregate_once, _dispatch).
THEOREM AggregatorRefines == Spec => ImplementsPool
<1>1. Init => Pool!Init
  <2> SUFFICES ASSUME Init PROVE Pool!Init
    OBVIOUS
  <2>1. Waits = {}
    BY DEF Init, Waits, Range
  <2>2. Handed = {}
    BY DEF Init, Handed, Batches
  <2>3. QED
    BY <2>1, <2>2 DEF Pool!Init, Waits, Handed
<1>2. AggInv /\ [Next]_vars
        => [Pool!Next]_<<UNION {Range(queue[m]) : m \in Models},
                         {Range(b.requests) : b \in Batches}>>
  BY StepsRefine DEF Waits, Handed
<1>3. QED
  BY <1>1, <1>2, AggInvariant, PTL DEF Spec, ImplementsPool, Pool!Spec

=============================================================================
