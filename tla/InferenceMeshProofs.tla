------------------------- MODULE InferenceMeshProofs -------------------------
(***************************************************************************)
(* Theorems of InferenceMesh: its types, that the caches of a conversation *)
(* come to lie only where the routing engine once sent a turn that had     *)
(* missed, and that turns which never overlap keep to one device.          *)
(***************************************************************************)
EXTENDS InferenceMesh, FiniteSetTheorems, SequenceTheorems, WellFoundedInduction, TLAPS

-----------------------------------------------------------------------------
(* The strings that lookup_sequence_gpu compares, as in the cache.         *)

KVP == INSTANCE KVCacheManagerProofs WITH
        Capacities <- {0}, ExtendSizes <- {}, MaxEntry <- 0, MaxUneven <- 0,
        extended <- {}, uneven <- {}

Prefix(m, s)     == m \o <<":">> \o s \o <<":">>
StartsWith(k, p) == Len(k) >= Len(p) /\ SubSeq(k, 1, Len(p)) = p

\* Every key starts with the prefix of its sequence.
LEMMA KeyStartsWithPrefix ==
    ASSUME NEW A, ":" \in A, NEW m \in Seq(A), NEW s \in Seq(A), NEW l \in A
    PROVE  StartsWith(CacheKey(m, s, l), Prefix(m, s))
<1>1. KVP!StartsWith(KVP!CacheKey(m, s, l), KVP!Prefix(m, s))
  BY KVP!KeyStartsWithPrefix, CapacityAssumption, MeshAssumption
<1>2. QED
  BY <1>1 DEF StartsWith, CacheKey, Prefix, KVP!StartsWith, KVP!CacheKey, KVP!Prefix

\* No key of a sequence starts with the prefix of another one.
LEMMA OnlyItsOwnPrefix ==
    ASSUME NEW Plain, ":" \notin Plain,
           NEW m \in Seq(Plain), NEW s \in Seq(Plain),
           NEW n \in Seq(Plain), NEW t \in Seq(Plain), NEW l,
           StartsWith(CacheKey(m, s, l), Prefix(n, t))
    PROVE  m = n /\ s = t
<1>1. KVP!StartsWith(KVP!CacheKey(m, s, l), KVP!Prefix(n, t))
  BY DEF StartsWith, CacheKey, Prefix, KVP!StartsWith, KVP!CacheKey, KVP!Prefix
<1>2. QED
  BY <1>1, KVP!OnlyItsOwnPrefix, CapacityAssumption, MeshAssumption

-----------------------------------------------------------------------------
(* What a step may do to the pools.                                        *)

\* The pools of all devices, with entries under their own keys.
Pools ==
    /\ cached = [g \in GPUs |-> cached[g]]
    /\ \A g \in GPUs : cached[g] = [k \in DOMAIN cached[g] |-> cached[g][k]]

Names(e) == <<e.model, e.seq, e.layer>>

Named ==
    \A g \in GPUs : \A k \in DOMAIN cached[g] :
        LET e == cached[g][k]
        IN  /\ e \in Entries
            /\ k = CacheKey(e.model, e.seq, e.layer)

\* The entry of k in pool g is an old one.
Kept(g, k) ==
    /\ k \in DOMAIN cached[g]
    /\ cached[g][k] \in Entries =>
            cached'[g][k] \in Entries /\ Names(cached'[g][k]) = Names(cached[g][k])

\* Entries may go, and lapse, but none is new.
Keeps == \A g \in GPUs : \A k \in DOMAIN cached'[g] : Kept(g, k)

LEMMA NamesAreFields ==
    \A d, e : Names(d) = Names(e) => d.model = e.model /\ d.seq = e.seq /\ d.layer = e.layer
  BY DEF Names

LEMMA InsertKeeps ==
    ASSUME Pools, NEW g \in GPUs, NEW k, NEW e, NEW K, NEW f, Insert(g, k, e, K, f)
    PROVE  /\ Pools'
           /\ \A h \in GPUs : \A x \in DOMAIN cached'[h] :
                Kept(h, x) \/ (h = g /\ x = k /\ cached'[h][x] = e)
<1>1. cached' = [cached EXCEPT ![g] = With(cached[g], DOMAIN cached[g] \ K, k, e)]
  BY DEF Insert
<1>2. cached'[g] = [x \in (DOMAIN cached[g] \ K) \cup {k} |-> IF x = k THEN e ELSE cached[g][x]]
  BY <1>1 DEF Pools, With
<1>3. \A h \in GPUs : h # g => cached'[h] = cached[h]
  BY <1>1 DEF Pools
<1>4. Pools'
  <2>1. cached' = [h \in GPUs |-> cached'[h]]
    BY <1>1 DEF Pools
  <2>2. ASSUME NEW h \in GPUs PROVE cached'[h] = [x \in DOMAIN cached'[h] |-> cached'[h][x]]
    BY <1>2, <1>3 DEF Pools
  <2>3. QED
    BY <2>1, <2>2 DEF Pools
<1>5. ASSUME NEW x \in DOMAIN cached'[g] PROVE Kept(g, x) \/ (x = k /\ cached'[g][x] = e)
  BY <1>2 DEF Kept
<1>6. QED
  BY <1>3, <1>4, <1>5 DEF Kept

\* Entries are taken out of pools.
LEMMA WithoutKeeps ==
    ASSUME Pools, NEW gone, cached' = [g \in GPUs |-> Without(cached[g], gone[g])]
    PROVE  Pools' /\ Keeps
  BY DEF Pools, Keeps, Kept, Without, Restrict

LEMMA RefusalKeeps ==
    ASSUME Pools, NEW g \in GPUs, NEW K,
           cached' = [cached EXCEPT ![g] = Without(cached[g], K)]
    PROVE  Pools' /\ Keeps
<1>1. cached'[g] = [x \in (DOMAIN cached[g] \ K) |-> cached[g][x]]
  BY DEF Pools, Without, Restrict
<1>2. \A h \in GPUs : h # g => cached'[h] = cached[h]
  BY DEF Pools
<1>3. cached' = [h \in GPUs |-> cached'[h]]
  BY DEF Pools
<1>4. ASSUME NEW h \in GPUs
      PROVE  /\ cached'[h] = [x \in DOMAIN cached'[h] |-> cached'[h][x]]
             /\ \A k \in DOMAIN cached'[h] : Kept(h, k)
  BY <1>1, <1>2 DEF Pools, Kept
<1>5. QED
  BY <1>3, <1>4 DEF Pools, Keeps

\* put adds its own entry at most.
LEMMA PutKeeps ==
    ASSUME Pools, NEW g \in GPUs, NEW k, NEW e, Put(g, k, e)
    PROVE  /\ Pools'
           /\ \A h \in GPUs : \A x \in DOMAIN cached'[h] :
                Kept(h, x) \/ (h = g /\ x = k /\ cached'[h][x] = e)
<1>1. CASE PutFits(g, k, e)
  BY <1>1, InsertKeeps DEF PutFits
<1>2. CASE PutEvicts(g, k, e)
  <2>1. PICK i : Insert(g, k, e, Oldest(g, i), Freed(g, i))
    BY <1>2 DEF PutEvicts
  <2>2. QED
    BY <2>1, InsertKeeps
<1>3. CASE PutRefused(g, e)
  <2>1. PICK i : cached' = [cached EXCEPT ![g] = Without(cached[g], Oldest(g, i))]
    BY <1>3 DEF PutRefused
  <2>2. Pools' /\ Keeps
    BY <2>1, RefusalKeeps
  <2>3. QED
    BY <2>2 DEF Keeps
<1>4. QED
  BY <1>1, <1>2, <1>3 DEF Put

LEMMA LapseKeeps ==
    ASSUME Pools, NEW g \in GPUs, NEW k, Lapse(g, k) PROVE Pools' /\ Keeps
<1>1. k \in DOMAIN cached[g] /\ cached' = [cached EXCEPT ![g] = [cached[g] EXCEPT ![k] = [cached[g][k] EXCEPT !.expired = TRUE]]]
  BY DEF Lapse
<1>2. cached'[g] = [cached[g] EXCEPT ![k] = [cached[g][k] EXCEPT !.expired = TRUE]]
  BY <1>1 DEF Pools
<1>3. \A h \in GPUs : h # g => cached'[h] = cached[h]
  BY <1>1 DEF Pools
<1>4. cached' = [h \in GPUs |-> cached'[h]]
  BY <1>1 DEF Pools
<1>5. DOMAIN cached'[g] = DOMAIN cached[g]
      /\ cached'[g] = [x \in DOMAIN cached[g] |->
                          IF x = k THEN [cached[g][k] EXCEPT !.expired = TRUE] ELSE cached[g][x]]
  BY <1>2 DEF Pools
<1>6. cached[g][k] \in Entries =>
        /\ [cached[g][k] EXCEPT !.expired = TRUE] \in Entries
        /\ Names([cached[g][k] EXCEPT !.expired = TRUE]) = Names(cached[g][k])
  BY DEF Names, Entries
<1>7. ASSUME NEW h \in GPUs
      PROVE  /\ cached'[h] = [x \in DOMAIN cached'[h] |-> cached'[h][x]]
             /\ \A x \in DOMAIN cached'[h] : Kept(h, x)
  <2>1. CASE h # g
    BY <1>3, <2>1 DEF Pools, Kept
  <2>2. CASE h = g
    <3>1. cached'[g] = [x \in DOMAIN cached'[g] |-> cached'[g][x]]
      BY <1>5
    <3>2. ASSUME NEW x \in DOMAIN cached'[g] PROVE Kept(g, x)
      BY <1>5, <1>6 DEF Kept
    <3>3. QED
      BY <2>2, <3>1, <3>2
  <2>3. QED
    BY <2>1, <2>2
<1>8. QED
  BY <1>4, <1>7 DEF Pools, Keeps

-----------------------------------------------------------------------------
(* Types.                                                                  *)

Request ==
    [model : Models, seq : SeqIds, streams : BOOLEAN, phase : Phases,
     target : GPUs, hit : BOOLEAN, alone : BOOLEAN]

\* TypeOK, with what it needs to be inductive: a pool with entries belongs to
\* a device that the mesh knows.
Typed ==
    /\ Pools /\ Named
    /\ requests \in Seq(Request)
    /\ devices \in Seq(GPUs)
    /\ \A g \in GPUs : DOMAIN cached[g] # {} => g \in Range(devices)
    /\ restarts \in 0 .. MaxRestarts
    /\ relief \in 0 .. MaxRelief

LEMMA TypedTypes == Typed => TypeOK
<1> SUFFICES ASSUME Typed PROVE TypeOK
  OBVIOUS
<1>1. \A i \in DOMAIN requests : requests[i] \in Request
  BY DEF Typed
<1>2. Range(devices) \subseteq GPUs
  BY DEF Typed, Range
<1>3. ASSUME NEW g \in GPUs, NEW k \in DOMAIN cached[g] PROVE k \in Keys
  BY DEF Typed, Named, Entries, Keys
<1>4. ASSUME NEW g \in GPUs, cached[g] # NoEntries PROVE g \in Range(devices)
  <2>1. DOMAIN cached[g] # {}
    BY <1>4 DEF Typed, Pools, NoEntries
  <2>2. QED
    BY <2>1 DEF Typed
<1>5. QED
  BY <1>1, <1>2, <1>3, <1>4 DEF Typed, TypeOK, Request

LEMMA InitTyped == Init => Typed
<1> SUFFICES ASSUME Init PROVE Typed
  OBVIOUS
<1>1. cached = [g \in GPUs |-> NoEntries]
  BY DEF Init, PoolInit
<1>2. Pools /\ Named /\ \A g \in GPUs : DOMAIN cached[g] = {}
  BY <1>1 DEF Pools, Named, NoEntries
<1>3. devices \in Seq(GPUs)
  <2>1. devices = [i \in 1 .. NumGpus |-> i - 1] /\ NumGpus \in Nat
    BY MeshAssumption DEF Init
  <2>2. \A i \in 1 .. NumGpus : i - 1 \in GPUs
    BY MeshAssumption
  <2>3. QED
    BY <2>1, <2>2
<1>4. requests \in Seq(Request) /\ restarts \in 0 .. MaxRestarts /\ relief \in 0 .. MaxRelief
  BY MeshAssumption DEF Init
<1>5. QED
  BY <1>2, <1>3, <1>4 DEF Typed

\* What steps that keep the entries leave to show.
LEMMA KeepsTyped ==
    ASSUME Typed, Pools', Keeps,
           requests' \in Seq(Request), devices' = devices,
           restarts' \in 0 .. MaxRestarts, relief' \in 0 .. MaxRelief
    PROVE  Typed'
<1>1. Named'
  BY NamesAreFields DEF Typed, Keeps, Kept, Named
<1>2. \A g \in GPUs : DOMAIN cached'[g] # {} => DOMAIN cached[g] # {}
  BY DEF Keeps, Kept
<1>3. QED
  BY <1>1, <1>2 DEF Typed

LEMMA SameCache == Pools /\ cached' = cached => Pools' /\ Keeps
  BY DEF Pools, Keeps, Kept

\* lookup_sequence_gpu as the mesh sees it: a device whose pool has a key with
\* the prefix.
LEMMA LookupFinds ==
    ASSUME NEW m, NEW s, NEW g \in KV!LookupSequenceGpu(m, s)
    PROVE  g \in Range(devices) /\ \E k \in DOMAIN cached[g] : StartsWith(k, Prefix(m, s))
  BY DEF KV!LookupSequenceGpu, KV!FirstDevice, StartsWith, Prefix, Range

LEMMA BeginTyped ==
    ASSUME Typed, NEW m \in Models, NEW s \in SeqIds, NEW streams \in BOOLEAN,
           Begin(m, s, streams)
    PROVE  Typed'
<1> DEFINE kv == IF KvSharing \/ streams THEN KV!LookupSequenceGpu(m, s) ELSE {}
<1>1. PICK g \in Route(kv) :
        requests' = Append(requests,
            [model |-> m, seq |-> s, streams |-> streams, phase |-> "nim",
             target |-> g, hit |-> kv # {}, alone |-> Alone(m, s)])
  BY DEF Begin
<1>2. kv \subseteq GPUs
  BY LookupFinds DEF Typed, Range
<1>3. g \in GPUs
  BY <1>2, MeshAssumption DEF Route
<1>4. Alone(m, s) \in BOOLEAN /\ (kv # {}) \in BOOLEAN
  BY DEF Alone
<1> HIDE DEF kv
<1>5. requests' \in Seq(Request)
  BY <1>1, <1>3, <1>4 DEF Typed, Request, Phases
<1>6. UNCHANGED <<cached, devices, restarts, relief>>
  BY DEF Begin, cacheVars
<1>7. QED
  BY <1>5, <1>6, KeepsTyped, SameCache DEF Typed

LEMMA PhaseTyped ==
    ASSUME requests \in Seq(Request), NEW i \in DOMAIN requests, NEW p \in Phases,
           requests' = [requests EXCEPT ![i].phase = p]
    PROVE  requests' \in Seq(Request)
<1>1. \A r \in Request : [r EXCEPT !.phase = p] \in Request
  BY DEF Request
<1>2. i \in 1 .. Len(requests)
  OBVIOUS
<1>3. requests[i] \in Request
  BY <1>2, ElementOfSeq
<1>4. requests' = [requests EXCEPT ![i] = [requests[i] EXCEPT !.phase = p]]
  OBVIOUS
<1>5. QED
  BY <1>1, <1>2, <1>3, <1>4, ExceptSeq

\* The pools of the manager are those of the mesh.
LEMMA SamePut ==
    ASSUME NEW g, NEW k, NEW e, KV!Put(g, k, e) PROVE Put(g, k, e)
<1>1. \A c, K : KV!Restrict(c, K) = Restrict(c, K)
  BY DEF KV!Restrict, Restrict
<1>2. \A c, K : KV!Without(c, K) = Without(c, K)
  BY <1>1 DEF KV!Without, Without
<1>3. \A c : KV!Bytes(c) = Bytes(c)
  BY DEF KV!Bytes, Bytes, KV!Occupied, Occupied, KV!Cardinality, Cardinality
<1>4. \A i : KV!Oldest(g, i) = Oldest(g, i)
  BY DEF KV!Oldest, Oldest
<1>5. \A i : KV!Freed(g, i) = Freed(g, i)
  BY <1>1, <1>3, <1>4 DEF KV!Freed, Freed
<1>6. \A n, i : KV!EvictionStopsAt(g, n, i) <=> EvictionStopsAt(g, n, i)
  BY <1>5 DEF KV!EvictionStopsAt, EvictionStopsAt
<1>7. \A n : KV!Fits(g, n) <=> Fits(g, n)
  BY DEF KV!Fits, Fits
<1>8. \A s, K : KV!Drop(s, K) = Drop(s, K)
  BY DEF KV!Drop, Drop
<1>9. \A K, f : KV!Insert(g, k, e, K, f) <=> Insert(g, k, e, K, f)
  BY <1>8 DEF KV!Insert, Insert, KV!With, With
<1>10. KV!PutFits(g, k, e) => PutFits(g, k, e)
  BY <1>7, <1>9 DEF KV!PutFits, PutFits
<1>11. KV!PutEvicts(g, k, e) => PutEvicts(g, k, e)
  BY <1>4, <1>5, <1>6, <1>7, <1>9 DEF KV!PutEvicts, PutEvicts
<1>12. KV!PutRefused(g, e) => PutRefused(g, e)
  BY <1>2, <1>4, <1>5, <1>6, <1>7, <1>8 DEF KV!PutRefused, PutRefused
<1>13. QED
  BY <1>10, <1>11, <1>12 DEF KV!Put, Put

\* The store of a turn adds an entry of its conversation, where the turn was
\* routed to, and nothing else.
LEMMA StoreAdds ==
    ASSUME Typed, NEW i \in DOMAIN requests, Store(i)
    PROVE  LET r == requests[i]
           IN  /\ Pools'
               /\ \A h \in GPUs : \A x \in DOMAIN cached'[h] :
                    \/ Kept(h, x)
                    \/ /\ h = r.target /\ x = CacheKey(r.model, r.seq, "0")
                       /\ cached'[h][x] \in Entries
                       /\ Names(cached'[h][x]) = <<r.model, r.seq, "0">>
               /\ devices' = IF r.target \in Range(devices) THEN devices
                             ELSE Append(devices, r.target)
<1> DEFINE r == requests[i]
           k == CacheKey(r.model, r.seq, "0")
<1>1. r \in Request
  BY DEF Typed
<1>2. PICK n \in EntrySizes : KV!StoreKV(r.model, r.seq, "0", n, r.target)
  BY DEF Store
<1> DEFINE e == NewEntry(r.model, r.seq, "0", n)
<1>3. Put(r.target, k, e)
  <2>1. KV!Put(r.target, KV!CacheKey(r.model, r.seq, "0"), KV!NewEntry(r.model, r.seq, "0", n))
    BY <1>2 DEF KV!StoreKV
  <2>2. KV!CacheKey(r.model, r.seq, "0") = k /\ KV!NewEntry(r.model, r.seq, "0", n) = e
    BY DEF KV!CacheKey, CacheKey, KV!NewEntry, NewEntry
  <2>3. QED
    BY <2>1, <2>2, SamePut
<1>4. devices' = IF r.target \in Range(devices) THEN devices ELSE Append(devices, r.target)
  BY <1>2 DEF KV!StoreKV, KV!Known, KV!Range, Range
<1>5. e \in Entries /\ Names(e) = <<r.model, r.seq, "0">>
  BY <1>1, MeshAssumption DEF NewEntry, Entries, Request, Names
<1> HIDE DEF e, k
<1>6. /\ Pools'
      /\ \A h \in GPUs : \A x \in DOMAIN cached'[h] :
            Kept(h, x) \/ (h = r.target /\ x = k /\ cached'[h][x] = e)
  BY <1>1, <1>3, PutKeeps DEF Typed, Request
<1>7. QED
  BY <1>4, <1>5, <1>6 DEF k

LEMMA StoreTyped ==
    ASSUME Typed, NEW i \in DOMAIN requests, Store(i) PROVE Typed'
<1> DEFINE r == requests[i]
           k == CacheKey(r.model, r.seq, "0")
<1>1. r \in Request
  BY DEF Typed
<1>2. /\ Pools'
      /\ \A h \in GPUs : \A x \in DOMAIN cached'[h] :
            Kept(h, x) \/ (h = r.target /\ x = k /\ cached'[h][x] \in Entries
                           /\ Names(cached'[h][x]) = <<r.model, r.seq, "0">>)
      /\ devices' = IF r.target \in Range(devices) THEN devices ELSE Append(devices, r.target)
  BY StoreAdds
<1> HIDE DEF k
<1>3. Named'
  <2> SUFFICES ASSUME NEW g \in GPUs, NEW x \in DOMAIN cached'[g]
               PROVE  /\ cached'[g][x] \in Entries
                      /\ x = CacheKey(cached'[g][x].model, cached'[g][x].seq, cached'[g][x].layer)
    BY DEF Named
  <2>1. CASE Kept(g, x)
    BY <2>1, NamesAreFields DEF Kept, Typed, Named
  <2>2. CASE x = k /\ cached'[g][x] \in Entries /\ Names(cached'[g][x]) = <<r.model, r.seq, "0">>
    <3>1. cached'[g][x].model = r.model /\ cached'[g][x].seq = r.seq /\ cached'[g][x].layer = "0"
      BY <2>2 DEF Names
    <3>2. QED
      BY <2>2, <3>1 DEF k
  <2>3. QED
    BY <1>2, <2>1, <2>2
<1>4. devices' \in Seq(GPUs) /\ r.target \in Range(devices')
      /\ Range(devices) \subseteq Range(devices')
  <2>1. devices \in Seq(GPUs) /\ r.target \in GPUs
    BY <1>1 DEF Typed, Request
  <2>2. CASE r.target \in Range(devices)
    BY <1>2, <2>1, <2>2
  <2>3. CASE devices' = Append(devices, r.target)
    BY <2>1, <2>3, AppendProperties DEF Range
  <2>4. QED
    BY <1>2, <2>2, <2>3
<1>5. requests' \in Seq(Request)
  BY PhaseTyped DEF Store, Typed, Phases
<1>6. \A g \in GPUs : DOMAIN cached'[g] # {} => g \in Range(devices')
  BY <1>2, <1>4 DEF Typed, Kept
<1>7. UNCHANGED <<restarts, relief>>
  BY DEF Store
<1>8. QED
  BY <1>2, <1>3, <1>4, <1>5, <1>6, <1>7 DEF Typed

LEMMA RestartKeeps == ASSUME Pools, Restart PROVE Pools' /\ Keeps
<1>1. cached' = [g \in GPUs |-> IF g \in StartedGpus THEN NoEntries ELSE cached[g]]
  BY DEF Restart
<1>2. ASSUME NEW g \in GPUs
      PROVE  /\ cached'[g] = [k \in DOMAIN cached'[g] |-> cached'[g][k]]
             /\ \A k \in DOMAIN cached'[g] : Kept(g, k)
  <2>1. CASE g \in StartedGpus
    BY <1>1, <2>1 DEF NoEntries
  <2>2. CASE g \notin StartedGpus
    BY <1>1, <2>2 DEF Pools, Kept
  <2>3. QED
    BY <2>1, <2>2
<1>3. QED
  BY <1>1, <1>2 DEF Pools, Keeps

LEMMA RelieveKeeps == ASSUME Pools, Relieve PROVE Pools' /\ Keeps /\ devices' = devices
<1> DEFINE gone == [g \in GPUs |->
              {k \in DOMAIN cached[g] : KV!Known(g) /\ cached[g][k].seq = <<"__oldest__">>}]
<1>1. KV!RemoveAll(gone) /\ devices' = devices
  BY DEF Relieve, KV!EvictSequence, KV!managerVars
<1> HIDE DEF gone
<1>2. cached' = [g \in GPUs |-> Without(cached[g], gone[g])]
  BY <1>1 DEF KV!RemoveAll, KV!Without, Without, KV!Restrict, Restrict
<1>3. QED
  BY <1>1, <1>2, WithoutKeeps

\* A step of the mesh other than a store keeps the entries.
StepsBesideStore ==
    \/ \E m \in Models, s \in SeqIds, streams \in BOOLEAN : Begin(m, s, streams)
    \/ \E i \in DOMAIN requests : Respond(i)
    \/ Restart
    \/ VramLow
    \/ Relieve
    \/ Time
    \/ UNCHANGED vars

LEMMA BesideStoreKeeps == Pools /\ StepsBesideStore => Pools' /\ Keeps
<1> SUFFICES ASSUME Pools, StepsBesideStore PROVE Pools' /\ Keeps
  OBVIOUS
<1>1. CASE Restart
  BY <1>1, RestartKeeps
<1>2. CASE Relieve
  BY <1>2, RelieveKeeps
<1>3. CASE Time
  BY <1>3, LapseKeeps DEF Time
<1>4. CASE cached' = cached
  BY <1>4, SameCache
<1>5. QED
  BY <1>1, <1>2, <1>3, <1>4 DEF StepsBesideStore, Begin, Respond, VramLow, cacheVars, vars

LEMMA NextTyped == Typed /\ [Next]_vars => Typed'
<1> SUFFICES ASSUME Typed, [Next]_vars PROVE Typed'
  OBVIOUS
<1>1. ASSUME NEW m \in Models, NEW s \in SeqIds, NEW streams \in BOOLEAN, Begin(m, s, streams)
      PROVE  Typed'
  BY <1>1, BeginTyped
<1>2. ASSUME NEW i \in DOMAIN requests, Store(i) PROVE Typed'
  BY <1>2, StoreTyped
<1>3. ASSUME NEW i \in DOMAIN requests, Respond(i) PROVE Typed'
  <2>1. requests' \in Seq(Request)
    BY <1>3, PhaseTyped DEF Respond, Typed, Phases
  <2>2. UNCHANGED <<cached, devices, restarts, relief>>
    BY <1>3 DEF Respond, cacheVars
  <2>3. QED
    BY <2>1, <2>2, KeepsTyped, SameCache DEF Typed
<1>4. CASE Restart
  <2>1. UNCHANGED <<devices, requests, relief>> /\ restarts < MaxRestarts /\ restarts' = restarts + 1
    BY <1>4 DEF Restart
  <2>2. restarts' \in 0 .. MaxRestarts
    BY <2>1, MeshAssumption DEF Typed
  <2>3. QED
    BY <1>4, <2>1, <2>2, RestartKeeps, KeepsTyped DEF Typed
<1>5. CASE VramLow
  <2>1. relief + NumGpus * (1 + restarts) <= MaxRelief /\ relief' = relief + NumGpus * (1 + restarts)
        /\ UNCHANGED <<cached, devices, requests, restarts>>
    BY <1>5 DEF VramLow, cacheVars
  <2>2. relief \in Nat /\ NumGpus * (1 + restarts) \in Nat
    <3>1. NumGpus \in Nat /\ 1 + restarts \in Nat /\ relief \in Nat
      BY MeshAssumption DEF Typed
    <3>2. \A a, b \in Nat : a * b \in Nat
      OBVIOUS
    <3>3. QED
      BY <3>1, <3>2
  <2>3. relief' \in 0 .. MaxRelief
    BY <2>1, <2>2, MeshAssumption
  <2>4. QED
    BY <2>1, <2>3, KeepsTyped, SameCache DEF Typed
<1>6. CASE Relieve
  <2>1. relief > 0 /\ relief' = relief - 1 /\ UNCHANGED <<requests, restarts>>
    BY <1>6 DEF Relieve
  <2>2. relief' \in 0 .. MaxRelief
    BY <2>1, MeshAssumption DEF Typed
  <2>3. QED
    BY <1>6, <2>1, <2>2, RelieveKeeps, KeepsTyped DEF Typed
<1>7. CASE Time
  <2>1. PICK g \in GPUs, k \in Keys : Lapse(g, k)
    BY <1>7 DEF Time
  <2>2. UNCHANGED <<devices, requests, restarts, relief>>
    BY <1>7 DEF Time
  <2>3. QED
    BY <2>1, <2>2, LapseKeeps, KeepsTyped DEF Typed
<1>8. CASE UNCHANGED vars
  BY <1>8, KeepsTyped, SameCache DEF Typed, vars, cacheVars
<1>9. QED
  BY <1>1, <1>2, <1>3, <1>4, <1>5, <1>6, <1>7, <1>8 DEF Next

\* Requests are routed to devices of the mesh, pools with entries are those of
\* devices it knows, and their keys those of its conversations.
THEOREM MeshTypeCorrect == Spec => []TypeOK
<1>1. QED
  BY InitTyped, NextTyped, TypedTypes, PTL DEF Spec

-----------------------------------------------------------------------------
(* Homes.                                                                  *)

\* A turn that has found a cache goes where one that had missed was stored.
HitsGoToChosen ==
    \A i \in DOMAIN requests :
        requests[i].hit => requests[i].target \in Chosen(requests[i].model, requests[i].seq)

HomesInv == HitsGoToChosen /\ HomesComeFromMisses

LEMMA HomesShrink == Keeps /\ Named => \A m, s : Homes(m, s)' \subseteq Homes(m, s)
  BY NamesAreFields DEF Keeps, Kept, Named, Homes, Same

\* What has been chosen stays so.
LEMMA ChosenStays ==
    ASSUME requests \in Seq(Request), NEW i \in DOMAIN requests, NEW p \in Phases,
           requests[i].phase # "stored", requests' = [requests EXCEPT ![i].phase = p]
    PROVE  \A m, s : Chosen(m, s) \subseteq Chosen(m, s)'
<1>1. DOMAIN requests' = DOMAIN requests /\ \A j \in DOMAIN requests : j # i => requests'[j] = requests[j]
  BY DEF Request
<1>2. QED
  BY <1>1 DEF Chosen, Same

\* A phase is all that changes, of one request.
LEMMA HitsStay ==
    ASSUME HitsGoToChosen, requests \in Seq(Request), NEW i \in DOMAIN requests, NEW p \in Phases,
           requests[i].phase # "stored", requests' = [requests EXCEPT ![i].phase = p]
    PROVE  HitsGoToChosen'
<1>1. \A j \in DOMAIN requests :
        /\ requests'[j].hit = requests[j].hit /\ requests'[j].target = requests[j].target
        /\ requests'[j].model = requests[j].model /\ requests'[j].seq = requests[j].seq
  <2>1. \A r \in Request : LET q == [r EXCEPT !.phase = p]
                           IN  q.hit = r.hit /\ q.target = r.target /\ q.model = r.model /\ q.seq = r.seq
    BY DEF Request
  <2>2. requests[i] \in Request
    BY ElementOfSeq
  <2>3. requests' = [requests EXCEPT ![i] = [requests[i] EXCEPT !.phase = p]]
    OBVIOUS
  <2>4. ASSUME NEW j \in DOMAIN requests
        PROVE  requests'[j] = IF j = i THEN [requests[i] EXCEPT !.phase = p] ELSE requests[j]
    BY <2>3
  <2>5. QED
    BY <2>1, <2>2, <2>4
<1>2. DOMAIN requests' = DOMAIN requests
  OBVIOUS
<1>3. QED
  BY <1>1, <1>2, ChosenStays DEF HitsGoToChosen

\* A turn that finds a cache finds one of its own conversation, whatever other
\* names its name is a prefix of.
LEMMA LookupFindsHome ==
    ASSUME NEW Plain, ":" \notin Plain,
           Models \subseteq Seq(Plain), SeqIds \subseteq Seq(Plain), Typed,
           NEW m \in Models, NEW s \in SeqIds, NEW g \in KV!LookupSequenceGpu(m, s)
    PROVE  g \in Homes(m, s)
<1>1. g \in GPUs
  BY LookupFinds DEF Typed, Range
<1>2. PICK k \in DOMAIN cached[g] : StartsWith(k, Prefix(m, s))
  BY LookupFinds
<1>3. PICK e \in Entries : e = cached[g][k] /\ k = CacheKey(e.model, e.seq, e.layer)
  BY <1>1, <1>2 DEF Typed, Named
<1>4. e.model \in Seq(Plain) /\ e.seq \in Seq(Plain) /\ m \in Seq(Plain) /\ s \in Seq(Plain)
  BY DEF Entries
<1>5. e.model = m /\ e.seq = s
  <2> PICK a, b, l : a = e.model /\ b = e.seq /\ l = e.layer
    OBVIOUS
  <2>1. StartsWith(CacheKey(a, b, l), Prefix(m, s))
    BY <1>2, <1>3
  <2>2. a \in Seq(Plain) /\ b \in Seq(Plain)
    BY <1>4
  <2>3. a = m /\ b = s
    BY <1>4, <2>1, <2>2, OnlyItsOwnPrefix
  <2>4. QED
    BY <2>3
<1>6. QED
  BY <1>1, <1>3, <1>5 DEF Homes, Same

LEMMA BeginHomes ==
    ASSUME NEW Plain, ":" \notin Plain,
           Models \subseteq Seq(Plain), SeqIds \subseteq Seq(Plain), Typed, HomesInv,
           NEW m \in Models, NEW s \in SeqIds, NEW streams \in BOOLEAN, Begin(m, s, streams)
    PROVE  HomesInv'
<1> DEFINE kv == IF KvSharing \/ streams THEN KV!LookupSequenceGpu(m, s) ELSE {}
<1>1. PICK g \in Route(kv) :
        requests' = Append(requests,
            [model |-> m, seq |-> s, streams |-> streams, phase |-> "nim",
             target |-> g, hit |-> kv # {}, alone |-> Alone(m, s)])
  BY DEF Begin
<1>2. kv # {} => g \in Homes(m, s)
  BY LookupFindsHome DEF Route
<1> HIDE DEF kv
<1>3. requests \in Seq(Request)
  BY DEF Typed
<1>4. /\ DOMAIN requests = 1 .. Len(requests) /\ DOMAIN requests' = 1 .. (Len(requests) + 1)
      /\ Len(requests) \in Nat
      /\ \A j \in DOMAIN requests : requests'[j] = requests[j]
      /\ LET q == requests'[Len(requests) + 1]
         IN  q.model = m /\ q.seq = s /\ q.target = g /\ q.hit = (kv # {})
  BY <1>1, <1>3
<1>5. \A n, t : Chosen(n, t) \subseteq Chosen(n, t)'
  BY <1>4 DEF Chosen, Same
<1>6. \A n, t : Homes(n, t)' = Homes(n, t)
  BY DEF Begin, cacheVars, Homes, Same
<1>7. ASSUME NEW j \in DOMAIN requests', requests'[j].hit,
             NEW n, n = requests'[j].model, NEW t, t = requests'[j].seq
      PROVE  requests'[j].target \in Chosen(n, t)'
  <2>1. CASE j \in DOMAIN requests
    <3>1. requests[j].hit /\ requests[j].model = n /\ requests[j].seq = t
          /\ requests'[j].target = requests[j].target
      BY <1>4, <1>7, <2>1
    <3>2. requests[j].target \in Chosen(n, t)
      BY <2>1, <3>1 DEF HomesInv, HitsGoToChosen
    <3>3. QED
      BY <1>5, <3>1, <3>2
  <2>2. CASE j = Len(requests) + 1
    <3>1. kv # {} /\ n = m /\ t = s /\ requests'[j].target = g
      BY <1>4, <1>7, <2>2
    <3>2. g \in Chosen(m, s)
      BY <1>2, <3>1 DEF HomesInv, HomesComeFromMisses
    <3>3. QED
      BY <1>5, <3>1, <3>2
  <2>3. QED
    BY <1>4, <2>1, <2>2
<1>8. HitsGoToChosen'
  BY <1>7 DEF HitsGoToChosen
<1>9. HomesComeFromMisses'
  BY <1>5, <1>6 DEF HomesInv, HomesComeFromMisses
<1>10. QED
  BY <1>8, <1>9 DEF HomesInv

LEMMA StoreHomes ==
    ASSUME Typed, HomesInv, NEW i \in DOMAIN requests, Store(i) PROVE HomesInv'
<1> DEFINE r == requests[i]
<1>1. r.phase = "storing" /\ requests' = [requests EXCEPT ![i].phase = "stored"]
      /\ "stored" \in Phases /\ requests \in Seq(Request) /\ r \in Request
  BY DEF Store, Phases, Typed
<1>2. HitsGoToChosen'
  BY <1>1, HitsStay DEF HomesInv
<1>3. \A m, s : Chosen(m, s) \subseteq Chosen(m, s)'
  BY <1>1, ChosenStays
<1>4. ASSUME NEW m, m = r.model, NEW s, s = r.seq, NEW g, g = r.target
      PROVE  g \in Chosen(m, s)'
  <2>1. CASE r.hit
    BY <1>3, <1>4, <2>1 DEF HomesInv, HitsGoToChosen
  <2>2. CASE ~ r.hit
    <3>1. i \in DOMAIN requests' /\ requests'[i] = [r EXCEPT !.phase = "stored"]
      BY <1>1
    <3>2. requests'[i].target = g /\ requests'[i].model = m /\ requests'[i].seq = s
          /\ ~ requests'[i].hit /\ requests'[i].phase = "stored"
      BY <1>1, <1>4, <2>2, <3>1 DEF Request
    <3>3. QED
      BY <3>1, <3>2 DEF Chosen, Same
  <2>3. QED
    BY <2>1, <2>2
<1>5. ASSUME NEW m \in Models, NEW s \in SeqIds, NEW g \in Homes(m, s)'
      PROVE  g \in Chosen(m, s)'
  <2>1. PICK k \in DOMAIN cached'[g] : cached'[g][k].model = m /\ cached'[g][k].seq = s
    BY <1>5 DEF Homes, Same
  <2>2. g \in GPUs
    BY <1>5 DEF Homes
  <2>3. CASE Kept(g, k)
    <3>1. k \in DOMAIN cached[g] /\ cached[g][k].model = m /\ cached[g][k].seq = s
      BY <2>1, <2>2, <2>3, NamesAreFields DEF Kept, Typed, Named
    <3>2. g \in Homes(m, s)
      BY <2>2, <3>1 DEF Homes, Same
    <3>3. QED
      BY <1>3, <3>2 DEF HomesInv, HomesComeFromMisses
  <2>4. CASE g = r.target /\ Names(cached'[g][k]) = <<r.model, r.seq, "0">>
    <3>1. m = r.model /\ s = r.seq
      BY <2>1, <2>4 DEF Names
    <3>2. QED
      BY <1>4, <2>4, <3>1
  <2>5. QED
    BY <2>1, <2>2, <2>3, <2>4, StoreAdds
<1>6. QED
  BY <1>2, <1>5 DEF HomesInv, HomesComeFromMisses

\* Steps that add neither entries nor requests.
LEMMA KeepsHomes ==
    ASSUME Typed, HomesInv, Keeps, HitsGoToChosen',
           \A m, s : Chosen(m, s) \subseteq Chosen(m, s)'
    PROVE  HomesInv'
<1>1. \A m, s : Homes(m, s)' \subseteq Homes(m, s)
  BY HomesShrink DEF Typed
<1>2. QED
  BY <1>1 DEF HomesInv, HomesComeFromMisses

LEMMA NextHomes ==
    ASSUME NEW Plain, ":" \notin Plain, Models \subseteq Seq(Plain), SeqIds \subseteq Seq(Plain)
    PROVE  Typed /\ HomesInv /\ [Next]_vars => HomesInv'
<1> SUFFICES ASSUME Typed, HomesInv, [Next]_vars PROVE HomesInv'
  OBVIOUS
<1>1. ASSUME NEW m \in Models, NEW s \in SeqIds, NEW streams \in BOOLEAN, Begin(m, s, streams)
      PROVE  HomesInv'
  BY <1>1, BeginHomes
<1>2. ASSUME NEW i \in DOMAIN requests, Store(i) PROVE HomesInv'
  BY <1>2, StoreHomes
<1>3. ASSUME NEW i \in DOMAIN requests, Respond(i) PROVE HomesInv'
  <2>1. PICK p \in Phases : requests' = [requests EXCEPT ![i].phase = p]
    BY <1>3 DEF Respond, Phases
  <2>2. requests[i].phase # "stored" /\ requests \in Seq(Request) /\ cached' = cached
    BY <1>3 DEF Respond, Typed, cacheVars
  <2>3. HitsGoToChosen' /\ \A m, s : Chosen(m, s) \subseteq Chosen(m, s)'
    BY <2>1, <2>2, HitsStay, ChosenStays DEF HomesInv
  <2>4. QED
    BY <2>2, <2>3, KeepsHomes, SameCache DEF Typed
<1>4. CASE Restart \/ VramLow \/ Relieve \/ Time \/ UNCHANGED vars
  <2>1. requests' = requests
    BY <1>4 DEF Restart, VramLow, Relieve, Time, vars
  <2>2. HitsGoToChosen' /\ \A m, s : Chosen(m, s) \subseteq Chosen(m, s)'
    BY <2>1 DEF HomesInv, HitsGoToChosen, Chosen, Same
  <2>3. Keeps
    BY <1>4, BesideStoreKeeps DEF StepsBesideStore, Typed
  <2>4. QED
    BY <2>2, <2>3, KeepsHomes
<1>5. QED
  BY <1>1, <1>2, <1>3, <1>4 DEF Next

\* The caches of a conversation lie only on devices that the routing engine
\* chose for one of its turns that had missed: for any number of devices,
\* conversations, turns, restarts and evictions, overlapping in any way, and
\* any ids without ":".
THEOREM HomesAreChosen ==
    ASSUME NEW Plain, ":" \notin Plain, Models \subseteq Seq(Plain), SeqIds \subseteq Seq(Plain)
    PROVE  Spec => []HomesComeFromMisses
<1>1. Init => HomesInv
  BY DEF Init, PoolInit, HomesInv, HitsGoToChosen, HomesComeFromMisses, Homes, NoEntries
<1>2. HomesInv => HomesComeFromMisses
  BY DEF HomesInv
<1>3. QED
  BY <1>1, <1>2, InitTyped, NextTyped, NextHomes, PTL DEF Spec

-----------------------------------------------------------------------------
(* One home.                                                               *)

LEMMA LeastNumber ==
    ASSUME NEW T \in SUBSET Nat, T # {} PROVE \E x \in T : \A y \in T : x <= y
<1>1. PICK x \in T : \A y \in T : ~ (<<y, x>> \in OpToRel(<, Nat))
  BY NatLessThanWellFounded, WFMin
<1>2. \A y \in T : ~ (y < x)
  BY <1>1 DEF OpToRel
<1>3. QED
  BY <1>2

\* A home is found, if there is one.
LEMMA HomeIsFound ==
    ASSUME NEW Plain, ":" \notin Plain,
           Models \subseteq Seq(Plain), SeqIds \subseteq Seq(Plain), Typed,
           NEW m \in Models, NEW s \in SeqIds, Homes(m, s) # {}
    PROVE  KV!LookupSequenceGpu(m, s) # {}
<1> DEFINE Found(g) == \E k \in DOMAIN cached[g] : StartsWith(k, Prefix(m, s))
           T == {j \in DOMAIN devices : Found(devices[j])}
<1>1. PICK g \in GPUs : \E k \in DOMAIN cached[g] :
        cached[g][k].model = m /\ cached[g][k].seq = s
  BY DEF Homes, Same
<1>9. PICK k \in DOMAIN cached[g] : cached[g][k].model = m /\ cached[g][k].seq = s
  BY <1>1
<1>2. Found(g)
  <2> DEFINE l == cached[g][k].layer
             A == Plain \cup {":", l}
  <2>1. k = CacheKey(m, s, l)
    BY <1>9 DEF Typed, Named
  <2>2. m \in Seq(Plain) /\ s \in Seq(Plain)
    OBVIOUS
  <2>3. ":" \in A /\ l \in A /\ m \in Seq(A) /\ s \in Seq(A)
    BY <2>2, SeqMonotonic
  <2> HIDE DEF A, l
  <2>4. StartsWith(CacheKey(m, s, l), Prefix(m, s))
    BY <2>3, KeyStartsWithPrefix
  <2>5. QED
    BY <2>1, <2>4
<1>3. \E j \in DOMAIN devices : devices[j] = g
  BY <1>1 DEF Typed, Range
<1>4. T # {} /\ T \subseteq 1 .. Len(devices) /\ T \subseteq Nat
  BY <1>2, <1>3 DEF Typed
<1>5. PICK i \in T : \A j \in T : i <= j
  BY <1>4, LeastNumber
<1>6. \A j \in 1 .. (i - 1) : ~ Found(devices[j])
  <2>1. \A j \in 1 .. (i - 1) : j \in DOMAIN devices /\ ~ (i <= j)
    BY <1>4, <1>5 DEF Typed
  <2>2. QED
    BY <1>5, <2>1
<1>7. devices[i] \in KV!LookupSequenceGpu(m, s)
  BY <1>5, <1>6 DEF KV!LookupSequenceGpu, KV!FirstDevice, StartsWith, Prefix
<1>8. QED
  BY <1>7

\* No turn of the conversation overlaps another one.
Orderly(m, s) == \A i \in DOMAIN requests : Same(requests[i], m, s) => requests[i].alone

\* The turns before one that was alone have ended.
EndedBefore ==
    \A i, j \in DOMAIN requests :
        i < j /\ requests[j].alone /\ Same(requests[i], requests[j].model, requests[j].seq)
            => requests[i].phase \in {"stored", "done"}

\* A turn that will store: the mesh shares caches, and it is no stream.
WillStore(r) == r.phase \in {"nim", "storing"} /\ KvSharing /\ ~ r.streams

StoringShares == \A i \in DOMAIN requests : requests[i].phase = "storing" => WillStore(requests[i])

\* What an orderly conversation has cached lies where the turn that is under
\* way will store.
StoresAtHome ==
    \A i \in DOMAIN requests :
        WillStore(requests[i]) /\ Orderly(requests[i].model, requests[i].seq)
            => Homes(requests[i].model, requests[i].seq) \subseteq {requests[i].target}

AtMostOne == \A m \in Models, s \in SeqIds : Orderly(m, s) => \A g, h \in Homes(m, s) : g = h

OrderInv == EndedBefore /\ StoringShares /\ StoresAtHome /\ AtMostOne

LEMMA BeginOrder ==
    ASSUME NEW Plain, ":" \notin Plain,
           Models \subseteq Seq(Plain), SeqIds \subseteq Seq(Plain), Typed, OrderInv,
           NEW m \in Models, NEW s \in SeqIds, NEW streams \in BOOLEAN, Begin(m, s, streams)
    PROVE  OrderInv'
<1> DEFINE kv == IF KvSharing \/ streams THEN KV!LookupSequenceGpu(m, s) ELSE {}
           z  == Len(requests) + 1
<1>1. PICK g \in Route(kv) :
        requests' = Append(requests,
            [model |-> m, seq |-> s, streams |-> streams, phase |-> "nim",
             target |-> g, hit |-> kv # {}, alone |-> Alone(m, s)])
  BY DEF Begin
<1>2. KvSharing /\ Homes(m, s) # {} => g \in Homes(m, s)
  BY HomeIsFound, LookupFindsHome DEF Route
<1> HIDE DEF kv
<1>3. requests \in Seq(Request)
  BY DEF Typed
<1>4. /\ DOMAIN requests = 1 .. Len(requests) /\ DOMAIN requests' = 1 .. z
      /\ Len(requests) \in Nat
      /\ \A j \in DOMAIN requests : requests'[j] = requests[j]
      /\ requests'[z].model = m /\ requests'[z].seq = s /\ requests'[z].target = g
      /\ requests'[z].alone = Alone(m, s) /\ requests'[z].streams = streams
      /\ requests'[z].phase = "nim"
  BY <1>1, <1>3
<1> HIDE DEF z
<1>5. DOMAIN requests' = DOMAIN requests \cup {z} /\ \A i \in DOMAIN requests : i < z /\ i # z /\ ~ (z < z)
  BY <1>4 DEF z
<1>6. \A n, t : Homes(n, t)' = Homes(n, t)
  BY DEF Begin, cacheVars, Homes, Same
<1>7. \A n, t : Orderly(n, t)' => Orderly(n, t)
  BY <1>4, <1>5 DEF Orderly, Same
<1>8. EndedBefore'
  <2> SUFFICES ASSUME NEW i \in DOMAIN requests', NEW j \in DOMAIN requests',
                      i < j, requests'[j].alone,
                      Same(requests'[i], requests'[j].model, requests'[j].seq)
               PROVE  requests'[i].phase \in {"stored", "done"}
    BY DEF EndedBefore, Same
  <2>1. CASE j \in DOMAIN requests
    <3>1. i \in DOMAIN requests
      BY <1>4, <1>5, <2>1
    <3>2. requests'[i] = requests[i] /\ requests'[j] = requests[j]
      BY <1>4, <2>1, <3>1
    <3>3. QED
      BY <2>1, <3>1, <3>2 DEF OrderInv, EndedBefore
  <2>2. CASE j = z
    <3>1. i \in DOMAIN requests /\ Alone(m, s)
      BY <1>4, <1>5, <2>2
    <3>2. requests'[i] = requests[i] /\ Same(requests[i], m, s)
      BY <1>4, <2>2, <3>1
    <3>3. QED
      BY <3>1, <3>2 DEF Alone, Range
  <2>3. QED
    BY <1>5, <2>1, <2>2
<1>9. StoringShares'
  BY <1>4, <1>5 DEF OrderInv, StoringShares, WillStore
<1>10. AtMostOne'
  BY <1>6, <1>7 DEF OrderInv, AtMostOne
<1>11. StoresAtHome'
  <2> SUFFICES ASSUME NEW i \in DOMAIN requests', WillStore(requests'[i]),
                      NEW n, n = requests'[i].model, NEW t, t = requests'[i].seq,
                      Orderly(n, t)'
               PROVE  Homes(n, t)' \subseteq {requests'[i].target}
    BY DEF StoresAtHome, WillStore
  <2>1. CASE i \in DOMAIN requests
    <3>1. requests'[i] = requests[i] /\ Orderly(n, t)
      BY <1>4, <1>7, <2>1
    <3>2. Homes(n, t) \subseteq {requests[i].target}
      BY <2>1, <3>1 DEF OrderInv, StoresAtHome
    <3>3. QED
      BY <1>6, <3>1, <3>2
  <2>2. CASE i = z
    <3>1. n = m /\ t = s /\ requests'[i].target = g /\ KvSharing
      BY <1>4, <2>2 DEF WillStore
    <3>2. Orderly(m, s)
      BY <1>7, <3>1
    <3>3. \A h \in Homes(m, s) : h = g
      BY <1>2, <3>1, <3>2 DEF OrderInv, AtMostOne
    <3>4. QED
      BY <1>6, <3>1, <3>3
  <2>3. QED
    BY <1>5, <2>1, <2>2
<1>12. QED
  BY <1>8, <1>9, <1>10, <1>11 DEF OrderInv

\* Any other change of a request's phase.
LEMMA PhaseChanges ==
    ASSUME Typed, NEW i \in DOMAIN requests, NEW p \in Phases,
           requests' = [requests EXCEPT ![i].phase = p]
    PROVE  /\ DOMAIN requests' = DOMAIN requests
           /\ \A j \in DOMAIN requests :
                /\ requests'[j].model = requests[j].model /\ requests'[j].seq = requests[j].seq
                /\ requests'[j].alone = requests[j].alone /\ requests'[j].target = requests[j].target
                /\ requests'[j].streams = requests[j].streams
                /\ requests'[j].phase = IF j = i THEN p ELSE requests[j].phase
<1>1. \A r \in Request : LET q == [r EXCEPT !.phase = p]
        IN  /\ q.model = r.model /\ q.seq = r.seq /\ q.alone = r.alone
            /\ q.target = r.target /\ q.streams = r.streams /\ q.phase = p
  BY DEF Request
<1>2. requests \in Seq(Request) /\ requests[i] \in Request
  BY DEF Typed
<1>3. DOMAIN requests' = DOMAIN requests
  OBVIOUS
<1>4. ASSUME NEW j \in DOMAIN requests
      PROVE  requests'[j] = IF j = i THEN [requests[i] EXCEPT !.phase = p] ELSE requests[j]
  BY <1>2
<1>5. QED
  BY <1>1, <1>2, <1>3, <1>4

\* A turn in progress that will store is the only one of an orderly
\* conversation.
LEMMA OneWillStore ==
    ASSUME EndedBefore, requests \in Seq(Request),
           NEW i \in DOMAIN requests, NEW j \in DOMAIN requests,
           NEW m, NEW s, Orderly(m, s), Same(requests[i], m, s), Same(requests[j], m, s),
           WillStore(requests[i]), WillStore(requests[j])
    PROVE  i = j
<1>1. i \in Nat /\ j \in Nat /\ requests[i].alone /\ requests[j].alone
  BY DEF Orderly
<1>2. ~ (i < j) /\ ~ (j < i)
  BY <1>1 DEF EndedBefore, Same, WillStore
<1>3. QED
  BY <1>1, <1>2

LEMMA StoreOrder ==
    ASSUME Typed, OrderInv, NEW i \in DOMAIN requests, Store(i) PROVE OrderInv'
<1> DEFINE r == requests[i]
<1>1. r.phase = "storing" /\ requests' = [requests EXCEPT ![i].phase = "stored"]
      /\ "stored" \in Phases /\ requests \in Seq(Request) /\ WillStore(r)
  BY DEF Store, Phases, Typed, OrderInv, StoringShares
<1>2. /\ DOMAIN requests' = DOMAIN requests
      /\ \A j \in DOMAIN requests :
            /\ requests'[j].model = requests[j].model /\ requests'[j].seq = requests[j].seq
            /\ requests'[j].alone = requests[j].alone /\ requests'[j].target = requests[j].target
            /\ requests'[j].streams = requests[j].streams
            /\ requests'[j].phase = IF j = i THEN "stored" ELSE requests[j].phase
  BY <1>1, PhaseChanges
<1>3. \A m, s : Orderly(m, s)' => Orderly(m, s)
  BY <1>2 DEF Orderly, Same
<1>4. ASSUME NEW m, NEW s, NEW g \in Homes(m, s)'
      PROVE  g \in Homes(m, s) \/ (m = r.model /\ s = r.seq /\ g = r.target)
  <2>1. PICK k \in DOMAIN cached'[g] : cached'[g][k].model = m /\ cached'[g][k].seq = s
    BY <1>4 DEF Homes, Same
  <2>2. g \in GPUs
    BY <1>4 DEF Homes
  <2>3. CASE Kept(g, k)
    <3>1. k \in DOMAIN cached[g] /\ cached[g][k].model = m /\ cached[g][k].seq = s
      BY <2>1, <2>2, <2>3, NamesAreFields DEF Kept, Typed, Named
    <3>2. QED
      BY <2>2, <3>1 DEF Homes, Same
  <2>4. CASE g = r.target /\ Names(cached'[g][k]) = <<r.model, r.seq, "0">>
    BY <2>1, <2>4 DEF Names
  <2>5. QED
    BY <2>1, <2>2, <2>3, <2>4, StoreAdds
<1>5. ASSUME NEW m, m = r.model, NEW s, s = r.seq, Orderly(m, s)
      PROVE  \A g \in Homes(m, s)' : g = r.target
  BY <1>1, <1>4, <1>5 DEF OrderInv, StoresAtHome
<1>6. EndedBefore'
  <2> SUFFICES ASSUME NEW a \in DOMAIN requests', NEW b \in DOMAIN requests',
                      a < b, requests'[b].alone,
                      Same(requests'[a], requests'[b].model, requests'[b].seq)
               PROVE  requests'[a].phase \in {"stored", "done"}
    BY DEF EndedBefore, Same
  <2>1. requests[b].alone /\ Same(requests[a], requests[b].model, requests[b].seq)
    BY <1>2 DEF Same
  <2>2. requests[a].phase \in {"stored", "done"}
    BY <1>2, <2>1 DEF OrderInv, EndedBefore
  <2>3. QED
    BY <1>2, <2>2
<1>7. StoringShares'
  BY <1>2 DEF OrderInv, StoringShares, WillStore
<1>8. AtMostOne'
  <2> SUFFICES ASSUME NEW m \in Models, NEW s \in SeqIds, Orderly(m, s)',
                      NEW g \in Homes(m, s)', NEW h \in Homes(m, s)'
               PROVE  g = h
    BY DEF AtMostOne
  <2>1. CASE m = r.model /\ s = r.seq
    BY <1>3, <1>5, <2>1
  <2>2. CASE ~ (m = r.model /\ s = r.seq)
    BY <1>3, <1>4, <2>2 DEF OrderInv, AtMostOne
  <2>3. QED
    BY <2>1, <2>2
<1>9. StoresAtHome'
  <2> SUFFICES ASSUME NEW j \in DOMAIN requests', WillStore(requests'[j]),
                      NEW m, m = requests'[j].model, NEW s, s = requests'[j].seq,
                      Orderly(m, s)', NEW g \in Homes(m, s)'
               PROVE  g = requests'[j].target
    BY DEF StoresAtHome, WillStore
  <2>1. j # i /\ WillStore(requests[j]) /\ Same(requests[j], m, s) /\ Orderly(m, s)
    BY <1>2, <1>3 DEF WillStore, Same
  <2>2. ~ Same(r, m, s)
    BY <1>1, <2>1, <1>2, OneWillStore DEF OrderInv
  <2>3. g \in Homes(m, s)
    BY <1>4, <2>2 DEF Same
  <2>4. QED
    BY <1>2, <2>1, <2>3 DEF OrderInv, StoresAtHome, Same
<1>10. QED
  BY <1>6, <1>7, <1>8, <1>9 DEF OrderInv

LEMMA RespondOrder ==
    ASSUME Typed, OrderInv, NEW i \in DOMAIN requests, Respond(i) PROVE OrderInv'
<1>1. PICK p \in Phases :
        /\ requests' = [requests EXCEPT ![i].phase = p]
        /\ p = IF KvSharing /\ ~ requests[i].streams THEN "storing" ELSE "done"
  BY DEF Respond, Phases
<1>2. /\ DOMAIN requests' = DOMAIN requests
      /\ \A j \in DOMAIN requests :
            /\ requests'[j].model = requests[j].model /\ requests'[j].seq = requests[j].seq
            /\ requests'[j].alone = requests[j].alone /\ requests'[j].target = requests[j].target
            /\ requests'[j].streams = requests[j].streams
            /\ requests'[j].phase = IF j = i THEN p ELSE requests[j].phase
  BY <1>1, PhaseChanges
<1>3. requests[i].phase = "nim" /\ \A m, s : Homes(m, s)' = Homes(m, s)
  BY DEF Respond, cacheVars, Homes, Same
<1>4. \A m, s : Orderly(m, s)' => Orderly(m, s)
  BY <1>2 DEF Orderly, Same
<1>5. \A j \in DOMAIN requests : WillStore(requests'[j]) => WillStore(requests[j])
  BY <1>1, <1>2, <1>3 DEF WillStore
<1>6. EndedBefore'
  BY <1>1, <1>2, <1>3 DEF OrderInv, EndedBefore, Same
<1>7. StoringShares'
  BY <1>1, <1>2 DEF OrderInv, StoringShares, WillStore
<1>8. AtMostOne'
  BY <1>3, <1>4 DEF OrderInv, AtMostOne
<1>9. StoresAtHome'
  <2> SUFFICES ASSUME NEW j \in DOMAIN requests', WillStore(requests'[j]),
                      NEW m, m = requests'[j].model, NEW s, s = requests'[j].seq,
                      Orderly(m, s)', NEW g \in Homes(m, s)'
               PROVE  g = requests'[j].target
    BY DEF StoresAtHome, WillStore
  <2>1. WillStore(requests[j]) /\ m = requests[j].model /\ s = requests[j].seq
        /\ Orderly(m, s) /\ g \in Homes(m, s) /\ requests'[j].target = requests[j].target
    BY <1>2, <1>3, <1>4, <1>5
  <2>2. QED
    BY <1>2, <2>1 DEF OrderInv, StoresAtHome
<1>10. QED
  BY <1>6, <1>7, <1>8, <1>9 DEF OrderInv

\* Steps that leave the requests alone and add no entries.
LEMMA KeepsOrder ==
    ASSUME Typed, OrderInv, Keeps, requests' = requests PROVE OrderInv'
<1>1. \A m, s : Homes(m, s)' \subseteq Homes(m, s)
  BY HomesShrink DEF Typed
<1>2. \A m, s : Orderly(m, s)' = Orderly(m, s)
  BY DEF Orderly, Same
<1>3. EndedBefore' /\ StoringShares'
  BY DEF OrderInv, EndedBefore, StoringShares, WillStore, Same
<1>4. AtMostOne'
  BY <1>1, <1>2 DEF OrderInv, AtMostOne
<1>5. StoresAtHome'
  <2> SUFFICES ASSUME NEW j \in DOMAIN requests', WillStore(requests'[j]),
                      NEW m, m = requests'[j].model, NEW s, s = requests'[j].seq,
                      Orderly(m, s)', NEW g \in Homes(m, s)'
               PROVE  g = requests'[j].target
    BY DEF StoresAtHome, WillStore
  <2>1. g \in Homes(m, s) /\ Orderly(m, s) /\ requests'[j] = requests[j]
    BY <1>1, <1>2
  <2>2. QED
    BY <2>1 DEF OrderInv, StoresAtHome
<1>6. QED
  BY <1>3, <1>4, <1>5 DEF OrderInv

LEMMA NextOrder ==
    ASSUME NEW Plain, ":" \notin Plain, Models \subseteq Seq(Plain), SeqIds \subseteq Seq(Plain)
    PROVE  Typed /\ OrderInv /\ [Next]_vars => OrderInv'
<1> SUFFICES ASSUME Typed, OrderInv, [Next]_vars PROVE OrderInv'
  OBVIOUS
<1>1. ASSUME NEW m \in Models, NEW s \in SeqIds, NEW streams \in BOOLEAN, Begin(m, s, streams)
      PROVE  OrderInv'
  BY <1>1, BeginOrder
<1>2. ASSUME NEW i \in DOMAIN requests, Store(i) PROVE OrderInv'
  BY <1>2, StoreOrder
<1>3. ASSUME NEW i \in DOMAIN requests, Respond(i) PROVE OrderInv'
  BY <1>3, RespondOrder
<1>4. CASE Restart \/ VramLow \/ Relieve \/ Time \/ UNCHANGED vars
  <2>1. requests' = requests
    BY <1>4 DEF Restart, VramLow, Relieve, Time, vars
  <2>2. Keeps
    BY <1>4, BesideStoreKeeps DEF StepsBesideStore, Typed
  <2>3. QED
    BY <2>1, <2>2, KeepsOrder
<1>5. QED
  BY <1>1, <1>2, <1>3, <1>4 DEF Next

\* A conversation whose turns never overlap has its cache on one device at
\* most: for any number of devices, conversations, turns, restarts and
\* evictions, and any ids without ":".
THEOREM OrderlyHasOneHome ==
    ASSUME NEW Plain, ":" \notin Plain, Models \subseteq Seq(Plain), SeqIds \subseteq Seq(Plain)
    PROVE  Spec => []OneHome
<1>1. Init => OrderInv
  BY DEF Init, PoolInit, OrderInv, EndedBefore, StoringShares, StoresAtHome, AtMostOne,
         Homes, NoEntries
<1>2. OrderInv => OneHome
  <2> SUFFICES ASSUME OrderInv, NEW m \in Models, NEW s \in SeqIds,
                      \A q \in Range(requests) : Same(q, m, s) => q.alone
               PROVE  Cardinality(Homes(m, s)) <= 1
    BY DEF OneHome
  <2>1. \A g, h \in Homes(m, s) : g = h
    BY DEF OrderInv, AtMostOne, Orderly, Range
  <2>2. CASE Homes(m, s) = {}
    BY <2>2, FS_EmptySet
  <2>3. CASE Homes(m, s) # {}
    <3>1. PICK g : Homes(m, s) = {g}
      BY <2>1, <2>3
    <3>2. Cardinality({g}) = 1
      BY FS_Singleton
    <3>3. QED
      BY <3>1, <3>2
  <2>4. QED
    BY <2>2, <2>3
<1>3. QED
  BY <1>1, <1>2, InitTyped, NextTyped, NextOrder, PTL DEF Spec

=============================================================================
