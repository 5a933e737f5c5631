--------------------------- MODULE TensorFSProofs ---------------------------
(***************************************************************************)
(* Theorems of TensorFS, for any keys, dtypes, numbers of calls and of     *)
(* restarts: its types, that a write which nothing overlaps is on disk     *)
(* whole, that reads return whole tensors, and that the index and the disk *)
(* agree.                                                                  *)
(***************************************************************************)
EXTENDS TensorFS, SequenceTheorems, TLAPS

-----------------------------------------------------------------------------
(* The inductive invariant.                                                *)

Sizes == {Size[d] : d \in Dtypes}

Call == [kind : {"write", "read"}, key : Keys, dtype : Dtypes, entry : Nat,
         phase : Active \cup Outcomes, inode : Nat, size : Nat, moved : Seq(Nat),
         clean : BOOLEAN, cut : BOOLEAN]

Content == [header : {NoHeader} \cup Sizes, cells : Seq(0 .. Len(ops))]

Shape ==
    /\ ops \in Seq(Call) /\ Len(ops) <= MaxOps
    /\ index \in [Keys -> Nat] /\ file \in [Keys -> Nat]
    /\ content \in [Inodes -> Content]
    /\ restarts \in 0 .. MaxRestarts /\ strays \subseteq Keys
    /\ \A f \in Inodes : \E d \in Dtypes : Len(content[f].cells) <= Size[d]

Opened(o) == o.phase \in {"open", "moving"}

\* The write under a key in the index has ended well.
Links(k) ==
    /\ file[k] \in {None} \cup Writes(k)
    /\ index[k] \in {None} \cup Writes(k)
    /\ index[k] # None => ops[index[k]].phase = "done"

\* An open call has an inode of its own key, and no cell is moved before the
\* header is known.
Tidy(i) ==
    /\ ops[i].entry \in Writes(ops[i].key)
    /\ ops[i].inode \in {None} \cup Writes(ops[i].key)
    /\ Opened(ops[i]) => ops[i].inode # None
    /\ ops[i].phase \in {"queued", "open"} => ops[i].moved = <<>>
    /\ Len(ops[i].moved) <= ops[i].size
    /\ ops[i].kind = "write" /\ ops[i].phase = "moving" => ops[i].size = Size[ops[i].dtype]

Linked == (\A k \in Keys : Links(k)) /\ (\A i \in DOMAIN ops : Tidy(i))

\* While a write runs, neither it is clean nor any later one of its key, once
\* there is a later one.
Alone ==
    \A i, j \in DOMAIN ops :
        i < j /\ ops[j].kind = "write" /\ ops[i].kind = "write" /\ Running(i, ops[j].key)
            => ~ ops[i].clean /\ ~ ops[j].clean

\* The open file of a call is the one that its path names, unless the key
\* was deleted.
Current ==
    \A i \in DOMAIN ops :
        Opened(ops[i]) /\ ~ ops[i].cut => file[ops[i].key] = ops[i].inode

\* A clean write that runs has put its file together as far as it has come.
Partial ==
    \A i \in DOMAIN ops :
        LET o == ops[i]
        IN  o.kind = "write" /\ o.clean =>
            /\ o.phase = "open" => content[o.inode] = Empty
            /\ o.phase = "moving" =>
                    /\ content[o.inode].header = o.size
                    /\ content[o.inode].cells = [p \in 1 .. Len(o.moved) |-> i]

\* A clean read that runs reads a file of a key that nobody writes, with the
\* tensor that it should return; it finds none only if that was deleted.
Reading ==
    \A i \in DOMAIN ops :
        LET o == ops[i]
        IN  o.kind = "read" /\ o.clean /\ o.phase \in Active =>
            /\ o.dtype = ops[o.entry].dtype
            /\ \A j \in Writes(o.key) : ~ Running(j, o.key)
            /\ o.phase = "queued" =>
                    IF file[o.key] = None THEN o.cut
                    ELSE content[file[o.key]] = Whole(o.entry)
            /\ Opened(o) => content[o.inode] = Whole(o.entry)
            /\ o.phase = "moving" =>
                    /\ o.size = Size[o.dtype]
                    /\ \A p \in 1 .. Len(o.moved) : o.moved[p] = o.entry

FSInv ==
    /\ Shape /\ Linked /\ Alone /\ Current /\ Partial /\ Reading
    /\ IndexedIsWhole /\ ReadsAreWhole /\ IndexMatchesDisk

-----------------------------------------------------------------------------
(* What steps do to the calls.                                             *)

\* The names of a call never change, and neither does a call that has ended.
Lasting ==
    /\ ops' \in Seq(Call) /\ DOMAIN ops \subseteq DOMAIN ops' /\ Len(ops) <= Len(ops')
    /\ \A j \in DOMAIN ops :
        /\ ops'[j].kind = ops[j].kind /\ ops'[j].key = ops[j].key
        /\ ops'[j].dtype = ops[j].dtype /\ ops'[j].entry = ops[j].entry
        /\ ops[j].phase \notin Active => ops'[j] = ops[j]
        /\ ops'[j].clean => ops[j].clean
        /\ ops[j].cut => ops'[j].cut

\* Call i goes on, and the others are as they were.
Advance(i) ==
    /\ Lasting /\ Len(ops') = Len(ops)
    /\ ops[i].phase \in Active
    /\ ops'[i].clean = ops[i].clean /\ ops'[i].cut = ops[i].cut
    /\ \A j \in DOMAIN ops : j # i => ops'[j] = ops[j]

Moves(i, phase, inode, size, moved) ==
    /\ ops'[i].phase = phase /\ ops'[i].inode = inode
    /\ ops'[i].size = size /\ ops'[i].moved = moved

LEMMA MoveOn ==
    ASSUME ops \in Seq(Call), NEW i \in DOMAIN ops, ops[i].phase \in Active,
           NEW phase \in Active \cup Outcomes, NEW inode \in Nat, NEW size \in Nat,
           NEW moved \in Seq(Nat),
           ops' = [ops EXCEPT ![i] = [ops[i] EXCEPT !.phase = phase, !.inode = inode,
                                                    !.size = size, !.moved = moved]]
    PROVE  Advance(i) /\ Moves(i, phase, inode, size, moved)
<1> DEFINE o == [ops[i] EXCEPT !.phase = phase, !.inode = inode, !.size = size, !.moved = moved]
<1>1. ops[i] \in Call
  BY ElementOfSeq
<1>2. /\ o \in Call
      /\ o.kind = ops[i].kind /\ o.key = ops[i].key /\ o.dtype = ops[i].dtype
      /\ o.entry = ops[i].entry /\ o.clean = ops[i].clean /\ o.cut = ops[i].cut
      /\ o.phase = phase /\ o.inode = inode /\ o.size = size /\ o.moved = moved
  BY <1>1 DEF Call
<1>3. /\ ops' \in Seq(Call) /\ Len(ops') = Len(ops) /\ DOMAIN ops' = DOMAIN ops
      /\ ops'[i] = o /\ \A j \in DOMAIN ops : j # i => ops'[j] = ops[j]
  BY <1>2
<1> HIDE DEF o
<1>4. QED
  BY <1>2, <1>3 DEF Advance, Lasting, Moves

LEMMA CallsAreCalls ==
    ASSUME Shape, NEW i \in DOMAIN ops
    PROVE  /\ ops[i] \in Call /\ ops[i].key \in Keys /\ ops[i].dtype \in Dtypes
           /\ ops[i].inode \in Nat /\ ops[i].size \in Nat /\ ops[i].moved \in Seq(Nat)
           /\ ops[i].phase \in Active \cup Outcomes /\ i \in Nat
           /\ ops[i].kind \in {"read", "write"} /\ ops[i].clean \in BOOLEAN
<1>1. ops \in Seq(Call)
  BY DEF Shape
<1>2. ops[i] \in Call /\ i \in Nat
  BY <1>1
<1>3. QED
  BY <1>2 DEF Call

LEMMA InodesAreInodes ==
    ASSUME Shape, NEW k, NEW f \in Writes(k) PROVE f \in Inodes
<1>1. f \in 1 .. Len(ops) /\ Len(ops) \in Nat /\ Len(ops) <= MaxOps /\ MaxOps \in Nat
  BY FSAssumption DEF Writes, Shape
<1>2. QED
  BY <1>1 DEF Inodes

LEMMA OpenInodes ==
    ASSUME Shape, Linked, NEW i \in DOMAIN ops, Opened(ops[i])
    PROVE  ops[i].inode \in Inodes /\ ops[i].inode \in Writes(ops[i].key)
  BY InodesAreInodes DEF Linked, Tidy

\* The steps of the threads, as moves.
LEMMA OpenWriteMoves ==
    ASSUME Shape, NEW i \in DOMAIN ops, OpenWrite(i),
           NEW f, f = IF file[ops[i].key] = None THEN i ELSE file[ops[i].key]
    PROVE  Advance(i) /\ Moves(i, "open", f, ops[i].size, ops[i].moved)
<1>1. ops' = [ops EXCEPT ![i] = [ops[i] EXCEPT !.phase = "open", !.inode = f]]
  BY DEF OpenWrite
<1>2. f \in Nat
  BY CallsAreCalls DEF Shape
<1>3. [ops[i] EXCEPT !.phase = "open", !.inode = f] =
        [ops[i] EXCEPT !.phase = "open", !.inode = f, !.size = ops[i].size, !.moved = ops[i].moved]
  BY CallsAreCalls DEF Call
<1>4. ops[i].phase \in Active /\ "open" \in Active \cup Outcomes /\ ops \in Seq(Call)
  BY DEF OpenWrite, Active, Shape
<1>5. ops[i].size \in Nat /\ ops[i].moved \in Seq(Nat)
  BY CallsAreCalls
<1>6. ops' = [ops EXCEPT ![i] = [ops[i] EXCEPT !.phase = "open", !.inode = f,
                                               !.size = ops[i].size, !.moved = ops[i].moved]]
  BY <1>1, <1>3
<1>7. QED
  BY <1>2, <1>4, <1>5, <1>6, MoveOn

LEMMA WriteHeaderMoves ==
    ASSUME Shape, NEW i \in DOMAIN ops, WriteHeader(i)
    PROVE  Advance(i) /\ Moves(i, "moving", ops[i].inode, Size[ops[i].dtype], ops[i].moved)
<1> DEFINE n == Size[ops[i].dtype]
<1>1. ops' = [ops EXCEPT ![i] = [ops[i] EXCEPT !.phase = "moving", !.size = n]]
  BY DEF WriteHeader
<1>2. n \in Nat
  BY CallsAreCalls, FSAssumption
<1>3. [ops[i] EXCEPT !.phase = "moving", !.size = n] =
        [ops[i] EXCEPT !.phase = "moving", !.inode = ops[i].inode, !.size = n, !.moved = ops[i].moved]
  BY CallsAreCalls DEF Call
<1>4. ops[i].phase \in Active /\ "moving" \in Active \cup Outcomes /\ ops \in Seq(Call)
  BY DEF WriteHeader, Active, Shape
<1> HIDE DEF n
<1>5. Advance(i) /\ Moves(i, "moving", ops[i].inode, n, ops[i].moved)
  BY <1>1, <1>2, <1>3, <1>4, MoveOn, CallsAreCalls
<1>6. QED
  BY <1>5 DEF n

\* A cell is put, or read.
LEMMA CellMoves ==
    ASSUME Shape, NEW i \in DOMAIN ops, ops[i].phase = "moving", NEW c \in Nat,
           ops' = [ops EXCEPT ![i].moved = Append(@, c)]
    PROVE  Advance(i) /\ Moves(i, "moving", ops[i].inode, ops[i].size, Append(ops[i].moved, c))
<1> DEFINE s == Append(ops[i].moved, c)
<1>1. ops' = [ops EXCEPT ![i] = [ops[i] EXCEPT !.moved = s]]
  OBVIOUS
<1>2. s \in Seq(Nat)
  BY CallsAreCalls
<1> HIDE DEF s
<1>3. [ops[i] EXCEPT !.moved = s] =
        [ops[i] EXCEPT !.phase = "moving", !.inode = ops[i].inode, !.size = ops[i].size, !.moved = s]
  BY CallsAreCalls DEF Call
<1>4. ops[i].phase \in Active /\ "moving" \in Active \cup Outcomes /\ ops \in Seq(Call)
  BY DEF Active, Shape
<1>5. Advance(i) /\ Moves(i, "moving", ops[i].inode, ops[i].size, s)
  BY <1>1, <1>2, <1>3, <1>4, MoveOn, CallsAreCalls
<1>6. QED
  BY <1>5 DEF s

\* A call comes to its end.
LEMMA EndMoves ==
    ASSUME Shape, NEW i \in DOMAIN ops, ops[i].phase \in Active,
           NEW phase \in Active \cup Outcomes, Move(i, phase)
    PROVE  Advance(i) /\ Moves(i, phase, ops[i].inode, ops[i].size, ops[i].moved)
<1>1. ops' = [ops EXCEPT ![i] = [ops[i] EXCEPT !.phase = phase]]
  BY DEF Move
<1>2. [ops[i] EXCEPT !.phase = phase] =
        [ops[i] EXCEPT !.phase = phase, !.inode = ops[i].inode, !.size = ops[i].size, !.moved = ops[i].moved]
  BY CallsAreCalls DEF Call
<1>3. ops \in Seq(Call)
  BY DEF Shape
<1>4. QED
  BY <1>1, <1>2, <1>3, MoveOn, CallsAreCalls

LEMMA OpenReadMoves ==
    ASSUME Shape, NEW i \in DOMAIN ops, OpenRead(i), NEW f, f = file[ops[i].key]
    PROVE  Advance(i) /\ Moves(i, IF f = None THEN "void" ELSE "open", f, ops[i].size, ops[i].moved)
<1> DEFINE p == IF f = None THEN "void" ELSE "open"
<1>1. ops' = [ops EXCEPT ![i] = [ops[i] EXCEPT !.phase = p, !.inode = f]]
  BY DEF OpenRead
<1>2. f \in Nat
  BY CallsAreCalls DEF Shape
<1>3. ops[i].phase \in Active /\ p \in Active \cup Outcomes /\ ops \in Seq(Call)
  BY DEF OpenRead, Active, Outcomes, Shape
<1> HIDE DEF p
<1>4. [ops[i] EXCEPT !.phase = p, !.inode = f] =
        [ops[i] EXCEPT !.phase = p, !.inode = f, !.size = ops[i].size, !.moved = ops[i].moved]
  BY CallsAreCalls DEF Call
<1>5. ops' = [ops EXCEPT ![i] = [ops[i] EXCEPT !.phase = p, !.inode = f,
                                               !.size = ops[i].size, !.moved = ops[i].moved]]
  BY <1>1, <1>4
<1>6. ops[i].size \in Nat /\ ops[i].moved \in Seq(Nat)
  BY CallsAreCalls
<1>7. Advance(i) /\ Moves(i, p, f, ops[i].size, ops[i].moved)
  BY <1>2, <1>3, <1>5, <1>6, MoveOn
<1>8. QED
  BY <1>7 DEF p

LEMMA ReadHeaderMoves ==
    ASSUME Shape, Linked, NEW i \in DOMAIN ops, ReadHeader(i),
           NEW n, n = content[ops[i].inode].header
    PROVE  /\ Advance(i)
           /\ Moves(i, IF n = NoHeader THEN "void" ELSE "moving", ops[i].inode, n, ops[i].moved)
<1> DEFINE p == IF n = NoHeader THEN "void" ELSE "moving"
<1>1. ops' = [ops EXCEPT ![i] = [ops[i] EXCEPT !.phase = p, !.size = n]]
  BY DEF ReadHeader
<1>2. n \in Nat
  <2>1. ops[i].inode \in Inodes
    BY OpenInodes DEF Opened, ReadHeader
  <2>2. content[ops[i].inode] \in Content
    BY <2>1 DEF Shape
  <2>3. QED
    BY <2>2, FSAssumption DEF Content, Sizes, NoHeader
<1>3. ops[i].phase \in Active /\ p \in Active \cup Outcomes /\ ops \in Seq(Call)
  BY DEF ReadHeader, Active, Outcomes, Shape
<1> HIDE DEF p
<1>4. [ops[i] EXCEPT !.phase = p, !.size = n] =
        [ops[i] EXCEPT !.phase = p, !.inode = ops[i].inode, !.size = n, !.moved = ops[i].moved]
  BY CallsAreCalls DEF Call
<1>5. ops' = [ops EXCEPT ![i] = [ops[i] EXCEPT !.phase = p, !.inode = ops[i].inode,
                                               !.size = n, !.moved = ops[i].moved]]
  BY <1>1, <1>4
<1>6. ops[i].inode \in Nat /\ ops[i].moved \in Seq(Nat)
  BY CallsAreCalls
<1>7. Advance(i) /\ Moves(i, p, ops[i].inode, n, ops[i].moved)
  BY <1>2, <1>3, <1>5, <1>6, MoveOn
<1>8. QED
  BY <1>7 DEF p

\* A call with no other change than in clean, cut and phase.
SameWork(j) ==
    /\ ops'[j].kind = ops[j].kind /\ ops'[j].key = ops[j].key
    /\ ops'[j].dtype = ops[j].dtype /\ ops'[j].entry = ops[j].entry
    /\ ops'[j].inode = ops[j].inode /\ ops'[j].size = ops[j].size
    /\ ops'[j].moved = ops[j].moved

\* Call z is a write of key k; what ran on the key is no longer clean.
WriteAdded(k, d, z) ==
    /\ Lasting /\ Len(ops') = z /\ Len(ops') <= MaxOps
    /\ DOMAIN ops' = DOMAIN ops \cup {z} /\ \A j \in DOMAIN ops : j < z /\ j # z
    /\ ops'[z] = NewOp("write", k, d, z, \A j \in Writes(k) : ~ Running(j, k))
    /\ \A j \in DOMAIN ops :
        /\ SameWork(j)
        /\ ops'[j].phase = ops[j].phase /\ ops'[j].cut = ops[j].cut
        /\ ops'[j].clean <=> ops[j].clean /\ ~ Running(j, k)

LEMMA BeginWriteAdds ==
    ASSUME Shape, NEW k \in Keys, NEW d \in Dtypes, BeginWrite(k, d), NEW z, z = Len(ops) + 1
    PROVE  WriteAdded(k, d, z)
<1> DEFINE c == \A j \in Writes(k) : ~ Running(j, k)
           o == NewOp("write", k, d, z, c)
           D == Disturbed(k)
<1>1. ops \in Seq(Call) /\ Len(ops) \in Nat /\ DOMAIN ops = 1 .. Len(ops)
  BY DEF Shape
<1>2. \A r \in Call : LET q == [r EXCEPT !.clean = FALSE]
        IN  /\ q \in Call /\ ~ q.clean
            /\ q.kind = r.kind /\ q.key = r.key /\ q.dtype = r.dtype /\ q.entry = r.entry
            /\ q.phase = r.phase /\ q.inode = r.inode /\ q.size = r.size
            /\ q.moved = r.moved /\ q.cut = r.cut
  BY DEF Call
<1>3. \A j \in DOMAIN ops : ops[j] \in Call /\ ops[j].clean \in BOOLEAN
  BY CallsAreCalls
<1>4. \A j \in DOMAIN ops :
        D[j] = IF Running(j, k) THEN [ops[j] EXCEPT !.clean = FALSE] ELSE ops[j]
  BY DEF Disturbed
<1>5. D \in Seq(Call) /\ Len(D) = Len(ops) /\ DOMAIN D = DOMAIN ops
  <2>1. \A j \in 1 .. Len(ops) : D[j] \in Call
    BY <1>1, <1>2, <1>3, <1>4
  <2>2. D = [j \in 1 .. Len(ops) |-> D[j]]
    BY <1>1 DEF Disturbed
  <2> HIDE DEF D
  <2>3. D \in Seq(Call)
    BY <1>1, <2>1, <2>2
  <2>4. QED
    BY <1>1, <2>2, <2>3
<1>6. o \in Call
  <2>1. c \in BOOLEAN /\ z \in Nat
    BY <1>1
  <2> HIDE DEF c
  <2>2. QED
    BY <2>1 DEF NewOp, Call, Active, None
<1>7. ops' = Append(D, o) /\ z <= MaxOps
  BY DEF BeginWrite
<1> HIDE DEF o, D
<1>8. /\ ops' \in Seq(Call) /\ Len(ops') = z /\ DOMAIN ops' = 1 .. z
      /\ ops'[z] = o /\ \A j \in DOMAIN ops : ops'[j] = D[j] /\ j < z /\ j # z
  BY <1>1, <1>5, <1>6, <1>7
<1>9. \A j \in DOMAIN ops :
        /\ SameWork(j)
        /\ ops'[j].phase = ops[j].phase /\ ops'[j].cut = ops[j].cut
        /\ ops'[j].clean <=> ops[j].clean /\ ~ Running(j, k)
        /\ ops[j].phase \notin Active => ops'[j] = ops[j]
  <2> SUFFICES ASSUME NEW j \in DOMAIN ops
               PROVE  /\ SameWork(j)
                      /\ ops'[j].phase = ops[j].phase /\ ops'[j].cut = ops[j].cut
                      /\ ops'[j].clean <=> ops[j].clean /\ ~ Running(j, k)
                      /\ ops[j].phase \notin Active => ops'[j] = ops[j]
    OBVIOUS
  <2>1. CASE Running(j, k)
    <3>1. ops'[j] = [ops[j] EXCEPT !.clean = FALSE] /\ ops[j].phase \in Active /\ ops[j] \in Call
      BY <1>3, <1>4, <1>8, <2>1 DEF Running
    <3>2. QED
      BY <1>2, <2>1, <3>1 DEF SameWork
  <2>2. CASE ~ Running(j, k)
    BY <1>4, <1>8, <2>2 DEF SameWork
  <2>3. QED
    BY <2>1, <2>2
<1>10. DOMAIN ops' = DOMAIN ops \cup {z}
  BY <1>1, <1>8
<1>11. Lasting
  BY <1>1, <1>8, <1>9, <1>10 DEF Lasting, SameWork
<1>12. QED
  BY <1>7, <1>8, <1>9, <1>10, <1>11 DEF o, WriteAdded

LEMMA BeginReadAdds ==
    ASSUME Shape, Linked, NEW k \in Keys, BeginRead(k), NEW z, z = Len(ops) + 1
    PROVE  /\ Lasting /\ Len(ops') = z /\ Len(ops') <= MaxOps
           /\ DOMAIN ops' = DOMAIN ops \cup {z} /\ \A j \in DOMAIN ops : j < z /\ j # z
           /\ ops'[z] = NewOp("read", k, ops[index[k]].dtype, index[k], Settled(k))
           /\ \A j \in DOMAIN ops : ops'[j] = ops[j]
<1> DEFINE o == NewOp("read", k, ops[index[k]].dtype, index[k], Settled(k))
<1>1. ops \in Seq(Call) /\ Len(ops) \in Nat /\ DOMAIN ops = 1 .. Len(ops) /\ MaxOps \in Nat
  BY FSAssumption DEF Shape
<1>2. index[k] \in DOMAIN ops /\ index[k] \in Nat
  BY DEF BeginRead, Linked, Links, Writes, Shape
<1>3. o \in Call
  <2>1. ops[index[k]].dtype \in Dtypes /\ Settled(k) \in BOOLEAN
    BY <1>2, CallsAreCalls DEF Settled
  <2>2. QED
    BY <1>2, <2>1 DEF NewOp, Call, Active, None
<1>4. ops' = Append(ops, o) /\ Len(ops) < MaxOps
  BY DEF BeginRead
<1> HIDE DEF o
<1>5. /\ ops' \in Seq(Call) /\ Len(ops') = z /\ DOMAIN ops' = 1 .. z
      /\ ops'[z] = o /\ \A j \in DOMAIN ops : ops'[j] = ops[j] /\ j < z /\ j # z
  BY <1>1, <1>3, <1>4
<1>6. DOMAIN ops' = DOMAIN ops \cup {z}
  BY <1>1, <1>5
<1>7. Lasting
  BY <1>1, <1>5, <1>6 DEF Lasting
<1>8. QED
  BY <1>1, <1>4, <1>5, <1>6, <1>7 DEF o

LEMMA DeleteCuts ==
    ASSUME Shape, NEW k \in Keys, ops' = Cut(k)
    PROVE  /\ Lasting /\ Len(ops') = Len(ops)
           /\ \A j \in DOMAIN ops :
                /\ SameWork(j)
                /\ ops'[j].phase = ops[j].phase /\ ops'[j].clean = ops[j].clean
                /\ ops'[j].cut <=> ops[j].cut \/ Running(j, k)
<1>1. ops \in Seq(Call) /\ Len(ops) \in Nat /\ DOMAIN ops = 1 .. Len(ops)
  BY DEF Shape
<1>2. \A r \in Call : LET q == [r EXCEPT !.cut = TRUE]
        IN  /\ q \in Call /\ q.cut
            /\ q.kind = r.kind /\ q.key = r.key /\ q.dtype = r.dtype /\ q.entry = r.entry
            /\ q.phase = r.phase /\ q.inode = r.inode /\ q.size = r.size
            /\ q.moved = r.moved /\ q.clean = r.clean
  BY DEF Call
<1>3. \A j \in DOMAIN ops : ops[j] \in Call
  BY CallsAreCalls
<1>4. \A j \in DOMAIN ops :
        ops'[j] = IF Running(j, k) THEN [ops[j] EXCEPT !.cut = TRUE] ELSE ops[j]
  BY DEF Cut
<1>5. ops' = [j \in 1 .. Len(ops) |-> ops'[j]] /\ \A j \in 1 .. Len(ops) : ops'[j] \in Call
  BY <1>1, <1>2, <1>3, <1>4 DEF Cut
<1>6. ops' \in Seq(Call)
  BY <1>1, <1>5
<1>7. Len(ops') = Len(ops) /\ DOMAIN ops' = DOMAIN ops
  BY <1>1, <1>5, <1>6
<1>8. \A j \in DOMAIN ops :
        /\ SameWork(j)
        /\ ops'[j].phase = ops[j].phase /\ ops'[j].clean = ops[j].clean
        /\ ops'[j].cut <=> ops[j].cut \/ Running(j, k)
        /\ ops[j].phase \notin Active => ops'[j] = ops[j]
  <2> SUFFICES ASSUME NEW j \in DOMAIN ops
               PROVE  /\ SameWork(j)
                      /\ ops'[j].phase = ops[j].phase /\ ops'[j].clean = ops[j].clean
                      /\ ops'[j].cut <=> ops[j].cut \/ Running(j, k)
                      /\ ops[j].phase \notin Active => ops'[j] = ops[j]
    OBVIOUS
  <2>1. CASE Running(j, k)
    <3>1. ops'[j] = [ops[j] EXCEPT !.cut = TRUE] /\ ops[j].phase \in Active /\ ops[j] \in Call
      BY <1>3, <1>4, <2>1 DEF Running
    <3>2. QED
      BY <1>2, <2>1, <3>1 DEF SameWork
  <2>2. CASE ~ Running(j, k)
    BY <1>4, <2>2 DEF SameWork
  <2>3. QED
    BY <2>1, <2>2
<1>9. QED
  BY <1>1, <1>6, <1>7, <1>8 DEF Lasting, SameWork

LEMMA RestartLoses ==
    ASSUME Shape, Restart
    PROVE  /\ Lasting /\ Len(ops') = Len(ops)
           /\ \A j \in DOMAIN ops :
                /\ SameWork(j)
                /\ ops'[j].clean = ops[j].clean /\ ops'[j].cut = ops[j].cut
                /\ ops'[j].phase = IF ops[j].phase \in Active THEN "lost" ELSE ops[j].phase
<1>1. ops \in Seq(Call) /\ Len(ops) \in Nat /\ DOMAIN ops = 1 .. Len(ops)
  BY DEF Shape
<1>2. \A r \in Call : LET q == [r EXCEPT !.phase = "lost"]
        IN  /\ q \in Call /\ q.phase = "lost"
            /\ q.kind = r.kind /\ q.key = r.key /\ q.dtype = r.dtype /\ q.entry = r.entry
            /\ q.inode = r.inode /\ q.size = r.size
            /\ q.moved = r.moved /\ q.clean = r.clean /\ q.cut = r.cut
  BY DEF Call, Outcomes
<1>3. \A j \in DOMAIN ops : ops[j] \in Call
  BY CallsAreCalls
<1>4. \A j \in DOMAIN ops : ops'[j] = IF ops[j].phase \in Active
                                       THEN [ops[j] EXCEPT !.phase = "lost"] ELSE ops[j]
  BY DEF Restart
<1>5. ops' = [j \in 1 .. Len(ops) |-> ops'[j]] /\ \A j \in 1 .. Len(ops) : ops'[j] \in Call
  BY <1>1, <1>2, <1>3, <1>4 DEF Restart
<1>6. ops' \in Seq(Call)
  BY <1>1, <1>5
<1>7. Len(ops') = Len(ops) /\ DOMAIN ops' = DOMAIN ops
  BY <1>1, <1>5, <1>6
<1>8. \A j \in DOMAIN ops :
        /\ SameWork(j)
        /\ ops'[j].clean = ops[j].clean /\ ops'[j].cut = ops[j].cut
        /\ ops'[j].phase = IF ops[j].phase \in Active THEN "lost" ELSE ops[j].phase
        /\ ops[j].phase \notin Active => ops'[j] = ops[j]
  <2> SUFFICES ASSUME NEW j \in DOMAIN ops
               PROVE  /\ SameWork(j)
                      /\ ops'[j].clean = ops[j].clean /\ ops'[j].cut = ops[j].cut
                      /\ ops'[j].phase = IF ops[j].phase \in Active THEN "lost" ELSE ops[j].phase
                      /\ ops[j].phase \notin Active => ops'[j] = ops[j]
    OBVIOUS
  <2>1. CASE ops[j].phase \in Active
    <3>1. ops'[j] = [ops[j] EXCEPT !.phase = "lost"] /\ ops[j] \in Call
      BY <1>3, <1>4, <2>1
    <3>2. QED
      BY <1>2, <2>1, <3>1 DEF SameWork
  <2>2. CASE ops[j].phase \notin Active
    BY <1>4, <2>2 DEF SameWork
  <2>3. QED
    BY <2>1, <2>2
<1>9. QED
  BY <1>1, <1>6, <1>7, <1>8 DEF Lasting, SameWork

-----------------------------------------------------------------------------
(* Types.                                                                  *)

LEMMA WritesLast == ASSUME Lasting PROVE \A k : Writes(k) \subseteq Writes(k)'
  BY DEF Lasting, Writes

LEMMA ContentGrows == ASSUME Shape, Lasting PROVE Content \subseteq Content'
<1>1. Len(ops) \in Nat /\ Len(ops') \in Nat /\ Len(ops) <= Len(ops')
  BY DEF Shape, Lasting
<1>2. 0 .. Len(ops) \subseteq 0 .. Len(ops')
  BY <1>1
<1>3. Seq(0 .. Len(ops)) \subseteq Seq(0 .. Len(ops'))
  BY <1>2, SeqMonotonic
<1>4. QED
  BY <1>3 DEF Content

LEMMA ShapeOfSameFiles ==
    ASSUME Shape, Lasting, Len(ops') <= MaxOps, content' = content,
           index' \in [Keys -> Nat], file' \in [Keys -> Nat], restarts' \in 0 .. MaxRestarts,
           strays' \subseteq Keys
    PROVE  Shape'
  BY ContentGrows DEF Shape, Lasting

LEMMA ShapeOfOneFile ==
    ASSUME Shape, Lasting, Len(ops') = Len(ops), NEW f \in Inodes, NEW c \in Content,
           content' = [content EXCEPT ![f] = c],
           \E d \in Dtypes : Len(c.cells) <= Size[d],
           index' \in [Keys -> Nat], file' \in [Keys -> Nat], restarts' = restarts, strays' = strays
    PROVE  Shape'
<1>1. content' \in [Inodes -> Content] /\ Content \subseteq Content'
  BY ContentGrows DEF Shape
<1>2. \A g \in Inodes : \E d \in Dtypes : Len(content'[g].cells) <= Size[d]
  BY DEF Shape
<1>3. QED
  BY <1>1, <1>2 DEF Shape, Lasting

\* The cells of a file once c is put at p.
LEMMA PutCells ==
    ASSUME NEW n \in Nat, NEW cells \in Seq(0 .. n), NEW p \in Nat \ {0}, NEW c \in 0 .. n
    PROVE  /\ Put(cells, p, c) \in Seq(0 .. n)
           /\ Len(Put(cells, p, c)) = IF p < Len(cells) THEN Len(cells) ELSE p
           /\ \A q \in 1 .. Len(Put(cells, p, c)) : Put(cells, p, c)[q] =
                IF q = p THEN c ELSE IF q <= Len(cells) THEN cells[q] ELSE Hole
<1> DEFINE m == IF p < Len(cells) THEN Len(cells) ELSE p
           v(q) == IF q = p THEN c ELSE IF q <= Len(cells) THEN cells[q] ELSE Hole
<1>1. Put(cells, p, c) = [q \in 1 .. m |-> v(q)]
  BY DEF Put
<1>2. m \in Nat /\ \A q \in 1 .. m : v(q) \in 0 .. n
  BY DEF Hole
<1> HIDE DEF m, v
<1>3. [q \in 1 .. m |-> v(q)] \in Seq(0 .. n) /\ Len([q \in 1 .. m |-> v(q)]) = m
  BY <1>2
<1>4. QED
  BY <1>1, <1>2, <1>3 DEF m, v

LEMMA OpenWriteShape ==
    ASSUME Shape, Linked, NEW i \in DOMAIN ops, OpenWrite(i),
           NEW f, f = IF file[ops[i].key] = None THEN i ELSE file[ops[i].key]
    PROVE  /\ Shape' /\ f \in Writes(ops[i].key) /\ f # None /\ f \in Inodes
           /\ file' = [file EXCEPT ![ops[i].key] = f] /\ content' = [content EXCEPT ![f] = Empty]
<1>1. f \in Writes(ops[i].key) /\ f # None /\ f \in Nat
  BY CallsAreCalls DEF Linked, Links, Writes, OpenWrite, Shape, None
<1>2. f \in Inodes
  BY <1>1, InodesAreInodes
<1>3. Empty \in Content /\ Len(Empty.cells) = 0
  BY DEF Empty, Content
<1>4. \E d \in Dtypes : Len(Empty.cells) <= Size[d]
  BY <1>3, FSAssumption
<1>5. content' = [content EXCEPT ![f] = Empty] /\ file' = [file EXCEPT ![ops[i].key] = f]
      /\ index' = index /\ restarts' = restarts /\ strays' = strays
  BY DEF OpenWrite
<1>6. file' \in [Keys -> Nat] /\ index' \in [Keys -> Nat]
  BY <1>1, <1>5 DEF Shape
<1>7. Lasting /\ Len(ops') = Len(ops)
  BY OpenWriteMoves DEF Advance
<1>8. QED
  BY <1>1, <1>2, <1>3, <1>4, <1>5, <1>6, <1>7, ShapeOfOneFile

LEMMA WriteHeaderShape ==
    ASSUME Shape, Linked, NEW i \in DOMAIN ops, WriteHeader(i),
           NEW f, f = ops[i].inode
    PROVE  /\ Shape' /\ f \in Writes(ops[i].key) /\ f \in Inodes
           /\ content' = [content EXCEPT ![f] = [header |-> Size[ops[i].dtype], cells |-> @.cells]]
<1>1. f \in Writes(ops[i].key) /\ f \in Inodes
  BY OpenInodes DEF WriteHeader, Opened
<1> DEFINE n == Size[ops[i].dtype]
           c == [header |-> n, cells |-> content[f].cells]
<1>2. content[f] \in Content
  BY <1>1 DEF Shape
<1>3. [content[f] EXCEPT !.header = n] = c /\ c.cells = content[f].cells /\ c \in Content
  BY <1>2, CallsAreCalls DEF Content, Sizes
<1>4. content' = [content EXCEPT ![f] = [content[f] EXCEPT !.header = n]]
  BY DEF WriteHeader
<1>5. content' = [content EXCEPT ![f] = c]
  BY <1>3, <1>4
<1>6. index' = index /\ file' = file /\ restarts' = restarts /\ strays' = strays
  BY DEF WriteHeader
<1>7. Lasting /\ Len(ops') = Len(ops)
  BY WriteHeaderMoves DEF Advance
<1>8. \E d \in Dtypes : Len(c.cells) <= Size[d]
  BY <1>1, <1>3 DEF Shape
<1> HIDE DEF c
<1>9. Shape'
  BY <1>1, <1>3, <1>5, <1>6, <1>7, <1>8, ShapeOfOneFile DEF Shape
<1>10. QED
  BY <1>1, <1>5, <1>9 DEF c

LEMMA WriteCellShape ==
    ASSUME Shape, Linked, NEW i \in DOMAIN ops, WriteCell(i),
           NEW f, f = ops[i].inode, NEW m, m = Len(ops[i].moved) + 1
    PROVE  /\ Shape' /\ f \in Writes(ops[i].key) /\ f \in Inodes
           /\ content' = [content EXCEPT ![f] =
                    [header |-> @.header, cells |-> Put(@.cells, m, i)]]
<1>1. f \in Writes(ops[i].key) /\ f \in Inodes /\ ops[i].size = Size[ops[i].dtype]
  BY OpenInodes DEF WriteCell, Opened, Linked, Tidy
<1> DEFINE s == Put(content[f].cells, m, i)
           c == [header |-> content[f].header, cells |-> s]
<1>2. content[f] \in Content /\ content[f].cells \in Seq(0 .. Len(ops))
      /\ content[f].header \in {NoHeader} \cup Sizes
  BY <1>1 DEF Shape, Content
<1>3. m \in Nat \ {0} /\ i \in 0 .. Len(ops) /\ Len(ops) \in Nat /\ m <= Size[ops[i].dtype]
  <2>1. Len(ops) \in Nat /\ i \in 1 .. Len(ops)
    BY DEF Shape
  <2>2. Len(ops[i].moved) \in Nat /\ Size[ops[i].dtype] \in Nat
    BY CallsAreCalls, FSAssumption
  <2>3. Len(ops[i].moved) < Size[ops[i].dtype]
    BY <1>1 DEF WriteCell
  <2>4. QED
    BY <2>1, <2>2, <2>3
<1>4. s \in Seq(0 .. Len(ops)) /\ Len(s) = IF m < Len(content[f].cells) THEN Len(content[f].cells) ELSE m
  <2> PICK n, r : n = Len(ops) /\ r = content[f].cells
    OBVIOUS
  <2>1. n \in Nat /\ r \in Seq(0 .. n) /\ m \in Nat \ {0} /\ i \in 0 .. n
    BY <1>2, <1>3
  <2>2. /\ Put(r, m, i) \in Seq(0 .. n)
        /\ Len(Put(r, m, i)) = IF m < Len(r) THEN Len(r) ELSE m
    BY <2>1, PutCells
  <2>3. QED
    BY <2>2
<1>5. \E d \in Dtypes : Len(s) <= Size[d]
  <2>1. CASE m < Len(content[f].cells)
    BY <1>1, <1>4, <2>1 DEF Shape
  <2>2. CASE ~ (m < Len(content[f].cells))
    BY <1>3, <1>4, <2>2, CallsAreCalls
  <2>3. QED
    BY <2>1, <2>2
<1>6. content' = [content EXCEPT ![f] = [content[f] EXCEPT !.cells = s]]
  BY DEF WriteCell
<1>7. index' = index /\ file' = file /\ restarts' = restarts /\ strays' = strays
  BY DEF WriteCell
<1> HIDE DEF s
<1>8. [content[f] EXCEPT !.cells = s] = c /\ c.cells = s /\ c \in Content
  BY <1>2, <1>4 DEF Content
<1>9. Lasting /\ Len(ops') = Len(ops)
  BY CellMoves, CallsAreCalls DEF WriteCell, Advance
<1>10. content' = [content EXCEPT ![f] = c]
  BY <1>6, <1>8
<1>11. \E d \in Dtypes : Len(c.cells) <= Size[d]
  BY <1>5, <1>8
<1> HIDE DEF c
<1>12. Shape'
  BY <1>1, <1>7, <1>8, <1>9, <1>10, <1>11, ShapeOfOneFile DEF Shape
<1>13. QED
  BY <1>1, <1>10, <1>12 DEF c, s

LEMMA LinksStay ==
    ASSUME Shape, Linked, Lasting, NEW k \in Keys,
           file'[k] \in {file[k], None}, index'[k] \in {index[k], None}
    PROVE  Links(k)'
<1>1. Links(k) /\ Writes(k) \subseteq Writes(k)'
  BY WritesLast DEF Linked
<1>2. index[k] # None => index[k] \in DOMAIN ops /\ ops'[index[k]].phase = "done"
  BY <1>1 DEF Links, Lasting, Active, Writes
<1>3. QED
  BY <1>1, <1>2 DEF Links

\* A call with no other change than in clean and cut, or that has ended,
\* stays tidy.
LEMMA TidyStays ==
    ASSUME Shape, Linked, Lasting, NEW j \in DOMAIN ops, SameWork(j),
           ops'[j].phase \in {ops[j].phase, "lost"}
    PROVE  Tidy(j)'
<1>1. Tidy(j)
  BY DEF Linked
<1>2. \A k : Writes(k) \subseteq Writes(k)'
  BY WritesLast
<1>3. ASSUME NEW k, k = ops[j].key PROVE Writes(k) \subseteq Writes(k)' /\ ops'[j].key = k
  BY <1>2, <1>3 DEF SameWork
<1>4. QED
  BY <1>1, <1>3 DEF Tidy, SameWork, Opened, Writes

LEMMA LinkedAdvance ==
    ASSUME Shape, Linked, NEW i \in DOMAIN ops, Advance(i), Tidy(i)', \A k \in Keys : Links(k)'
    PROVE  Linked'
<1>1. DOMAIN ops' = DOMAIN ops /\ Lasting
  BY DEF Advance, Lasting, Shape
<1>2. ASSUME NEW j \in DOMAIN ops' PROVE Tidy(j)'
  <2>1. CASE j # i
    BY <1>1, <2>1, TidyStays DEF Advance, SameWork
  <2>2. QED
    BY <2>1
<1>3. QED
  BY <1>2 DEF Linked

LEMMA OpenWriteTyped ==
    ASSUME Shape, Linked, NEW i \in DOMAIN ops, OpenWrite(i) PROVE Shape' /\ Linked'
<1> DEFINE f == IF file[ops[i].key] = None THEN i ELSE file[ops[i].key]
<1>1. /\ Shape' /\ f \in Writes(ops[i].key) /\ f # None
      /\ file' = [file EXCEPT ![ops[i].key] = f] /\ index' = index
  BY OpenWriteShape DEF OpenWrite
<1>2. Advance(i) /\ Moves(i, "open", f, ops[i].size, ops[i].moved) /\ Lasting
  BY OpenWriteMoves DEF Advance
<1> HIDE DEF f
<1>3. Tidy(i) /\ ops[i].phase = "queued" /\ \A k : Writes(k) \subseteq Writes(k)'
  BY <1>2, WritesLast DEF Linked, OpenWrite
<1>4. Tidy(i)'
  <2>1. ops'[i].key = ops[i].key /\ ops'[i].entry = ops[i].entry
    BY <1>2 DEF Lasting
  <2>2. QED
    BY <1>1, <1>2, <1>3, <2>1 DEF Tidy, Moves, Writes
<1>5. ASSUME NEW k \in Keys PROVE Links(k)'
  <2>1. CASE k = ops[i].key
    <3>1. /\ index'[k] = index[k] /\ index[k] \in {None} \cup Writes(k)
          /\ index[k] # None => index[k] \in DOMAIN ops /\ ops[index[k]].phase = "done"
      BY <1>1 DEF Linked, Links, Writes
    <3>4. index[k] # None => ops'[index[k]].phase = "done"
      BY <1>2, <3>1 DEF Lasting, Active
    <3>2. file'[k] = f
      BY <1>1, <2>1 DEF Shape
    <3>5. QED
      BY <1>1, <1>3, <2>1, <3>1, <3>2, <3>4 DEF Links
  <2>2. CASE k # ops[i].key
    BY <1>1, <1>2, <2>2, LinksStay
  <2>3. QED
    BY <2>1, <2>2
<1>6. QED
  BY <1>1, <1>2, <1>4, <1>5, LinkedAdvance

\* A thread's step that changes neither the index nor the names of files.
LEMMA QuietAdvance ==
    ASSUME Shape, Linked, NEW i \in DOMAIN ops, Advance(i), Tidy(i)', UNCHANGED <<index, file>>
    PROVE  Linked'
<1>1. \A k \in Keys : Links(k)'
  BY LinksStay DEF Advance
<1>2. QED
  BY <1>1, LinkedAdvance

LEMMA WriteHeaderTyped ==
    ASSUME Shape, Linked, NEW i \in DOMAIN ops, WriteHeader(i) PROVE Shape' /\ Linked'
<1>1. Shape' /\ UNCHANGED <<index, file>>
  BY WriteHeaderShape DEF WriteHeader
<1>2. Advance(i) /\ Moves(i, "moving", ops[i].inode, Size[ops[i].dtype], ops[i].moved) /\ Lasting
  BY WriteHeaderMoves DEF Advance
<1>3. Tidy(i) /\ ops[i].phase = "open" /\ \A k : Writes(k) \subseteq Writes(k)'
  BY <1>2, WritesLast DEF Linked, WriteHeader
<1>4. Size[ops[i].dtype] \in Nat
  BY CallsAreCalls, FSAssumption
<1>5. ops'[i].key = ops[i].key /\ ops'[i].entry = ops[i].entry /\ ops'[i].dtype = ops[i].dtype
  BY <1>2 DEF Lasting
<1>6. Tidy(i)'
  BY <1>2, <1>3, <1>4, <1>5 DEF Tidy, Moves, Opened, Writes
<1>7. QED
  BY <1>1, <1>2, <1>6, QuietAdvance

\* The next cell of a call that may move one.
LEMMA CellTidy ==
    ASSUME Shape, Linked, NEW i \in DOMAIN ops, NEW c, Advance(i), ops[i].phase = "moving",
           Moves(i, "moving", ops[i].inode, ops[i].size, Append(ops[i].moved, c)),
           Len(ops[i].moved) < ops[i].size
    PROVE  Tidy(i)'
<1>1. Tidy(i) /\ (\A k : Writes(k) \subseteq Writes(k)') /\ Lasting
  BY WritesLast DEF Linked, Advance
<1>2. ops'[i].key = ops[i].key /\ ops'[i].entry = ops[i].entry /\ ops'[i].dtype = ops[i].dtype
      /\ ops'[i].kind = ops[i].kind
  BY <1>1 DEF Lasting
<1>3. Len(Append(ops[i].moved, c)) <= ops[i].size
  BY CallsAreCalls
<1>4. QED
  BY <1>1, <1>2, <1>3 DEF Tidy, Moves, Opened, Writes

LEMMA WriteCellTyped ==
    ASSUME Shape, Linked, NEW i \in DOMAIN ops, WriteCell(i) PROVE Shape' /\ Linked'
<1>1. Shape' /\ UNCHANGED <<index, file>>
  BY WriteCellShape DEF WriteCell
<1>2. Advance(i) /\ Moves(i, "moving", ops[i].inode, ops[i].size, Append(ops[i].moved, i))
  BY CellMoves, CallsAreCalls DEF WriteCell
<1>3. QED
  BY <1>1, <1>2, CellTidy, QuietAdvance DEF WriteCell

\* A call that stays as far as it has come, and ends or reads on.
LEMMA EndTidy ==
    ASSUME Shape, Linked, NEW i \in DOMAIN ops, Advance(i), NEW phase \in Outcomes,
           Moves(i, phase, ops[i].inode, ops[i].size, ops[i].moved)
    PROVE  Tidy(i)'
<1>1. Tidy(i) /\ (\A k : Writes(k) \subseteq Writes(k)') /\ Lasting
  BY WritesLast DEF Linked, Advance
<1>2. ops'[i].key = ops[i].key /\ ops'[i].entry = ops[i].entry
  BY <1>1 DEF Lasting
<1>3. phase \notin {"queued", "open", "moving"}
  BY DEF Outcomes
<1>4. QED
  BY <1>1, <1>2, <1>3 DEF Tidy, Moves, Opened, Writes

LEMMA EndWriteTyped ==
    ASSUME Shape, Linked, NEW i \in DOMAIN ops, EndWrite(i)
    PROVE  Shape' /\ Linked' /\ index' = [index EXCEPT ![ops[i].key] = i] /\ ops[i].key \in Keys
<1>1. /\ Move(i, "done") /\ ops[i].phase \in Active /\ "done" \in Outcomes
      /\ "done" \in Active \cup Outcomes
      /\ UNCHANGED <<file, content, restarts>> /\ index' = [index EXCEPT ![ops[i].key] = i]
      /\ strays' = strays \ {ops[i].key}
  BY DEF EndWrite, Active, Outcomes
<1>2. Advance(i) /\ Moves(i, "done", ops[i].inode, ops[i].size, ops[i].moved)
  BY <1>1, EndMoves
<1>3. Lasting /\ Len(ops') <= MaxOps /\ ops[i].key \in Keys
  BY <1>2, CallsAreCalls DEF Advance, Shape
<1>4. Shape'
  BY <1>1, <1>3, CallsAreCalls, ShapeOfSameFiles DEF Shape
<1>5. ASSUME NEW k \in Keys PROVE Links(k)'
  <2>1. CASE k = ops[i].key
    <3>1. index'[k] = i /\ ops'[i].phase = "done"
      BY <1>1, <1>2, <2>1 DEF Shape, Moves
    <3>2. i \in Writes(k)'
      BY <1>3, <2>1, WritesLast DEF EndWrite, Writes
    <3>3. file'[k] \in {None} \cup Writes(k)'
      BY <1>1, <1>3, WritesLast DEF Linked, Links
    <3>4. QED
      BY <3>1, <3>2, <3>3 DEF Links
  <2>2. CASE k # ops[i].key
    BY <1>1, <1>3, <2>2, LinksStay
  <2>3. QED
    BY <2>1, <2>2
<1>6. QED
  BY <1>1, <1>2, <1>3, <1>4, <1>5, EndTidy, LinkedAdvance

\* The steps of a thread that leave index, names and files alone.
Keeping == UNCHANGED <<index, file, content, restarts, strays>>

LEMMA KeepingShape == ASSUME Shape, Keeping, NEW i \in DOMAIN ops, Advance(i) PROVE Shape'
  BY ShapeOfSameFiles DEF Shape, Advance, Keeping

LEMMA FailWriteTyped ==
    ASSUME Shape, Linked, NEW i \in DOMAIN ops, FailWrite(i) PROVE Shape' /\ Linked'
<1>1. Move(i, "failed") /\ ops[i].phase \in Active /\ "failed" \in Outcomes
      /\ "failed" \in Active \cup Outcomes /\ Keeping
  BY DEF FailWrite, Outcomes, Keeping
<1>2. Advance(i) /\ Moves(i, "failed", ops[i].inode, ops[i].size, ops[i].moved)
  BY <1>1, EndMoves
<1>3. QED
  BY <1>1, <1>2, EndTidy, QuietAdvance, KeepingShape DEF Keeping

LEMMA FailReadTyped ==
    ASSUME Shape, Linked, NEW i \in DOMAIN ops, FailRead(i) PROVE Shape' /\ Linked'
<1>1. Move(i, "failed") /\ ops[i].phase \in Active /\ "failed" \in Outcomes
      /\ "failed" \in Active \cup Outcomes /\ Keeping
  BY DEF FailRead, Outcomes, Keeping
<1>2. Advance(i) /\ Moves(i, "failed", ops[i].inode, ops[i].size, ops[i].moved)
  BY <1>1, EndMoves
<1>3. QED
  BY <1>1, <1>2, EndTidy, QuietAdvance, KeepingShape DEF Keeping

LEMMA EndReadTyped ==
    ASSUME Shape, Linked, NEW i \in DOMAIN ops, EndRead(i) PROVE Shape' /\ Linked'
<1>1. PICK p \in Outcomes : Move(i, p)
  BY DEF EndRead, Outcomes
<1>2. ops[i].phase \in Active /\ Keeping /\ p \in Active \cup Outcomes
  BY DEF EndRead, Active, Keeping
<1>3. Advance(i) /\ Moves(i, p, ops[i].inode, ops[i].size, ops[i].moved)
  BY <1>1, <1>2, EndMoves
<1>4. QED
  BY <1>2, <1>3, EndTidy, QuietAdvance, KeepingShape DEF Keeping

LEMMA OpenReadTyped ==
    ASSUME Shape, Linked, NEW i \in DOMAIN ops, OpenRead(i) PROVE Shape' /\ Linked'
<1> DEFINE f == file[ops[i].key]
           p == IF f = None THEN "void" ELSE "open"
<1>1. Keeping /\ ops[i].phase = "queued"
  BY DEF OpenRead, Keeping
<1>2. Advance(i) /\ Moves(i, p, f, ops[i].size, ops[i].moved)
  BY OpenReadMoves
<1>3. Tidy(i) /\ (\A k : Writes(k) \subseteq Writes(k)') /\ Lasting
      /\ f \in {None} \cup Writes(ops[i].key)
  BY <1>2, WritesLast, CallsAreCalls DEF Linked, Links, Advance
<1>4. ops'[i].key = ops[i].key /\ ops'[i].entry = ops[i].entry /\ ops'[i].kind = ops[i].kind
      /\ ops[i].kind = "read"
  BY <1>3 DEF Lasting, OpenRead
<1>5. p \in {"void", "open"} /\ (p = "open" => f # None)
  OBVIOUS
<1> HIDE DEF f, p
<1>6. Tidy(i)'
  BY <1>1, <1>2, <1>3, <1>4, <1>5 DEF Tidy, Moves, Opened, Writes
<1>7. QED
  BY <1>1, <1>2, <1>6, QuietAdvance, KeepingShape DEF Keeping

LEMMA ReadHeaderTyped ==
    ASSUME Shape, Linked, NEW i \in DOMAIN ops, ReadHeader(i) PROVE Shape' /\ Linked'
<1> DEFINE n == content[ops[i].inode].header
           p == IF n = NoHeader THEN "void" ELSE "moving"
<1>1. Keeping /\ ops[i].phase = "open"
  BY DEF ReadHeader, Keeping
<1>2. Advance(i) /\ Moves(i, p, ops[i].inode, n, ops[i].moved)
  BY ReadHeaderMoves
<1>3. Tidy(i) /\ (\A k : Writes(k) \subseteq Writes(k)') /\ Lasting /\ Shape'
  BY <1>1, <1>2, WritesLast, KeepingShape DEF Linked, Advance
<1>4. ops'[i].key = ops[i].key /\ ops'[i].entry = ops[i].entry /\ ops'[i].kind = ops[i].kind
      /\ ops[i].kind = "read"
  BY <1>3 DEF Lasting, ReadHeader
<1>5. p \in {"void", "moving"} /\ ops[i].moved = <<>> /\ Len(ops[i].moved) = 0
  BY <1>1, <1>3 DEF Tidy
<1>6. n \in Nat
  <2>1. content[ops[i].inode] \in Content
    BY <1>1, OpenInodes DEF Opened, Shape
  <2>2. QED
    BY <2>1, FSAssumption DEF Content, Sizes, NoHeader
<1> HIDE DEF n, p
<1>7. Tidy(i)'
  BY <1>1, <1>2, <1>3, <1>4, <1>5, <1>6 DEF Tidy, Moves, Opened, Writes
<1>8. QED
  BY <1>1, <1>2, <1>3, <1>7, QuietAdvance DEF Keeping

LEMMA ReadCellTyped ==
    ASSUME Shape, Linked, NEW i \in DOMAIN ops, ReadCell(i),
           NEW c, c = content[ops[i].inode].cells[Len(ops[i].moved) + 1]
    PROVE  /\ Shape' /\ Linked' /\ Advance(i)
           /\ Moves(i, "moving", ops[i].inode, ops[i].size, Append(ops[i].moved, c))
<1>1. Keeping /\ ops[i].phase = "moving" /\ Len(ops[i].moved) < ops[i].size
      /\ Len(ops[i].moved) < Len(content[ops[i].inode].cells)
  BY DEF ReadCell, Keeping, HasMore
<1>2. content[ops[i].inode].cells \in Seq(0 .. Len(ops)) /\ Len(ops) \in Nat
  <2>1. content[ops[i].inode] \in Content
    BY <1>1, OpenInodes DEF Opened, Shape
  <2>2. QED
    BY <2>1 DEF Content, Shape
<1>3. Len(ops[i].moved) + 1 \in 1 .. Len(content[ops[i].inode].cells)
  BY <1>1, <1>2, CallsAreCalls
<1>4. c \in Nat
  BY <1>2, <1>3, SMTT(40)
<1>5. ops' = [ops EXCEPT ![i].moved = Append(@, c)]
  BY DEF ReadCell
<1>6. Advance(i) /\ Moves(i, "moving", ops[i].inode, ops[i].size, Append(ops[i].moved, c))
  BY <1>1, <1>4, <1>5, CellMoves
<1>7. QED
  BY <1>1, <1>6, CellTidy, QuietAdvance, KeepingShape DEF Keeping

LEMMA BeginWriteTyped ==
    ASSUME Shape, Linked, NEW k \in Keys, NEW d \in Dtypes, BeginWrite(k, d)
    PROVE  Shape' /\ Linked'
<1> DEFINE z == Len(ops) + 1
           c == \A j \in Writes(k) : ~ Running(j, k)
<1>0. WriteAdded(k, d, z)
  BY BeginWriteAdds
<1>1. /\ Lasting /\ Len(ops') <= MaxOps
      /\ DOMAIN ops' = DOMAIN ops \cup {z} /\ \A j \in DOMAIN ops : j # z
      /\ ops'[z] = NewOp("write", k, d, z, c)
      /\ \A j \in DOMAIN ops : SameWork(j) /\ ops'[j].phase = ops[j].phase
  BY <1>0 DEF WriteAdded
<1>2. UNCHANGED <<index, file, content, restarts, strays>>
  BY DEF BeginWrite
<1>3. Shape'
  BY <1>1, <1>2, ShapeOfSameFiles DEF Shape
<1>4. \A q \in Keys : Links(q)'
  BY <1>1, <1>2, LinksStay
<1> HIDE DEF z, c
<1>5. ASSUME NEW j \in DOMAIN ops' PROVE Tidy(j)'
  <2>1. CASE j \in DOMAIN ops
    BY <1>1, <2>1, TidyStays
  <2>2. CASE j = z
    BY <1>1, <2>2 DEF NewOp, Tidy, Opened, Writes, None
  <2>3. QED
    BY <1>1, <2>1, <2>2
<1>6. QED
  BY <1>3, <1>4, <1>5 DEF Linked

LEMMA BeginReadTyped ==
    ASSUME Shape, Linked, NEW k \in Keys, BeginRead(k) PROVE Shape' /\ Linked'
<1> DEFINE z == Len(ops) + 1
<1>1. /\ Lasting /\ Len(ops') <= MaxOps
      /\ DOMAIN ops' = DOMAIN ops \cup {z} /\ \A j \in DOMAIN ops : j # z
      /\ ops'[z] = NewOp("read", k, ops[index[k]].dtype, index[k], Settled(k))
      /\ \A j \in DOMAIN ops : ops'[j] = ops[j]
  BY BeginReadAdds
<1>2. UNCHANGED <<index, file, content, restarts, strays>>
  BY DEF BeginRead
<1>3. Shape'
  BY <1>1, <1>2, ShapeOfSameFiles DEF Shape
<1>4. \A q \in Keys : Links(q)'
  BY <1>1, <1>2, LinksStay
<1>5. index[k] \in Writes(k) /\ Writes(k) \subseteq Writes(k)'
  BY <1>1, WritesLast DEF BeginRead, Linked, Links
<1> HIDE DEF z
<1>6. ASSUME NEW j \in DOMAIN ops' PROVE Tidy(j)'
  <2>1. CASE j \in DOMAIN ops
    BY <1>1, <2>1, TidyStays DEF SameWork
  <2>2. CASE j = z
    BY <1>1, <1>5, <2>2 DEF NewOp, Tidy, Opened, Writes, None
  <2>3. QED
    BY <1>1, <2>1, <2>2
<1>7. QED
  BY <1>3, <1>4, <1>6 DEF Linked

\* Steps that begin no call, and of which no thread is the actor.
LEMMA OtherTyped ==
    ASSUME Shape, Linked,
           (\E k \in Keys : ReadMissing(k) \/ Delete(k) \/ FailDelete(k)) \/ Restart \/ UNCHANGED vars
    PROVE  /\ Shape' /\ Linked' /\ Lasting /\ Len(ops') = Len(ops) /\ DOMAIN ops' = DOMAIN ops
           /\ \A j \in DOMAIN ops :
                /\ SameWork(j) /\ ops'[j].clean = ops[j].clean
                /\ ops'[j].phase \in {ops[j].phase, "lost"}
                /\ ~ Restart => ops'[j].phase = ops[j].phase
<1>1. /\ Lasting /\ Len(ops') = Len(ops)
      /\ \A j \in DOMAIN ops :
            /\ SameWork(j) /\ ops'[j].clean = ops[j].clean
            /\ ops'[j].phase \in {ops[j].phase, "lost"}
            /\ ~ Restart => ops'[j].phase = ops[j].phase
  <2>1. ASSUME NEW k \in Keys, Delete(k)
        PROVE  /\ Lasting /\ Len(ops') = Len(ops)
               /\ \A j \in DOMAIN ops :
                    SameWork(j) /\ ops'[j].clean = ops[j].clean /\ ops'[j].phase = ops[j].phase
    BY <2>1, DeleteCuts DEF Delete
  <2>2. CASE Restart
    BY <2>2, RestartLoses
  <2>3. CASE ops' = ops
    BY <2>3 DEF Lasting, SameWork, Shape
  <2>4. QED
    BY <2>1, <2>2, <2>3 DEF ReadMissing, FailDelete, vars
<1>2. /\ content' = content /\ restarts' \in 0 .. MaxRestarts /\ strays' \subseteq Keys
      /\ index' \in [Keys -> Nat] /\ file' \in [Keys -> Nat]
      /\ \A k \in Keys : index'[k] \in {index[k], None} /\ file'[k] \in {file[k], None}
  <2>1. CASE \E k \in Keys : ReadMissing(k) \/ Delete(k) \/ FailDelete(k)
    <3>1. PICK k \in Keys : ReadMissing(k) \/ Delete(k) \/ FailDelete(k)
      BY <2>1
    <3>2. /\ content' = content /\ restarts' = restarts
          /\ index' = [index EXCEPT ![k] = None]
          /\ file' = file \/ file' = [file EXCEPT ![k] = None]
          /\ strays' \subseteq strays \cup {k}
      BY <3>1 DEF ReadMissing, Delete, FailDelete
    <3>3. index \in [Keys -> Nat] /\ file \in [Keys -> Nat] /\ restarts \in 0 .. MaxRestarts
          /\ None \in Nat /\ strays \subseteq Keys
      BY DEF Shape, None
    <3>4. index' \in [Keys -> Nat] /\ \A q \in Keys : index'[q] \in {index[q], None}
      BY <3>2, <3>3
    <3>5. file' \in [Keys -> Nat] /\ \A q \in Keys : file'[q] \in {file[q], None}
      BY <3>2, <3>3
    <3>6. QED
      BY <3>2, <3>3, <3>4, <3>5
  <2>2. CASE Restart
    BY <2>2, FSAssumption DEF Restart, Shape, None
  <2>3. CASE UNCHANGED vars
    BY <2>3 DEF vars, Shape
  <2>4. QED
    BY <2>1, <2>2, <2>3
<1>3. Shape'
  BY <1>1, <1>2, ShapeOfSameFiles DEF Shape
<1>4. \A k \in Keys : Links(k)'
  BY <1>1, <1>2, LinksStay
<1>5. DOMAIN ops' = DOMAIN ops
  BY <1>1 DEF Lasting, Shape
<1>6. \A j \in DOMAIN ops' : Tidy(j)'
  BY <1>1, <1>5, TidyStays
<1>7. QED
  BY <1>1, <1>3, <1>4, <1>5, <1>6 DEF Linked

LEMMA InitTyped == Init => Shape /\ Linked
<1> SUFFICES ASSUME Init PROVE Shape /\ Linked
  OBVIOUS
<1>1. Empty \in Content /\ Len(Empty.cells) = 0
  BY DEF Empty, Content
<1>2. \E d \in Dtypes : 0 <= Size[d]
  BY FSAssumption
<1>3. QED
  BY <1>1, <1>2, FSAssumption DEF Init, Shape, Linked, Links, None

LEMMA NextTyped == Shape /\ Linked /\ [Next]_vars => Shape' /\ Linked'
<1> SUFFICES ASSUME Shape, Linked, [Next]_vars PROVE Shape' /\ Linked'
  OBVIOUS
<1>1. ASSUME NEW k \in Keys, NEW d \in Dtypes, BeginWrite(k, d) PROVE Shape' /\ Linked'
  BY <1>1, BeginWriteTyped
<1>2. ASSUME NEW k \in Keys, BeginRead(k) PROVE Shape' /\ Linked'
  BY <1>2, BeginReadTyped
<1>3. ASSUME NEW i \in DOMAIN ops,
             OpenWrite(i) \/ WriteHeader(i) \/ WriteCell(i) \/ EndWrite(i) \/ FailWrite(i)
      PROVE  Shape' /\ Linked'
  BY <1>3, OpenWriteTyped, WriteHeaderTyped, WriteCellTyped, EndWriteTyped, FailWriteTyped
<1>4. ASSUME NEW i \in DOMAIN ops,
             OpenRead(i) \/ ReadHeader(i) \/ ReadCell(i) \/ EndRead(i) \/ FailRead(i)
      PROVE  Shape' /\ Linked'
  BY <1>4, OpenReadTyped, ReadHeaderTyped, ReadCellTyped, EndReadTyped, FailReadTyped
<1>5. CASE (\E k \in Keys : ReadMissing(k) \/ Delete(k) \/ FailDelete(k)) \/ Restart \/ UNCHANGED vars
  BY <1>5, OtherTyped
<1>6. QED
  BY <1>1, <1>2, <1>3, <1>4, <1>5 DEF Next

\* The index, the names of files and the calls refer to writes of their own
\* key, and no file holds more than the largest tensor, whatever calls
\* overlap, fail or are lost.
THEOREM FilesTypeCorrect == Spec => []TypeOK
<1>1. Shape /\ Linked => TypeOK
  <2> SUFFICES ASSUME Shape, Linked PROVE TypeOK
    OBVIOUS
  <2>1. \A f \in Inodes : content[f] \in Content
    BY DEF Shape
  <2>2. 0 .. Len(ops) = {Hole} \cup DOMAIN ops
    BY DEF Shape, Hole
  <2>3. \A f \in Inodes :
            /\ content[f].header \in {NoHeader} \cup {Size[d] : d \in Dtypes}
            /\ content[f].cells \in Seq({Hole} \cup DOMAIN ops)
    BY <2>1, <2>2 DEF Content, Sizes
  <2>4. \A f \in Inodes : \E d \in Dtypes : Len(content[f].cells) <= Size[d]
    BY DEF Shape
  <2>5. \A k \in Keys : index[k] \in {None} \cup Writes(k) /\ file[k] \in {None} \cup Writes(k)
    BY DEF Linked, Links
  <2>6. \A i \in DOMAIN ops : Tidy(i) /\ ops[i].phase \in Active \cup Outcomes
    BY CallsAreCalls DEF Linked
  <2>7. QED
    BY <2>3, <2>4, <2>5, <2>6 DEF TypeOK, Shape, Tidy
<1>2. QED
  BY <1>1, InitTyped, NextTyped, PTL DEF Spec

-----------------------------------------------------------------------------
(* Who writes a key.                                                       *)

WriterStep(i) == OpenWrite(i) \/ WriteHeader(i) \/ WriteCell(i) \/ EndWrite(i) \/ FailWrite(i)
ReaderStep(i) == OpenRead(i) \/ ReadHeader(i) \/ ReadCell(i) \/ EndRead(i) \/ FailRead(i)
Others ==
    \/ \E k \in Keys : ReadMissing(k) \/ Delete(k) \/ FailDelete(k)
    \/ Restart \/ UNCHANGED vars


LEMMA ThreadsAdvance ==
    ASSUME Shape, Linked, NEW i \in DOMAIN ops, WriterStep(i) \/ ReaderStep(i)
    PROVE  Advance(i)
<1>1. CASE WriterStep(i)
  <2>1. CASE OpenWrite(i)
    BY <2>1, OpenWriteMoves
  <2>2. CASE WriteHeader(i)
    BY <2>2, WriteHeaderMoves
  <2>3. CASE WriteCell(i)
    BY <2>3, CellMoves, CallsAreCalls DEF WriteCell
  <2>4. CASE EndWrite(i)
    BY <2>4, EndMoves DEF EndWrite, Active, Outcomes
  <2>5. CASE FailWrite(i)
    BY <2>5, EndMoves DEF FailWrite, Outcomes
  <2>6. QED
    BY <1>1, <2>1, <2>2, <2>3, <2>4, <2>5 DEF WriterStep
<1>2. CASE ReaderStep(i)
  <2>1. CASE OpenRead(i)
    BY <2>1, OpenReadMoves
  <2>2. CASE ReadHeader(i)
    BY <2>2, ReadHeaderMoves
  <2>3. CASE ReadCell(i)
    BY <2>3, ReadCellTyped
  <2>4. CASE EndRead(i)
    BY <2>4, EndMoves DEF EndRead, Active, Outcomes
  <2>5. CASE FailRead(i)
    BY <2>5, EndMoves DEF FailRead, Outcomes
  <2>6. QED
    BY <1>2, <2>1, <2>2, <2>3, <2>4, <2>5 DEF ReaderStep
<1>3. QED
  BY <1>1, <1>2

\* No call starts to run by a step that begins none.
LEMMA NothingAwakes ==
    ASSUME Shape, Linked, Others \/ \E i \in DOMAIN ops : WriterStep(i) \/ ReaderStep(i)
    PROVE  /\ Lasting /\ DOMAIN ops' = DOMAIN ops
           /\ \A j \in DOMAIN ops :
                ops'[j].clean = ops[j].clean /\ (ops'[j].phase \in Active => ops[j].phase \in Active)
<1>1. CASE Others
  BY <1>1, OtherTyped DEF Others, Active
<1>2. ASSUME NEW i \in DOMAIN ops, WriterStep(i) \/ ReaderStep(i)
      PROVE  /\ Lasting /\ DOMAIN ops' = DOMAIN ops
             /\ \A j \in DOMAIN ops :
                ops'[j].clean = ops[j].clean /\ (ops'[j].phase \in Active => ops[j].phase \in Active)
  BY <1>2, ThreadsAdvance DEF Advance, Lasting, Shape
<1>3. QED
  BY <1>1, <1>2

LEMMA NextAlone == Shape /\ Linked /\ Alone /\ [Next]_vars => Alone'
<1> SUFFICES ASSUME Shape, Linked, Alone, [Next]_vars PROVE Alone'
  OBVIOUS
<1>1. ASSUME NEW k \in Keys, NEW d \in Dtypes, BeginWrite(k, d) PROVE Alone'
  <2> DEFINE z == Len(ops) + 1
             c == \A j \in Writes(k) : ~ Running(j, k)
  <2>0. WriteAdded(k, d, z)
    BY <1>1, BeginWriteAdds
  <2>1. /\ Lasting /\ DOMAIN ops' = DOMAIN ops \cup {z}
        /\ \A j \in DOMAIN ops : j < z /\ j # z
        /\ ops'[z] = NewOp("write", k, d, z, c)
        /\ \A j \in DOMAIN ops :
            /\ SameWork(j) /\ ops'[j].phase = ops[j].phase
            /\ ops'[j].clean <=> ops[j].clean /\ ~ Running(j, k)
    BY <2>0 DEF WriteAdded
  <2>2. z \in Nat /\ DOMAIN ops \subseteq Nat
    BY DEF Shape
  <2> HIDE DEF z
  <2>3. ops'[z].key = k /\ ops'[z].clean = c
    BY <2>1 DEF NewOp
  <2> SUFFICES ASSUME NEW i \in DOMAIN ops', NEW j \in DOMAIN ops', i < j,
                      ops'[j].kind = "write", ops'[i].kind = "write",
                      ops'[i].key = ops'[j].key, ops'[i].phase \in Active
               PROVE  ~ ops'[i].clean /\ ~ ops'[j].clean
    BY DEF Alone, Running
  <2>4. i \in DOMAIN ops
    BY <2>1, <2>2
  <2>5. CASE j \in DOMAIN ops
    <3>1. Running(i, ops[j].key) /\ ops[j].kind = "write" /\ ops[i].kind = "write"
      BY <2>1, <2>4, <2>5 DEF SameWork, Running
    <3>2. QED
      BY <2>1, <2>4, <2>5, <3>1 DEF Alone
  <2>6. CASE j = z
    <3>1. i \in Writes(k) /\ Running(i, k)
      BY <2>1, <2>3, <2>4, <2>6 DEF SameWork, Running, Writes
    <3>2. QED
      BY <2>1, <2>3, <2>4, <2>6, <3>1
  <2>7. QED
    BY <2>1, <2>5, <2>6
<1>2. ASSUME NEW k \in Keys, BeginRead(k) PROVE Alone'
  <2> DEFINE z == Len(ops) + 1
  <2>1. /\ DOMAIN ops' = DOMAIN ops \cup {z} /\ \A j \in DOMAIN ops : ops'[j] = ops[j]
        /\ ops'[z] = NewOp("read", k, ops[index[k]].dtype, index[k], Settled(k))
    BY <1>2, BeginReadAdds
  <2>2. ops'[z].kind = "read"
    BY <2>1 DEF NewOp
  <2> HIDE DEF z
  <2>3. QED
    BY <2>1, <2>2 DEF Alone, Running
<1>3. CASE Others \/ \E i \in DOMAIN ops : WriterStep(i) \/ ReaderStep(i)
  BY <1>3, NothingAwakes DEF Alone, Running, Lasting
<1>4. QED
  BY <1>1, <1>2, <1>3 DEF Next, Others, WriterStep, ReaderStep

\* Two writes of a key that run are not clean.
LEMMA NoRivals ==
    ASSUME Alone, Shape, NEW i \in DOMAIN ops, NEW j \in DOMAIN ops, i # j,
           ops[i].kind = "write", ops[j].kind = "write", ops[i].key = ops[j].key,
           ops[i].phase \in Active, ops[j].phase \in Active
    PROVE  ~ ops[i].clean /\ ~ ops[j].clean
<1>1. i < j \/ j < i
  BY CallsAreCalls
<1>2. QED
  BY <1>1 DEF Alone, Running

\* Nobody writes a key that is settled.
LEMMA SettledIsQuiet ==
    ASSUME Shape, Linked, Alone, NEW k \in Keys, Settled(k), NEW j \in Writes(k)
    PROVE  ~ Running(j, k)
<1> DEFINE e == index[k]
<1>1. e \in Writes(k) /\ ops[e].phase = "done" /\ ops[e].clean /\ j <= e
  BY DEF Settled, Linked, Links
<1>2. j \in DOMAIN ops /\ j \in Nat /\ e \in DOMAIN ops /\ e \in Nat
  BY <1>1 DEF Writes, Shape
<1>3. CASE j = e
  BY <1>1, <1>3 DEF Running, Active
<1>4. CASE j < e
  BY <1>1, <1>2, <1>4 DEF Alone, Writes, Running
<1>5. QED
  BY <1>1, <1>2, <1>3, <1>4

\* A thread changes no file but its own, of its own key.
LEMMA OnlyOwnFile ==
    ASSUME Shape, Linked, NEW i \in DOMAIN ops, WriterStep(i)
    PROVE  /\ ops[i].kind = "write" /\ ops[i].phase \in Active
           /\ i \in Writes(ops[i].key) /\ Running(i, ops[i].key)
           /\ \A k \in Keys : k # ops[i].key => file'[k] = file[k] /\ index'[k] = index[k]
           /\ \A f \in Inodes : f \notin Writes(ops[i].key) => content'[f] = content[f]
           /\ restarts' = restarts /\ strays \ {ops[i].key} \subseteq strays'
<1>1. /\ ops[i].kind = "write" /\ ops[i].phase \in Active /\ restarts' = restarts
      /\ strays \ {ops[i].key} \subseteq strays'
  BY DEF WriterStep, OpenWrite, WriteHeader, WriteCell, EndWrite, FailWrite, Active
<1>2. \A k \in Keys : k # ops[i].key => file'[k] = file[k] /\ index'[k] = index[k]
  BY DEF WriterStep, OpenWrite, WriteHeader, WriteCell, EndWrite, FailWrite, Shape
<1>5. content \in [Inodes -> Content]
  BY DEF Shape
<1>3. ASSUME NEW f \in Inodes, f \notin Writes(ops[i].key) PROVE content'[f] = content[f]
  <2>1. CASE OpenWrite(i)
    BY <1>3, <1>5, <2>1, OpenWriteShape
  <2>2. CASE WriteHeader(i)
    BY <1>3, <1>5, <2>2, WriteHeaderShape
  <2>3. CASE WriteCell(i)
    BY <1>3, <1>5, <2>3, WriteCellShape
  <2>4. CASE EndWrite(i) \/ FailWrite(i)
    BY <2>4 DEF EndWrite, FailWrite
  <2>5. QED
    BY <2>1, <2>2, <2>3, <2>4 DEF WriterStep
<1>4. QED
  BY <1>1, <1>2, <1>3 DEF Writes, Running

\* A read changes nothing but its own call.
LEMMA ReadersWriteNothing ==
    ASSUME NEW i, ReaderStep(i)
    PROVE  /\ content' = content /\ file' = file /\ index' = index
           /\ restarts' = restarts /\ strays' = strays
           /\ ops[i].kind = "read" /\ ops[i].phase \in Active
  BY DEF ReaderStep, OpenRead, ReadHeader, ReadCell, EndRead, FailRead, Active

LEMMA WritesApart ==
    ASSUME NEW k, NEW q, k # q PROVE Writes(k) \cap Writes(q) = {}
  BY DEF Writes

-----------------------------------------------------------------------------
(* Names of files, and the index.                                          *)

LEMMA NextCurrent == Shape /\ Linked /\ Current /\ [Next]_vars => Current'
<1> SUFFICES ASSUME Shape, Linked, Current, [Next]_vars PROVE Current'
  OBVIOUS
<1>1. CASE Others
  <2>1. /\ DOMAIN ops' = DOMAIN ops /\ Lasting
        /\ \A j \in DOMAIN ops :
            SameWork(j) /\ ops'[j].phase \in {ops[j].phase, "lost"}
    BY <1>1, OtherTyped DEF Others
  <2> SUFFICES ASSUME NEW j \in DOMAIN ops, Opened(ops'[j]), ~ ops'[j].cut
               PROVE  file'[ops[j].key] = ops[j].inode
    BY <2>1 DEF Current, SameWork
  <2>2. Opened(ops[j]) /\ ~ ops[j].cut
    BY <2>1 DEF Opened, Lasting
  <2>3. ASSUME NEW k \in Keys, Delete(k) PROVE file'[ops[j].key] = file[ops[j].key]
    <3>1. ~ Running(j, k)
      BY <2>3, DeleteCuts DEF Delete
    <3>2. ops[j].key # k
      BY <2>2, <3>1 DEF Running, Opened, Active
    <3>3. QED
      BY <2>3, <3>2, CallsAreCalls DEF Delete, Shape
  <2>4. file'[ops[j].key] = file[ops[j].key]
    BY <1>1, <2>3 DEF Others, ReadMissing, FailDelete, Restart, vars
  <2>5. QED
    BY <2>2, <2>4 DEF Current
<1>2. ASSUME NEW k \in Keys, NEW d \in Dtypes, BeginWrite(k, d) PROVE Current'
  <2> DEFINE z == Len(ops) + 1
             c == \A j \in Writes(k) : ~ Running(j, k)
  <2>0. WriteAdded(k, d, z)
    BY <1>2, BeginWriteAdds
  <2>1. /\ DOMAIN ops' = DOMAIN ops \cup {z} /\ ops'[z] = NewOp("write", k, d, z, c)
        /\ \A j \in DOMAIN ops :
            SameWork(j) /\ ops'[j].phase = ops[j].phase /\ ops'[j].cut = ops[j].cut
    BY <2>0 DEF WriteAdded
  <2> HIDE DEF z, c
  <2>2. file' = file
    BY <1>2 DEF BeginWrite
  <2>3. ~ Opened(ops'[z])
    BY <2>1 DEF NewOp, Opened
  <2>4. QED
    BY <2>1, <2>2, <2>3 DEF Current, SameWork, Opened
<1>3. ASSUME NEW k \in Keys, BeginRead(k) PROVE Current'
  <2> DEFINE z == Len(ops) + 1
  <2>1. /\ DOMAIN ops' = DOMAIN ops \cup {z} /\ \A j \in DOMAIN ops : ops'[j] = ops[j]
        /\ ops'[z] = NewOp("read", k, ops[index[k]].dtype, index[k], Settled(k))
    BY <1>3, BeginReadAdds
  <2>2. ~ Opened(ops'[z]) /\ file' = file
    BY <1>3, <2>1 DEF NewOp, Opened, BeginRead
  <2> HIDE DEF z
  <2>3. QED
    BY <2>1, <2>2 DEF Current
<1>4. ASSUME NEW i \in DOMAIN ops, WriterStep(i) \/ ReaderStep(i) PROVE Current'
  <2>1. Advance(i) /\ DOMAIN ops' = DOMAIN ops /\ Lasting
    BY <1>4, ThreadsAdvance DEF Advance, Lasting, Shape
  <2>2. CASE OpenWrite(i)
    <3> DEFINE f == IF file[ops[i].key] = None THEN i ELSE file[ops[i].key]
    <3>1. file' = [file EXCEPT ![ops[i].key] = f] /\ ops'[i].inode = f /\ file \in [Keys -> Nat]
      BY <2>2, OpenWriteMoves, OpenWriteShape DEF Moves, Shape
    <3>2. ASSUME NEW j \in DOMAIN ops, j # i, Opened(ops'[j]), ~ ops'[j].cut
          PROVE  file'[ops'[j].key] = ops'[j].inode
      <4>1. ops'[j] = ops[j] /\ file[ops[j].key] = ops[j].inode /\ ops[j].inode # None
            /\ ops[j].key \in Keys
        BY <2>1, <3>2, CallsAreCalls DEF Advance, Current, Linked, Tidy
      <4>2. QED
        BY <3>1, <4>1
    <3>3. ops'[i].key = ops[i].key /\ ops[i].key \in Keys
      BY <2>1, CallsAreCalls DEF Lasting
    <3> HIDE DEF f
    <3>4. file'[ops'[i].key] = ops'[i].inode
      BY <3>1, <3>3
    <3>5. QED
      BY <2>1, <3>2, <3>4 DEF Current
  <2>3. CASE ~ OpenWrite(i)
    <3>1. file' = file
      BY <1>4, <2>3 DEF WriterStep, ReaderStep, WriteHeader, WriteCell, EndWrite, FailWrite,
                        OpenRead, ReadHeader, ReadCell, EndRead, FailRead
    <3>2. Opened(ops'[i]) => \/ Opened(ops[i]) /\ ops'[i].inode = ops[i].inode
                             \/ ops'[i].inode = file[ops[i].key]
      <4>1. CASE WriteHeader(i)
        BY <4>1, WriteHeaderMoves DEF Moves, WriteHeader, Opened
      <4>2. CASE WriteCell(i)
        BY <4>2, CellMoves, CallsAreCalls DEF Moves, WriteCell, Opened
      <4>3. CASE EndWrite(i)
        BY <4>3, EndMoves DEF EndWrite, Active, Outcomes, Moves, Opened
      <4>4. CASE FailWrite(i)
        BY <4>4, EndMoves DEF FailWrite, Outcomes, Moves, Opened
      <4>5. CASE OpenRead(i)
        BY <4>5, OpenReadMoves DEF Moves
      <4>6. CASE ReadHeader(i)
        BY <4>6, ReadHeaderMoves DEF Moves, ReadHeader, Opened
      <4>7. CASE ReadCell(i)
        BY <4>7, ReadCellTyped DEF Moves, ReadCell, Opened
      <4>8. CASE EndRead(i)
        BY <4>8, EndMoves DEF EndRead, Active, Outcomes, Moves, Opened
      <4>9. CASE FailRead(i)
        BY <4>9, EndMoves DEF FailRead, Outcomes, Moves, Opened
      <4>10. QED
        BY <1>4, <2>3, <4>1, <4>2, <4>3, <4>4, <4>5, <4>6, <4>7, <4>8, <4>9
        DEF WriterStep, ReaderStep
    <3>3. ops'[i].key = ops[i].key /\ ops'[i].cut = ops[i].cut
      BY <2>1 DEF Lasting, Advance
    <3>4. QED
      BY <2>1, <3>1, <3>2, <3>3 DEF Current, Advance
  <2>4. QED
    BY <2>2, <2>3
<1>5. QED
  BY <1>1, <1>2, <1>3, <1>4 DEF Next, Others, WriterStep, ReaderStep

LEMMA NextMatches ==
    Shape /\ Linked /\ Current /\ IndexMatchesDisk /\ [Next]_vars => IndexMatchesDisk'
<1> SUFFICES ASSUME Shape, Linked, Current, IndexMatchesDisk, [Next]_vars,
                    NEW k \in Keys, restarts' = 0, k \notin strays',
                    \A i \in Writes(k)' : ops'[i].phase = "done" /\ ~ ops'[i].cut
             PROVE  index'[k] = None <=> file'[k] = None
  BY DEF IndexMatchesDisk
<1>1. CASE Others
  <2>1. /\ Lasting /\ DOMAIN ops' = DOMAIN ops
        /\ \A j \in DOMAIN ops : SameWork(j) /\ (~ Restart => ops'[j].phase = ops[j].phase)
    BY <1>1, OtherTyped DEF Others
  <2>2. ~ Restart
    BY DEF Restart, Shape
  <2>3. restarts' = restarts /\ k \notin strays
    BY <1>1, <2>2 DEF Others, ReadMissing, Delete, FailDelete, vars
  <2>4. \A i \in Writes(k) : ops[i].phase = "done" /\ ~ ops[i].cut
    BY <2>1, <2>2, WritesLast DEF Lasting, Writes
  <2>5. index[k] = None <=> file[k] = None
    BY <2>3, <2>4 DEF IndexMatchesDisk
  <2>6. ASSUME NEW q \in Keys, ReadMissing(q) PROVE index'[k] = None <=> file'[k] = None
    BY <2>5, <2>6 DEF ReadMissing, Shape
  <2>7. ASSUME NEW q \in Keys, Delete(q) PROVE index'[k] = None <=> file'[k] = None
    BY <2>5, <2>7 DEF Delete, Shape
  <2>8. ASSUME NEW q \in Keys, FailDelete(q) PROVE index'[k] = None <=> file'[k] = None
    BY <2>5, <2>8 DEF FailDelete, Shape
  <2>9. QED
    BY <1>1, <2>2, <2>5, <2>6, <2>7, <2>8 DEF Others, vars
<1>2. ASSUME NEW q \in Keys, NEW d \in Dtypes, BeginWrite(q, d)
      PROVE  index'[k] = None <=> file'[k] = None
  <2> DEFINE z == Len(ops) + 1
             c == \A j \in Writes(q) : ~ Running(j, q)
  <2>0. WriteAdded(q, d, z)
    BY <1>2, BeginWriteAdds
  <2>1. /\ Lasting /\ DOMAIN ops' = DOMAIN ops \cup {z} /\ ops'[z] = NewOp("write", q, d, z, c)
        /\ \A j \in DOMAIN ops :
            SameWork(j) /\ ops'[j].phase = ops[j].phase /\ ops'[j].cut = ops[j].cut
    BY <2>0 DEF WriteAdded
  <2>2. \A i \in Writes(k) : ops[i].phase = "done" /\ ~ ops[i].cut
    BY <2>1, WritesLast DEF Writes
  <2>3. QED
    BY <1>2, <2>2 DEF IndexMatchesDisk, BeginWrite
<1>3. ASSUME NEW q \in Keys, BeginRead(q) PROVE index'[k] = None <=> file'[k] = None
  <2>1. Lasting /\ \A j \in DOMAIN ops : ops'[j] = ops[j]
    BY <1>3, BeginReadAdds
  <2>2. \A i \in Writes(k) : ops[i].phase = "done" /\ ~ ops[i].cut
    BY <2>1, WritesLast DEF Writes
  <2>3. QED
    BY <1>3, <2>2 DEF IndexMatchesDisk, BeginRead
<1>4. ASSUME NEW i \in DOMAIN ops, WriterStep(i) \/ ReaderStep(i)
      PROVE  index'[k] = None <=> file'[k] = None
  <2>1. Advance(i) /\ Lasting /\ \A q : Writes(q) \subseteq Writes(q)'
    BY <1>4, ThreadsAdvance, WritesLast DEF Advance
  <2>2. CASE WriterStep(i) /\ ops[i].key = k
    <3>1. i \in Writes(k)' /\ ops'[i].phase = "done" /\ ~ ops[i].cut
      BY <2>1, <2>2, OnlyOwnFile DEF Advance
    <3>2. EndWrite(i)
      <4>1. ~ OpenWrite(i)
        BY <3>1, OpenWriteMoves DEF Moves
      <4>2. ~ WriteHeader(i)
        BY <3>1, WriteHeaderMoves DEF Moves
      <4>3. ~ WriteCell(i)
        BY <3>1, CellMoves, CallsAreCalls DEF Moves, WriteCell
      <4>4. ~ FailWrite(i)
        BY <3>1, EndMoves DEF Moves, FailWrite, Outcomes
      <4>5. QED
        BY <2>2, <4>1, <4>2, <4>3, <4>4 DEF WriterStep
    <3>3. index'[k] = i /\ i # None
      BY <2>2, <3>2, EndWriteTyped DEF Shape, None
    <3>4. file[k] = ops[i].inode /\ ops[i].inode # None /\ file' = file
      BY <2>2, <3>1, <3>2 DEF EndWrite, Current, Opened, Linked, Tidy
    <3>5. QED
      BY <3>3, <3>4
  <2>3. CASE ~ (WriterStep(i) /\ ops[i].key = k)
    <3>1. /\ index'[k] = index[k] /\ file'[k] = file[k] /\ restarts' = restarts
          /\ k \notin strays
      <4>1. CASE WriterStep(i)
        BY <2>3, <4>1, OnlyOwnFile
      <4>2. CASE ReaderStep(i)
        BY <4>2, ReadersWriteNothing
      <4>3. QED
        BY <1>4, <4>1, <4>2
    <3>2. i \notin Writes(k)
      BY <1>4, <2>3, ReadersWriteNothing DEF Writes
    <3>3. \A j \in Writes(k) : ops[j].phase = "done" /\ ~ ops[j].cut
      BY <2>1, <3>2 DEF Writes, Advance
    <3>4. QED
      BY <3>1, <3>3 DEF IndexMatchesDisk
  <2>4. QED
    BY <2>2, <2>3
<1>5. QED
  BY <1>1, <1>2, <1>3, <1>4 DEF Next, Others, WriterStep, ReaderStep

-----------------------------------------------------------------------------
(* What a clean write has put together.                                    *)

\* Nor do the steps of which no thread is the actor.
LEMMA OthersWriteNothing == ASSUME Others PROVE content' = content
  BY DEF Others, ReadMissing, Delete, FailDelete, Restart, vars

\* The file of a clean write that runs is touched by nobody else.
LEMMA CleanIsApart ==
    ASSUME Shape, Linked, Alone, NEW i \in DOMAIN ops, NEW j \in DOMAIN ops, i # j,
           WriterStep(i), ops[j].kind = "write", ops[j].clean, Opened(ops[j])
    PROVE  content'[ops[j].inode] = content[ops[j].inode]
<1>1. ops[i].kind = "write" /\ ops[i].phase \in Active
  BY OnlyOwnFile
<1>2. ops[j].phase \in Active
  BY DEF Opened, Active
<1>3. ops[i].key # ops[j].key
  BY <1>1, <1>2, NoRivals
<1>4. ops[j].inode \in Inodes /\ ops[j].inode \in Writes(ops[j].key)
  BY OpenInodes
<1>5. ops[j].inode \notin Writes(ops[i].key)
  BY <1>3, <1>4, WritesApart
<1>6. QED
  BY <1>4, <1>5, OnlyOwnFile

PartOf(j) ==
    /\ ops[j].phase = "open" => content[ops[j].inode] = Empty
    /\ ops[j].phase = "moving" =>
            /\ content[ops[j].inode].header = ops[j].size
            /\ content[ops[j].inode].cells = [p \in 1 .. Len(ops[j].moved) |-> j]

LEMMA PartialIsParts ==
    Partial <=> \A j \in DOMAIN ops : ops[j].kind = "write" /\ ops[j].clean => PartOf(j)
  BY DEF Partial, PartOf

\* A cell is added at the end.
LEMMA PutNext ==
    ASSUME NEW n \in Nat, NEW i \in Nat
    PROVE  Put([p \in 1 .. n |-> i], n + 1, i) = [p \in 1 .. n + 1 |-> i]
<1> DEFINE m == n + 1
<1> DEFINE s == [p \in 1 .. n |-> i]
<1>1. s \in Seq(Nat) /\ Len(s) = n /\ \A p \in 1 .. n : s[p] = i
  OBVIOUS
<1> HIDE DEF s
<1>2. Put(s, m, i) = [q \in 1 .. m |-> IF q = m THEN i ELSE IF q <= n THEN s[q] ELSE Hole]
  BY <1>1 DEF Put
<1>3. QED
  BY <1>1, <1>2 DEF s

LEMMA PartOfOwnStep ==
    ASSUME Shape, Linked, NEW i \in DOMAIN ops, WriterStep(i), PartOf(i)
    PROVE  PartOf(i)'
<1>1. CASE OpenWrite(i)
  <2> DEFINE f == IF file[ops[i].key] = None THEN i ELSE file[ops[i].key]
  <2>1. ops'[i].phase = "open" /\ ops'[i].inode = f
    BY <1>1, OpenWriteMoves DEF Moves
  <2>2. f \in Inodes /\ content' = [content EXCEPT ![f] = Empty] /\ content \in [Inodes -> Content]
    BY <1>1, OpenWriteShape DEF Shape
  <2> HIDE DEF f
  <2>3. content'[f] = Empty
    BY <2>2
  <2>4. QED
    BY <2>1, <2>3 DEF PartOf
<1>2. CASE WriteHeader(i)
  <2> DEFINE f == ops[i].inode
  <2>1. ops'[i].phase = "moving" /\ ops'[i].inode = f /\ ops'[i].size = Size[ops[i].dtype]
        /\ ops'[i].moved = <<>>
    BY <1>2, WriteHeaderMoves DEF Moves, Linked, Tidy, WriteHeader
  <2>2. f \in Inodes /\ content \in [Inodes -> Content]
        /\ content' = [content EXCEPT ![f] = [header |-> Size[ops[i].dtype], cells |-> @.cells]]
    BY <1>2, WriteHeaderShape DEF Shape
  <2>3. content[f] = Empty
    BY <1>2 DEF PartOf, WriteHeader
  <2> HIDE DEF f
  <2>4. content'[f].header = Size[ops[i].dtype] /\ content'[f].cells = <<>>
    BY <2>2, <2>3 DEF Empty
  <2>5. Len(ops'[i].moved) = 0 /\ [p \in 1 .. 0 |-> i] = <<>>
    <3> DEFINE e == [p \in 1 .. 0 |-> i]
    <3>1. i \in Nat
      BY CallsAreCalls
    <3>2. e \in Seq(Nat) /\ Len(e) = 0
      BY <3>1
    <3> HIDE DEF e
    <3>3. e = <<>>
      BY <3>2, EmptySeq
    <3>4. QED
      BY <2>1, <3>3, EmptySeq DEF e
  <2>6. QED
    BY <2>1, <2>4, <2>5 DEF PartOf
<1>3. CASE WriteCell(i)
  <2> DEFINE f == ops[i].inode
             n == Len(ops[i].moved)
  <2>1. ops'[i].phase = "moving" /\ ops'[i].inode = f /\ ops'[i].size = ops[i].size
        /\ ops'[i].moved = Append(ops[i].moved, i)
    BY <1>3, CellMoves, CallsAreCalls DEF Moves, WriteCell
  <2>2. f \in Inodes /\ content \in [Inodes -> Content]
        /\ content' = [content EXCEPT ![f] = [header |-> @.header, cells |-> Put(@.cells, n + 1, i)]]
    BY <1>3, WriteCellShape DEF Shape
  <2>3. content[f].header = ops[i].size /\ content[f].cells = [p \in 1 .. n |-> i]
    BY <1>3 DEF PartOf, WriteCell
  <2>4. n \in Nat /\ i \in Nat /\ Len(ops'[i].moved) = n + 1
    BY <2>1, CallsAreCalls
  <2> HIDE DEF f, n
  <2>5. content'[f].header = ops[i].size /\ content'[f].cells = [p \in 1 .. n + 1 |-> i]
    <3>1. Put([p \in 1 .. n |-> i], n + 1, i) = [p \in 1 .. n + 1 |-> i]
      BY <2>4, PutNext
    <3>2. content'[f].header = content[f].header
          /\ content'[f].cells = Put(content[f].cells, n + 1, i)
      BY <2>2
    <3>3. QED
      BY <2>3, <3>1, <3>2
  <2>6. QED
    BY <2>1, <2>4, <2>5 DEF PartOf
<1>4. CASE EndWrite(i)
  BY <1>4, EndMoves DEF EndWrite, Active, Outcomes, Moves, PartOf
<1>5. CASE FailWrite(i)
  BY <1>5, EndMoves DEF FailWrite, Outcomes, Moves, PartOf
<1>6. QED
  BY <1>1, <1>2, <1>3, <1>4, <1>5 DEF WriterStep

LEMMA NextPartial == Shape /\ Linked /\ Alone /\ Partial /\ [Next]_vars => Partial'
<1> SUFFICES ASSUME Shape, Linked, Alone, Partial, [Next]_vars,
                    NEW j \in DOMAIN ops', ops'[j].kind = "write", ops'[j].clean
             PROVE  PartOf(j)'
  BY DEF Partial, PartOf
<1>1. ASSUME j \in DOMAIN ops, ops[j].kind = "write", ops[j].clean PROVE PartOf(j)
  BY <1>1, PartialIsParts
<1>2. CASE Others
  <2>1. DOMAIN ops' = DOMAIN ops /\ SameWork(j) /\ ops'[j].clean = ops[j].clean
        /\ ops'[j].phase \in {ops[j].phase, "lost"}
    BY <1>2, OtherTyped DEF Others
  <2>2. PartOf(j) /\ content' = content
    BY <1>1, <1>2, <2>1, OthersWriteNothing DEF SameWork
  <2>3. QED
    BY <2>1, <2>2 DEF PartOf, SameWork
<1>3. ASSUME NEW k \in Keys, NEW d \in Dtypes, BeginWrite(k, d) PROVE PartOf(j)'
  <2> DEFINE z == Len(ops) + 1
             c == \A q \in Writes(k) : ~ Running(q, k)
  <2>0. WriteAdded(k, d, z)
    BY <1>3, BeginWriteAdds
  <2>1. /\ DOMAIN ops' = DOMAIN ops \cup {z} /\ ops'[z] = NewOp("write", k, d, z, c)
        /\ \A q \in DOMAIN ops :
            SameWork(q) /\ ops'[q].phase = ops[q].phase /\ (ops'[q].clean => ops[q].clean)
    BY <2>0 DEF WriteAdded
  <2> HIDE DEF z, c
  <2>2. content' = content
    BY <1>3 DEF BeginWrite
  <2>3. ops'[z].phase = "queued"
    BY <2>1 DEF NewOp
  <2>4. CASE j \in DOMAIN ops
    BY <1>1, <2>1, <2>2, <2>4 DEF PartOf, SameWork
  <2>5. CASE j = z
    BY <2>3, <2>5 DEF PartOf
  <2>6. QED
    BY <2>1, <2>4, <2>5
<1>4. ASSUME NEW k \in Keys, BeginRead(k) PROVE PartOf(j)'
  <2> DEFINE z == Len(ops) + 1
  <2>1. /\ DOMAIN ops' = DOMAIN ops \cup {z} /\ \A q \in DOMAIN ops : ops'[q] = ops[q]
        /\ ops'[z] = NewOp("read", k, ops[index[k]].dtype, index[k], Settled(k))
    BY <1>4, BeginReadAdds
  <2> HIDE DEF z
  <2>2. content' = content
    BY <1>4 DEF BeginRead
  <2>3. ops'[z].kind = "read"
    BY <2>1 DEF NewOp
  <2>4. QED
    BY <1>1, <2>1, <2>2, <2>3 DEF PartOf
<1>5. ASSUME NEW i \in DOMAIN ops, WriterStep(i) \/ ReaderStep(i) PROVE PartOf(j)'
  <2>1. Advance(i) /\ Lasting /\ DOMAIN ops' = DOMAIN ops
    BY <1>5, ThreadsAdvance DEF Advance, Lasting, Shape
  <2>2. CASE j = i
    <3>1. ops[i].kind = "write" /\ ops[i].clean
      BY <2>1, <2>2 DEF Lasting
    <3>2. WriterStep(i)
      BY <1>5, <3>1, ReadersWriteNothing
    <3>3. QED
      BY <1>1, <2>2, <3>1, <3>2, PartOfOwnStep
  <2>3. CASE j # i
    <3>1. ops'[j] = ops[j] /\ PartOf(j) /\ j \in DOMAIN ops
      BY <1>1, <2>1, <2>3 DEF Advance
    <3>2. Opened(ops[j]) => content'[ops[j].inode] = content[ops[j].inode]
      BY <1>5, <2>3, <3>1, CleanIsApart, ReadersWriteNothing
    <3>3. QED
      BY <3>1, <3>2 DEF PartOf, Opened
  <2>4. QED
    BY <2>2, <2>3
<1>6. QED
  BY <1>2, <1>3, <1>4, <1>5 DEF Next, Others, WriterStep, ReaderStep

-----------------------------------------------------------------------------
(* What the index holds.                                                   *)

Stored(k) == file[k] # None /\ content[file[k]] = Whole(index[k])

LEMMA WholeStays == ASSUME Lasting, NEW e \in DOMAIN ops PROVE Whole(e)' = Whole(e)
  BY DEF Whole, Lasting

LEMMA SettledBefore ==
    ASSUME Shape, Linked, Lasting, NEW k \in Keys, index'[k] = index[k], Settled(k)'
    PROVE  Settled(k) /\ index[k] \in DOMAIN ops
<1>1. index[k] # None /\ index[k] \in Writes(k) /\ ops[index[k]].phase = "done"
  BY DEF Settled, Linked, Links
<1>2. ops'[index[k]] = ops[index[k]] /\ index[k] \in DOMAIN ops
  BY <1>1 DEF Writes, Lasting, Active
<1>3. Writes(k) \subseteq Writes(k)'
  BY WritesLast
<1>4. QED
  BY <1>1, <1>2, <1>3 DEF Settled

\* A key that a step leaves alone keeps what it has stored.
LEMMA StoredStays ==
    ASSUME Shape, Linked, IndexedIsWhole, Lasting, NEW k \in Keys, Settled(k)',
           index'[k] = index[k], file'[k] = file[k],
           \A f \in Inodes : f \in Writes(k) => content'[f] = content[f]
    PROVE  Stored(k)'
<1>1. Settled(k) /\ index[k] \in DOMAIN ops
  BY SettledBefore
<1>2. Stored(k)
  BY <1>1 DEF IndexedIsWhole, Stored
<1>3. file[k] \in Writes(k) /\ file[k] \in Inodes
  BY <1>2, InodesAreInodes DEF Stored, Linked, Links
<1>4. Whole(index[k])' = Whole(index[k])
  <2> DEFINE e == index[k]
  <2>1. index'[k] = e /\ e \in DOMAIN ops
    BY <1>1
  <2>2. Size[ops'[e].dtype] = Size[ops[e].dtype]
    BY <2>1 DEF Lasting
  <2>3. QED
    BY <2>1, <2>2 DEF Whole
<1>5. QED
  BY <1>2, <1>3, <1>4 DEF Stored

\* A write that ends clean has put the whole tensor under its key.
LEMMA EndWriteStores ==
    ASSUME Shape, Linked, Current, Partial, NEW i \in DOMAIN ops, EndWrite(i),
           NEW k, k = ops[i].key, Settled(k)'
    PROVE  Stored(k)'
<1> DEFINE f == ops[i].inode
           n == Size[ops[i].dtype]
<1>1. /\ ops[i].kind = "write" /\ ops[i].phase = "moving"
      /\ Len(ops[i].moved) = ops[i].size /\ ops[i].size = n
      /\ file' = file /\ content' = content
  BY DEF EndWrite, Linked, Tidy
<1>2. k \in Keys /\ index'[k] = i /\ Advance(i) /\ Lasting
  BY EndWriteTyped, CallsAreCalls, EndMoves DEF EndWrite, Shape, Active, Outcomes, Advance
<1>3. ops[i].clean /\ ~ ops[i].cut
  BY <1>2 DEF Settled, Advance
<1>4. file[k] = f /\ f \in Inodes /\ f # None
  BY <1>1, <1>3, OpenInodes DEF Current, Opened, Linked, Tidy
<1>5. content[f].header = n /\ content[f].cells = [p \in 1 .. n |-> i]
  BY <1>1, <1>3 DEF Partial
<1>6. content[f] \in Content
  BY <1>4 DEF Shape
<1>7. Whole(i)' = [header |-> n, cells |-> [p \in 1 .. n |-> i]]
  BY <1>2, WholeStays DEF Whole
<1>8. Whole(index[k])' = Whole(i)'
  BY <1>2
<1> HIDE DEF f, n
<1>9. content[f] = [header |-> n, cells |-> [p \in 1 .. n |-> i]]
  BY <1>5, <1>6 DEF Content
<1>10. QED
  BY <1>1, <1>4, <1>7, <1>8, <1>9 DEF Stored

LEMMA NextIndexed ==
    Shape /\ Linked /\ Alone /\ Current /\ Partial /\ IndexedIsWhole /\ [Next]_vars => IndexedIsWhole'
<1> SUFFICES ASSUME Shape, Linked, Alone, Current, Partial, IndexedIsWhole, [Next]_vars,
                    NEW k \in Keys, Settled(k)'
             PROVE  Stored(k)'
  BY DEF IndexedIsWhole, Stored
<1>1. CASE Others
  <2>1. Lasting /\ content' = content
    BY <1>1, OtherTyped, OthersWriteNothing DEF Others
  <2>2. index'[k] # None
    BY DEF Settled
  <2>3. ASSUME NEW q \in Keys, ReadMissing(q) \/ Delete(q) \/ FailDelete(q)
        PROVE  index'[k] = index[k] /\ file'[k] = file[k]
    BY <2>2, <2>3 DEF ReadMissing, Delete, FailDelete, Shape
  <2>4. ~ Restart
    BY <2>2 DEF Restart
  <2>5. index'[k] = index[k] /\ file'[k] = file[k]
    BY <1>1, <2>3, <2>4 DEF Others, vars
  <2>6. QED
    BY <2>1, <2>5, StoredStays
<1>2. ASSUME NEW q \in Keys, NEW d \in Dtypes, BeginWrite(q, d) PROVE Stored(k)'
  <2>0. WriteAdded(q, d, Len(ops) + 1)
    BY <1>2, BeginWriteAdds
  <2>1. Lasting
    BY <2>0 DEF WriteAdded
  <2>2. content' = content /\ index' = index /\ file' = file
    BY <1>2 DEF BeginWrite
  <2>3. QED
    BY <2>1, <2>2, StoredStays
<1>3. ASSUME NEW q \in Keys, BeginRead(q) PROVE Stored(k)'
  <2>1. Lasting
    BY <1>3, BeginReadAdds
  <2>2. content' = content /\ index' = index /\ file' = file
    BY <1>3 DEF BeginRead
  <2>3. QED
    BY <2>1, <2>2, StoredStays
<1>4. ASSUME NEW i \in DOMAIN ops, ReaderStep(i) PROVE Stored(k)'
  <2>1. Lasting
    BY <1>4, ThreadsAdvance DEF Advance
  <2>2. QED
    BY <1>4, <2>1, ReadersWriteNothing, StoredStays
<1>5. ASSUME NEW i \in DOMAIN ops, WriterStep(i) PROVE Stored(k)'
  <2>1. Lasting
    BY <1>5, ThreadsAdvance DEF Advance
  <2>2. CASE ops[i].key # k
    <3>1. \A f \in Inodes : f \in Writes(k) => content'[f] = content[f]
      BY <1>5, <2>2, OnlyOwnFile, WritesApart
    <3>2. index'[k] = index[k] /\ file'[k] = file[k]
      BY <1>5, <2>2, OnlyOwnFile
    <3>3. QED
      BY <2>1, <3>1, <3>2, StoredStays
  <2>3. CASE ops[i].key = k /\ EndWrite(i)
    BY <2>3, EndWriteStores
  <2>4. CASE ops[i].key = k /\ ~ EndWrite(i)
    <3>1. index' = index
      BY <1>5, <2>4 DEF WriterStep, OpenWrite, WriteHeader, WriteCell, FailWrite
    <3>2. Settled(k)
      BY <2>1, <3>1, SettledBefore
    <3>3. i \in Writes(k) /\ Running(i, k)
      BY <1>5, <2>4, OnlyOwnFile
    <3>4. QED
      BY <3>2, <3>3, SettledIsQuiet
  <2>5. QED
    BY <2>2, <2>3, <2>4
<1>6. QED
  BY <1>1, <1>2, <1>3, <1>4, <1>5 DEF Next, Others, WriterStep, ReaderStep

-----------------------------------------------------------------------------
(* What a clean read returns.                                              *)

ReadsOn(j) ==
    LET o == ops[j]
    IN  /\ o.dtype = ops[o.entry].dtype
        /\ \A q \in Writes(o.key) : ~ Running(q, o.key)
        /\ o.phase = "queued" =>
                IF file[o.key] = None THEN o.cut
                ELSE content[file[o.key]] = Whole(o.entry)
        /\ Opened(o) => content[o.inode] = Whole(o.entry)
        /\ o.phase = "moving" =>
                /\ o.size = Size[o.dtype]
                /\ \A p \in 1 .. Len(o.moved) : o.moved[p] = o.entry

CleanRead(j) == ops[j].kind = "read" /\ ops[j].clean

LEMMA ReadingIsReads ==
    ASSUME Reading, NEW j \in DOMAIN ops, CleanRead(j), ops[j].phase \in Active PROVE ReadsOn(j)
  BY DEF Reading, ReadsOn, CleanRead

\* The tensor that a call has to do with stays the same.
LEMMA EntryStays ==
    ASSUME Shape, Linked, Lasting, NEW j \in DOMAIN ops, NEW e, e = ops[j].entry
    PROVE  /\ e \in DOMAIN ops /\ ops'[j].entry = e
           /\ Whole(e)' = Whole(e) /\ ops'[e].dtype = ops[e].dtype
<1>1. e \in DOMAIN ops
  BY DEF Linked, Tidy, Writes
<1>2. ops'[j].entry = e
  BY DEF Lasting
<1>3. ops'[e].dtype = ops[e].dtype
  BY <1>1 DEF Lasting
<1>4. QED
  BY <1>1, <1>2, <1>3 DEF Whole

\* A read goes on as it was when its thread does not move, nobody starts to
\* write its key, and the file of the key is as it was, or deleted.
LEMMA ReadStays ==
    ASSUME Shape, Linked, Lasting, NEW j \in DOMAIN ops, ReadsOn(j), SameWork(j),
           ops'[j].phase = ops[j].phase, NEW k, k = ops[j].key,
           \A q \in Writes(k)' : Running(q, k)' => q \in Writes(k) /\ Running(q, k),
           file'[k] = file[k] \/ (file'[k] = None /\ ops'[j].cut),
           \A f \in Inodes : f \in Writes(k) => content'[f] = content[f]
    PROVE  ReadsOn(j)'
<1> PICK e : e = ops[j].entry
  OBVIOUS
<1> DEFINE o == ops[j]
<1>1. /\ ops'[j].entry = e /\ Whole(e)' = Whole(e) /\ ops'[e].dtype = ops[e].dtype
      /\ e \in DOMAIN ops
  BY EntryStays
<1>2. ops'[j].dtype = ops'[e].dtype
  BY <1>1 DEF ReadsOn, SameWork
<1>3. \A q \in Writes(k)' : ~ Running(q, k)'
  BY DEF ReadsOn
<1>4. o.phase = "queued" => IF file'[k] = None THEN ops'[j].cut
                            ELSE content'[file'[k]] = Whole(e)
  <2> SUFFICES ASSUME o.phase = "queued"
               PROVE  IF file'[k] = None THEN ops'[j].cut ELSE content'[file'[k]] = Whole(e)
    OBVIOUS
  <2>1. IF file[k] = None THEN ops[j].cut ELSE content[file[k]] = Whole(e)
    BY DEF ReadsOn
  <2>2. CASE file'[k] = None
    BY <2>1, <2>2 DEF Lasting
  <2>3. CASE file'[k] # None
    <3>1. file'[k] = file[k] /\ k \in Keys
      BY <2>3, CallsAreCalls
    <3>2. file[k] \in Writes(k) /\ file[k] \in Inodes
      BY <2>3, <3>1, InodesAreInodes DEF Linked, Links
    <3>3. QED
      BY <2>1, <2>3, <3>1, <3>2
  <2>4. QED
    BY <2>2, <2>3
<1>5. Opened(o) => content'[o.inode] = Whole(e)
  BY OpenInodes DEF ReadsOn
<1>6. o.phase = "moving" =>
        o.size = Size[o.dtype] /\ \A p \in 1 .. Len(o.moved) : o.moved[p] = e
  BY DEF ReadsOn
<1>7. /\ ops'[j].key = k /\ ops'[j].phase = o.phase /\ ops'[j].inode = o.inode
      /\ ops'[j].size = o.size /\ ops'[j].moved = o.moved /\ ops'[j].dtype = o.dtype
      /\ Opened(ops'[j]) <=> Opened(o)
  BY DEF SameWork, Opened
<1> HIDE DEF o
<1>8. (ops'[j].phase = "queued" => IF file'[k] = None THEN ops'[j].cut
                                   ELSE content'[file'[k]] = Whole(e)')
      /\ (Opened(ops'[j]) => content'[ops'[j].inode] = Whole(e)')
  BY <1>1, <1>4, <1>5, <1>7
<1>9. ops'[j].phase = "moving" =>
        /\ ops'[j].size = Size[ops'[j].dtype]
        /\ \A p \in 1 .. Len(ops'[j].moved) : ops'[j].moved[p] = e
  BY <1>6, <1>7
<1>10. QED
  BY <1>1, <1>2, <1>3, <1>7, <1>8, <1>9 DEF ReadsOn

\* The step of its own thread, as long as it does not end the read.
LEMMA ReadMovesOn ==
    ASSUME Shape, Linked, NEW j \in DOMAIN ops, ReadsOn(j), ReaderStep(j),
           ops'[j].phase \in Active
    PROVE  ReadsOn(j)'
<1> PICK e, k : e = ops[j].entry /\ k = ops[j].key
  OBVIOUS
<1> DEFINE n == Size[ops[j].dtype]
<1>1. Advance(j) /\ Lasting /\ DOMAIN ops' = DOMAIN ops
  BY ThreadsAdvance DEF Advance, Lasting, Shape
<1>2. /\ ops'[j].entry = e /\ Whole(e)' = Whole(e) /\ ops'[e].dtype = ops[e].dtype
      /\ e \in DOMAIN ops
  BY <1>1, EntryStays
<1>3. ops[j].dtype = ops[e].dtype /\ Whole(e) = [header |-> n, cells |-> [p \in 1 .. n |-> e]]
      /\ n \in Nat \ {0}
  BY CallsAreCalls, FSAssumption DEF ReadsOn, Whole
<1>4. ops'[j].key = k /\ ops'[j].dtype = ops[j].dtype /\ ops'[j].dtype = ops'[e].dtype
      /\ content' = content
  BY <1>1, <1>2, <1>3, ReadersWriteNothing DEF Lasting
<1>5. \A q \in Writes(k)' : ~ Running(q, k)'
  <2>1. \A q \in DOMAIN ops : ops'[q].kind = ops[q].kind /\ ops'[q].key = ops[q].key
            /\ (ops'[q].phase \in Active => ops[q].phase \in Active)
    BY <1>1, NothingAwakes DEF Lasting
  <2>2. \A q \in Writes(k) : ~ Running(q, k)
    BY DEF ReadsOn
  <2>3. QED
    BY <1>1, <2>1, <2>2 DEF Writes, Running
<1>6. Opened(ops'[j]) /\ content[ops'[j].inode] = Whole(e)
      /\ (ops'[j].phase = "moving" =>
            ops'[j].size = n /\ \A p \in 1 .. Len(ops'[j].moved) : ops'[j].moved[p] = e)
  <2>1. CASE OpenRead(j)
    <3> DEFINE f == file[k]
    <3>1. ops'[j].phase = (IF f = None THEN "void" ELSE "open") /\ ops'[j].inode = f
      BY <2>1, OpenReadMoves DEF Moves
    <3>2. f # None
      BY <3>1 DEF Active
    <3>3. content[f] = Whole(e)
      BY <2>1, <3>2 DEF OpenRead, ReadsOn
    <3>4. QED
      BY <3>1, <3>2, <3>3 DEF Opened
  <2>2. CASE ReadHeader(j)
    <3> DEFINE h == content[ops[j].inode].header
    <3>1. /\ ops'[j].phase = (IF h = NoHeader THEN "void" ELSE "moving")
          /\ ops'[j].inode = ops[j].inode /\ ops'[j].size = h /\ ops'[j].moved = ops[j].moved
      BY <2>2, ReadHeaderMoves DEF Moves
    <3>2. content[ops[j].inode] = Whole(e) /\ ops[j].moved = <<>>
      BY <2>2 DEF ReadHeader, ReadsOn, Opened, Linked, Tidy
    <3>3. h = n
      BY <1>3, <3>2
    <3> HIDE DEF h, n
    <3>4. ops'[j].phase = "moving" /\ Len(<<>>) = 0
      BY <1>3, <3>1, <3>3, EmptySeq DEF NoHeader
    <3>5. QED
      BY <3>1, <3>2, <3>3, <3>4 DEF Opened
  <2>3. CASE ReadCell(j)
    <3> DEFINE s == ops[j].moved
               c == content[ops[j].inode].cells[Len(s) + 1]
    <3>1. /\ content[ops[j].inode] = Whole(e) /\ ops[j].size = n
          /\ \A p \in 1 .. Len(s) : s[p] = e
          /\ Len(s) < Len(content[ops[j].inode].cells)
      BY <2>3 DEF ReadCell, HasMore, ReadsOn, Opened
    <3>2. s \in Seq(Nat) /\ e \in Nat
      BY <1>2, CallsAreCalls
    <3>3. c = e
      <4>1. content[ops[j].inode].cells = [p \in 1 .. n |-> e]
        BY <1>3, <3>1
      <4>2. Len([p \in 1 .. n |-> e]) = n /\ Len(s) \in Nat
        BY <1>3, <3>2
      <4> HIDE DEF n, s
      <4>3. Len(s) + 1 \in 1 .. n
        BY <1>3, <3>1, <4>1, <4>2
      <4>4. QED
        BY <4>1, <4>3
    <3>4. ops' = [ops EXCEPT ![j].moved = Append(@, e)] /\ ops[j].phase = "moving"
      BY <2>3, <3>3 DEF ReadCell
    <3>5. /\ ops'[j].phase = "moving" /\ ops'[j].inode = ops[j].inode
          /\ ops'[j].size = ops[j].size /\ ops'[j].moved = Append(s, e)
      BY <3>2, <3>4, CellMoves DEF Moves
    <3> HIDE DEF s
    <3>6. \A p \in 1 .. Len(Append(s, e)) : Append(s, e)[p] = e
      BY <3>1, <3>2
    <3>7. QED
      BY <3>1, <3>5, <3>6 DEF Opened
  <2>4. CASE EndRead(j)
    BY <2>4, EndMoves DEF EndRead, Active, Outcomes, Moves
  <2>5. CASE FailRead(j)
    BY <2>5, EndMoves DEF FailRead, Active, Outcomes, Moves
  <2>6. QED
    BY <2>1, <2>2, <2>3, <2>4, <2>5 DEF ReaderStep
<1>7. ops'[j].phase # "queued"
  BY <1>6 DEF Opened
<1>8. QED
  BY <1>2, <1>4, <1>5, <1>6, <1>7 DEF ReadsOn, n


LEMMA NextReading ==
    Shape /\ Linked /\ Alone /\ Reading /\ IndexedIsWhole /\ [Next]_vars => Reading'
<1> SUFFICES ASSUME Shape, Linked, Alone, Reading, IndexedIsWhole, [Next]_vars,
                    NEW j \in DOMAIN ops', CleanRead(j)', ops'[j].phase \in Active
             PROVE  ReadsOn(j)'
  BY DEF Reading, ReadsOn, CleanRead
<1>1. ASSUME j \in DOMAIN ops, CleanRead(j), ops[j].phase \in Active PROVE ReadsOn(j)
  BY <1>1, ReadingIsReads
<1>2. CASE Others
  <2>1. /\ Lasting /\ DOMAIN ops' = DOMAIN ops /\ SameWork(j) /\ ops'[j].clean = ops[j].clean
        /\ ops'[j].phase = ops[j].phase /\ content' = content
    BY <1>2, OtherTyped, OthersWriteNothing DEF Others, Active
  <2>2. ReadsOn(j) /\ j \in DOMAIN ops
    BY <1>1, <2>1 DEF CleanRead, SameWork
  <2>3. \A q \in DOMAIN ops : ops'[q].kind = ops[q].kind /\ ops'[q].key = ops[q].key
            /\ (ops'[q].phase \in Active => ops[q].phase \in Active)
    BY <1>2, NothingAwakes DEF Lasting
  <2>4. PICK q : q = ops[j].key
    OBVIOUS
  <2>5. \A i \in Writes(q)' : Running(i, q)' => i \in Writes(q) /\ Running(i, q)
    BY <2>1, <2>3 DEF Writes, Running
  <2>6. file'[q] = file[q] \/ (file'[q] = None /\ ops'[j].cut)
    <3>1. ASSUME NEW m \in Keys, Delete(m)
          PROVE  file'[q] = file[q] \/ (file'[q] = None /\ ops'[j].cut)
      <4>1. ops'[j].cut <=> ops[j].cut \/ Running(j, m)
        BY <2>2, <3>1, DeleteCuts DEF Delete
      <4>2. CASE m = q
        <5>1. Running(j, m) /\ file'[q] = None
          BY <2>1, <2>4, <3>1, <4>2 DEF Running, Delete, Shape
        <5>2. QED
          BY <4>1, <5>1
      <4>3. CASE m # q
        BY <3>1, <4>3 DEF Delete, Shape
      <4>4. QED
        BY <4>2, <4>3
    <3>2. QED
      BY <1>2, <3>1 DEF Others, ReadMissing, FailDelete, Restart, vars
  <2>7. QED
    BY <2>1, <2>2, <2>4, <2>5, <2>6, ReadStays
<1>3. ASSUME NEW m \in Keys, NEW d \in Dtypes, BeginWrite(m, d) PROVE ReadsOn(j)'
  <2> DEFINE z == Len(ops) + 1
             c == \A q \in Writes(m) : ~ Running(q, m)
  <2>0. WriteAdded(m, d, z)
    BY <1>3, BeginWriteAdds
  <2>1. /\ Lasting /\ DOMAIN ops' = DOMAIN ops \cup {z} /\ ops'[z] = NewOp("write", m, d, z, c)
        /\ \A q \in DOMAIN ops :
            /\ SameWork(q) /\ ops'[q].phase = ops[q].phase
            /\ ops'[q].clean <=> ops[q].clean /\ ~ Running(q, m)
    BY <2>0 DEF WriteAdded
  <2> HIDE DEF z, c
  <2>2. content' = content /\ file' = file
    BY <1>3 DEF BeginWrite
  <2>3. ops'[z].kind = "write" /\ ops'[z].key = m
    BY <2>1 DEF NewOp
  <2>4. j \in DOMAIN ops
    BY <2>1, <2>3 DEF CleanRead
  <2>5. SameWork(j) /\ ops'[j].phase = ops[j].phase /\ ops[j].clean /\ ~ Running(j, m)
    BY <2>1, <2>4 DEF CleanRead
  <2>6. ReadsOn(j) /\ ops[j].key # m
    BY <1>1, <2>4, <2>5 DEF CleanRead, SameWork, Running
  <2>7. PICK k : k = ops[j].key
    OBVIOUS
  <2>8. \A i \in Writes(k)' : Running(i, k)' => i \in Writes(k) /\ Running(i, k)
    BY <2>1, <2>3, <2>6, <2>7 DEF Writes, Running, SameWork
  <2>9. QED
    BY <2>1, <2>2, <2>4, <2>5, <2>6, <2>7, <2>8, ReadStays
<1>4. ASSUME NEW m \in Keys, BeginRead(m) PROVE ReadsOn(j)'
  <2> DEFINE z == Len(ops) + 1
  <2>1. /\ Lasting /\ DOMAIN ops' = DOMAIN ops \cup {z}
        /\ \A q \in DOMAIN ops : ops'[q] = ops[q] /\ q # z
        /\ ops'[z] = NewOp("read", m, ops[index[m]].dtype, index[m], Settled(m))
    BY <1>4, BeginReadAdds
  <2> HIDE DEF z
  <2>2. content' = content /\ file' = file /\ index[m] # None /\ file[m] # None
    BY <1>4 DEF BeginRead
  <2>3. ops'[z].kind = "read"
    BY <2>1 DEF NewOp
  <2>4. \A k : Writes(k)' = Writes(k) /\ \A i \in Writes(k) : Running(i, k)' <=> Running(i, k)
    BY <2>1, <2>3 DEF Writes, Running
  <2>5. CASE j \in DOMAIN ops
    <3>1. ReadsOn(j) /\ SameWork(j) /\ ops'[j].phase = ops[j].phase
      BY <1>1, <2>1, <2>5 DEF CleanRead, SameWork
    <3>2. PICK k : k = ops[j].key
      OBVIOUS
    <3>3. \A i \in Writes(k)' : Running(i, k)' => i \in Writes(k) /\ Running(i, k)
      BY <2>4
    <3>4. QED
      BY <2>1, <2>2, <2>5, <3>1, <3>2, <3>3, ReadStays
  <2>6. CASE j = z
    <3>1. PICK e : e = index[m]
      OBVIOUS
    <3>2. /\ ops'[j].clean = Settled(m) /\ ops'[j].key = m /\ ops'[j].entry = e
          /\ ops'[j].dtype = ops[e].dtype /\ ops'[j].phase = "queued"
      BY <2>1, <2>6, <3>1 DEF NewOp
    <3>3. Settled(m)
      BY <3>2 DEF CleanRead
    <3>4. \A i \in Writes(m)' : ~ Running(i, m)'
      BY <2>4, <3>3, SettledIsQuiet
    <3>5. e \in DOMAIN ops /\ ops'[e] = ops[e] /\ Whole(e)' = Whole(e)
      BY <2>1, <2>2, <3>1, WholeStays DEF Linked, Links, Writes
    <3>6. content[file[m]] = Whole(e)
      BY <3>1, <3>3 DEF IndexedIsWhole
    <3>7. QED
      BY <2>2, <3>2, <3>4, <3>5, <3>6 DEF ReadsOn, Opened
  <2>7. QED
    BY <2>1, <2>5, <2>6
<1>5. ASSUME NEW i \in DOMAIN ops, WriterStep(i) \/ ReaderStep(i) PROVE ReadsOn(j)'
  <2>1. Advance(i) /\ Lasting /\ DOMAIN ops' = DOMAIN ops
    BY <1>5, ThreadsAdvance DEF Advance, Lasting, Shape
  <2>2. CASE j = i
    <3>1. ops[j].kind = "read" /\ ops[j].clean /\ ops[j].phase \in Active /\ j \in DOMAIN ops
      BY <2>1, <2>2 DEF CleanRead, Lasting, Advance
    <3>2. ReadsOn(j) /\ ReaderStep(j)
      BY <1>1, <1>5, <2>2, <3>1, OnlyOwnFile DEF CleanRead
    <3>3. QED
      BY <3>1, <3>2, ReadMovesOn
  <2>3. CASE j # i
    <3>1. ops'[j] = ops[j] /\ j \in DOMAIN ops /\ SameWork(j)
      BY <2>1, <2>3 DEF Advance, SameWork
    <3>2. ReadsOn(j) /\ ops'[j].phase = ops[j].phase
      BY <1>1, <3>1 DEF CleanRead
    <3>3. PICK k : k = ops[j].key
      OBVIOUS
    <3>4. \A q \in DOMAIN ops : ops'[q].kind = ops[q].kind /\ ops'[q].key = ops[q].key
            /\ (ops'[q].phase \in Active => ops[q].phase \in Active)
      BY <1>5, <2>1, NothingAwakes DEF Lasting
    <3>5. \A q \in Writes(k)' : Running(q, k)' => q \in Writes(k) /\ Running(q, k)
      BY <2>1, <3>4 DEF Writes, Running
    <3>6. file'[k] = file[k] /\ \A f \in Inodes : f \in Writes(k) => content'[f] = content[f]
      <4>1. CASE WriterStep(i)
        <5>1. i \in Writes(ops[i].key) /\ Running(i, ops[i].key)
          BY <4>1, OnlyOwnFile
        <5>2. ops[i].key # k /\ k \in Keys
          BY <3>1, <3>2, <3>3, <5>1, CallsAreCalls DEF ReadsOn
        <5>3. QED
          BY <4>1, <5>2, OnlyOwnFile, WritesApart
      <4>2. CASE ReaderStep(i)
        BY <4>2, ReadersWriteNothing
      <4>3. QED
        BY <1>5, <4>1, <4>2
    <3>7. QED
      BY <2>1, <3>1, <3>2, <3>3, <3>5, <3>6, ReadStays
  <2>4. QED
    BY <2>2, <2>3
<1>6. QED
  BY <1>2, <1>3, <1>4, <1>5 DEF Next, Others, WriterStep, ReaderStep


ReturnsWhole(j) ==
    \/ ops[j].phase = "done" /\ ops[j].moved = Whole(ops[j].entry).cells
    \/ ops[j].phase = "void" /\ ops[j].cut
    \/ ops[j].phase = "raised" /\ ops[j].dtype \notin Readable

\* A clean read that comes to its end without an error of the system returns
\* the tensor, nothing when it was deleted meanwhile, or no dtype of numpy.
LEMMA ReadEnds ==
    ASSUME Shape, Linked, NEW j \in DOMAIN ops, ReadsOn(j), ReaderStep(j),
           ops'[j].phase \notin Active, ops'[j].phase # "failed"
    PROVE  ReturnsWhole(j)'
<1> PICK e, k : e = ops[j].entry /\ k = ops[j].key
  OBVIOUS
<1> DEFINE n == Size[ops[j].dtype]
<1>1. Advance(j) /\ Lasting
  BY ThreadsAdvance DEF Advance
<1>2. ops'[j].entry = e /\ Whole(e)' = Whole(e) /\ ops'[j].cut = ops[j].cut
  BY <1>1, EntryStays DEF Advance
<1>3. Whole(e) = [header |-> n, cells |-> [p \in 1 .. n |-> e]] /\ n \in Nat \ {0}
  BY CallsAreCalls, FSAssumption DEF ReadsOn, Whole
<1>4. ASSUME OpenRead(j) PROVE ops'[j].phase = "void" /\ ops'[j].cut
  <2> DEFINE f == file[k]
  <2>1. ops'[j].phase = (IF f = None THEN "void" ELSE "open") /\ ops[j].phase = "queued"
    <3>1. Moves(j, IF f = None THEN "void" ELSE "open", f, ops[j].size, ops[j].moved)
      BY <1>4, OpenReadMoves
    <3>2. ops[j].phase = "queued"
      BY <1>4 DEF OpenRead
    <3>3. QED
      BY <3>1, <3>2 DEF Moves
  <2>2. f = None
    BY <2>1 DEF Active
  <2>3. QED
    BY <1>2, <2>1, <2>2 DEF ReadsOn
<1>5. ~ ReadHeader(j)
  <2> SUFFICES ASSUME ReadHeader(j) PROVE FALSE
    OBVIOUS
  <2> DEFINE h == content[ops[j].inode].header
  <2>1. ops'[j].phase = IF h = NoHeader THEN "void" ELSE "moving"
    BY ReadHeaderMoves DEF Moves
  <2>2. content[ops[j].inode] = Whole(e)
    BY DEF ReadHeader, ReadsOn, Opened
  <2>3. h = n /\ n # NoHeader
    BY <1>3, <2>2 DEF NoHeader
  <2>4. QED
    BY <2>1, <2>3 DEF Active
<1>6. ~ ReadCell(j)
  <2> SUFFICES ASSUME ReadCell(j) PROVE FALSE
    OBVIOUS
  <2>1. ops'[j].phase = "moving"
    BY ReadCellTyped DEF Moves
  <2>2. QED
    BY <2>1 DEF Active
<1>7. ASSUME EndRead(j)
      PROVE  IF ops[j].dtype \in Readable
             THEN ops'[j].phase = "done" /\ ops'[j].moved = [p \in 1 .. n |-> e]
             ELSE ops'[j].phase = "raised" /\ ops'[j].dtype = ops[j].dtype
  <2> DEFINE s == ops[j].moved
  <2>1. /\ ops[j].phase = "moving" /\ ~ HasMore(ops[j])
        /\ Move(j, IF Len(s) = n /\ ops[j].dtype \in Readable THEN "done" ELSE "raised")
    BY <1>7 DEF EndRead
  <2>2. /\ content[ops[j].inode] = Whole(e) /\ ops[j].size = n
        /\ \A p \in 1 .. Len(s) : s[p] = e
    BY <2>1 DEF ReadsOn, Opened
  <2>3. s \in Seq(Nat) /\ Len(s) \in Nat /\ Len(s) <= n
    BY <2>2, CallsAreCalls DEF Linked, Tidy
  <2>4. content[ops[j].inode].cells = [p \in 1 .. n |-> e]
    BY <1>3, <2>2
  <2>5. Len([p \in 1 .. n |-> e]) = n
    BY <1>3
  <2> HIDE DEF n, s
  <2>6. Len(s) = n
    BY <1>3, <2>1, <2>2, <2>3, <2>4, <2>5 DEF HasMore, s
  <2>7. s = [p \in 1 .. n |-> e]
    <3>1. s = [p \in 1 .. Len(s) |-> s[p]]
      BY <2>3
    <3>2. QED
      BY <2>2, <2>6, <3>1
  <2> DEFINE r == IF ops[j].dtype \in Readable THEN "done" ELSE "raised"
  <2>8. ops'[j].phase = r /\ ops'[j].moved = s /\ ops'[j].dtype = ops[j].dtype
    <3>1. Move(j, r) /\ ops[j].phase \in Active /\ r \in Active \cup Outcomes
      BY <2>1, <2>6 DEF Active, Outcomes
    <3> HIDE DEF r
    <3>2. QED
      BY <1>1, <3>1, EndMoves DEF Moves, Lasting, s
  <2>9. QED
    BY <2>7, <2>8
<1> HIDE DEF n
<1>8. CASE OpenRead(j)
  BY <1>4, <1>8 DEF ReturnsWhole
<1>9. CASE EndRead(j)
  <2>1. Whole(ops[j].entry)' = Whole(e)'
    BY <1>2
  <2>2. QED
    BY <1>2, <1>3, <1>7, <1>9, <2>1 DEF ReturnsWhole
<1>10. ~ FailRead(j)
  BY EndMoves DEF FailRead, Outcomes, Moves
<1>11. QED
  BY <1>5, <1>6, <1>8, <1>9, <1>10 DEF ReaderStep

LEMMA NextReads ==
    Shape /\ Linked /\ Reading /\ ReadsAreWhole /\ [Next]_vars => ReadsAreWhole'
<1> SUFFICES ASSUME Shape, Linked, Reading, ReadsAreWhole, [Next]_vars,
                    NEW j \in DOMAIN ops', CleanRead(j)',
                    ops'[j].phase \in {"done", "void", "raised"}
             PROVE  ReturnsWhole(j)'
  BY DEF ReadsAreWhole, ReturnsWhole, CleanRead
<1>1. /\ ops'[j].phase \notin Active
      /\ ops'[j].phase \notin {"lost", "failed"}
  BY DEF Active
<1>2. ASSUME j \in DOMAIN ops, Lasting, ops[j].phase \notin Active PROVE ReturnsWhole(j)'
  <2>1. ops'[j] = ops[j]
    BY <1>2 DEF Lasting
  <2>2. ReturnsWhole(j)
    BY <2>1, <1>2 DEF ReadsAreWhole, ReturnsWhole, CleanRead
  <2>3. PICK e : e = ops[j].entry
    OBVIOUS
  <2>4. Whole(e)' = Whole(e) /\ ops'[j].entry = e
    BY <1>2, <2>3, EntryStays
  <2>5. Whole(ops[j].entry)' = Whole(e)'
    BY <2>4
  <2>6. QED
    BY <2>1, <2>2, <2>3, <2>4, <2>5 DEF ReturnsWhole
<1>3. CASE Others
  <2>1. Lasting /\ DOMAIN ops' = DOMAIN ops /\ ops'[j].phase \in {ops[j].phase, "lost"}
    BY <1>3, OtherTyped DEF Others
  <2>2. QED
    BY <1>1, <1>2, <2>1
<1>4. ASSUME NEW m \in Keys, NEW d \in Dtypes, BeginWrite(m, d) PROVE ReturnsWhole(j)'
  <2> DEFINE z == Len(ops) + 1
             c == \A q \in Writes(m) : ~ Running(q, m)
  <2>0. WriteAdded(m, d, z)
    BY <1>4, BeginWriteAdds
  <2>1. /\ Lasting /\ DOMAIN ops' = DOMAIN ops \cup {z} /\ ops'[z] = NewOp("write", m, d, z, c)
        /\ \A q \in DOMAIN ops : ops'[q].phase = ops[q].phase
    BY <2>0 DEF WriteAdded
  <2> HIDE DEF z, c
  <2>2. ops'[z].phase = "queued"
    BY <2>1 DEF NewOp
  <2>3. j \in DOMAIN ops
    BY <1>1, <2>1, <2>2 DEF Active
  <2>4. QED
    BY <1>1, <1>2, <2>1, <2>3
<1>5. ASSUME NEW m \in Keys, BeginRead(m) PROVE ReturnsWhole(j)'
  <2> DEFINE z == Len(ops) + 1
  <2>1. /\ Lasting /\ DOMAIN ops' = DOMAIN ops \cup {z}
        /\ \A q \in DOMAIN ops : ops'[q] = ops[q]
        /\ ops'[z] = NewOp("read", m, ops[index[m]].dtype, index[m], Settled(m))
    BY <1>5, BeginReadAdds
  <2> HIDE DEF z
  <2>2. ops'[z].phase = "queued"
    BY <2>1 DEF NewOp
  <2>3. j \in DOMAIN ops
    BY <1>1, <2>1, <2>2 DEF Active
  <2>4. QED
    BY <1>1, <1>2, <2>1, <2>3
<1>6. ASSUME NEW i \in DOMAIN ops, WriterStep(i) \/ ReaderStep(i) PROVE ReturnsWhole(j)'
  <2>1. Advance(i) /\ Lasting /\ DOMAIN ops' = DOMAIN ops
    BY <1>6, ThreadsAdvance DEF Advance, Lasting, Shape
  <2>2. CASE ops[j].phase \notin Active
    BY <1>2, <2>1, <2>2
  <2>3. CASE ops[j].phase \in Active
    <3>1. j = i /\ ops[j].kind = "read" /\ ops[j].clean
      BY <1>1, <2>1, <2>3 DEF CleanRead, Lasting, Advance
    <3>2. ReadsOn(j) /\ ReaderStep(j)
      BY <1>6, <2>3, <3>1, ReadingIsReads, OnlyOwnFile DEF CleanRead
    <3>3. QED
      BY <1>1, <3>1, <3>2, ReadEnds
  <2>4. QED
    BY <2>2, <2>3
<1>7. QED
  BY <1>3, <1>4, <1>5, <1>6 DEF Next, Others, WriterStep, ReaderStep

-----------------------------------------------------------------------------
(* The theorems.                                                           *)

\* The properties hold together with what they rest on: who may write a key,
\* what a clean write has put together, and what a clean read has read.
THEOREM FilesInvariant == Spec => []FSInv
<1>1. Init => FSInv
  BY InitTyped DEF Init, FSInv, Alone, Current, Partial, Reading, IndexedIsWhole,
                   ReadsAreWhole, IndexMatchesDisk, Settled, None
<1>2. FSInv /\ [Next]_vars => FSInv'
  BY NextTyped, NextAlone, NextCurrent, NextPartial, NextReading, NextIndexed, NextReads,
     NextMatches DEF FSInv
<1>3. QED
  BY <1>1, <1>2, PTL DEF Spec

\* A tensor that the index holds from a write which nothing overlapped, and
\* after which none has begun, is on disk as it was written: torn, failed and
\* lost writes before it leave no trace.
THEOREM IndexedStaysWhole == Spec => []IndexedIsWhole
<1>1. FSInv => IndexedIsWhole
  BY DEF FSInv
<1>2. QED
  BY <1>1, FilesInvariant, PTL

\* read_tensor without a write of the key beside it, and without an error of
\* the file system or the device, returns the whole tensor of its descriptor,
\* or nothing when it was deleted meanwhile; it raises only for a dtype that
\* numpy does not know.
THEOREM ReadsReturnWhole == Spec => []ReadsAreWhole
<1>1. FSInv => ReadsAreWhole
  BY DEF FSInv
<1>2. QED
  BY <1>1, FilesInvariant, PTL

\* Before any restart, a key all of whose writes have ended well, none of them
\* with a delete of the key beside it, is in the index exactly if it has a
\* file, unless the last delete of it could not remove the file.
THEOREM IndexAndDiskAgree == Spec => []IndexMatchesDisk
<1>1. FSInv => IndexMatchesDisk
  BY DEF FSInv
<1>2. QED
  BY <1>1, FilesInvariant, PTL

=============================================================================
