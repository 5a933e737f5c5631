------------------------ MODULE GPUDirectBridgeProofs ------------------------
(***************************************************************************)
(* Theorems of GPUDirectBridge, for any tensors that do not overlap in the *)
(* file and any number of calls: its types and statistics, that a write    *)
(* which nothing overlaps is in the file, and that reads return whole      *)
(* tensors.                                                                *)
(***************************************************************************)
EXTENDS GPUDirectBridge, SequenceTheorems, FiniteSetTheorems, TLAPS

-----------------------------------------------------------------------------
(* The inductive invariant.                                                *)

Phases == Active \cup {"done", "raised"}

BridgeCall == [kind : {"read", "write"}, slot : Slots, phase : Phases, moved : Seq(Int),
               direct : BOOLEAN, clean : BOOLEAN, entry : Nat]

Stats == [reads : Nat, writes : Nat, bytesRead : Nat, bytesWritten : Nat]

\* A call that waits has moved nothing, one that runs is not cuFile's, and
\* threads see only what is in the file.
Tidy(i) ==
    /\ Len(ops[i].moved) <= ops[i].slot.size
    /\ \A p \in 1 .. Len(ops[i].moved) : ops[i].moved[p] \in -1 .. Len(ops)
    /\ ops[i].phase = "queued" => ops[i].moved = <<>>
    /\ ops[i].phase = "moving" => exists
    /\ ops[i].phase \in Active => ~ ops[i].direct
    /\ ~ ops[i].direct => \A p \in 1 .. Len(ops[i].moved) : ops[i].moved[p] # Junk
    /\ ops[i].kind = "read" /\ ops[i].phase = "done" => Len(ops[i].moved) = ops[i].slot.size

Shape ==
    /\ ops \in Seq(BridgeCall)
    /\ cells \in Seq(0 .. Len(ops)) /\ (cells # <<>> => exists)
    /\ path \in {"A", "B", "C"} /\ exists \in BOOLEAN
    /\ stats \in Stats
    /\ cutBy \in 0 .. Len(ops)
    /\ \A i \in DOMAIN ops : Tidy(i)

Counted ==
    /\ stats.reads = Cardinality(Done("read"))
    /\ stats.writes = Cardinality(Done("write"))

\* While a write runs, neither it is clean nor any later one of its tensor,
\* once there is a later one.
Alone ==
    \A i, j \in DOMAIN ops :
        i < j /\ ops[j].kind = "write" /\ ops[i].kind = "write" /\ Running(i, ops[j].slot)
            => ~ ops[i].clean /\ ~ ops[j].clean

Last(i) == i >= cutBy /\ \A j \in Writes(ops[i].slot) : j <= i

Progress(o) ==
    IF o.phase = "done" THEN o.slot.size
    ELSE IF o.phase = "moving" THEN Len(o.moved) ELSE 0

\* The last write of a tensor, when it is clean, is in the file as far as it
\* has come.
Written ==
    \A i \in DOMAIN ops :
        ops[i].kind = "write" /\ ops[i].clean /\ Last(i) =>
            \A p \in 1 .. Progress(ops[i]) :
                /\ ops[i].slot.offset + p <= Len(cells)
                /\ cells[ops[i].slot.offset + p] = i

\* A clean read that runs has read what is settled, and it still is.
Reading ==
    \A i \in DOMAIN ops :
        ops[i].kind = "read" /\ ops[i].clean /\ ops[i].phase \in Active /\ ops[i].entry # 0 =>
            /\ Settled(ops[i].slot) = ops[i].entry
            /\ \A p \in 1 .. Len(ops[i].moved) : ops[i].moved[p] = ops[i].entry

\* What a clean read has returned.
Whole(i) == ops[i].moved = [p \in 1 .. ops[i].slot.size |-> ops[i].entry]

Returned == \A i \in Done("read") : ops[i].clean /\ ops[i].entry # 0 => Whole(i)

BridgeInv == Shape /\ Counted /\ Alone /\ Written /\ Reading /\ Returned

-----------------------------------------------------------------------------
(* What steps do to the calls.                                             *)

LEMMA CallsAreCalls ==
    ASSUME Shape, NEW i \in DOMAIN ops
    PROVE  /\ ops[i] \in BridgeCall /\ ops[i].slot \in Slots /\ ops[i].phase \in Phases
           /\ ops[i].kind \in {"read", "write"} /\ ops[i].moved \in Seq(Int)
           /\ ops[i].clean \in BOOLEAN /\ ops[i].direct \in BOOLEAN /\ ops[i].entry \in Nat
           /\ i \in 1 .. Len(ops) /\ i \in Nat \ {0} /\ Len(ops) \in Nat
           /\ ops[i].slot.offset \in Nat /\ ops[i].slot.size \in Nat \ {0}
<1>1. ops \in Seq(BridgeCall)
  BY DEF Shape
<1>2. ops[i] \in BridgeCall /\ i \in 1 .. Len(ops) /\ Len(ops) \in Nat
  BY <1>1
<1>3. ops[i].slot \in Slots
  BY <1>2 DEF BridgeCall
<1>4. QED
  BY <1>2, <1>3, BridgeAssumption DEF BridgeCall

SameCall(j) ==
    /\ ops'[j].kind = ops[j].kind /\ ops'[j].slot = ops[j].slot
    /\ ops'[j].phase = ops[j].phase /\ ops'[j].moved = ops[j].moved
    /\ ops'[j].direct = ops[j].direct /\ ops'[j].entry = ops[j].entry

\* The names of a call never change, and neither does a call that has ended.
Lasting ==
    /\ ops' \in Seq(BridgeCall) /\ DOMAIN ops \subseteq DOMAIN ops' /\ Len(ops) <= Len(ops')
    /\ \A j \in DOMAIN ops :
        /\ ops'[j].kind = ops[j].kind /\ ops'[j].slot = ops[j].slot
        /\ ops'[j].direct = ops[j].direct /\ ops'[j].entry = ops[j].entry
        /\ ops[j].phase \notin Active => ops'[j] = ops[j]
        /\ ops'[j].clean => ops[j].clean

\* Call i goes on, and the others are as they were.
Advance(i, phase, moved) ==
    /\ Lasting /\ Len(ops') = Len(ops) /\ DOMAIN ops' = DOMAIN ops
    /\ ops[i].phase \in Active
    /\ ops'[i].phase = phase /\ ops'[i].moved = moved
    /\ ops'[i].clean = ops[i].clean
    /\ \A j \in DOMAIN ops : j # i => ops'[j] = ops[j]

LEMMA MoveOn ==
    ASSUME Shape, NEW i \in DOMAIN ops, ops[i].phase \in Active,
           NEW phase \in Phases, NEW moved \in Seq(Int),
           ops' = [ops EXCEPT ![i] = [ops[i] EXCEPT !.phase = phase, !.moved = moved]]
    PROVE  Advance(i, phase, moved)
<1> DEFINE o == [ops[i] EXCEPT !.phase = phase, !.moved = moved]
<1>1. ops[i] \in BridgeCall /\ ops \in Seq(BridgeCall)
  BY CallsAreCalls DEF Shape
<1>2. /\ o \in BridgeCall
      /\ o.kind = ops[i].kind /\ o.slot = ops[i].slot /\ o.direct = ops[i].direct
      /\ o.entry = ops[i].entry /\ o.clean = ops[i].clean
      /\ o.phase = phase /\ o.moved = moved
  BY <1>1 DEF BridgeCall
<1> HIDE DEF o
<1>3. /\ ops' \in Seq(BridgeCall) /\ Len(ops') = Len(ops) /\ DOMAIN ops' = DOMAIN ops
      /\ ops'[i] = o /\ \A j \in DOMAIN ops : j # i => ops'[j] = ops[j]
  BY <1>1, <1>2 DEF o
<1>4. Len(ops) <= Len(ops')
  BY <1>1, <1>3
<1>5. Lasting
  BY <1>2, <1>3, <1>4 DEF Lasting
<1>6. QED
  BY <1>2, <1>3, <1>5 DEF Advance

LEMMA PhaseMoves ==
    ASSUME Shape, NEW i \in DOMAIN ops, ops[i].phase \in Active, NEW phase \in Phases,
           ops' = [ops EXCEPT ![i].phase = phase]
    PROVE  Advance(i, phase, ops[i].moved)
<1>1. ops' = [ops EXCEPT ![i] = [ops[i] EXCEPT !.phase = phase]]
  OBVIOUS
<1>2. [ops[i] EXCEPT !.phase = phase] = [ops[i] EXCEPT !.phase = phase, !.moved = ops[i].moved]
  BY CallsAreCalls DEF BridgeCall
<1>3. QED
  BY <1>1, <1>2, MoveOn, CallsAreCalls

LEMMA CellMoves ==
    ASSUME Shape, NEW i \in DOMAIN ops, ops[i].phase = "moving", NEW c \in Int,
           ops' = [ops EXCEPT ![i].moved = Append(@, c)]
    PROVE  Advance(i, "moving", Append(ops[i].moved, c))
<1> DEFINE s == Append(ops[i].moved, c)
<1>1. ops' = [ops EXCEPT ![i] = [ops[i] EXCEPT !.moved = s]]
  OBVIOUS
<1>2. s \in Seq(Int) /\ ops[i].phase \in Active /\ "moving" \in Phases
  BY CallsAreCalls DEF Active, Phases
<1> HIDE DEF s
<1>3. [ops[i] EXCEPT !.moved = s] = [ops[i] EXCEPT !.phase = "moving", !.moved = s]
  BY CallsAreCalls DEF BridgeCall
<1>4. Advance(i, "moving", s)
  BY <1>1, <1>2, <1>3, MoveOn
<1>5. QED
  BY <1>4 DEF s

\* The cells that a thread may touch.
LEMMA PlacesAreNumbers ==
    ASSUME Shape, NEW i \in DOMAIN ops
    PROVE  /\ Len(ops[i].moved) \in Nat /\ Place(ops[i]) \in Nat \ {0}
           /\ Place(ops[i]) = ops[i].slot.offset + Len(ops[i].moved) + 1
           /\ Len(cells) \in Nat /\ \A q \in 1 .. Len(cells) : cells[q] \in 0 .. Len(ops)
  BY CallsAreCalls, SMTT(40) DEF Place, Shape

LEMMA ReadCellMoves ==
    ASSUME Shape, NEW i \in DOMAIN ops, ReadCell(i), NEW c, c = cells[Place(ops[i])]
    PROVE  /\ Advance(i, "moving", Append(ops[i].moved, c)) /\ c \in 0 .. Len(ops)
           /\ ops[i].kind = "read" /\ ops[i].phase = "moving"
           /\ Len(ops[i].moved) < ops[i].slot.size /\ Place(ops[i]) <= Len(cells)
           /\ UNCHANGED <<path, exists, cells, stats, cutBy>>
<1>1. Place(ops[i]) \in 1 .. Len(cells)
  BY PlacesAreNumbers DEF ReadCell, HasMore
<1>2. c \in 0 .. Len(ops) /\ c \in Int
  BY <1>1, PlacesAreNumbers, CallsAreCalls
<1>3. ops' = [ops EXCEPT ![i].moved = Append(@, c)] /\ ops[i].phase = "moving"
  BY DEF ReadCell
<1>4. QED
  BY <1>2, <1>3, CellMoves DEF ReadCell, HasMore

LEMMA WriteCellMoves ==
    ASSUME Shape, NEW i \in DOMAIN ops, WriteCell(i)
    PROVE  /\ Advance(i, "moving", Append(ops[i].moved, i))
           /\ ops[i].kind = "write" /\ ops[i].phase = "moving"
           /\ Len(ops[i].moved) < ops[i].slot.size
           /\ cells' = Put(Place(ops[i]), i) /\ UNCHANGED <<path, exists, stats, cutBy>>
<1>1. ops' = [ops EXCEPT ![i].moved = Append(@, i)] /\ ops[i].phase = "moving" /\ i \in Int
  BY CallsAreCalls DEF WriteCell
<1>2. Advance(i, "moving", Append(ops[i].moved, i))
  BY <1>1, CellMoves
<1>3. QED
  BY <1>2 DEF WriteCell

\* The steps that move no cell.
LEMMA OtherMoves ==
    ASSUME Shape, NEW i \in DOMAIN ops,
           Open(i) \/ EndRead(i) \/ EndWrite(i) \/ Fail(i)
    PROVE  /\ UNCHANGED <<path, exists, cells, cutBy>>
           /\ \/ /\ ops[i].phase = "queued" /\ exists /\ stats' = stats
                 /\ Advance(i, "moving", ops[i].moved)
              \/ Advance(i, "raised", ops[i].moved) /\ stats' = stats
              \/ /\ ops[i].kind = "read" /\ Advance(i, "done", ops[i].moved)
                 /\ Len(ops[i].moved) = ops[i].slot.size
                 /\ CountReads(1, ops[i].slot)
              \/ /\ ops[i].kind = "write" /\ Advance(i, "done", ops[i].moved)
                 /\ Len(ops[i].moved) = ops[i].slot.size /\ ops[i].phase = "moving"
                 /\ CountWrites(1, ops[i].slot)
<1>1. {"queued", "moving"} = Active /\ {"moving", "done", "raised"} \subseteq Phases
  BY DEF Active, Phases
<1>2. CASE Open(i)
  BY <1>1, <1>2, PhaseMoves DEF Open
<1>3. CASE EndRead(i)
  <2>1. ops[i].phase \in Active /\ ops[i].kind = "read" /\ UNCHANGED <<path, exists, cells, cutBy>>
    BY <1>1, <1>3 DEF EndRead
  <2>2. CASE Len(ops[i].moved) = ops[i].slot.size
    <3>1. ops' = [ops EXCEPT ![i].phase = "done"] /\ CountReads(1, ops[i].slot)
      BY <1>3, <2>2 DEF EndRead
    <3>2. QED
      BY <1>1, <2>1, <2>2, <3>1, PhaseMoves
  <2>3. CASE Len(ops[i].moved) # ops[i].slot.size
    <3>1. ops' = [ops EXCEPT ![i].phase = "raised"] /\ stats' = stats
      BY <1>3, <2>3 DEF EndRead
    <3>2. QED
      BY <1>1, <2>1, <3>1, PhaseMoves
  <2>4. QED
    BY <2>2, <2>3
<1>4. CASE EndWrite(i)
  BY <1>1, <1>4, PhaseMoves DEF EndWrite
<1>5. CASE Fail(i)
  BY <1>1, <1>5, PhaseMoves DEF Fail
<1>6. QED
  BY <1>2, <1>3, <1>4, <1>5

LEMMA DisturbedOps ==
    ASSUME Shape, NEW J, NEW D, D = Disturbed(J)
    PROVE  /\ D \in Seq(BridgeCall) /\ Len(D) = Len(ops) /\ DOMAIN D = DOMAIN ops
           /\ \A j \in DOMAIN ops :
                /\ D[j].kind = ops[j].kind /\ D[j].slot = ops[j].slot
                /\ D[j].phase = ops[j].phase /\ D[j].moved = ops[j].moved
                /\ D[j].direct = ops[j].direct /\ D[j].entry = ops[j].entry
                /\ D[j].clean <=> ops[j].clean /\ ~ (j \in J /\ ops[j].phase \in Active)
                /\ ops[j].phase \notin Active => D[j] = ops[j]
<1>1. ops \in Seq(BridgeCall) /\ Len(ops) \in Nat /\ DOMAIN ops = 1 .. Len(ops)
  BY DEF Shape
<1>2. \A r \in BridgeCall : LET q == [r EXCEPT !.clean = FALSE]
        IN  /\ q \in BridgeCall /\ ~ q.clean
            /\ q.kind = r.kind /\ q.slot = r.slot /\ q.phase = r.phase /\ q.moved = r.moved
            /\ q.direct = r.direct /\ q.entry = r.entry
  BY DEF BridgeCall
<1>3. \A j \in DOMAIN ops : ops[j] \in BridgeCall /\ ops[j].clean \in BOOLEAN
  BY CallsAreCalls
<1>4. \A j \in DOMAIN ops : D[j] = IF j \in J /\ ops[j].phase \in Active
                                   THEN [ops[j] EXCEPT !.clean = FALSE] ELSE ops[j]
  BY DEF Disturbed
<1>5. D = [j \in 1 .. Len(ops) |-> D[j]] /\ \A j \in 1 .. Len(ops) : D[j] \in BridgeCall
  BY <1>1, <1>2, <1>3, <1>4 DEF Disturbed
<1>6. D \in Seq(BridgeCall)
  BY <1>1, <1>5
<1>7. Len(D) = Len(ops) /\ DOMAIN D = DOMAIN ops
  BY <1>1, <1>5, <1>6
<1>8. ASSUME NEW j \in DOMAIN ops
      PROVE  /\ D[j].kind = ops[j].kind /\ D[j].slot = ops[j].slot
             /\ D[j].phase = ops[j].phase /\ D[j].moved = ops[j].moved
             /\ D[j].direct = ops[j].direct /\ D[j].entry = ops[j].entry
             /\ D[j].clean <=> ops[j].clean /\ ~ (j \in J /\ ops[j].phase \in Active)
             /\ ops[j].phase \notin Active => D[j] = ops[j]
  <2>1. CASE j \in J /\ ops[j].phase \in Active
    <3>1. D[j] = [ops[j] EXCEPT !.clean = FALSE] /\ ops[j] \in BridgeCall
      BY <1>3, <1>4, <2>1
    <3>2. QED
      BY <1>2, <2>1, <3>1
  <2>2. CASE ~ (j \in J /\ ops[j].phase \in Active)
    BY <1>4, <2>2
  <2>3. QED
    BY <2>1, <2>2
<1>9. QED
  BY <1>6, <1>7, <1>8

-----------------------------------------------------------------------------
(* What is settled, and the calls that begin.                              *)

IsSettled(s, e) ==
    /\ e \in Writes(s) /\ ops[e].phase = "done" /\ ops[e].clean /\ e >= cutBy
    /\ \A j \in Writes(s) : j <= e

LEMMA SettledMeans ==
    ASSUME Shape, NEW s
    PROVE  /\ Settled(s) \in Nat
           /\ Settled(s) # 0 => IsSettled(s, Settled(s))
           /\ \A e : IsSettled(s, e) => Settled(s) = e /\ e # 0
<1>1. Writes(s) \subseteq Nat \ {0}
  BY CallsAreCalls DEF Writes
<1>2. ASSUME NEW e, IsSettled(s, e) PROVE Settled(s) = e /\ e # 0
  <2>1. e \in Writes(s) /\ \A j \in Writes(s) : j <= e
    BY <1>2 DEF IsSettled
  <2>2. \A i \in Writes(s) : (\A j \in Writes(s) : j <= i) => i = e
    BY <1>1, <2>1
  <2>3. (CHOOSE i \in Writes(s) : \A j \in Writes(s) : j <= i) = e
    BY <2>1, <2>2
  <2>4. \E i \in Writes(s) : ops[i].phase = "done" /\ ops[i].clean /\ i >= cutBy
                            /\ \A j \in Writes(s) : j <= i
    BY <1>2 DEF IsSettled
  <2>5. QED
    BY <1>1, <2>1, <2>3, <2>4 DEF Settled
<1>3. Settled(s) = 0 \/ \E e : IsSettled(s, e)
  BY DEF Settled, IsSettled
<1>4. \A e : IsSettled(s, e) => e \in Nat
  BY <1>1 DEF IsSettled
<1>5. QED
  BY <1>2, <1>3, <1>4

\* A call to read, or to write, as it begins.
Begun(j, kind, s) ==
    /\ ops'[j].kind = kind /\ ops'[j].slot = s
    /\ ops'[j].clean = Undisturbed(s) /\ ops'[j].entry = Settled(s)

LEMMA NewOpTyped ==
    ASSUME Shape, NEW kind \in {"read", "write"}, NEW s \in Slots, NEW phase \in Phases,
           NEW moved \in Seq(Int), NEW o, o = NewOp(kind, s, phase, moved)
    PROVE  /\ o \in BridgeCall
           /\ o.kind = kind /\ o.slot = s /\ o.phase = phase /\ o.moved = moved
           /\ o.clean = Undisturbed(s) /\ o.entry = Settled(s) /\ (o.direct <=> phase = "done")
<1>1. Settled(s) \in Nat /\ Undisturbed(s) \in BOOLEAN
  BY SettledMeans DEF Undisturbed
<1>2. QED
  BY <1>1 DEF NewOp, BridgeCall

LEMMA NewOpOfNothing ==
    ASSUME Shape, NEW kind \in {"read", "write"}, NEW s \in Slots, NEW phase \in Phases,
           NEW o, o = NewOp(kind, s, phase, <<>>)
    PROVE  /\ o \in BridgeCall
           /\ o.kind = kind /\ o.slot = s /\ o.phase = phase /\ o.moved = <<>>
           /\ o.clean = Undisturbed(s) /\ o.entry = Settled(s) /\ (o.direct <=> phase = "done")
<1> DEFINE e == <<>>
<1>1. e \in Seq(Int)
  OBVIOUS
<1>2. o = NewOp(kind, s, phase, e)
  OBVIOUS
<1> HIDE DEF e
<1>3. /\ o \in BridgeCall
      /\ o.kind = kind /\ o.slot = s /\ o.phase = phase /\ o.moved = e
      /\ o.clean = Undisturbed(s) /\ o.entry = Settled(s) /\ (o.direct <=> phase = "done")
  BY <1>1, <1>2, NewOpTyped
<1>4. QED
  BY <1>3 DEF e

LEMMA CuFileReads ==
    ASSUME Shape, NEW s \in Slots, NEW c, c = CuFileCells(s)
    PROVE  /\ c \in Seq(Int) /\ Len(c) = s.size
           /\ \A p \in 1 .. s.size :
                c[p] = IF s.offset + p <= Len(cells) THEN cells[s.offset + p] ELSE Junk
           /\ \A p \in 1 .. s.size : c[p] \in -1 .. Len(ops)
<1>1. s.offset \in Nat /\ s.size \in Nat
  BY BridgeAssumption
<1>2. cells \in Seq(0 .. Len(ops)) /\ Len(ops) \in Nat
  BY DEF Shape
<1> DEFINE v(p) == IF s.offset + p <= Len(cells) THEN cells[s.offset + p] ELSE Junk
<1>3. c = [p \in 1 .. s.size |-> v(p)]
  BY DEF CuFileCells
<1>4. \A p \in 1 .. s.size : v(p) \in -1 .. Len(ops)
  BY <1>1, <1>2 DEF Junk
<1>5. \A p \in 1 .. s.size : v(p) \in Int
  BY <1>2, <1>4
<1> HIDE DEF v
<1>6. c \in Seq(Int) /\ Len(c) = s.size
  BY <1>1, <1>3, <1>5
<1>7. QED
  BY <1>3, <1>4, <1>6 DEF v

\* Each begun read waits, or cuFile has done it.
NewRead(j, s) ==
    /\ Begun(j, "read", s)
    /\ \/ ops'[j].phase = "queued" /\ ops'[j].moved = <<>> /\ ~ ops'[j].direct
       \/ /\ ops'[j].phase = "done" /\ ops'[j].moved = CuFileCells(s) /\ ops'[j].direct

LEMMA ReadStartsTyped ==
    ASSUME Shape, NEW s \in Slots, NEW r \in ReadStarts(s)
    PROVE  /\ r \in BridgeCall /\ r.kind = "read" /\ r.slot = s
           /\ r.clean = Undisturbed(s) /\ r.entry = Settled(s)
           /\ \/ r.phase = "queued" /\ r.moved = <<>> /\ ~ r.direct
              \/ r.phase = "done" /\ r.moved = CuFileCells(s) /\ r.direct
<1>1. "queued" \in Phases /\ "done" \in Phases /\ <<>> \in Seq(Int)
  BY DEF Phases, Active
<1>2. CASE r = NewOp("read", s, "queued", <<>>)
  BY <1>1, <1>2, NewOpOfNothing
<1>3. CASE r = NewOp("read", s, "done", CuFileCells(s))
  BY <1>1, <1>3, NewOpTyped, CuFileReads
<1>4. r \in {NewOp("read", s, "queued", <<>>)} \cup {NewOp("read", s, "done", CuFileCells(s))}
  BY DEF ReadStarts
<1>5. QED
  BY <1>2, <1>3, <1>4

\* dma_to_gpu and scatter_to_gpus begin one read and two.
LEMMA ReadsBegin ==
    ASSUME Shape, NEW s \in Slots, DmaToGpu(s) \/ ScatterToGpus(s)
    PROVE  /\ Lasting /\ UNCHANGED <<path, exists, cells, cutBy>>
           /\ \A j \in DOMAIN ops : ops'[j] = ops[j]
           /\ \A j \in DOMAIN ops' : j \notin DOMAIN ops => NewRead(j, s) /\ j > Len(ops)
<1>1. ops \in Seq(BridgeCall) /\ Len(ops) \in Nat /\ DOMAIN ops = 1 .. Len(ops)
  BY DEF Shape
<1>2. CASE DmaToGpu(s)
  <2>1. PICK r \in ReadStarts(s) : ops' = Append(ops, r)
    BY <1>2 DEF DmaToGpu
  <2>2. r \in BridgeCall
    BY ReadStartsTyped
  <2>3. /\ ops' \in Seq(BridgeCall) /\ DOMAIN ops' = DOMAIN ops \cup {Len(ops) + 1}
        /\ Len(ops') = Len(ops) + 1 /\ ops'[Len(ops) + 1] = r
        /\ \A j \in DOMAIN ops : ops'[j] = ops[j]
    BY <1>1, <2>1, <2>2
  <2>4. NewRead(Len(ops) + 1, s)
    BY <2>3, ReadStartsTyped DEF NewRead, Begun
  <2>5. Lasting
    BY <1>1, <2>3 DEF Lasting
  <2>6. QED
    BY <1>1, <1>2, <2>3, <2>4, <2>5 DEF DmaToGpu
<1>3. CASE ScatterToGpus(s)
  <2>1. PICK r1 \in ReadStarts(s), r2 \in ReadStarts(s) : ops' = ops \o <<r1, r2>>
    BY <1>3 DEF ScatterToGpus
  <2>2. r1 \in BridgeCall /\ r2 \in BridgeCall
    BY ReadStartsTyped
  <2>3. /\ ops' \in Seq(BridgeCall)
        /\ DOMAIN ops' = DOMAIN ops \cup {Len(ops) + 1, Len(ops) + 2}
        /\ Len(ops') = Len(ops) + 2
        /\ ops'[Len(ops) + 1] = r1 /\ ops'[Len(ops) + 2] = r2
        /\ \A j \in DOMAIN ops : ops'[j] = ops[j]
    BY <1>1, <2>1, <2>2
  <2>4. NewRead(Len(ops) + 1, s) /\ NewRead(Len(ops) + 2, s)
    BY <2>3, ReadStartsTyped DEF NewRead, Begun
  <2>5. Lasting
    BY <1>1, <2>3 DEF Lasting
  <2>6. QED
    BY <1>1, <1>3, <2>3, <2>4, <2>5 DEF ScatterToGpus
<1>4. QED
  BY <1>2, <1>3

WriteCall(s) == BeginWrite(s) \/ CuFileWrite(s) \/ CuFileWriteFails(s)

\* dma_from_gpu begins one write, and the writes of the tensor that run are
\* no longer clean; nothing that runs is when cuFile has cut the file.
WriteBegun(s, z) ==
    /\ Lasting /\ Len(ops') = z /\ DOMAIN ops' = DOMAIN ops \cup {z}
    /\ z \in Nat \ {0} /\ z \notin DOMAIN ops /\ \A j \in DOMAIN ops : j < z /\ j \in Nat
    /\ Begun(z, "write", s) /\ ops'[z].moved = <<>>
    /\ ops'[z].phase = (IF CuFileWrite(s) THEN "done" ELSE "queued")
    /\ (ops'[z].direct <=> ops'[z].phase = "done")
    /\ \A j \in DOMAIN ops :
        /\ SameCall(j)
        /\ ops[j].phase \in Active /\ (ops[j].slot = s \/ ~ BeginWrite(s)) => ~ ops'[j].clean
    /\ BeginWrite(s) => UNCHANGED <<path, exists, cells, stats, cutBy>>
    /\ ~ BeginWrite(s) => path' = path /\ exists' = TRUE /\ cutBy' = z

LEMMA WriteBegins ==
    ASSUME Shape, NEW s \in Slots, WriteCall(s), NEW z, z = Len(ops) + 1
    PROVE  WriteBegun(s, z)
<1> DEFINE J == IF BeginWrite(s) THEN {j \in DOMAIN ops : ops[j].slot = s} ELSE DOMAIN ops
           D == Disturbed(J)
           phase == IF CuFileWrite(s) THEN "done" ELSE "queued"
           o == NewOp("write", s, phase, <<>>)
<1>1. ops \in Seq(BridgeCall) /\ Len(ops) \in Nat /\ DOMAIN ops = 1 .. Len(ops)
  BY DEF Shape
<1>2. BeginWrite(s) => ~ CuFileWrite(s)
  <2> SUFFICES ASSUME BeginWrite(s), CuFileWrite(s) PROVE FALSE
    OBVIOUS
  <2>1. cutBy' = cutBy /\ cutBy' = Len(ops) + 1 /\ cutBy \in 0 .. Len(ops)
    BY DEF BeginWrite, CuFileWrite, CuFileOpen, Shape
  <2>2. QED
    BY <1>1, <2>1
<1>3. CuFileWriteFails(s) => ~ BeginWrite(s) /\ ~ CuFileWrite(s)
  <2> SUFFICES ASSUME CuFileWriteFails(s) PROVE ~ BeginWrite(s) /\ ~ CuFileWrite(s)
    OBVIOUS
  <2>1. cutBy' = Len(ops) + 1 /\ cutBy \in 0 .. Len(ops) /\ cells' = <<>>
    BY DEF CuFileWriteFails, CuFileOpen, Shape
  <2>2. ~ BeginWrite(s)
    BY <1>1, <2>1 DEF BeginWrite
  <2>3. ~ CuFileWrite(s)
    <3> SUFFICES ASSUME CuFileWrite(s) PROVE FALSE
      OBVIOUS
    <3>1. DOMAIN cells' = 1 .. s.offset + s.size
      BY DEF CuFileWrite
    <3>2. 1 \in DOMAIN cells'
      BY <3>1, BridgeAssumption
    <3>3. QED
      BY <2>1, <3>2
  <2>4. QED
    BY <2>2, <2>3
<1>4. ops' = Append(D, o)
  <2>1. CASE BeginWrite(s)
    <3>1. J = {j \in DOMAIN ops : ops[j].slot = s} /\ phase = "queued"
      BY <1>2, <2>1
    <3>2. ops' = Append(Disturbed({j \in DOMAIN ops : ops[j].slot = s}),
                        NewOp("write", s, "queued", <<>>))
      BY <2>1 DEF BeginWrite
    <3>3. QED
      BY <3>1, <3>2
  <2>2. CASE CuFileWrite(s)
    <3>1. J = DOMAIN ops /\ phase = "done"
      BY <1>2, <2>2
    <3>2. ops' = Append(Disturbed(DOMAIN ops), NewOp("write", s, "done", <<>>))
      BY <2>2 DEF CuFileWrite
    <3>3. QED
      BY <3>1, <3>2
  <2>3. CASE CuFileWriteFails(s)
    <3>1. J = DOMAIN ops /\ phase = "queued"
      BY <1>3, <2>3
    <3>2. ops' = Append(Disturbed(DOMAIN ops), NewOp("write", s, "queued", <<>>))
      BY <2>3 DEF CuFileWriteFails
    <3>3. QED
      BY <3>1, <3>2
  <2>4. QED
    BY <2>1, <2>2, <2>3 DEF WriteCall
<1>5. phase \in {"queued", "done"} /\ phase \in Phases /\ <<>> \in Seq(Int)
  BY DEF Phases, Active
<1> HIDE DEF phase
<1>6. /\ o \in BridgeCall /\ o.kind = "write" /\ o.slot = s /\ o.phase = phase
      /\ o.moved = <<>> /\ o.clean = Undisturbed(s) /\ o.entry = Settled(s)
      /\ (o.direct <=> phase = "done")
  BY <1>5, NewOpOfNothing
<1> HIDE DEF o
<1>7. /\ D \in Seq(BridgeCall) /\ Len(D) = Len(ops) /\ DOMAIN D = DOMAIN ops
      /\ \A j \in DOMAIN ops :
            /\ D[j].kind = ops[j].kind /\ D[j].slot = ops[j].slot
            /\ D[j].phase = ops[j].phase /\ D[j].moved = ops[j].moved
            /\ D[j].direct = ops[j].direct /\ D[j].entry = ops[j].entry
            /\ D[j].clean <=> ops[j].clean /\ ~ (j \in J /\ ops[j].phase \in Active)
            /\ ops[j].phase \notin Active => D[j] = ops[j]
  <2> HIDE DEF J
  <2>1. QED
    BY DisturbedOps
<1>8. \A j \in DOMAIN ops : ops[j].slot = s \/ ~ BeginWrite(s) => j \in J
  OBVIOUS
<1> HIDE DEF D, J
<1>9. /\ ops' \in Seq(BridgeCall) /\ Len(ops') = z /\ DOMAIN ops' = DOMAIN ops \cup {z}
      /\ ops'[z] = o /\ \A j \in DOMAIN ops : ops'[j] = D[j] /\ j < z
      /\ z \in Nat \ {0} /\ z \notin DOMAIN ops
  BY <1>1, <1>4, <1>6, <1>7
<1>10. Lasting
  BY <1>1, <1>7, <1>9 DEF Lasting
<1>11. Begun(z, "write", s) /\ ops'[z].moved = <<>> /\ ops'[z].phase = phase
       /\ (ops'[z].direct <=> phase = "done")
  BY <1>6, <1>9 DEF Begun
<1>12. \A j \in DOMAIN ops :
          /\ SameCall(j)
          /\ ops[j].phase \in Active /\ (ops[j].slot = s \/ ~ BeginWrite(s)) => ~ ops'[j].clean
  BY <1>7, <1>8, <1>9 DEF SameCall
<1>13. /\ BeginWrite(s) => UNCHANGED <<path, exists, cells, stats, cutBy>>
       /\ ~ BeginWrite(s) => path' = path /\ exists' = TRUE /\ cutBy' = z
  BY DEF BeginWrite, CuFileWrite, CuFileWriteFails, CuFileOpen, WriteCall
<1>14. QED
  <2>1. \A j \in DOMAIN ops : j < z /\ j \in Nat
    BY <1>1, <1>9
  <2>2. QED
    BY <1>9, <1>10, <1>11, <1>12, <1>13, <2>1 DEF phase, WriteBegun

-----------------------------------------------------------------------------
(* Types.                                                                  *)

IsPut(f, p, c) ==
    /\ Len(f) = IF p <= Len(cells) THEN Len(cells) ELSE p
    /\ \A q \in 1 .. Len(f) :
            f[q] = IF q = p THEN c ELSE IF q <= Len(cells) THEN cells[q] ELSE Blank

LEMMA PutCells ==
    ASSUME Shape, NEW p \in Nat \ {0}, NEW c \in 0 .. Len(ops)
    PROVE  /\ Put(p, c) \in Seq(0 .. Len(ops)) /\ Put(p, c) # <<>>
           /\ IsPut(Put(p, c), p, c)
<1> DEFINE m == IF p <= Len(cells) THEN Len(cells) ELSE p
           v(q) == IF q = p THEN c ELSE IF q <= Len(cells) THEN cells[q] ELSE Blank
           S == Put(p, c)
<1>1. cells \in Seq(0 .. Len(ops)) /\ Len(cells) \in Nat /\ 0 \in 0 .. Len(ops)
  BY DEF Shape
<1>2. S = [q \in 1 .. m |-> v(q)]
  BY DEF Put
<1>3. m \in Nat \ {0} /\ \A q \in 1 .. m : v(q) \in 0 .. Len(ops)
  BY <1>1 DEF Blank
<1> HIDE DEF m, v, S
<1>4. S \in Seq(0 .. Len(ops)) /\ Len(S) = m
  BY <1>2, <1>3
<1>5. S # <<>>
  BY <1>3, <1>4, EmptySeq
<1>6. QED
  BY <1>2, <1>3, <1>4, <1>5 DEF m, v, S, IsPut

LEMMA CutCells ==
    ASSUME Shape, NEW s \in Slots, CuFileWrite(s), NEW z, z = Len(ops) + 1
    PROVE  /\ cells' \in Seq(0 .. z) /\ Len(cells') = s.offset + s.size
           /\ \A p \in 1 .. s.size : cells'[s.offset + p] = z
<1>1. cells' = [p \in 1 .. s.offset + s.size |-> IF p <= s.offset THEN 0 ELSE z]
  BY DEF CuFileWrite, CuFileOpen, Blank
<1>2. s.offset \in Nat /\ s.size \in Nat /\ s.offset + s.size \in Nat /\ z \in Nat
  BY BridgeAssumption DEF Shape
<1> DEFINE n == s.offset + s.size
           v(p) == IF p <= s.offset THEN 0 ELSE z
<1>3. \A p \in 1 .. n : v(p) \in 0 .. z
  BY <1>2
<1>4. [p \in 1 .. n |-> v(p)] \in Seq(0 .. z) /\ Len([p \in 1 .. n |-> v(p)]) = n
  <2> HIDE DEF n, v
  <2>1. n \in Nat
    BY <1>2 DEF n
  <2>2. QED
    BY <1>3, <2>1
<1>5. \A p \in 1 .. s.size : cells'[s.offset + p] = z
  BY <1>1, <1>2
<1>6. QED
  BY <1>1, <1>4, <1>5

LEMMA CountTyped ==
    ASSUME stats \in Stats, NEW n \in Nat, NEW s \in Slots, CountReads(n, s) \/ CountWrites(n, s)
    PROVE  /\ stats' \in Stats
           /\ CountReads(n, s) => stats'.reads = stats.reads + n /\ stats'.writes = stats.writes
           /\ CountWrites(n, s) => stats'.reads = stats.reads /\ stats'.writes = stats.writes + n
<1> DEFINE b == n * s.size
<1>1. b \in Nat
  BY BridgeAssumption
<1>2. \/ stats' = [stats EXCEPT !.reads = @ + n, !.bytesRead = @ + b]
      \/ stats' = [stats EXCEPT !.writes = @ + n, !.bytesWritten = @ + b]
  BY DEF CountReads, CountWrites
<1>3. CountReads(n, s) => stats' = [stats EXCEPT !.reads = @ + n, !.bytesRead = @ + b]
  BY DEF CountReads
<1>4. CountWrites(n, s) => stats' = [stats EXCEPT !.writes = @ + n, !.bytesWritten = @ + b]
  BY DEF CountWrites
<1> HIDE DEF b
<1>5. stats' \in Stats
  <2>1. /\ stats.reads + n \in Nat /\ stats.bytesRead + b \in Nat
        /\ stats.writes + n \in Nat /\ stats.bytesWritten + b \in Nat
    BY <1>1 DEF Stats
  <2>2. \A x, y \in Nat : /\ [stats EXCEPT !.reads = x, !.bytesRead = y] \in Stats
                         /\ [stats EXCEPT !.writes = x, !.bytesWritten = y] \in Stats
    BY DEF Stats
  <2>3. QED
    BY <1>2, <2>1, <2>2
<1>6. QED
  BY <1>1, <1>3, <1>4, <1>5 DEF Stats

LEMMA SeqGrows ==
    ASSUME NEW m \in Int, NEW n \in Int, m <= n, NEW s \in Seq(0 .. m) PROVE s \in Seq(0 .. n)
<1>1. 0 .. m \subseteq 0 .. n
  OBVIOUS
<1>2. QED
  BY <1>1, SeqMonotonic

\* A call that is as it was stays tidy.
LEMMA TidyStays ==
    ASSUME Shape, Lasting, NEW j \in DOMAIN ops, SameCall(j), exists => exists'
    PROVE  Tidy(j)'
<1>1. Tidy(j) /\ Len(ops) <= Len(ops') /\ Len(ops) \in Nat /\ Len(ops') \in Nat
  BY DEF Shape, Lasting
<1>2. -1 .. Len(ops) \subseteq -1 .. Len(ops')
  BY <1>1
<1>3. QED
  BY <1>1, <1>2 DEF Tidy, SameCall

LEMMA ReadsShape == ASSUME Shape, NEW s \in Slots, DmaToGpu(s) \/ ScatterToGpus(s) PROVE Shape'
<1>1. /\ Lasting /\ UNCHANGED <<path, exists, cells, cutBy>>
      /\ \A j \in DOMAIN ops : ops'[j] = ops[j]
      /\ \A j \in DOMAIN ops' : j \notin DOMAIN ops => NewRead(j, s)
  BY ReadsBegin
<1>2. Len(ops) \in Nat /\ Len(ops') \in Nat /\ Len(ops) <= Len(ops') /\ ops' \in Seq(BridgeCall)
  BY <1>1 DEF Shape, Lasting
<1>3. stats' \in Stats
  <2>1. \E n \in Nat : CountReads(n, s)
    <3>1. CASE DmaToGpu(s)
      BY <3>1 DEF DmaToGpu
    <3>2. CASE ScatterToGpus(s)
      BY <3>2 DEF ScatterToGpus
    <3>3. QED
      BY <3>1, <3>2
  <2>2. QED
    BY <2>1, CountTyped DEF Shape
<1>4. cells \in Seq(0 .. Len(ops'))
  BY <1>2, SeqGrows DEF Shape
<1>5. ASSUME NEW j \in DOMAIN ops' PROVE Tidy(j)'
  <2>1. CASE j \in DOMAIN ops
    BY <1>1, <2>1, TidyStays DEF SameCall
  <2>2. CASE j \notin DOMAIN ops /\ ops'[j].phase = "queued"
    <3>1. ops'[j].kind = "read" /\ ops'[j].slot = s /\ ops'[j].moved = <<>> /\ ~ ops'[j].direct
          /\ s.size \in Nat
      BY <1>1, <2>2, BridgeAssumption DEF NewRead, Begun
    <3>2. Len(ops'[j].moved) = 0
      BY <3>1
    <3>3. QED
      BY <2>2, <3>1, <3>2 DEF Tidy
  <2>3. CASE j \notin DOMAIN ops /\ ops'[j].phase # "queued"
    <3>1. /\ ops'[j].kind = "read" /\ ops'[j].slot = s /\ ops'[j].moved = CuFileCells(s)
          /\ ops'[j].direct /\ ops'[j].phase = "done" /\ s.size \in Nat
      BY <1>1, <2>3, BridgeAssumption DEF NewRead, Begun
    <3>2. /\ Len(ops'[j].moved) = s.size
          /\ \A p \in 1 .. s.size : ops'[j].moved[p] \in -1 .. Len(ops')
      BY <1>2, <3>1, CuFileReads, SMTT(40)
    <3>3. QED
      BY <3>1, <3>2 DEF Tidy, Active
  <2>4. QED
    BY <2>1, <2>2, <2>3
<1>6. QED
  BY <1>1, <1>2, <1>3, <1>4, <1>5 DEF Shape

LEMMA WritesShape == ASSUME Shape, NEW s \in Slots, WriteCall(s) PROVE Shape'
<1> PICK z : z = Len(ops) + 1
  OBVIOUS
<1>1. /\ Lasting /\ Len(ops') = z /\ DOMAIN ops' = DOMAIN ops \cup {z} /\ z \in Nat \ {0}
      /\ Begun(z, "write", s) /\ ops'[z].moved = <<>> /\ ops'[z].phase \in {"queued", "done"}
      /\ (ops'[z].direct <=> ops'[z].phase = "done")
      /\ \A j \in DOMAIN ops : SameCall(j)
      /\ BeginWrite(s) => UNCHANGED <<path, exists, cells, stats, cutBy>>
      /\ ~ BeginWrite(s) => path' = path /\ exists' = TRUE /\ cutBy' = z
  BY WriteBegins DEF WriteBegun
<1>2. Len(ops) \in Nat /\ Len(ops) <= z /\ ops' \in Seq(BridgeCall) /\ cutBy \in 0 .. Len(ops)
  BY <1>1 DEF Shape, Lasting
<1>3. stats' \in Stats
  <2>1. CASE CuFileWrite(s)
    BY <2>1, CountTyped DEF CuFileWrite, Shape
  <2>2. CASE ~ CuFileWrite(s)
    BY <2>2 DEF WriteCall, BeginWrite, CuFileWriteFails, Shape
  <2>3. QED
    BY <2>1, <2>2
<1>4. cells' \in Seq(0 .. z) /\ (cells' # <<>> => exists')
  <2>1. CASE CuFileWrite(s) /\ ~ BeginWrite(s)
    BY <1>1, <2>1, CutCells
  <2>2. CASE CuFileWriteFails(s) /\ ~ BeginWrite(s)
    BY <1>1, <2>2 DEF CuFileWriteFails
  <2>3. CASE BeginWrite(s)
    <3>1. cells' = cells /\ exists' = exists
      BY <2>3 DEF BeginWrite
    <3>2. QED
      BY <1>1, <1>2, <3>1, SeqGrows DEF Shape
  <2>4. QED
    BY <2>1, <2>2, <2>3 DEF WriteCall
<1>5. ASSUME NEW j \in DOMAIN ops' PROVE Tidy(j)'
  <2>1. CASE j \in DOMAIN ops
    BY <1>1, <2>1, TidyStays
  <2>2. CASE j = z
    <3>1. Len(ops'[j].moved) = 0 /\ s.size \in Nat /\ ops'[j].slot = s /\ ops'[j].kind = "write"
      BY <1>1, <2>2, BridgeAssumption DEF Begun
    <3>2. QED
      BY <1>1, <2>2, <3>1 DEF Tidy, Active
  <2>3. QED
    BY <1>1, <2>1, <2>2
<1>6. path' \in {"A", "B", "C"} /\ exists' \in BOOLEAN /\ cutBy' \in 0 .. z
  <2>1. path' = path /\ exists' \in {exists, TRUE} /\ cutBy' \in {cutBy, z}
    BY <1>1
  <2>2. path' \in {"A", "B", "C"}
    BY <2>1 DEF Shape
  <2>3. exists' \in BOOLEAN
    BY <2>1, Zenon DEF Shape
  <2>4. cutBy' \in 0 .. z
    BY <1>1, <1>2, <2>1
  <2>5. QED
    BY <2>2, <2>3, <2>4
<1>7. QED
  BY <1>1, <1>2, <1>3, <1>4, <1>5, <1>6 DEF Shape

LEMMA StepsShape == ASSUME Shape, NEW i \in DOMAIN ops, Step(i) PROVE Shape'
<1>0. Tidy(i) /\ Len(ops[i].moved) \in Nat /\ Len(ops) \in Nat /\ ops[i].moved \in Seq(Int)
  BY CallsAreCalls, PlacesAreNumbers DEF Shape
<1>1. SUFFICES ASSUME NEW phase, NEW moved, Advance(i, phase, moved),
                      stats' \in Stats, cutBy' = cutBy, path' = path, exists' = exists,
                      cells' \in Seq(0 .. Len(ops)), cells' # <<>> => exists,
                      Len(moved) <= ops[i].slot.size, phase # "queued",
                      phase = "moving" => exists,
                      \A p \in 1 .. Len(moved) : moved[p] \in -1 .. Len(ops),
                      ~ ops[i].direct => \A p \in 1 .. Len(moved) : moved[p] # Junk,
                      ops[i].kind = "read" /\ phase = "done" => Len(moved) = ops[i].slot.size
               PROVE  Shape'
  <2>1. CASE ReadCell(i)
    <3> PICK c : c = cells[Place(ops[i])]
      OBVIOUS
    <3> DEFINE m == Append(ops[i].moved, c)
    <3>1. /\ Advance(i, "moving", m) /\ c \in 0 .. Len(ops)
          /\ Len(ops[i].moved) < ops[i].slot.size
          /\ UNCHANGED <<path, exists, cells, stats, cutBy>>
      BY <2>1, ReadCellMoves
    <3>2. Len(m) = Len(ops[i].moved) + 1 /\ \A p \in 1 .. Len(m) :
            m[p] = IF p = Len(m) THEN c ELSE ops[i].moved[p]
      BY <1>0, <3>1
    <3>3. Len(m) <= ops[i].slot.size
      BY <1>0, <3>1, <3>2, CallsAreCalls
    <3>4. \A p \in 1 .. Len(m) : m[p] \in -1 .. Len(ops)
      BY <1>0, <3>1, <3>2, SMTT(40) DEF Tidy
    <3>5. ~ ops[i].direct => \A p \in 1 .. Len(m) : m[p] # Junk
      BY <1>0, <3>1, <3>2 DEF Tidy, Junk
    <3> HIDE DEF m
    <3>6. exists
      BY <1>0, <2>1 DEF Tidy, ReadCell
    <3>7. QED
      BY <1>1, <3>1, <3>3, <3>4, <3>5, <3>6 DEF Shape
  <2>2. CASE WriteCell(i)
    <3> DEFINE m == Append(ops[i].moved, i)
    <3>1. /\ Advance(i, "moving", m) /\ i \in 1 .. Len(ops) /\ Place(ops[i]) \in Nat \ {0}
          /\ Len(ops[i].moved) < ops[i].slot.size /\ ops[i].phase = "moving"
          /\ cells' = Put(Place(ops[i]), i) /\ UNCHANGED <<path, exists, stats, cutBy>>
      BY <2>2, WriteCellMoves, CallsAreCalls, PlacesAreNumbers
    <3>2. Len(m) = Len(ops[i].moved) + 1 /\ \A p \in 1 .. Len(m) :
            m[p] = IF p = Len(m) THEN i ELSE ops[i].moved[p]
      BY <1>0, <3>1
    <3>3. Len(m) <= ops[i].slot.size
      BY <1>0, <3>1, <3>2, CallsAreCalls
    <3>4. \A p \in 1 .. Len(m) : m[p] \in -1 .. Len(ops)
      BY <1>0, <3>1, <3>2, SMTT(40) DEF Tidy
    <3>5. ~ ops[i].direct => \A p \in 1 .. Len(m) : m[p] # Junk
      BY <1>0, <3>1, <3>2 DEF Tidy, Junk
    <3>6. cells' \in Seq(0 .. Len(ops))
      <4>1. i \in 0 .. Len(ops)
        BY <1>0, <3>1
      <4>2. QED
        BY <3>1, <4>1, PutCells
    <3>7. exists
      BY <1>0, <3>1 DEF Tidy
    <3> HIDE DEF m
    <3>8. QED
      BY <1>1, <3>1, <3>3, <3>4, <3>5, <3>6, <3>7 DEF Shape
  <2>3. CASE Open(i) \/ EndRead(i) \/ EndWrite(i) \/ Fail(i)
    <3>1. /\ \A p \in 1 .. Len(ops[i].moved) : ops[i].moved[p] \in -1 .. Len(ops)
          /\ ~ ops[i].direct => \A p \in 1 .. Len(ops[i].moved) : ops[i].moved[p] # Junk
          /\ Len(ops[i].moved) <= ops[i].slot.size
      BY <1>0 DEF Tidy
    <3>2. UNCHANGED <<path, exists, cells, cutBy>> /\ stats' \in Stats
      BY <2>3, OtherMoves, CountTyped, CallsAreCalls DEF Shape
    <3>3. cells \in Seq(0 .. Len(ops)) /\ (cells # <<>> => exists)
      BY DEF Shape
    <3>4. PICK phase \in {"moving", "raised", "done"} :
            /\ Advance(i, phase, ops[i].moved) /\ (phase = "moving" => exists)
            /\ phase = "done" => Len(ops[i].moved) = ops[i].slot.size
      BY <2>3, OtherMoves
    <3>5. QED
      BY <1>1, <3>1, <3>2, <3>3, <3>4
  <2>4. QED
    BY <2>1, <2>2, <2>3 DEF Step
<1>2. ASSUME NEW j \in DOMAIN ops, j # i PROVE Tidy(j)'
  BY <1>1, <1>2, TidyStays DEF Advance, SameCall
<1>3. Tidy(i)'
  <2>1. ops'[i].phase = phase /\ ops'[i].moved = moved /\ Len(ops') = Len(ops)
        /\ ops'[i].slot = ops[i].slot /\ ops'[i].kind = ops[i].kind
        /\ ops'[i].direct = ops[i].direct /\ ops[i].phase \in Active
    BY <1>1 DEF Advance, Lasting
  <2>2. ~ ops[i].direct
    BY <1>0, <2>1 DEF Tidy
  <2>3. QED
    BY <1>1, <2>1, <2>2 DEF Tidy
<1>4. QED
  BY <1>1, <1>2, <1>3 DEF Shape, Advance, Lasting

LEMMA InitShape == Init => Shape
<1> SUFFICES ASSUME Init PROVE Shape
  OBVIOUS
<1>1. PICK n \in Preloaded : cells = [p \in 1 .. (IF exists THEN n ELSE 0) |-> Blank]
  BY DEF Init
<1> DEFINE m == IF exists THEN n ELSE 0
<1>2. m \in Nat
  BY BridgeAssumption
<1>3. 0 \in 0 .. Len(ops) /\ Len(ops) = 0 /\ DOMAIN ops = {} /\ ops \in Seq(BridgeCall)
  BY DEF Init
<1>4. cells \in Seq(0 .. Len(ops)) /\ Len(cells) = m
  <2>1. cells = [p \in 1 .. m |-> 0]
    BY <1>1 DEF Blank
  <2> HIDE DEF m
  <2>2. QED
    BY <1>2, <1>3, <2>1
<1>5. cells # <<>> => exists
  BY <1>2, <1>4, EmptySeq
<1>6. stats \in Stats
  BY DEF Init, Stats
<1>7. path \in {"A", "B", "C"} /\ exists \in BOOLEAN /\ cutBy \in 0 .. Len(ops)
  BY <1>3 DEF Init
<1>8. QED
  BY <1>3, <1>4, <1>5, <1>6, <1>7 DEF Shape

LEMMA NextShape == Shape /\ [Next]_vars => Shape'
<1> SUFFICES ASSUME Shape, [Next]_vars PROVE Shape'
  OBVIOUS
<1>1. CASE UNCHANGED vars
  <2>1. \A i \in DOMAIN ops : Tidy(i)'
    BY <1>1 DEF Shape, vars, Tidy
  <2>2. QED
    BY <1>1, <2>1 DEF Shape, vars
<1>2. ASSUME NEW s \in Slots, Call(s) PROVE Shape'
  BY <1>2, ReadsShape, WritesShape DEF Call, WriteCall
<1>3. ASSUME NEW i \in DOMAIN ops, Step(i) PROVE Shape'
  BY <1>3, StepsShape
<1>4. QED
  BY <1>1, <1>2, <1>3 DEF Next

-----------------------------------------------------------------------------
(* Who writes a tensor.                                                    *)

\* A step of a thread, whatever it moves.
LEMMA ThreadsAdvance ==
    ASSUME Shape, NEW i \in DOMAIN ops, Step(i)
    PROVE  /\ Lasting /\ DOMAIN ops' = DOMAIN ops /\ Len(ops') = Len(ops)
           /\ ops[i].phase \in Active /\ ops'[i].clean = ops[i].clean
           /\ \A j \in DOMAIN ops : j # i => ops'[j] = ops[j]
           /\ cutBy' = cutBy /\ (~ WriteCell(i) => cells' = cells)
<1>1. CASE ReadCell(i)
  BY <1>1, ReadCellMoves DEF Advance
<1>2. CASE WriteCell(i)
  BY <1>2, WriteCellMoves DEF Advance
<1>3. CASE Open(i) \/ EndRead(i) \/ EndWrite(i) \/ Fail(i)
  BY <1>3, OtherMoves DEF Advance
<1>4. QED
  BY <1>1, <1>2, <1>3 DEF Step

LEMMA WritesStay ==
    ASSUME Shape, Lasting, NEW s PROVE Writes(s) \subseteq Writes(s)'
  BY DEF Lasting, Writes

LEMMA NextAlone == Shape /\ Alone /\ [Next]_vars => Alone'
<1> SUFFICES ASSUME Shape, Alone, [Next]_vars,
                    NEW i \in DOMAIN ops', NEW j \in DOMAIN ops', i < j,
                    ops'[j].kind = "write", ops'[i].kind = "write",
                    ops'[i].slot = ops'[j].slot, ops'[i].phase \in Active
             PROVE  ~ ops'[i].clean /\ ~ ops'[j].clean
  BY DEF Alone, Running
<1>1. CASE UNCHANGED vars
  BY <1>1 DEF Alone, Running, vars
<1>2. ASSUME NEW s \in Slots, DmaToGpu(s) \/ ScatterToGpus(s)
      PROVE  ~ ops'[i].clean /\ ~ ops'[j].clean
  <2>1. i \in DOMAIN ops /\ j \in DOMAIN ops /\ ops'[i] = ops[i] /\ ops'[j] = ops[j]
    BY <1>2, ReadsBegin DEF NewRead, Begun
  <2>2. QED
    BY <2>1 DEF Alone, Running
<1>3. ASSUME NEW s \in Slots, WriteCall(s)
      PROVE  ~ ops'[i].clean /\ ~ ops'[j].clean
  <2> PICK z : z = Len(ops) + 1
    OBVIOUS
  <2>1. /\ Lasting /\ DOMAIN ops' = DOMAIN ops \cup {z} /\ z \in Nat
        /\ \A q \in DOMAIN ops : q < z /\ q \in Nat
        /\ ops'[z].slot = s /\ ops'[z].clean = Undisturbed(s)
        /\ \A q \in DOMAIN ops :
              SameCall(q) /\ (ops[q].phase \in Active /\ ops[q].slot = s => ~ ops'[q].clean)
    <3>1. WriteBegun(s, z)
      BY <1>3, WriteBegins
    <3>2. QED
      BY <3>1 DEF WriteBegun, Begun
  <2>2. i \in DOMAIN ops
    BY <2>1
  <2>3. CASE j \in DOMAIN ops
    BY <2>1, <2>2, <2>3 DEF Alone, Running, SameCall, Lasting
  <2>4. CASE j = z
    <3>1. ops[i].slot = s /\ ops[i].phase \in Active /\ ops[i].kind = "write"
      BY <2>1, <2>2, <2>4 DEF SameCall
    <3>2. ~ Undisturbed(s)
      BY <2>2, <3>1 DEF Undisturbed, Writes, Running
    <3>3. QED
      BY <2>1, <2>2, <2>4, <3>1, <3>2
  <2>5. QED
    BY <2>1, <2>3, <2>4
<1>4. ASSUME NEW q \in DOMAIN ops, Step(q) PROVE ~ ops'[i].clean /\ ~ ops'[j].clean
  <2>1. /\ Lasting /\ DOMAIN ops' = DOMAIN ops /\ ops[q].phase \in Active
        /\ \A r \in DOMAIN ops : r # q => ops'[r] = ops[r]
    BY <1>4, ThreadsAdvance
  <2>2. Running(i, ops[j].slot) /\ ops[i].kind = "write" /\ ops[j].kind = "write"
    BY <2>1 DEF Running, Lasting
  <2>3. QED
    BY <2>1, <2>2 DEF Alone, Lasting
<1>5. QED
  BY <1>1, <1>2, <1>3, <1>4 DEF Next, Call, WriteCall

\* A write that runs is not in the tensor of the last clean one.
LEMMA NoRival ==
    ASSUME Shape, Alone, NEW i \in DOMAIN ops, NEW j \in DOMAIN ops, i # j,
           ops[i].kind = "write", ops[i].phase \in Active,
           ops[j].kind = "write", ops[j].clean, Last(j)
    PROVE  ops[i].slot # ops[j].slot
<1> SUFFICES ASSUME ops[i].slot = ops[j].slot PROVE FALSE
  OBVIOUS
<1>1. i < j
  BY CallsAreCalls DEF Last, Writes
<1>2. QED
  BY <1>1 DEF Alone, Running

-----------------------------------------------------------------------------
(* What is in the file.                                                    *)

InFile(i) ==
    \A p \in 1 .. Progress(ops[i]) :
        /\ ops[i].slot.offset + p <= Len(cells)
        /\ cells[ops[i].slot.offset + p] = i

LEMMA LastBefore ==
    ASSUME Shape, Lasting, NEW j \in DOMAIN ops, cutBy' = cutBy, Last(j)' PROVE Last(j)
<1>1. PICK s : s = ops[j].slot
  OBVIOUS
<1>2. Writes(s) \subseteq Writes(s)' /\ ops'[j].slot = s
  BY <1>1, WritesStay DEF Lasting
<1>3. QED
  BY <1>1, <1>2 DEF Last

\* Tensors do not overlap: the cell that a thread writes is in no other one.
LEMMA CellsApart ==
    ASSUME Shape, Alone, NEW i \in DOMAIN ops, NEW j \in DOMAIN ops, i # j,
           WriteCell(i), ops[j].kind = "write", ops[j].clean, Last(j), InFile(j),
           NEW p \in 1 .. Progress(ops[j])
    PROVE  /\ ops[j].slot.offset + p <= Len(cells')
           /\ cells'[ops[j].slot.offset + p] = j
<1> DEFINE s == ops[i].slot
           t == ops[j].slot
           c == Place(ops[i])
           q == t.offset + p
<1>1. /\ ops[i].kind = "write" /\ ops[i].phase \in Active /\ Len(ops[i].moved) < s.size
      /\ cells' = Put(c, i)
  <2>1. ops[i].phase = "moving"
    BY WriteCellMoves
  <2>2. QED
    BY <2>1, WriteCellMoves DEF Active
<1>2. s # t /\ s \in Slots /\ t \in Slots
  BY <1>1, NoRival, CallsAreCalls
<1>3. ~ Overlap(s, t)
  BY <1>2, BridgeAssumption
<1>4. /\ s.offset \in Nat /\ t.offset \in Nat /\ s.size \in Nat /\ t.size \in Nat
      /\ Len(ops[i].moved) \in Nat /\ c = s.offset + Len(ops[i].moved) + 1
      /\ c \in Nat \ {0} /\ Len(cells) \in Nat /\ i \in 0 .. Len(ops)
  <2>1. i \in 1 .. Len(ops) /\ Len(ops) \in Nat
    BY CallsAreCalls
  <2>2. i \in 0 .. Len(ops)
    BY <2>1
  <2>3. QED
    BY <2>2, CallsAreCalls, PlacesAreNumbers
<1>5. p \in Nat /\ 1 <= p /\ p <= t.size
  <2>1. Progress(ops[j]) \in Nat /\ Progress(ops[j]) <= t.size
    <3>1. Len(ops[j].moved) <= ops[j].slot.size
      BY DEF Shape, Tidy
    <3>2. Len(ops[j].moved) \in Nat /\ ops[j].slot.size \in Nat
      BY CallsAreCalls, PlacesAreNumbers
    <3>3. QED
      BY <3>1, <3>2 DEF Progress
  <2>2. QED
    BY <1>4, <2>1
<1>6. q <= Len(cells) /\ cells[q] = j
  BY DEF InFile
<1> HIDE DEF s, t, c
<1>7. q \in Nat /\ 1 <= q /\ q # c
  <2> DEFINE n == Len(ops[i].moved)
  <2>1. ~ (s.offset < t.offset + t.size /\ t.offset < s.offset + s.size)
    BY <1>3 DEF Overlap
  <2>2. n < s.size /\ n \in Nat /\ c = s.offset + n + 1
    BY <1>1, <1>4
  <2> HIDE DEF n
  <2>3. q \in Nat /\ 1 <= q
    BY <1>4, <1>5, SMTT(40)
  <2>4. ASSUME NEW so \in Nat, NEW ss \in Nat, NEW to \in Nat, NEW ts \in Nat,
               ~ (so < to + ts /\ to < so + ss), n < ss, p <= ts
        PROVE  to + p # so + n + 1
    BY <1>5, <2>2, <2>4
  <2>5. QED
    BY <1>4, <1>5, <2>1, <2>2, <2>3, <2>4
<1>8. /\ Len(Put(c, i)) = IF c <= Len(cells) THEN Len(cells) ELSE c
      /\ \A r \in 1 .. Len(Put(c, i)) : Put(c, i)[r] =
            IF r = c THEN i ELSE IF r <= Len(cells) THEN cells[r] ELSE Blank
  <2>1. c \in Nat \ {0} /\ i \in 0 .. Len(ops)
    BY <1>4
  <2>2. IsPut(Put(c, i), c, i)
    BY <2>1, PutCells
  <2>3. QED
    BY <2>2 DEF IsPut
<1> HIDE DEF q
<1>9. q <= Len(Put(c, i))
  <2>1. Len(Put(c, i)) = IF c <= Len(cells) THEN Len(cells) ELSE c
    BY <1>8
  <2>2. QED
    BY <1>4, <1>6, <1>7, <2>1
<1>10. q \in 1 .. Len(Put(c, i))
  BY <1>4, <1>7, <1>8, <1>9
<1>11. cells'[q] = j /\ q <= Len(cells')
  BY <1>1, <1>6, <1>7, <1>8, <1>9, <1>10
<1>12. QED
  BY <1>11 DEF q, t

\* A thread brings its own tensor one cell further.
LEMMA OwnCells ==
    ASSUME Shape, NEW i \in DOMAIN ops, Step(i), ops[i].kind = "write", InFile(i)
    PROVE  InFile(i)'
<1>0. ops'[i].slot = ops[i].slot
  BY ThreadsAdvance DEF Lasting
<1>1. CASE WriteCell(i)
  <2> DEFINE n == Len(ops[i].moved)
             c == Place(ops[i])
             f == ops[i].slot.offset
  <2>1. /\ ops'[i].phase = "moving" /\ ops'[i].moved = Append(ops[i].moved, i)
        /\ ops[i].phase = "moving" /\ cells' = Put(c, i)
    BY <1>1, WriteCellMoves DEF Advance
  <2>2. /\ n \in Nat /\ f \in Nat /\ c = f + n + 1 /\ c \in Nat \ {0} /\ Len(cells) \in Nat
        /\ i \in 0 .. Len(ops) /\ ops[i].moved \in Seq(Int)
    BY CallsAreCalls, PlacesAreNumbers
  <2>3. Progress(ops[i]) = n /\ Progress(ops'[i]) = n + 1
    BY <2>1, <2>2 DEF Progress
  <2>4. \A p \in 1 .. n : f + p <= Len(cells) /\ cells[f + p] = i
    BY <2>3 DEF InFile
  <2>5. /\ Len(Put(c, i)) = IF c <= Len(cells) THEN Len(cells) ELSE c
        /\ \A r \in 1 .. Len(Put(c, i)) : Put(c, i)[r] =
              IF r = c THEN i ELSE IF r <= Len(cells) THEN cells[r] ELSE Blank
    <3> PICK a : a = c
      OBVIOUS
    <3>1. a \in Nat \ {0} /\ i \in 0 .. Len(ops)
      BY <2>2
    <3>2. IsPut(Put(a, i), a, i)
      BY <3>1, PutCells
    <3>3. QED
      BY <3>2 DEF IsPut
  <2> HIDE DEF n, c, f
  <2>6. ASSUME NEW p \in 1 .. n + 1
        PROVE  f + p <= Len(cells') /\ cells'[f + p] = i
    <3>1. CASE p = n + 1
      <4>1. f + p = c /\ c \in 1 .. Len(Put(c, i))
        BY <2>2, <2>5, <3>1, SMTT(30)
      <4>2. Put(c, i)[c] = i
        BY <2>5, <4>1
      <4>3. QED
        BY <2>1, <2>2, <4>1, <4>2
    <3>2. CASE p # n + 1
      <4>1. p \in 1 .. n
        BY <2>2, <3>2
      <4>2. f + p <= Len(cells) /\ cells[f + p] = i
        BY <2>4, <4>1
      <4>3. f + p # c /\ f + p \in 1 .. Len(Put(c, i))
        BY <2>2, <2>5, <4>1, <4>2
      <4>4. QED
        BY <2>1, <2>2, <2>5, <4>2, <4>3
    <3>3. QED
      BY <3>1, <3>2
  <2>7. QED
    BY <1>0, <2>3, <2>6 DEF InFile, f
<1>2. CASE ReadCell(i)
  BY <1>2 DEF ReadCell
<1>3. CASE Open(i) \/ EndRead(i) \/ EndWrite(i) \/ Fail(i)
  <2>1. /\ cells' = cells
        /\ \/ ops'[i].phase = "moving" /\ ops'[i].moved = ops[i].moved /\ ops[i].phase = "queued"
           \/ ops'[i].phase = "raised"
           \/ /\ ops'[i].phase = "done" /\ ops[i].phase = "moving"
              /\ Len(ops[i].moved) = ops[i].slot.size
    BY <1>3, OtherMoves DEF Advance
  <2>2. ops[i].phase = "queued" => ops[i].moved = <<>> /\ Len(<<>>) = 0
    BY EmptySeq DEF Shape, Tidy
  <2>3. Progress(ops'[i]) = 0 \/ Progress(ops'[i]) = Progress(ops[i])
    BY <1>0, <2>1, <2>2 DEF Progress
  <2>4. 1 .. 0 = {}
    OBVIOUS
  <2>5. QED
    BY <1>0, <2>1, <2>3, <2>4 DEF InFile
<1>4. QED
  BY <1>1, <1>2, <1>3 DEF Step

LEMMA NextWritten == Shape /\ Alone /\ Written /\ [Next]_vars => Written'
<1> SUFFICES ASSUME Shape, Alone, Written, [Next]_vars,
                    NEW j \in DOMAIN ops', ops'[j].kind = "write", ops'[j].clean, Last(j)'
             PROVE  InFile(j)'
  BY DEF Written, InFile
<1>1. ASSUME j \in DOMAIN ops, Lasting, cutBy' = cutBy
      PROVE  InFile(j) /\ Last(j) /\ ops[j].kind = "write" /\ ops[j].clean
  <2>1. Last(j) /\ ops[j].kind = "write" /\ ops[j].clean
    BY <1>1, LastBefore DEF Lasting
  <2>2. QED
    BY <1>1, <2>1 DEF Written, InFile
<1>2. CASE UNCHANGED vars
  <2>1. Lasting /\ j \in DOMAIN ops
    BY <1>2 DEF Lasting, Shape, vars
  <2>2. QED
    BY <1>1, <1>2, <2>1 DEF InFile, vars
<1>3. ASSUME NEW s \in Slots, DmaToGpu(s) \/ ScatterToGpus(s) PROVE InFile(j)'
  <2>1. Lasting /\ cutBy' = cutBy /\ cells' = cells
    BY <1>3, ReadsBegin
  <2>2. j \in DOMAIN ops /\ ops'[j] = ops[j]
    BY <1>3, ReadsBegin DEF NewRead, Begun
  <2>3. QED
    BY <1>1, <2>1, <2>2 DEF InFile
<1>4. ASSUME NEW s \in Slots, WriteCall(s) PROVE InFile(j)'
  <2> PICK z : z = Len(ops) + 1
    OBVIOUS
  <2>1. /\ Lasting /\ DOMAIN ops' = DOMAIN ops \cup {z} /\ z \in Nat
        /\ \A q \in DOMAIN ops : q < z /\ q \in Nat
        /\ ops'[z].slot = s /\ ops'[z].kind = "write"
        /\ ops'[z].phase = (IF CuFileWrite(s) THEN "done" ELSE "queued")
        /\ \A q \in DOMAIN ops : SameCall(q)
        /\ BeginWrite(s) => cells' = cells /\ cutBy' = cutBy
        /\ ~ BeginWrite(s) => cutBy' = z
    <3>1. WriteBegun(s, z)
      BY <1>4, WriteBegins
    <3>2. QED
      BY <3>1 DEF WriteBegun, Begun
  <2>2. CASE j = z
    <3>1. CASE CuFileWrite(s)
      <4>1. Progress(ops'[z]) = s.size
        BY <2>1, <3>1 DEF Progress
      <4>2. Len(cells') = s.offset + s.size /\ \A p \in 1 .. s.size : cells'[s.offset + p] = z
        BY <3>1, CutCells
      <4>3. \A p \in 1 .. s.size : s.offset + p <= s.offset + s.size
        BY BridgeAssumption
      <4>4. QED
        BY <2>1, <2>2, <4>1, <4>2, <4>3 DEF InFile
    <3>2. CASE ~ CuFileWrite(s)
      <4>1. Progress(ops'[z]) = 0 /\ 1 .. 0 = {}
        BY <2>1, <3>2 DEF Progress
      <4>2. QED
        BY <2>2, <4>1 DEF InFile
    <3>3. QED
      BY <3>1, <3>2
  <2>3. CASE j \in DOMAIN ops
    <3>1. BeginWrite(s)
      BY <2>1, <2>3 DEF Last
    <3>2. InFile(j) /\ SameCall(j) /\ cells' = cells
      BY <1>1, <2>1, <2>3, <3>1
    <3>3. QED
      BY <3>2 DEF InFile, SameCall, Progress
  <2>4. QED
    BY <2>1, <2>2, <2>3
<1>5. ASSUME NEW i \in DOMAIN ops, Step(i) PROVE InFile(j)'
  <2>1. /\ Lasting /\ DOMAIN ops' = DOMAIN ops /\ cutBy' = cutBy
        /\ \A r \in DOMAIN ops : r # i => ops'[r] = ops[r]
        /\ ~ WriteCell(i) => cells' = cells
    BY <1>5, ThreadsAdvance
  <2>2. InFile(j) /\ Last(j) /\ ops[j].kind = "write" /\ ops[j].clean
    BY <1>1, <2>1
  <2>3. CASE j = i
    BY <1>5, <2>2, <2>3, OwnCells
  <2>4. CASE j # i /\ WriteCell(i)
    <3>1. \A p \in 1 .. Progress(ops[j]) :
            ops[j].slot.offset + p <= Len(cells') /\ cells'[ops[j].slot.offset + p] = j
      BY <2>1, <2>2, <2>4, CellsApart
    <3>2. QED
      BY <2>1, <2>4, <3>1 DEF InFile
  <2>5. CASE j # i /\ ~ WriteCell(i)
    BY <2>1, <2>2, <2>5 DEF InFile
  <2>6. QED
    BY <2>3, <2>4, <2>5
<1>6. QED
  BY <1>2, <1>3, <1>4, <1>5 DEF Next, Call, WriteCall

LEMMA WrittenIsOnFile == Shape /\ Written => SettledIsOnFile
<1> SUFFICES ASSUME Shape, Written, NEW s \in Slots, Settled(s) # 0
             PROVE  /\ exists /\ s.offset + s.size <= Len(cells)
                    /\ \A p \in 1 .. s.size : cells[s.offset + p] = Settled(s)
  BY DEF SettledIsOnFile
<1>1. PICK e : e = Settled(s)
  OBVIOUS
<1>2. IsSettled(s, e)
  BY <1>1, SettledMeans
<1>3. e \in DOMAIN ops /\ ops[e].slot = s /\ InFile(e) /\ Progress(ops[e]) = s.size
  BY <1>2 DEF IsSettled, Writes, Written, InFile, Last, Progress
<1>4. \A p \in 1 .. s.size : s.offset + p <= Len(cells) /\ cells[s.offset + p] = e
  BY <1>3 DEF InFile
<1>5. s.size \in 1 .. s.size /\ s.size \in Nat \ {0} /\ s.offset \in Nat
  BY BridgeAssumption
<1>6. s.offset + s.size <= Len(cells)
  BY <1>4, <1>5
<1>7. cells # <<>>
  BY <1>5, <1>6, EmptySeq
<1>8. QED
  BY <1>1, <1>4, <1>6, <1>7 DEF Shape

-----------------------------------------------------------------------------
(* What reads return.                                                      *)

SeesSettled(i) ==
    /\ Settled(ops[i].slot) = ops[i].entry
    /\ \A p \in 1 .. Len(ops[i].moved) : ops[i].moved[p] = ops[i].entry

CleanRead(i) == ops[i].kind = "read" /\ ops[i].clean /\ ops[i].entry # 0

SettledIsOnly == \A s \in Slots : \A e : IsSettled(s, e) => Settled(s) = e

LEMMA SettledIs == Shape => SettledIsOnly
  BY SettledMeans DEF SettledIsOnly

\* What is settled stays so until the tensor is written or the file is cut.
LEMMA SettledStays ==
    ASSUME Shape, Shape', Lasting, NEW s \in Slots, NEW e, e = Settled(s), e # 0, cutBy' = cutBy,
           \A j \in DOMAIN ops' : ops'[j].kind = "write" /\ ops'[j].slot = s => j \in DOMAIN ops
    PROVE  Settled(s)' = e
<1>1. IsSettled(s, e)
  BY SettledMeans
<1>2. e \in DOMAIN ops /\ ops'[e] = ops[e]
  BY <1>1 DEF IsSettled, Writes, Lasting, Active
<1>3. Writes(s)' = Writes(s)
  BY DEF Writes, Lasting
<1>4. IsSettled(s, e)'
  BY <1>1, <1>2, <1>3 DEF IsSettled
<1>5. SettledIsOnly'
  BY SettledIs, PTL
<1>6. QED
  BY <1>4, <1>5 DEF SettledIsOnly

\* The next cell that a thread reads is the settled one.
LEMMA ReadsSettled ==
    ASSUME Shape, SettledIsOnFile, NEW i \in DOMAIN ops, Step(i), CleanRead(i),
           SeesSettled(i), ops'[i].phase \in Active
    PROVE  \A p \in 1 .. Len(ops'[i].moved) : ops'[i].moved[p] = ops[i].entry
<1> DEFINE s == ops[i].slot
           m == ops[i].moved
           e == ops[i].entry
<1>1. \A p \in 1 .. Len(m) : m[p] = e
  BY DEF SeesSettled
<1>2. CASE ReadCell(i)
  <2> PICK c : c = cells[Place(ops[i])]
    OBVIOUS
  <2>1. /\ ops'[i].moved = Append(m, c) /\ c \in 0 .. Len(ops) /\ Len(m) < s.size
    BY <1>2, ReadCellMoves DEF Advance
  <2>2. /\ Place(ops[i]) = s.offset + (Len(m) + 1) /\ Len(m) \in Nat
        /\ s.offset \in Nat /\ s.size \in Nat /\ s \in Slots /\ m \in Seq(Int)
    <3>1. /\ Len(m) \in Nat /\ s.offset \in Nat /\ s.size \in Nat /\ s \in Slots
          /\ m \in Seq(Int)
      BY CallsAreCalls
    <3>2. Place(ops[i]) = s.offset + Len(m) + 1
      BY PlacesAreNumbers
    <3>3. \A a, b \in Nat : a + b + 1 = a + (b + 1)
      OBVIOUS
    <3>4. s.offset + Len(m) + 1 = s.offset + (Len(m) + 1)
      BY <3>1, <3>3
    <3>5. QED
      BY <3>1, <3>2, <3>4
  <2>3. Len(m) + 1 \in 1 .. s.size
    BY <2>1, <2>2
  <2>4. Settled(s) = e /\ e # 0
    BY DEF SeesSettled, CleanRead
  <2>5. cells[s.offset + (Len(m) + 1)] = e
    BY <2>2, <2>3, <2>4 DEF SettledIsOnFile
  <2>6. c = e
    BY <2>2, <2>5
  <2> HIDE DEF m, s, e
  <2>7. Len(Append(m, c)) = Len(m) + 1
        /\ \A p \in 1 .. Len(m) + 1 : Append(m, c)[p] = IF p <= Len(m) THEN m[p] ELSE c
    <3>1. c \in Int
      BY <2>1
    <3>2. QED
      BY <2>2, <3>1
  <2>8. \A p \in 1 .. Len(m) + 1 : Append(m, c)[p] = e
    BY <1>1, <2>2, <2>6, <2>7
  <2>9. QED
    BY <2>1, <2>7, <2>8 DEF e
<1>3. CASE Open(i) \/ EndRead(i) \/ EndWrite(i) \/ Fail(i)
  BY <1>1, <1>3, OtherMoves DEF Advance
<1>4. CASE WriteCell(i)
  BY <1>4 DEF WriteCell, CleanRead
<1>5. QED
  BY <1>2, <1>3, <1>4 DEF Step

LEMMA NextReading ==
    Shape /\ Shape' /\ SettledIsOnFile /\ Reading /\ [Next]_vars => Reading'
<1> SUFFICES ASSUME Shape, Shape', SettledIsOnFile, Reading, [Next]_vars,
                    NEW j \in DOMAIN ops', CleanRead(j)', ops'[j].phase \in Active
             PROVE  SeesSettled(j)'
  BY DEF Reading, CleanRead, SeesSettled
<1>1. ASSUME j \in DOMAIN ops, Lasting, ops[j].phase \in Active
      PROVE  /\ SeesSettled(j) /\ CleanRead(j) /\ ops[j].slot \in Slots
             /\ ops'[j].slot = ops[j].slot /\ ops'[j].entry = ops[j].entry
  <2>1. CleanRead(j)
    BY <1>1 DEF CleanRead, Lasting
  <2>2. QED
    BY <1>1, <2>1, CallsAreCalls DEF Reading, CleanRead, SeesSettled, Lasting
<1>2. CASE UNCHANGED vars
  BY <1>2 DEF Reading, CleanRead, SeesSettled, Settled, Writes, vars
<1>3. ASSUME NEW s \in Slots, DmaToGpu(s) \/ ScatterToGpus(s) PROVE SeesSettled(j)'
  <2>1. /\ Lasting /\ cutBy' = cutBy
        /\ \A q \in DOMAIN ops : ops'[q] = ops[q]
        /\ \A q \in DOMAIN ops' : q \notin DOMAIN ops => NewRead(q, s) /\ ops'[q].kind = "read"
    BY <1>3, ReadsBegin DEF NewRead, Begun
  <2>2. CASE j \in DOMAIN ops
    <3> PICK t, e : t = ops[j].slot /\ e = ops[j].entry
      OBVIOUS
    <3>1. SeesSettled(j) /\ CleanRead(j) /\ t \in Slots
      BY <1>1, <2>1, <2>2
    <3>2. e = Settled(t) /\ e # 0
      BY <3>1 DEF SeesSettled, CleanRead
    <3>3. Settled(t)' = e
      BY <2>1, <3>1, <3>2, SettledStays
    <3>4. QED
      BY <2>1, <2>2, <3>1, <3>3 DEF SeesSettled
  <2>3. CASE j \notin DOMAIN ops
    <3> PICK e : e = Settled(s)
      OBVIOUS
    <3>1. ops'[j].moved = <<>> /\ ops'[j].slot = s /\ ops'[j].entry = e /\ e # 0
      BY <2>1, <2>3 DEF NewRead, Begun, Active, CleanRead
    <3>2. Settled(s)' = e
      BY <2>1, <3>1, SettledStays
    <3>3. Len(ops'[j].moved) = 0
      BY <3>1, EmptySeq
    <3>4. QED
      BY <3>1, <3>2, <3>3 DEF SeesSettled
  <2>4. QED
    BY <2>2, <2>3
<1>4. ASSUME NEW s \in Slots, WriteCall(s) PROVE SeesSettled(j)'
  <2> PICK z : z = Len(ops) + 1
    OBVIOUS
  <2>1. /\ Lasting /\ DOMAIN ops' = DOMAIN ops \cup {z}
        /\ ops'[z].kind = "write" /\ ops'[z].slot = s
        /\ \A q \in DOMAIN ops :
            /\ SameCall(q)
            /\ ops[q].phase \in Active /\ (ops[q].slot = s \/ ~ BeginWrite(s)) => ~ ops'[q].clean
        /\ BeginWrite(s) => cutBy' = cutBy
    <3>1. WriteBegun(s, z)
      BY <1>4, WriteBegins
    <3>2. QED
      BY <3>1 DEF WriteBegun, Begun
  <2>2. j \in DOMAIN ops /\ SameCall(j) /\ ops[j].phase \in Active
    BY <2>1 DEF CleanRead, SameCall
  <2>3. BeginWrite(s) /\ ops[j].slot # s
    BY <2>1, <2>2 DEF CleanRead
  <2> PICK t, e : t = ops[j].slot /\ e = ops[j].entry
    OBVIOUS
  <2>4. SeesSettled(j) /\ CleanRead(j) /\ t \in Slots
    BY <1>1, <2>1, <2>2
  <2>5. e = Settled(t) /\ e # 0
    BY <2>4 DEF SeesSettled, CleanRead
  <2>6. Settled(t)' = e
    BY <2>1, <2>3, <2>4, <2>5, SettledStays
  <2>7. QED
    BY <2>2, <2>4, <2>6 DEF SeesSettled, SameCall
<1>5. ASSUME NEW i \in DOMAIN ops, Step(i) PROVE SeesSettled(j)'
  <2>1. /\ Lasting /\ DOMAIN ops' = DOMAIN ops /\ cutBy' = cutBy /\ ops[i].phase \in Active
        /\ \A r \in DOMAIN ops : r # i => ops'[r] = ops[r]
    BY <1>5, ThreadsAdvance
  <2> PICK t, e : t = ops[j].slot /\ e = ops[j].entry
    OBVIOUS
  <2>2. /\ SeesSettled(j) /\ CleanRead(j) /\ t \in Slots
        /\ ops'[j].slot = t /\ ops'[j].entry = e
    BY <1>1, <2>1
  <2>3. e = Settled(t) /\ e # 0
    BY <2>2 DEF SeesSettled, CleanRead
  <2>4. Settled(t)' = e
    BY <2>1, <2>2, <2>3, SettledStays
  <2>5. \A p \in 1 .. Len(ops'[j].moved) : ops'[j].moved[p] = e
    <3>1. CASE j = i
      BY <1>5, <2>2, <3>1, ReadsSettled
    <3>2. CASE j # i
      BY <2>1, <2>2, <3>2 DEF SeesSettled
    <3>3. QED
      BY <3>1, <3>2
  <2>6. QED
    BY <2>2, <2>4, <2>5 DEF SeesSettled
<1>6. QED
  BY <1>2, <1>3, <1>4, <1>5 DEF Next, Call, WriteCall

LEMMA OfOneCell ==
    ASSUME NEW m \in Seq(Int), NEW n, n = Len(m), NEW e, \A p \in 1 .. n : m[p] = e
    PROVE  m = [p \in 1 .. n |-> e]
<1>1. m = [p \in 1 .. Len(m) |-> m[p]]
  OBVIOUS
<1>2. QED
  BY <1>1

LEMMA NextReturned ==
    Shape /\ SettledIsOnFile /\ Reading /\ Returned /\ [Next]_vars => Returned'
<1> SUFFICES ASSUME Shape, SettledIsOnFile, Reading, Returned, [Next]_vars,
                    NEW j \in DOMAIN ops', CleanRead(j)', ops'[j].phase = "done"
             PROVE  Whole(j)'
  BY DEF Returned, Done, CleanRead
<1>1. ASSUME j \in DOMAIN ops, ops'[j] = ops[j] PROVE Whole(j)'
  BY <1>1 DEF Returned, Done, CleanRead, Whole
<1>2. CASE UNCHANGED vars
  BY <1>1, <1>2 DEF vars
<1>3. ASSUME NEW s \in Slots, DmaToGpu(s) \/ ScatterToGpus(s) PROVE Whole(j)'
  <2>1. CASE j \in DOMAIN ops
    BY <1>1, <1>3, <2>1, ReadsBegin
  <2>2. CASE j \notin DOMAIN ops
    <3> PICK e, c : e = Settled(s) /\ c = CuFileCells(s)
      OBVIOUS
    <3>1. ops'[j].moved = c /\ ops'[j].slot = s /\ ops'[j].entry = e /\ e # 0
      BY <1>3, <2>2, ReadsBegin DEF NewRead, Begun, CleanRead
    <3>2. /\ c \in Seq(Int) /\ Len(c) = s.size
          /\ \A p \in 1 .. s.size :
                c[p] = IF s.offset + p <= Len(cells) THEN cells[s.offset + p] ELSE Junk
      BY CuFileReads
    <3>3. s.offset + s.size <= Len(cells) /\ \A p \in 1 .. s.size : cells[s.offset + p] = e
      BY <3>1 DEF SettledIsOnFile
    <3>4. s.offset \in Nat /\ s.size \in Nat /\ Len(cells) \in Nat
      BY BridgeAssumption DEF Shape
    <3>5. \A p \in 1 .. s.size : c[p] = e
      BY <3>2, <3>3, <3>4, SMTT(40)
    <3>6. c = [p \in 1 .. s.size |-> e]
      BY <3>2, <3>5, OfOneCell
    <3>7. QED
      BY <3>1, <3>6 DEF Whole
  <2>3. QED
    BY <2>1, <2>2
<1>4. ASSUME NEW s \in Slots, WriteCall(s) PROVE Whole(j)'
  <2> PICK z : z = Len(ops) + 1
    OBVIOUS
  <2>1. /\ Lasting /\ DOMAIN ops' = DOMAIN ops \cup {z} /\ ops'[z].kind = "write"
        /\ \A q \in DOMAIN ops : SameCall(q)
    <3>1. WriteBegun(s, z)
      BY <1>4, WriteBegins
    <3>2. QED
      BY <3>1 DEF WriteBegun, Begun
  <2>2. j \in DOMAIN ops /\ ops[j].phase = "done"
    BY <2>1 DEF CleanRead, SameCall
  <2>3. ops'[j] = ops[j]
    BY <2>1, <2>2 DEF Lasting, Active
  <2>4. QED
    BY <1>1, <2>2, <2>3
<1>5. ASSUME NEW i \in DOMAIN ops, Step(i) PROVE Whole(j)'
  <2>1. /\ Lasting /\ DOMAIN ops' = DOMAIN ops /\ ops[i].phase \in Active
        /\ \A r \in DOMAIN ops : r # i => ops'[r] = ops[r]
    BY <1>5, ThreadsAdvance
  <2>2. CASE j # i
    BY <1>1, <2>1, <2>2
  <2>3. CASE j = i
    <3> DEFINE m == ops[i].moved
               n == ops[i].slot.size
               e == ops[i].entry
    <3>1. CleanRead(i) /\ ops'[i].slot = ops[i].slot /\ ops'[i].entry = e
      BY <2>1, <2>3 DEF CleanRead, Lasting
    <3>2. \A p \in 1 .. Len(m) : m[p] = e
      BY <2>1, <3>1 DEF Reading, CleanRead
    <3>3. ops'[i].moved = m /\ Len(m) = n
      <4>1. ~ ReadCell(i)
        BY <2>3, ReadCellMoves DEF Advance
      <4>2. ~ WriteCell(i)
        BY <3>1 DEF CleanRead, WriteCell
      <4>3. QED
        BY <1>5, <2>3, <4>1, <4>2, OtherMoves DEF Step, Advance
    <3>4. m \in Seq(Int)
      BY CallsAreCalls
    <3> HIDE DEF m, n, e
    <3>5. m = [p \in 1 .. n |-> e]
      BY <3>2, <3>3, <3>4, OfOneCell
    <3>6. QED
      BY <2>3, <3>1, <3>3, <3>5 DEF Whole, n
  <2>4. QED
    BY <2>2, <2>3
<1>6. QED
  BY <1>2, <1>3, <1>4, <1>5 DEF Next, Call, WriteCall

-----------------------------------------------------------------------------
(* What the statistics count.                                              *)

LEMMA DoneIsFinite ==
    ASSUME Shape, NEW kind
    PROVE  /\ IsFiniteSet(Done(kind)) /\ Cardinality(Done(kind)) \in Nat
           /\ Done(kind) \subseteq DOMAIN ops /\ DOMAIN ops = 1 .. Len(ops) /\ Len(ops) \in Nat
<1>1. DOMAIN ops = 1 .. Len(ops) /\ Len(ops) \in Nat /\ Done(kind) \subseteq DOMAIN ops
  BY DEF Shape, Done
<1>2. IsFiniteSet(1 .. Len(ops))
  BY <1>1, FS_Interval
<1>3. IsFiniteSet(Done(kind))
  BY <1>1, <1>2, FS_Subset
<1>4. QED
  BY <1>1, <1>3, FS_CardinalityType

\* One call more has ended, or none.
LEMMA OneMoreDone ==
    ASSUME Shape, NEW kind, NEW z, z \notin Done(kind)
    PROVE  /\ Cardinality(Done(kind) \cup {z}) = Cardinality(Done(kind)) + 1
           /\ IsFiniteSet(Done(kind) \cup {z})
  BY DoneIsFinite, FS_AddElement

LEMMA StepCounted ==
    ASSUME Shape, Counted, NEW i \in DOMAIN ops, Step(i) PROVE Counted'
<1>1. ASSUME NEW phase, NEW moved, Advance(i, phase, moved), phase # "done"
      PROVE  Done("read")' = Done("read") /\ Done("write")' = Done("write")
  BY <1>1 DEF Advance, Lasting, Done, Active
<1>2. ASSUME NEW moved, Advance(i, "done", moved)
      PROVE  /\ ops[i].kind = "read" => /\ Done("read")' = Done("read") \cup {i}
                                        /\ Done("write")' = Done("write")
             /\ ops[i].kind = "write" => /\ Done("read")' = Done("read")
                                         /\ Done("write")' = Done("write") \cup {i}
             /\ i \notin Done("read") /\ i \notin Done("write")
  BY <1>2 DEF Advance, Lasting, Done, Active
<1>3. CASE ReadCell(i)
  BY <1>1, <1>3, ReadCellMoves DEF Counted
<1>4. CASE WriteCell(i)
  BY <1>1, <1>4, WriteCellMoves DEF Counted
<1>5. CASE Open(i) \/ EndRead(i) \/ EndWrite(i) \/ Fail(i)
  <2>1. CASE stats' = stats /\ (Advance(i, "moving", ops[i].moved) \/ Advance(i, "raised", ops[i].moved))
    BY <1>1, <2>1 DEF Counted
  <2>2. CASE /\ ops[i].kind = "read" /\ Advance(i, "done", ops[i].moved)
             /\ CountReads(1, ops[i].slot)
    <3>1. stats'.reads = stats.reads + 1 /\ stats'.writes = stats.writes
      BY <2>2, CountTyped, CallsAreCalls DEF Shape
    <3>2. QED
      BY <1>2, <2>2, <3>1, OneMoreDone DEF Counted
  <2>3. CASE /\ ops[i].kind = "write" /\ Advance(i, "done", ops[i].moved)
             /\ CountWrites(1, ops[i].slot)
    <3>1. stats'.reads = stats.reads /\ stats'.writes = stats.writes + 1
      BY <2>3, CountTyped, CallsAreCalls DEF Shape
    <3>2. QED
      BY <1>2, <2>3, <3>1, OneMoreDone DEF Counted
  <2>4. QED
    BY <1>5, <2>1, <2>2, <2>3, OtherMoves
<1>6. QED
  BY <1>3, <1>4, <1>5 DEF Step

LEMMA WritesCounted ==
    ASSUME Shape, Counted, NEW s \in Slots, WriteCall(s) PROVE Counted'
<1> PICK z : z = Len(ops) + 1
  OBVIOUS
<1>1. /\ DOMAIN ops' = DOMAIN ops \cup {z} /\ z \notin DOMAIN ops
      /\ ops'[z].kind = "write" /\ ops'[z].phase = (IF CuFileWrite(s) THEN "done" ELSE "queued")
      /\ \A j \in DOMAIN ops : SameCall(j)
  BY WriteBegins DEF WriteBegun, Begun
<1>2. Done("read")' = Done("read") /\ z \notin Done("write")
  BY <1>1 DEF Done, SameCall
<1>3. CASE CuFileWrite(s)
  <2>1. Done("write")' = Done("write") \cup {z}
    BY <1>1, <1>3 DEF Done, SameCall
  <2>2. stats'.reads = stats.reads /\ stats'.writes = stats.writes + 1
    BY <1>3, CountTyped DEF CuFileWrite, Shape
  <2>3. QED
    BY <1>2, <2>1, <2>2, OneMoreDone DEF Counted
<1>4. CASE ~ CuFileWrite(s)
  <2>1. Done("write")' = Done("write")
    BY <1>1, <1>4 DEF Done, SameCall
  <2>2. stats' = stats
    BY <1>4 DEF WriteCall, BeginWrite, CuFileWriteFails
  <2>3. QED
    BY <1>2, <2>1, <2>2 DEF Counted
<1>5. QED
  BY <1>3, <1>4


LEMMA ReadsCounted ==
    ASSUME Shape, Counted, NEW s \in Slots, DmaToGpu(s) \/ ScatterToGpus(s) PROVE Counted'
<1> PICK z : z = Len(ops) + 1
  OBVIOUS
<1>1. /\ ops \in Seq(BridgeCall) /\ Len(ops) \in Nat /\ DOMAIN ops = 1 .. Len(ops)
      /\ z \notin DOMAIN ops /\ z + 1 \notin DOMAIN ops /\ z + 1 # z /\ stats \in Stats
  BY DEF Shape
<1>2. CASE DmaToGpu(s)
  <2>1. PICK r \in ReadStarts(s) : /\ ops' = Append(ops, r)
                                   /\ CountReads(IF r.phase = "done" THEN 1 ELSE 0, s)
    BY <1>2 DEF DmaToGpu
  <2>2. r \in BridgeCall /\ r.kind = "read"
    BY ReadStartsTyped
  <2>3. /\ DOMAIN ops' = DOMAIN ops \cup {z} /\ ops'[z] = r
        /\ \A j \in DOMAIN ops : ops'[j] = ops[j]
    BY <1>1, <2>1, <2>2
  <2>4. Done("write")' = Done("write") /\ z \notin Done("read")
    BY <1>1, <2>2, <2>3 DEF Done
  <2>5. CASE r.phase = "done"
    <3>1. stats'.reads = stats.reads + 1 /\ stats'.writes = stats.writes
      BY <1>1, <2>1, <2>5, CountTyped
    <3>2. Done("read")' = Done("read") \cup {z}
      BY <2>2, <2>3, <2>5 DEF Done
    <3>3. QED
      BY <2>4, <3>1, <3>2, OneMoreDone DEF Counted
  <2>6. CASE r.phase # "done"
    <3>1. stats'.reads = stats.reads + 0 /\ stats'.writes = stats.writes
      BY <1>1, <2>1, <2>6, CountTyped
    <3>2. Done("read")' = Done("read")
      BY <1>1, <2>2, <2>3, <2>6 DEF Done
    <3>3. QED
      BY <1>1, <2>4, <3>1, <3>2 DEF Counted, Stats
  <2>7. QED
    BY <2>5, <2>6
<1>3. CASE ScatterToGpus(s)
  <2>1. PICK r1 \in ReadStarts(s), r2 \in ReadStarts(s) :
            /\ ops' = ops \o <<r1, r2>>
            /\ CountReads(IF r1.phase = "done" /\ r2.phase = "done" THEN 2
                          ELSE IF r1.phase = "done" \/ r2.phase = "done" THEN 1 ELSE 0, s)
    BY <1>3 DEF ScatterToGpus
  <2>2. /\ r1 \in BridgeCall /\ r1.kind = "read"
        /\ r2 \in BridgeCall /\ r2.kind = "read"
    BY ReadStartsTyped
  <2>3. /\ DOMAIN ops' = DOMAIN ops \cup {z, z + 1} /\ ops'[z] = r1 /\ ops'[z + 1] = r2
        /\ \A j \in DOMAIN ops : ops'[j] = ops[j]
    BY <1>1, <2>1, <2>2
  <2>4. Done("write")' = Done("write") /\ z \notin Done("read") /\ z + 1 \notin Done("read")
    BY <1>1, <2>2, <2>3 DEF Done
  <2>5. CASE r1.phase = "done" /\ r2.phase = "done"
    <3>1. stats'.reads = stats.reads + 2 /\ stats'.writes = stats.writes
      BY <1>1, <2>1, <2>5, CountTyped
    <3>2. Done("read")' = (Done("read") \cup {z}) \cup {z + 1}
      BY <2>2, <2>3, <2>5 DEF Done
    <3>3. Cardinality(Done("read")') = Cardinality(Done("read")) + 1 + 1
      <4>1. z + 1 \notin Done("read") \cup {z}
        BY <1>1, <2>4
      <4>2. /\ Cardinality(Done("read") \cup {z}) = Cardinality(Done("read")) + 1
            /\ IsFiniteSet(Done("read") \cup {z})
        BY <2>4, OneMoreDone
      <4>3. QED
        BY <3>2, <4>1, <4>2, FS_AddElement
    <3>4. Cardinality(Done("read")) \in Nat
      BY DoneIsFinite
    <3>5. QED
      BY <2>4, <3>1, <3>3, <3>4 DEF Counted
  <2>6. CASE r1.phase = "done" /\ r2.phase # "done"
    <3>1. stats'.reads = stats.reads + 1 /\ stats'.writes = stats.writes
      BY <1>1, <2>1, <2>6, CountTyped
    <3>2. Done("read")' = Done("read") \cup {z}
      BY <1>1, <2>2, <2>3, <2>6 DEF Done
    <3>3. QED
      BY <2>4, <3>1, <3>2, OneMoreDone DEF Counted
  <2>7. CASE r1.phase # "done" /\ r2.phase = "done"
    <3>1. stats'.reads = stats.reads + 1 /\ stats'.writes = stats.writes
      BY <1>1, <2>1, <2>7, CountTyped
    <3>2. Done("read")' = Done("read") \cup {z + 1}
      BY <1>1, <2>2, <2>3, <2>7 DEF Done
    <3>3. QED
      BY <2>4, <3>1, <3>2, OneMoreDone DEF Counted
  <2>8. CASE r1.phase # "done" /\ r2.phase # "done"
    <3>1. stats'.reads = stats.reads + 0 /\ stats'.writes = stats.writes
      BY <1>1, <2>1, <2>8, CountTyped
    <3>2. Done("read")' = Done("read")
      BY <1>1, <2>2, <2>3, <2>8 DEF Done
    <3>3. QED
      BY <1>1, <2>4, <3>1, <3>2 DEF Counted, Stats
  <2>9. QED
    BY <2>5, <2>6, <2>7, <2>8
<1>4. QED
  BY <1>2, <1>3

LEMMA NextCounted == Shape /\ Counted /\ [Next]_vars => Counted'
<1> SUFFICES ASSUME Shape, Counted, [Next]_vars PROVE Counted'
  OBVIOUS
<1>1. CASE UNCHANGED vars
  BY <1>1 DEF Counted, Done, vars
<1>2. CASE Next
  BY <1>2, ReadsCounted, WritesCounted, StepCounted DEF Next, Call, WriteCall
<1>3. QED
  BY <1>1, <1>2

-----------------------------------------------------------------------------
(* The invariant holds, and so do the properties.                          *)

LEMMA BridgeInit == Init => BridgeInv
<1> SUFFICES ASSUME Init PROVE BridgeInv
  OBVIOUS
<1>1. Shape
  BY InitShape
<1>2. DOMAIN ops = {}
  BY EmptySeq DEF Init
<1>3. Done("read") = {} /\ Done("write") = {}
  BY <1>2 DEF Done
<1>4. Counted
  BY <1>3, FS_EmptySet DEF Counted, Init
<1>5. Alone /\ Written /\ Reading /\ Returned
  BY <1>2, <1>3 DEF Alone, Written, Reading, Returned
<1>6. QED
  BY <1>1, <1>4, <1>5 DEF BridgeInv

LEMMA BridgeNext == BridgeInv /\ [Next]_vars => BridgeInv'
  BY NextShape, NextCounted, NextAlone, NextWritten, NextReading, NextReturned,
     WrittenIsOnFile DEF BridgeInv

\* The invariant holds in every reachable state: who writes a tensor alone
\* has it in the file, and who reads one undisturbed has what is settled.
THEOREM BridgeInvariant == Spec => []BridgeInv
  BY BridgeInit, BridgeNext, PTL DEF Spec

\* The file holds what writes have written, and the statistics count every
\* call that ended well exactly once, on whichever path it went.
THEOREM BridgeTypeCorrect == Spec => []TypeOK
<1>1. BridgeInv => TypeOK
  <2> SUFFICES ASSUME BridgeInv PROVE TypeOK
    OBVIOUS
  <2>1. /\ cells \in Seq(0 .. Len(ops)) /\ (cells # <<>> => exists)
        /\ cutBy \in 0 .. Len(ops) /\ DOMAIN ops = 1 .. Len(ops) /\ Len(ops) \in Nat
    BY DEF BridgeInv, Shape
  <2>2. /\ 0 .. Len(ops) \subseteq {Blank} \cup DOMAIN ops
        /\ -1 .. Len(ops) \subseteq {Blank, Junk} \cup DOMAIN ops
    BY <2>1 DEF Blank, Junk
  <2>3. cells \in Seq({Blank} \cup DOMAIN ops)
    BY <2>1, <2>2, SeqMonotonic
  <2>4. ASSUME NEW i \in DOMAIN ops
        PROVE  ops[i].phase \in Phases /\ ops[i].moved \in Seq({Blank, Junk} \cup DOMAIN ops)
    <3>1. ops[i].moved \in Seq(Int) /\ ops[i].phase \in Phases
      BY CallsAreCalls DEF BridgeInv
    <3>2. \A p \in 1 .. Len(ops[i].moved) : ops[i].moved[p] \in -1 .. Len(ops)
      BY DEF BridgeInv, Shape, Tidy
    <3> DEFINE T == {Blank, Junk} \cup DOMAIN ops
               m == ops[i].moved
    <3>3. \A p \in 1 .. Len(m) : m[p] \in T
      BY <2>2, <3>2
    <3> HIDE DEF T
    <3>4. m \in Seq(T)
      BY <3>1, <3>3
    <3>5. QED
      BY <3>1, <3>4 DEF T
  <2>5. QED
    BY <2>1, <2>3, <2>4 DEF TypeOK, BridgeInv, Counted, Phases
<1>2. QED
  BY <1>1, BridgeInvariant, PTL

\* What one write has put into the file, undisturbed, stays there, whatever
\* is written next to it, torn or failed there.
THEOREM SettledStaysOnFile == Spec => []SettledIsOnFile
<1>1. BridgeInv => SettledIsOnFile
  BY WrittenIsOnFile DEF BridgeInv
<1>2. QED
  BY <1>1, BridgeInvariant, PTL

\* Reads that nothing has disturbed return the tensor that was written, and
\* host reads whole tensors in any case.
THEOREM BridgeReadsReturnWhole == Spec => []ReadsAreWhole
<1>1. BridgeInv => ReadsAreWhole
  <2> SUFFICES ASSUME BridgeInv, NEW i \in Done("read")
               PROVE  /\ ops[i].clean /\ ops[i].entry # 0 => Whole(i)
                      /\ ~ ops[i].direct => /\ Len(ops[i].moved) = ops[i].slot.size
                                            /\ Junk \notin Range(ops[i].moved)
    BY DEF ReadsAreWhole, Whole
  <2>1. i \in DOMAIN ops /\ ops[i].kind = "read" /\ ops[i].phase = "done"
    BY DEF Done
  <2>2. Tidy(i) /\ ops[i].moved \in Seq(Int)
    BY <2>1, CallsAreCalls DEF BridgeInv, Shape
  <2>3. Len(ops[i].moved) = ops[i].slot.size
    BY <2>1, <2>2 DEF Tidy
  <2>4. ASSUME ~ ops[i].direct PROVE Junk \notin Range(ops[i].moved)
    <3>1. \A p \in DOMAIN ops[i].moved : ops[i].moved[p] # Junk
      BY <2>2, <2>4 DEF Tidy
    <3>2. QED
      BY <3>1 DEF Range
  <2>5. QED
    BY <2>3, <2>4 DEF BridgeInv, Returned
<1>2. QED
  BY <1>1, BridgeInvariant, PTL


=============================================================================
