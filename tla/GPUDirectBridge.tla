--------------------------- MODULE GPUDirectBridge ---------------------------
(***************************************************************************)
(* GPUDirectBridge on one file that holds several tensors, each at its     *)
(* offset: dma_to_gpu, dma_from_gpu and scatter_to_gpus, on the paths A    *)
(* (cuFile), B (pinned memory) and C (pageable memory).                    *)
(*                                                                         *)
(* Paths B and C do their input and output in threads of the executor, one *)
(* system call after the other and without a lock.  Path A calls cuFile in *)
(* the event loop, and goes on with the host path when that raises.        *)
(* Tensors are cells, each of which the kernel reads or writes whole.      *)
(***************************************************************************)
EXTENDS Integers, Sequences, FiniteSets, Functions

CONSTANTS
    Slots,     \* tensors in the file: records of an offset and a size
    Preloaded, \* what the file may hold at first, as a number of cells
    MaxOps     \* bound of the model: reads and writes

Overlap(s, t) == s.offset < t.offset + t.size /\ t.offset < s.offset + s.size

ASSUME BridgeAssumption ==
    /\ \A s \in Slots : s.offset \in Nat /\ s.size \in Nat \ {0}
    /\ \A s, t \in Slots : s # t => ~ Overlap(s, t)
    /\ Preloaded \subseteq Nat
    /\ MaxOps \in Nat

VARIABLES
    path,    \* the path that __init__ detects: "A", "B" or "C"
    exists,  \* the file exists
    cells,   \* its cells: the write that each comes from, or Blank
    ops,     \* the reads and writes, in the order of the calls
    stats,   \* _stats, without the times
    cutBy    \* history: the last write that opened the file with cuFile, or 0

vars == <<path, exists, cells, ops, stats, cutBy>>

-----------------------------------------------------------------------------
(* Calls and files.                                                        *)

\* Cells that no write of the model has written; and memory of a GPU that a
\* short cuFile read has left as it was.
Blank == 0
Junk  == -1

Active == {"queued", "moving"}

Running(j, s) == ops[j].slot = s /\ ops[j].phase \in Active
Writes(s)     == {j \in DOMAIN ops : ops[j].kind = "write" /\ ops[j].slot = s}
Undisturbed(s) == \A j \in Writes(s) : ~ Running(j, s)

\* The last write of s to begin has ended well, nothing overlapped it, and
\* cuFile has not cut the file since: 0 if there is no such write.
Settled(s) ==
    IF \E i \in Writes(s) : ops[i].phase = "done" /\ ops[i].clean /\ i >= cutBy
                            /\ \A j \in Writes(s) : j <= i
    THEN CHOOSE i \in Writes(s) : \A j \in Writes(s) : j <= i
    ELSE 0

\* Fields of a call: moved, the cells read or written so far; direct, cuFile
\* did it; clean, no write of its tensor has overlapped it and no cuFile
\* write has cut the file; entry, the write that a read should see.
NewOp(kind, s, phase, moved) ==
    [kind |-> kind, slot |-> s, phase |-> phase, moved |-> moved, direct |-> phase = "done",
     clean |-> Undisturbed(s), entry |-> Settled(s)]

\* The calls once those of J that run have been disturbed.
Disturbed(J) ==
    [j \in DOMAIN ops |->
        IF j \in J /\ ops[j].phase \in Active THEN [ops[j] EXCEPT !.clean = FALSE] ELSE ops[j]]

\* The cells once c is written at p, beyond the end too.
Put(p, c) ==
    [q \in 1 .. (IF p <= Len(cells) THEN Len(cells) ELSE p) |->
        IF q = p THEN c ELSE IF q <= Len(cells) THEN cells[q] ELSE Blank]

\* The bookkeeping of n calls that ended well.
CountReads(n, s)  == stats' = [stats EXCEPT !.reads = @ + n, !.bytesRead = @ + n * s.size]
CountWrites(n, s) == stats' = [stats EXCEPT !.writes = @ + n, !.bytesWritten = @ + n * s.size]

-----------------------------------------------------------------------------
(* Reads.                                                                  *)

\* cuFile fills what there is in the file, and its count is not looked at.
CuFileCells(s) ==
    [p \in 1 .. s.size |-> IF s.offset + p <= Len(cells) THEN cells[s.offset + p] ELSE Junk]

\* A read, up to its await if there is one.
ReadStarts(s) ==
    {NewOp("read", s, "queued", <<>>)} \cup
    (IF path = "A" /\ exists THEN {NewOp("read", s, "done", CuFileCells(s))} ELSE {})

DmaToGpu(s) ==
    /\ Len(ops) < MaxOps
    /\ \E r \in ReadStarts(s) :
        /\ ops' = Append(ops, r)
        /\ CountReads(IF r.phase = "done" THEN 1 ELSE 0, s)
    /\ UNCHANGED <<path, exists, cells, cutBy>>

\* Two devices.  Every read is one from the beginning of the file.
ScatterToGpus(s) ==
    /\ Len(ops) + 1 < MaxOps
    /\ s.offset = 0
    /\ \E r1, r2 \in ReadStarts(s) :
        /\ ops' = ops \o <<r1, r2>>
        /\ CountReads(IF r1.phase = "done" /\ r2.phase = "done" THEN 2
                      ELSE IF r1.phase = "done" \/ r2.phase = "done" THEN 1 ELSE 0, s)
    /\ UNCHANGED <<path, exists, cells, cutBy>>

\* open(path, "rb"), or "r+b" for a write: neither creates a file.
Open(i) ==
    /\ ops[i].phase = "queued"
    /\ ops' = [ops EXCEPT ![i].phase = IF exists THEN "moving" ELSE "raised"]
    /\ UNCHANGED <<path, exists, cells, stats, cutBy>>

\* Mutant: the host path forgets the offset.
PlaceFromStart(o) == Len(o.moved) + 1

\* The place in the file of the next cell of a call.
Place(o) == o.slot.offset + Len(o.moved) + 1

\* The next cell that read(nbytes) returns, if any.
HasMore(o) == Len(o.moved) < o.slot.size /\ Place(o) <= Len(cells)

ReadCell(i) ==
    /\ ops[i].kind = "read" /\ ops[i].phase = "moving" /\ HasMore(ops[i])
    /\ ops' = [ops EXCEPT ![i].moved = Append(@, cells[Place(ops[i])])]
    /\ UNCHANGED <<path, exists, cells, stats, cutBy>>

\* Mutant: a tensor of any length is returned.
EndReadShort(i) ==
    /\ ops[i].kind = "read" /\ ops[i].phase = "moving" /\ ~ HasMore(ops[i])
    /\ ops' = [ops EXCEPT ![i].phase = "done"]
    /\ CountReads(1, ops[i].slot)
    /\ UNCHANGED <<path, exists, cells, cutBy>>

\* reshape refuses another number of elements than the descriptor has.
EndRead(i) ==
    /\ ops[i].kind = "read" /\ ops[i].phase = "moving" /\ ~ HasMore(ops[i])
    /\ IF Len(ops[i].moved) = ops[i].slot.size
       THEN ops' = [ops EXCEPT ![i].phase = "done"] /\ CountReads(1, ops[i].slot)
       ELSE ops' = [ops EXCEPT ![i].phase = "raised"] /\ UNCHANGED stats
    /\ UNCHANGED <<path, exists, cells, cutBy>>

-----------------------------------------------------------------------------
(* Writes.                                                                 *)

\* The host path: at once, or because cuFile has raised before it opened
\* the file.
BeginWrite(s) ==
    /\ Len(ops) < MaxOps
    /\ ops' = Append(Disturbed({j \in DOMAIN ops : ops[j].slot = s}),
                     NewOp("write", s, "queued", <<>>))
    /\ UNCHANGED <<path, exists, cells, stats, cutBy>>

\* CuFile(path, "w") makes the file, or cuts it to nothing, under every call
\* that is under way.
CuFileOpen ==
    /\ Len(ops) < MaxOps
    /\ path = "A"
    /\ exists' = TRUE
    /\ cutBy' = Len(ops) + 1
    /\ UNCHANGED path

CuFileWrite(s) ==
    /\ CuFileOpen
    /\ ops' = Append(Disturbed(DOMAIN ops), NewOp("write", s, "done", <<>>))
    /\ cells' = [p \in 1 .. s.offset + s.size |-> IF p <= s.offset THEN Blank ELSE cutBy']
    /\ CountWrites(1, s)

\* cuFile raises after that, and the host path does it.
CuFileWriteFails(s) ==
    /\ CuFileOpen
    /\ ops' = Append(Disturbed(DOMAIN ops), NewOp("write", s, "queued", <<>>))
    /\ cells' = <<>>
    /\ UNCHANGED stats

WriteCell(i) ==
    /\ ops[i].kind = "write" /\ ops[i].phase = "moving"
    /\ Len(ops[i].moved) < ops[i].slot.size
    /\ cells' = Put(Place(ops[i]), i)
    /\ ops' = [ops EXCEPT ![i].moved = Append(@, i)]
    /\ UNCHANGED <<path, exists, stats, cutBy>>

EndWrite(i) ==
    /\ ops[i].kind = "write" /\ ops[i].phase = "moving"
    /\ Len(ops[i].moved) = ops[i].slot.size
    /\ ops' = [ops EXCEPT ![i].phase = "done"]
    /\ CountWrites(1, ops[i].slot)
    /\ UNCHANGED <<path, exists, cells, cutBy>>

\* Mutant: a call that fails is in the statistics too.
FailCounted(i) ==
    /\ ops[i].phase \in Active
    /\ ops' = [ops EXCEPT ![i].phase = "raised"]
    /\ IF ops[i].kind = "read" THEN CountReads(1, ops[i].slot) ELSE CountWrites(1, ops[i].slot)
    /\ UNCHANGED <<path, exists, cells, cutBy>>

\* An error of the file system, or of the memory of the GPU, leaves the
\* bridge as an exception; what has been written stays.
Fail(i) ==
    /\ ops[i].phase \in Active
    /\ ops' = [ops EXCEPT ![i].phase = "raised"]
    /\ UNCHANGED <<path, exists, cells, stats, cutBy>>

-----------------------------------------------------------------------------
Init ==
    /\ path \in {"A", "B", "C"}
    /\ exists \in BOOLEAN
    /\ \E n \in Preloaded : cells = [p \in 1 .. (IF exists THEN n ELSE 0) |-> Blank]
    /\ ops = <<>>
    /\ stats = [reads |-> 0, writes |-> 0, bytesRead |-> 0, bytesWritten |-> 0]
    /\ cutBy = 0

Call(s) ==
    \/ DmaToGpu(s)
    \/ ScatterToGpus(s)
    \/ BeginWrite(s)
    \/ CuFileWrite(s)
    \/ CuFileWriteFails(s)

Step(i) ==
    \/ Open(i)
    \/ ReadCell(i)
    \/ EndRead(i)
    \/ WriteCell(i)
    \/ EndWrite(i)
    \/ Fail(i)

Next ==
    \/ \E s \in Slots : Call(s)
    \/ \E i \in DOMAIN ops : Step(i)

Spec == Init /\ [][Next]_vars

-----------------------------------------------------------------------------
(* Properties.                                                             *)

Done(kind) == {i \in DOMAIN ops : ops[i].kind = kind /\ ops[i].phase = "done"}

\* Types: the file holds what writes have written, and the statistics count
\* the calls that ended well, on whichever path, once each.
TypeOK ==
    /\ cells \in Seq({Blank} \cup DOMAIN ops)
    /\ cells # <<>> => exists
    /\ \A i \in DOMAIN ops :
        /\ ops[i].phase \in Active \cup {"done", "raised"}
        /\ ops[i].moved \in Seq({Blank, Junk} \cup DOMAIN ops)
    /\ stats.reads = Cardinality(Done("read"))
    /\ stats.writes = Cardinality(Done("write"))
    /\ cutBy \in 0 .. Len(ops)

\* A tensor whose write nothing overlapped stays in the file as it was
\* written, whatever is written next to it, torn or failed there, until it
\* is itself written again or a cuFile write cuts the file.
SettledIsOnFile ==
    \A s \in Slots : Settled(s) # 0 =>
        /\ exists /\ s.offset + s.size <= Len(cells)
        /\ \A p \in 1 .. s.size : cells[s.offset + p] = Settled(s)

\* A read that nothing has disturbed returns the tensor that was written,
\* on every path and every device of a scatter; and no read through the
\* host returns less than a tensor, although the file may end in it.
ReadsAreWhole ==
    \A i \in Done("read") :
        /\ ops[i].clean /\ ops[i].entry # 0
                => ops[i].moved = [p \in 1 .. ops[i].slot.size |-> ops[i].entry]
        /\ ~ ops[i].direct
                => Len(ops[i].moved) = ops[i].slot.size /\ Junk \notin Range(ops[i].moved)

=============================================================================
