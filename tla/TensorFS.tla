------------------------------ MODULE TensorFS ------------------------------
(***************************************************************************)
(* TensorFilesystem: an index in memory from cache keys to files, and one  *)
(* file per key.  write_tensor and read_tensor do their file input and     *)
(* output in threads of the executor, one system call after the other and  *)
(* without any lock, so that the calls on one key interleave there; delete *)
(* runs in the event loop in one step.                                     *)
(*                                                                         *)
(* A path is as good as its cache key: both are made of the model, role,   *)
(* layer and checksum of the descriptor, and of neither its dtype nor its  *)
(* tensor_id.  The bytes of a tensor are Size[dtype] cells, each of which  *)
(* the kernel writes or reads whole.                                       *)
(***************************************************************************)
EXTENDS Integers, Sequences

CONSTANTS
    Keys,        \* cache keys
    Dtypes,      \* dtypes of descriptors
    Size,        \* Size[d]: cells of a tensor of dtype d
    Readable,    \* the dtypes that numpy knows: not bfloat16 and int4
    MayFail,     \* calls may run into an error of the file system or the device
    MayDelete,   \* tensors may be deleted
    MaxOps,      \* bound of the model: calls of write_tensor and read_tensor
    MaxRestarts  \* bound of the model: restarts of the process

ASSUME FSAssumption ==
    /\ Dtypes # {}
    /\ Size \in [Dtypes -> Nat \ {0}]
    /\ Readable \subseteq Dtypes
    /\ MayFail \in BOOLEAN
    /\ MayDelete \in BOOLEAN
    /\ MaxOps \in Nat
    /\ MaxRestarts \in Nat

VARIABLES
    index,    \* index[k]: the write whose TFSFile _index holds, or None
    file,     \* file[k]: the inode that the path of k names, or None
    content,  \* content[f]: header and cells of inode f
    ops,      \* the calls of write_tensor, and of read_tensor that found a file
    restarts, \* restarts of the process
    strays    \* keys whose file a delete has left, and no write has ended since

vars == <<index, file, content, ops, restarts, strays>>

-----------------------------------------------------------------------------
(* Calls and files.                                                        *)

None == 0

\* An inode has the name of the write that created it, and a cell that of
\* the write it comes from.  The cells of a hole read as zeros.
Inodes == 1 .. MaxOps
Hole   == 0

\* The header is the size that it states, or NoHeader when the file does not
\* begin with the magic number.
NoHeader == 0
Empty    == [header |-> NoHeader, cells |-> <<>>]

\* The file that write i leaves behind when nothing interferes.
Whole(i) ==
    LET n == Size[ops[i].dtype]
    IN  [header |-> n, cells |-> [p \in 1 .. n |-> i]]

\* "queued": in the executor; "open", "moving": the thread has opened the
\* file, and passed the header.  The other phases are outcomes: "done" with a
\* tensor; "void" and "raised" when read_tensor finds no tensor of a TFS file,
\* and returns (None, descriptor), or one that it cannot make an array of;
\* "failed" by an error of the file system or the device, which a write
\* raises, and a read raises or turns into (None, descriptor); and "lost" with
\* the process.
Active   == {"queued", "open", "moving"}
Outcomes == {"done", "void", "raised", "failed", "lost"}

\* A call has the fields
\*   entry: the write of the descriptor in use, for a write itself;
\*   inode, size, moved: the open file, the size of the header written or
\*          read, and the cells written or read so far;
\*   clean: no write of the key has overlapped the call;
\*   cut:   its key was deleted during the call.
NewOp(kind, k, d, entry, clean) ==
    [kind |-> kind, key |-> k, dtype |-> d, entry |-> entry, phase |-> "queued",
     inode |-> None, size |-> 0, moved |-> <<>>, clean |-> clean, cut |-> FALSE]

Running(i, k) == ops[i].key = k /\ ops[i].phase \in Active
Writes(k)     == {i \in DOMAIN ops : ops[i].kind = "write" /\ ops[i].key = k}

\* The last write of k to begin has ended well, and nothing overlapped it.
Settled(k) ==
    /\ index[k] # None
    /\ ops[index[k]].clean /\ ~ ops[index[k]].cut
    /\ \A j \in Writes(k) : j <= index[k]

Move(i, phase) == ops' = [ops EXCEPT ![i].phase = phase]

-----------------------------------------------------------------------------
(* write_tensor.                                                           *)

\* The calls once a write of k begins: those under way are not clean.
Disturbed(k) ==
    [j \in DOMAIN ops |-> IF Running(j, k) THEN [ops[j] EXCEPT !.clean = FALSE] ELSE ops[j]]

\* Mutant: the tensor is in the index before it is on disk.
BeginWriteListed(k, d) ==
    LET i == Len(ops) + 1
    IN  /\ i <= MaxOps
        /\ ops' = Append(Disturbed(k),
                NewOp("write", k, d, i, \A j \in Writes(k) : ~ Running(j, k)))
        /\ index' = [index EXCEPT ![k] = i]
        /\ UNCHANGED <<file, content, restarts, strays>>

BeginWrite(k, d) ==
    LET i == Len(ops) + 1
    IN  /\ i <= MaxOps
        /\ ops' = Append(Disturbed(k),
                NewOp("write", k, d, i, \A j \in Writes(k) : ~ Running(j, k)))
        /\ UNCHANGED <<index, file, content, restarts, strays>>

\* open(path, "wb"): a new file, or the one that is there, cut to nothing.
OpenWrite(i) ==
    LET f == IF file[ops[i].key] = None THEN i ELSE file[ops[i].key]
    IN  /\ ops[i].kind = "write" /\ ops[i].phase = "queued"
        /\ file' = [file EXCEPT ![ops[i].key] = f]
        /\ content' = [content EXCEPT ![f] = Empty]
        /\ ops' = [ops EXCEPT ![i].phase = "open", ![i].inode = f]
        /\ UNCHANGED <<index, restarts, strays>>

WriteHeader(i) ==
    LET n == Size[ops[i].dtype]
    IN  /\ ops[i].kind = "write" /\ ops[i].phase = "open"
        /\ content' = [content EXCEPT ![ops[i].inode].header = n]
        /\ ops' = [ops EXCEPT ![i].phase = "moving", ![i].size = n]
        /\ UNCHANGED <<index, file, restarts, strays>>

\* Mutant: the data begins one cell late.
PutLate(cells, p, c) ==
    [q \in 1 .. (IF p < Len(cells) THEN Len(cells) ELSE p + 1) |->
        IF q = p + 1 THEN c ELSE IF q <= Len(cells) THEN cells[q] ELSE Hole]

\* The cells with c at place p, with a hole when the file was cut before p.
Put(cells, p, c) ==
    [q \in 1 .. (IF p < Len(cells) THEN Len(cells) ELSE p) |->
        IF q = p THEN c ELSE IF q <= Len(cells) THEN cells[q] ELSE Hole]

WriteCell(i) ==
    LET o == ops[i]
    IN  /\ o.kind = "write" /\ o.phase = "moving" /\ Len(o.moved) < o.size
        /\ content' = [content EXCEPT ![o.inode].cells = Put(@, Len(o.moved) + 1, i)]
        /\ ops' = [ops EXCEPT ![i].moved = Append(@, i)]
        /\ UNCHANGED <<index, file, restarts, strays>>

\* The thread is done, and the coroutine puts the tensor into the index.
EndWrite(i) ==
    LET o == ops[i]
    IN  /\ o.kind = "write" /\ o.phase = "moving" /\ Len(o.moved) = o.size
        /\ Move(i, "done")
        /\ index' = [index EXCEPT ![o.key] = i]
        /\ strays' = strays \ {o.key}
        /\ UNCHANGED <<file, content, restarts>>

\* An error of the file system leaves write_tensor as an exception; what has
\* been written stays.
FailWrite(i) ==
    /\ MayFail
    /\ ops[i].kind = "write" /\ ops[i].phase \in Active
    /\ Move(i, "failed")
    /\ UNCHANGED <<index, file, content, restarts, strays>>

-----------------------------------------------------------------------------
(* read_tensor.                                                            *)

\* Without an entry in the index it returns None at once, and with an entry
\* whose file is gone it also drops the entry.
ReadMissing(k) ==
    /\ index[k] # None /\ file[k] = None
    /\ index' = [index EXCEPT ![k] = None]
    /\ UNCHANGED <<file, content, ops, restarts, strays>>

BeginRead(k) ==
    /\ Len(ops) < MaxOps
    /\ index[k] # None /\ file[k] # None
    /\ ops' = Append(ops, NewOp("read", k, ops[index[k]].dtype, index[k], Settled(k)))
    /\ UNCHANGED <<index, file, content, restarts, strays>>

\* open(path, "rb"), which finds nothing when the file has been deleted since.
OpenRead(i) ==
    LET f == file[ops[i].key]
    IN  /\ ops[i].kind = "read" /\ ops[i].phase = "queued"
        /\ ops' = [ops EXCEPT ![i].phase = IF f = None THEN "void" ELSE "open", ![i].inode = f]
        /\ UNCHANGED <<index, file, content, restarts, strays>>

ReadHeader(i) ==
    LET n == content[ops[i].inode].header
    IN  /\ ops[i].kind = "read" /\ ops[i].phase = "open"
        /\ ops' = [ops EXCEPT ![i].phase = IF n = NoHeader THEN "void" ELSE "moving", ![i].size = n]
        /\ UNCHANGED <<index, file, content, restarts, strays>>

\* The next cell that read(nbytes) returns, if any.
HasMore(o) == Len(o.moved) < o.size /\ Len(o.moved) < Len(content[o.inode].cells)

ReadCell(i) ==
    LET o == ops[i]
    IN  /\ o.kind = "read" /\ o.phase = "moving" /\ HasMore(o)
        /\ ops' = [ops EXCEPT ![i].moved = Append(@, content[o.inode].cells[Len(@) + 1])]
        /\ UNCHANGED <<index, file, content, restarts, strays>>

\* frombuffer refuses a dtype that numpy does not know, and reshape another
\* number of elements than the descriptor has.
EndRead(i) ==
    LET o == ops[i]
    IN  /\ o.kind = "read" /\ o.phase = "moving" /\ ~ HasMore(o)
        /\ Move(i, IF Len(o.moved) = Size[o.dtype] /\ o.dtype \in Readable
                   THEN "done" ELSE "raised")
        /\ UNCHANGED <<index, file, content, restarts, strays>>

\* open or read runs into an OSError, or the copy to the device does not get
\* its memory.
FailRead(i) ==
    /\ MayFail
    /\ ops[i].kind = "read" /\ ops[i].phase \in Active
    /\ Move(i, "failed")
    /\ UNCHANGED <<index, file, content, restarts, strays>>

-----------------------------------------------------------------------------
(* delete, and the process.                                                *)

\* The calls once k is deleted: those under way are cut.
Cut(k) == [j \in DOMAIN ops |-> IF Running(j, k) THEN [ops[j] EXCEPT !.cut = TRUE] ELSE ops[j]]

\* Mutant: the entry stays in the index.
DeleteFile(k) ==
    /\ MayDelete
    /\ index[k] # None
    /\ file' = [file EXCEPT ![k] = None]
    /\ ops' = Cut(k)
    /\ UNCHANGED <<index, content, restarts, strays>>

\* Mutant: the file is overwritten before it is removed.
DeleteShred(k) ==
    /\ MayDelete
    /\ index[k] # None
    /\ index' = [index EXCEPT ![k] = None]
    /\ file' = [file EXCEPT ![k] = None]
    /\ content' = [f \in Inodes |-> IF f = file[k] THEN Empty ELSE content[f]]
    /\ ops' = Cut(k)
    /\ UNCHANGED <<restarts, strays>>

\* The entry and the name of the file go; whoever has the file open keeps it.
Delete(k) ==
    /\ MayDelete
    /\ index[k] # None
    /\ index' = [index EXCEPT ![k] = None]
    /\ file' = [file EXCEPT ![k] = None]
    /\ ops' = Cut(k)
    /\ UNCHANGED <<content, restarts, strays>>

\* unlink raises: the entry is gone, and the file stays.
FailDelete(k) ==
    /\ MayDelete /\ MayFail
    /\ index[k] # None /\ file[k] # None
    /\ index' = [index EXCEPT ![k] = None]
    /\ strays' = strays \cup {k}
    /\ UNCHANGED <<file, content, ops, restarts>>

\* The process dies and starts anew: an empty index over the files it left.
Restart ==
    /\ restarts < MaxRestarts
    /\ restarts' = restarts + 1
    /\ index' = [k \in Keys |-> None]
    /\ ops' = [i \in DOMAIN ops |->
                IF ops[i].phase \in Active THEN [ops[i] EXCEPT !.phase = "lost"] ELSE ops[i]]
    /\ UNCHANGED <<file, content, strays>>

Init ==
    /\ index = [k \in Keys |-> None]
    /\ file = [k \in Keys |-> None]
    /\ content = [f \in Inodes |-> Empty]
    /\ ops = <<>>
    /\ restarts = 0
    /\ strays = {}

Next ==
    \/ \E k \in Keys, d \in Dtypes : BeginWrite(k, d)
    \/ \E k \in Keys : ReadMissing(k)
    \/ \E k \in Keys : BeginRead(k)
    \/ \E k \in Keys : Delete(k)
    \/ \E k \in Keys : FailDelete(k)
    \/ \E i \in DOMAIN ops : OpenWrite(i)
    \/ \E i \in DOMAIN ops : WriteHeader(i)
    \/ \E i \in DOMAIN ops : WriteCell(i)
    \/ \E i \in DOMAIN ops : EndWrite(i)
    \/ \E i \in DOMAIN ops : FailWrite(i)
    \/ \E i \in DOMAIN ops : OpenRead(i)
    \/ \E i \in DOMAIN ops : ReadHeader(i)
    \/ \E i \in DOMAIN ops : ReadCell(i)
    \/ \E i \in DOMAIN ops : EndRead(i)
    \/ \E i \in DOMAIN ops : FailRead(i)
    \/ Restart

Spec == Init /\ [][Next]_vars

-----------------------------------------------------------------------------
(* Properties.                                                             *)

\* Types: the index and the names of files refer to writes of their own key,
\* and no file holds more than the largest tensor.
TypeOK ==
    /\ \A k \in Keys :
        /\ index[k] \in {None} \cup Writes(k)
        /\ file[k] \in {None} \cup Writes(k)
    /\ \A f \in Inodes :
        /\ content[f].header \in {NoHeader} \cup {Size[d] : d \in Dtypes}
        /\ content[f].cells \in Seq({Hole} \cup DOMAIN ops)
        /\ \E d \in Dtypes : Len(content[f].cells) <= Size[d]
    /\ \A i \in DOMAIN ops :
        /\ ops[i].phase \in Active \cup Outcomes
        /\ ops[i].entry \in Writes(ops[i].key)
        /\ ops[i].inode \in {None} \cup Writes(ops[i].key)
        /\ Len(ops[i].moved) <= ops[i].size
    /\ restarts \in 0 .. MaxRestarts
    /\ strays \subseteq Keys

\* A tensor whose write nothing overlapped, and after which no write of its
\* key has begun, is on disk as it was written: whatever other writes tore,
\* failed or were lost in a crash before it, one clean write repairs.
IndexedIsWhole ==
    \A k \in Keys : Settled(k) => file[k] # None /\ content[file[k]] = Whole(index[k])

\* A read that no write overlaps, and that no error of the file system or the
\* device ends, returns the tensor that its descriptor was written with, whole;
\* it finds nothing only when the tensor was deleted meanwhile, and raises only
\* for a dtype that numpy does not know.
ReadsAreWhole ==
    \A i \in DOMAIN ops :
        ops[i].kind = "read" /\ ops[i].clean /\ ops[i].phase \in {"done", "void", "raised"} =>
            \/ ops[i].phase = "done" /\ ops[i].moved = Whole(ops[i].entry).cells
            \/ ops[i].phase = "void" /\ ops[i].cut
            \/ ops[i].phase = "raised" /\ ops[i].dtype \notin Readable

\* The index and the disk agree on which keys exist, but for keys with a
\* write under way, one that failed, or one whose key was deleted during it,
\* for the strays of deletes that failed, and for the files that were there
\* before a restart.
IndexMatchesDisk ==
    \A k \in Keys :
        (/\ restarts = 0 /\ k \notin strays
         /\ \A i \in Writes(k) : ops[i].phase = "done" /\ ~ ops[i].cut)
            => (index[k] = None <=> file[k] = None)

=============================================================================
