------------------------------ MODULE DayWriter ------------------------------
(***************************************************************************)
(* The per-device, per-day writer of tffiles/writer.go: callers append to  *)
(* an in-memory buffer (WriteBatch), one background goroutine (flushLoop)  *)
(* moves the buffer to an append-only data file and its index file, and    *)
(* Close stops that goroutine.                                             *)
(*                                                                         *)
(* Data is abstracted to what the properties tell apart.  A data point is  *)
(* its arrival number 1, 2, 3 ... in the life of the file.  The data file  *)
(* is the set of whole blocks it holds plus its size; bytes of the file    *)
(* that belong to no block are the remains of a write that did not         *)
(* complete.  A checksum is ideal: the crc of a block is the sequence of   *)
(* points it was computed from.                                            *)
(***************************************************************************)
EXTENDS Integers, Sequences, FiniteSets, Functions

CONSTANTS
    MaxPoints,      \* bound: points accepted over the whole behaviour
    MaxBatch,       \* bound: points in one WriteBatch call
    MaxOpens,       \* bound: lives of the process (calls of NewDayWriter)
    BatchSize,      \* DayWriter.batchSize (1000 in the code)
    IndexInterval,  \* StorageConfig.IndexInterval, in bytes
    PointBytes,     \* encoded size of one point
    ZstdLen,        \* ZstdLen[k]: size of a compressed block of k points
    TimeOf,         \* TimeOf[p]: the timestamp carried by point p
    Faults          \* the faults the environment may inject

CrcBytes == 4

FaultKinds == {"write", "torn", "sync", "idx", "crash"}

ASSUME BoundAssumption ==
    /\ MaxPoints \in Nat \ {0}
    /\ MaxBatch \in 1 .. MaxPoints
    /\ MaxOpens \in Nat \ {0}

ASSUME SizeAssumption ==
    /\ BatchSize \in Nat \ {0}
    /\ IndexInterval \in Nat
    /\ PointBytes \in Nat \ {0}
    /\ ZstdLen \in [1 .. MaxPoints -> Nat \ {0}]

ASSUME DataAssumption ==
    /\ TimeOf \in [1 .. MaxPoints -> Int]
    /\ Faults \subseteq FaultKinds

VARIABLES
    \* the DayWriter struct and the program counter of flushLoop
    buffer, flushChan, closeChan, indexes, currentOffset, pc, final, points,
    \* the data file and the index file
    blocks, fileSize, synced, idx, idxSynced,
    \* history: what was accepted, what became of it, what went wrong
    accepted, closedAt, lost, faulted, opens

memory  == <<buffer, flushChan, closeChan, indexes, currentOffset, pc, final, points>>
data    == <<blocks, fileSize, synced>>
index   == <<idx, idxSynced>>
history == <<accepted, closedAt, lost, faulted, opens>>
vars    == <<memory, data, index, history>>

Point == 1 .. MaxPoints

\* A block of the data file: its place, its size and the points encoded in it.
Block == [at : Nat, len : Nat, pts : Seq(Point)]

\* An entry of the index file; ok is FALSE for one that was not fully written.
IndexEntry == [ok : BOOLEAN, start : Int, end : Int, off : Nat, len : Nat, crc : Seq(Point)]

\* flushLoop waits in "select"; "flush" to "advance" are the steps of flush;
\* "done" is the goroutine's return, "closed" the return of Close, and in
\* "down" there is no process.
Control == {"select", "flush", "write", "sync", "index", "advance", "done", "closed", "down"}

\* A block of k points is its encoding and a CRC, compressed once it is large.
BlockLen(k) ==
    IF k * PointBytes >= IndexInterval THEN ZstdLen[k] ELSE k * PointBytes + CrcBytes

PointsOf(bs) == UNION {Range(b.pts) : b \in bs}

OnDisk == PointsOf(blocks)

\* Blocks that an fsync has covered, and the points in them.
DurableBlocks == {b \in blocks : b.at + b.len <= synced}
Durable == PointsOf(DurableBlocks)

\* Points taken out of the buffer and not yet written.
Pending == IF pc = "write" THEN Range(points) ELSE {}

Running == pc # "down"

-----------------------------------------------------------------------------

Init ==
    /\ buffer = <<>> /\ flushChan = FALSE /\ closeChan = FALSE
    /\ indexes = <<>> /\ currentOffset = 0
    /\ pc = "select" /\ final = FALSE /\ points = <<>>
    /\ blocks = {} /\ fileSize = 0 /\ synced = 0
    /\ idx = <<>> /\ idxSynced = 0
    /\ accepted = 0 /\ closedAt = 0 /\ lost = {} /\ faulted = {} /\ opens = 1

\* Nothing in WriteBatch looks at closeChan: points are accepted even after
\* Close.  The send on flushChan does not block: a full channel drops it.
WriteBatch(k) ==
    /\ Running
    /\ accepted + k <= MaxPoints
    /\ accepted' = accepted + k
    /\ buffer' = buffer \o [i \in 1 .. k |-> accepted + i]
    /\ flushChan' = (flushChan \/ Len(buffer') >= BatchSize)
    /\ UNCHANGED <<closeChan, indexes, currentOffset, pc, final, points, data, index,
                   closedAt, lost, faulted, opens>>

\* Mutant: the ticker is never read.
SelectTickNever == FALSE /\ UNCHANGED vars

\* Mutant: the closeChan case returns without a last flush.
SelectCloseNoFlush ==
    /\ pc = "select" /\ closeChan
    /\ pc' = "done"
    /\ final' = TRUE
    /\ UNCHANGED <<buffer, flushChan, closeChan, indexes, currentOffset, points,
                   data, index, history>>

\* The three cases of the select of flushLoop.  All three flush.
SelectFlush ==
    /\ pc = "select" /\ flushChan
    /\ flushChan' = FALSE
    /\ pc' = "flush"
    /\ UNCHANGED <<buffer, closeChan, indexes, currentOffset, final, points, data, index, history>>

SelectTick ==
    /\ pc = "select"
    /\ pc' = "flush"
    /\ UNCHANGED <<buffer, flushChan, closeChan, indexes, currentOffset, final, points,
                   data, index, history>>

SelectClose ==
    /\ pc = "select" /\ closeChan
    /\ pc' = "flush"
    /\ final' = TRUE
    /\ UNCHANGED <<buffer, flushChan, closeChan, indexes, currentOffset, points,
                   data, index, history>>

\* Mutant: the closeChan case does not return.
ReturnNever == "select"

\* Where flushLoop continues when flush returns.
Return == IF final THEN "done" ELSE "select"

\* Mutant: flush copies the buffer and does not truncate it.
TakeBufferKeeps ==
    /\ pc = "flush" /\ buffer # <<>>
    /\ points' = buffer
    /\ pc' = "write"
    /\ UNCHANGED <<buffer, flushChan, closeChan, indexes, currentOffset, final, data, index,
                   history>>

\* flush, first part: under bufferMu, copy the buffer and empty it.
TakeBuffer ==
    /\ pc = "flush"
    /\ \/ /\ buffer = <<>>
          /\ pc' = Return
          /\ UNCHANGED <<buffer, points>>
       \/ /\ buffer # <<>>
          /\ points' = buffer
          /\ buffer' = <<>>
          /\ pc' = "write"
    /\ UNCHANGED <<flushChan, closeChan, indexes, currentOffset, final, data, index, history>>

\* The write at the end of the data file (O_APPEND) succeeds ...
WriteData ==
    /\ pc = "write"
    /\ blocks' = blocks \union {[at |-> fileSize, len |-> BlockLen(Len(points)), pts |-> points]}
    /\ fileSize' = fileSize + BlockLen(Len(points))
    /\ pc' = "sync"
    /\ UNCHANGED <<buffer, flushChan, closeChan, indexes, currentOffset, final, points,
                   synced, index, history>>

\* Mutant: a failed write puts its points back behind those that arrived since.
WriteDataFailRequeues ==
    /\ pc = "write" /\ "write" \in Faults
    /\ faulted' = faulted \union {"write"}
    /\ buffer' = buffer \o points
    /\ points' = <<>>
    /\ pc' = Return
    /\ UNCHANGED <<flushChan, closeChan, indexes, currentOffset, final,
                   data, index, accepted, closedAt, lost, opens>>

\* Mutant: a failed write advances the append position as if it had succeeded.
WriteDataFailAdvances ==
    /\ pc = "write" /\ "write" \in Faults
    /\ faulted' = faulted \union {"write"}
    /\ currentOffset' = currentOffset + BlockLen(Len(points))
    /\ lost' = lost \union Range(points)
    /\ points' = <<>>
    /\ pc' = Return
    /\ UNCHANGED <<buffer, flushChan, closeChan, indexes, final,
                   data, index, accepted, closedAt, opens>>

\* ... or fails, before any byte or after some of them; flush logs and returns.
WriteDataFail ==
    /\ pc = "write"
    /\ \/ /\ "write" \in Faults
          /\ faulted' = faulted \union {"write"}
          /\ UNCHANGED fileSize
       \/ /\ "torn" \in Faults
          /\ faulted' = faulted \union {"torn"}
          /\ \E m \in 1 .. BlockLen(Len(points)) - 1 : fileSize' = fileSize + m
    /\ lost' = lost \union Range(points)
    /\ points' = <<>>
    /\ pc' = Return
    /\ UNCHANGED <<buffer, flushChan, closeChan, indexes, currentOffset, final,
                   blocks, synced, index, accepted, closedAt, opens>>

\* Mutant: no fsync of the data file.
SyncDataSkipped ==
    /\ pc = "sync"
    /\ pc' = "index"
    /\ UNCHANGED <<buffer, flushChan, closeChan, indexes, currentOffset, final, points,
                   data, index, history>>

\* An fsync that fails is logged and the flush goes on.
SyncData ==
    /\ pc = "sync"
    /\ \/ synced' = fileSize /\ UNCHANGED faulted
       \/ /\ "sync" \in Faults
          /\ faulted' = faulted \union {"sync"}
          /\ UNCHANGED synced
    /\ pc' = "index"
    /\ UNCHANGED <<buffer, flushChan, closeChan, indexes, currentOffset, final, points,
                   blocks, fileSize, index, accepted, closedAt, lost, opens>>

NewEntry ==
    [ok |-> TRUE, start |-> TimeOf[points[1]], end |-> TimeOf[points[Len(points)]],
     off |-> currentOffset, len |-> BlockLen(Len(points)), crc |-> points]

\* An entry of which only a part reached the index file.
Torn(e) == [e EXCEPT !.ok = FALSE]

\* The entry is appended in memory and in the index file; the error of the
\* second is ignored, whether nothing or a part of the entry was written.
WriteIndex ==
    /\ pc = "index"
    /\ indexes' = Append(indexes, NewEntry)
    /\ \/ idx' = Append(idx, NewEntry) /\ UNCHANGED faulted
       \/ /\ "idx" \in Faults
          /\ faulted' = faulted \union {"idx"}
          /\ idx' = idx \/ idx' = Append(idx, Torn(NewEntry))
    /\ pc' = "advance"
    /\ UNCHANGED <<buffer, flushChan, closeChan, currentOffset, final, points, data,
                   idxSynced, accepted, closedAt, lost, opens>>

\* Mutant: no fsync of the index file.
AdvanceUnsynced ==
    /\ pc = "advance"
    /\ currentOffset' = currentOffset + BlockLen(Len(points))
    /\ points' = <<>>
    /\ pc' = Return
    /\ UNCHANGED <<buffer, flushChan, closeChan, indexes, final, data, index, history>>

\* The end of flush: fsync of the index file, then the new append position.
Advance ==
    /\ pc = "advance"
    /\ \/ idxSynced' = Len(idx) /\ UNCHANGED faulted
       \/ /\ "idx" \in Faults
          /\ faulted' = faulted \union {"idx"}
          /\ UNCHANGED idxSynced
    /\ currentOffset' = currentOffset + BlockLen(Len(points))
    /\ points' = <<>>
    /\ pc' = Return
    /\ UNCHANGED <<buffer, flushChan, closeChan, indexes, final, data, idx,
                   accepted, closedAt, lost, opens>>

\* DayWriter.Sync: not while a flush holds fileMu, nor on closed files.  When
\* the second fsync fails the first has been done.
Sync ==
    /\ pc \in {"select", "flush", "write", "done"}
    /\ synced' = fileSize
    /\ \/ idxSynced' = Len(idx)
       \/ "sync" \in Faults /\ UNCHANGED idxSynced
    /\ UNCHANGED <<memory, blocks, fileSize, idx, history>>

\* DayWriter.Close up to the wait for flushLoop.
Close ==
    /\ Running /\ ~closeChan
    /\ closeChan' = TRUE
    /\ closedAt' = accepted
    /\ UNCHANGED <<buffer, flushChan, indexes, currentOffset, pc, final, points, data, index,
                   accepted, lost, faulted, opens>>

\* The rest of Close: fsync and close both files, the second also when the first
\* fails.
CloseFiles ==
    /\ pc = "done"
    /\ \/ synced' = fileSize /\ idxSynced' = Len(idx) /\ UNCHANGED faulted
       \/ /\ "sync" \in Faults
          /\ faulted' = faulted \union {"sync"}
          /\ synced' \in {synced, fileSize} /\ idxSynced' \in {idxSynced, Len(idx)}
    /\ pc' = "closed"
    /\ UNCHANGED <<buffer, flushChan, closeChan, indexes, currentOffset, final, points,
                   blocks, fileSize, idx, accepted, closedAt, lost, opens>>

-----------------------------------------------------------------------------
(* The life of the process. *)

\* The memory of the process is gone, and with it every point still there.
LoseMemory ==
    /\ buffer' = <<>> /\ flushChan' = FALSE /\ closeChan' = FALSE
    /\ indexes' = <<>> /\ currentOffset' = 0
    /\ pc' = "down" /\ final' = FALSE /\ points' = <<>>
    /\ UNCHANGED <<accepted, closedAt, opens>>

\* main returns once every writer is closed.
Exit ==
    /\ pc = "closed"
    /\ LoseMemory
    /\ lost' = lost \union Range(buffer)
    /\ UNCHANGED <<data, index, faulted>>

\* The process is killed; what it wrote is still in the files.
Kill ==
    /\ "crash" \in Faults /\ Running
    /\ LoseMemory
    /\ lost' = lost \union Range(buffer) \union Pending
    /\ faulted' = faulted \union {"crash"}
    /\ UNCHANGED <<data, index>>

\* The machine loses power: each file keeps its synced prefix and any part of
\* the rest, cut anywhere.
PowerLoss ==
    /\ "crash" \in Faults
    /\ LoseMemory
    /\ faulted' = faulted \union {"crash"}
    /\ \E c \in synced .. fileSize :
          /\ fileSize' = c /\ synced' = c
          /\ blocks' = {b \in blocks : b.at + b.len <= c}
          /\ lost' = lost \union Range(buffer) \union Pending \union (OnDisk \ PointsOf(blocks'))
    /\ \E n \in idxSynced .. Len(idx) :
          /\ \/ idx' = SubSeq(idx, 1, n)
             \/ n < Len(idx) /\ idx' = Append(SubSeq(idx, 1, n), Torn(idx[n + 1]))
          /\ idxSynced' = Len(idx')

\* Mutant: the data file is truncated when it is opened (O_TRUNC).
NewDayWriterTruncates ==
    /\ pc = "down" /\ opens < MaxOpens
    /\ opens' = opens + 1
    /\ blocks' = {} /\ fileSize' = 0 /\ synced' = 0 /\ currentOffset' = 0
    /\ lost' = lost \union OnDisk
    /\ pc' = "select"
    /\ UNCHANGED <<buffer, flushChan, closeChan, indexes, final, points, index,
                   accepted, closedAt, faulted>>

\* NewDayWriter on files that may already hold data: both are opened for
\* appending and the offset is the end of the data file.
NewDayWriter ==
    /\ pc = "down" /\ opens < MaxOpens
    /\ opens' = opens + 1
    /\ currentOffset' = fileSize
    /\ pc' = "select"
    /\ UNCHANGED <<buffer, flushChan, closeChan, indexes, final, points, data, index,
                   accepted, closedAt, lost, faulted>>

Flush == TakeBuffer \/ WriteData \/ WriteDataFail \/ SyncData \/ WriteIndex \/ Advance

FlushLoop == SelectFlush \/ SelectTick \/ SelectClose \/ Flush

Next ==
    \/ \E k \in 1 .. MaxBatch : WriteBatch(k)
    \/ FlushLoop
    \/ Sync \/ Close \/ CloseFiles
    \/ Exit \/ Kill \/ PowerLoss \/ NewDayWriter

Spec == Init /\ [][Next]_vars

\* Go schedules the goroutine of flushLoop and Close's caller, and select takes
\* a ready case at random, so a closed closeChan is not passed over for ever.
Fairness ==
    /\ WF_vars(FlushLoop)
    /\ SF_vars(SelectClose)
    /\ WF_vars(CloseFiles)

FairSpec == Spec /\ Fairness

-----------------------------------------------------------------------------
(* Properties. *)

MemoryOK ==
    /\ buffer \in Seq(Point) /\ points \in Seq(Point)
    /\ flushChan \in BOOLEAN /\ closeChan \in BOOLEAN /\ final \in BOOLEAN
    /\ pc \in Control

DataOK ==
    /\ fileSize \in Nat /\ synced \in 0 .. fileSize /\ currentOffset \in 0 .. fileSize
    /\ blocks \subseteq Block
    /\ \A b \in blocks : b.at + b.len <= fileSize

IndexOK ==
    /\ indexes \in Seq(IndexEntry) /\ idx \in Seq(IndexEntry)
    /\ idxSynced \in 0 .. Len(idx)

HistoryOK ==
    /\ accepted \in 0 .. MaxPoints /\ closedAt \in 0 .. accepted
    /\ lost \subseteq Point /\ faulted \subseteq Faults
    /\ opens \in 1 .. MaxOpens

\* Types, and the bounds that tie positions to the files: the append position,
\* what fsync covered and every block lie inside the data file.
TypeOK == MemoryOK /\ DataOK /\ IndexOK /\ HistoryOK

\* Whatever WriteBatch, flush, Close and failures do, in whatever order: a point
\* accepted by WriteBatch is in exactly one place - the buffer, the flush in
\* progress, a block of the data file - or was lost.
Conservation ==
    /\ 1 .. accepted = Range(buffer) \union Pending \union OnDisk \union lost
    /\ Range(buffer) \intersect Pending = {}
    /\ (Range(buffer) \union Pending) \intersect (OnDisk \union lost) = {}
    /\ OnDisk \intersect lost = {}

Ordered(s) == \A x, y \in DOMAIN s : x < y => s[x] < s[y]

BetweenBlocks ==
    /\ \A b, c \in blocks :
          b.at < c.at => /\ b.at + b.len <= c.at
                         /\ \A p \in Range(b.pts), q \in Range(c.pts) : p < q
    /\ \A p \in OnDisk, q \in Pending \union Range(buffer) : p < q
    /\ \A p \in Pending, q \in Range(buffer) : p < q

InBlocks == Ordered(buffer) /\ Ordered(points) /\ \A b \in blocks : Ordered(b.pts)

\* flush keeps the order of arrival, whatever fails: blocks do not overlap, a
\* later block holds later points, what is still in memory is later than what is
\* on disk, and within a block and the buffer the order is kept as well.
DiskOrder == BetweenBlocks /\ InBlocks

\* Positions of the index file that a reader of whole entries gets to see.
Readable == {i \in DOMAIN idx : \A j \in 1 .. i : idx[j].ok}

Describes(e, b) == e.off = b.at /\ e.len = b.len /\ e.crc = b.pts

\* The index agrees with the data file: every entry describes a whole block.
IndexInSync == \A i \in Readable : \E b \in blocks : Describes(idx[i], b)

\* A failed write without bytes, a failed index write, a kill or a power loss at
\* any point of flush never leave an index entry without its block: the data
\* is fsynced before the entry is written, and NewDayWriter starts at the end
\* of the file.  (A torn write or a failed data fsync can: see IndexInSync.)
IndexSound == faulted \intersect {"torn", "sync"} = {} => IndexInSync

\* Blocks that no whole entry of the index file describes.
Unindexed == {b \in blocks : ~ \E i \in DOMAIN idx : idx[i].ok /\ Describes(idx[i], b)}

\* Without failures every block is in the index file, in memory too since the
\* last start, except the one a flush is working on.  Kills and power failures, at
\* whatever point of flush and however often, cost one entry in each life of the
\* process: an entry is fsynced before the next block is written.
IndexComplete ==
    /\ faulted = {} =>
        /\ \A b \in blocks :
              \/ \E i \in Readable : Describes(idx[i], b)
              \/ pc \in {"sync", "index"} /\ b.at = currentOffset
        /\ indexes = SubSeq(idx, Len(idx) - Len(indexes) + 1, Len(idx))
    /\ faulted \subseteq {"write", "crash"} =>
        Cardinality(Unindexed) <=
            opens - 1 + (IF pc \in {"sync", "index", "down"} THEN 1 ELSE 0)

\* When flushLoop returns, what is left in the buffer was accepted after Close:
\* no select order lets the final flush miss a point accepted before it.
CloseFlushesAll ==
    pc \in {"done", "closed"} => \A p \in Range(buffer) : p > closedAt

\* Without failures the only points ever lost are those accepted after Close
\* and still buffered when the process exits.
NoFaultNoLoss ==
    [][faulted' = {} => \A p \in lost' \ lost : pc = "closed" /\ p > closedAt]_vars

\* A block an fsync has covered stays where it is, with its points, through
\* every later flush, failure, crash and restart.
DurableForever == [][DurableBlocks \subseteq DurableBlocks']_vars

\* While the writer is open every accepted point gets to the data file, or is
\* lost to a failure, without waiting for the batch to fill.
EveryPointSettles ==
    \A p \in Point : (p <= accepted /\ ~closeChan) ~> (p \in OnDisk \union lost)

\* Close returns (or the process dies first).
CloseTerminates == closeChan ~> pc \in {"closed", "down"}

-----------------------------------------------------------------------------
(* What the writer promises, read through the points its fsyncs cover. *)

Log == INSTANCE PointLog WITH stored <- Durable

\* Accepted points become durable in order of arrival, once, and for good.
ImplementsPointLog == Log!Spec

=============================================================================
