--------------------------- MODULE DayWriterProofs ---------------------------
(***************************************************************************)
(* Proofs that DayWriter has its safety properties for every number of     *)
(* points, batch and block size, every set of faults and any number of     *)
(* restarts.                                                               *)
(***************************************************************************)
EXTENDS DayWriter, SequenceTheorems, FiniteSetTheorems, TLAPS

-----------------------------------------------------------------------------
(* Facts about the operators the specification is built from. *)

\* BlockLen, the size of an encoded block, is positive.
LEMMA BlockLenPositive ==
    ASSUME NEW k \in 1 .. MaxPoints
    PROVE  BlockLen(k) \in Nat \ {0}
<1>1. k * PointBytes \in Nat
  BY BoundAssumption, SizeAssumption
<1>2. ZstdLen[k] \in Nat \ {0}
  BY SizeAssumption
<1> QED
  BY <1>1, <1>2 DEF BlockLen, CrcBytes

\* The domain of a sequence determines its length.
LEMMA SameInterval ==
    ASSUME NEW m \in Nat, NEW n \in Nat, 1 .. m = 1 .. n
    PROVE  m = n
<1>1. (m + 1 \in 1 .. m) = (m + 1 \in 1 .. n)
  OBVIOUS
<1>2. (n + 1 \in 1 .. m) = (n + 1 \in 1 .. n)
  OBVIOUS
<1> QED
  BY <1>1, <1>2

\* An empty buffer holds no point.
LEMMA RangeEmpty == Range(<<>>) = {}
BY DEF Range

\* The buffer that WriteBatch(k) makes, element by element.
LEMMA BufferElements ==
    ASSUME NEW s \in Seq(Point), NEW n \in Nat, NEW k \in Nat, n + k <= MaxPoints
    PROVE  LET t == s \o [i \in 1 .. k |-> n + i]
           IN  /\ t \in Seq(Point) /\ Len(t) = Len(s) + k
               /\ Len(s) \in Nat /\ DOMAIN s = 1 .. Len(s) /\ DOMAIN t = 1 .. Len(s) + k
               /\ \A x \in DOMAIN t : t[x] = IF x <= Len(s) THEN s[x] ELSE n + (x - Len(s))
<1> DEFINE u == [i \in 1 .. k |-> n + i]
           t == s \o u
<1>1. u \in Seq(Point) /\ Len(u) = k
  <2>1. u \in [1 .. k -> Point]
    BY BoundAssumption DEF Point
  <2>2. u \in Seq(Point)
    BY <2>1, IsASeq
  <2>3. Len(u) \in Nat /\ DOMAIN u = 1 .. Len(u)
    BY <2>2, LenProperties
  <2>4. DOMAIN u = 1 .. k
    OBVIOUS
  <2>5. Len(u) = k
    BY <2>3, <2>4, SameInterval
  <2> QED
    BY <2>2, <2>5
<1>2. \A i \in 1 .. k : u[i] = n + i
  OBVIOUS
<1> HIDE DEF u
<1>4. /\ t \in Seq(Point)
      /\ Len(t) = Len(s) + k
      /\ \A i \in 1 .. Len(s) + k : t[i] = IF i <= Len(s) THEN s[i] ELSE u[i - Len(s)]
  BY <1>1, ConcatProperties
<1>5. Len(s) \in Nat /\ DOMAIN s = 1 .. Len(s) /\ DOMAIN t = 1 .. Len(s) + k
  BY <1>4, LenProperties
<1>6. \A x \in 1 .. Len(s) + k : ~(x <= Len(s)) => u[x - Len(s)] = n + (x - Len(s))
  BY <1>2, <1>5
<1> QED
  BY <1>4, <1>5, <1>6 DEF u

\* What WriteBatch(k) does to the buffer: it adds the k newest points.
LEMMA BufferAppend ==
    ASSUME NEW s \in Seq(Point), NEW n \in Nat, NEW k \in Nat, n + k <= MaxPoints
    PROVE  LET t == s \o [i \in 1 .. k |-> n + i]
           IN  /\ t \in Seq(Point)
               /\ Len(t) = Len(s) + k
               /\ Range(t) = Range(s) \union ((n + 1) .. (n + k))
<1> DEFINE t == s \o [i \in 1 .. k |-> n + i]
<1>1. /\ t \in Seq(Point) /\ Len(t) = Len(s) + k
      /\ Len(s) \in Nat /\ DOMAIN s = 1 .. Len(s) /\ DOMAIN t = 1 .. Len(s) + k
      /\ \A x \in DOMAIN t : t[x] = IF x <= Len(s) THEN s[x] ELSE n + (x - Len(s))
  BY BufferElements
<1> HIDE DEF t
<1>2. ASSUME NEW p \in Range(t) PROVE p \in Range(s) \union ((n + 1) .. (n + k))
  <2>1. PICK i \in 1 .. Len(s) + k : p = t[i]
    BY <1>1 DEF Range
  <2>2. CASE i <= Len(s)
    BY <2>1, <2>2, <1>1 DEF Range
  <2>3. CASE i > Len(s)
    BY <2>1, <2>3, <1>1
  <2> QED
    BY <2>2, <2>3, <1>1
<1>3. ASSUME NEW p \in Range(s) PROVE p \in Range(t)
  <2>1. PICK i \in 1 .. Len(s) : p = s[i]
    BY <1>1 DEF Range
  <2>2. i \in DOMAIN t /\ t[i] = p
    BY <2>1, <1>1
  <2> QED
    BY <2>2 DEF Range
<1>4. ASSUME NEW p \in (n + 1) .. (n + k) PROVE p \in Range(t)
  <2>1. /\ Len(s) + (p - n) \in DOMAIN t
        /\ t[Len(s) + (p - n)] = p
    BY <1>1
  <2> QED
    BY <2>1 DEF Range
<1> QED
  BY <1>1, <1>2, <1>3, <1>4 DEF t

\* A new block adds its points to those on disk.
LEMMA PointsOfNewBlock ==
    ASSUME NEW bs, NEW b
    PROVE  PointsOf(bs \union {b}) = PointsOf(bs) \union Range(b.pts)
BY DEF PointsOf

-----------------------------------------------------------------------------
(* Type correctness.  TypeOK is not inductive: that the append position     *)
(* stays inside the file needs the size of the block being written.         *)

Flushing == {"write", "sync", "index", "advance"}

FlushInv ==
    /\ Len(buffer) <= accepted
    /\ pc \in Flushing => Len(points) \in 1 .. MaxPoints
    /\ pc \in Flushing \ {"write"} => currentOffset + BlockLen(Len(points)) <= fileSize

\* The entry flush builds is an index entry, whole or torn.
LEMMA EntryType ==
    ASSUME MemoryOK, DataOK, FlushInv, pc = "index"
    PROVE  NewEntry \in IndexEntry /\ Torn(NewEntry) \in IndexEntry
<1>1. Len(points) \in 1 .. MaxPoints /\ points \in Seq(Point)
  BY DEF FlushInv, Flushing, MemoryOK
<1>2. points[1] \in Point /\ points[Len(points)] \in Point
  BY <1>1, LenProperties
<1>3. TimeOf[points[1]] \in Int /\ TimeOf[points[Len(points)]] \in Int
  BY <1>2, DataAssumption DEF Point
<1>4. BlockLen(Len(points)) \in Nat
  BY <1>1, BlockLenPositive
<1>5. currentOffset \in Nat
  BY DEF DataOK
<1> QED
  BY <1>1, <1>3, <1>4, <1>5 DEF NewEntry, Torn, IndexEntry

\* The empty sequence, which buffers and indexes start from.
LEMMA EmptyTypes ==
    <<>> \in Seq(Point) /\ <<>> \in Seq(IndexEntry) /\ Len(<<>>) = 0
BY EmptySeq

\* Init establishes the type invariant.
LEMMA InitType == Init => TypeOK /\ FlushInv
<1> SUFFICES ASSUME Init PROVE TypeOK /\ FlushInv
  OBVIOUS
<1>1. MemoryOK
  BY EmptyTypes DEF Init, MemoryOK, Control
<1>2. DataOK
  BY DEF Init, DataOK
<1>3. IndexOK
  BY EmptyTypes DEF Init, IndexOK
<1>4. HistoryOK
  BY BoundAssumption DEF Init, HistoryOK
<1>5. FlushInv
  BY EmptyTypes DEF Init, FlushInv, Flushing
<1> QED
  BY <1>1, <1>2, <1>3, <1>4, <1>5 DEF TypeOK

\* Every step of the writer, of its callers and of the environment keeps it.
LEMMA NextType == TypeOK /\ FlushInv /\ [Next]_vars => TypeOK' /\ FlushInv'
<1> SUFFICES ASSUME MemoryOK, DataOK, IndexOK, HistoryOK, FlushInv, [Next]_vars
             PROVE  MemoryOK' /\ DataOK' /\ IndexOK' /\ HistoryOK' /\ FlushInv'
  BY DEF TypeOK
<1> USE DEF memory, data, index, history
<1>1. ASSUME NEW k \in 1 .. MaxBatch, WriteBatch(k) PROVE MemoryOK' /\ DataOK' /\ IndexOK' /\ HistoryOK' /\ FlushInv'
  <2>1. /\ accepted \in Nat /\ k \in Nat /\ accepted + k <= MaxPoints
        /\ Len(buffer) \in Nat
    BY <1>1, BoundAssumption, LenProperties DEF WriteBatch, MemoryOK, HistoryOK
  <2>2. buffer' = buffer \o [i \in 1 .. k |-> accepted + i]
    BY <1>1 DEF WriteBatch
  <2>3. buffer' \in Seq(Point) /\ Len(buffer') = Len(buffer) + k
    BY <2>1, <2>2, BufferAppend DEF MemoryOK
  <2>4. MemoryOK'
    BY <1>1, <2>3 DEF WriteBatch, MemoryOK, Control
  <2>5. DataOK'
    BY <1>1 DEF WriteBatch, DataOK
  <2>6. IndexOK'
    BY <1>1 DEF WriteBatch, IndexOK
  <2>7. HistoryOK'
    BY <1>1, <2>1 DEF WriteBatch, HistoryOK
  <2>8. FlushInv'
    BY <1>1, <2>1, <2>3 DEF WriteBatch, FlushInv, Flushing
  <2> QED
    BY <2>4, <2>5, <2>6, <2>7, <2>8
<1>2. CASE SelectFlush
  BY <1>2 DEF SelectFlush, MemoryOK, DataOK, IndexOK, HistoryOK, FlushInv, Flushing, Control
<1>3. CASE SelectTick
  BY <1>3 DEF SelectTick, MemoryOK, DataOK, IndexOK, HistoryOK, FlushInv, Flushing, Control
<1>4. CASE SelectClose
  BY <1>4 DEF SelectClose, MemoryOK, DataOK, IndexOK, HistoryOK, FlushInv, Flushing, Control
<1>5. CASE TakeBuffer
  <2>1. buffer # <<>> => Len(buffer) \in 1 .. MaxPoints
    BY EmptySeq, BoundAssumption, LenProperties DEF MemoryOK, HistoryOK, FlushInv
  <2>2. MemoryOK'
    BY <1>5, EmptyTypes DEF TakeBuffer, MemoryOK, Control, Return
  <2>3. DataOK'
    BY <1>5 DEF TakeBuffer, DataOK
  <2>4. IndexOK'
    BY <1>5 DEF TakeBuffer, IndexOK
  <2>5. HistoryOK'
    BY <1>5 DEF TakeBuffer, HistoryOK
  <2>6. FlushInv'
    BY <1>5, <2>1, EmptyTypes DEF TakeBuffer, FlushInv, Flushing, Return, HistoryOK
  <2> QED
    BY <2>2, <2>3, <2>4, <2>5, <2>6
<1>6. CASE WriteData
  <2>1. BlockLen(Len(points)) \in Nat \ {0}
    BY <1>6, BlockLenPositive DEF WriteData, FlushInv, Flushing
  <2>2. MemoryOK'
    BY <1>6 DEF WriteData, MemoryOK, Control
  <2>3. DataOK'
    BY <1>6, <2>1 DEF WriteData, DataOK, Block, MemoryOK
  <2>4. IndexOK'
    BY <1>6 DEF WriteData, IndexOK
  <2>5. HistoryOK'
    BY <1>6 DEF WriteData, HistoryOK
  <2>6. FlushInv'
    BY <1>6, <2>1 DEF WriteData, FlushInv, Flushing, DataOK
  <2> QED
    BY <2>2, <2>3, <2>4, <2>5, <2>6
<1>7. CASE WriteDataFail
  <2>1. BlockLen(Len(points)) \in Nat \ {0}
    BY <1>7, BlockLenPositive DEF WriteDataFail, FlushInv, Flushing
  <2>2. Range(points) \subseteq Point
    BY LenProperties DEF MemoryOK, Range
  <2>3. fileSize' \in Nat /\ fileSize <= fileSize'
    BY <1>7, <2>1 DEF WriteDataFail, DataOK
  <2>4. MemoryOK'
    BY <1>7, EmptyTypes DEF WriteDataFail, MemoryOK, Control, Return
  <2>5. DataOK'
    BY <1>7, <2>3 DEF WriteDataFail, DataOK, Block
  <2>6. IndexOK'
    BY <1>7 DEF WriteDataFail, IndexOK
  <2>7. HistoryOK'
    BY <1>7, <2>2 DEF WriteDataFail, HistoryOK
  <2>8. FlushInv'
    BY <1>7 DEF WriteDataFail, FlushInv, Flushing, Return
  <2> QED
    BY <2>4, <2>5, <2>6, <2>7, <2>8
<1>8. CASE SyncData
  BY <1>8 DEF SyncData, MemoryOK, DataOK, IndexOK, HistoryOK, FlushInv, Flushing, Control
<1>9. CASE WriteIndex
  <2>1. NewEntry \in IndexEntry /\ Torn(NewEntry) \in IndexEntry
    BY <1>9, EntryType DEF WriteIndex
  <2>2. indexes' \in Seq(IndexEntry)
    BY <1>9, <2>1, AppendProperties DEF WriteIndex, IndexOK
  <2>3. idx' \in Seq(IndexEntry) /\ Len(idx) <= Len(idx')
    <3>1. idx' = idx \/ \E e \in IndexEntry : idx' = Append(idx, e)
      BY <1>9, <2>1 DEF WriteIndex
    <3>2. idx \in Seq(IndexEntry) /\ Len(idx) \in Nat
      BY LenProperties DEF IndexOK
    <3>3. ASSUME NEW e \in IndexEntry, idx' = Append(idx, e)
          PROVE  idx' \in Seq(IndexEntry) /\ Len(idx') = Len(idx) + 1
      BY <3>2, <3>3, AppendProperties
    <3> QED
      BY <3>1, <3>2, <3>3
  <2>4. MemoryOK'
    BY <1>9 DEF WriteIndex, MemoryOK, Control
  <2>5. DataOK'
    BY <1>9 DEF WriteIndex, DataOK
  <2>6. IndexOK'
    BY <1>9, <2>2, <2>3, LenProperties DEF WriteIndex, IndexOK
  <2>7. HistoryOK'
    BY <1>9 DEF WriteIndex, HistoryOK
  <2>8. FlushInv'
    BY <1>9 DEF WriteIndex, FlushInv, Flushing
  <2> QED
    BY <2>4, <2>5, <2>6, <2>7, <2>8
<1>10. CASE Advance
  <2>1. BlockLen(Len(points)) \in Nat \ {0}
    BY <1>10, BlockLenPositive DEF Advance, FlushInv, Flushing
  <2>2. MemoryOK'
    BY <1>10, EmptyTypes DEF Advance, MemoryOK, Control, Return
  <2>3. DataOK'
    BY <1>10, <2>1 DEF Advance, DataOK, FlushInv, Flushing
  <2>4. IndexOK'
    BY <1>10, LenProperties DEF Advance, IndexOK
  <2>5. HistoryOK'
    BY <1>10 DEF Advance, HistoryOK
  <2>6. FlushInv'
    BY <1>10 DEF Advance, FlushInv, Flushing, Return
  <2> QED
    BY <2>2, <2>3, <2>4, <2>5, <2>6
<1>11. CASE Sync
  <2>1. MemoryOK'
    BY <1>11 DEF Sync, MemoryOK, Control
  <2>2. DataOK'
    BY <1>11 DEF Sync, DataOK
  <2>3. IndexOK'
    BY <1>11, LenProperties DEF Sync, IndexOK
  <2>4. HistoryOK'
    BY <1>11 DEF Sync, HistoryOK
  <2>5. FlushInv'
    BY <1>11 DEF Sync, FlushInv, Flushing
  <2> QED
    BY <2>1, <2>2, <2>3, <2>4, <2>5
<1>12. CASE Close
  BY <1>12 DEF Close, MemoryOK, DataOK, IndexOK, HistoryOK, FlushInv, Flushing, Control
<1>13. CASE CloseFiles
  <2>1. MemoryOK'
    BY <1>13 DEF CloseFiles, MemoryOK, Control
  <2>2. DataOK'
    BY <1>13 DEF CloseFiles, DataOK
  <2>3. IndexOK'
    BY <1>13, LenProperties DEF CloseFiles, IndexOK
  <2>4. HistoryOK'
    BY <1>13 DEF CloseFiles, HistoryOK
  <2>5. FlushInv'
    BY <1>13 DEF CloseFiles, FlushInv, Flushing
  <2> QED
    BY <2>1, <2>2, <2>3, <2>4, <2>5
<1>14. CASE Exit
  <2>1. Range(buffer) \subseteq Point
    BY LenProperties DEF MemoryOK, Range
  <2>2. MemoryOK'
    BY <1>14, EmptyTypes DEF Exit, LoseMemory, MemoryOK, Control
  <2>3. DataOK'
    BY <1>14 DEF Exit, LoseMemory, DataOK
  <2>4. IndexOK'
    BY <1>14, EmptyTypes DEF Exit, LoseMemory, IndexOK
  <2>5. HistoryOK'
    BY <1>14, <2>1 DEF Exit, LoseMemory, HistoryOK
  <2>6. FlushInv'
    BY <1>14, EmptyTypes DEF Exit, LoseMemory, FlushInv, Flushing, HistoryOK
  <2> QED
    BY <2>2, <2>3, <2>4, <2>5, <2>6
<1>15. CASE Kill
  <2>1. Range(buffer) \subseteq Point /\ Pending \subseteq Point
    BY LenProperties DEF MemoryOK, Range, Pending
  <2>2. MemoryOK'
    BY <1>15, EmptyTypes DEF Kill, LoseMemory, MemoryOK, Control
  <2>3. DataOK'
    BY <1>15 DEF Kill, LoseMemory, DataOK
  <2>4. IndexOK'
    BY <1>15, EmptyTypes DEF Kill, LoseMemory, IndexOK
  <2>5. HistoryOK'
    BY <1>15, <2>1 DEF Kill, LoseMemory, HistoryOK
  <2>6. FlushInv'
    BY <1>15, EmptyTypes DEF Kill, LoseMemory, FlushInv, Flushing, HistoryOK
  <2> QED
    BY <2>2, <2>3, <2>4, <2>5, <2>6
<1>16. CASE PowerLoss
  <2>1. Range(buffer) \subseteq Point /\ Pending \subseteq Point
    BY LenProperties DEF MemoryOK, Range, Pending
  <2>2. OnDisk \subseteq Point
    <3>1. ASSUME NEW b \in blocks PROVE Range(b.pts) \subseteq Point
      BY LenProperties DEF DataOK, Block, Range
    <3> QED
      BY <3>1 DEF OnDisk, PointsOf
  <2>3. idx' \in Seq(IndexEntry) /\ idxSynced' = Len(idx')
    <3>1. PICK n \in idxSynced .. Len(idx) :
             /\ \/ idx' = SubSeq(idx, 1, n)
                \/ n < Len(idx) /\ idx' = Append(SubSeq(idx, 1, n), Torn(idx[n + 1]))
             /\ idxSynced' = Len(idx')
      BY <1>16 DEF PowerLoss
    <3>2. n \in 0 .. Len(idx) /\ Len(idx) \in Nat
      BY LenProperties DEF IndexOK
    <3>3. \A i \in 1 .. Len(idx) : idx[i] \in IndexEntry
      BY LenProperties DEF IndexOK
    <3>4. SubSeq(idx, 1, n) \in Seq(IndexEntry)
      BY <3>2, <3>3, SubSeqProperties
    <3>5. \A e \in IndexEntry : Torn(e) \in IndexEntry
      BY DEF Torn, IndexEntry
    <3>6. n < Len(idx) => Torn(idx[n + 1]) \in IndexEntry
      BY <3>2, <3>3, <3>5
    <3>7. CASE idx' = SubSeq(idx, 1, n)
      BY <3>1, <3>4, <3>7
    <3>8. CASE n < Len(idx) /\ idx' = Append(SubSeq(idx, 1, n), Torn(idx[n + 1]))
      BY <3>1, <3>4, <3>6, <3>8, AppendProperties
    <3> QED
      BY <3>1, <3>7, <3>8
  <2>4. lost' \subseteq Point
    BY <1>16, <2>1, <2>2, <1>16 DEF PowerLoss, HistoryOK
  <2>5. fileSize' \in Nat /\ synced' = fileSize' /\ blocks' \subseteq blocks
    BY <1>16 DEF PowerLoss, DataOK
  <2>6. MemoryOK'
    BY <1>16, EmptyTypes DEF PowerLoss, LoseMemory, MemoryOK, Control
  <2>7. DataOK'
    BY <1>16, <2>5 DEF PowerLoss, LoseMemory, DataOK
  <2>8. IndexOK'
    BY <1>16, EmptyTypes, <2>3, LenProperties DEF PowerLoss, LoseMemory, IndexOK
  <2>9. HistoryOK'
    BY <1>16, <2>4 DEF PowerLoss, LoseMemory, HistoryOK
  <2>10. FlushInv'
    BY <1>16, EmptyTypes DEF PowerLoss, LoseMemory, FlushInv, Flushing, HistoryOK
  <2> QED
    BY <2>6, <2>7, <2>8, <2>9, <2>10
<1>17. CASE NewDayWriter
  <2>1. MemoryOK'
    BY <1>17 DEF NewDayWriter, MemoryOK, Control
  <2>2. DataOK'
    BY <1>17 DEF NewDayWriter, DataOK
  <2>3. IndexOK'
    BY <1>17 DEF NewDayWriter, IndexOK
  <2>4. HistoryOK'
    BY <1>17, BoundAssumption DEF NewDayWriter, HistoryOK
  <2>5. FlushInv'
    BY <1>17 DEF NewDayWriter, FlushInv, Flushing
  <2> QED
    BY <2>1, <2>2, <2>3, <2>4, <2>5
<1>18. CASE UNCHANGED vars
  BY <1>18 DEF vars, MemoryOK, DataOK, IndexOK, HistoryOK, FlushInv
<1> QED
  BY <1>1, <1>2, <1>3, <1>4, <1>5, <1>6, <1>7, <1>8, <1>9, <1>10, <1>11, <1>12, <1>13,
     <1>14, <1>15, <1>16, <1>17, <1>18 DEF Next, FlushLoop, Flush

\* The inductive form of TypeOK.
LEMMA TypedSpec == Spec => [](TypeOK /\ FlushInv)
BY InitType, NextType, PTL DEF Spec

\* Positions, sizes and history stay in their types and inside the files, for
\* every size of block and every set of faults.
THEOREM TypeCorrect == Spec => []TypeOK
BY TypedSpec, PTL

-----------------------------------------------------------------------------
(* Where the points are. *)

\* WriteBatch adds to the buffer exactly the points it accepts.
LEMMA AcceptedPoints ==
    ASSUME TypeOK, NEW k \in 1 .. MaxBatch, WriteBatch(k)
    PROVE  /\ Range(buffer') = Range(buffer) \union ((accepted + 1) .. (accepted + k))
           /\ accepted' = accepted + k /\ accepted \in Nat /\ k \in Nat
           /\ Pending' = Pending /\ UNCHANGED <<blocks, lost, synced>>
<1>1. /\ accepted \in Nat /\ k \in Nat /\ accepted + k <= MaxPoints
      /\ buffer \in Seq(Point)
  BY BoundAssumption DEF WriteBatch, TypeOK, MemoryOK, HistoryOK
<1>2. Range(buffer') = Range(buffer) \union ((accepted + 1) .. (accepted + k))
  BY <1>1, BufferAppend DEF WriteBatch
<1> QED
  BY <1>1, <1>2 DEF WriteBatch, Pending, data

\* Steps after which every point is where it was.
Idle ==
    \/ SelectFlush \/ SelectTick \/ SelectClose \/ SyncData \/ WriteIndex \/ Advance
    \/ Sync \/ Close \/ CloseFiles \/ NewDayWriter \/ UNCHANGED vars

LEMMA IdleStep ==
    ASSUME Idle
    PROVE  Pending' = Pending /\ UNCHANGED <<buffer, blocks, lost, accepted>>
<1> USE DEF memory, data, index, history, Pending
<1>1. CASE SelectFlush  BY <1>1 DEF SelectFlush
<1>2. CASE SelectTick   BY <1>2 DEF SelectTick
<1>3. CASE SelectClose  BY <1>3 DEF SelectClose
<1>4. CASE SyncData     BY <1>4 DEF SyncData
<1>5. CASE WriteIndex   BY <1>5 DEF WriteIndex
<1>6. CASE Advance      BY <1>6 DEF Advance, Return
<1>7. CASE Sync         BY <1>7 DEF Sync
<1>8. CASE Close        BY <1>8 DEF Close
<1>9. CASE CloseFiles   BY <1>9 DEF CloseFiles
<1>10. CASE NewDayWriter BY <1>10 DEF NewDayWriter
<1>11. CASE UNCHANGED vars BY <1>11 DEF vars
<1> QED
  BY <1>1, <1>2, <1>3, <1>4, <1>5, <1>6, <1>7, <1>8, <1>9, <1>10, <1>11 DEF Idle

\* flush empties the buffer into the block it is about to write, or finds it empty.
LEMMA TakeStep ==
    ASSUME TakeBuffer
    PROVE  /\ Pending = {} /\ UNCHANGED <<blocks, lost, accepted, synced>>
           /\ \/ Range(buffer') = Range(buffer) /\ Pending' = {}
              \/ Range(buffer') = {} /\ Pending' = Range(buffer)
BY RangeEmpty DEF TakeBuffer, Return, Pending, data, history

\* The block written holds the points taken from the buffer.
LEMMA WriteStep ==
    ASSUME WriteData
    PROVE  /\ OnDisk' = OnDisk \union Pending /\ Pending' = {}
           /\ UNCHANGED <<buffer, lost, accepted, synced>>
<1> DEFINE new == [at |-> fileSize, len |-> BlockLen(Len(points)), pts |-> points]
<1>1. blocks' = blocks \union {new}
  BY DEF WriteData
<1>2. new.pts = points
  OBVIOUS
<1> HIDE DEF new
<1>3. PointsOf(blocks \union {new}) = PointsOf(blocks) \union Range(new.pts)
  BY PointsOfNewBlock
<1>4. OnDisk' = OnDisk \union Range(points)
  BY <1>1, <1>2, <1>3 DEF OnDisk
<1> QED
  BY <1>4 DEF WriteData, Pending, history

\* A failed write loses them.
LEMMA WriteFailStep ==
    ASSUME WriteDataFail
    PROVE  /\ lost' = lost \union Pending /\ Pending' = {}
           /\ UNCHANGED <<buffer, blocks, accepted, synced>>
BY DEF WriteDataFail, Return, Pending

\* The end of a process loses what it held in memory, and a power loss the
\* blocks that did not survive it as well.
LEMMA DeathStep ==
    ASSUME Exit \/ Kill \/ PowerLoss
    PROVE  /\ Range(buffer') = {} /\ Pending' = {} /\ UNCHANGED accepted
           /\ OnDisk' \subseteq OnDisk
           /\ lost' = lost \union Range(buffer) \union Pending \union (OnDisk \ OnDisk')
<1>1. Range(buffer') = {} /\ Pending' = {} /\ UNCHANGED accepted
  BY RangeEmpty DEF Exit, Kill, PowerLoss, LoseMemory, Pending
<1>2. CASE Exit
  <2>1. Pending = {} /\ OnDisk' = OnDisk
    BY <1>2 DEF Exit, Pending, OnDisk, data
  <2> QED
    BY <1>1, <1>2, <2>1 DEF Exit
<1>3. CASE Kill
  <2>1. OnDisk' = OnDisk
    BY <1>3 DEF Kill, OnDisk, data
  <2> QED
    BY <1>1, <1>3, <2>1 DEF Kill
<1>4. CASE PowerLoss
  <2>1. blocks' \subseteq blocks
    BY <1>4 DEF PowerLoss
  <2>2. OnDisk' \subseteq OnDisk
    BY <2>1 DEF OnDisk, PointsOf
  <2>3. lost' = lost \union Range(buffer) \union Pending \union (OnDisk \ PointsOf(blocks'))
    BY <1>4 DEF PowerLoss
  <2> QED
    BY <1>1, <2>2, <2>3 DEF OnDisk
<1> QED
  BY <1>2, <1>3, <1>4

\* Init puts no point anywhere, and every step keeps each point in one place.
LEMMA ConservationInductive ==
    /\ Init => Conservation
    /\ TypeOK /\ Conservation /\ [Next]_vars => Conservation'
<1>1. Init => Conservation
  BY RangeEmpty DEF Init, Conservation, Pending, OnDisk, PointsOf
<1>2. ASSUME TypeOK, Conservation, [Next]_vars PROVE Conservation'
  <2>1. ASSUME NEW k \in 1 .. MaxBatch, WriteBatch(k) PROVE Conservation'
    <3>1. OnDisk' = OnDisk
      BY <2>1, <1>2, AcceptedPoints DEF OnDisk
    <3> DEFINE new == (accepted + 1) .. (accepted + k)
    <3>2. 1 .. accepted' = (1 .. accepted) \union new /\ (1 .. accepted) \intersect new = {}
      BY <2>1, <1>2, AcceptedPoints
    <3>3. Range(buffer') = Range(buffer) \union new /\ Pending' = Pending /\ lost' = lost
      BY <2>1, <1>2, AcceptedPoints
    <3> HIDE DEF new
    <3> QED
      BY <1>2, <3>1, <3>2, <3>3 DEF Conservation
  <2>2. CASE Idle
    BY <1>2, <2>2, IdleStep DEF Conservation, OnDisk
  <2>3. CASE TakeBuffer
    BY <1>2, <2>3, TakeStep DEF Conservation, OnDisk
  <2>4. CASE WriteData
    BY <1>2, <2>4, WriteStep DEF Conservation
  <2>5. CASE WriteDataFail
    BY <1>2, <2>5, WriteFailStep DEF Conservation, OnDisk
  <2>6. CASE Exit \/ Kill \/ PowerLoss
    BY <1>2, <2>6, DeathStep DEF Conservation
  <2> QED
    BY <1>2, <2>1, <2>2, <2>3, <2>4, <2>5, <2>6 DEF Next, FlushLoop, Flush, Idle
<1> QED
  BY <1>1, <1>2

\* No interleaving of WriteBatch, flush, Close, failures, crashes and restarts
\* makes the writer forget a point or keep it twice.
THEOREM PointsConserved == Spec => []Conservation
BY ConservationInductive, TypedSpec, PTL DEF Spec

-----------------------------------------------------------------------------
(* The order of the points. *)

\* New points are later than all others, and a block goes to the end of the file.
LEMMA BetweenInductive ==
    /\ Init => BetweenBlocks
    /\ TypeOK /\ Conservation /\ BetweenBlocks /\ [Next]_vars => BetweenBlocks'
<1>1. Init => BetweenBlocks
  BY RangeEmpty DEF Init, BetweenBlocks, Pending, OnDisk, PointsOf
<1>2. ASSUME TypeOK, Conservation, BetweenBlocks, [Next]_vars PROVE BetweenBlocks'
  <2>1. ASSUME NEW k \in 1 .. MaxBatch, WriteBatch(k) PROVE BetweenBlocks'
    <3>1. OnDisk' = OnDisk /\ blocks' = blocks
      BY <2>1, <1>2, AcceptedPoints DEF OnDisk
    <3>2. /\ Range(buffer') = Range(buffer) \union ((accepted + 1) .. (accepted + k))
          /\ Pending' = Pending /\ accepted \in Nat /\ k \in Nat
      BY <2>1, <1>2, AcceptedPoints
    <3>3. OnDisk \union Pending \subseteq 1 .. accepted
      BY <1>2 DEF Conservation
    <3>4. \A p \in 1 .. accepted, q \in (accepted + 1) .. (accepted + k) : p < q
      BY <3>2
    <3> QED
      BY <1>2, <3>1, <3>2, <3>3, <3>4 DEF BetweenBlocks
  <2>2. CASE Idle
    BY <1>2, <2>2, IdleStep DEF BetweenBlocks, OnDisk
  <2>3. CASE TakeBuffer
    BY <1>2, <2>3, TakeStep DEF BetweenBlocks, OnDisk
  <2>4. CASE WriteData
    <3> DEFINE new == [at |-> fileSize, len |-> BlockLen(Len(points)), pts |-> points]
    <3>1. blocks' = blocks \union {new} /\ Pending = Range(new.pts) /\ new.at = fileSize
      BY <2>4 DEF WriteData, Pending
    <3>2. OnDisk' = OnDisk \union Pending /\ Pending' = {} /\ buffer' = buffer
      BY <2>4, WriteStep
    <3> HIDE DEF new
    <3>3. \A b \in blocks : b.at + b.len <= new.at /\ ~(new.at < b.at)
      BY <1>2, <3>1 DEF TypeOK, DataOK, Block
    <3>4. \A b \in blocks : Range(b.pts) \subseteq OnDisk
      BY DEF OnDisk, PointsOf
    <3>5. \A b \in blocks : \A p \in Range(b.pts), q \in Range(new.pts) : p < q
      BY <1>2, <3>1, <3>4 DEF BetweenBlocks
    <3>6. ~(new.at < new.at)
      BY <1>2, <3>1 DEF TypeOK, DataOK
    <3>7. \A b, c \in blocks' :
             b.at < c.at => /\ b.at + b.len <= c.at
                            /\ \A p \in Range(b.pts), q \in Range(c.pts) : p < q
      BY <1>2, <3>1, <3>3, <3>5, <3>6 DEF BetweenBlocks
    <3> QED
      BY <1>2, <3>2, <3>7 DEF BetweenBlocks
  <2>5. CASE WriteDataFail
    BY <1>2, <2>5, WriteFailStep DEF BetweenBlocks, OnDisk
  <2>6. CASE Exit \/ Kill \/ PowerLoss
    <3>1. blocks' \subseteq blocks
      BY <2>6 DEF Exit, Kill, PowerLoss, data
    <3> QED
      BY <1>2, <2>6, <3>1, DeathStep DEF BetweenBlocks
  <2> QED
    BY <1>2, <2>1, <2>2, <2>3, <2>4, <2>5, <2>6 DEF Next, FlushLoop, Flush, Idle
<1> QED
  BY <1>1, <1>2

\* WriteBatch adds later points at the end of the buffer.
LEMMA AppendOrdered ==
    ASSUME NEW s \in Seq(Point), NEW n \in Nat, NEW k \in Nat, n + k <= MaxPoints,
           Ordered(s), Range(s) \subseteq 1 .. n
    PROVE  Ordered(s \o [i \in 1 .. k |-> n + i])
<1> DEFINE t == s \o [i \in 1 .. k |-> n + i]
<1>1. /\ Len(s) \in Nat /\ DOMAIN s = 1 .. Len(s)
      /\ DOMAIN t = 1 .. Len(s) + k
      /\ \A x \in DOMAIN t : t[x] = IF x <= Len(s) THEN s[x] ELSE n + (x - Len(s))
  BY BufferElements
<1>2. \A x \in DOMAIN s : s[x] \in Nat /\ s[x] <= n
  <2>1. \A x \in DOMAIN s : s[x] \in Range(s)
    BY DEF Range
  <2>2. \A x \in DOMAIN s : s[x] \in 1 .. n
    BY <2>1
  <2> QED
    BY <2>2
<1> HIDE DEF t
<1>3. ASSUME NEW x \in DOMAIN t, NEW y \in DOMAIN t, x < y PROVE t[x] < t[y]
  <2>1. CASE y <= Len(s)
    BY <1>1, <1>3, <2>1 DEF Ordered
  <2>2. CASE x <= Len(s) /\ ~(y <= Len(s))
    <3>1. s[x] \in Nat /\ s[x] <= n
      BY <1>1, <1>2, <2>2
    <3> QED
      BY <1>1, <1>3, <2>2, <3>1
  <2>3. CASE ~(x <= Len(s))
    BY <1>1, <1>3, <2>3
  <2> QED
    BY <1>1, <1>3, <2>1, <2>2, <2>3
<1> QED
  BY <1>3 DEF Ordered, t

\* A block is the buffer as it was.
LEMMA InBlocksInductive ==
    /\ Init => InBlocks
    /\ TypeOK /\ Conservation /\ InBlocks /\ [Next]_vars => InBlocks'
<1>0. Ordered(<<>>)
  BY DEF Ordered
<1>1. Init => InBlocks
  BY <1>0 DEF Init, InBlocks
<1>2. ASSUME TypeOK, Conservation, InBlocks, [Next]_vars PROVE InBlocks'
  <2>1. ASSUME NEW k \in 1 .. MaxBatch, WriteBatch(k) PROVE InBlocks'
    <3>1. /\ accepted \in Nat /\ k \in Nat /\ accepted + k <= MaxPoints /\ buffer \in Seq(Point)
          /\ Range(buffer) \subseteq 1 .. accepted
      BY <1>2, <2>1, BoundAssumption DEF WriteBatch, TypeOK, MemoryOK, HistoryOK, Conservation
    <3>2. Ordered(buffer')
      BY <1>2, <2>1, <3>1, AppendOrdered DEF WriteBatch, InBlocks
    <3> QED
      BY <1>2, <2>1, <3>2 DEF WriteBatch, InBlocks, data
  <2>2. CASE Idle
    <3>1. UNCHANGED <<buffer, blocks>>
      BY <2>2, IdleStep
    <3>2. points' = points \/ points' = <<>>
      BY <2>2 DEF Idle, SelectFlush, SelectTick, SelectClose, SyncData, WriteIndex, Advance,
                  Sync, Close, CloseFiles, NewDayWriter, vars, memory
    <3> QED
      BY <1>0, <1>2, <3>1, <3>2 DEF InBlocks
  <2>3. CASE TakeBuffer
    BY <1>0, <1>2, <2>3 DEF TakeBuffer, InBlocks, data
  <2>4. CASE WriteData
    BY <1>2, <2>4 DEF WriteData, InBlocks
  <2>5. CASE WriteDataFail
    BY <1>0, <1>2, <2>5 DEF WriteDataFail, InBlocks
  <2>6. CASE Exit \/ Kill \/ PowerLoss
    BY <1>0, <1>2, <2>6 DEF Exit, Kill, PowerLoss, LoseMemory, InBlocks, data
  <2> QED
    BY <1>2, <2>1, <2>2, <2>3, <2>4, <2>5, <2>6 DEF Next, FlushLoop, Flush, Idle
<1> QED
  BY <1>1, <1>2

\* Blocks never overlap and hold the points in order of arrival.
THEOREM OrderKept == Spec => []DiskOrder
BY BetweenInductive, InBlocksInductive, PointsConserved, TypeCorrect, PTL DEF Spec, DiskOrder

-----------------------------------------------------------------------------
(* Close. *)

\* final is set by the closeChan case alone, and the flush after it empties the
\* buffer of everything accepted before Close.
FinalInv ==
    /\ final => closeChan /\ pc \notin {"select", "down"}
    /\ pc \in {"done", "closed"} => final
    /\ final /\ pc # "flush" => \A p \in Range(buffer) : p > closedAt

LEMMA FinalInductive ==
    /\ Init => FinalInv
    /\ TypeOK /\ FinalInv /\ [Next]_vars => FinalInv'
<1>1. Init => FinalInv
  BY DEF Init, FinalInv
<1>2. ASSUME TypeOK, FinalInv, [Next]_vars PROVE FinalInv'
  <2> USE DEF memory, data, index, history
  <2>1. ASSUME NEW k \in 1 .. MaxBatch, WriteBatch(k) PROVE FinalInv'
    <3>1. \A p \in Range(buffer') : p \in Range(buffer) \/ p > accepted
      BY <1>2, <2>1, AcceptedPoints
    <3>2. closedAt \in Nat /\ accepted \in Nat /\ closedAt <= accepted
      BY <1>2 DEF TypeOK, HistoryOK
    <3>3. Range(buffer') \subseteq Int
      <4>1. Range(buffer) \subseteq Point
        BY <1>2, LenProperties DEF TypeOK, MemoryOK, Range
      <4>2. Point \subseteq Int
        BY BoundAssumption DEF Point
      <4>3. (accepted + 1) .. (accepted + k) \subseteq Int
        OBVIOUS
      <4>4. Range(buffer') = Range(buffer) \union ((accepted + 1) .. (accepted + k))
        BY <1>2, <2>1, AcceptedPoints
      <4> QED
        BY <4>1, <4>2, <4>3, <4>4
    <3>4. \A p \in Range(buffer') : p \in Range(buffer) \/ p > closedAt
      BY <3>1, <3>2, <3>3
    <3> QED
      BY <1>2, <2>1, <3>4 DEF FinalInv, WriteBatch
  <2>2. CASE SelectFlush  BY <1>2, <2>2 DEF SelectFlush, FinalInv
  <2>3. CASE SelectTick   BY <1>2, <2>3 DEF SelectTick, FinalInv
  <2>4. CASE SelectClose  BY <1>2, <2>4 DEF SelectClose, FinalInv
  <2>5. CASE TakeBuffer
    BY <1>2, <2>5, RangeEmpty DEF TakeBuffer, Return, FinalInv
  <2>6. CASE WriteData    BY <1>2, <2>6 DEF WriteData, FinalInv
  <2>7. CASE WriteDataFail BY <1>2, <2>7 DEF WriteDataFail, Return, FinalInv
  <2>8. CASE SyncData     BY <1>2, <2>8 DEF SyncData, FinalInv
  <2>9. CASE WriteIndex   BY <1>2, <2>9 DEF WriteIndex, FinalInv
  <2>10. CASE Advance     BY <1>2, <2>10 DEF Advance, Return, FinalInv
  <2>11. CASE Sync        BY <1>2, <2>11 DEF Sync, FinalInv
  <2>12. CASE Close       BY <1>2, <2>12 DEF Close, FinalInv
  <2>13. CASE CloseFiles  BY <1>2, <2>13 DEF CloseFiles, FinalInv
  <2>14. CASE Exit \/ Kill \/ PowerLoss
    BY <2>14 DEF Exit, Kill, PowerLoss, LoseMemory, FinalInv
  <2>15. CASE NewDayWriter BY <1>2, <2>15 DEF NewDayWriter, FinalInv
  <2>16. CASE UNCHANGED vars BY <1>2, <2>16 DEF vars, FinalInv
  <2> QED
    BY <1>2, <2>1, <2>2, <2>3, <2>4, <2>5, <2>6, <2>7, <2>8, <2>9, <2>10, <2>11, <2>12,
       <2>13, <2>14, <2>15, <2>16 DEF Next, FlushLoop, Flush
<1> QED
  BY <1>1, <1>2

\* Whatever the select takes first, Close leaves no earlier point in the buffer.
THEOREM CloseIsComplete == Spec => []CloseFlushesAll
<1>1. FinalInv => CloseFlushesAll
  BY DEF FinalInv, CloseFlushesAll
<1> QED
  BY <1>1, FinalInductive, TypeCorrect, PTL DEF Spec

\* Without failures, a point is lost only at Exit and only if it came after Close.
THEOREM LossNeedsFault == Spec => NoFaultNoLoss
<1> DEFINE A == faulted' = {} => \A p \in lost' \ lost : pc = "closed" /\ p > closedAt
<1>1. FinalInv /\ [Next]_vars => [A]_vars
  <2> SUFFICES ASSUME FinalInv, Next PROVE A
    OBVIOUS
  <2> USE DEF memory, data, index, history
  <2>1. ASSUME NEW k \in 1 .. MaxBatch, WriteBatch(k) PROVE A
    BY <2>1 DEF WriteBatch
  <2>2. CASE Idle
    BY <2>2, IdleStep
  <2>3. CASE TakeBuffer \/ WriteData
    BY <2>3 DEF TakeBuffer, WriteData
  <2>4. CASE WriteDataFail \/ Kill \/ PowerLoss
    BY <2>4 DEF WriteDataFail, Kill, PowerLoss
  <2>5. CASE Exit
    BY <2>5 DEF Exit, FinalInv
  <2> QED
    BY <2>1, <2>2, <2>3, <2>4, <2>5 DEF Next, FlushLoop, Flush, Idle
<1> QED
  BY <1>1, FinalInductive, TypeCorrect, PTL DEF Spec, NoFaultNoLoss

-----------------------------------------------------------------------------
(* What is durable stays durable. *)

LEMMA DurableStep ==
    ASSUME TypeOK, FlushInv, [Next]_vars
    PROVE  DurableBlocks \subseteq DurableBlocks'
<1> USE DEF memory, data, index, history
<1>0. /\ fileSize \in Nat /\ synced \in Nat /\ synced <= fileSize
      /\ \A b \in blocks : b.at \in Nat /\ b.len \in Nat
  BY DEF TypeOK, DataOK, Block
<1>1. CASE blocks \subseteq blocks' /\ synced' \in Nat /\ synced <= synced'
  BY <1>0, <1>1 DEF DurableBlocks
<1>2. ASSUME NEW k \in 1 .. MaxBatch, WriteBatch(k)
      PROVE  blocks \subseteq blocks' /\ synced' = synced
  BY <1>2 DEF WriteBatch
<1>3. CASE SelectFlush \/ SelectTick \/ SelectClose \/ TakeBuffer \/ WriteData
              \/ WriteDataFail \/ WriteIndex \/ Advance \/ Close \/ Exit \/ Kill
              \/ NewDayWriter \/ UNCHANGED vars
  <2>1. blocks \subseteq blocks' /\ synced' = synced
    BY <1>3 DEF SelectFlush, SelectTick, SelectClose, TakeBuffer, WriteData, WriteDataFail,
                WriteIndex, Advance, Close, Exit, Kill, NewDayWriter, vars
  <2> QED
    BY <2>1, <1>0, <1>1
<1>4. CASE SyncData \/ Sync \/ CloseFiles
  <2>1. blocks' = blocks /\ synced' \in {synced, fileSize}
    BY <1>4 DEF SyncData, Sync, CloseFiles
  <2> QED
    BY <2>1, <1>0, <1>1
<1>5. CASE PowerLoss
  <2>1. PICK c \in synced .. fileSize :
           synced' = c /\ blocks' = {b \in blocks : b.at + b.len <= c}
    BY <1>5 DEF PowerLoss
  <2> QED
    BY <2>1, <1>0 DEF DurableBlocks
<1> QED
  BY <1>0, <1>1, <1>2, <1>3, <1>4, <1>5 DEF Next, FlushLoop, Flush

\* A block covered by an fsync survives every flush, crash and restart.
THEOREM DurableKept == Spec => DurableForever
<1>1. TypeOK /\ FlushInv /\ [Next]_vars => [DurableBlocks \subseteq DurableBlocks']_vars
  BY DurableStep
<1> QED
  BY <1>1, TypedSpec, PTL DEF Spec, DurableForever

-----------------------------------------------------------------------------
(* The index.  With neither a torn write nor a failed fsync of the data the  *)
(* append position is the end of the file, and the entry of a block is       *)
(* written when the block is durable.                                        *)

Clean == faulted \intersect {"torn", "sync"} = {}

EntriesInv == \A i \in DOMAIN idx : idx[i].ok => \E b \in DurableBlocks : Describes(idx[i], b)

OffsetInv ==
    /\ pc \in {"select", "flush", "write", "done", "closed"} => currentOffset = fileSize
    /\ pc \in {"sync", "index", "advance"} =>
          \E b \in blocks : /\ b.at = currentOffset /\ b.len = BlockLen(Len(points))
                            /\ b.pts = points /\ b.at + b.len = fileSize
    /\ pc = "index" => synced = fileSize

LEMMA OffsetInductive ==
    /\ Init => OffsetInv
    /\ TypeOK /\ FlushInv /\ (Clean => OffsetInv) /\ [Next]_vars => (Clean' => OffsetInv')
<1>1. Init => OffsetInv
  BY DEF Init, OffsetInv
<1>2. ASSUME TypeOK, FlushInv, Clean => OffsetInv, [Next]_vars, Clean' PROVE OffsetInv'
  <2> USE DEF memory, data, index, history
  <2>1. ASSUME NEW k \in 1 .. MaxBatch, WriteBatch(k) PROVE OffsetInv'
    BY <1>2, <2>1 DEF WriteBatch, Clean, OffsetInv
  <2>2. CASE SelectFlush \/ SelectTick \/ SelectClose
    BY <1>2, <2>2 DEF SelectFlush, SelectTick, SelectClose, Clean, OffsetInv
  <2>3. CASE TakeBuffer
    BY <1>2, <2>3 DEF TakeBuffer, Return, Clean, OffsetInv
  <2>4. CASE WriteData
    <3> DEFINE new == [at |-> fileSize, len |-> BlockLen(Len(points)), pts |-> points]
    <3>1. /\ new \in blocks' /\ points' = points /\ pc' = "sync"
          /\ fileSize' = fileSize + BlockLen(Len(points))
      BY <2>4 DEF WriteData
    <3>2. currentOffset' = fileSize
      BY <1>2, <2>4 DEF WriteData, Clean, OffsetInv
    <3>3. new.at = currentOffset' /\ new.len = BlockLen(Len(points')) /\ new.pts = points'
          /\ new.at + new.len = fileSize'
      BY <3>1, <3>2
    <3> HIDE DEF new
    <3> QED
      BY <3>1, <3>3 DEF OffsetInv
  <2>5. CASE WriteDataFail
    BY <1>2, <2>5 DEF WriteDataFail, Return, Clean, OffsetInv
  <2>6. CASE SyncData
    BY <1>2, <2>6 DEF SyncData, Clean, OffsetInv
  <2>7. CASE WriteIndex
    BY <1>2, <2>7 DEF WriteIndex, Clean, OffsetInv
  <2>8. CASE Advance
    <3>1. currentOffset + BlockLen(Len(points)) = fileSize
      BY <1>2, <2>8 DEF Advance, Clean, OffsetInv
    <3> QED
      BY <2>8, <3>1 DEF Advance, Return, OffsetInv
  <2>9. CASE Sync
    BY <1>2, <2>9 DEF Sync, Clean, OffsetInv
  <2>10. CASE Close
    BY <1>2, <2>10 DEF Close, Clean, OffsetInv
  <2>11. CASE CloseFiles
    BY <1>2, <2>11 DEF CloseFiles, Clean, OffsetInv
  <2>12. CASE Exit \/ Kill \/ PowerLoss
    BY <2>12 DEF Exit, Kill, PowerLoss, LoseMemory, OffsetInv
  <2>13. CASE NewDayWriter
    BY <2>13 DEF NewDayWriter, OffsetInv
  <2>14. CASE UNCHANGED vars
    BY <1>2, <2>14 DEF vars, Clean, OffsetInv
  <2> QED
    BY <1>2, <2>1, <2>2, <2>3, <2>4, <2>5, <2>6, <2>7, <2>8, <2>9, <2>10, <2>11, <2>12,
       <2>13, <2>14 DEF Next, FlushLoop, Flush
<1> QED
  BY <1>1, <1>2

\* The index file after a power loss: a prefix of the old one, perhaps with a
\* torn entry at its end.
LEMMA IndexAfterPowerLoss ==
    ASSUME TypeOK, PowerLoss
    PROVE  \A i \in DOMAIN idx' : idx'[i].ok => i \in DOMAIN idx /\ idx'[i] = idx[i]
<1>1. PICK n \in idxSynced .. Len(idx) :
         \/ idx' = SubSeq(idx, 1, n)
         \/ n < Len(idx) /\ idx' = Append(SubSeq(idx, 1, n), Torn(idx[n + 1]))
  BY DEF PowerLoss
<1>2. /\ n \in 0 .. Len(idx) /\ Len(idx) \in Nat /\ DOMAIN idx = 1 .. Len(idx)
      /\ \A i \in 1 .. Len(idx) : idx[i] \in IndexEntry
  BY LenProperties DEF TypeOK, IndexOK
<1> DEFINE s == SubSeq(idx, 1, n)
<1>3. s \in Seq(IndexEntry) /\ Len(s) = n /\ \A i \in 1 .. n : s[i] = idx[i]
  <2>1. /\ s \in Seq(IndexEntry)
        /\ Len(s) = IF 1 <= n THEN n - 1 + 1 ELSE 0
        /\ \A i \in 1 .. n - 1 + 1 : s[i] = idx[1 + i - 1]
    BY <1>2, SubSeqProperties
  <2> QED
    BY <2>1, <1>2
<1>4. DOMAIN s = 1 .. n
  BY <1>3, LenProperties
<1> HIDE DEF s
<1>5. CASE idx' = s
  BY <1>2, <1>3, <1>4, <1>5
<1>6. CASE n < Len(idx) /\ idx' = Append(s, Torn(idx[n + 1]))
  <2> DEFINE e == Torn(idx[n + 1])
  <2>1. \A x \in IndexEntry : Torn(x) \in IndexEntry /\ ~Torn(x).ok
    BY DEF Torn, IndexEntry
  <2>2. e \in IndexEntry /\ ~e.ok
    BY <1>2, <1>6, <2>1
  <2> HIDE DEF e
  <2>3. /\ Append(s, e) \in Seq(IndexEntry) /\ Len(Append(s, e)) = n + 1
        /\ \A i \in 1 .. n : Append(s, e)[i] = s[i]
        /\ Append(s, e)[n + 1] = e
    BY <1>3, <2>2, AppendProperties
  <2>4. DOMAIN Append(s, e) = 1 .. n + 1
    BY <2>3, LenProperties
  <2>5. idx' = Append(s, e)
    BY <1>6 DEF e
  <2> QED
    BY <1>2, <1>3, <2>2, <2>3, <2>4, <2>5
<1> QED
  BY <1>1, <1>5, <1>6 DEF s

LEMMA EntriesInductive ==
    /\ Init => EntriesInv
    /\ /\ TypeOK /\ FlushInv /\ (Clean => OffsetInv) /\ (Clean => EntriesInv) /\ [Next]_vars
       => (Clean' => EntriesInv')
<1>1. Init => EntriesInv
  BY DEF Init, EntriesInv
<1>2. ASSUME TypeOK, FlushInv, Clean => OffsetInv, Clean => EntriesInv, [Next]_vars, Clean'
      PROVE  EntriesInv'
  <2> USE DEF memory, data, index, history
  <2>1. Clean
    <3>1. faulted \subseteq faulted'
      BY <1>2 DEF Next, FlushLoop, Flush, WriteBatch, SelectFlush, SelectTick, SelectClose,
           TakeBuffer, WriteData, WriteDataFail, SyncData, WriteIndex, Advance, Sync, Close,
           CloseFiles, Exit, Kill, PowerLoss, NewDayWriter, vars
    <3> QED
      BY <1>2, <3>1 DEF Clean
  <2>2. DurableBlocks \subseteq DurableBlocks'
    BY <1>2, DurableStep
  <2>3. CASE \A i \in DOMAIN idx' : idx'[i].ok => i \in DOMAIN idx /\ idx'[i] = idx[i]
    BY <1>2, <2>1, <2>2, <2>3 DEF EntriesInv
  <2>4. CASE WriteIndex
    <3>1. PICK b \in blocks : /\ b.at = currentOffset /\ b.len = BlockLen(Len(points))
                              /\ b.pts = points /\ b.at + b.len = fileSize
      BY <1>2, <2>1, <2>4 DEF WriteIndex, OffsetInv
    <3>2. b \in DurableBlocks
      BY <1>2, <2>1, <2>4, <3>1 DEF WriteIndex, OffsetInv, DurableBlocks, TypeOK, DataOK
    <3>3. NewEntry \in IndexEntry /\ Torn(NewEntry) \in IndexEntry
      BY <1>2, <2>4, EntryType DEF WriteIndex, TypeOK
    <3>4. Describes(NewEntry, b)
      BY <3>1 DEF NewEntry, Describes
    <3>5. ~Torn(NewEntry).ok
      BY DEF Torn, NewEntry
    <3>6. idx \in Seq(IndexEntry) /\ Len(idx) \in Nat /\ DOMAIN idx = 1 .. Len(idx)
      BY <1>2, LenProperties DEF TypeOK, IndexOK
    <3>7. ASSUME NEW e \in IndexEntry, idx' = Append(idx, e), e.ok => Describes(e, b)
          PROVE  EntriesInv'
      <4>1. /\ idx' \in Seq(IndexEntry) /\ Len(idx') = Len(idx) + 1
            /\ \A i \in 1 .. Len(idx) : idx'[i] = idx[i]
            /\ idx'[Len(idx) + 1] = e
        BY <3>6, <3>7, AppendProperties
      <4>2. DOMAIN idx' = 1 .. Len(idx) + 1
        BY <4>1, LenProperties
      <4>3. ASSUME NEW i \in DOMAIN idx', idx'[i].ok
            PROVE  \E c \in DurableBlocks' : Describes(idx'[i], c)
        <5>1. CASE i \in 1 .. Len(idx)
          BY <1>2, <2>1, <2>2, <3>6, <4>1, <4>3, <5>1 DEF EntriesInv
        <5>2. CASE i = Len(idx) + 1
          BY <2>2, <3>2, <3>7, <4>1, <4>3, <5>2
        <5> QED
          BY <4>2, <3>6, <5>1, <5>2
      <4> QED
        BY <4>3 DEF EntriesInv, Describes
    <3>8. CASE idx' = idx
      BY <2>3, <3>8
    <3>9. idx' = idx \/ idx' = Append(idx, NewEntry) \/ idx' = Append(idx, Torn(NewEntry))
      BY <2>4 DEF WriteIndex
    <3> QED
      BY <3>3, <3>4, <3>5, <3>7, <3>8, <3>9
  <2>5. CASE PowerLoss
    BY <1>2, <2>3, <2>5, IndexAfterPowerLoss
  <2>6. CASE ~WriteIndex /\ ~PowerLoss
    <3>1. idx' = idx
      BY <1>2, <2>6 DEF Next, FlushLoop, Flush, WriteBatch, SelectFlush, SelectTick,
           SelectClose, TakeBuffer, WriteData, WriteDataFail, SyncData, Advance, Sync, Close,
           CloseFiles, Exit, Kill, NewDayWriter, vars
    <3> QED
      BY <2>3, <3>1
  <2> QED
    BY <2>4, <2>5, <2>6
<1> QED
  BY <1>1, <1>2

\* Crashes and failed writes never leave an index entry without its block.
THEOREM IndexIsSound == Spec => []IndexSound
<1>1. TypeOK /\ (Clean => EntriesInv) => IndexSound
  <2> SUFFICES ASSUME TypeOK, EntriesInv PROVE IndexInSync
    BY DEF Clean, IndexSound
  <2>1. DOMAIN idx = 1 .. Len(idx)
    BY LenProperties DEF TypeOK, IndexOK
  <2>2. \A i \in Readable : i \in DOMAIN idx /\ idx[i].ok
    BY <2>1 DEF Readable
  <2> QED
    BY <2>2 DEF EntriesInv, IndexInSync, DurableBlocks
<1> QED
  BY <1>1, EntriesInductive, OffsetInductive, TypedSpec, PTL DEF Spec

-----------------------------------------------------------------------------
(* Nothing is missing from the index.  Without failures every entry is       *)
(* whole, the list in memory is the end of the one in the file, and the only *)
(* block without an entry starts at the append position, where there is one  *)
(* block at most: the one being flushed.                                     *)

WholeEntries == \A i \in DOMAIN idx : idx[i].ok

SameTail ==
    /\ Len(indexes) <= Len(idx)
    /\ \A j \in 1 .. Len(indexes) : indexes[j] = idx[Len(idx) - Len(indexes) + j]

BlocksIndexed ==
    \A b \in blocks :
        \/ \E i \in DOMAIN idx : Describes(idx[i], b)
        \/ pc \in {"sync", "index"} /\ b.at = currentOffset

OneBlockThere ==
    /\ \A b \in blocks : b.len > 0
    /\ pc \in {"sync", "index"} =>
          \A b \in blocks : b.at = currentOffset => b.len = BlockLen(Len(points)) /\ b.pts = points

IndexInv == faulted = {} => WholeEntries /\ SameTail /\ BlocksIndexed /\ OneBlockThere

\* A step that touches neither list of entries nor the blocks, and leaves the
\* flush where it is, as far as the index can tell.
LEMMA IndexUntouched ==
    ASSUME IndexInv, faulted' = {} => faulted = {},
           UNCHANGED <<idx, indexes, blocks, currentOffset, points>>,
           pc \in {"sync", "index"} <=> pc' \in {"sync", "index"}
    PROVE  IndexInv'
BY DEF IndexInv, WholeEntries, SameTail, BlocksIndexed, OneBlockThere, Describes

\* A step outside the part of flush between its two writes needs no more than the
\* entries and the blocks to stay.
LEMMA IndexIdle ==
    ASSUME IndexInv, faulted' = {} => faulted = {}, UNCHANGED <<idx, indexes, blocks>>,
           pc \notin {"sync", "index"}, pc' \notin {"sync", "index"}
    PROVE  IndexInv'
BY DEF IndexInv, WholeEntries, SameTail, BlocksIndexed, OneBlockThere, Describes

\* A new process starts with an empty list, the end of any other.
LEMMA IndexRestart ==
    ASSUME TypeOK, IndexInv, faulted' = {} => faulted = {}, UNCHANGED <<idx, blocks>>,
           indexes' = <<>>, pc \notin {"sync", "index"}, pc' \notin {"sync", "index"}
    PROVE  IndexInv'
<1>1. Len(indexes') = 0 /\ Len(idx) \in Nat
  BY EmptyTypes, LenProperties DEF TypeOK, IndexOK
<1>2. SameTail'
  BY <1>1 DEF SameTail
<1> QED
  BY <1>2 DEF IndexInv, WholeEntries, BlocksIndexed, OneBlockThere, Describes

LEMMA IndexInductive ==
    /\ Init => IndexInv
    /\ TypeOK /\ FlushInv /\ (Clean => OffsetInv) /\ IndexInv /\ [Next]_vars => IndexInv'
<1>1. Init => IndexInv
  BY EmptyTypes DEF Init, IndexInv, WholeEntries, SameTail, BlocksIndexed, OneBlockThere
<1>2. ASSUME TypeOK, FlushInv, Clean => OffsetInv, IndexInv, [Next]_vars PROVE IndexInv'
  <2> USE DEF memory, data, index, history
  <2>1. faulted' = {} => faulted = {}
    BY <1>2 DEF Next, FlushLoop, Flush, WriteBatch, SelectFlush, SelectTick, SelectClose,
         TakeBuffer, WriteData, WriteDataFail, SyncData, WriteIndex, Advance, Sync, Close,
         CloseFiles, Exit, Kill, PowerLoss, NewDayWriter, vars
  <2>2. ASSUME NEW k \in 1 .. MaxBatch, WriteBatch(k) PROVE IndexInv'
    BY <1>2, <2>1, <2>2, IndexUntouched DEF WriteBatch
  <2>3. CASE SelectFlush \/ SelectTick \/ SelectClose \/ TakeBuffer \/ WriteDataFail \/ Advance
                \/ Sync \/ CloseFiles \/ NewDayWriter
    BY <1>2, <2>1, <2>3, IndexIdle
       DEF SelectFlush, SelectTick, SelectClose, TakeBuffer, WriteDataFail, Advance, Sync,
           CloseFiles, NewDayWriter, Return
  <2>4. CASE SyncData \/ Close \/ UNCHANGED vars
    BY <1>2, <2>1, <2>4, IndexUntouched DEF SyncData, Close, vars
  <2>5. CASE Exit
    BY <1>2, <2>1, <2>5, IndexRestart DEF Exit, LoseMemory
  <2>6. CASE Kill \/ PowerLoss
    BY <2>6 DEF Kill, PowerLoss, IndexInv
  <2>7. CASE WriteData
    <3> SUFFICES ASSUME faulted' = {}
                 PROVE  WholeEntries' /\ SameTail' /\ BlocksIndexed' /\ OneBlockThere'
      BY DEF IndexInv
    <3> DEFINE new == [at |-> fileSize, len |-> BlockLen(Len(points)), pts |-> points]
    <3>1. WholeEntries /\ SameTail /\ BlocksIndexed /\ OneBlockThere
      BY <1>2, <2>1 DEF IndexInv
    <3>2. BlockLen(Len(points)) \in Nat \ {0}
      BY <1>2, <2>7, BlockLenPositive DEF WriteData, FlushInv, Flushing
    <3>3. /\ currentOffset' = fileSize /\ blocks' = blocks \union {new}
          /\ UNCHANGED <<idx, indexes, points>> /\ pc = "write" /\ pc' = "sync"
      BY <1>2, <2>1, <2>7 DEF WriteData, Clean, OffsetInv
    <3>4. /\ new.at = currentOffset' /\ new.len = BlockLen(Len(points'))
          /\ new.pts = points' /\ new.len > 0
      BY <3>2, <3>3
    <3>5. \A b \in blocks : b.at # currentOffset' /\ b.len > 0
      BY <1>2, <3>1, <3>3 DEF TypeOK, DataOK, Block, OneBlockThere
    <3> HIDE DEF new
    <3>6. WholeEntries' /\ SameTail'
      BY <3>1, <3>3 DEF WholeEntries, SameTail
    <3>7. BlocksIndexed'
      BY <3>1, <3>3, <3>4 DEF BlocksIndexed, Describes
    <3>8. OneBlockThere'
      BY <3>3, <3>4, <3>5 DEF OneBlockThere
    <3> QED
      BY <3>6, <3>7, <3>8
  <2>8. CASE WriteIndex
    <3> SUFFICES ASSUME faulted' = {}
                 PROVE  WholeEntries' /\ SameTail' /\ BlocksIndexed' /\ OneBlockThere'
      BY DEF IndexInv
    <3> DEFINE e == NewEntry
    <3>1. WholeEntries /\ SameTail /\ BlocksIndexed /\ OneBlockThere
      BY <1>2, <2>1 DEF IndexInv
    <3>2. /\ pc = "index" /\ pc' = "advance" /\ UNCHANGED <<blocks, currentOffset, points>>
          /\ idx' = Append(idx, e) /\ indexes' = Append(indexes, e)
      BY <2>8 DEF WriteIndex
    <3>3. e \in IndexEntry /\ e.ok
      BY <1>2, <3>2, EntryType DEF TypeOK, NewEntry
    <3>4. e.off = currentOffset /\ e.len = BlockLen(Len(points)) /\ e.crc = points
      BY DEF NewEntry
    <3> HIDE DEF e
    <3>5. idx \in Seq(IndexEntry) /\ indexes \in Seq(IndexEntry)
      BY <1>2 DEF TypeOK, IndexOK
    <3>6. /\ idx' \in Seq(IndexEntry) /\ Len(idx') = Len(idx) + 1 /\ idx'[Len(idx) + 1] = e
          /\ \A i \in 1 .. Len(idx) : idx'[i] = idx[i]
      BY <3>2, <3>3, <3>5, AppendProperties
    <3>7. /\ indexes' \in Seq(IndexEntry) /\ Len(indexes') = Len(indexes) + 1
          /\ indexes'[Len(indexes) + 1] = e
          /\ \A i \in 1 .. Len(indexes) : indexes'[i] = indexes[i]
      BY <3>2, <3>3, <3>5, AppendProperties
    <3>8. /\ Len(idx) \in Nat /\ Len(indexes) \in Nat
          /\ DOMAIN idx = 1 .. Len(idx) /\ DOMAIN idx' = 1 .. Len(idx) + 1
      BY <3>5, <3>6, LenProperties
    <3>9. WholeEntries'
      BY <3>1, <3>3, <3>6, <3>8 DEF WholeEntries
    <3>10. SameTail'
      <4>1. Len(indexes) <= Len(idx)
        BY <3>1 DEF SameTail
      <4>2. ASSUME NEW j \in 1 .. Len(indexes) + 1
            PROVE  indexes'[j] = idx'[Len(idx) - Len(indexes) + j]
        <5>1. CASE j = Len(indexes) + 1
          <6>1. Len(idx) - Len(indexes) + j = Len(idx) + 1
            BY <3>8, <5>1
          <6> QED
            BY <3>6, <3>7, <5>1, <6>1
        <5>2. CASE j \in 1 .. Len(indexes)
          <6>1. Len(idx) - Len(indexes) + j \in 1 .. Len(idx)
            BY <3>8, <4>1, <5>2
          <6> QED
            BY <3>1, <3>6, <3>7, <5>2, <6>1 DEF SameTail
        <5> QED
          BY <3>8, <5>1, <5>2
      <4>3. Len(idx') - Len(indexes') = Len(idx) - Len(indexes)
        BY <3>6, <3>7, <3>8
      <4> QED
        BY <3>6, <3>7, <3>8, <4>1, <4>2, <4>3 DEF SameTail
    <3>11. BlocksIndexed'
      <4> SUFFICES ASSUME NEW b \in blocks PROVE \E i \in DOMAIN idx' : Describes(idx'[i], b)
        BY <3>2 DEF BlocksIndexed, Describes
      <4>1. CASE \E i \in DOMAIN idx : Describes(idx[i], b)
        BY <3>6, <3>8, <4>1
      <4>2. CASE b.at = currentOffset
        <5>1. Describes(e, b)
          BY <3>1, <3>2, <3>4, <4>2 DEF OneBlockThere, Describes
        <5> QED
          BY <3>6, <3>8, <5>1
      <4> QED
        BY <3>1, <4>1, <4>2 DEF BlocksIndexed
    <3>12. OneBlockThere'
      BY <3>1, <3>2 DEF OneBlockThere
    <3> QED
      BY <3>9, <3>10, <3>11, <3>12
  <2> QED
    BY <1>2, <2>2, <2>3, <2>4, <2>5, <2>6, <2>7, <2>8 DEF Next, FlushLoop, Flush
<1> QED
  BY <1>1, <1>2

(* What kills and power failures cost.  With no other fault than these and    *)
(* writes that fail before any byte, the blocks without an entry and the      *)
(* entries that no fsync has covered are, together, not more than the lives   *)
(* that have ended, and one more in the part of flush behind the write.       *)

Mild == faulted \subseteq {"write", "crash"}

AtRisk == Cardinality(Unindexed) + (Len(idx) - idxSynced)

Ended == opens - 1 + (IF pc \in {"sync", "index", "advance", "down"} THEN 1 ELSE 0)

SolidBlocks == IsFiniteSet(blocks) /\ \A b \in blocks : b.len > 0

RiskInv ==
    /\ SolidBlocks
    /\ pc \in {"sync", "index"} => \A i \in DOMAIN idx : idx[i].ok => idx[i].off # currentOffset
    /\ pc = "advance" => idxSynced < Len(idx)
    /\ AtRisk <= Ended

\* No more values than arguments.
LEMMA ImageBound ==
    ASSUME NEW k \in Nat, NEW T, NEW f \in [1 .. k -> T]
    PROVE  IsFiniteSet(Range(f)) /\ Cardinality(Range(f)) <= k
<1>1. f \in Surjection(1 .. k, Range(f))
  <2>1. f \in [1 .. k -> Range(f)]
    BY DEF Range
  <2> QED
    BY <2>1 DEF Surjection, Range
<1>2. ExistsSurjection(1 .. k, Range(f))
  BY <1>1 DEF ExistsSurjection
<1>3. IsFiniteSet(Range(f))
  BY <1>2, FS_NatSurjection
<1> QED
  BY <1>2, <1>3, FS_SurjCardinalityBound

\* The blocks without an entry are finitely many.
LEMMA RiskTypes ==
    ASSUME TypeOK, IsFiniteSet(blocks)
    PROVE  /\ IsFiniteSet(Unindexed) /\ Cardinality(Unindexed) \in Nat /\ Len(idx) \in Nat
           /\ idxSynced \in 0 .. Len(idx) /\ opens \in Nat \ {0} /\ DOMAIN idx = 1 .. Len(idx)
<1>1. Unindexed \in SUBSET blocks
  BY DEF Unindexed
<1>2. IsFiniteSet(Unindexed)
  BY <1>1, FS_Subset
<1>3. opens \in Nat \ {0}
  BY BoundAssumption DEF TypeOK, HistoryOK
<1> QED
  BY <1>2, <1>3, FS_CardinalityType, LenProperties DEF TypeOK, IndexOK

\* Nothing of the index file that was synced is lost, and no more blocks lose their
\* entry than there were entries behind that.
LEMMA CutKeeps ==
    ASSUME TypeOK, PowerLoss
    PROVE  \E n \in idxSynced .. Len(idx) :
              /\ \A i \in 1 .. n : i \in DOMAIN idx' /\ idx'[i] = idx[i]
              /\ idxSynced' = Len(idx')
<1>1. PICK n \in idxSynced .. Len(idx) :
         /\ \/ idx' = SubSeq(idx, 1, n)
            \/ n < Len(idx) /\ idx' = Append(SubSeq(idx, 1, n), Torn(idx[n + 1]))
         /\ idxSynced' = Len(idx')
  BY DEF PowerLoss
<1>2. /\ n \in 0 .. Len(idx) /\ Len(idx) \in Nat /\ DOMAIN idx = 1 .. Len(idx)
      /\ \A i \in 1 .. Len(idx) : idx[i] \in IndexEntry
  BY LenProperties DEF TypeOK, IndexOK
<1> DEFINE s == SubSeq(idx, 1, n)
<1>3. s \in Seq(IndexEntry) /\ Len(s) = n /\ \A i \in 1 .. n : s[i] = idx[i]
  <2>1. /\ s \in Seq(IndexEntry)
        /\ Len(s) = IF 1 <= n THEN n - 1 + 1 ELSE 0
        /\ \A i \in 1 .. n - 1 + 1 : s[i] = idx[1 + i - 1]
    BY <1>2, SubSeqProperties
  <2> QED
    BY <2>1, <1>2
<1>4. DOMAIN s = 1 .. n
  BY <1>3, LenProperties
<1> HIDE DEF s
<1>5. CASE idx' = s
  BY <1>1, <1>2, <1>3, <1>4, <1>5
<1>6. CASE n < Len(idx) /\ idx' = Append(s, Torn(idx[n + 1]))
  <2> DEFINE e == Torn(idx[n + 1])
  <2>1. \A x \in IndexEntry : Torn(x) \in IndexEntry
    BY DEF Torn, IndexEntry
  <2>2. e \in IndexEntry
    BY <1>2, <1>6, <2>1
  <2> HIDE DEF e
  <2>3. /\ Append(s, e) \in Seq(IndexEntry) /\ Len(Append(s, e)) = n + 1
        /\ \A i \in 1 .. n : Append(s, e)[i] = s[i]
    BY <1>3, <2>2, AppendProperties
  <2>4. DOMAIN Append(s, e) = 1 .. n + 1
    BY <2>3, LenProperties
  <2>5. idx' = Append(s, e)
    BY <1>6 DEF e
  <2> QED
    BY <1>1, <1>2, <1>3, <2>3, <2>4, <2>5
<1> QED
  BY <1>1, <1>5, <1>6 DEF s

\* A step that leaves the blocks and the entries as they are.
LEMMA SameUnindexed ==
    ASSUME UNCHANGED <<blocks, idx>>
    PROVE  Unindexed' = Unindexed
BY DEF Unindexed, Describes

\* Such a step does no harm unless it leaves the part of flush behind the write.
LEMMA RiskIdle ==
    ASSUME TypeOK, RiskInv, UNCHANGED <<blocks, idx>>, idxSynced' \in {idxSynced, Len(idx)},
           pc' \in {"sync", "index"} => pc = pc' \/ (pc = "sync" /\ pc' = "index"),
           pc' \in {"sync", "index"} => currentOffset' = currentOffset,
           pc' = "advance" => pc = "advance" /\ idxSynced' = idxSynced,
           opens' \in Int, Ended <= Ended'
    PROVE  RiskInv'
<1>1. AtRisk' <= AtRisk
  BY SameUnindexed, RiskTypes DEF AtRisk, RiskInv, SolidBlocks
<1>2. AtRisk \in Int /\ AtRisk' \in Int /\ Ended \in Int /\ Ended' \in Int
  <2>1. /\ Cardinality(Unindexed) \in Nat /\ Len(idx) \in Nat
        /\ idxSynced \in 0 .. Len(idx) /\ opens \in Nat \ {0}
    BY RiskTypes DEF RiskInv, SolidBlocks
  <2>2. Unindexed' = Unindexed
    BY SameUnindexed
  <2>3. AtRisk \in Int /\ AtRisk' \in Int
    BY <2>1, <2>2 DEF AtRisk
  <2>4. Ended \in Int /\ Ended' \in Int
    BY <2>1 DEF Ended
  <2> QED
    BY <2>3, <2>4
<1>3. AtRisk <= Ended
  BY DEF RiskInv
<1>4. AtRisk' <= Ended'
  BY <1>1, <1>2, <1>3
<1>5. pc' \in {"sync", "index"} => \A i \in DOMAIN idx' : idx'[i].ok => idx'[i].off # currentOffset'
  BY DEF RiskInv
<1>6. pc' = "advance" => idxSynced' < Len(idx')
  BY DEF RiskInv
<1> QED
  BY <1>4, <1>5, <1>6 DEF RiskInv, SolidBlocks

LEMMA RiskInductive ==
    /\ Init => RiskInv
    /\ /\ TypeOK /\ FlushInv /\ (Clean => OffsetInv) /\ (Clean => EntriesInv) /\ (Mild => RiskInv)
       /\ TypeOK' /\ [Next]_vars
       => (Mild' => RiskInv')
<1>1. Init => RiskInv
  <2> SUFFICES ASSUME Init PROVE RiskInv
    OBVIOUS
  <2>1. blocks = {} /\ Unindexed = {} /\ Len(idx) = 0 /\ idxSynced = 0 /\ opens = 1 /\ pc = "select"
    BY EmptyTypes DEF Init, Unindexed
  <2> QED
    BY <2>1, FS_EmptySet DEF RiskInv, SolidBlocks, AtRisk, Ended
<1>2. ASSUME TypeOK, FlushInv, Clean => OffsetInv, Clean => EntriesInv, Mild => RiskInv, TypeOK',
             [Next]_vars, Mild'
      PROVE  RiskInv'
  <2> USE DEF memory, data, index, history
  <2>1. Mild /\ Clean
    <3>1. faulted \subseteq faulted'
      BY <1>2 DEF Next, FlushLoop, Flush, WriteBatch, SelectFlush, SelectTick, SelectClose,
           TakeBuffer, WriteData, WriteDataFail, SyncData, WriteIndex, Advance, Sync, Close,
           CloseFiles, Exit, Kill, PowerLoss, NewDayWriter, vars
    <3> QED
      BY <1>2, <3>1 DEF Mild, Clean
  <2>2. RiskInv /\ OffsetInv /\ EntriesInv
    BY <1>2, <2>1
  <2>3. /\ IsFiniteSet(blocks) /\ IsFiniteSet(Unindexed) /\ Cardinality(Unindexed) \in Nat
        /\ Len(idx) \in Nat /\ idxSynced \in 0 .. Len(idx) /\ opens \in Nat \ {0}
        /\ DOMAIN idx = 1 .. Len(idx) /\ AtRisk <= Ended
        /\ opens' \in Nat \ {0} /\ Len(idx') \in Nat /\ DOMAIN idx' = 1 .. Len(idx')
    <3>1. opens' \in Nat \ {0} /\ Len(idx') \in Nat /\ DOMAIN idx' = 1 .. Len(idx')
      BY <1>2, BoundAssumption, LenProperties DEF TypeOK, HistoryOK, IndexOK
    <3> QED
      BY <1>2, <2>2, <3>1, RiskTypes DEF RiskInv, SolidBlocks
  <2>4. ASSUME NEW k \in 1 .. MaxBatch, WriteBatch(k) PROVE RiskInv'
    BY <1>2, <2>2, <2>3, <2>4, RiskIdle DEF WriteBatch, Ended
  <2>5. CASE SelectFlush \/ SelectTick \/ SelectClose \/ TakeBuffer \/ WriteDataFail
    <3>1. /\ UNCHANGED <<blocks, idx, idxSynced, opens, currentOffset>>
          /\ pc \notin {"sync", "index", "advance", "down"}
          /\ pc' \notin {"sync", "index", "advance", "down"}
      BY <2>5 DEF SelectFlush, SelectTick, SelectClose, TakeBuffer, WriteDataFail, Return
    <3> QED
      BY <1>2, <2>2, <2>3, <3>1, RiskIdle DEF Ended
  <2>6. CASE SyncData
    <3>1. /\ UNCHANGED <<blocks, idx, idxSynced, opens, currentOffset>>
          /\ pc = "sync" /\ pc' = "index"
      BY <2>6 DEF SyncData
    <3> QED
      BY <1>2, <2>2, <2>3, <3>1, RiskIdle DEF Ended
  <2>7. CASE Sync \/ CloseFiles
    <3>1. /\ UNCHANGED <<blocks, idx, opens, currentOffset>> /\ idxSynced' \in {idxSynced, Len(idx)}
          /\ pc \notin {"sync", "index", "advance", "down"}
          /\ pc' \notin {"sync", "index", "advance", "down"}
      BY <2>7 DEF Sync, CloseFiles
    <3> QED
      BY <1>2, <2>2, <2>3, <3>1, RiskIdle DEF Ended
  <2>8. CASE Close \/ UNCHANGED vars
    <3>1. UNCHANGED <<blocks, idx, idxSynced, opens, currentOffset, pc>>
      BY <2>8 DEF Close, vars
    <3> QED
      BY <1>2, <2>2, <2>3, <3>1, RiskIdle DEF Ended
  <2>9. CASE Exit \/ Kill
    <3>1. UNCHANGED <<blocks, idx, idxSynced, opens>> /\ pc' = "down"
      BY <2>9 DEF Exit, Kill, LoseMemory
    <3>2. Ended <= Ended'
      BY <2>3, <3>1 DEF Ended
    <3> QED
      BY <1>2, <2>2, <2>3, <3>1, <3>2, RiskIdle
  <2>10. CASE NewDayWriter
    <3>1. /\ UNCHANGED <<blocks, idx, idxSynced>> /\ opens' = opens + 1
          /\ pc = "down" /\ pc' = "select"
      BY <2>10 DEF NewDayWriter
    <3>2. Ended <= Ended'
      BY <2>3, <3>1 DEF Ended
    <3> QED
      BY <1>2, <2>2, <2>3, <3>1, <3>2, RiskIdle
  <2>11. CASE WriteData
    <3> DEFINE new == [at |-> fileSize, len |-> BlockLen(Len(points)), pts |-> points]
    <3>1. /\ blocks' = blocks \union {new} /\ UNCHANGED <<idx, idxSynced, opens, currentOffset>>
          /\ pc = "write" /\ pc' = "sync" /\ currentOffset = fileSize
      BY <2>2, <2>11 DEF WriteData, OffsetInv
    <3>2. new.len \in Nat \ {0}
      BY <1>2, <3>1, BlockLenPositive DEF FlushInv, Flushing
    <3>3. SolidBlocks'
      <4>1. \A b \in blocks \union {new} : b.len > 0
        <5>1. new.len > 0
          BY <3>2
        <5> HIDE DEF new
        <5> QED
          BY <2>2, <5>1 DEF RiskInv, SolidBlocks
      <4> HIDE DEF new
      <4>2. IsFiniteSet(blocks \union {new})
        BY <2>3, FS_AddElement
      <4> QED
        BY <3>1, <4>1, <4>2 DEF SolidBlocks
    <3>4. \A i \in DOMAIN idx : idx[i].ok => idx[i].off # currentOffset
      <4> SUFFICES ASSUME NEW i \in DOMAIN idx, idx[i].ok PROVE idx[i].off # currentOffset
        OBVIOUS
      <4>1. PICK b \in DurableBlocks : Describes(idx[i], b)
        BY <2>2 DEF EntriesInv
      <4>2. b \in blocks /\ b \in Block /\ b.at + b.len <= fileSize /\ b.len > 0
        BY <1>2, <2>2, <4>1 DEF DurableBlocks, TypeOK, DataOK, RiskInv, SolidBlocks
      <4>3. fileSize \in Nat /\ b.at \in Nat /\ b.len \in Nat
        BY <1>2, <4>2 DEF TypeOK, DataOK, Block
      <4> QED
        BY <3>1, <4>1, <4>2, <4>3 DEF Describes
    <3> HIDE DEF new
    <3>5. /\ IsFiniteSet(Unindexed') /\ Cardinality(Unindexed') \in Nat
          /\ Cardinality(Unindexed') <= Cardinality(Unindexed) + 1
      <4> DEFINE W == Unindexed \union {new}
      <4>1. Unindexed' \in SUBSET W
        BY <3>1 DEF Unindexed, Describes
      <4>2. IsFiniteSet(W) /\ Cardinality(W) <= Cardinality(Unindexed) + 1
        <5>1. /\ IsFiniteSet(W)
              /\ Cardinality(W) = Cardinality(Unindexed) \/ Cardinality(W) = Cardinality(Unindexed) + 1
          BY <2>3, FS_AddElement
        <5> HIDE DEF W
        <5> QED
          BY <2>3, <5>1
      <4> HIDE DEF W
      <4>3. /\ IsFiniteSet(Unindexed') /\ Cardinality(Unindexed') <= Cardinality(W)
            /\ Cardinality(Unindexed') \in Nat /\ Cardinality(W) \in Nat
        BY <4>1, <4>2, FS_Subset, FS_CardinalityType
      <4> QED
        BY <2>3, <4>2, <4>3
    <3>6. AtRisk' <= Ended'
      BY <2>3, <3>1, <3>5 DEF AtRisk, Ended
    <3> QED
      BY <3>1, <3>3, <3>4, <3>6 DEF RiskInv
  <2>12. CASE WriteIndex
    <3> DEFINE e == NewEntry
    <3>1. /\ pc = "index" /\ pc' = "advance" /\ UNCHANGED <<blocks, idxSynced, opens>>
          /\ idx' = Append(idx, e)
      BY <1>2, <2>12 DEF WriteIndex, Mild
    <3>2. e \in IndexEntry /\ e.ok
      BY <1>2, <3>1, EntryType DEF TypeOK, NewEntry
    <3>3. PICK b \in blocks : Describes(e, b) /\ b.at = currentOffset
      BY <2>2, <3>1 DEF OffsetInv, NewEntry, Describes
    <3> HIDE DEF e
    <3>4. /\ idx' \in Seq(IndexEntry) /\ Len(idx') = Len(idx) + 1 /\ idx'[Len(idx) + 1] = e
          /\ \A i \in 1 .. Len(idx) : idx'[i] = idx[i]
      BY <1>2, <3>1, <3>2, AppendProperties DEF TypeOK, IndexOK
    <3>5. b \in Unindexed
      BY <2>2, <3>1, <3>3 DEF Unindexed, RiskInv, Describes
    <3>6. Unindexed' \in SUBSET (Unindexed \ {b})
      <4>1. \A i \in DOMAIN idx : i \in DOMAIN idx' /\ idx'[i] = idx[i]
        BY <2>3, <3>4
      <4>2. Len(idx) + 1 \in DOMAIN idx'
        BY <2>3, <3>4
      <4>3. ~ (b \in Unindexed')
        BY <3>2, <3>3, <3>4, <4>2 DEF Unindexed, Describes
      <4>4. Unindexed' \subseteq Unindexed
        BY <3>1, <4>1 DEF Unindexed, Describes
      <4> QED
        BY <4>3, <4>4
    <3>7. /\ Cardinality(Unindexed') \in Nat
          /\ Cardinality(Unindexed') <= Cardinality(Unindexed) - 1
      <4> DEFINE W == Unindexed \ {b}
      <4>1. IsFiniteSet(W) /\ Cardinality(W) = Cardinality(Unindexed) - 1
        BY <2>3, <3>5, FS_RemoveElement
      <4> HIDE DEF W
      <4>2. Unindexed' \in SUBSET W
        BY <3>6 DEF W
      <4>3. Cardinality(Unindexed') <= Cardinality(W) /\ Cardinality(Unindexed') \in Nat
        BY <4>1, <4>2, FS_Subset, FS_CardinalityType
      <4> QED
        BY <4>1, <4>3
    <3>8. AtRisk' <= Ended'
      BY <2>3, <3>1, <3>4, <3>7 DEF AtRisk, Ended
    <3>9. idxSynced' < Len(idx')
      BY <2>3, <3>1, <3>4
    <3> QED
      BY <2>2, <3>1, <3>8, <3>9 DEF RiskInv, SolidBlocks
  <2>13. CASE Advance
    <3>1. /\ UNCHANGED <<blocks, idx, opens>> /\ idxSynced' = Len(idx)
          /\ pc = "advance" /\ pc' \in {"done", "select"}
      BY <1>2, <2>13 DEF Advance, Return, Mild
    <3>2. idxSynced < Len(idx)
      BY <2>2, <3>1 DEF RiskInv
    <3>3. Unindexed' = Unindexed
      BY <3>1, SameUnindexed
    <3>4. AtRisk' <= Ended'
      BY <2>3, <3>1, <3>2, <3>3 DEF AtRisk, Ended
    <3> QED
      BY <2>2, <3>1, <3>4 DEF RiskInv, SolidBlocks
  <2>14. CASE PowerLoss
    <3>1. PICK n \in idxSynced .. Len(idx) :
              /\ \A i \in 1 .. n : i \in DOMAIN idx' /\ idx'[i] = idx[i]
              /\ idxSynced' = Len(idx')
      BY <1>2, <2>14, CutKeeps
    <3>2. blocks' \in SUBSET blocks /\ pc' = "down" /\ opens' = opens
      BY <2>14 DEF PowerLoss, LoseMemory
    <3> DEFINE k == Len(idx) - n
               Described(i) == [at |-> idx[n + i].off, len |-> idx[n + i].len, pts |-> idx[n + i].crc]
               f == [i \in 1 .. k |-> Described(i)]
               W == Unindexed \union Range(f)
    <3>3. k \in Nat /\ n \in Nat
      BY <2>3
    <3>4. IsFiniteSet(Range(f)) /\ Cardinality(Range(f)) <= k
      <4>1. f \in [1 .. k -> {Described(i) : i \in 1 .. k}]
        OBVIOUS
      <4> HIDE DEF f
      <4> QED
        BY <3>3, <4>1, ImageBound
    <3>5. ASSUME NEW b \in Unindexed', b \notin Unindexed PROVE b \in Range(f)
      <4>1. b \in blocks /\ b \in Block
        BY <1>2, <3>2 DEF Unindexed, TypeOK, DataOK
      <4>2. PICK i \in DOMAIN idx : idx[i].ok /\ Describes(idx[i], b)
        BY <3>5, <4>1 DEF Unindexed
      <4>3. ~ (i \in 1 .. n)
        BY <3>1, <3>5, <4>2 DEF Unindexed, Describes
      <4>4. i - n \in 1 .. k /\ n + (i - n) = i
        BY <2>3, <3>3, <4>3
      <4>5. b = Described(i - n)
        BY <4>1, <4>2, <4>4 DEF Block, Describes
      <4> QED
        BY <4>4, <4>5 DEF Range
    <3>6. Unindexed' \in SUBSET W
      BY <3>5
    <3> HIDE DEF k, f
    <3>7. /\ Cardinality(Unindexed') \in Nat
          /\ Cardinality(Unindexed') <= Cardinality(Unindexed) + k
      <4>1. /\ IsFiniteSet(W) /\ Cardinality(Range(f)) \in Nat
            /\ Cardinality(Unindexed \intersect Range(f)) \in Nat
            /\ Cardinality(W) = Cardinality(Unindexed) + Cardinality(Range(f))
                                - Cardinality(Unindexed \intersect Range(f))
        <5>1. Unindexed \intersect Range(f) \in SUBSET Range(f)
          OBVIOUS
        <5>2. IsFiniteSet(Unindexed \intersect Range(f))
          BY <3>4, <5>1, FS_Subset
        <5> QED
          BY <2>3, <3>4, <5>2, FS_Union, FS_CardinalityType
      <4> HIDE DEF W
      <4>2. Cardinality(Unindexed') <= Cardinality(W) /\ Cardinality(Unindexed') \in Nat
        BY <3>6, <4>1, FS_Subset, FS_CardinalityType
      <4> QED
        BY <2>3, <3>3, <3>4, <4>1, <4>2
    <3>8. k <= Len(idx) - idxSynced
      BY <2>3 DEF k
    <3>9. Len(idx') - idxSynced' = 0
      BY <2>3, <3>1
    <3>10. AtRisk' <= Ended'
      <4>1. Ended <= opens /\ Ended' = opens /\ Ended \in Int
        BY <2>3, <3>2 DEF Ended
      <4>2. AtRisk' = Cardinality(Unindexed')
        BY <3>7, <3>9 DEF AtRisk
      <4>3. AtRisk = Cardinality(Unindexed) + (Len(idx) - idxSynced)
        BY DEF AtRisk
      <4>4. Cardinality(Unindexed') <= AtRisk
        BY <2>3, <3>3, <3>7, <3>8, <4>3
      <4>5. AtRisk <= Ended /\ Ended <= Ended' /\ Ended' \in Int
        BY <2>3, <4>1
      <4>6. AtRisk \in Int
        BY <2>3, <4>3
      <4> QED
        BY <3>7, <4>1, <4>2, <4>4, <4>5, <4>6
    <3>11. SolidBlocks'
      BY <2>2, <2>3, <3>2, FS_Subset DEF RiskInv, SolidBlocks
    <3> QED
      BY <3>2, <3>10, <3>11 DEF RiskInv
  <2> QED
    BY <1>2, <2>4, <2>5, <2>6, <2>7, <2>8, <2>9, <2>10, <2>11, <2>12, <2>13, <2>14
       DEF Next, FlushLoop, Flush
<1> QED
  BY <1>1, <1>2


\* Without failures a reader finds every block but the one being flushed through
\* the index, and the index in memory is the end of the one on disk; kills and power
\* failures cost one entry in each life of the process at most (flush, 221-253).
THEOREM IndexIsComplete == Spec => []IndexComplete
<1> DEFINE Indexed == /\ \A b \in blocks :
                            \/ \E i \in Readable : Describes(idx[i], b)
                            \/ pc \in {"sync", "index"} /\ b.at = currentOffset
                      /\ indexes = SubSeq(idx, Len(idx) - Len(indexes) + 1, Len(idx))
           Bounded == Cardinality(Unindexed) <=
                        opens - 1 + (IF pc \in {"sync", "index", "down"} THEN 1 ELSE 0)
<1>1. TypeOK /\ IndexInv => (faulted = {} => Indexed)
  <2> SUFFICES ASSUME TypeOK, WholeEntries, SameTail, BlocksIndexed
               PROVE  Indexed
    BY DEF IndexInv
  <2>1. /\ idx \in Seq(IndexEntry) /\ indexes \in Seq(IndexEntry)
        /\ Len(idx) \in Nat /\ Len(indexes) \in Nat
        /\ DOMAIN idx = 1 .. Len(idx)
        /\ \A i \in 1 .. Len(idx) : idx[i] \in IndexEntry
    BY LenProperties DEF TypeOK, IndexOK
  <2>2. Readable = DOMAIN idx
    BY <2>1 DEF Readable, WholeEntries
  <2> DEFINE m == Len(idx) - Len(indexes) + 1
             t == SubSeq(idx, m, Len(idx))
  <2>3. m \in 1 .. Len(idx) + 1
    BY <2>1 DEF SameTail
  <2>4. \A i \in m .. Len(idx) : idx[i] \in IndexEntry
    BY <2>1, <2>3
  <2> HIDE DEF m
  <2>5. /\ t \in Seq(IndexEntry)
        /\ Len(t) = IF m <= Len(idx) THEN Len(idx) - m + 1 ELSE 0
        /\ \A i \in 1 .. Len(idx) - m + 1 : t[i] = idx[m + i - 1]
    BY <2>1, <2>3, <2>4, SubSeqProperties
  <2> HIDE DEF t
  <2>6. Len(t) = Len(indexes)
    BY <2>1, <2>3, <2>5 DEF m
  <2>7. \A i \in 1 .. Len(indexes) : t[i] = indexes[i]
    BY <2>1, <2>5 DEF m, SameTail
  <2>8. indexes = t
    BY <2>1, <2>5, <2>6, <2>7, SeqEqual
  <2> QED
    BY <2>2, <2>8 DEF BlocksIndexed, m, t
<1>2. TypeOK /\ (Mild => RiskInv) => (Mild => Bounded)
  <2> SUFFICES ASSUME TypeOK, RiskInv PROVE Bounded
    OBVIOUS
  <2>1. /\ Cardinality(Unindexed) \in Nat /\ Len(idx) \in Nat /\ idxSynced \in 0 .. Len(idx)
        /\ opens \in Nat \ {0} /\ AtRisk <= Ended
        /\ pc = "advance" => idxSynced < Len(idx)
    BY RiskTypes DEF RiskInv, SolidBlocks
  <2> QED
    BY <2>1 DEF AtRisk, Ended
<1>3. TypeOK /\ IndexInv /\ (Mild => RiskInv) => IndexComplete
  BY <1>1, <1>2 DEF IndexComplete, Mild
<1> QED
  BY <1>3, IndexInductive, OffsetInductive, EntriesInductive, RiskInductive, TypedSpec, PTL DEF Spec

-----------------------------------------------------------------------------
(* The refinement of PointLog. *)

\* Every point on disk is in exactly the places a later settlement looks at.
LEMMA DurableOnDisk == DurableBlocks \subseteq blocks /\ Durable \subseteq OnDisk
BY DEF DurableBlocks, Durable, OnDisk, PointsOf

\* Steps that leave what is accepted, durable and lost alone.
LEMMA LogStutter ==
    ASSUME UNCHANGED <<accepted, lost>>, Durable' = Durable
    PROVE  [Log!Next]_(Log!vars)
BY DEF Log!vars

\* A step that stores S and loses L, both undecided, S in order.
LEMMA LogSettle ==
    ASSUME Conservation, Conservation', Durable \subseteq Durable',
           lost \subseteq lost', UNCHANGED accepted,
           \A p \in Durable' \ Durable, q \in 1 .. accepted :
               q \notin Durable \union lost /\ q < p => q \in Durable' \union lost'
    PROVE  [Log!Next]_(Log!vars)
<1> DEFINE S == Durable' \ Durable
           L == lost' \ lost
<1>1. Durable \intersect lost = {} /\ Durable' \intersect lost' = {}
  BY DurableOnDisk DEF Conservation, DurableBlocks, Durable, OnDisk, PointsOf
<1>2. Durable' \subseteq 1 .. accepted /\ lost' \subseteq 1 .. accepted
  BY DEF Conservation, DurableBlocks, Durable, OnDisk, PointsOf
<1>3. S \in SUBSET Log!Waiting /\ L \in SUBSET Log!Waiting
  BY <1>1, <1>2 DEF Log!Waiting
<1>4. Log!Settle(S, L)
  BY <1>1, <1>2 DEF Log!Settle, Log!Waiting
<1> QED
  BY <1>3, <1>4 DEF Log!Next

\* An fsync of the whole file stores every block in it, and nothing earlier than
\* a point on disk is still in memory.
LEMMA SyncSettles ==
    ASSUME TypeOK, Conservation, Conservation', DiskOrder, synced' \in {synced, fileSize},
           UNCHANGED <<blocks, lost, accepted>>
    PROVE  [Log!Next]_(Log!vars)
<1>1. CASE synced' = synced
  <2>1. Durable' = Durable
    BY <1>1 DEF Durable, DurableBlocks, PointsOf
  <2> QED
    BY <2>1, LogStutter
<1>2. CASE synced' = fileSize
  <2>1. DurableBlocks' = blocks
    BY <1>2 DEF DurableBlocks, TypeOK, DataOK
  <2>2. Durable' = OnDisk
    BY <2>1 DEF Durable, OnDisk, PointsOf
  <2>3. Durable \subseteq Durable'
    BY <2>2, DurableOnDisk
  <2>4. ASSUME NEW p \in Durable' \ Durable, NEW q \in 1 .. accepted,
               q \notin Durable \union lost, q < p
        PROVE  q \in Durable' \union lost'
    <3>1. p \in OnDisk /\ p \in 1 .. accepted /\ accepted \in Nat
      BY <2>2 DEF Conservation, TypeOK, HistoryOK
    <3>2. q \in Range(buffer) \union Pending \union OnDisk
      BY <2>4 DEF Conservation
    <3>3. ~(p < q)
      BY <2>4, <3>1
    <3> QED
      BY <2>2, <3>1, <3>2, <3>3 DEF DiskOrder, BetweenBlocks
  <2> QED
    BY <2>3, <2>4, LogSettle
<1> QED
  BY <1>1, <1>2

LEMMA RefinementStep ==
    ASSUME TypeOK, FlushInv, Conservation, Conservation', DiskOrder, [Next]_vars
    PROVE  [Log!Next]_(Log!vars)
<1> USE DEF memory, data, index, history
<1>1. ASSUME NEW k \in 1 .. MaxBatch, WriteBatch(k) PROVE [Log!Next]_(Log!vars)
  <2>1. Durable' = Durable
    BY <1>1 DEF WriteBatch, Durable, DurableBlocks, PointsOf
  <2>2. Log!Accept(k)
    BY <1>1, <2>1 DEF WriteBatch, Log!Accept
  <2> QED
    BY <2>2 DEF Log!Next
<1>2. CASE SelectFlush \/ SelectTick \/ SelectClose \/ TakeBuffer \/ WriteIndex \/ Advance
              \/ Close \/ NewDayWriter \/ UNCHANGED vars
  <2>1. UNCHANGED <<blocks, synced, accepted, lost>>
    BY <1>2 DEF SelectFlush, SelectTick, SelectClose, TakeBuffer, WriteIndex, Advance, Close,
                NewDayWriter, vars
  <2>2. Durable' = Durable
    BY <2>1 DEF Durable, DurableBlocks, PointsOf
  <2> QED
    BY <2>1, <2>2, LogStutter
<1>3. CASE WriteData
  <2> DEFINE new == [at |-> fileSize, len |-> BlockLen(Len(points)), pts |-> points]
  <2>1. BlockLen(Len(points)) \in Nat \ {0}
    BY <1>3, BlockLenPositive DEF WriteData, FlushInv, Flushing
  <2>2. ~(new.at + new.len <= synced)
    BY <2>1 DEF TypeOK, DataOK
  <2>3. blocks' = blocks \union {new} /\ UNCHANGED <<synced, accepted, lost>>
    BY <1>3 DEF WriteData
  <2> HIDE DEF new
  <2>4. DurableBlocks' = DurableBlocks
    BY <2>2, <2>3 DEF DurableBlocks
  <2>5. Durable' = Durable
    BY <2>4 DEF Durable
  <2> QED
    BY <2>3, <2>5, LogStutter
<1>4. CASE WriteDataFail \/ Exit \/ Kill
  <2>1. UNCHANGED <<blocks, synced, accepted>> /\ lost \subseteq lost'
    BY <1>4 DEF WriteDataFail, Exit, Kill, LoseMemory
  <2>2. Durable' = Durable
    BY <2>1 DEF Durable, DurableBlocks, PointsOf
  <2> QED
    BY <2>1, <2>2, LogSettle
<1>5. CASE SyncData \/ Sync \/ CloseFiles
  <2>1. synced' \in {synced, fileSize} /\ UNCHANGED <<blocks, lost, accepted>>
    BY <1>5 DEF SyncData, Sync, CloseFiles
  <2> QED
    BY <2>1, SyncSettles
<1>6. CASE PowerLoss
  <2>1. DurableBlocks' = blocks' /\ lost \subseteq lost' /\ UNCHANGED accepted
    BY <1>6 DEF PowerLoss, LoseMemory, DurableBlocks
  <2>2. Durable' = OnDisk'
    BY <2>1 DEF Durable, OnDisk
  <2>3. Durable \subseteq Durable'
    <3>1. DurableBlocks \subseteq DurableBlocks'
      BY DurableStep
    <3> QED
      BY <3>1 DEF Durable, PointsOf
  <2>4. 1 .. accepted = OnDisk' \union lost'
    BY <1>6, <2>1, DeathStep DEF Conservation
  <2> QED
    BY <2>1, <2>2, <2>3, <2>4, LogSettle
<1> QED
  BY <1>1, <1>2, <1>3, <1>4, <1>5, <1>6 DEF Next, FlushLoop, Flush

\* The writer implements the point log: what its fsyncs cover grows in order of
\* arrival, and every accepted point is stored or lost at most once.
THEOREM Refinement == Spec => ImplementsPointLog
<1>1. Init => Log!Init
  BY DEF Init, Log!Init, Durable, DurableBlocks, PointsOf
<1>2. /\ TypeOK /\ FlushInv /\ Conservation /\ Conservation' /\ DiskOrder /\ [Next]_vars
      => [Log!Next]_(Log!vars)
  BY RefinementStep
<1> QED
  BY <1>1, <1>2, TypedSpec, PointsConserved, OrderKept, PTL
     DEF Spec, ImplementsPointLog, Log!Spec

=============================================================================
