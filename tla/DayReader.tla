------------------------------ MODULE DayReader ------------------------------
(***************************************************************************)
(* One query of one day file (tffiles/storage.go, queryFile and readIndex, *)
(* and tffiles/reader.go): the binary search in the index, the walk back   *)
(* to the first block of the range, the collection of the blocks that      *)
(* overlap it, the reading of each, and the scan of the whole file that    *)
(* replaces all this when there is no index.                               *)
(*                                                                         *)
(* A file is the sequence of its blocks; a point is <<b, j>>, the j-th     *)
(* point of block b, and has a timestamp.  What reading a block at the     *)
(* place its index entry names yields is part of the image of the file:    *)
(* the block ("good"), other bytes than the checksum was made from ("bad") *)
(* or the end of the file ("eof").                                         *)
(***************************************************************************)
EXTENDS Integers, Sequences, FiniteSets, Functions, Sifting

CONSTANTS
    Times,      \* the timestamps
    Images,     \* the files a query may meet
    HeaderSize, FieldSize, CrcSize, \* in bytes: 10, 4 and 4 in the code
    Fields,     \* the values of a point
    MaxCount    \* bound: the largest field count misread

\* "legacy" blocks were written without a CRC by an earlier version.
Formats == {"zstd", "raw", "legacy"}

\* A "legacy" block has no checksum and so is never found "bad".
Block ==
    {b \in [pts : Seq(Times), fmt : Formats, read : {"good", "bad", "eof"}] :
        b.pts # <<>> /\ (b.fmt = "legacy" => b.read # "bad")}

\* index[j] is the block that the j-th entry of the index describes; a block
\* whose entry did not reach the disk has none.
Image ==
    {f \in [data : Seq(Block), hasIndex : BOOLEAN, index : Seq(Nat)] :
        /\ \A j \in DOMAIN f.index : f.index[j] \in DOMAIN f.data
        /\ \A i, j \in DOMAIN f.index : i < j => f.index[i] < f.index[j]}

ASSUME ImageAssumption == Times \subseteq Int /\ Images \subseteq Image
ASSUME SizeAssumption ==
    /\ HeaderSize \in Nat /\ FieldSize \in Nat /\ CrcSize \in Nat
    /\ Fields \in Nat /\ MaxCount \in Nat
    /\ CrcSize < HeaderSize

VARIABLES
    file, startTime, endTime,       \* the query
    pc,
    left, right, mid,               \* binarySearchIndex
    i, relevantBlocks,              \* QueryWithIndex, first loop
    offset, length,                 \* the full scan, and how much it parses
    k, allPoints, err, junk         \* the second loop, and the answer

query  == <<file, startTime, endTime>>
search == <<left, right, mid>>
parse  == <<offset, length>>
answer == <<allPoints, err, junk>>
vars   == <<query, pc, search, i, relevantBlocks, parse, k, answer>>

indexes == file.index
BlockOf(j) == file.data[indexes[j]]

\* flush makes the entry from the first and the last point of the block.
StartTime(j) == BlockOf(j).pts[1]
EndTime(j) == BlockOf(j).pts[Len(BlockOf(j).pts)]

InRange(t) == startTime <= t /\ t <= endTime

\* Mutant: the points of a block are not filtered by the range.
ParsedAll(b) == [j \in 1 .. Len(file.data[b].pts) |-> <<b, j>>]

\* The points of block b that parsePoints returns, in file order.
Parsed(b) ==
    LET pts == file.data[b].pts
    IN  Sift([j \in 1 .. Len(pts) |-> <<b, j>>], {<<b, j>> : j \in {x \in DOMAIN pts : InRange(pts[x])}})

-----------------------------------------------------------------------------

Init ==
    /\ file \in Images
    /\ startTime \in Times /\ endTime \in Times
    /\ pc = "open"
    /\ left = 1 /\ right = 0 /\ mid = 1
    /\ i = 1 /\ relevantBlocks = <<>>
    /\ offset = 0 /\ length = 0
    /\ k = 1 /\ allPoints = <<>> /\ err = FALSE /\ junk = FALSE

\* queryFile: an index that cannot be read sends the query to the full scan.
Open ==
    /\ pc = "open"
    /\ pc' = IF file.hasIndex THEN "search" ELSE "scan"
    /\ right' = Len(indexes)
    /\ UNCHANGED <<query, parse, left, mid, i, relevantBlocks, k, answer>>

\* Mutant: the search drops the middle entry when it goes left.
SearchStepSkips ==
    /\ pc = "search" /\ left <= right
    /\ LET m == (left + right) \div 2 IN
          IF EndTime(m) < startTime THEN left' = m + 1 /\ UNCHANGED <<right, mid, pc>>
          ELSE IF StartTime(m) > startTime THEN right' = m - 2 /\ UNCHANGED <<left, mid, pc>>
          ELSE mid' = m /\ pc' = "walk" /\ UNCHANGED <<left, right>>
    /\ UNCHANGED <<query, parse, i, relevantBlocks, k, answer>>

\* Mutant: the search keeps the middle entry when it goes right.
SearchStepStays ==
    /\ pc = "search" /\ left <= right
    /\ LET m == (left + right) \div 2 IN
          IF EndTime(m) < startTime THEN left' = m /\ UNCHANGED <<right, mid, pc>>
          ELSE IF StartTime(m) > startTime THEN right' = m - 1 /\ UNCHANGED <<left, mid, pc>>
          ELSE mid' = m /\ pc' = "walk" /\ UNCHANGED <<left, right>>
    /\ UNCHANGED <<query, parse, i, relevantBlocks, k, answer>>

\* One round of the loop of binarySearchIndex; an entry that contains the
\* start of the range ends it.
SearchStep ==
    /\ pc = "search" /\ left <= right
    /\ LET m == (left + right) \div 2 IN
          \/ /\ EndTime(m) < startTime
             /\ left' = m + 1
             /\ UNCHANGED <<right, mid, pc>>
          \/ /\ EndTime(m) >= startTime /\ StartTime(m) > startTime
             /\ right' = m - 1
             /\ UNCHANGED <<left, mid, pc>>
          \/ /\ EndTime(m) >= startTime /\ StartTime(m) <= startTime
             /\ mid' = m
             /\ pc' = "walk"
             /\ UNCHANGED <<left, right>>
    /\ UNCHANGED <<query, parse, i, relevantBlocks, k, answer>>

SearchEnd ==
    /\ pc = "search" /\ left > right
    /\ i' = left
    /\ pc' = "collect"
    /\ UNCHANGED <<query, parse, search, relevantBlocks, k, answer>>

\* Several entries may reach the start of the range: go back to the first.
WalkBack ==
    /\ pc = "walk" /\ mid > 1 /\ EndTime(mid - 1) >= startTime
    /\ mid' = mid - 1
    /\ UNCHANGED <<query, parse, pc, left, right, i, relevantBlocks, k, answer>>

\* Mutant: the first matching entry is taken without walking back.
WalkEndAtOnce ==
    /\ pc = "walk"
    /\ i' = mid
    /\ pc' = "collect"
    /\ UNCHANGED <<query, parse, search, relevantBlocks, k, answer>>

WalkEnd ==
    /\ pc = "walk" /\ ~(mid > 1 /\ EndTime(mid - 1) >= startTime)
    /\ i' = mid
    /\ pc' = "collect"
    /\ UNCHANGED <<query, parse, search, relevantBlocks, k, answer>>

Collect ==
    /\ pc = "collect" /\ i <= Len(indexes) /\ StartTime(i) <= endTime
    /\ relevantBlocks' = IF EndTime(i) >= startTime THEN Append(relevantBlocks, i)
                                                    ELSE relevantBlocks
    /\ i' = i + 1
    /\ UNCHANGED <<query, parse, pc, search, k, answer>>

CollectEnd ==
    /\ pc = "collect" /\ ~(i <= Len(indexes) /\ StartTime(i) <= endTime)
    /\ pc' = "read"
    /\ UNCHANGED <<query, parse, search, i, relevantBlocks, k, answer>>

Current == indexes[relevantBlocks[k]]

\* A block that decompresses, or is stored as it is, and has the right CRC.
ReadGood ==
    /\ pc = "read" /\ k <= Len(relevantBlocks)
    /\ file.data[Current].read = "good" /\ file.data[Current].fmt # "legacy"
    /\ allPoints' = allPoints \o Parsed(Current)
    /\ k' = k + 1
    /\ UNCHANGED <<query, parse, pc, search, i, relevantBlocks, err, junk>>

\* Mutant: a checksum that does not match ends the query.
ReadBadStops ==
    /\ pc = "read" /\ k <= Len(relevantBlocks)
    /\ file.data[Current].read = "bad"
    /\ pc' = "done"
    /\ UNCHANGED <<query, parse, search, i, relevantBlocks, k, answer>>

\* A checksum that does not match: the block is left out of the answer.
ReadBad ==
    /\ pc = "read" /\ k <= Len(relevantBlocks)
    /\ file.data[Current].read = "bad"
    /\ k' = k + 1
    /\ UNCHANGED <<query, parse, pc, search, i, relevantBlocks, answer>>

\* ReadAt beyond the end of the file: the whole query fails.
ReadEof ==
    /\ pc = "read" /\ k <= Len(relevantBlocks)
    /\ file.data[Current].read = "eof"
    /\ allPoints' = <<>> /\ err' = TRUE
    /\ pc' = "done"
    /\ UNCHANGED <<query, parse, search, i, relevantBlocks, k, junk>>

\* A block without CRC: its points are the answer, whatever was collected.
ReadLegacy ==
    /\ pc = "read" /\ k <= Len(relevantBlocks)
    /\ file.data[Current].read = "good" /\ file.data[Current].fmt = "legacy"
    /\ allPoints' = Parsed(Current)
    /\ pc' = "done"
    /\ UNCHANGED <<query, parse, search, i, relevantBlocks, k, err, junk>>

ReadEnd ==
    /\ pc = "read" /\ k > Len(relevantBlocks)
    /\ pc' = "done"
    /\ UNCHANGED <<query, parse, search, i, relevantBlocks, k, answer>>

-----------------------------------------------------------------------------
(* DayReader.Query, the full scan: the bytes of the file are parsed as one  *)
(* run of points, whatever lies between them.                               *)

\* If all of the file is zstd frames it is decompressed as a whole, else the
\* bytes are parsed as they are.
AllZstd == \A b \in DOMAIN file.data : file.data[b].fmt = "zstd" /\ file.data[b].read = "good"

\* The blocks whose points lie before the parser; of others it sees bytes that
\* mean nothing (and that may as well be as many as the points would be).
Plain(b) == AllZstd \/ (file.data[b].fmt # "zstd" /\ file.data[b].read # "bad")

PointSize == HeaderSize + Fields * FieldSize
BlockSize(b) ==
    Len(file.data[b].pts) * PointSize + (IF file.data[b].fmt = "legacy" THEN 0 ELSE CrcSize)

\* Where the blocks end, and where their points begin.
Ends ==
    LET upTo[b \in 0 .. Len(file.data)] == IF b = 0 THEN 0 ELSE upTo[b - 1] + BlockSize(b)
    IN  upTo
Start(b, j) == Ends[b - 1] + (j - 1) * PointSize

Points == UNION {{<<b, j>> : j \in DOMAIN file.data[b].pts} : b \in DOMAIN file.data}
PointsAt(o) == {p \in Points : Plain(p[1]) /\ Start(p[1], p[2]) = o}

\* The bytes that are there: the last CRC is cut off what was decompressed, and
\* a file whose end is missing stops within a block.
Lengths ==
    LET cut == {b \in DOMAIN file.data : file.data[b].read = "eof"}
        all == Ends[Len(file.data)]
    IN  IF AllZstd THEN {IF file.data = <<>> THEN 0 ELSE all - CrcSize}
        ELSE IF cut = {} THEN {all}
        ELSE UNION {Ends[b - 1] .. Ends[b] - 1 : b \in {c \in cut : \A d \in cut : c <= d}}

ScanOpen ==
    /\ pc = "scan"
    /\ length' \in Lengths
    /\ pc' = "parse"
    /\ UNCHANGED <<query, search, i, relevantBlocks, offset, k, answer>>

\* Mutant: what reaches exactly to the end does not fit.
FitsLess(size) == offset + size < length

Fits(size) == offset + size <= length

\* One round of the loop of parsePoints or parseLegacyFormat, at a point ...
ParsePoint ==
    /\ pc = "parse" /\ Fits(HeaderSize) /\ Fits(PointSize)
    /\ \E p \in PointsAt(offset) :
          allPoints' = IF InRange(file.data[p[1]].pts[p[2]]) THEN Append(allPoints, p) ELSE allPoints
    /\ offset' = offset + PointSize
    /\ UNCHANGED <<query, pc, search, i, relevantBlocks, length, k, err, junk>>

\* ... or anywhere else, such as at the CRC of a block or in a compressed one:
\* any bytes may be taken for the time and for the field count, which says how
\* far to go on.  By chance the parser may come to a point again.
ParseJunk ==
    /\ pc = "parse" /\ Fits(HeaderSize) /\ PointsAt(offset) = {}
    /\ \E n \in 0 .. MaxCount :
          /\ Fits(HeaderSize + n * FieldSize)
          /\ offset' = offset + HeaderSize + n * FieldSize
    /\ junk' \in {junk, TRUE}
    /\ UNCHANGED <<query, pc, search, i, relevantBlocks, length, k, allPoints, err>>

\* The rest is no header, or is shorter than the point its header announces.
ParseEnd ==
    /\ pc = "parse"
    /\ \/ ~Fits(HeaderSize)
       \/ PointsAt(offset) # {} /\ ~Fits(PointSize)
       \/ PointsAt(offset) = {} /\ \E n \in 0 .. MaxCount : ~Fits(HeaderSize + n * FieldSize)
    /\ pc' = "done"
    /\ UNCHANGED <<query, search, i, relevantBlocks, parse, k, answer>>

FullScan == ScanOpen \/ ParsePoint \/ ParseJunk \/ ParseEnd

QueryWithIndex ==
    \/ SearchStep \/ SearchEnd \/ WalkBack \/ WalkEnd \/ Collect \/ CollectEnd
    \/ ReadGood \/ ReadBad \/ ReadEof \/ ReadLegacy \/ ReadEnd

Next == Open \/ QueryWithIndex \/ FullScan

Spec == Init /\ [][Next]_vars

\* The query is one sequential call.
FairSpec == Spec /\ WF_vars(Next)

-----------------------------------------------------------------------------
(* Properties. *)

Control == {"open", "search", "walk", "collect", "read", "scan", "parse", "done"}

QueryOK ==
    /\ file \in Image /\ startTime \in Times /\ endTime \in Times
    /\ pc \in Control
    /\ err \in BOOLEAN /\ junk \in BOOLEAN
    /\ offset \in Nat /\ length \in Nat

LoopsOK ==
    /\ left \in 1 .. Len(indexes) + 1 /\ right \in 0 .. Len(indexes)
    /\ (pc = "search" => left <= right + 1)
    /\ mid \in Nat /\ (pc = "walk" => mid \in 1 .. Len(indexes))
    /\ i \in 1 .. Len(indexes) + 1
    /\ relevantBlocks \in Seq(1 .. Len(indexes))
    /\ k \in 1 .. Len(relevantBlocks) + 1

\* The loops stay inside the index: no subscript the code would panic on.
TypeOK == QueryOK /\ LoopsOK

\* Points were written in the order of their timestamps, as a device that
\* reports as it measures does; equal timestamps are allowed.
InTimeOrder ==
    \A b, c \in DOMAIN file.data : \A x \in DOMAIN file.data[b].pts, y \in DOMAIN file.data[c].pts :
        b < c \/ (b = c /\ x <= y) => file.data[b].pts[x] <= file.data[c].pts[y]

\* What the search relies on: entries in time order.
EntriesInOrder ==
    /\ \A j \in DOMAIN indexes : StartTime(j) <= EndTime(j)
    /\ \A j, l \in DOMAIN indexes : j < l => EndTime(j) <= StartTime(l)

Overlapping == {j \in DOMAIN indexes : StartTime(j) <= endTime /\ EndTime(j) >= startTime}

\* Binary search, walk back and the early break of the first loop together find
\* exactly the entries that overlap the range, also when neighbouring blocks
\* share a timestamp and when the range is empty.
RelevantExact ==
    pc \in {"read", "done"} /\ file.hasIndex /\ EntriesInOrder =>
        Range(relevantBlocks) = Overlapping

\* The points of the blocks in B that lie in the range.
Wanted(B) ==
    UNION {{<<b, j>> : j \in {x \in DOMAIN file.data[b].pts : InRange(file.data[b].pts[x])}} : b \in B}

Before(p, q) == p[1] < q[1] \/ (p[1] = q[1] /\ p[2] < q[2])

\* Whatever the order of the timestamps, holes in the index or damage to the
\* file: an indexed query never returns a point twice, out of file order, out of
\* its range, or from a block that failed its checksum.
AnswerSound ==
    file.hasIndex =>
        /\ \A x, y \in DOMAIN allPoints : x < y => Before(allPoints[x], allPoints[y])
        /\ Range(allPoints) \subseteq Wanted({b \in DOMAIN file.data : file.data[b].read = "good"})
        /\ ~junk

\* For points written in time order an indexed query returns every point of the
\* range in every indexed block it could read; a damaged block costs its own
\* points and no others.  (Legacy blocks and reads beyond the end apart.)
QueryComplete ==
    /\ pc = "done" /\ file.hasIndex /\ InTimeOrder
    /\ \A j \in Overlapping : BlockOf(j).fmt # "legacy" /\ BlockOf(j).read # "eof"
    => Range(allPoints) = Wanted({b \in Range(indexes) : file.data[b].read = "good"})

\* Without an index, a file of one block (what the migration to the cold tier
\* reads back) or of legacy blocks only is scanned exactly: each point of the
\* range once, in file order.  The CRC at the end, which is cut off only if the
\* file was decompressed, is too short to be taken for a point.
ScanExact ==
    /\ pc = "done" /\ ~file.hasIndex
    /\ \A b \in DOMAIN file.data : file.data[b].read = "good"
    /\ Len(file.data) = 1 \/ \A b \in DOMAIN file.data : file.data[b].fmt = "legacy"
    => /\ Range(allPoints) = Wanted(DOMAIN file.data) /\ ~junk
       /\ \A x, y \in DOMAIN allPoints : x < y => Before(allPoints[x], allPoints[y])

\* Every query returns.
QueryTerminates == <>(pc = "done")

\* "Index missing or damaged: full scan" (storage.go): the scan of an undamaged
\* file finds what the index would have found.
FullScanComplete ==
    /\ pc = "done" /\ ~file.hasIndex
    /\ \A b \in DOMAIN file.data : file.data[b].read = "good"
    => Range(allPoints) = Wanted(DOMAIN file.data) /\ ~junk

=============================================================================
