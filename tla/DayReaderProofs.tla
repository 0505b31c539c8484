--------------------------- MODULE DayReaderProofs ---------------------------
(***************************************************************************)
(* Proofs about the queries of DayReader, for files of any length and      *)
(* any timestamps.                                                         *)
(***************************************************************************)
EXTENDS DayReader, SiftingProofs, SequenceTheorems, TLAPS

\* The times an index entry carries are timestamps.
LEMMA EntryTimes ==
    ASSUME file \in Image
    PROVE  /\ Len(indexes) \in Nat /\ DOMAIN indexes = 1 .. Len(indexes)
           /\ \A j \in 1 .. Len(indexes) : StartTime(j) \in Int /\ EndTime(j) \in Int
<1>1. /\ file.data \in Seq(Block) /\ file.index \in Seq(Nat)
      /\ \A j \in DOMAIN file.index : file.index[j] \in DOMAIN file.data
  BY DEF Image
<1>2. Len(indexes) \in Nat /\ DOMAIN indexes = 1 .. Len(indexes)
  BY <1>1, LenProperties DEF indexes
<1>3. ASSUME NEW j \in 1 .. Len(indexes) PROVE StartTime(j) \in Int /\ EndTime(j) \in Int
  <2>1. BlockOf(j) \in Block
    <3>1. indexes[j] \in DOMAIN file.data
      BY <1>1, <1>2 DEF indexes
    <3> QED
      BY <1>1, <3>1, LenProperties DEF BlockOf
  <2>2. BlockOf(j).pts \in Seq(Times) /\ BlockOf(j).pts # <<>>
    BY <2>1 DEF Block
  <2> DEFINE s == BlockOf(j).pts
  <2> HIDE DEF s
  <2>3. Len(s) \in Nat \ {0} /\ \A x \in 1 .. Len(s) : s[x] \in Times
    BY <2>2, LenProperties, EmptySeq DEF s
  <2>4. s[1] \in Times /\ s[Len(s)] \in Times
    BY <2>3
  <2> QED
    BY <2>4, ImageAssumption DEF s, StartTime, EndTime
<1> QED
  BY <1>2, <1>3

\* Sizes are numbers, and a point begins with its header.
LEMMA Sizes ==
    /\ PointSize \in Nat /\ HeaderSize \in Nat \ {0} /\ CrcSize \in Nat
    /\ HeaderSize <= PointSize /\ CrcSize < HeaderSize
<1>1. ASSUME NEW m \in Nat, NEW n \in Nat PROVE m * n \in Nat
  OBVIOUS
<1>2. Fields * FieldSize \in Nat
  BY <1>1, SizeAssumption
<1> QED BY <1>2, SizeAssumption DEF PointSize

\* The blocks lie one behind the other.
LEMMA Layout ==
    ASSUME file \in Image
    PROVE  /\ Len(file.data) \in Nat /\ DOMAIN file.data = 1 .. Len(file.data)
           /\ \A b \in 1 .. Len(file.data) :
                 /\ Len(file.data[b].pts) \in Nat \ {0}
                 /\ DOMAIN file.data[b].pts = 1 .. Len(file.data[b].pts)
                 /\ BlockSize(b) \in Nat /\ Len(file.data[b].pts) * PointSize \in Nat
           /\ Ends[0] = 0 /\ \A b \in 0 .. Len(file.data) : Ends[b] \in Nat
           /\ \A b \in 1 .. Len(file.data) : Ends[b] = Ends[b - 1] + BlockSize(b)
<1> DEFINE N == Len(file.data)
           Step(b, t) == t + BlockSize(b)
           G == [x \in (1 .. N) \X Nat |-> Step(x[1], x[2])]
           Body(f) == [b \in 0 .. N |-> IF b = 0 THEN 0 ELSE f[b - 1] + BlockSize(b)]
<1>1. N \in Nat /\ DOMAIN file.data = 1 .. N /\ \A b \in 1 .. N : file.data[b] \in Block
  BY LenProperties DEF Image
<1>2. ASSUME NEW b \in 1 .. N
      PROVE  /\ Len(file.data[b].pts) \in Nat \ {0}
             /\ DOMAIN file.data[b].pts = 1 .. Len(file.data[b].pts)
             /\ BlockSize(b) \in Nat /\ Len(file.data[b].pts) * PointSize \in Nat
  <2> DEFINE pts == file.data[b].pts
  <2>1. pts \in Seq(Times) /\ pts # <<>>
    BY <1>1 DEF Block
  <2> HIDE DEF pts
  <2>2. Len(pts) \in Nat \ {0} /\ DOMAIN pts = 1 .. Len(pts)
    BY <2>1, LenProperties, EmptySeq
  <2>3. ASSUME NEW m \in Nat, NEW n \in Nat PROVE m * n \in Nat
    OBVIOUS
  <2>4. Len(pts) * PointSize \in Nat
    BY <2>2, <2>3, Sizes
  <2> DEFINE w == Len(pts) * PointSize
  <2>5. BlockSize(b) = w + (IF file.data[b].fmt = "legacy" THEN 0 ELSE CrcSize) /\ w \in Nat
    BY <2>4 DEF BlockSize, pts
  <2> HIDE DEF w
  <2>6. BlockSize(b) \in Nat
    BY <2>5, Sizes
  <2> QED BY <2>2, <2>4, <2>6 DEF pts
<1> HIDE DEF Step
<1>4. /\ G \in [(1 .. N) \X Nat -> Nat]
      /\ \A b \in 1 .. N, t \in Nat : G[<<b, t>>] = t + BlockSize(b)
  <2>1. \A b \in 1 .. N, t \in Nat : Step(b, t) = t + BlockSize(b) /\ Step(b, t) \in Nat
    BY <1>2 DEF Step
  <2> QED BY <2>1
<1> HIDE DEF G
<1>5. PICK f \in [0 .. N -> Nat] : f[0] = 0 /\ \A b \in 1 .. N : f[b] = G[<<b, f[b - 1]>>]
  <2> DEFINE M == N
  <2>1. G \in [(1 .. M) \X Nat -> Nat] /\ M \in Nat /\ 0 \in Nat
    BY <1>1, <1>4
  <2> HIDE DEF M, Body
  <2>2. \E f \in [0 .. M -> Nat] : Solves(f, M, 0, G)
    BY <2>1, Recursion, Zenon
  <2> QED BY <2>2 DEF Solves, M
<1>6. \A b \in 1 .. N : f[b - 1] \in Nat /\ f[b] = f[b - 1] + BlockSize(b)
  <2>1. \A b \in 1 .. N : b - 1 \in 0 .. N
    BY <1>1
  <2> QED BY <1>4, <1>5, <2>1
<1>7. f = Body(f)
  <2>1. ASSUME NEW b \in 0 .. N PROVE f[b] = Body(f)[b]
    <3>1. CASE b = 0
      BY <1>5, <3>1
    <3>2. CASE b # 0
      BY <1>1, <1>6, <3>2
    <3> QED BY <3>1, <3>2
  <2> QED BY <1>5, <2>1
<1>8. Ends = Body(Ends)
  <2>1. Ends = CHOOSE g : g = Body(g)
    BY DEF Ends
  <2> DEFINE e == Ends
  <2> HIDE DEF Body, e
  <2>2. e = CHOOSE g : g = Body(g)
    BY <2>1 DEF e
  <2>3. e = Body(e)
    BY <1>7, <2>2
  <2> QED BY <2>3 DEF e
<1> DEFINE e == Ends
           K == N
<1>9. e = [b \in 0 .. K |-> IF b = 0 THEN 0 ELSE e[b - 1] + BlockSize(b)] /\ K \in Nat
  BY <1>1, <1>8
<1> HIDE DEF e, K, Body
<1>10. e[0] = 0 /\ \A b \in 1 .. K : e[b] = e[b - 1] + BlockSize(b)
  BY <1>9
<1>11. \A b \in 0 .. K : e[b] \in Nat
  <2> DEFINE E == {b \in 0 .. K : e[b] \in Nat}
  <2>1. 0 \in E
    BY <1>9, <1>10
  <2>2. ASSUME NEW b \in 0 .. K - 1, b \in E PROVE b + 1 \in E
    <3>1. b + 1 \in 1 .. K /\ (b + 1) - 1 = b
      BY <1>9
    <3>2. BlockSize(b + 1) \in Nat
      BY <1>2, <3>1 DEF K
    <3> QED BY <1>10, <2>2, <3>1, <3>2
  <2> HIDE DEF E
  <2>3. 0 .. K \subseteq E
    BY <1>9, <2>1, <2>2, UpToInduction
  <2> QED BY <2>3 DEF E
<1> QED BY <1>1, <1>2, <1>10, <1>11 DEF e, K

\* How much there is to parse.
LEMMA LengthNat ==
    ASSUME file \in Image
    PROVE  Lengths \subseteq Nat
<1>1. /\ Len(file.data) \in Nat /\ DOMAIN file.data = 1 .. Len(file.data)
      /\ \A b \in 0 .. Len(file.data) : Ends[b] \in Nat
  BY Layout
<1>2. CASE AllZstd
  <2>1. CASE file.data = <<>>
    BY <1>2, <2>1 DEF Lengths
  <2>2. CASE file.data # <<>>
    <3> DEFINE N == Len(file.data)
    <3>1. N \in 1 .. N
      <4>1. N # 0
        BY <2>2, EmptySeq DEF Image
      <4> QED BY <1>1, <4>1
    <3>2. file.data[N].fmt # "legacy"
      BY <1>1, <1>2, <3>1 DEF AllZstd
    <3> DEFINE w == Len(file.data[N].pts) * PointSize
    <3>3. BlockSize(N) = w + CrcSize
      BY <3>2 DEF BlockSize
    <3>4. Ends[N] = Ends[N - 1] + BlockSize(N) /\ Ends[N - 1] \in Nat /\ w \in Nat
      <4>1. N - 1 \in 0 .. N
        BY <3>1
      <4> QED BY <3>1, <4>1, Layout
    <3>5. Ends[N] - CrcSize \in Nat
      <4> HIDE DEF w, N
      <4> QED BY <3>3, <3>4, Sizes
    <3>6. Lengths = {Ends[N] - CrcSize}
      BY <1>2, <2>2 DEF Lengths
    <3> QED BY <3>5, <3>6
  <2> QED BY <2>1, <2>2
<1>3. CASE ~AllZstd
  <2>1. \A b \in 1 .. Len(file.data) : b - 1 \in 0 .. Len(file.data) /\ b \in 0 .. Len(file.data)
    BY <1>1
  <2>2. Len(file.data) \in 0 .. Len(file.data)
    BY <1>1
  <2>3. \A b \in 1 .. Len(file.data) : (Ends[b - 1] .. Ends[b] - 1) \subseteq Nat
    BY <1>1, <2>1
  <2>4. ASSUME NEW x \in Lengths PROVE x \in Nat
    <3>1. x = Ends[Len(file.data)] \/ \E b \in DOMAIN file.data : x \in Ends[b - 1] .. Ends[b] - 1
      BY <1>3 DEF Lengths
    <3> QED BY <1>1, <2>2, <2>3, <3>1
  <2> QED BY <2>4
<1> QED BY <1>2, <1>3

\* The middle of a non-empty interval lies in it.
LEMMA Middle ==
    ASSUME NEW l \in Nat, NEW r \in Nat, l <= r
    PROVE  (l + r) \div 2 \in l .. r
OBVIOUS

-----------------------------------------------------------------------------
(* Type correctness. *)

LEMMA InitType == Init => TypeOK
<1> SUFFICES ASSUME Init PROVE TypeOK
  OBVIOUS
<1>1. file \in Image
  BY ImageAssumption DEF Init
<1>2. <<>> \in Seq(1 .. Len(indexes)) /\ Len(<<>>) = 0
  BY EmptySeq
<1>3. Len(indexes) \in Nat
  BY <1>1, EntryTimes
<1>4. relevantBlocks \in Seq(1 .. Len(indexes)) /\ k \in 1 .. Len(relevantBlocks) + 1
  BY <1>2 DEF Init
<1>5. /\ startTime \in Times /\ endTime \in Times /\ pc = "open"
      /\ left = 1 /\ right = 0 /\ mid = 1 /\ i = 1 /\ err = FALSE /\ junk = FALSE
      /\ offset = 0 /\ length = 0
  BY DEF Init
<1>6. QueryOK
  BY <1>1, <1>5 DEF QueryOK, Control
<1>7. LoopsOK
  BY <1>3, <1>4, <1>5 DEF LoopsOK
<1> QED
  BY <1>6, <1>7 DEF TypeOK

LEMMA NextType == TypeOK /\ [Next]_vars => TypeOK'
<1> SUFFICES ASSUME TypeOK, [Next]_vars PROVE TypeOK'
  OBVIOUS
<1> USE DEF query, search, parse, answer, indexes
<1>1. /\ Len(indexes) \in Nat /\ DOMAIN indexes = 1 .. Len(indexes)
      /\ Len(relevantBlocks) \in Nat
  BY EntryTimes, LenProperties DEF TypeOK, QueryOK, LoopsOK
<1>2. CASE Open
  BY <1>1, <1>2 DEF Open, TypeOK, QueryOK, LoopsOK, Control
<1>3. CASE SearchStep
  <2> DEFINE m == (left + right) \div 2
  <2>1. m \in left .. right
    BY <1>3, Middle DEF SearchStep, TypeOK, QueryOK, LoopsOK
  <2>2. \/ left' = m + 1 /\ UNCHANGED <<right, mid, pc>>
        \/ right' = m - 1 /\ UNCHANGED <<left, mid, pc>>
        \/ mid' = m /\ pc' = "walk" /\ UNCHANGED <<left, right>>
    BY <1>3 DEF SearchStep
  <2>3. pc = "search" /\ UNCHANGED <<file, startTime, endTime, i, relevantBlocks, parse, k, err, junk>>
    BY <1>3 DEF SearchStep
  <2> HIDE DEF m
  <2>4. QueryOK'
    BY <2>2, <2>3 DEF TypeOK, QueryOK, Control
  <2>5. LoopsOK'
    <3> DEFINE n == Len(file.index)
    <3>1. /\ n \in Nat /\ left \in 1 .. n + 1 /\ right \in 0 .. n /\ left <= right + 1
          /\ mid \in Nat /\ m \in 1 .. n
      BY <1>1, <2>1, <2>3 DEF TypeOK, LoopsOK
    <3>2. /\ left' \in 1 .. n + 1 /\ right' \in 0 .. n /\ mid' \in Nat
          /\ pc' = "search" => left' <= right' + 1
          /\ pc' = "walk" => mid' \in 1 .. n
      BY <2>1, <2>2, <2>3, <3>1
    <3> QED
      BY <2>3, <3>2 DEF TypeOK, LoopsOK
  <2> QED
    BY <2>4, <2>5 DEF TypeOK
<1>4. CASE SearchEnd
  BY <1>1, <1>4 DEF SearchEnd, TypeOK, QueryOK, LoopsOK, Control
<1>5. CASE WalkBack
  BY <1>1, <1>5 DEF WalkBack, TypeOK, QueryOK, LoopsOK, Control
<1>6. CASE WalkEnd
  BY <1>1, <1>6 DEF WalkEnd, TypeOK, QueryOK, LoopsOK, Control
<1>7. CASE Collect
  <2>1. /\ relevantBlocks' \in Seq(1 .. Len(indexes))
        /\ Len(relevantBlocks') \in {Len(relevantBlocks), Len(relevantBlocks) + 1}
    <3>1. i \in 1 .. Len(indexes) /\ relevantBlocks \in Seq(1 .. Len(indexes))
      BY <1>7 DEF Collect, TypeOK, QueryOK, LoopsOK
    <3>2. /\ Append(relevantBlocks, i) \in Seq(1 .. Len(indexes))
          /\ Len(Append(relevantBlocks, i)) = Len(relevantBlocks) + 1
      BY <3>1, AppendProperties
    <3> QED
      BY <1>7, <3>1, <3>2 DEF Collect
  <2> QED
    BY <1>1, <1>7, <2>1 DEF Collect, TypeOK, QueryOK, LoopsOK, Control
<1>8. CASE CollectEnd
  BY <1>8 DEF CollectEnd, TypeOK, QueryOK, LoopsOK, Control
<1>9. CASE ReadGood \/ ReadBad
  <2>1. /\ k <= Len(relevantBlocks) /\ k' = k + 1
        /\ UNCHANGED <<query, pc, search, i, relevantBlocks, parse, err, junk>>
    BY <1>9 DEF ReadGood, ReadBad
  <2> QED
    BY <1>1, <2>1 DEF TypeOK, QueryOK, LoopsOK
<1>10. CASE ReadEof \/ ReadLegacy \/ ReadEnd
  BY <1>10 DEF ReadEof, ReadLegacy, ReadEnd, TypeOK, QueryOK, LoopsOK, Control
<1>11. CASE FullScan
  <2>1. length' \in Nat
    BY <1>11, LengthNat DEF FullScan, ScanOpen, ParsePoint, ParseJunk, ParseEnd, TypeOK, QueryOK
  <2>2. offset' \in Nat
    <3>1. CASE ParsePoint
      BY <3>1, Sizes DEF ParsePoint, TypeOK, QueryOK
    <3>2. CASE ParseJunk
      <4>1. PICK n \in 0 .. MaxCount : offset' = offset + HeaderSize + n * FieldSize
        BY <3>2 DEF ParseJunk
      <4>2. n \in Nat /\ FieldSize \in Nat
        BY SizeAssumption
      <4>3. n * FieldSize \in Nat
        BY <4>2
      <4> QED BY <4>1, <4>3, Sizes DEF TypeOK, QueryOK
    <3> QED BY <1>11, <3>1, <3>2 DEF FullScan, ScanOpen, ParseEnd, TypeOK, QueryOK
  <2>3. junk' \in BOOLEAN
    BY <1>11, Zenon DEF FullScan, ScanOpen, ParsePoint, ParseJunk, ParseEnd, TypeOK, QueryOK
  <2>4. UNCHANGED <<query, search, i, relevantBlocks, k, err>> /\ pc' \in {"parse", "done"}
    BY <1>11 DEF FullScan, ScanOpen, ParsePoint, ParseJunk, ParseEnd
  <2> QED BY <1>1, <2>1, <2>2, <2>3, <2>4 DEF TypeOK, QueryOK, LoopsOK, Control
<1>12. CASE UNCHANGED vars
  BY <1>12 DEF vars, TypeOK, QueryOK, LoopsOK
<1> QED
  BY <1>2, <1>3, <1>4, <1>5, <1>6, <1>7, <1>8, <1>9, <1>10, <1>11, <1>12
     DEF Next, QueryWithIndex

\* No loop of a query leaves the index, whatever the file.
THEOREM TypeCorrect == Spec => []TypeOK
BY InitType, NextType, PTL DEF Spec

-----------------------------------------------------------------------------
(* The search finds the overlapping entries. *)

\* Everything before left ends before the range; what was collected is what
\* overlaps up to i.
SearchInv ==
    file.hasIndex /\ EntriesInOrder =>
        /\ pc = "open" => left = 1
        /\ pc = "search" => \A j \in DOMAIN indexes : j < left => EndTime(j) < startTime
        /\ pc \in {"open", "search", "walk"} => relevantBlocks = <<>>
        /\ pc = "collect" => Range(relevantBlocks) = {j \in Overlapping : j < i}
        /\ pc \in {"read", "done"} => Range(relevantBlocks) = Overlapping
        /\ pc \notin {"scan", "parse"}

\* The state functions of the query, in a step that leaves it alone.
LEMMA QueryUnchanged ==
    ASSUME UNCHANGED query
    PROVE  /\ indexes' = indexes /\ Overlapping' = Overlapping
           /\ EntriesInOrder' = EntriesInOrder /\ file.hasIndex' = file.hasIndex
           /\ startTime' = startTime /\ endTime' = endTime
           /\ \A j : StartTime(j)' = StartTime(j) /\ EndTime(j)' = EndTime(j)
BY DEF query, indexes, Overlapping, EntriesInOrder, StartTime, EndTime, BlockOf

LEMMA SearchInductive ==
    /\ Init => SearchInv
    /\ TypeOK /\ SearchInv /\ [Next]_vars => SearchInv'
<1>1. Init => SearchInv
  BY DEF Init, SearchInv
<1>2. ASSUME TypeOK, SearchInv, [Next]_vars PROVE SearchInv'
  <2>0. UNCHANGED query
    BY <1>2 DEF Next, QueryWithIndex, Open, SearchStep, SearchEnd, WalkBack, WalkEnd, Collect,
         CollectEnd, ReadGood, ReadBad, ReadEof, ReadLegacy, ReadEnd, FullScan, ScanOpen, ParsePoint, ParseJunk, ParseEnd,
         vars, query
  <2> SUFFICES ASSUME file.hasIndex, EntriesInOrder PROVE SearchInv'
    BY <2>0, QueryUnchanged DEF SearchInv
  <2>1. /\ Len(indexes) \in Nat /\ DOMAIN indexes = 1 .. Len(indexes)
        /\ \A j \in 1 .. Len(indexes) : StartTime(j) \in Int /\ EndTime(j) \in Int
        /\ startTime \in Int /\ endTime \in Int
    BY <1>2, EntryTimes, ImageAssumption DEF TypeOK, QueryOK, LoopsOK
  <2>2. \A j, l \in 1 .. Len(indexes) :
           j <= l => StartTime(j) <= StartTime(l) /\ EndTime(j) <= EndTime(l)
    BY <2>1 DEF EntriesInOrder
  <2> USE <2>0, QueryUnchanged
  <2>3. CASE Open
    <3>1. left' = 1 /\ pc' = "search" /\ relevantBlocks' = <<>>
      BY <1>2, <2>3 DEF Open, SearchInv
    <3> QED
      BY <3>1, <2>1 DEF SearchInv
  <2>4. CASE SearchStep
    <3> DEFINE m == (left + right) \div 2
    <3>1. m \in 1 .. Len(indexes)
      <4>1. m \in left .. right
        <5>1. left \in Nat /\ right \in Nat /\ left <= right
          BY <1>2, <2>4 DEF SearchStep, TypeOK, QueryOK, LoopsOK
        <5> QED BY <5>1, Middle
      <4> QED
        BY <1>2, <2>1, <4>1 DEF TypeOK, QueryOK, LoopsOK
    <3> HIDE DEF m
    <3>2. CASE EndTime(m) < startTime /\ left' = m + 1 /\ pc' = pc
      <4>1. ASSUME NEW j \in DOMAIN indexes, j < m + 1 PROVE EndTime(j) < startTime
        <5>1. EndTime(j) <= EndTime(m)
          BY <2>1, <2>2, <3>1, <4>1
        <5> QED BY <2>1, <3>1, <3>2, <5>1
      <4> QED
        BY <1>2, <2>4, <3>2, <4>1 DEF SearchStep, SearchInv
    <3>3. CASE left' = left /\ pc' = pc
      BY <1>2, <2>4, <3>3 DEF SearchStep, SearchInv
    <3>4. CASE pc' = "walk"
      BY <1>2, <2>4, <3>4 DEF SearchStep, SearchInv
    <3> QED
      BY <2>4, <3>2, <3>3, <3>4 DEF SearchStep, m
  <2>5. ASSUME pc \in {"search", "walk"}, i' \in 1 .. Len(indexes) + 1, pc' = "collect",
               relevantBlocks' = relevantBlocks,
               \A j \in DOMAIN indexes : j < i' => EndTime(j) < startTime
        PROVE  SearchInv'
    <3>1. Range(relevantBlocks') = {}
      BY <1>2, <2>5 DEF SearchInv, Range
    <3>2. {j \in Overlapping : j < i'} = {}
      BY <2>1, <2>5 DEF Overlapping
    <3> QED
      BY <2>5, <3>1, <3>2 DEF SearchInv
  <2>6. CASE SearchEnd
    BY <1>2, <2>1, <2>5, <2>6 DEF SearchEnd, SearchInv, TypeOK, QueryOK, LoopsOK
  <2>7. CASE WalkBack
    BY <1>2, <2>7 DEF WalkBack, SearchInv
  <2>8. CASE WalkEnd
    <3>1. mid \in 1 .. Len(indexes) /\ i' = mid
      BY <1>2, <2>8 DEF WalkEnd, TypeOK, QueryOK, LoopsOK
    <3>2. \A j \in DOMAIN indexes : j < mid => EndTime(j) < startTime
      <4> SUFFICES ASSUME NEW j \in DOMAIN indexes, j < mid PROVE EndTime(j) < startTime
        OBVIOUS
      <4>1. mid - 1 \in 1 .. Len(indexes) /\ j <= mid - 1 /\ mid > 1
        BY <2>1, <3>1
      <4>2. EndTime(mid - 1) < startTime
        BY <2>1, <2>8, <4>1 DEF WalkEnd
      <4>3. EndTime(j) <= EndTime(mid - 1)
        BY <2>1, <2>2, <4>1
      <4> QED
        BY <2>1, <4>1, <4>2, <4>3
    <3> QED
      BY <2>1, <2>5, <2>8, <3>1, <3>2 DEF WalkEnd
  <2>9. CASE Collect
    <3>1. i \in 1 .. Len(indexes) /\ i' = i + 1 /\ pc' = "collect" /\ StartTime(i) <= endTime
      BY <1>2, <2>9 DEF Collect, TypeOK, QueryOK, LoopsOK
    <3>2. Range(relevantBlocks) = {j \in Overlapping : j < i}
      BY <1>2, <2>9 DEF Collect, SearchInv
    <3>3. CASE EndTime(i) >= startTime
      <4>1. i \in Overlapping
        BY <2>1, <3>1, <3>3 DEF Overlapping
      <4>2. Range(relevantBlocks') = Range(relevantBlocks) \union {i}
        BY <1>2, <2>9, <3>1, <3>3, RangeAppend DEF Collect, TypeOK, QueryOK, LoopsOK
      <4>3. {j \in Overlapping : j < i + 1} = {j \in Overlapping : j < i} \union {i}
        BY <2>1, <3>1, <4>1 DEF Overlapping
      <4> QED
        BY <3>1, <3>2, <4>2, <4>3 DEF SearchInv
    <3>4. CASE ~(EndTime(i) >= startTime)
      <4>1. i \notin Overlapping /\ relevantBlocks' = relevantBlocks
        BY <2>9, <3>4 DEF Collect, Overlapping
      <4>2. {j \in Overlapping : j < i + 1} = {j \in Overlapping : j < i}
        BY <2>1, <3>1, <4>1 DEF Overlapping
      <4> QED
        BY <3>1, <3>2, <4>1, <4>2 DEF SearchInv
    <3> QED
      BY <3>3, <3>4
  <2>10. CASE CollectEnd
    <3>1. /\ i \in 1 .. Len(indexes) + 1 /\ pc' = "read" /\ relevantBlocks' = relevantBlocks
          /\ i <= Len(indexes) => StartTime(i) > endTime
      BY <1>2, <2>1, <2>10 DEF CollectEnd, TypeOK, QueryOK, LoopsOK
    <3>2. Range(relevantBlocks) = {j \in Overlapping : j < i}
      BY <1>2, <2>10 DEF CollectEnd, SearchInv
    <3>3. ASSUME NEW j \in Overlapping PROVE j < i
      <4>1. j \in 1 .. Len(indexes) /\ StartTime(j) <= endTime
        BY <2>1 DEF Overlapping
      <4>2. CASE i <= j
        <5>1. i \in 1 .. Len(indexes) /\ StartTime(i) <= StartTime(j)
          BY <2>1, <2>2, <3>1, <4>1, <4>2
        <5> QED
          BY <2>1, <3>1, <4>1, <5>1
      <4> QED
        BY <2>1, <3>1, <4>1, <4>2
    <3> QED
      BY <3>1, <3>2, <3>3 DEF SearchInv
  <2>11. CASE ReadGood \/ ReadBad \/ ReadEof \/ ReadLegacy \/ ReadEnd
    <3>1. pc = "read" /\ pc' \in {"read", "done"} /\ relevantBlocks' = relevantBlocks
      BY <2>11 DEF ReadGood, ReadBad, ReadEof, ReadLegacy, ReadEnd
    <3> QED
      BY <1>2, <3>1 DEF SearchInv
  <2>12. CASE FullScan
    BY <1>2, <2>12 DEF FullScan, ScanOpen, ParsePoint, ParseJunk, ParseEnd, SearchInv
  <2>13. CASE UNCHANGED vars
    BY <1>2, <2>13 DEF vars, search, SearchInv
  <2> QED
    BY <1>2, <2>3, <2>4, <2>6, <2>7, <2>8, <2>9, <2>10, <2>11, <2>12, <2>13
       DEF Next, QueryWithIndex
<1> QED
  BY <1>1, <1>2

\* On an index in time order the search misses no block and collects no other.
THEOREM SearchCorrect == Spec => []RelevantExact
<1>1. SearchInv => RelevantExact
  BY DEF SearchInv, RelevantExact
<1> QED
  BY <1>1, SearchInductive, TypeCorrect, PTL DEF Spec

-----------------------------------------------------------------------------
(* What the blocks of a file yield. *)

Places == Nat \X Nat
FileOrder == {pq \in Places \X Places : Before(pq[1], pq[2])}

\* parsePoints: the points of the block that lie in the range, in file order.
LEMMA ParsedPoints ==
    ASSUME file \in Image, NEW b \in DOMAIN file.data
    PROVE  /\ Parsed(b) \in Seq(Places)
           /\ Range(Parsed(b)) = Wanted({b})
           /\ Ordered(Parsed(b), FileOrder)
           /\ \A p \in Wanted({b}) : p[1] = b
<1> DEFINE pts == file.data[b].pts
           all == [j \in 1 .. Len(pts) |-> <<b, j>>]
           In == {<<b, j>> : j \in {x \in DOMAIN pts : InRange(pts[x])}}
<1>1. b \in Nat /\ pts \in Seq(Times)
  <2>1. file.data \in Seq(Block)
    BY DEF Image
  <2>2. DOMAIN file.data = 1 .. Len(file.data) /\ Len(file.data) \in Nat /\ file.data[b] \in Block
    BY <2>1, LenProperties
  <2> QED BY <2>2 DEF Block
<1>2. Len(pts) \in Nat /\ DOMAIN pts = 1 .. Len(pts)
  BY <1>1, LenProperties
<1>3. In = Wanted({b}) /\ In \subseteq Places /\ \A p \in In : p[1] = b
  BY <1>1, <1>2 DEF Wanted, Places
<1>4. Parsed(b) = Sift(all, In)
  BY DEF Parsed
<1> DEFINE n == Len(pts)
<1> HIDE DEF pts
<1>5. all \in Seq(Places) /\ Len(all) = n /\ \A j \in 1 .. n : all[j] = <<b, j>>
  <2>1. \A j \in 1 .. n : <<b, j>> \in Places
    BY <1>1, <1>2 DEF Places
  <2> QED BY <1>2, <2>1
<1>6. Range(all) = {<<b, j>> : j \in 1 .. n}
  <2> HIDE DEF all
  <2>1. Range(all) = {all[j] : j \in 1 .. n}
    BY <1>5, RangeEquality
  <2> QED BY <1>5, <2>1
<1> HIDE DEF n, all
<1>7. In \subseteq Range(all)
  BY <1>2, <1>6 DEF n
<1>8. Ordered(all, FileOrder)
  <2>1. ASSUME NEW x \in 1 .. n, NEW y \in 1 .. n, x < y PROVE <<all[x], all[y]>> \in FileOrder
    <3>1. all[x] = <<b, x>> /\ all[y] = <<b, y>> /\ all[x] \in Places /\ all[y] \in Places
      BY <1>1, <1>2, <1>5 DEF Places, n
    <3>2. Before(all[x], all[y])
      BY <2>1, <3>1 DEF Before
    <3> QED BY <3>1, <3>2 DEF FileOrder
  <2> QED BY <1>5, <2>1 DEF Ordered
<1> HIDE DEF In
<1>9. /\ Sift(all, In) \in Seq(Places \intersect In)
      /\ Range(Sift(all, In)) = Range(all) \intersect In
      /\ Ordered(Sift(all, In), FileOrder)
  BY <1>5, <1>8, SiftType, SiftRange, SiftOrdered
<1>10. Sift(all, In) \in Seq(Places)
  BY <1>9, SeqMonotonic
<1> QED BY <1>3, <1>4, <1>7, <1>9, <1>10

\* Wanted points of more blocks, and what is the same in every step of a query.
LEMMA WantedUnion ==
    ASSUME NEW A, NEW B
    PROVE  Wanted(A \union B) = Wanted(A) \union Wanted(B) /\ Wanted({}) = {}
BY DEF Wanted

\* The blocks that can be read, and the hypothesis of QueryComplete.
Good == {b \in DOMAIN file.data : file.data[b].read = "good"}
Readable == \A j \in Overlapping : BlockOf(j).fmt # "legacy" /\ BlockOf(j).read # "eof"

Upwards == {xy \in Nat \X Nat : xy[1] < xy[2]}

\* The blocks are found, and read, upwards in the file.
AnswerInv ==
    file.hasIndex =>
        /\ pc \notin {"scan", "parse"} /\ ~junk
        /\ pc \in {"open", "search", "walk"} => relevantBlocks = <<>>
        /\ Ordered(relevantBlocks, Upwards)
        /\ pc = "collect" => \A e \in Range(relevantBlocks) : e < i
        /\ pc \notin {"read", "done"} => allPoints = <<>> /\ k = 1
        /\ allPoints \in Seq(Places) /\ Ordered(allPoints, FileOrder)
        /\ Range(allPoints) \subseteq Wanted(Good)
        /\ pc = "read" =>
             \A p \in Range(allPoints), x \in k .. Len(relevantBlocks) :
                p[1] < indexes[relevantBlocks[x]]

\* A step leaves the query, and with it what its blocks yield, alone.
LEMMA FileUnchanged ==
    ASSUME [Next]_vars
    PROVE  /\ UNCHANGED query
           /\ \A B : Wanted(B)' = Wanted(B)
           /\ Good' = Good /\ indexes' = indexes
           /\ InTimeOrder' = InTimeOrder /\ Readable' = Readable
<1>1. UNCHANGED query
  BY DEF Next, QueryWithIndex, Open, SearchStep, SearchEnd, WalkBack, WalkEnd, Collect,
       CollectEnd, ReadGood, ReadBad, ReadEof, ReadLegacy, ReadEnd, FullScan, ScanOpen, ParsePoint, ParseJunk, ParseEnd,
         vars, query
<1>2. UNCHANGED <<file, startTime, endTime>>
  BY <1>1 DEF query
<1>3. \A B : Wanted(B)' = Wanted(B)
  BY <1>2 DEF Wanted, InRange
<1>4. Good' = Good /\ indexes' = indexes /\ InTimeOrder' = InTimeOrder
  BY <1>2 DEF Good, indexes, InTimeOrder
<1>5. Overlapping' = Overlapping
  BY <1>1, QueryUnchanged
<1>6. Readable' = Readable
  BY <1>2, <1>5 DEF Readable, BlockOf, indexes
<1> QED BY <1>1, <1>3, <1>4, <1>6

LEMMA InitAnswer == Init => AnswerInv
<1> SUFFICES ASSUME Init PROVE AnswerInv
  OBVIOUS
<1>1. <<>> \in Seq(Places) /\ Range(<<>>) = {} /\ Len(<<>>) = 0
  BY EmptySeq DEF Range
<1>2. Ordered(<<>>, FileOrder) /\ Ordered(<<>>, Upwards)
  BY <1>1 DEF Ordered
<1> QED BY <1>1, <1>2 DEF Init, AnswerInv

\* Reading the k-th block found: its points are later in the file than those of
\* the blocks before it, and earlier than those of the blocks after it.
LEMMA NextBlock ==
    ASSUME TypeOK, AnswerInv, file.hasIndex, pc = "read", k <= Len(relevantBlocks)
    PROVE  /\ Current \in DOMAIN file.data /\ Current \in Nat
           /\ \A p \in Range(allPoints) : p[1] < Current
           /\ \A x \in k + 1 .. Len(relevantBlocks) : Current < indexes[relevantBlocks[x]]
<1>1. /\ file \in Image /\ relevantBlocks \in Seq(1 .. Len(indexes)) /\ k \in 1 .. Len(relevantBlocks)
  BY LenProperties DEF TypeOK, QueryOK, LoopsOK
<1>2. /\ DOMAIN indexes = 1 .. Len(indexes) /\ Len(indexes) \in Nat
      /\ \A x \in 1 .. Len(relevantBlocks) : relevantBlocks[x] \in 1 .. Len(indexes)
      /\ Len(relevantBlocks) \in Nat
  BY <1>1, EntryTimes, LenProperties
<1>3. /\ indexes \in Seq(Nat)
      /\ \A j \in DOMAIN indexes : indexes[j] \in DOMAIN file.data
      /\ \A j, l \in DOMAIN indexes : j < l => indexes[j] < indexes[l]
  BY <1>1 DEF Image, indexes
<1>4. Current \in DOMAIN file.data /\ Current \in Nat
  BY <1>1, <1>2, <1>3 DEF Current
<1>5. \A p \in Range(allPoints) : p[1] < Current
  BY <1>1 DEF AnswerInv, Current
<1>6. ASSUME NEW x \in k + 1 .. Len(relevantBlocks) PROVE Current < indexes[relevantBlocks[x]]
  <2>1. x \in 1 .. Len(relevantBlocks) /\ k < x
    BY <1>1, <1>6
  <2>2. <<relevantBlocks[k], relevantBlocks[x]>> \in Upwards
    BY <1>1, <2>1 DEF AnswerInv, Ordered
  <2>3. relevantBlocks[k] < relevantBlocks[x]
    BY <2>2 DEF Upwards
  <2> QED BY <1>1, <1>2, <1>3, <2>1, <2>3 DEF Current
<1> QED BY <1>4, <1>5, <1>6

LEMMA StepAnswer == TypeOK /\ AnswerInv /\ [Next]_vars => AnswerInv'
<1> SUFFICES ASSUME TypeOK, AnswerInv, [Next]_vars, file.hasIndex PROVE AnswerInv'
  BY FileUnchanged DEF AnswerInv, query
<1>0. /\ UNCHANGED <<file, startTime, endTime>> /\ indexes' = indexes /\ Good' = Good
      /\ \A B : Wanted(B)' = Wanted(B)
  BY FileUnchanged DEF query
<1>t. /\ relevantBlocks \in Seq(1 .. Len(indexes)) /\ Len(relevantBlocks) \in Nat
      /\ file \in Image /\ Len(indexes) \in Nat /\ k \in Nat
  BY LenProperties, EntryTimes DEF TypeOK, QueryOK, LoopsOK
<1>r. Range(<<>>) = {}
  BY EmptySeq DEF Range
<1> USE DEF query, search, parse, answer
<1>1. CASE Open
  BY <1>0, <1>1 DEF Open, AnswerInv
<1>2. CASE SearchStep
  BY <1>0, <1>2 DEF SearchStep, AnswerInv
<1>3. CASE SearchEnd \/ WalkEnd
  BY <1>0, <1>3, <1>r DEF SearchEnd, WalkEnd, AnswerInv
<1>4. CASE WalkBack
  BY <1>0, <1>4 DEF WalkBack, AnswerInv
<1>5. CASE Collect
  <2>1. /\ pc = "collect" /\ pc' = "collect" /\ i' = i + 1 /\ i \in 1 .. Len(indexes)
        /\ UNCHANGED <<k, allPoints, junk>>
        /\ relevantBlocks' \in {relevantBlocks, Append(relevantBlocks, i)}
    BY <1>5, <1>t DEF Collect, TypeOK, LoopsOK
  <2>2. /\ Ordered(relevantBlocks, Upwards)
        /\ \A e \in Range(relevantBlocks) : e \in Nat /\ e < i
    <3>1. Range(relevantBlocks) \subseteq 1 .. Len(indexes)
      BY <1>t, RangeOfSeq
    <3> QED BY <2>1, <3>1 DEF AnswerInv
  <2>3. /\ Ordered(Append(relevantBlocks, i), Upwards)
        /\ Range(Append(relevantBlocks, i)) = Range(relevantBlocks) \union {i}
    <3>1. \A e \in Range(relevantBlocks) : <<e, i>> \in Upwards
      BY <2>1, <2>2 DEF Upwards
    <3> QED BY <1>t, <2>1, <2>2, <3>1, OrderedAppend, RangeAppend
  <2>4. Ordered(relevantBlocks', Upwards) /\ \A e \in Range(relevantBlocks') : e < i'
    <3>1. \A e \in Nat : e < i => e < i + 1
      BY <2>1
    <3>2. i < i + 1
      BY <2>1
    <3>3. CASE relevantBlocks' = relevantBlocks
      BY <2>1, <2>2, <3>1, <3>3
    <3>4. CASE relevantBlocks' = Append(relevantBlocks, i)
      BY <2>1, <2>2, <2>3, <3>1, <3>2, <3>4
    <3> QED BY <2>1, <3>3, <3>4
  <2> QED BY <1>0, <2>1, <2>4 DEF AnswerInv
<1>6. CASE CollectEnd
  BY <1>0, <1>6, <1>r DEF CollectEnd, AnswerInv
<1>7. CASE ReadGood
  <2>1. /\ pc = "read" /\ pc' = "read" /\ k <= Len(relevantBlocks) /\ k' = k + 1
        /\ allPoints' = allPoints \o Parsed(Current) /\ UNCHANGED <<relevantBlocks, i, junk>>
        /\ Current \in Good
    <3>1. Current \in DOMAIN file.data
      BY <1>7, NextBlock DEF ReadGood
    <3> QED BY <1>7, <3>1 DEF ReadGood, Good
  <2>2. /\ Current \in DOMAIN file.data /\ Current \in Nat
        /\ \A p \in Range(allPoints) : p[1] < Current
        /\ \A x \in k + 1 .. Len(relevantBlocks) : Current < indexes[relevantBlocks[x]]
    BY <2>1, NextBlock
  <2>3. /\ Parsed(Current) \in Seq(Places) /\ Range(Parsed(Current)) = Wanted({Current})
        /\ Ordered(Parsed(Current), FileOrder)
        /\ \A p \in Wanted({Current}) : p[1] = Current
    BY <1>t, <2>2, ParsedPoints
  <2>4. /\ allPoints \in Seq(Places) /\ Ordered(allPoints, FileOrder)
        /\ Range(allPoints) \subseteq Wanted(Good)
        /\ \A p \in Range(allPoints), x \in k .. Len(relevantBlocks) : p[1] < indexes[relevantBlocks[x]]
    BY <2>1 DEF AnswerInv
  <2>5. /\ allPoints' \in Seq(Places)
        /\ Range(allPoints') = Range(allPoints) \union Wanted({Current})
    BY <2>1, <2>3, <2>4, ConcatProperties, RangeConcatenation
  <2>6. Ordered(allPoints', FileOrder)
    <3>1. Range(allPoints) \subseteq Places /\ Range(Parsed(Current)) \subseteq Places
      BY <2>3, <2>4, RangeOfSeq
    <3>2. \A p \in Range(allPoints), q \in Range(Parsed(Current)) : <<p, q>> \in FileOrder
      BY <2>2, <2>3, <3>1 DEF FileOrder, Before, Places
    <3> QED BY <2>1, <2>3, <2>4, <3>2, OrderedConcat
  <2>7. Wanted({Current}) \subseteq Wanted(Good)
    BY <2>1 DEF Wanted
  <2>8. ASSUME NEW p \in Range(allPoints'), NEW x \in k' .. Len(relevantBlocks)
        PROVE  p[1] < indexes[relevantBlocks[x]]
    <3>1. x \in k + 1 .. Len(relevantBlocks) /\ x \in k .. Len(relevantBlocks)
      BY <1>t, <2>1, <2>8
    <3> QED BY <2>2, <2>3, <2>4, <2>5, <2>8, <3>1
  <2>9. Range(allPoints') \subseteq Wanted(Good)
    BY <2>4, <2>5, <2>7
  <2> QED BY <1>0, <2>1, <2>5, <2>6, <2>8, <2>9 DEF AnswerInv
<1>8. CASE ReadBad
  <2>1. k + 1 .. Len(relevantBlocks) \subseteq k .. Len(relevantBlocks)
    BY <1>t
  <2> QED BY <1>0, <1>8, <2>1 DEF ReadBad, AnswerInv
<1>9. CASE ReadEof
  <2>1. <<>> \in Seq(Places) /\ Ordered(<<>>, FileOrder)
    BY EmptySeq DEF Ordered
  <2> QED BY <1>0, <1>9, <1>r, <2>1 DEF ReadEof, AnswerInv
<1>10. CASE ReadLegacy
  <2>1. Current \in DOMAIN file.data
    BY <1>10, NextBlock DEF ReadLegacy
  <2>2. Current \in Good
    BY <1>10, <2>1 DEF ReadLegacy, Good
  <2>3. Wanted({Current}) \subseteq Wanted(Good)
    BY <2>2 DEF Wanted
  <2>4. /\ Parsed(Current) \in Seq(Places) /\ Range(Parsed(Current)) = Wanted({Current})
        /\ Ordered(Parsed(Current), FileOrder)
    BY <1>t, <2>1, ParsedPoints
  <2> QED BY <1>0, <1>10, <2>3, <2>4 DEF ReadLegacy, AnswerInv
<1>11. CASE ReadEnd
  BY <1>0, <1>11 DEF ReadEnd, AnswerInv
<1>12. CASE FullScan
  BY <1>12 DEF FullScan, ScanOpen, ParsePoint, ParseJunk, ParseEnd, AnswerInv
<1>13. CASE UNCHANGED vars
  BY <1>0, <1>13 DEF vars, AnswerInv
<1> QED
  BY <1>1, <1>2, <1>3, <1>4, <1>5, <1>6, <1>7, <1>8, <1>9, <1>10, <1>11, <1>12, <1>13
     DEF Next, QueryWithIndex

\* Whatever the order of the timestamps and the damage to the file: a query by
\* index returns no point twice, out of file order, out of the range, or from a
\* block that failed its checksum (QueryWithIndex).
THEOREM AnswerCorrect == Spec => []AnswerSound
<1>1. TypeOK /\ AnswerInv => AnswerSound
  <2> SUFFICES ASSUME TypeOK, AnswerInv, file.hasIndex PROVE AnswerSound
    BY DEF AnswerSound
  <2>1. DOMAIN allPoints = 1 .. Len(allPoints)
    BY LenProperties DEF AnswerInv
  <2>2. \A x, y \in DOMAIN allPoints : x < y => Before(allPoints[x], allPoints[y])
    BY <2>1 DEF AnswerInv, Ordered, FileOrder
  <2> QED BY <2>2 DEF AnswerInv, AnswerSound, Good
<1> QED
  BY <1>1, InitAnswer, StepAnswer, TypeCorrect, PTL DEF Spec

-----------------------------------------------------------------------------
(* No point of a block that can be read is missing. *)

\* Points in time order make entries in time order.
LEMMA OrderedFile ==
    ASSUME file \in Image, InTimeOrder
    PROVE  EntriesInOrder
<1>1. /\ file.data \in Seq(Block) /\ DOMAIN indexes = 1 .. Len(indexes)
      /\ \A j \in DOMAIN indexes : indexes[j] \in DOMAIN file.data
      /\ \A j, l \in DOMAIN indexes : j < l => indexes[j] < indexes[l]
  BY EntryTimes DEF Image, indexes
<1>2. ASSUME NEW b \in DOMAIN file.data
      PROVE  1 \in DOMAIN file.data[b].pts /\ Len(file.data[b].pts) \in DOMAIN file.data[b].pts
             /\ 1 <= Len(file.data[b].pts)
  <2>1. file.data[b] \in Block
    BY <1>1, LenProperties
  <2>2. file.data[b].pts \in Seq(Times) /\ file.data[b].pts # <<>>
    BY <2>1 DEF Block
  <2> DEFINE s == file.data[b].pts
  <2> HIDE DEF s
  <2>3. Len(s) \in Nat \ {0} /\ DOMAIN s = 1 .. Len(s)
    BY <2>2, LenProperties, EmptySeq DEF s
  <2> QED BY <2>3 DEF s
<1>3. \A j \in DOMAIN indexes : StartTime(j) <= EndTime(j)
  BY <1>1, <1>2 DEF InTimeOrder, StartTime, EndTime, BlockOf
<1>4. ASSUME NEW j \in DOMAIN indexes, NEW l \in DOMAIN indexes, j < l PROVE EndTime(j) <= StartTime(l)
  BY <1>1, <1>2, <1>4 DEF InTimeOrder, StartTime, EndTime, BlockOf
<1> QED BY <1>3, <1>4 DEF EntriesInOrder

\* A block whose entry does not overlap the range has none of its points.
LEMMA OutOfRange ==
    ASSUME file \in Image, InTimeOrder, startTime \in Int, endTime \in Int,
           NEW j \in DOMAIN indexes, j \notin Overlapping
    PROVE  Wanted({indexes[j]}) = {}
<1> DEFINE b == indexes[j]
           pts == file.data[b].pts
<1>1. /\ b \in DOMAIN file.data /\ StartTime(j) \in Int /\ EndTime(j) \in Int
      /\ file.data \in Seq(Block)
  BY EntryTimes DEF Image, indexes
<1>2. pts \in Seq(Times) /\ pts # <<>>
  <2>1. file.data[b] \in Block
    BY <1>1, LenProperties
  <2> QED BY <2>1 DEF Block
<1>3. StartTime(j) = pts[1] /\ EndTime(j) = pts[Len(pts)]
  BY DEF StartTime, EndTime, BlockOf
<1>4. \A x, y \in DOMAIN pts : x <= y => pts[x] <= pts[y]
  BY <1>1 DEF InTimeOrder
<1>5. Wanted({b}) = {<<b, x>> : x \in {x \in DOMAIN pts : InRange(pts[x])}}
  BY DEF Wanted
<1> HIDE DEF pts
<1>6. Len(pts) \in Nat \ {0} /\ DOMAIN pts = 1 .. Len(pts) /\ \A x \in DOMAIN pts : pts[x] \in Int
  <2>1. Len(pts) \in Nat \ {0} /\ DOMAIN pts = 1 .. Len(pts) /\ \A x \in 1 .. Len(pts) : pts[x] \in Times
    BY <1>2, LenProperties, EmptySeq
  <2> QED BY <2>1, ImageAssumption
<1>7. ASSUME NEW x \in DOMAIN pts, InRange(pts[x]) PROVE FALSE
  <2>1. pts[1] <= pts[x] /\ pts[x] <= pts[Len(pts)]
    BY <1>4, <1>6
  <2>2. startTime <= pts[x] /\ pts[x] <= endTime
    BY <1>7 DEF InRange
  <2>3. pts[1] \in Int /\ pts[x] \in Int /\ pts[Len(pts)] \in Int
    BY <1>6
  <2>4. StartTime(j) <= endTime /\ EndTime(j) >= startTime
    BY <1>3, <2>1, <2>2, <2>3
  <2> QED BY <2>4 DEF Overlapping
<1> QED BY <1>5, <1>7

\* The readable blocks among the first n found.
GoodFound(n) == {b \in {indexes[relevantBlocks[x]] : x \in 1 .. n} : b \in Good}

\* The answer has the points of the readable blocks up to the k-th; the blocks
\* that were not found have none.
CompleteInv ==
    file.hasIndex /\ InTimeOrder /\ Readable =>
        /\ pc = "read" => Range(allPoints) = Wanted(GoodFound(k - 1))
        /\ pc = "done" => Range(allPoints) = Wanted({b \in Range(indexes) : b \in Good})

LEMMA FoundAll ==
    ASSUME TypeOK, SearchInv, file.hasIndex, InTimeOrder, pc = "read"
    PROVE  Wanted(GoodFound(Len(relevantBlocks))) = Wanted({b \in Range(indexes) : b \in Good})
<1>1. /\ file \in Image /\ startTime \in Int /\ endTime \in Int
      /\ relevantBlocks \in Seq(1 .. Len(indexes))
      /\ DOMAIN indexes = 1 .. Len(indexes)
  BY ImageAssumption, EntryTimes DEF TypeOK, QueryOK, LoopsOK
<1>2. Range(relevantBlocks) = Overlapping
  BY <1>1, OrderedFile DEF SearchInv
<1>3. Range(relevantBlocks) = {relevantBlocks[x] : x \in 1 .. Len(relevantBlocks)}
  BY <1>1, RangeEquality
<1>4. GoodFound(Len(relevantBlocks)) = {b \in {indexes[j] : j \in Overlapping} : b \in Good}
  BY <1>2, <1>3 DEF GoodFound
<1>5. Range(indexes) = {indexes[j] : j \in DOMAIN indexes} /\ Overlapping \subseteq DOMAIN indexes
  BY DEF Range, Overlapping
<1>6. ASSUME NEW p \in Wanted({b \in Range(indexes) : b \in Good})
      PROVE  p \in Wanted({b \in {indexes[j] : j \in Overlapping} : b \in Good})
  <2>1. PICK b \in Range(indexes) : b \in Good /\ p \in Wanted({b})
    BY DEF Wanted
  <2>2. PICK j \in DOMAIN indexes : b = indexes[j]
    BY <1>5
  <2>3. j \in Overlapping
    BY <1>1, <2>1, <2>2, OutOfRange
  <2> QED BY <2>1, <2>2, <2>3 DEF Wanted
<1>7. ASSUME NEW p \in Wanted({b \in {indexes[j] : j \in Overlapping} : b \in Good})
      PROVE  p \in Wanted({b \in Range(indexes) : b \in Good})
  BY <1>5 DEF Wanted
<1> QED BY <1>4, <1>6, <1>7

LEMMA StepComplete ==
    TypeOK /\ SearchInv /\ AnswerInv /\ CompleteInv /\ [Next]_vars => CompleteInv'
<1> SUFFICES ASSUME TypeOK, SearchInv, AnswerInv, CompleteInv, [Next]_vars,
                    file.hasIndex, InTimeOrder, Readable
             PROVE  CompleteInv'
  BY FileUnchanged DEF CompleteInv, query
<1>0. /\ UNCHANGED <<file, startTime, endTime>> /\ indexes' = indexes /\ Good' = Good
      /\ \A B : Wanted(B)' = Wanted(B)
  BY FileUnchanged DEF query
<1>t. /\ file \in Image /\ relevantBlocks \in Seq(1 .. Len(indexes)) /\ Len(relevantBlocks) \in Nat
      /\ k \in 1 .. Len(relevantBlocks) + 1
  BY LenProperties DEF TypeOK, QueryOK, LoopsOK
<1>f. ASSUME relevantBlocks' = relevantBlocks, NEW n, k' - 1 = n
      PROVE  Wanted(GoodFound(k - 1))' = Wanted(GoodFound(n))
  <2>1. GoodFound(k - 1)' = GoodFound(n)
    BY <1>0, <1>f DEF GoodFound
  <2> QED BY <1>0, <2>1 DEF Wanted, InRange
<1>o. pc = "read" /\ k <= Len(relevantBlocks) =>
         relevantBlocks[k] \in Overlapping /\ Current = indexes[relevantBlocks[k]]
  <2>1. pc = "read" => Range(relevantBlocks) = Overlapping
    BY <1>t, OrderedFile DEF SearchInv
  <2>2. Range(relevantBlocks) = {relevantBlocks[x] : x \in 1 .. Len(relevantBlocks)}
    BY <1>t, RangeEquality
  <2>3. k <= Len(relevantBlocks) => k \in 1 .. Len(relevantBlocks)
    BY <1>t
  <2> QED BY <2>1, <2>2, <2>3 DEF Current
<1>g. ASSUME pc = "read", k <= Len(relevantBlocks)
      PROVE  GoodFound(k) = GoodFound(k - 1) \union {b \in {Current} : b \in Good}
  <2>1. 1 .. k = (1 .. k - 1) \union {k}
    BY <1>t
  <2> QED BY <1>g, <1>o, <2>1 DEF GoodFound
<1> USE DEF query, search, parse, answer
<1>1. CASE Open \/ SearchStep \/ SearchEnd \/ WalkBack \/ WalkEnd \/ Collect
  <2>1. pc' \notin {"read", "done"}
    BY <1>1 DEF Open, SearchStep, SearchEnd, WalkBack, WalkEnd, Collect
  <2> QED BY <2>1 DEF CompleteInv
<1>2. CASE CollectEnd
  <2>1. pc' = "read" /\ allPoints' = <<>> /\ k' = 1 /\ relevantBlocks' = relevantBlocks
    BY <1>2 DEF CollectEnd, AnswerInv
  <2>2. GoodFound(0) = {}
    BY DEF GoodFound
  <2>3. Range(allPoints') = {}
    BY <2>1, EmptySeq DEF Range
  <2>4. Range(allPoints)' = Wanted(GoodFound(0))
    BY <2>2, <2>3, WantedUnion
  <2>5. Wanted(GoodFound(k - 1))' = Wanted(GoodFound(0))
    <3>1. k' - 1 = 0
      BY <2>1
    <3> QED BY <1>f, <2>1, <3>1
  <2> QED BY <2>1, <2>4, <2>5 DEF CompleteInv
<1>3. CASE ReadGood
  <2>1. /\ pc = "read" /\ pc' = "read" /\ k <= Len(relevantBlocks) /\ k' = k + 1
        /\ allPoints' = allPoints \o Parsed(Current) /\ relevantBlocks' = relevantBlocks
        /\ file.data[Current].read = "good"
    BY <1>3 DEF ReadGood
  <2>2. Current \in DOMAIN file.data /\ Current \in Good
    BY <2>1, NextBlock DEF Good
  <2>3. Parsed(Current) \in Seq(Places) /\ Range(Parsed(Current)) = Wanted({Current})
    BY <1>t, <2>2, ParsedPoints
  <2>4. Range(allPoints') = Range(allPoints) \union Wanted({Current})
    BY <2>1, <2>3, RangeConcatenation DEF AnswerInv
  <2>5. GoodFound(k) = GoodFound(k - 1) \union {Current}
    BY <1>g, <2>1, <2>2
  <2>6. Range(allPoints) = Wanted(GoodFound(k - 1))
    BY <2>1 DEF CompleteInv
  <2>7. Range(allPoints)' = Wanted(GoodFound(k))
    BY <2>4, <2>5, <2>6, WantedUnion
  <2>8. k' - 1 = k
    BY <1>t, <2>1
  <2>9. Wanted(GoodFound(k - 1))' = Wanted(GoodFound(k))
    BY <1>f, <2>1, <2>8
  <2> QED BY <2>1, <2>7, <2>9 DEF CompleteInv
<1>4. CASE ReadBad
  <2>1. /\ pc = "read" /\ pc' = "read" /\ k <= Len(relevantBlocks) /\ k' = k + 1
        /\ allPoints' = allPoints /\ relevantBlocks' = relevantBlocks
        /\ Current \notin Good
    BY <1>4 DEF ReadBad, Good
  <2>2. GoodFound(k) = GoodFound(k - 1)
    BY <1>g, <2>1
  <2>3. Range(allPoints)' = Wanted(GoodFound(k))
    BY <2>1, <2>2 DEF CompleteInv
  <2>4. k' - 1 = k
    BY <1>t, <2>1
  <2>5. Wanted(GoodFound(k - 1))' = Wanted(GoodFound(k))
    BY <1>f, <2>1, <2>4
  <2> QED BY <2>1, <2>3, <2>5 DEF CompleteInv
<1>5. CASE ReadEof \/ ReadLegacy
  BY <1>5, <1>o DEF ReadEof, ReadLegacy, Readable, BlockOf
<1>6. CASE ReadEnd
  <2>1. /\ pc = "read" /\ pc' = "done" /\ k > Len(relevantBlocks)
        /\ allPoints' = allPoints
    BY <1>6 DEF ReadEnd
  <2>2. k - 1 = Len(relevantBlocks)
    BY <1>t, <2>1
  <2>3. Range(allPoints) = Wanted({b \in Range(indexes) : b \in Good})
    BY <2>1, <2>2, FoundAll DEF CompleteInv
  <2> QED BY <1>0, <2>1, <2>3 DEF CompleteInv
<1>7. CASE FullScan
  BY <1>7 DEF FullScan, ScanOpen, ParsePoint, ParseJunk, ParseEnd, AnswerInv
<1>8. CASE UNCHANGED vars
  <2>1. /\ pc' = pc /\ k' = k /\ relevantBlocks' = relevantBlocks /\ Range(allPoints)' = Range(allPoints)
    BY <1>8 DEF vars
  <2>2. Wanted(GoodFound(k - 1))' = Wanted(GoodFound(k - 1))
    BY <1>f, <2>1
  <2> QED BY <1>0, <2>1, <2>2 DEF CompleteInv
<1> QED
  BY <1>1, <1>2, <1>3, <1>4, <1>5, <1>6, <1>7, <1>8 DEF Next, QueryWithIndex

\* For points written in time order a query by index returns every point of the
\* range in every indexed block it can read; a damaged block costs its own points
\* and no others (binarySearchIndex and QueryWithIndex together).
THEOREM AnswerComplete == Spec => []QueryComplete
<1>1. Init => CompleteInv
  BY DEF Init, CompleteInv
<1>2. TypeOK /\ CompleteInv => QueryComplete
  <2> SUFFICES ASSUME TypeOK, CompleteInv, pc = "done", file.hasIndex, InTimeOrder, Readable
               PROVE  Range(allPoints) = Wanted({b \in Range(indexes) : file.data[b].read = "good"})
    BY DEF QueryComplete, Readable
  <2>1. Range(indexes) \subseteq DOMAIN file.data
    BY DEF TypeOK, QueryOK, Image, Range, indexes
  <2>2. {b \in Range(indexes) : b \in Good} = {b \in Range(indexes) : file.data[b].read = "good"}
    BY <2>1 DEF Good
  <2> QED BY <2>2 DEF CompleteInv
<1> QED
  BY <1>1, <1>2, InitAnswer, StepAnswer, StepComplete, SearchInductive, TypeCorrect, PTL DEF Spec

-----------------------------------------------------------------------------
(* The full scan. *)

At(p) == Start(p[1], p[2])

\* A multiple of a size is at least a size away from the next.
LEMMA Spaced ==
    ASSUME NEW P \in Nat, NEW m \in Nat, NEW n \in Nat, m < n
    PROVE  m * P + P <= n * P /\ (m + 1) * P = m * P + P /\ m * P \in Nat
<1> DEFINE d == n - (m + 1)
<1>1. d \in Nat /\ n = (m + 1) + d
  OBVIOUS
<1> HIDE DEF d
<1>2. n * P = (m + 1) * P + d * P
  BY <1>1
<1>3. (m + 1) * P = m * P + P
  OBVIOUS
<1>4. d * P \in Nat /\ m * P \in Nat
  BY <1>1
<1> QED BY <1>2, <1>3, <1>4

\* Blocks end in the order they are in.
LEMMA Behind ==
    ASSUME file \in Image
    PROVE  \A b, c \in 0 .. Len(file.data) : b <= c => Ends[b] <= Ends[c]
<1> DEFINE N == Len(file.data)
           E == {c \in 0 .. N : \A b \in 0 .. N : b <= c => Ends[b] <= Ends[c]}
<1>1. /\ N \in Nat /\ \A b \in 0 .. N : Ends[b] \in Nat
      /\ \A b \in 1 .. N : Ends[b] = Ends[b - 1] + BlockSize(b) /\ BlockSize(b) \in Nat
  BY Layout
<1> HIDE DEF N
<1>2. 0 \in E
  <2>1. \A b \in 0 .. N : b <= 0 => b = 0
    OBVIOUS
  <2> QED BY <1>1, <2>1
<1>3. ASSUME NEW c \in 0 .. N - 1, c \in E PROVE c + 1 \in E
  <2>1. c + 1 \in 1 .. N /\ (c + 1) - 1 = c /\ c \in 0 .. N /\ c + 1 \in 0 .. N
    BY <1>1
  <2>2. Ends[c] <= Ends[c + 1] /\ Ends[c] \in Nat /\ Ends[c + 1] \in Nat
    BY <1>1, <2>1
  <2>3. ASSUME NEW b \in 0 .. N, b <= c + 1 PROVE Ends[b] <= Ends[c + 1]
    <3>1. CASE b = c + 1
      BY <2>2, <3>1
    <3>2. CASE b <= c
      BY <1>1, <1>3, <2>2, <3>2
    <3> QED BY <2>1, <2>3, <3>1, <3>2
  <2> QED BY <2>1, <2>3
<1> HIDE DEF E
<1>4. 0 .. N \subseteq E
  BY <1>1, <1>2, <1>3, UpToInduction
<1> QED BY <1>4 DEF E, N

\* Where a point begins, and where the points of its block end.
LEMMA Places1 ==
    ASSUME file \in Image, NEW p \in Points
    PROVE  /\ p \in Places /\ p = <<p[1], p[2]>>
           /\ p[1] \in 1 .. Len(file.data) /\ p[2] \in 1 .. Len(file.data[p[1]].pts)
           /\ At(p) = Ends[p[1] - 1] + (p[2] - 1) * PointSize
           /\ At(p) \in Nat /\ Ends[p[1] - 1] <= At(p)
           /\ At(p) + PointSize <= Ends[p[1] - 1] + Len(file.data[p[1]].pts) * PointSize
<1>1. PICK b \in DOMAIN file.data : \E j \in DOMAIN file.data[b].pts : p = <<b, j>>
  BY DEF Points
<1>2. PICK j \in DOMAIN file.data[b].pts : p = <<b, j>>
  BY <1>1
<1>3. /\ b \in 1 .. Len(file.data) /\ j \in 1 .. Len(file.data[b].pts)
      /\ Len(file.data[b].pts) \in Nat /\ Len(file.data) \in Nat
  BY <1>1, <1>2, Layout
<1>4. p[1] = b /\ p[2] = j
  BY <1>2
<1>5. Ends[b - 1] \in Nat
  <2>1. b - 1 \in 0 .. Len(file.data)
    BY <1>3
  <2> QED BY <2>1, Layout
<1> DEFINE m == j - 1
           n == Len(file.data[b].pts)
<1>6. m \in Nat /\ n \in Nat /\ m < n
  BY <1>3
<1>7. At(p) = Ends[b - 1] + m * PointSize
  BY <1>4 DEF At, Start
<1> HIDE DEF m, n
<1>8. m * PointSize + PointSize <= n * PointSize /\ m * PointSize \in Nat
  BY <1>6, Spaced, Sizes
<1>9. n * PointSize \in Nat
  BY <1>3, Layout DEF n
<1>10. At(p) \in Nat /\ Ends[b - 1] <= At(p) /\ At(p) + PointSize <= Ends[b - 1] + n * PointSize
  BY <1>5, <1>7, <1>8, <1>9, Sizes
<1>11. p \in Places
  BY <1>2, <1>3 DEF Places
<1> QED BY <1>2, <1>3, <1>4, <1>7, <1>10, <1>11 DEF m, n

\* Two points are not on top of each other.
LEMMA Apart ==
    ASSUME file \in Image, NEW p \in Points, NEW q \in Points, Before(p, q)
    PROVE  At(p) + PointSize <= At(q)
<1>1. /\ p[1] \in 1 .. Len(file.data) /\ q[1] \in 1 .. Len(file.data)
      /\ p[2] \in 1 .. Len(file.data[p[1]].pts) /\ q[2] \in 1 .. Len(file.data[q[1]].pts)
      /\ At(p) = Ends[p[1] - 1] + (p[2] - 1) * PointSize
      /\ At(q) = Ends[q[1] - 1] + (q[2] - 1) * PointSize
      /\ At(p) + PointSize <= Ends[p[1] - 1] + Len(file.data[p[1]].pts) * PointSize
      /\ Ends[q[1] - 1] <= At(q) /\ At(p) \in Nat /\ At(q) \in Nat
  BY Places1
<1>r. Len(file.data) \in Nat /\ p[1] \in 1 .. Len(file.data) /\ q[1] \in 1 .. Len(file.data)
  BY <1>1, Layout
<1>s. \A N \in Nat : \A b, c \in 1 .. N :
        b - 1 \in 0 .. N /\ b \in 0 .. N /\ c - 1 \in 0 .. N /\ (b < c => b <= c - 1)
  OBVIOUS
<1>2. CASE p[1] = q[1] /\ p[2] < q[2]
  <2> DEFINE m == p[2] - 1
             n == q[2] - 1
  <2>1. m \in Nat /\ n \in Nat /\ m < n
    <3> DEFINE j == p[2]
               h == q[2]
               len == Len(file.data[p[1]].pts)
    <3>1. len \in Nat
      BY <1>1, Layout
    <3>2. j \in 1 .. len /\ h \in 1 .. len /\ j < h
      BY <1>1, <1>2
    <3>3. j - 1 \in Nat /\ h - 1 \in Nat /\ j - 1 < h - 1
      <4> HIDE DEF j, h, len
      <4> QED BY <3>1, <3>2
    <3> QED BY <3>3
  <2>2. At(p) = Ends[p[1] - 1] + m * PointSize /\ At(q) = Ends[p[1] - 1] + n * PointSize
    BY <1>1, <1>2
  <2> HIDE DEF m, n
  <2>3. m * PointSize + PointSize <= n * PointSize /\ m * PointSize \in Nat
    BY <2>1, Spaced, Sizes
  <2>4. Ends[p[1] - 1] \in Nat /\ n * PointSize \in Nat
    <3>1. p[1] - 1 \in 0 .. Len(file.data)
      BY <1>r, <1>s
    <3>2. \A x \in Nat, y \in Nat : x * y \in Nat
      OBVIOUS
    <3> QED BY <2>1, <3>1, <3>2, Layout, Sizes
  <2> QED BY <2>2, <2>3, <2>4, Sizes
<1>3. CASE p[1] < q[1]
  <2> DEFINE b == p[1]
             c == q[1] - 1
  <2>1. b \in 0 .. Len(file.data) /\ c \in 0 .. Len(file.data) /\ b <= c /\ b - 1 \in 0 .. Len(file.data)
    BY <1>r, <1>s, <1>3
  <2>2. Ends[b] <= Ends[c] /\ Ends[b] \in Nat /\ Ends[c] \in Nat /\ Ends[b - 1] \in Nat
    BY <2>1, Behind, Layout
  <2>3. Ends[b - 1] + Len(file.data[b].pts) * PointSize <= Ends[b]
    <3> DEFINE w == Len(file.data[b].pts) * PointSize
    <3>1. Ends[b] = Ends[b - 1] + BlockSize(b) /\ w \in Nat
      BY <1>1, Layout
    <3>2. BlockSize(b) = w + (IF file.data[b].fmt = "legacy" THEN 0 ELSE CrcSize)
      BY DEF BlockSize
    <3> HIDE DEF w, b
    <3>3. Ends[b - 1] + w <= Ends[b]
      BY <2>2, <3>1, <3>2, Sizes
    <3> QED BY <3>3 DEF w
  <2> DEFINE w == Len(file.data[b].pts) * PointSize
  <2>4. w \in Nat /\ At(p) + PointSize <= Ends[b - 1] + w /\ Ends[c] <= At(q) /\ At(p) \in Nat /\ At(q) \in Nat
    BY <1>1, Layout
  <2>5. Ends[b - 1] + w <= Ends[c]
    <3>1. Ends[b - 1] + w <= Ends[b]
      BY <2>3
    <3> HIDE DEF w, b, c
    <3> QED BY <2>2, <2>4, <3>1
  <2> HIDE DEF w, b, c
  <2> QED BY <2>2, <2>4, <2>5, Sizes
<1> QED BY <1>2, <1>3 DEF Before

\* Of two points one comes first.
LEMMA OneFirst ==
    ASSUME file \in Image, NEW p \in Points, NEW q \in Points
    PROVE  Before(p, q) \/ Before(q, p) \/ p = q
<1>1. /\ p = <<p[1], p[2]>> /\ q = <<q[1], q[2]>>
      /\ p[1] \in Int /\ p[2] \in Int /\ q[1] \in Int /\ q[2] \in Int
  BY Places1 DEF Places
<1>2. p[1] < q[1] \/ q[1] < p[1] \/ p[1] = q[1]
  BY <1>1
<1>3. p[2] < q[2] \/ q[2] < p[2] \/ p[2] = q[2]
  BY <1>1
<1> QED BY <1>1, <1>2, <1>3 DEF Before

\* The files that a scan reads in step from end to end.
Plainly ==
    /\ \A b \in DOMAIN file.data : file.data[b].read = "good"
    /\ Len(file.data) = 1 \/ \A b \in DOMAIN file.data : file.data[b].fmt = "legacy"

LEMMA AllPlain ==
    ASSUME file \in Image, Plainly
    PROVE  /\ \A b \in DOMAIN file.data : Plain(b)
           /\ \A o : PointsAt(o) = {p \in Points : At(p) = o}
<1>1. ASSUME NEW b \in DOMAIN file.data PROVE Plain(b)
  <2>1. DOMAIN file.data = 1 .. Len(file.data) /\ Len(file.data) \in Nat
    BY Layout
  <2>2. CASE Len(file.data) = 1
    <3>1. DOMAIN file.data = {1} /\ b = 1
      BY <2>1, <2>2
    <3> QED BY <3>1 DEF Plain, AllZstd, Plainly
  <2>3. CASE file.data[b].fmt = "legacy"
    BY <2>3 DEF Plain, Plainly
  <2> QED BY <2>2, <2>3 DEF Plainly
<1>2. \A p \in Points : Plain(p[1])
  <2>1. \A p \in Points : p[1] \in DOMAIN file.data
    BY DEF Points
  <2> QED BY <1>1, <2>1
<1> QED BY <1>1, <1>2 DEF PointsAt, At

\* In such a file one block's points follow the other's, and at the end there is
\* no more than a CRC.
LEMMA PlainLayout ==
    ASSUME file \in Image, Plainly, NEW len \in Lengths, file.data # <<>>
    PROVE  LET N == Len(file.data)
               filled == Ends[N - 1] + Len(file.data[N].pts) * PointSize
           IN  /\ N \in 1 .. N /\ filled \in Nat /\ Ends[N - 1] <= filled
               /\ filled <= len /\ len <= filled + CrcSize
               /\ \A b \in 1 .. N - 1 : Ends[b] = Ends[b - 1] + Len(file.data[b].pts) * PointSize
<1> DEFINE N == Len(file.data)
           w == Len(file.data[N].pts) * PointSize
           filled == Ends[N - 1] + w
<1>1. N \in Nat /\ DOMAIN file.data = 1 .. N
  BY Layout
<1>2. N \in 1 .. N
  <2>1. N # 0
    BY EmptySeq DEF Image
  <2> QED BY <1>1, <2>1
<1>3. w \in Nat /\ Ends[N - 1] \in Nat /\ Ends[N] = Ends[N - 1] + BlockSize(N)
  <2>1. N - 1 \in 0 .. N
    BY <1>2
  <2> QED BY <1>2, <2>1, Layout
<1>4. {b \in DOMAIN file.data : file.data[b].read = "eof"} = {}
  BY DEF Plainly
<1>5. len = IF AllZstd THEN Ends[N] - CrcSize ELSE Ends[N]
  BY <1>4 DEF Lengths
<1>6. AllZstd => file.data[N].fmt # "legacy"
  BY <1>1, <1>2 DEF AllZstd
<1>7. BlockSize(N) = w + (IF file.data[N].fmt = "legacy" THEN 0 ELSE CrcSize)
  BY DEF BlockSize
<1>8. ASSUME NEW b \in 1 .. N - 1 PROVE Ends[b] = Ends[b - 1] + Len(file.data[b].pts) * PointSize
  <2>1. b \in 1 .. N /\ N # 1
    <3> HIDE DEF N
    <3> QED BY <1>1, <1>8
  <2>2. file.data[b].fmt = "legacy"
    BY <1>1, <2>1 DEF Plainly
  <2>3. Len(file.data[b].pts) * PointSize \in Nat /\ Ends[b] = Ends[b - 1] + BlockSize(b)
    BY <2>1, Layout
  <2> QED BY <2>2, <2>3 DEF BlockSize
<1>9. filled \in Nat /\ Ends[N - 1] <= filled /\ filled <= len /\ len <= filled + CrcSize
  <2> HIDE DEF w, N
  <2>1. CASE AllZstd
    BY <1>3, <1>5, <1>6, <1>7, <2>1, Sizes
  <2>2. CASE ~AllZstd
    BY <1>3, <1>5, <1>7, <2>2, Sizes
  <2> QED BY <2>1, <2>2
<1> QED BY <1>2, <1>8, <1>9 DEF w

\* A point fits into what is there, and behind it is the next one, or an end too
\* short for a header.
LEMMA NextPoint ==
    ASSUME file \in Image, Plainly, NEW len \in Lengths, NEW p \in Points
    PROVE  /\ At(p) + PointSize <= len
           /\ \/ \E q \in Points : At(q) = At(p) + PointSize
              \/ /\ len < At(p) + PointSize + HeaderSize
                 /\ \A q \in Points : At(q) <= At(p)
<1> DEFINE N == Len(file.data)
           b == p[1]
           j == p[2]
           n == Len(file.data[b].pts)
           filled == Ends[N - 1] + Len(file.data[N].pts) * PointSize
<1>1. /\ b \in 1 .. N /\ j \in 1 .. n /\ At(p) = Ends[b - 1] + (j - 1) * PointSize
      /\ At(p) \in Nat /\ At(p) + PointSize <= Ends[b - 1] + n * PointSize
  BY Places1
<1>2. N \in Nat /\ DOMAIN file.data = 1 .. N /\ n \in Nat /\ DOMAIN file.data[b].pts = 1 .. n
  BY <1>1, Layout
<1>3. file.data # <<>>
  <2>1. N # 0
    BY <1>1
  <2> QED BY <2>1, EmptySeq
<1>4. /\ filled \in Nat /\ Ends[N - 1] <= filled /\ filled <= len /\ len <= filled + CrcSize
      /\ \A c \in 1 .. N - 1 : Ends[c] = Ends[c - 1] + Len(file.data[c].pts) * PointSize
  BY <1>3, PlainLayout
<1>5. len \in Nat
  BY LengthNat
<1>6. At(p) + PointSize <= filled
  <2>1. CASE b = N
    <3> DEFINE rest == Ends[b - 1] + n * PointSize
    <3>1. rest = filled /\ At(p) + PointSize <= rest
      BY <1>1, <2>1
    <3> HIDE DEF rest, filled
    <3> QED BY <3>1
  <2>2. CASE b \in 1 .. N - 1
    <3>1. Ends[b] = Ends[b - 1] + n * PointSize
      BY <1>4, <2>2
    <3>2. b \in 0 .. N /\ N - 1 \in 0 .. N /\ b <= N - 1
      BY <1>2, <2>2
    <3>3. Ends[b] <= Ends[N - 1] /\ Ends[b] \in Nat /\ Ends[N - 1] \in Nat
      BY <3>2, Behind, Layout
    <3> HIDE DEF n, filled
    <3> QED BY <1>1, <1>4, <3>1, <3>3, Sizes
  <2> QED BY <1>1, <1>2, <2>1, <2>2
<1>7. At(p) + PointSize <= len
  <2> HIDE DEF filled
  <2> QED BY <1>1, <1>4, <1>5, <1>6, Sizes
<1>s. /\ (j - 1) * PointSize + PointSize = j * PointSize /\ (j - 1) * PointSize \in Nat
      /\ Ends[b - 1] \in Nat
  <2> DEFINE m == j - 1
  <2>1. m \in Nat /\ m + 1 \in Nat /\ m + 1 = j /\ m < m + 1
    BY <1>1, <1>2
  <2> HIDE DEF m
  <2>2. (m + 1) * PointSize = m * PointSize + PointSize /\ m * PointSize \in Nat
    BY <2>1, Spaced, Sizes
  <2>3. b - 1 \in 0 .. N
    BY <1>1, <1>2
  <2> QED BY <2>1, <2>2, <2>3, Layout DEF m
<1>8. CASE j < n
  <2> DEFINE q == <<b, j + 1>>
  <2>1. q \in Points
    <3>1. j + 1 \in 1 .. n
      <4> HIDE DEF j, n
      <4> QED BY <1>1, <1>2, <1>8
    <3>2. b \in DOMAIN file.data /\ j + 1 \in DOMAIN file.data[b].pts
      BY <1>1, <1>2, <3>1
    <3> QED BY <3>2 DEF Points
  <2>2. At(q) = Ends[b - 1] + j * PointSize
    <3>1. (j + 1) - 1 = j
      BY <1>1
    <3> QED BY <3>1 DEF At, Start
  <2>3. At(q) = At(p) + PointSize
    <3> DEFINE m == (j - 1) * PointSize
               w == j * PointSize
    <3>1. m + PointSize = w /\ m \in Nat /\ At(p) = Ends[b - 1] + m
          /\ Ends[b - 1] \in Nat /\ At(q) = Ends[b - 1] + w
      BY <1>1, <1>s, <2>2
    <3> HIDE DEF m, w, q, b
    <3> QED BY <3>1, Sizes
  <2> QED BY <1>7, <2>1, <2>3
<1>9. CASE j = n /\ b < N
  <2> DEFINE q == <<b + 1, 1>>
  <2>1. b + 1 \in 1 .. N /\ b \in 1 .. N - 1
    BY <1>1, <1>2, <1>9
  <2>2. q \in Points
    <3>1. 1 \in DOMAIN file.data[b + 1].pts
      <4>1. Len(file.data[b + 1].pts) \in Nat \ {0}
        BY <2>1, Layout
      <4>2. DOMAIN file.data[b + 1].pts = 1 .. Len(file.data[b + 1].pts)
        BY <2>1, Layout
      <4> QED BY <4>1, <4>2
    <3> QED BY <1>2, <2>1, <3>1 DEF Points
  <2>3. At(q) = Ends[b]
    <3>1. (b + 1) - 1 = b /\ (1 - 1) * PointSize = 0
      BY <1>1, Sizes
    <3>2. At(q) = Ends[(b + 1) - 1] + (1 - 1) * PointSize
      BY DEF At, Start
    <3>3. Ends[b] \in Nat
      <4>1. b \in 0 .. N
        BY <1>1, <1>2
      <4> QED BY <4>1, Layout
    <3> QED BY <3>1, <3>2, <3>3
  <2>4. Ends[b] = Ends[b - 1] + j * PointSize
    BY <1>4, <1>9, <2>1
  <2>5. At(q) = At(p) + PointSize
    <3> DEFINE m == (j - 1) * PointSize
               w == j * PointSize
    <3>1. m + PointSize = w /\ m \in Nat /\ At(p) = Ends[b - 1] + m
          /\ Ends[b - 1] \in Nat /\ At(q) = Ends[b - 1] + w
      BY <1>1, <1>s, <2>3, <2>4
    <3> HIDE DEF m, w, q, b
    <3> QED BY <3>1, Sizes
  <2> QED BY <1>7, <2>2, <2>5
<1>10. CASE j = n /\ b = N
  <2>1. At(p) + PointSize = filled
    <3> DEFINE m == (j - 1) * PointSize
               w == j * PointSize
    <3>1. m + PointSize = w /\ m \in Nat /\ At(p) = Ends[b - 1] + m
      BY <1>1, <1>s
    <3>2. filled = Ends[b - 1] + w
      BY <1>10
    <3>3. Ends[b - 1] \in Nat
      BY <1>s
    <3> HIDE DEF m, w, b, filled
    <3> QED BY <3>1, <3>2, <3>3, Sizes
  <2>2. len < At(p) + PointSize + HeaderSize
    <3> HIDE DEF filled
    <3> QED BY <1>1, <1>4, <1>5, <2>1, Sizes
  <2>3. ASSUME NEW q \in Points PROVE At(q) <= At(p)
    <3>1. ~Before(p, q)
      <4>1. /\ q[1] \in 1 .. N /\ q[2] \in 1 .. Len(file.data[q[1]].pts)
        BY Places1
      <4>2. q[1] = b => q[2] \in 1 .. n
        BY <4>1
      <4> HIDE DEF N, n
      <4> QED BY <1>1, <1>2, <1>10, <4>1, <4>2 DEF Before
    <3>2. CASE q = p
      BY <1>1, <3>2
    <3>3. CASE Before(q, p)
      <4>1. At(q) + PointSize <= At(p) /\ At(q) \in Nat
        BY <3>3, Apart, Places1
      <4> QED BY <1>1, <4>1, Sizes
    <3> QED BY <3>1, <3>2, <3>3, OneFirst
  <2> QED BY <1>7, <2>2, <2>3
<1> QED BY <1>1, <1>2, <1>8, <1>9, <1>10

\* A query without an index is answered by the scan alone.  In a file it reads in
\* step the parser is at a point or has passed the last, and has collected what it
\* has passed.
ScanInv ==
    ~file.hasIndex =>
        /\ pc \in {"open", "scan", "parse", "done"}
        /\ pc \in {"open", "scan"} => offset = 0 /\ allPoints = <<>> /\ ~junk
        /\ pc \in {"parse", "done"} /\ Plainly =>
             /\ ~junk /\ allPoints \in Seq(Places) /\ Ordered(allPoints, FileOrder)
             /\ Range(allPoints) = {p \in Wanted(DOMAIN file.data) : At(p) < offset}
        /\ pc = "parse" /\ Plainly =>
             /\ length \in Lengths
             /\ \/ \E p \in Points : At(p) = offset
                \/ length < offset + HeaderSize /\ \A p \in Points : At(p) < offset
        /\ pc = "done" /\ Plainly => \A p \in Points : At(p) < offset

LEMMA WantedPoints ==
    ASSUME file \in Image
    PROVE  Wanted(DOMAIN file.data) = {p \in Points : InRange(file.data[p[1]].pts[p[2]])}
BY DEF Wanted, Points

LEMMA StepScan == TypeOK /\ ScanInv /\ [Next]_vars => ScanInv'
<1> SUFFICES ASSUME TypeOK, ScanInv, [Next]_vars, ~file.hasIndex PROVE ScanInv'
  BY FileUnchanged DEF ScanInv, query
<1>t. file \in Image /\ offset \in Nat /\ length \in Nat
  BY DEF TypeOK, QueryOK
<1>0. /\ UNCHANGED <<file, startTime, endTime>> /\ Plainly' = Plainly
      /\ \A B : Wanted(B)' = Wanted(B)
      /\ Points' = Points /\ Lengths' = Lengths /\ \A p : At(p)' = At(p)
  <2>1. UNCHANGED <<file, startTime, endTime>> /\ \A B : Wanted(B)' = Wanted(B)
    BY FileUnchanged DEF query
  <2>2. Plainly' = Plainly /\ Points' = Points
    BY <2>1 DEF Plainly, Points
  <2>3. Ends' = Ends /\ AllZstd' = AllZstd
    BY <2>1 DEF Ends, BlockSize, AllZstd
  <2> QED BY <2>1, <2>2, <2>3 DEF Lengths, At, Start
<1>1. CASE Open
  BY <1>0, <1>1 DEF Open, ScanInv, answer, parse
<1>2. CASE QueryWithIndex
  BY <1>2 DEF QueryWithIndex, SearchStep, SearchEnd, WalkBack, WalkEnd, Collect, CollectEnd,
       ReadGood, ReadBad, ReadEof, ReadLegacy, ReadEnd, ScanInv
<1>3. CASE ScanOpen
  <2>1. /\ pc' = "parse" /\ offset' = 0 /\ allPoints' = <<>> /\ ~junk' /\ length' \in Lengths
    BY <1>3 DEF ScanOpen, ScanInv, answer
  <2>2. Range(<<>>) = {} /\ <<>> \in Seq(Places) /\ Ordered(<<>>, FileOrder)
    BY EmptySeq DEF Range, Ordered
  <2>3. {p \in Wanted(DOMAIN file.data) : At(p) < 0} = {}
    <3>1. \A p \in Points : At(p) \in Nat
      BY <1>t, Places1
    <3> QED BY <1>t, <3>1, WantedPoints
  <2>4. \/ \E p \in Points : At(p) = 0
        \/ length' < 0 + HeaderSize /\ \A p \in Points : At(p) < 0
    <3>1. CASE file.data = <<>>
      <4>1. DOMAIN file.data = {}
        BY <3>1
      <4>2. Lengths = {0} /\ Points = {}
        BY <3>1, <4>1 DEF Lengths, AllZstd, Points
      <4> QED BY <2>1, <4>2, Sizes
    <3>2. CASE file.data # <<>>
      <4>1. Len(file.data) \in Nat /\ Len(file.data) # 0
        BY <1>t, <3>2, EmptySeq, Layout DEF Image
      <4>2. 1 \in 1 .. Len(file.data)
        BY <4>1
      <4>3. 1 \in DOMAIN file.data /\ 1 \in DOMAIN file.data[1].pts
        <5>1. Len(file.data[1].pts) \in Nat \ {0} /\ DOMAIN file.data[1].pts = 1 .. Len(file.data[1].pts)
          BY <1>t, <4>2, Layout
        <5> QED BY <1>t, <4>2, <5>1, Layout
      <4>4. <<1, 1>> \in Points
        BY <4>3 DEF Points
      <4>5. At(<<1, 1>>) = 0
        <5>1. At(<<1, 1>>) = Ends[1 - 1] + (1 - 1) * PointSize
          BY DEF At, Start
        <5>2. 1 - 1 = 0 /\ (1 - 1) * PointSize = 0 /\ Ends[0] = 0
          BY <1>t, Layout, Sizes
        <5> QED BY <5>1, <5>2
      <4> QED BY <4>4, <4>5
    <3> QED BY <3>1, <3>2
  <2> QED BY <1>0, <2>1, <2>2, <2>3, <2>4 DEF ScanInv
<1>4. CASE ParsePoint
  <2> SUFFICES ASSUME Plainly PROVE ScanInv'
    BY <1>0, <1>4 DEF ParsePoint, ScanInv
  <2>1. /\ pc = "parse" /\ pc' = "parse" /\ offset' = offset + PointSize /\ length' = length
        /\ junk' = junk
    BY <1>4 DEF ParsePoint
  <2>2. /\ ~junk /\ allPoints \in Seq(Places) /\ Ordered(allPoints, FileOrder)
        /\ Range(allPoints) = {p \in Wanted(DOMAIN file.data) : At(p) < offset}
        /\ length \in Lengths
    BY <2>1 DEF ScanInv
  <2>3. PICK p \in PointsAt(offset) :
          allPoints' = IF InRange(file.data[p[1]].pts[p[2]]) THEN Append(allPoints, p) ELSE allPoints
    BY <1>4 DEF ParsePoint
  <2>4. p \in Points /\ At(p) = offset /\ p \in Places
    BY <1>t, <2>3, AllPlain, Places1
  <2>5. ASSUME NEW q \in Points PROVE (At(q) < offset + PointSize) <=> (At(q) < offset \/ q = p)
    <3>1. At(q) \in Nat
      BY <1>t, Places1
    <3>2. CASE q = p
      BY <1>t, <2>4, <3>2, Sizes
    <3>3. CASE Before(p, q)
      <4>1. At(p) + PointSize <= At(q)
        BY <1>t, <2>4, <3>3, Apart
      <4>2. ~(At(q) < offset + PointSize) /\ ~(At(q) < offset)
        BY <1>t, <2>4, <3>1, <4>1, Sizes
      <4>3. q # p
        BY <1>t, <2>4, <4>2, Sizes
      <4> QED BY <4>2, <4>3
    <3>4. CASE Before(q, p)
      <4>1. At(q) + PointSize <= At(p)
        BY <1>t, <2>4, <3>4, Apart
      <4> QED BY <1>t, <2>4, <3>1, <4>1, Sizes
    <3> QED BY <1>t, <2>4, <3>2, <3>3, <3>4, OneFirst
  <2>6. /\ allPoints' \in Seq(Places) /\ Ordered(allPoints', FileOrder)
        /\ Range(allPoints') = {q \in Wanted(DOMAIN file.data) : At(q) < offset + PointSize}
    <3>1. CASE InRange(file.data[p[1]].pts[p[2]])
      <4>1. allPoints' = Append(allPoints, p)
        BY <2>3, <3>1
      <4>2. Range(allPoints') = Range(allPoints) \union {p} /\ allPoints' \in Seq(Places)
        BY <2>2, <2>4, <4>1, RangeAppend
      <4>3. p \in Wanted(DOMAIN file.data)
        BY <1>t, <2>4, <3>1, WantedPoints
      <4>4. Range(allPoints') = {q \in Wanted(DOMAIN file.data) : At(q) < offset + PointSize}
        BY <1>t, <2>2, <2>5, <4>2, <4>3, WantedPoints
      <4>5. ASSUME NEW f \in Range(allPoints) PROVE <<f, p>> \in FileOrder
        <5>1. f \in Points /\ At(f) < At(p)
          BY <1>t, <2>2, <2>4, WantedPoints
        <5>2. f # p /\ At(f) \in Nat /\ At(p) \in Nat /\ f \in Places
          BY <1>t, <2>4, <5>1, Places1
        <5>3. ~Before(p, f)
          <6>1. Before(p, f) => At(p) + PointSize <= At(f)
            BY <1>t, <2>4, <5>1, Apart
          <6> QED BY <5>1, <5>2, <6>1, Sizes
        <5>4. Before(f, p)
          BY <1>t, <2>4, <5>1, <5>2, <5>3, OneFirst
        <5> QED BY <2>4, <5>2, <5>4 DEF FileOrder
      <4>6. Ordered(allPoints', FileOrder)
        BY <2>2, <2>4, <4>1, <4>5, OrderedAppend
      <4> QED BY <4>2, <4>4, <4>6
    <3>2. CASE ~InRange(file.data[p[1]].pts[p[2]])
      <4>1. allPoints' = allPoints
        BY <2>3, <3>2
      <4>2. p \notin Wanted(DOMAIN file.data)
        BY <1>t, <3>2, WantedPoints
      <4>3. Range(allPoints) = {q \in Wanted(DOMAIN file.data) : At(q) < offset + PointSize}
        BY <1>t, <2>2, <2>5, <4>2, WantedPoints
      <4> QED BY <2>2, <4>1, <4>3
    <3> QED BY <3>1, <3>2
  <2>7. \/ \E q \in Points : At(q) = offset + PointSize
        \/ /\ length < offset + PointSize + HeaderSize
           /\ \A q \in Points : At(q) < offset + PointSize
    <3>1. \/ \E q \in Points : At(q) = At(p) + PointSize
          \/ /\ length < At(p) + PointSize + HeaderSize
             /\ \A q \in Points : At(q) <= At(p)
      BY <1>t, <2>2, <2>4, NextPoint
    <3>2. \A q \in Points : At(q) \in Nat
      BY <1>t, Places1
    <3>3. \A q \in Points : At(q) <= offset => At(q) < offset + PointSize
      BY <1>t, <3>2, Sizes
    <3> QED BY <2>4, <3>1, <3>3
  <2> QED BY <1>0, <2>1, <2>2, <2>6, <2>7 DEF ScanInv
<1>5. ASSUME Plainly, pc = "parse"
      PROVE  \/ \E p \in Points : At(p) = offset /\ Fits(HeaderSize) /\ Fits(PointSize)
             \/ ~Fits(HeaderSize) /\ \A p \in Points : At(p) < offset
  <2>1. CASE \E p \in Points : At(p) = offset
    <3>1. PICK p \in Points : At(p) = offset
      BY <2>1
    <3>2. offset + PointSize <= length
      BY <1>t, <1>5, <3>1, NextPoint DEF ScanInv
    <3> QED BY <1>t, <3>1, <3>2, Sizes DEF Fits
  <2>2. CASE length < offset + HeaderSize /\ \A p \in Points : At(p) < offset
    BY <1>t, <2>2, Sizes DEF Fits
  <2> QED BY <1>5, <2>1, <2>2 DEF ScanInv
<1>6. CASE ParseJunk
  <2>1. pc = "parse" /\ pc' = "parse" /\ PointsAt(offset) = {} /\ Fits(HeaderSize)
    BY <1>6 DEF ParseJunk
  <2>2. ~Plainly
    BY <1>t, <1>5, <2>1, AllPlain
  <2> QED BY <1>0, <2>1, <2>2 DEF ScanInv
<1>7. CASE ParseEnd
  <2>1. /\ pc = "parse" /\ pc' = "done" /\ offset' = offset /\ allPoints' = allPoints /\ junk' = junk
    BY <1>7 DEF ParseEnd, parse, answer
  <2>2. ASSUME Plainly PROVE \A p \in Points : At(p) < offset
    <3>1. ~(\E p \in Points : At(p) = offset /\ Fits(HeaderSize) /\ Fits(PointSize))
      BY <1>t, <1>7, <2>2, AllPlain DEF ParseEnd
    <3> QED BY <1>5, <2>1, <2>2, <3>1
  <2> QED BY <1>0, <2>1, <2>2 DEF ScanInv
<1>8. CASE UNCHANGED vars
  BY <1>0, <1>8 DEF vars, answer, parse, ScanInv
<1> QED
  BY <1>1, <1>2, <1>3, <1>4, <1>6, <1>7, <1>8 DEF Next, FullScan

\* Without an index, a file of one block, as the migration reads it back, or of
\* legacy blocks only is scanned exactly (DayReader.Query): the parser goes from
\* point to point, and what is left at the end is too short for a header.
THEOREM ScanCorrect == Spec => []ScanExact
<1>1. Init => ScanInv
  BY DEF Init, ScanInv
<1>2. TypeOK /\ ScanInv => ScanExact
  <2> SUFFICES ASSUME TypeOK, ScanInv, pc = "done", ~file.hasIndex, Plainly
               PROVE  /\ Range(allPoints) = Wanted(DOMAIN file.data) /\ ~junk
                      /\ \A x, y \in DOMAIN allPoints : x < y => Before(allPoints[x], allPoints[y])
    BY DEF ScanExact, Plainly
  <2>1. /\ ~junk /\ allPoints \in Seq(Places) /\ Ordered(allPoints, FileOrder)
        /\ Range(allPoints) = {p \in Wanted(DOMAIN file.data) : At(p) < offset}
        /\ \A p \in Points : At(p) < offset
    BY DEF ScanInv
  <2>2. Wanted(DOMAIN file.data) \subseteq Points
    BY WantedPoints DEF TypeOK, QueryOK
  <2>3. Range(allPoints) = Wanted(DOMAIN file.data)
    BY <2>1, <2>2
  <2>4. DOMAIN allPoints = 1 .. Len(allPoints)
    BY <2>1, LenProperties
  <2>5. \A x, y \in DOMAIN allPoints : x < y => Before(allPoints[x], allPoints[y])
    BY <2>1, <2>4 DEF Ordered, FileOrder
  <2> QED BY <2>1, <2>3, <2>5
<1> QED
  BY <1>1, <1>2, StepScan, TypeCorrect, PTL DEF Spec

=============================================================================
