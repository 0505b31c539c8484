---------------------------- MODULE TieringProofs ----------------------------
(* The files of a day while they move from the hot to the cold directory,    *)
(* for days of any blocks and points, any number of late points, of kills    *)
(* and of steps that fail.                                                   *)
EXTENDS Tiering, FiniteSetTheorems, SequenceTheorems, TLAPS

Kinds == {"data", "index"}
Data == Seq(Block)
DataFile == Data \union {None}

\* The files, and the writer that has them open.
FileTypes ==
    /\ hot \in DataFile /\ hotIdx \in DataFile /\ cold \in DataFile /\ coldIdx \in DataFile
    /\ wr \in {"none", "hot", "cold"} /\ wrData \in BOOLEAN /\ wrIdx \in BOOLEAN
    /\ wrData => (wr = "hot" /\ hot # None) \/ (wr = "cold" /\ cold # None)
    /\ wrIdx => (wr = "hot" /\ hotIdx # None) \/ (wr = "cold" /\ coldIdx # None)

\* The migration and its temporary files.
MigrateTypes ==
    /\ mpc \in {"idle", "read", "write", "rename", "copy", "fill", "remove", "removeIdx"}
    /\ todo \in Seq(Kinds) /\ (mpc = "idle" <=> todo = <<>>)
    /\ mread \in Data /\ tmp \in [Kinds -> DataFile]

\* The rest.
OtherTypes ==
    /\ age \in {"hot", "edge", "cold", "expired"}
    /\ cpc \in {"idle", "hot", "cold"}
    /\ qpc \in {"idle", "hotStat", "hotIndex", "hotRead", "coldStat", "coldIndex", "coldRead", "done"}
    /\ qidx \in DataFile
    /\ flushed \subseteq LatePoints /\ remade \in BOOLEAN /\ calm \in BOOLEAN

Types == FileTypes /\ MigrateTypes /\ OtherTypes

-----------------------------------------------------------------------------

\* An empty file is a file, and a missing one is not empty.
LEMMA EmptyFile == <<>> \in Data /\ None # <<>> /\ None \notin Data
<1>1. <<>> \in Seq(Block)
  OBVIOUS
<1>2. None \notin Seq(Block)
  BY DayAssumption, Zenon
<1> QED BY <1>1, <1>2, Zenon DEF Data

\* What a late flush or a migration writes are blocks.
LEMMA EncodedBlock ==
  ASSUME NEW S \in SUBSET Int, NEW level \in {"zstd", "best"}
  PROVE  Encoded(S, level) \in Block
  BY DEF Encoded, Block

\* A full scan returns points.
LEMMA ScansPoints ==
  ASSUME NEW data \in Data, NEW S \in Scans(data)
  PROVE  S \subseteq Int
<1>1. PICK T \in SUBSET (DOMAIN data \ InStep(data)) : S = Pts(data, InStep(data) \union T)
  BY DEF Scans
<1>2. InStep(data) \subseteq DOMAIN data
  <2>1. data # <<>> => 1 \in DOMAIN data
    BY DEF Data
  <2> QED BY <2>1 DEF InStep
<1>3. ASSUME NEW b \in DOMAIN data PROVE data[b].pts \subseteq Int
  <2>1. data[b] \in Block
    BY DEF Data
  <2> QED BY <2>1 DEF Block
<1> QED BY <1>1, <1>2, <1>3 DEF Pts

\* A block at the end, or nothing.
LEMMA AppendFile ==
  ASSUME NEW linked \in BOOLEAN, NEW f \in DataFile, linked => f # None, NEW b \in Block
  PROVE  AppendIf(linked, f, b) \in DataFile /\ (f # None => AppendIf(linked, f, b) # None)
<1>1. CASE linked
  <2>1. Append(f, b) \in Data
    BY <1>1 DEF DataFile, Data
  <2> QED BY <1>1, <2>1, EmptyFile DEF AppendIf, DataFile
<1> QED BY <1>1 DEF AppendIf

LEMMA ListingType == Listing \in Seq(Kinds)
<1>1. <<>> \in Seq(Kinds) /\ <<"data">> \in Seq(Kinds) /\ <<"index">> \in Seq(Kinds)
  BY DEF Kinds
<1>2. \A s, t \in Seq(Kinds) : s \o t \in Seq(Kinds)
  OBVIOUS
<1> QED BY <1>1, <1>2 DEF Listing

\* Going on with the listing.
LEMMA NextFileType ==
  ASSUME MigrateTypes, mpc # "idle", NextFile
  PROVE  /\ todo' \in Seq(Kinds)
         /\ mpc' \in {"idle", "read"} /\ (mpc' = "idle" <=> todo' = <<>>)
<1>1. todo \in Seq(Kinds) /\ todo # <<>>
  BY DEF MigrateTypes
<1>2. Tail(todo) \in Seq(Kinds) /\ Len(Tail(todo)) = Len(todo) - 1
  BY <1>1
<1>3. Len(todo) \in Nat /\ (Tail(todo) = <<>> <=> Len(Tail(todo)) = 0)
  BY <1>1, <1>2, EmptySeq
<1>4. Len(todo) = 1 <=> Tail(todo) = <<>>
  BY <1>2, <1>3
<1> QED BY <1>2, <1>4, Zenon DEF NextFile

\* The file the migration is at is one of the listing.
LEMMA CurrentKind ==
  ASSUME MigrateTypes, mpc # "idle"
  PROVE  Current \in Kinds
<1>1. todo \in Seq(Kinds) /\ todo # <<>>
  BY DEF MigrateTypes
<1> QED BY <1>1 DEF Current

\* In a step that takes names from files of directory d a writer may lose those
\* it has there, and gains none.
Loses(d) ==
    /\ wrData' \in BOOLEAN /\ wrIdx' \in BOOLEAN
    /\ wrData' => wrData
    /\ wrIdx' => wrIdx
    /\ wrData' # wrData \/ wrIdx' # wrIdx => wr = d

LEMMA LosesName ==
  ASSUME NEW x \in BOOLEAN, NEW y, NEW d, y = (x /\ wr # d) \/ y = x
  PROVE  y \in BOOLEAN /\ (y => x) /\ (y # x => wr = d)
<1> DEFINE z == x /\ wr # d
<1>1. y = z \/ y = x
  OBVIOUS
<1>2. CASE wr = d
  <2>1. z = FALSE
    BY <1>2
  <2> HIDE DEF z
  <2>2. CASE y = x
    BY <1>2, <2>2, Zenon
  <2>3. CASE y = FALSE
    <3>1. y \in BOOLEAN /\ ~y
      BY <2>3
    <3> QED BY <1>2, <3>1, Zenon
  <2> QED BY <1>1, <2>1, <2>2, <2>3, Zenon
<1>3. CASE wr # d
  <2>1. z = x
    BY <1>3
  <2> HIDE DEF z
  <2> QED BY <1>1, <2>1
<1> QED BY <1>2, <1>3, Zenon

LEMMA LosesNames ==
  ASSUME NEW d, wrData \in BOOLEAN, wrIdx \in BOOLEAN,
         wrData' = (wrData /\ wr # d) \/ wrData' = wrData,
         wrIdx' = (wrIdx /\ wr # d) \/ wrIdx' = wrIdx
  PROVE  Loses(d)
<1>1. wrData' \in BOOLEAN /\ (wrData' => wrData) /\ (wrData' # wrData => wr = d)
  BY LosesName, Zenon
<1>2. wrIdx' \in BOOLEAN /\ (wrIdx' => wrIdx) /\ (wrIdx' # wrIdx => wr = d)
  BY LosesName, Zenon
<1> QED BY <1>1, <1>2, Zenon DEF Loses

LEMMA InitTypes == Init => Types
<1> SUFFICES ASSUME Init PROVE Types
  OBVIOUS
<1>1. Day \in Data
  BY DayAssumption DEF Data
<1>2. <<>> \in Seq(Kinds)
  OBVIOUS
<1> QED
  BY <1>1, <1>2, EmptyFile DEF Init, Types, FileTypes, MigrateTypes, OtherTypes, DataFile, Kinds

LEMMA StepTypes == Types /\ [Next]_vars => Types'
<1> SUFFICES ASSUME Types, [Next]_vars PROVE Types'
  OBVIOUS
<1>0. <<>> \in Data /\ <<>> \in DataFile /\ None \in DataFile /\ None # <<>> /\ Data \subseteq DataFile
  BY EmptyFile DEF DataFile
<1> USE DEF Types, files, writer, migrate, ask, history
<1>1. CASE Age
  BY <1>1 DEF Age, FileTypes, MigrateTypes, OtherTypes
<1>2. CASE OpenWriter
  <2>1. wrData' = TRUE /\ wrIdx' = TRUE /\ wrData' \in BOOLEAN /\ wrIdx' \in BOOLEAN
    BY <1>2, Zenon DEF OpenWriter
  <2>2. FileTypes'
    <3>1. CASE wr' = "hot"
      BY <1>0, <1>2, <2>1, <3>1 DEF OpenWriter, FileTypes
    <3>2. CASE wr' = "cold"
      BY <1>0, <1>2, <2>1, <3>2 DEF OpenWriter, FileTypes
    <3> QED BY <1>2, <3>1, <3>2 DEF OpenWriter
  <2>3. remade' \in BOOLEAN
    BY <1>2, Zenon DEF OpenWriter, OtherTypes
  <2> QED BY <1>2, <2>2, <2>3 DEF OpenWriter, MigrateTypes, OtherTypes
<1>3. ASSUME NEW p \in LatePoints, FlushLate(p) PROVE Types'
  <2>1. Encoded({p}, "zstd") \in Block
    BY EncodedBlock, DayAssumption
  <2> DEFINE b == Encoded({p}, "zstd")
  <2> HIDE DEF b
  <2>2. FileTypes'
    <3>1. CASE wr = "hot"
      BY <2>1, <3>1, <1>3, AppendFile DEF FlushLate, FileTypes, b
    <3>2. CASE wr = "cold"
      BY <2>1, <3>2, <1>3, AppendFile DEF FlushLate, FileTypes, b
    <3> QED BY <1>3, <3>1, <3>2 DEF FlushLate
  <2> QED BY <1>3, <2>2 DEF FlushLate, MigrateTypes, OtherTypes
<1>4. CASE MigrateStart
  <2>1. Listing \in Seq(Kinds)
    BY ListingType
  <2>2. FileTypes' /\ OtherTypes'
    BY <1>4 DEF MigrateStart, FileTypes, OtherTypes
  <2>3. MigrateTypes'
    BY <1>4, <2>1 DEF MigrateStart, MigrateTypes
  <2> QED BY <2>2, <2>3
<1>5. CASE MigrateSkip
  <2>1. /\ todo' \in Seq(Kinds)
        /\ mpc' \in {"idle", "read"} /\ (mpc' = "idle" <=> todo' = <<>>)
    BY <1>5, NextFileType DEF MigrateSkip
  <2>2. tmp' \in [Kinds -> DataFile]
    BY <1>5, <1>0 DEF MigrateSkip, MigrateTypes
  <2> QED BY <1>5, <2>1, <2>2 DEF MigrateSkip, FileTypes, MigrateTypes, OtherTypes
<1>6. CASE MigrateRead
  <2>1. mread' \in Data
    <3>1. CASE Current = "data"
      <4>1. PICK S \in Scans(hot) : mread' = IF S = {} THEN <<>> ELSE <<Encoded(S, "best")>>
        BY <1>6, <3>1 DEF MigrateRead
      <4>2. hot \in Data
        BY <1>6, <3>1 DEF MigrateRead, Source, FileTypes, DataFile
      <4>3. Encoded(S, "best") \in Block
        BY <4>1, <4>2, ScansPoints, EncodedBlock
      <4>4. <<Encoded(S, "best")>> \in Data
        BY <4>3 DEF Data
      <4> QED BY <4>1, <4>4, <1>0
    <3>2. CASE Current = "index"
      <4>1. Junk \in Block
        BY DEF Junk, Block
      <4>2. <<Junk>> \in Data
        BY <4>1 DEF Data
      <4> QED BY <1>6, <3>2, <4>2, <1>0 DEF MigrateRead
    <3> QED BY <1>6, <3>1, <3>2 DEF MigrateRead
  <2> QED BY <1>6, <2>1 DEF MigrateRead, FileTypes, MigrateTypes, OtherTypes
<1>7. CASE MigrateWrite
  <2>1. \A d \in DataFile : (IF d = None THEN mread ELSE d \o mread) \in DataFile
    BY DEF MigrateTypes, DataFile, Data
  <2>2. tmp' \in [Kinds -> DataFile]
    BY <1>7, <2>1 DEF MigrateWrite, MigrateTypes
  <2> QED BY <1>7, <2>2 DEF MigrateWrite, FileTypes, MigrateTypes, OtherTypes
<1>8. CASE MigrateRename
  <2>1. tmp' \in [Kinds -> DataFile]
    BY <1>8, <1>0 DEF MigrateRename, MigrateTypes
  <2>2. tmp["data"] \in DataFile /\ tmp["index"] \in DataFile
    BY DEF MigrateTypes, Kinds
  <2>3. Loses("cold")
    <3>1. wrData' = (wrData /\ wr # "cold") \/ wrData' = wrData
      BY <1>8, Zenon DEF MigrateRename
    <3>2. wrIdx' = (wrIdx /\ wr # "cold") \/ wrIdx' = wrIdx
      BY <1>8, Zenon DEF MigrateRename
    <3>3. wrData \in BOOLEAN /\ wrIdx \in BOOLEAN
      BY Zenon DEF FileTypes
    <3> QED BY <3>1, <3>2, <3>3, LosesNames
  <2>4. FileTypes'
    <3>1. CASE Current = "data"
      BY <1>8, <2>2, <2>3, <3>1 DEF MigrateRename, FileTypes, Loses
    <3>2. CASE Current = "index"
      BY <1>8, <2>2, <2>3, <3>2 DEF MigrateRename, FileTypes, Loses
    <3> QED BY <1>8, <3>1, <3>2 DEF MigrateRename
  <2> QED BY <1>8, <2>1, <2>4 DEF MigrateRename, MigrateTypes, OtherTypes
<1>9. CASE MigrateRenameFail
  <2>1. /\ todo' \in Seq(Kinds)
        /\ mpc' \in {"idle", "read"} /\ (mpc' = "idle" <=> todo' = <<>>)
    BY <1>9, NextFileType DEF MigrateRenameFail
  <2> QED BY <1>9, <2>1 DEF MigrateRenameFail, FileTypes, MigrateTypes, OtherTypes
<1>10. CASE MigrateCopy
  <2>1. hotIdx # None => hotIdx \in Data
    BY DEF FileTypes, DataFile
  <2> QED BY <1>10, <1>0, <2>1 DEF MigrateCopy, FileTypes, MigrateTypes, OtherTypes
<1>11. CASE MigrateFill
  <2>1. mread \in DataFile /\ mread # None
    BY <1>0, EmptyFile DEF MigrateTypes
  <2> QED BY <1>11, <2>1 DEF MigrateFill, FileTypes, MigrateTypes, OtherTypes
<1>12. CASE MigrateRemove
  <2>1. Loses("hot")
    <3>1. wrData' = (wrData /\ wr # "hot") \/ wrData' = wrData
      BY <1>12, Zenon DEF MigrateRemove
    <3>2. wrIdx' = (wrIdx /\ wr # "hot") \/ wrIdx' = wrIdx
      BY <1>12, Zenon DEF MigrateRemove
    <3>3. wrData \in BOOLEAN /\ wrIdx \in BOOLEAN
      BY Zenon DEF FileTypes
    <3> QED BY <3>1, <3>2, <3>3, LosesNames
  <2>2. FileTypes'
    BY <1>12, <1>0, <2>1 DEF MigrateRemove, FileTypes, Loses
  <2> QED BY <1>12, <2>2 DEF MigrateRemove, MigrateTypes, OtherTypes
<1>13. CASE MigrateRemoveIdx
  <2>1. /\ todo' \in Seq(Kinds)
        /\ mpc' \in {"idle", "read"} /\ (mpc' = "idle" <=> todo' = <<>>)
    BY <1>13, NextFileType DEF MigrateRemoveIdx
  <2>3. Loses("hot")
    <3>1. wrData' = (wrData /\ wr # "hot") \/ wrData' = wrData
      BY <1>13, Zenon DEF MigrateRemoveIdx
    <3>2. wrIdx' = (wrIdx /\ wr # "hot") \/ wrIdx' = wrIdx
      BY <1>13, Zenon DEF MigrateRemoveIdx
    <3>3. wrData \in BOOLEAN /\ wrIdx \in BOOLEAN
      BY Zenon DEF FileTypes
    <3> QED BY <3>1, <3>2, <3>3, LosesNames
  <2>2. FileTypes'
    BY <1>13, <1>0, <2>3 DEF MigrateRemoveIdx, FileTypes, Loses
  <2> QED BY <1>13, <2>1, <2>2 DEF MigrateRemoveIdx, MigrateTypes, OtherTypes
<1>14. CASE CleanupStart
  BY <1>14 DEF CleanupStart, FileTypes, MigrateTypes, OtherTypes
<1>15. CASE CleanupHot
  <2>1. Loses("hot")
    <3>1. wrData' = (wrData /\ wr # "hot") \/ wrData' = wrData
      BY <1>15, Zenon DEF CleanupHot
    <3>2. wrIdx' = (wrIdx /\ wr # "hot") \/ wrIdx' = wrIdx
      BY <1>15, Zenon DEF CleanupHot
    <3>3. wrData \in BOOLEAN /\ wrIdx \in BOOLEAN
      BY Zenon DEF FileTypes
    <3> QED BY <3>1, <3>2, <3>3, LosesNames
  <2>2. FileTypes'
    BY <1>15, <1>0, <2>1 DEF CleanupHot, FileTypes, Loses
  <2> QED BY <1>15, <2>2 DEF CleanupHot, MigrateTypes, OtherTypes
<1>16. CASE CleanupCold
  <2>3. Loses("cold")
    <3>1. wrData' = (wrData /\ wr # "cold") \/ wrData' = wrData
      BY <1>16, Zenon DEF CleanupCold
    <3>2. wrIdx' = (wrIdx /\ wr # "cold") \/ wrIdx' = wrIdx
      BY <1>16, Zenon DEF CleanupCold
    <3>3. wrData \in BOOLEAN /\ wrIdx \in BOOLEAN
      BY Zenon DEF FileTypes
    <3> QED BY <3>1, <3>2, <3>3, LosesNames
  <2>1. FileTypes'
    BY <1>16, <1>0, <2>3 DEF CleanupCold, FileTypes, Loses
  <2>2. tmp' \in [Kinds -> DataFile]
    BY <1>16, <1>0 DEF CleanupCold, MigrateTypes
  <2> QED BY <1>16, <2>1, <2>2 DEF CleanupCold, MigrateTypes, OtherTypes
<1>17. CASE QueryStart \/ QueryReturn
  <2>1. calm' \in BOOLEAN
    BY <1>17, Zenon DEF QueryStart, QueryReturn, OtherTypes
  <2> QED BY <1>17, <1>0, <2>1 DEF QueryStart, QueryReturn, FileTypes, MigrateTypes, OtherTypes
<1>18. CASE QueryStat
  BY <1>18 DEF QueryStat, FileTypes, MigrateTypes, OtherTypes
<1>19. CASE QueryIndex
  BY <1>19 DEF QueryIndex, FileTypes, MigrateTypes, OtherTypes
<1>20. CASE QueryRead
  BY <1>20 DEF QueryRead, FileTypes, MigrateTypes, OtherTypes
<1>21. CASE Kill
  <2>1. <<>> \in Seq(Kinds)
    OBVIOUS
  <2> QED BY <1>21, <2>1, <1>0 DEF Kill, FileTypes, MigrateTypes, OtherTypes
<1>22. CASE UNCHANGED vars
  BY <1>22 DEF vars, FileTypes, MigrateTypes, OtherTypes
<1>23. CASE MigrateFail
  <2>1. /\ todo' \in Seq(Kinds)
        /\ mpc' \in {"idle", "read"} /\ (mpc' = "idle" <=> todo' = <<>>)
    BY <1>23, NextFileType DEF MigrateFail
  <2>2. tmp' \in [Kinds -> DataFile]
    BY <1>23, <1>0 DEF MigrateFail, MigrateTypes
  <2> QED BY <1>23, <2>1, <2>2 DEF MigrateFail, Fails, FileTypes, MigrateTypes, OtherTypes
<1>24. CASE MigrateWriteFail
  <2>1. PICK torn \in {<<>>} \union {<<[pts |-> S, fmt |-> "junk"]>> : S \in SUBSET Pts(mread, DOMAIN mread)} :
          tmp' = [tmp EXCEPT ![Current] = IF @ = None THEN torn ELSE @ \o torn]
    BY <1>24 DEF MigrateWriteFail
  <2>2. torn \in Data
    <3>1. mread \in Data
      BY DEF MigrateTypes
    <3>2. ASSUME NEW S \in SUBSET Pts(mread, DOMAIN mread) PROVE <<[pts |-> S, fmt |-> "junk"]>> \in Data
      <4>1. ASSUME NEW b \in DOMAIN mread PROVE mread[b].pts \subseteq Int
        <5>1. mread[b] \in Block
          BY <3>1 DEF Data
        <5> QED BY <5>1 DEF Block
      <4>2. S \subseteq Int
        BY <4>1 DEF Pts
      <4>3. [pts |-> S, fmt |-> "junk"] \in Block
        BY <4>2 DEF Block
      <4> QED BY <4>3 DEF Data
    <3> QED BY <2>1, <3>2, <1>0
  <2>3. \A d \in DataFile : (IF d = None THEN torn ELSE d \o torn) \in DataFile
    BY <2>2 DEF DataFile, Data
  <2>4. tmp' \in [Kinds -> DataFile]
    BY <2>1, <2>3 DEF MigrateTypes
  <2> QED BY <1>24, <2>4 DEF MigrateWriteFail, Fails, FileTypes, MigrateTypes, OtherTypes
<1>25. CASE MigrateCopyFail
  <2>1. coldIdx' = coldIdx \/ (coldIdx # None /\ coldIdx' \in Data)
    <3>1. <<Junk>> \in Data
      <4>1. Junk \in Block
        BY DEF Junk, Block
      <4> QED BY <4>1 DEF Data
    <3>2. ASSUME NEW k \in 0 .. Len(mread) - 1 PROVE SubSeq(mread, 1, k) \in Data
      BY DEF MigrateTypes, Data
    <3> QED BY <1>25, <3>1, <3>2 DEF MigrateCopyFail
  <2>2. FileTypes'
    BY <1>25, <2>1, <1>0, EmptyFile DEF MigrateCopyFail, FileTypes, DataFile
  <2> QED BY <1>25, <2>2 DEF MigrateCopyFail, Fails, MigrateTypes, OtherTypes
<1>26. CASE MigrateRemoveFail
  <2>1. /\ todo' \in Seq(Kinds)
        /\ mpc' \in {"idle", "read", "removeIdx"} /\ (mpc' = "idle" <=> todo' = <<>>)
    <3>1. CASE NextFile /\ mpc = "removeIdx"
      BY <3>1, NextFileType
    <3>2. CASE mpc = "remove" /\ mpc' = "removeIdx" /\ todo' = todo
      BY <3>2 DEF MigrateTypes
    <3> QED BY <1>26, <3>1, <3>2 DEF MigrateRemoveFail
  <2> QED BY <1>26, <2>1 DEF MigrateRemoveFail, Fails, FileTypes, MigrateTypes, OtherTypes
<1> QED
  BY <1>1, <1>2, <1>3, <1>4, <1>5, <1>6, <1>7, <1>8, <1>9, <1>10, <1>11, <1>12, <1>13, <1>14,
     <1>15, <1>16, <1>17, <1>18, <1>19, <1>20, <1>21, <1>22, <1>23, <1>24, <1>25, <1>26 DEF Next, Migration, Cleanup, Query

LEMMA TypesInvariant == Spec => []Types
  BY InitTypes, StepTypes, PTL DEF Spec

\* The types; a migration works on a file of its list, and an open writer whose
\* file has its name never meets a missing file (moveColdData, OpenWriter).
THEOREM TypeCorrect == Spec => []TypeOK
<1>1. Types => TypeOK
  BY DEF Types, FileTypes, MigrateTypes, OtherTypes, TypeOK, File, DataFile, Data, Kinds
<1> QED BY <1>1, TypesInvariant, PTL

-----------------------------------------------------------------------------
(* No point twice. *)

\* Without a kill, and unless a hot file could not be removed, the writer stays in hot, a cold file appears only when the
\* hot one is about to go, and a calm query sees no migration at work.
CalmMoves ==
    killedAt = {} /\ "remove" \notin failed =>
        /\ wr = "hot"
        /\ cold # None => hot = None \/ (mpc \in {"copy", "fill", "remove"} /\ Current = "data")
        /\ qpc # "idle" /\ calm => mpc = "idle"

\* What the query has collected by then.
CalmQuery ==
    /\ qpc \in {"hotStat", "hotIndex", "hotRead"} => qhot = {}
    /\ qpc \notin {"idle", "done"} => qcold = {}
    /\ killedAt = {} /\ "remove" \notin failed /\ calm /\ qpc \in {"coldStat", "coldIndex", "coldRead", "done"} =>
           qhot = {} \/ (cold = None /\ qcold = {})

Calm == CalmMoves /\ CalmQuery

LEMMA InitCalm == Init => Calm
  BY DEF Init, Calm, CalmMoves, CalmQuery

LEMMA StepCalm == Types /\ Calm /\ [Next]_vars => Calm'
<1> SUFFICES ASSUME Types, Calm, [Next]_vars PROVE Calm'
  OBVIOUS
<1> USE DEF files, writer, migrate, ask, history, Calm
<1>1. CASE Age
  BY <1>1 DEF Age, CalmMoves, CalmQuery, Current
<1>2. CASE OpenWriter
  BY <1>2 DEF OpenWriter, CalmMoves, CalmQuery, Current
<1>3. ASSUME NEW p \in LatePoints, FlushLate(p) PROVE Calm'
  <2>1. wr = "hot" => UNCHANGED cold /\ (hot = None => hot' = None)
    <3>1. wrData /\ wr = "hot" => hot # None
      BY Zenon DEF Types, FileTypes
    <3> QED BY <1>3, <3>1 DEF FlushLate, AppendIf
  <2> QED BY <1>3, <2>1 DEF FlushLate, CalmMoves, CalmQuery, Current
<1>4. CASE MigrateStart
  BY <1>4 DEF MigrateStart, CalmMoves, CalmQuery, Current
<1>5. CASE MigrateSkip
  BY <1>5 DEF MigrateSkip, NextFile, CalmMoves, CalmQuery, Current
<1>6. CASE MigrateRead
  BY <1>6 DEF MigrateRead, CalmMoves, CalmQuery, Current
<1>7. CASE MigrateWrite
  BY <1>7 DEF MigrateWrite, CalmMoves, CalmQuery, Current
<1>8. CASE MigrateRename
  BY <1>8 DEF MigrateRename, CalmMoves, CalmQuery, Current
<1>9. CASE MigrateRenameFail
  BY <1>9 DEF MigrateRenameFail, NextFile, CalmMoves, CalmQuery, Current
<1>10. CASE MigrateCopy
  BY <1>10 DEF MigrateCopy, CalmMoves, CalmQuery, Current
<1>11. CASE MigrateFill
  BY <1>11 DEF MigrateFill, CalmMoves, CalmQuery, Current
<1>12. CASE MigrateRemove
  BY <1>12 DEF MigrateRemove, CalmMoves, CalmQuery, Current
<1>13. CASE MigrateRemoveIdx
  BY <1>13 DEF MigrateRemoveIdx, NextFile, CalmMoves, CalmQuery, Current
<1>14. CASE CleanupStart
  BY <1>14 DEF CleanupStart, CalmMoves, CalmQuery, Current
<1>15. CASE CleanupHot
  BY <1>15 DEF CleanupHot, CalmMoves, CalmQuery, Current
<1>16. CASE CleanupCold
  BY <1>16 DEF CleanupCold, CalmMoves, CalmQuery, Current
<1>17. CASE QueryStart
  BY <1>17 DEF QueryStart, CalmMoves, CalmQuery, Current
<1>18. CASE QueryStat
  BY <1>18 DEF QueryStat, CalmMoves, CalmQuery, Current
<1>19. CASE QueryIndex
  BY <1>19 DEF QueryIndex, CalmMoves, CalmQuery, Current
<1>20. CASE QueryRead
  <2>1. hot = None => Answers(hot) = {{}}
    BY DEF Answers
  <2>2. cold = None => Answers(cold) = {{}}
    BY DEF Answers
  <2> QED BY <1>20, <2>1, <2>2 DEF QueryRead, CalmMoves, CalmQuery, Current
<1>21. CASE QueryReturn
  BY <1>21 DEF QueryReturn, CalmMoves, CalmQuery, Current
<1>22. CASE Kill
  BY <1>22 DEF Kill, CalmMoves, CalmQuery, Current
<1>23. CASE UNCHANGED vars
  BY <1>23 DEF vars, CalmMoves, CalmQuery, Current
<1>24. CASE MigrateFail
  BY <1>24 DEF MigrateFail, Fails, NextFile, CalmMoves, CalmQuery, Current
<1>25. CASE MigrateWriteFail
  BY <1>25 DEF MigrateWriteFail, Fails, CalmMoves, CalmQuery, Current
<1>26. CASE MigrateCopyFail
  BY <1>26 DEF MigrateCopyFail, Fails, CalmMoves, CalmQuery, Current
<1>27. CASE MigrateRemoveFail
  BY <1>27 DEF MigrateRemoveFail, Fails, NextFile, CalmMoves, CalmQuery, Current
<1> QED
  BY <1>1, <1>2, <1>3, <1>4, <1>5, <1>6, <1>7, <1>8, <1>9, <1>10, <1>11, <1>12, <1>13, <1>14,
     <1>15, <1>16, <1>17, <1>18, <1>19, <1>20, <1>21, <1>22, <1>23, <1>24, <1>25, <1>26,
     <1>27
     DEF Next, Migration, Cleanup, Query

\* A query that no migration runs beside, in a process never killed, returns each
\* point from one directory only (Storage.Query reads both), whatever step of the
\* migration failed but the removal of a hot file.
THEOREM NoPointTwice == Spec => []CalmOnce
<1>1. Calm => CalmOnce
  BY DEF Calm, CalmQuery, CalmOnce
<1> QED BY <1>1, InitCalm, StepCalm, TypesInvariant, PTL DEF Spec

-----------------------------------------------------------------------------
(* No point missing. *)

\* None of the exceptions of NeverMissing has happened, and none has before.
Untroubled ==
    /\ age # "expired" /\ flushed = {} /\ ~remade
    /\ failed = {} /\ "removeIdx" \notin killedAt

\* A file that begins with the block of the day.
HasDay(f) == f \in Data /\ f # <<>> /\ f[1] = Day[1]

\* The files: the hot ones go together, and whenever the hot data file of a quiet
\* day is gone, the cold one and its index are there.
DayFiles ==
    /\ cpc = "idle"
    /\ hot \in {Day, None} /\ hotIdx \in {Day, None}
    /\ hot = Day => hotIdx = Day
    /\ hot = None /\ hotIdx = Day => mpc = "removeIdx"
    /\ QuietDay /\ hot = None => HasDay(cold) /\ coldIdx = Day
    /\ QuietDay => tmp["data"] = None \/ HasDay(tmp["data"])

\* The listing of the day, and what is left of it after the data file.
BothFiles == <<"data", "index">>
IndexOnly == <<"index">>

\* The migration: what each step has made sure of for the next.
DayMoves ==
    /\ todo \in {<<>>, BothFiles, IndexOnly}
    /\ todo = IndexOnly => hot = None /\ hotIdx = None /\ mpc = "read"
    /\ todo = BothFiles /\ mpc # "removeIdx" => hot = Day
    /\ mpc = "removeIdx" => hot = None
    /\ mpc = "rename" => tmp["data"] # None
    /\ mpc = "fill" => coldIdx # None

\* ... of a quiet day.
QuietMoves ==
    QuietDay =>
        /\ mpc = "write" => mread = Day
        /\ mpc = "rename" => HasDay(tmp["data"])
        /\ mpc \in {"copy", "fill", "remove"} => HasDay(cold)
        /\ mpc = "fill" => mread = Day
        /\ mpc = "remove" => coldIdx = Day

\* The query: it has the points, or finds those of a quiet day in the cold file.
DayAsked ==
    /\ qpc = "hotRead" => qidx = Day \/ hot = None
    /\ qpc \in {"coldStat", "coldIndex"} => DayPoints \subseteq qhot \/ hot = None
    /\ qpc = "coldRead" => DayPoints \subseteq qhot \/ (hot = None /\ (QuietDay => qidx = Day))
    /\ qpc = "done" => DayPoints \subseteq qhot \union qcold \/ (hot = None /\ ~QuietDay)

Safe == Untroubled => DayFiles /\ DayMoves /\ QuietMoves /\ DayAsked

\* The quiet day as a file.
LEMMA QuietFile ==
  ASSUME QuietDay
  PROVE  /\ HasDay(Day) /\ Day # None /\ DOMAIN Day = {1}
         /\ DayPoints = Day[1].pts /\ DayPoints # {}
         /\ \A level : Encoded(DayPoints, level) = Day[1]
         /\ Scans(Day) = {DayPoints}
<1>1. Day \in Data /\ Day # None
  BY DayAssumption, EmptyFile DEF Data
<1>2. Len(Day) = 1 /\ DOMAIN Day = {1} /\ Day # <<>>
  <2>1. Len(Day) = 1
    BY DEF QuietDay
  <2>2. DOMAIN Day = 1 .. Len(Day) /\ Len(<<>>) = 0
    BY <1>1 DEF Data
  <2> QED BY <2>1, <2>2
<1>3. \A S \in SUBSET DOMAIN Day : 1 \in S => Pts(Day, S) = Day[1].pts
  BY <1>2 DEF Pts
<1>4. DayPoints = Day[1].pts
  BY <1>2, <1>3 DEF DayPoints
<1>5. ASSUME NEW level PROVE Encoded(DayPoints, level) = Day[1]
  <2>1. Day[1] \in Block
    BY <1>1, <1>2 DEF Data
  <2>2. ~(Cardinality(DayPoints) >= BigBlock)
    <3>1. Cardinality(DayPoints) = Cardinality(Day[1].pts)
      BY <1>4
    <3>2. Cardinality(Day[1].pts) < BigBlock
      BY DEF QuietDay
    <3>3. Cardinality(Day[1].pts) \in Nat
      BY FS_CardinalityType DEF QuietDay
    <3> QED BY <3>1, <3>2, <3>3, DayAssumption, SMT
  <2> QED BY <2>1, <2>2, <1>4 DEF Encoded, Block, QuietDay
<1>6. Scans(Day) = {DayPoints}
  <2>1. InStep(Day) = {1}
    BY <1>2 DEF InStep, QuietDay
  <2>2. SUBSET (DOMAIN Day \ InStep(Day)) = {{}}
    BY <2>1, <1>2
  <2>3. Scans(Day) = {Pts(Day, InStep(Day) \union S) : S \in {{}}}
    BY <2>2 DEF Scans
  <2>4. Pts(Day, InStep(Day) \union {}) = DayPoints
    BY <2>1, <1>2, <1>3, <1>4
  <2> QED BY <2>3, <2>4
<1> QED BY <1>1, <1>2, <1>4, <1>5, <1>6 DEF HasDay, QuietDay

\* The day as it is yields its points by index, and so does a file that begins
\* with the block of a quiet day.
LEMMA FoundDay ==
  /\ Lookups(Day, Day) = {DayPoints}
  /\ \A data : QuietDay /\ HasDay(data) => Lookups(data, Day) = {DayPoints}
<1>0. Found(Day, Day) = DOMAIN Day
  <2>1. Day \in Seq(Block)
    BY DayAssumption
  <2>2. DOMAIN Day = 1 .. Len(Day) /\ Len(Day) \in Nat
    BY <2>1
  <2>3. ASSUME NEW j \in DOMAIN Day, NEW x \in 1 .. j PROVE x \in DOMAIN Day
    BY <2>2
  <2> QED BY <2>3 DEF Found
<1>a. Lookups(Day, Day) = {DayPoints}
  BY <1>0 DEF Lookups, DayPoints
<1> SUFFICES ASSUME QuietDay, NEW data, HasDay(data)
             PROVE  Lookups(data, Day) = {DayPoints}
  BY <1>a
<1>1. 1 \in DOMAIN data /\ data[1] = Day[1] /\ DOMAIN Day = {1}
  BY QuietFile DEF HasDay, Data
<1>2. Found(data, Day) = DOMAIN Day
  BY <1>1 DEF Found
<1> QED BY <1>2 DEF Lookups, DayPoints

\* Where the listing begins and how it goes on.
LEMMA Listed ==
  /\ Tail(BothFiles) = IndexOnly /\ Tail(IndexOnly) = <<>>
  /\ Len(BothFiles) = 2 /\ Len(IndexOnly) = 1
  /\ BothFiles[1] = "data" /\ IndexOnly[1] = "index"
  /\ BothFiles # IndexOnly /\ IndexOnly # <<>> /\ BothFiles # <<>>
  /\ <<"data">> \o <<"index">> = BothFiles
<1>1. Len(BothFiles) = 2 /\ Len(IndexOnly) = 1 /\ Len(<<>>) = 0
  BY DEF BothFiles, IndexOnly
<1>2. BothFiles[1] = "data" /\ IndexOnly[1] = "index"
  BY DEF BothFiles, IndexOnly
<1>3. Tail(IndexOnly) = <<>>
  BY DEF IndexOnly
<1>4. Tail(BothFiles) = IndexOnly
  BY DEF BothFiles, IndexOnly
<1>5. BothFiles # IndexOnly /\ IndexOnly # <<>> /\ BothFiles # <<>>
  <2>1. 2 # 1 /\ 2 # 0 /\ 1 # 0
    OBVIOUS
  <2> HIDE DEF BothFiles, IndexOnly
  <2> QED BY <1>1, <2>1, Zenon
<1>6. <<"data">> \o <<"index">> = BothFiles
  <2> DEFINE a == <<"data">>
             b == <<"index">>
  <2>1. a \in Seq(Kinds) /\ b \in Seq(Kinds) /\ Len(a) = 1 /\ Len(b) = 1 /\ a[1] = "data" /\ b[1] = "index"
    BY DEF Kinds
  <2>2. BothFiles \in Seq(Kinds) /\ BothFiles[1] = "data" /\ BothFiles[2] = "index"
    BY DEF BothFiles, Kinds
  <2> HIDE DEF a, b
  <2>3. a \o b \in Seq(Kinds) /\ Len(a \o b) = 2 /\ (a \o b)[1] = "data" /\ (a \o b)[2] = "index"
    BY <2>1, ConcatProperties
  <2>4. \A i \in 1 .. Len(a \o b) : (a \o b)[i] = BothFiles[i]
    BY <2>2, <2>3
  <2>5. a \o b = BothFiles
    BY <2>2, <2>3, <2>4, <1>1, SeqEqual
  <2> QED BY <2>5 DEF a, b
<1> QED BY <1>1, <1>2, <1>3, <1>4, <1>5, <1>6

\* When the migration is at work, it is at the data file, or it has come to the
\* index file and finds nothing there.
LEMMA Working ==
  ASSUME Types, DayMoves, mpc # "idle"
  PROVE  \/ todo = BothFiles /\ Current = "data"
         \/ todo = IndexOnly /\ Current = "index" /\ mpc = "read" /\ hot = None /\ hotIdx = None
<1>1. todo # <<>>
  BY DEF Types, MigrateTypes
<1> QED BY <1>1, Listed DEF DayMoves, Current

\* On to the next file.
LEMMA GoesOn ==
  ASSUME Types, DayMoves, mpc # "idle", NextFile
  PROVE  \/ Current = "data" /\ todo' = IndexOnly /\ mpc' = "read"
         \/ Current = "index" /\ todo' = <<>> /\ mpc' = "idle"
  BY Working, Listed DEF NextFile

LEMMA InitSafe == Init => Safe
<1> SUFFICES ASSUME Init PROVE Safe
  OBVIOUS
<1>1. Day # None
  BY DayAssumption, Zenon
<1>2. tmp["data"] = None
  BY DEF Init
<1>3. <<>> # IndexOnly /\ <<>> # BothFiles
  BY Listed
<1>4. DayFiles
  BY <1>1, <1>2 DEF Init, DayFiles
<1>5. DayMoves
  BY <1>3 DEF Init, DayMoves
<1>6. DayAsked
  BY DEF Init, DayAsked
<1>7. QuietMoves
  BY DEF Init, QuietMoves
<1> QED BY <1>4, <1>5, <1>6, <1>7 DEF Safe

LEMMA StepSafe == Types /\ Safe /\ [Next]_vars => Safe'
<1> SUFFICES ASSUME Types, Safe, [Next]_vars, Untroubled'
             PROVE  DayFiles' /\ DayMoves' /\ QuietMoves' /\ DayAsked'
  BY DEF Safe
<1> USE DEF files, writer, migrate, ask, history
<1>0. /\ Day \in Data /\ Day # None
      /\ \A f : HasDay(f) => f # None
      /\ <<>> # None
  <2>1. Day \in Data /\ Day # None
    BY DayAssumption, EmptyFile DEF Data
  <2> QED BY <2>1, EmptyFile DEF HasDay
<1>q. QuietDay => /\ HasDay(Day) /\ Day # <<>> /\ <<Day[1]>> = Day
                  /\ DayPoints # {} /\ Scans(Day) = {DayPoints}
                  /\ \A level : Encoded(DayPoints, level) = Day[1]
  <2> SUFFICES ASSUME QuietDay
               PROVE  /\ HasDay(Day) /\ Day # <<>> /\ <<Day[1]>> = Day
                      /\ DayPoints # {} /\ Scans(Day) = {DayPoints}
                      /\ \A level : Encoded(DayPoints, level) = Day[1]
    OBVIOUS
  <2>1. <<Day[1]>> = Day
    <3>1. Len(Day) = 1
      BY DEF QuietDay
    <3> QED BY <1>0, <3>1 DEF Data
  <2> QED BY <2>1, QuietFile DEF HasDay
<1>l. BothFiles # IndexOnly /\ IndexOnly # <<>> /\ BothFiles # <<>>
  BY Listed
<1> DEFINE Goal == DayFiles' /\ DayMoves' /\ QuietMoves' /\ DayAsked'
<1>u. /\ age' # "expired" /\ "removeIdx" \notin killedAt' /\ flushed' = {} /\ ~remade'
      /\ failed' = {}
  BY DEF Untroubled
<1>1. CASE Age
  <2>1. Untroubled
    BY <1>u, <1>1 DEF Age, Untroubled
  <2>2. DayFiles /\ DayMoves /\ QuietMoves /\ DayAsked
    BY <2>1 DEF Safe
  <2>3. DayFiles'
    BY <2>2, <1>0, <1>q, <1>l, <1>u, <1>1 DEF Age, DayFiles, DayMoves, QuietMoves
  <2>4. DayMoves'
    BY <2>2, <1>0, <1>q, <1>l, <1>u, <1>1 DEF Age, DayFiles, DayMoves, QuietMoves
  <2>6. QuietMoves'
    BY <2>2, <1>0, <1>q, <1>l, <1>u, <1>1 DEF Age, DayFiles, DayMoves, QuietMoves
  <2>5. DayAsked'
    BY <2>2, <1>0, <1>q, <1>l, <1>u, <1>1 DEF Age, DayFiles, DayMoves, QuietMoves, DayAsked
  <2> QED BY <2>3, <2>4, <2>5, <2>6
<1>2. CASE OpenWriter
  <2>1. Untroubled
    <3>1. ~remade
      BY <1>u, <1>2, Zenon DEF OpenWriter
    <3> QED BY <1>u, <1>2, <3>1 DEF OpenWriter, Untroubled
  <2>2. DayFiles /\ DayMoves /\ QuietMoves /\ DayAsked
    BY <2>1 DEF Safe
  <2>3. DayFiles'
    BY <2>2, <1>0, <1>q, <1>l, <1>u, <1>2 DEF OpenWriter, DayFiles, DayMoves, QuietMoves
  <2>4. DayMoves'
    BY <2>2, <1>0, <1>q, <1>l, <1>u, <1>2 DEF OpenWriter, DayFiles, DayMoves, QuietMoves
  <2>6. QuietMoves'
    BY <2>2, <1>0, <1>q, <1>l, <1>u, <1>2 DEF OpenWriter, DayFiles, DayMoves, QuietMoves
  <2>5. DayAsked'
    BY <2>2, <1>0, <1>q, <1>l, <1>u, <1>2 DEF OpenWriter, DayFiles, DayMoves, QuietMoves, DayAsked
  <2> QED BY <2>3, <2>4, <2>5, <2>6
<1>3. ASSUME NEW p \in LatePoints, FlushLate(p) PROVE Goal
  BY <1>u, <1>3 DEF FlushLate
<1>4. CASE MigrateStart
  <2>1. Untroubled
    BY <1>u, <1>4 DEF MigrateStart, Untroubled
  <2>2. DayFiles /\ DayMoves /\ QuietMoves /\ DayAsked
    BY <2>1 DEF Safe
  <2>3. DayFiles'
    BY <2>2, <1>0, <1>q, <1>l, <1>u, <1>4 DEF MigrateStart, DayFiles, DayMoves, QuietMoves
  <2>m. mpc = "idle" /\ todo' = Listing /\ mpc' = "read" /\ UNCHANGED <<hot, hotIdx, tmp, cold, coldIdx>>
    BY <1>4 DEF MigrateStart
  <2>d. hot = Day /\ hotIdx = Day
    <3>1. hot # None \/ hotIdx # None
      BY <1>4 DEF MigrateStart, Listing
    <3> QED BY <2>2, <2>m, <3>1, <1>0 DEF DayFiles
  <2>t. todo' = BothFiles
    BY <2>m, <2>d, <1>0, Listed DEF Listing
  <2>4. DayMoves'
    BY <2>m, <2>d, <2>t, <1>l DEF DayMoves
  <2>6. QuietMoves'
    BY <2>m DEF QuietMoves
  <2>5. DayAsked'
    BY <2>2, <1>0, <1>q, <1>l, <1>u, <1>4 DEF MigrateStart, DayFiles, DayMoves, QuietMoves, DayAsked
  <2> QED BY <2>3, <2>4, <2>5, <2>6
<1>5. CASE MigrateSkip
  <2>1. Untroubled
    BY <1>u, <1>5 DEF MigrateSkip, Untroubled
  <2>2. DayFiles /\ DayMoves /\ QuietMoves /\ DayAsked
    BY <2>1 DEF Safe
  <2>w. \/ todo = BothFiles /\ Current = "data"
        \/ todo = IndexOnly /\ Current = "index" /\ mpc = "read" /\ hot = None /\ hotIdx = None
    BY <1>5, <2>2, Working, Zenon DEF MigrateSkip
  <2>n. \/ Current = "data" /\ todo' = IndexOnly /\ mpc' = "read"
        \/ Current = "index" /\ todo' = <<>> /\ mpc' = "idle"
    BY <1>5, <2>2, GoesOn, Zenon DEF MigrateSkip
  <2>3. DayFiles'
    BY <2>2, <2>w, <2>n, <1>0, <1>q, <1>l, <1>u, <1>5 DEF MigrateSkip, Source, DayFiles, DayMoves, QuietMoves
  <2>4. DayMoves'
    BY <2>2, <2>w, <2>n, <1>0, <1>q, <1>l, <1>u, <1>5 DEF MigrateSkip, Source, DayFiles, DayMoves, QuietMoves
  <2>6. QuietMoves'
    BY <2>2, <2>w, <2>n, <1>0, <1>q, <1>l, <1>u, <1>5 DEF MigrateSkip, Source, DayFiles, DayMoves, QuietMoves
  <2>5. DayAsked'
    BY <2>2, <2>w, <2>n, <1>0, <1>q, <1>l, <1>u, <1>5 DEF MigrateSkip, DayFiles, DayMoves, QuietMoves, DayAsked
  <2> QED BY <2>3, <2>4, <2>5, <2>6
<1>6. CASE MigrateRead
  <2>1. Untroubled
    BY <1>u, <1>6 DEF MigrateRead, Untroubled
  <2>2. DayFiles /\ DayMoves /\ QuietMoves /\ DayAsked
    BY <2>1 DEF Safe
  <2>w. \/ todo = BothFiles /\ Current = "data"
        \/ todo = IndexOnly /\ Current = "index" /\ mpc = "read" /\ hot = None /\ hotIdx = None
    BY <1>6, <2>2, Working, Zenon DEF MigrateRead
  <2>3. DayFiles'
    BY <2>2, <2>w, <1>0, <1>q, <1>l, <1>u, <1>6 DEF MigrateRead, DayFiles, DayMoves, QuietMoves
  <2>m. todo' = todo /\ mpc = "read" /\ mpc' = "write" /\ hot' = hot /\ Source # None
    BY <1>6 DEF MigrateRead
  <2>d. Current = "data" /\ todo = BothFiles /\ hot = Day
    BY <2>2, <2>m, <2>w DEF Source, DayMoves
  <2>r. QuietDay => mread' = Day
    <3> SUFFICES ASSUME QuietDay PROVE mread' = Day
      OBVIOUS
    <3>1. PICK S \in Scans(hot) : mread' = IF S = {} THEN <<>> ELSE <<Encoded(S, "best")>>
      BY <1>6, <2>d DEF MigrateRead
    <3>2. S = DayPoints
      BY <3>1, <2>d, <1>q
    <3> QED BY <3>1, <3>2, <1>q
  <2>4. DayMoves'
    BY <2>m, <2>d, <1>l DEF DayMoves
  <2>6. QuietMoves'
    BY <2>m, <2>r DEF QuietMoves
  <2>5. DayAsked'
    BY <2>2, <2>w, <1>0, <1>q, <1>l, <1>u, <1>6 DEF MigrateRead, DayFiles, DayMoves, QuietMoves, DayAsked
  <2> QED BY <2>3, <2>4, <2>5, <2>6
<1>7. CASE MigrateWrite
  <2>1. Untroubled
    BY <1>u, <1>7 DEF MigrateWrite, Untroubled
  <2>2. DayFiles /\ DayMoves /\ QuietMoves /\ DayAsked
    BY <2>1 DEF Safe
  <2>w. \/ todo = BothFiles /\ Current = "data"
        \/ todo = IndexOnly /\ Current = "index" /\ mpc = "read" /\ hot = None /\ hotIdx = None
    BY <1>7, <2>2, Working, Zenon DEF MigrateWrite
  <2>m. /\ todo = BothFiles /\ todo' = todo /\ mpc = "write" /\ mpc' = "rename"
        /\ cpc' = cpc /\ UNCHANGED files /\ (QuietDay => mread = Day)
    BY <1>7, <2>2, <2>w DEF MigrateWrite, DayMoves, QuietMoves
  <2>t. tmp'["data"] # None /\ (QuietDay => HasDay(tmp'["data"]))
    <3>1. tmp'["data"] = IF tmp["data"] = None THEN mread ELSE tmp["data"] \o mread
      BY <1>7, <2>w, <2>m DEF MigrateWrite, Types, MigrateTypes, Kinds
    <3>2. ASSUME NEW f, HasDay(f) PROVE HasDay(f \o Day)
      <4>1. f \in Data /\ f # <<>> /\ f[1] = Day[1] /\ Day \in Data
        BY <3>2, <1>0 DEF HasDay
      <4>2. f \o Day \in Data /\ Len(f \o Day) = Len(f) + Len(Day) /\ Len(f) \in Nat \ {0}
        BY <4>1 DEF Data
      <4>3. (f \o Day)[1] = f[1]
        BY <4>1, <4>2 DEF Data
      <4>4. f \o Day # <<>>
        BY <4>1, <4>2 DEF Data
      <4> QED BY <4>1, <4>2, <4>3, <4>4 DEF HasDay
    <3>3. QuietDay => tmp["data"] = None \/ HasDay(tmp["data"])
      BY <2>2 DEF DayFiles
    <3>4. QuietDay => HasDay(tmp'["data"])
      BY <2>m, <3>1, <3>2, <3>3, <1>q
    <3>5. tmp'["data"] \in Data
      <4>1. mread \in Data /\ tmp["data"] \in DataFile
        BY DEF Types, MigrateTypes, Kinds
      <4> QED BY <3>1, <4>1 DEF DataFile, Data
    <3> QED BY <3>4, <3>5, EmptyFile
  <2>3. DayFiles'
    BY <2>2, <2>m, <2>t DEF DayFiles
  <2>4. DayMoves'
    BY <2>2, <2>m, <2>t, <1>l DEF DayMoves
  <2>6. QuietMoves'
    BY <2>m, <2>t DEF QuietMoves
  <2>5. DayAsked'
    BY <2>2, <2>w, <1>0, <1>q, <1>l, <1>u, <1>7 DEF MigrateWrite, DayFiles, DayMoves, QuietMoves, DayAsked
  <2> QED BY <2>3, <2>4, <2>5, <2>6
<1>8. CASE MigrateRename
  <2>1. Untroubled
    BY <1>u, <1>8 DEF MigrateRename, Untroubled
  <2>2. DayFiles /\ DayMoves /\ QuietMoves /\ DayAsked
    BY <2>1 DEF Safe
  <2>w. \/ todo = BothFiles /\ Current = "data"
        \/ todo = IndexOnly /\ Current = "index" /\ mpc = "read" /\ hot = None /\ hotIdx = None
    BY <1>8, <2>2, Working, Zenon DEF MigrateRename
  <2>3. DayFiles'
    BY <2>2, <2>w, <1>0, <1>q, <1>l, <1>u, <1>8 DEF MigrateRename, DayFiles, DayMoves, QuietMoves
  <2>4. DayMoves'
    BY <2>2, <2>w, <1>0, <1>q, <1>l, <1>u, <1>8 DEF MigrateRename, DayFiles, DayMoves, QuietMoves
  <2>6. QuietMoves'
    BY <2>2, <2>w, <1>0, <1>q, <1>l, <1>u, <1>8 DEF MigrateRename, DayFiles, DayMoves, QuietMoves
  <2>5. DayAsked'
    BY <2>2, <2>w, <1>0, <1>q, <1>l, <1>u, <1>8 DEF MigrateRename, DayFiles, DayMoves, QuietMoves, DayAsked
  <2> QED BY <2>3, <2>4, <2>5, <2>6
<1>9. CASE MigrateRenameFail
  <2>1. Untroubled
    BY <1>u, <1>9 DEF MigrateRenameFail, Untroubled
  <2>2. DayFiles /\ DayMoves /\ QuietMoves /\ DayAsked
    BY <2>1 DEF Safe
  <2>w. \/ todo = BothFiles /\ Current = "data"
        \/ todo = IndexOnly /\ Current = "index" /\ mpc = "read" /\ hot = None /\ hotIdx = None
    BY <1>9, <2>2, Working, Zenon DEF MigrateRenameFail
  <2>n. \/ Current = "data" /\ todo' = IndexOnly /\ mpc' = "read"
        \/ Current = "index" /\ todo' = <<>> /\ mpc' = "idle"
    BY <1>9, <2>2, GoesOn, Zenon DEF MigrateRenameFail
  <2>3. DayFiles'
    BY <2>2, <2>w, <2>n, <1>0, <1>q, <1>l, <1>u, <1>9 DEF MigrateRenameFail, DayFiles, DayMoves, QuietMoves
  <2>4. DayMoves'
    BY <2>2, <2>w, <2>n, <1>0, <1>q, <1>l, <1>u, <1>9 DEF MigrateRenameFail, DayFiles, DayMoves, QuietMoves
  <2>6. QuietMoves'
    BY <2>2, <2>w, <2>n, <1>0, <1>q, <1>l, <1>u, <1>9 DEF MigrateRenameFail, DayFiles, DayMoves, QuietMoves
  <2>5. DayAsked'
    BY <2>2, <2>w, <2>n, <1>0, <1>q, <1>l, <1>u, <1>9 DEF MigrateRenameFail, DayFiles, DayMoves, QuietMoves, DayAsked
  <2> QED BY <2>3, <2>4, <2>5, <2>6
<1>10. CASE MigrateCopy
  <2>1. Untroubled
    BY <1>u, <1>10 DEF MigrateCopy, Untroubled
  <2>2. DayFiles /\ DayMoves /\ QuietMoves /\ DayAsked
    BY <2>1 DEF Safe
  <2>w. \/ todo = BothFiles /\ Current = "data"
        \/ todo = IndexOnly /\ Current = "index" /\ mpc = "read" /\ hot = None /\ hotIdx = None
    BY <1>10, <2>2, Working, Zenon DEF MigrateCopy
  <2>m. /\ todo = BothFiles /\ todo' = todo /\ mpc = "copy" /\ hot = Day
        /\ hot' = hot /\ cold' = cold
    BY <1>10, <2>2, <2>w DEF MigrateCopy, DayMoves
  <2>c. mpc' = "fill" /\ coldIdx' = <<>> /\ mread' = Day
    <3>1. hotIdx = Day
      BY <2>2, <2>m DEF DayFiles
    <3> QED BY <1>10, <3>1, <1>0 DEF MigrateCopy
  <2>3. DayFiles'
    BY <2>2, <2>w, <1>0, <1>q, <1>l, <1>u, <1>10 DEF MigrateCopy, DayFiles, DayMoves, QuietMoves
  <2>4. DayMoves'
    BY <2>m, <2>c, <1>0, <1>l DEF DayMoves
  <2>6. QuietMoves'
    <3>1. QuietDay => HasDay(cold')
      BY <2>2, <2>m DEF QuietMoves
    <3> QED BY <2>c, <3>1 DEF QuietMoves
  <2>5. DayAsked'
    BY <2>2, <2>w, <1>0, <1>q, <1>l, <1>u, <1>10 DEF MigrateCopy, DayFiles, DayMoves, QuietMoves, DayAsked
  <2> QED BY <2>3, <2>4, <2>5, <2>6
<1>11. CASE MigrateFill
  <2>1. Untroubled
    BY <1>u, <1>11 DEF MigrateFill, Untroubled
  <2>2. DayFiles /\ DayMoves /\ QuietMoves /\ DayAsked
    BY <2>1 DEF Safe
  <2>w. \/ todo = BothFiles /\ Current = "data"
        \/ todo = IndexOnly /\ Current = "index" /\ mpc = "read" /\ hot = None /\ hotIdx = None
    BY <1>11, <2>2, Working, Zenon DEF MigrateFill
  <2>3. DayFiles'
    BY <2>2, <2>w, <1>0, <1>q, <1>l, <1>u, <1>11 DEF MigrateFill, DayFiles, DayMoves, QuietMoves
  <2>4. DayMoves'
    BY <2>2, <2>w, <1>0, <1>q, <1>l, <1>u, <1>11 DEF MigrateFill, DayFiles, DayMoves, QuietMoves
  <2>6. QuietMoves'
    BY <2>2, <2>w, <1>0, <1>q, <1>l, <1>u, <1>11 DEF MigrateFill, DayFiles, DayMoves, QuietMoves
  <2>5. DayAsked'
    BY <2>2, <2>w, <1>0, <1>q, <1>l, <1>u, <1>11 DEF MigrateFill, DayFiles, DayMoves, QuietMoves, DayAsked
  <2> QED BY <2>3, <2>4, <2>5, <2>6
<1>12. CASE MigrateRemove
  <2>1. Untroubled
    BY <1>u, <1>12 DEF MigrateRemove, Untroubled
  <2>2. DayFiles /\ DayMoves /\ QuietMoves /\ DayAsked
    BY <2>1 DEF Safe
  <2>w. \/ todo = BothFiles /\ Current = "data"
        \/ todo = IndexOnly /\ Current = "index" /\ mpc = "read" /\ hot = None /\ hotIdx = None
    BY <1>12, <2>2, Working, Zenon DEF MigrateRemove
  <2>3. DayFiles'
    BY <2>2, <2>w, <1>0, <1>q, <1>l, <1>u, <1>12 DEF MigrateRemove, DayFiles, DayMoves, QuietMoves
  <2>4. DayMoves'
    BY <2>2, <2>w, <1>0, <1>q, <1>l, <1>u, <1>12 DEF MigrateRemove, DayFiles, DayMoves, QuietMoves
  <2>6. QuietMoves'
    BY <2>2, <2>w, <1>0, <1>q, <1>l, <1>u, <1>12 DEF MigrateRemove, DayFiles, DayMoves, QuietMoves
  <2>5. DayAsked'
    BY <2>2, <2>w, <1>0, <1>q, <1>l, <1>u, <1>12 DEF MigrateRemove, DayFiles, DayMoves, QuietMoves, DayAsked
  <2> QED BY <2>3, <2>4, <2>5, <2>6
<1>13. CASE MigrateRemoveIdx
  <2>1. Untroubled
    BY <1>u, <1>13 DEF MigrateRemoveIdx, Untroubled
  <2>2. DayFiles /\ DayMoves /\ QuietMoves /\ DayAsked
    BY <2>1 DEF Safe
  <2>w. \/ todo = BothFiles /\ Current = "data"
        \/ todo = IndexOnly /\ Current = "index" /\ mpc = "read" /\ hot = None /\ hotIdx = None
    BY <1>13, <2>2, Working, Zenon DEF MigrateRemoveIdx
  <2>n. \/ Current = "data" /\ todo' = IndexOnly /\ mpc' = "read"
        \/ Current = "index" /\ todo' = <<>> /\ mpc' = "idle"
    BY <1>13, <2>2, GoesOn, Zenon DEF MigrateRemoveIdx
  <2>3. DayFiles'
    BY <2>2, <2>w, <2>n, <1>0, <1>q, <1>l, <1>u, <1>13 DEF MigrateRemoveIdx, DayFiles, DayMoves, QuietMoves
  <2>4. DayMoves'
    BY <2>2, <2>w, <2>n, <1>0, <1>q, <1>l, <1>u, <1>13 DEF MigrateRemoveIdx, DayFiles, DayMoves, QuietMoves
  <2>6. QuietMoves'
    BY <2>2, <2>w, <2>n, <1>0, <1>q, <1>l, <1>u, <1>13 DEF MigrateRemoveIdx, DayFiles, DayMoves, QuietMoves
  <2>5. DayAsked'
    BY <2>2, <2>w, <2>n, <1>0, <1>q, <1>l, <1>u, <1>13 DEF MigrateRemoveIdx, DayFiles, DayMoves, QuietMoves, DayAsked
  <2> QED BY <2>3, <2>4, <2>5, <2>6
<1>14. CASE CleanupStart
  BY <1>u, <1>14 DEF CleanupStart
<1>15. CASE CleanupHot
  <2>1. Untroubled
    BY <1>u, <1>15 DEF CleanupHot, Untroubled
  <2>2. DayFiles /\ DayMoves /\ QuietMoves /\ DayAsked
    BY <2>1 DEF Safe
  <2>3. DayFiles'
    BY <2>2, <1>0, <1>q, <1>l, <1>u, <1>15 DEF CleanupHot, DayFiles, DayMoves, QuietMoves
  <2>4. DayMoves'
    BY <2>2, <1>0, <1>q, <1>l, <1>u, <1>15 DEF CleanupHot, DayFiles, DayMoves, QuietMoves
  <2>6. QuietMoves'
    BY <2>2, <1>0, <1>q, <1>l, <1>u, <1>15 DEF CleanupHot, DayFiles, DayMoves, QuietMoves
  <2>5. DayAsked'
    BY <2>2, <1>0, <1>q, <1>l, <1>u, <1>15 DEF CleanupHot, DayFiles, DayMoves, QuietMoves, DayAsked
  <2> QED BY <2>3, <2>4, <2>5, <2>6
<1>16. CASE CleanupCold
  <2>1. Untroubled
    BY <1>u, <1>16 DEF CleanupCold, Untroubled
  <2>2. DayFiles /\ DayMoves /\ QuietMoves /\ DayAsked
    BY <2>1 DEF Safe
  <2>3. DayFiles'
    BY <2>2, <1>0, <1>q, <1>l, <1>u, <1>16 DEF CleanupCold, DayFiles, DayMoves, QuietMoves
  <2>4. DayMoves'
    BY <2>2, <1>0, <1>q, <1>l, <1>u, <1>16 DEF CleanupCold, DayFiles, DayMoves, QuietMoves
  <2>6. QuietMoves'
    BY <2>2, <1>0, <1>q, <1>l, <1>u, <1>16 DEF CleanupCold, DayFiles, DayMoves, QuietMoves
  <2>5. DayAsked'
    BY <2>2, <1>0, <1>q, <1>l, <1>u, <1>16 DEF CleanupCold, DayFiles, DayMoves, QuietMoves, DayAsked
  <2> QED BY <2>3, <2>4, <2>5, <2>6
<1>17. CASE QueryStart
  <2>1. Untroubled
    BY <1>u, <1>17 DEF QueryStart, Untroubled
  <2>2. DayFiles /\ DayMoves /\ QuietMoves /\ DayAsked
    BY <2>1 DEF Safe
  <2>3. DayFiles'
    BY <2>2, <1>0, <1>q, <1>l, <1>u, <1>17 DEF QueryStart, DayFiles, DayMoves, QuietMoves
  <2>4. DayMoves'
    BY <2>2, <1>0, <1>q, <1>l, <1>u, <1>17 DEF QueryStart, DayFiles, DayMoves, QuietMoves
  <2>6. QuietMoves'
    BY <2>2, <1>0, <1>q, <1>l, <1>u, <1>17 DEF QueryStart, DayFiles, DayMoves, QuietMoves
  <2>5. DayAsked'
    BY <2>2, <1>0, <1>q, <1>l, <1>u, <1>17 DEF QueryStart, DayFiles, DayMoves, QuietMoves, DayAsked
  <2> QED BY <2>3, <2>4, <2>5, <2>6
<1>18. CASE QueryStat
  <2>1. Untroubled
    BY <1>u, <1>18 DEF QueryStat, Untroubled
  <2>2. DayFiles /\ DayMoves /\ QuietMoves /\ DayAsked
    BY <2>1 DEF Safe
  <2>3. DayFiles'
    BY <2>2, <1>0, <1>q, <1>l, <1>u, <1>18 DEF QueryStat, DayFiles, DayMoves, QuietMoves
  <2>4. DayMoves'
    BY <2>2, <1>0, <1>q, <1>l, <1>u, <1>18 DEF QueryStat, DayFiles, DayMoves, QuietMoves
  <2>6. QuietMoves'
    BY <2>2, <1>0, <1>q, <1>l, <1>u, <1>18 DEF QueryStat, DayFiles, DayMoves, QuietMoves
  <2>5. DayAsked'
    BY <2>2, <1>0, <1>q, <1>l, <1>u, <1>18 DEF QueryStat, DayFiles, DayMoves, QuietMoves, DayAsked
  <2> QED BY <2>3, <2>4, <2>5, <2>6
<1>19. CASE QueryIndex
  <2>1. Untroubled
    BY <1>u, <1>19 DEF QueryIndex, Untroubled
  <2>2. DayFiles /\ DayMoves /\ QuietMoves /\ DayAsked
    BY <2>1 DEF Safe
  <2>3. DayFiles'
    BY <2>2, <1>0, <1>q, <1>l, <1>u, <1>19 DEF QueryIndex, DayFiles, DayMoves, QuietMoves
  <2>4. DayMoves'
    BY <2>2, <1>0, <1>q, <1>l, <1>u, <1>19 DEF QueryIndex, DayFiles, DayMoves, QuietMoves
  <2>6. QuietMoves'
    BY <2>2, <1>0, <1>q, <1>l, <1>u, <1>19 DEF QueryIndex, DayFiles, DayMoves, QuietMoves
  <2>5. DayAsked'
    BY <2>2, <1>0, <1>q, <1>l, <1>u, <1>19 DEF QueryIndex, DayFiles, DayMoves, QuietMoves, DayAsked
  <2> QED BY <2>3, <2>4, <2>5, <2>6
<1>20. CASE QueryRead
  <2>1. Untroubled
    BY <1>u, <1>20 DEF QueryRead, Untroubled
  <2>2. DayFiles /\ DayMoves /\ QuietMoves /\ DayAsked
    BY <2>1 DEF Safe
  <2>3. DayFiles'
    BY <2>2, <1>0, <1>q, <1>l, <1>u, <1>20 DEF QueryRead, DayFiles, DayMoves, QuietMoves
  <2>4. DayMoves'
    BY <2>2, <1>0, <1>q, <1>l, <1>u, <1>20 DEF QueryRead, DayFiles, DayMoves, QuietMoves
  <2>6. QuietMoves'
    BY <2>2, <1>0, <1>q, <1>l, <1>u, <1>20 DEF QueryRead, DayFiles, DayMoves, QuietMoves
  <2>5. DayAsked'
    <3>1. CASE qpc = "hotRead"
      <4>1. (hot = Day /\ qidx = Day) \/ hot = None
        BY <2>2, <3>1 DEF DayFiles, DayAsked
      <4>2. hot = Day => DayPoints \subseteq qhot'
        BY <1>20, <3>1, <4>1, <1>0, FoundDay DEF QueryRead, Answers
      <4> QED BY <1>20, <3>1, <4>1, <4>2 DEF QueryRead, DayAsked
    <3>2. CASE qpc = "coldRead"
      <4>1. DayPoints \subseteq qhot \/ (hot = None /\ (QuietDay => qidx = Day))
        BY <2>2, <3>2 DEF DayAsked
      <4>2. QuietDay /\ hot = None => HasDay(cold)
        BY <2>2 DEF DayFiles
      <4>3. QuietDay /\ hot = None /\ qidx = Day => DayPoints \subseteq qcold'
        BY <1>20, <3>2, <4>2, <1>0, FoundDay DEF QueryRead, Answers
      <4> QED BY <1>20, <3>2, <4>1, <4>3 DEF QueryRead, DayAsked
    <3> QED BY <1>20, <3>1, <3>2 DEF QueryRead
  <2> QED BY <2>3, <2>4, <2>5, <2>6
<1>21. CASE QueryReturn
  <2>1. Untroubled
    BY <1>u, <1>21 DEF QueryReturn, Untroubled
  <2>2. DayFiles /\ DayMoves /\ QuietMoves /\ DayAsked
    BY <2>1 DEF Safe
  <2>3. DayFiles'
    BY <2>2, <1>0, <1>q, <1>l, <1>u, <1>21 DEF QueryReturn, DayFiles, DayMoves, QuietMoves
  <2>4. DayMoves'
    BY <2>2, <1>0, <1>q, <1>l, <1>u, <1>21 DEF QueryReturn, DayFiles, DayMoves, QuietMoves
  <2>6. QuietMoves'
    BY <2>2, <1>0, <1>q, <1>l, <1>u, <1>21 DEF QueryReturn, DayFiles, DayMoves, QuietMoves
  <2>5. DayAsked'
    BY <2>2, <1>0, <1>q, <1>l, <1>u, <1>21 DEF QueryReturn, DayFiles, DayMoves, QuietMoves, DayAsked
  <2> QED BY <2>3, <2>4, <2>5, <2>6
<1>22. CASE Kill
  <2>1. Untroubled
    BY <1>u, <1>22 DEF Kill, Untroubled
  <2>2. DayFiles /\ DayMoves /\ QuietMoves /\ DayAsked
    BY <2>1 DEF Safe
  <2>3. DayFiles'
    BY <2>2, <1>0, <1>q, <1>l, <1>u, <1>22 DEF Kill, DayFiles, DayMoves, QuietMoves
  <2>4. DayMoves'
    BY <2>2, <1>0, <1>q, <1>l, <1>u, <1>22 DEF Kill, DayFiles, DayMoves, QuietMoves
  <2>6. QuietMoves'
    BY <2>2, <1>0, <1>q, <1>l, <1>u, <1>22 DEF Kill, DayFiles, DayMoves, QuietMoves
  <2>5. DayAsked'
    BY <2>2, <1>0, <1>q, <1>l, <1>u, <1>22 DEF Kill, DayFiles, DayMoves, QuietMoves, DayAsked
  <2> QED BY <2>3, <2>4, <2>5, <2>6
<1>23. CASE UNCHANGED vars
  <2>1. Untroubled
    BY <1>u, <1>23 DEF vars, Untroubled
  <2> QED BY <2>1, <1>23 DEF vars, Safe, DayFiles, DayMoves, QuietMoves, DayAsked
<1>24. CASE MigrateFail
  BY <1>u, <1>24 DEF MigrateFail, Fails
<1>25. CASE MigrateWriteFail
  BY <1>u, <1>25 DEF MigrateWriteFail, Fails
<1>26. CASE MigrateCopyFail
  BY <1>u, <1>26 DEF MigrateCopyFail, Fails
<1>27. CASE MigrateRemoveFail
  BY <1>u, <1>27 DEF MigrateRemoveFail, Fails
<1> QED
  BY <1>1, <1>2, <1>3, <1>4, <1>5, <1>6, <1>7, <1>8, <1>9, <1>10, <1>11, <1>12, <1>13, <1>14,
     <1>15, <1>16, <1>17, <1>18, <1>19, <1>20, <1>21, <1>22, <1>23, <1>24, <1>25, <1>26,
     <1>27
     DEF Next, Migration, Cleanup, Query

\* A query beside the migration finds the points of any day while the hot file
\* is there, and those of a quiet day when it goes, too, as long as no step of the
\* migration fails: moveColdData removes the hot file only when the cold one and
\* its index are complete.
THEOREM NothingMissing == Spec => []NeverMissing
<1>1. Safe => NeverMissing
  BY DEF Safe, DayAsked, Untroubled, NeverMissing
<1> QED BY <1>1, InitSafe, StepSafe, TypesInvariant, PTL DEF Spec

=============================================================================
