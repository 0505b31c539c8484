------------------------------- MODULE Tiering -------------------------------
(***************************************************************************)
(* The files of one device for one day, and who works on them: a DayWriter *)
(* that Storage keeps open, tieringLoop moving the day from the hot to the *)
(* cold directory (moveColdData, recompressCold), cleanupLoop deleting it  *)
(* when it expires (cleanupExpiredData), and queries (Storage.Query), each *)
(* in a goroutine of its own with no lock between them, and a process that *)
(* may be killed and started again.  Any step of the migration may fail;  *)
(* most failures are logged and passed over.  (tffiles/storage.go)         *)
(*                                                                         *)
(* A data file is the sequence of its blocks, an index file the sequence   *)
(* of the blocks its entries describe.  An entry finds its block when the  *)
(* data file holds the same bytes up to there; otherwise its offset or its *)
(* length is wrong.                                                        *)
(***************************************************************************)
EXTENDS Integers, Sequences, FiniteSets, Functions

CONSTANTS
    Day,        \* the blocks on disk when the day is over
    LatePoints, \* points that arrive after that
    BigBlock,   \* blocks of that many points are compressed
    Failing,    \* the steps of the migration that may fail
    MaxTroubles, \* bound: kills of the process and failed steps together
    None        \* stands for a file that does not exist

\* "zstd" blocks are compressed by a writer, "best" ones by the migration at
\* level 9; "junk" is what the migration makes of an index file.
Block == [pts : SUBSET Int, fmt : {"raw", "zstd", "best", "junk"}]
Junk == [pts |-> {}, fmt |-> "junk"]

ASSUME DayAssumption ==
    /\ Day \in Seq(Block) /\ LatePoints \subseteq Int
    /\ None \notin Seq(Block)
    /\ BigBlock \in Nat \ {0} /\ MaxTroubles \in Nat

Pts(data, S) == UNION {data[b].pts : b \in S}
DayPoints == Pts(Day, DOMAIN Day)

VARIABLES
    age,                        \* of the day: "hot", "edge", "cold" or "expired"
    hot, hotIdx, cold, coldIdx, \* the files
    tmp,                        \* the temporary file of each migrated file
    wr, wrData, wrIdx,          \* the open writer: its directory, and whether
                                \* its files still have their names
    mpc, todo, mread,           \* moveColdData
    cpc,                        \* cleanupExpiredData
    qpc, qidx, qhot, qcold,     \* Query, and what it got from each directory
    flushed, killedAt, failed,  \* history: late points written, where the
    remade, calm                \* process was killed and where a step failed, a
                                \* moved day made again in hot, no migration
                                \* during the query

files   == <<hot, hotIdx, cold, coldIdx>>
writer  == <<wr, wrData, wrIdx>>
migrate == <<mpc, todo, mread, tmp>>
ask     == <<qpc, qidx, qhot, qcold>>
history == <<flushed, killedAt, failed, remade>>
vars    == <<age, files, writer, migrate, cpc, ask, history, calm>>

\* A directory listing names the data file before its index.
Listing == (IF hot = None THEN <<>> ELSE <<"data">>) \o (IF hotIdx = None THEN <<>> ELSE <<"index">>)

Encoded(S, level) == [pts |-> S, fmt |-> IF Cardinality(S) >= BigBlock THEN level ELSE "raw"]

\* The full scan (see DayReader): it is sure of the first block only.
InStep(data) ==
    IF data = <<>> THEN {}
    ELSE IF (\A b \in DOMAIN data : data[b].fmt \in {"zstd", "best"}) \/ data[1].fmt = "raw" THEN {1}
    ELSE {}
Scans(data) ==
    {Pts(data, InStep(data) \union S) : S \in SUBSET (DOMAIN data \ InStep(data))}

\* The query by index: an entry whose bytes are not there is skipped for its
\* checksum, or fails the query when it reaches beyond the end.
Found(data, idx) ==
    {j \in DOMAIN idx : \A x \in 1 .. j : x \in DOMAIN data /\ data[x] = idx[x]}
Lookups(data, idx) ==
    IF Found(data, idx) = DOMAIN idx THEN {Pts(idx, DOMAIN idx)}
    ELSE {Pts(idx, Found(data, idx)), {}}

MoreTrouble == Cardinality(killedAt) + Cardinality(failed) < MaxTroubles

-----------------------------------------------------------------------------

Init ==
    /\ age = "hot"
    /\ hot = Day /\ hotIdx = Day /\ cold = None /\ coldIdx = None
    /\ tmp = [f \in {"data", "index"} |-> None]
    /\ wr = "hot" /\ wrData = TRUE /\ wrIdx = TRUE
    /\ mpc = "idle" /\ todo = <<>> /\ mread = <<>>
    /\ cpc = "idle"
    /\ qpc = "idle" /\ qidx = None /\ qhot = {} /\ qcold = {}
    /\ flushed = {} /\ killedAt = {} /\ failed = {} /\ remade = FALSE /\ calm = TRUE

\* Time passes.  moveColdData goes by the calendar (AddDate), getOrCreateWriter
\* by the hours since midnight: when the clocks have changed in between they
\* disagree for an hour, the "edge".  A tier chosen just before the hot period
\* ends and used just after it has the same effect.
Age ==
    /\ \/ age = "hot" /\ age' = "edge"
       \/ age = "edge" /\ age' = "cold"
       \/ age = "cold" /\ age' = "expired"
    /\ UNCHANGED <<files, writer, migrate, cpc, ask, history, calm>>

\* getOrCreateWriter for a late point, when no writer is kept for the day: the
\* directory depends on the age of the day, and NewDayWriter creates the files
\* that are not there.
OpenWriter ==
    /\ wr = "none" /\ flushed # LatePoints
    /\ wrData' = TRUE /\ wrIdx' = TRUE
    /\ \/ /\ age \in {"hot", "edge"} /\ wr' = "hot"
          /\ remade' = (remade \/ hot = None)
          /\ hot' = (IF hot = None THEN <<>> ELSE hot)
          /\ hotIdx' = (IF hotIdx = None THEN <<>> ELSE hotIdx)
          /\ UNCHANGED <<cold, coldIdx>>
       \/ /\ age \in {"edge", "cold", "expired"} /\ wr' = "cold"
          /\ cold' = (IF cold = None THEN <<>> ELSE cold)
          /\ coldIdx' = (IF coldIdx = None THEN <<>> ELSE coldIdx)
          /\ UNCHANGED <<hot, hotIdx, remade>>
    /\ UNCHANGED <<age, migrate, cpc, ask, flushed, killedAt, failed, calm>>

AppendIf(linked, f, b) == IF linked THEN Append(f, b) ELSE f

\* A flush of the open writer; a file that lost its name takes the bytes with it.
FlushLate(p) ==
    /\ wr # "none" /\ p \in LatePoints \ flushed
    /\ flushed' = flushed \union {p}
    /\ LET b == Encoded({p}, "zstd") IN
          \/ /\ wr = "hot"
             /\ hot' = AppendIf(wrData, hot, b) /\ hotIdx' = AppendIf(wrIdx, hotIdx, b)
             /\ UNCHANGED <<cold, coldIdx>>
          \/ /\ wr = "cold"
             /\ cold' = AppendIf(wrData, cold, b) /\ coldIdx' = AppendIf(wrIdx, coldIdx, b)
             /\ UNCHANGED <<hot, hotIdx>>
    /\ UNCHANGED <<age, writer, migrate, cpc, ask, killedAt, failed, remade, calm>>

-----------------------------------------------------------------------------
(* moveColdData *)

Current == todo[1]
Source == IF Current = "data" THEN hot ELSE hotIdx

MigrateStart ==
    /\ mpc = "idle" /\ age # "hot" /\ Listing # <<>>
    /\ todo' = Listing
    /\ mpc' = "read" /\ calm' = FALSE
    /\ UNCHANGED <<age, files, tmp, mread, writer, cpc, ask, history>>

\* Mutant: the loop runs once too often.
NextFileAlways ==
    /\ todo' = Tail(todo)
    /\ mpc' = "read"

\* On to the next file of the listing.
NextFile ==
    /\ todo' = Tail(todo)
    /\ mpc' = IF Len(todo) = 1 THEN "idle" ELSE "read"

\* recompressCold opens the source; one that has gone is an error, after which
\* the temporary file is removed.
MigrateSkip ==
    /\ mpc = "read" /\ Source = None
    /\ tmp' = [tmp EXCEPT ![Current] = None]
    /\ NextFile
    /\ UNCHANGED <<age, files, writer, cpc, ask, mread, history, calm>>

\* recompressCold reads the source with a full scan; an index file is not made
\* of points, and is read as none or as nonsense.
MigrateRead ==
    /\ mpc = "read" /\ Source # None
    /\ \/ /\ Current = "data"
          /\ \E S \in Scans(hot) : mread' = IF S = {} THEN <<>> ELSE <<Encoded(S, "best")>>
       \/ Current = "index" /\ mread' \in {<<>>, <<Junk>>}
    /\ mpc' = "write"
    /\ UNCHANGED <<age, files, writer, cpc, ask, todo, tmp, history, calm>>

\* Mutant: the source is removed once it has been written to the temporary file,
\* before the rename.
MigrateWriteRemoves ==
    /\ mpc = "write"
    /\ tmp' = [tmp EXCEPT ![Current] = IF @ = None THEN mread ELSE @ \o mread]
    /\ hot' = None /\ wrData' = (wrData /\ wr # "hot")
    /\ mpc' = "rename"
    /\ UNCHANGED <<age, hotIdx, cold, coldIdx, wr, wrIdx, cpc, ask, todo, mread, history, calm>>

\* recompressCold writes what it read at the end of the temporary file, which
\* NewDayWriter creates or opens as it is.
MigrateWrite ==
    /\ mpc = "write"
    /\ tmp' = [tmp EXCEPT ![Current] = IF @ = None THEN mread ELSE @ \o mread]
    /\ mpc' = "rename"
    /\ UNCHANGED <<age, files, writer, cpc, ask, todo, mread, history, calm>>

\* The rename takes the place of a cold file that is already there.
MigrateRename ==
    /\ mpc = "rename" /\ tmp[Current] # None
    /\ tmp' = [tmp EXCEPT ![Current] = None]
    /\ \/ /\ Current = "data" /\ cold' = tmp["data"]
          /\ wrData' = (wrData /\ wr # "cold")
          /\ mpc' = "copy"
          /\ UNCHANGED <<coldIdx, wrIdx>>
       \/ /\ Current = "index" /\ coldIdx' = tmp["index"]
          /\ wrIdx' = (wrIdx /\ wr # "cold")
          /\ mpc' = "remove"
          /\ UNCHANGED <<cold, wrData>>
    /\ UNCHANGED <<age, hot, hotIdx, wr, cpc, ask, todo, mread, history, calm>>

\* Cleanup took the temporary file away: the rename fails.
MigrateRenameFail ==
    /\ mpc = "rename" /\ tmp[Current] = None
    /\ NextFile
    /\ UNCHANGED <<age, files, writer, cpc, ask, tmp, mread, history, calm>>

\* The index of the source is read, if there is one, and copied: os.WriteFile
\* first truncates what is there ...
MigrateCopy ==
    /\ mpc = "copy"
    /\ \/ hotIdx = None /\ mpc' = "remove" /\ UNCHANGED <<coldIdx, mread>>
       \/ hotIdx # None /\ mpc' = "fill" /\ coldIdx' = <<>> /\ mread' = hotIdx
    /\ UNCHANGED <<age, hot, hotIdx, cold, writer, cpc, ask, todo, tmp, history, calm>>

\* Mutant: after the copy the loop goes on with the next file, as it does after
\* an error.
MigrateFillOn ==
    /\ mpc = "fill"
    /\ coldIdx' = (IF coldIdx = None THEN None ELSE mread)
    /\ NextFile
    /\ UNCHANGED <<age, hot, hotIdx, cold, writer, cpc, ask, tmp, mread, history, calm>>

\* ... and then writes, unless cleanup has taken the name away.
MigrateFill ==
    /\ mpc = "fill"
    /\ coldIdx' = (IF coldIdx = None THEN None ELSE mread)
    /\ mpc' = "remove"
    /\ UNCHANGED <<age, hot, hotIdx, cold, writer, cpc, ask, todo, tmp, mread, history, calm>>

\* The source goes ...
MigrateRemove ==
    /\ mpc = "remove"
    /\ \/ /\ Current = "data" /\ hot' = None
          /\ wrData' = (wrData /\ wr # "hot")
          /\ UNCHANGED <<hotIdx, wrIdx>>
       \/ /\ Current = "index" /\ hotIdx' = None
          /\ wrIdx' = (wrIdx /\ wr # "hot")
          /\ UNCHANGED <<hot, wrData>>
    /\ mpc' = "removeIdx"
    /\ UNCHANGED <<age, cold, coldIdx, wr, cpc, ask, todo, tmp, mread, history, calm>>

\* ... and then its index (an index file has none).
MigrateRemoveIdx ==
    /\ mpc = "removeIdx"
    /\ \/ /\ Current = "data" /\ hotIdx' = None
          /\ wrIdx' = (wrIdx /\ wr # "hot")
       \/ Current = "index" /\ UNCHANGED <<hotIdx, wrIdx>>
    /\ NextFile
    /\ UNCHANGED <<age, hot, cold, coldIdx, wr, wrData, cpc, ask, tmp, mread, history, calm>>

\* A call to the file system returns an error here.
Fails ==
    /\ mpc \in Failing /\ MoreTrouble
    /\ failed' = failed \union {mpc}
    /\ UNCHANGED <<flushed, killedAt, remade, calm>>

\* MkdirAll, recompressCold or Rename returns it: the temporary file is removed,
\* if it can be, and the loop goes on with the next file.
MigrateFail ==
    /\ mpc \in {"read", "write", "rename"} /\ Fails
    /\ tmp' \in {tmp, [tmp EXCEPT ![Current] = None]}
    /\ NextFile
    /\ UNCHANGED <<age, files, writer, cpc, ask, mread>>

\* WriteBatch only buffers: the flush of the deferred Close logs its error, and
\* recompressCold returns none.  Of the block nothing may be written, or a part.
MigrateWriteFail ==
    /\ mpc = "write" /\ mread # <<>> /\ Fails
    /\ \E torn \in {<<>>} \union {<<[pts |-> S, fmt |-> "junk"]>> : S \in SUBSET Pts(mread, DOMAIN mread)} :
          tmp' = [tmp EXCEPT ![Current] = IF @ = None THEN torn ELSE @ \o torn]
    /\ mpc' = "rename"
    /\ UNCHANGED <<age, files, writer, cpc, ask, todo, mread>>

\* The index is not read, or the copy not opened, or it is cut short, between
\* two entries or within one: the source is removed all the same.
MigrateCopyFail ==
    /\ Fails
    /\ \/ mpc = "copy" /\ hotIdx # None /\ UNCHANGED coldIdx
       \/ /\ mpc = "fill" /\ coldIdx # None /\ mread # <<>>
          /\ coldIdx' \in {SubSeq(mread, 1, k) : k \in 0 .. Len(mread) - 1} \union {<<Junk>>}
    /\ mpc' = "remove"
    /\ UNCHANGED <<age, hot, hotIdx, cold, writer, cpc, ask, todo, tmp, mread>>

\* The source, or its index, cannot be removed: it stays.
MigrateRemoveFail ==
    /\ Fails
    /\ \/ mpc = "remove" /\ mpc' = "removeIdx" /\ UNCHANGED todo
       \/ mpc = "removeIdx" /\ NextFile
    /\ UNCHANGED <<age, files, writer, cpc, ask, tmp, mread>>

Migration ==
    \/ MigrateStart \/ MigrateSkip \/ MigrateRead \/ MigrateWrite \/ MigrateRename
    \/ MigrateRenameFail \/ MigrateCopy \/ MigrateFill \/ MigrateRemove \/ MigrateRemoveIdx
    \/ MigrateFail \/ MigrateWriteFail \/ MigrateCopyFail \/ MigrateRemoveFail

-----------------------------------------------------------------------------
(* cleanupExpiredData: the hot directory, then the cold one.  Every file of  *)
(* the day goes, the temporary ones too.                                     *)

CleanupStart ==
    /\ cpc = "idle" /\ age = "expired"
    /\ cpc' = "hot"
    /\ UNCHANGED <<age, files, writer, migrate, ask, history, calm>>

CleanupHot ==
    /\ cpc = "hot"
    /\ hot' = None /\ hotIdx' = None
    /\ wrData' = (wrData /\ wr # "hot") /\ wrIdx' = (wrIdx /\ wr # "hot")
    /\ cpc' = "cold"
    /\ UNCHANGED <<age, cold, coldIdx, wr, migrate, ask, history, calm>>

\* Mutant: the index is not removed with its data file.
CleanupColdData ==
    /\ cpc = "cold"
    /\ cold' = None
    /\ tmp' = [f \in DOMAIN tmp |-> None]
    /\ wrData' = (wrData /\ wr # "cold")
    /\ cpc' = "idle"
    /\ UNCHANGED <<age, hot, hotIdx, coldIdx, wr, wrIdx, mpc, todo, mread, ask, history, calm>>

CleanupCold ==
    /\ cpc = "cold"
    /\ cold' = None /\ coldIdx' = None
    /\ tmp' = [f \in DOMAIN tmp |-> None]
    /\ wrData' = (wrData /\ wr # "cold") /\ wrIdx' = (wrIdx /\ wr # "cold")
    /\ cpc' = "idle"
    /\ UNCHANGED <<age, hot, hotIdx, wr, mpc, todo, mread, ask, history, calm>>

Cleanup == CleanupStart \/ CleanupHot \/ CleanupCold

-----------------------------------------------------------------------------
(* Storage.Query for this day: queryFile on the hot file, then on the cold.  *)

QueryStart ==
    /\ qpc = "idle"
    /\ qpc' = "hotStat" /\ qhot' = {} /\ qcold' = {} /\ qidx' = None
    /\ calm' = (mpc = "idle")
    /\ UNCHANGED <<age, files, writer, migrate, cpc, history>>

\* os.Stat: nothing to read if the file is not there.
QueryStat ==
    /\ \/ qpc = "hotStat" /\ qpc' = IF hot = None THEN "coldStat" ELSE "hotIndex"
       \/ qpc = "coldStat" /\ qpc' = IF cold = None THEN "done" ELSE "coldIndex"
    /\ UNCHANGED <<age, files, writer, migrate, cpc, qidx, qhot, qcold, history, calm>>

\* readIndex: the index as it is now, or none.
QueryIndex ==
    /\ \/ qpc = "hotIndex" /\ qidx' = hotIdx /\ qpc' = "hotRead"
       \/ qpc = "coldIndex" /\ qidx' = coldIdx /\ qpc' = "coldRead"
    /\ UNCHANGED <<age, files, writer, migrate, cpc, qhot, qcold, history, calm>>

\* What reading the file may yield; an error of NewDayReader yields nothing.
Answers(data) ==
    IF data = None THEN {{}}
    ELSE IF qidx = None THEN Scans(data)
    ELSE Lookups(data, qidx)

QueryRead ==
    /\ \/ qpc = "hotRead" /\ qhot' \in Answers(hot) /\ qpc' = "coldStat" /\ UNCHANGED qcold
       \/ qpc = "coldRead" /\ qcold' \in Answers(cold) /\ qpc' = "done" /\ UNCHANGED qhot
    /\ UNCHANGED <<age, files, writer, migrate, cpc, qidx, history, calm>>

QueryReturn ==
    /\ qpc = "done"
    /\ qpc' = "idle"
    /\ UNCHANGED <<age, files, writer, migrate, cpc, qidx, qhot, qcold, history, calm>>

Query == QueryStart \/ QueryStat \/ QueryIndex \/ QueryRead \/ QueryReturn

-----------------------------------------------------------------------------

\* The process is killed and started again: no writer, no goroutine survives.
Kill ==
    /\ MoreTrouble
    /\ killedAt' = killedAt \union {mpc}
    /\ wr' = "none" /\ wrData' = FALSE /\ wrIdx' = FALSE
    /\ mpc' = "idle" /\ todo' = <<>> /\ mread' = <<>>
    /\ cpc' = "idle"
    /\ qpc' = "idle" /\ qidx' = None /\ qhot' = {} /\ qcold' = {}
    /\ UNCHANGED <<age, files, tmp, flushed, failed, remade, calm>>

Next ==
    \/ Age \/ OpenWriter \/ \E p \in LatePoints : FlushLate(p)
    \/ Migration \/ Cleanup \/ Query \/ Kill

Spec == Init /\ [][Next]_vars

\* The tickers of both loops keep firing; a query is one call.
FairSpec == Spec /\ WF_vars(Migration) /\ WF_vars(Cleanup)

-----------------------------------------------------------------------------
(* Properties. *)

File(f) == f = None \/ f \in Seq(Block)

\* Types; the migration works on a file of its list, and a late flush never
\* meets a file that is not there.
TypeOK ==
    /\ age \in {"hot", "edge", "cold", "expired"}
    /\ File(hot) /\ File(hotIdx) /\ File(cold) /\ File(coldIdx)
    /\ DOMAIN tmp = {"data", "index"} /\ \A f \in DOMAIN tmp : File(tmp[f])
    /\ wr \in {"none", "hot", "cold"} /\ wrData \in BOOLEAN /\ wrIdx \in BOOLEAN
    /\ mpc \in {"idle", "read", "write", "rename", "copy", "fill", "remove", "removeIdx"}
    /\ todo \in Seq({"data", "index"}) /\ (mpc = "idle" <=> todo = <<>>)
    /\ mread \in Seq(Block)
    /\ cpc \in {"idle", "hot", "cold"}
    /\ qpc \in {"idle", "hotStat", "hotIndex", "hotRead", "coldStat", "coldIndex", "coldRead", "done"}
    /\ File(qidx)
    /\ (wrData => (wr = "hot" /\ hot # None) \/ (wr = "cold" /\ cold # None))
    /\ (wrIdx => (wr = "hot" /\ hotIdx # None) \/ (wr = "cold" /\ coldIdx # None))
    /\ flushed \subseteq LatePoints /\ remade \in BOOLEAN /\ calm \in BOOLEAN

\* A quiet device: the points of the day fit one block, too small for the writer
\* to compress, so that the migration writes the block it has read.
QuietDay ==
    /\ Len(Day) = 1 /\ Day[1].fmt = "raw"
    /\ Day[1].pts # {} /\ IsFiniteSet(Day[1].pts) /\ Cardinality(Day[1].pts) < BigBlock

\* A query running beside the migration finds every point of the day while the
\* hot file is there.  Of a quiet day it also finds them when the file goes under
\* it: it reads hot first, and the hot file goes only when the cold one is
\* complete.  The exceptions: a step of the migration that failed, a kill between
\* the removal of the hot file and of its index, late points that give the day a
\* second block, and a late point that makes a moved day again in hot.
NeverMissing ==
    /\ qpc = "done" /\ age # "expired" /\ (QuietDay \/ hot # None)
    /\ failed = {} /\ "removeIdx" \notin killedAt /\ flushed = {} /\ ~remade
    => DayPoints \subseteq qhot \union qcold

\* A query that no migration runs beside, in a process that was never killed,
\* returns each point from one directory only, whatever failed but the removal
\* of a hot file: the loop passes over an error only after the cold file is in
\* its place, and then removes the hot one.
CalmOnce ==
    qpc = "done" /\ calm /\ killedAt = {} /\ "remove" \notin failed => qhot \intersect qcold = {}

\* The files of an expired day go for good, also when the migration or a late
\* writer, which take no notice of cleanup, put some of them back while it runs.
ExpiredGoes ==
    (age = "expired") ~> [](hot = None /\ hotIdx = None /\ cold = None /\ coldIdx = None)

\* What a query of the whole day is sure to return when nothing else runs.
Sure(data, idx) ==
    IF data = None THEN {}
    ELSE IF idx = None THEN Pts(data, InStep(data))
    ELSE IF Found(data, idx) = DOMAIN idx THEN Pts(idx, DOMAIN idx)
    ELSE {}
OnDisk == Sure(hot, hotIdx) \union Sure(cold, coldIdx)

\* README: the migration writes a temporary file and renames it, so that a power
\* failure or a crash leaves no incomplete data: whenever the process is killed
\* the day can still be read.
CrashSafe == age # "expired" /\ flushed = {} /\ ~remade => DayPoints \subseteq OnDisk

\* README: data older than HotDays is moved to the cold directory: between two
\* migrations the points of the day are on disk, in one directory or the other.
MigrationKeeps == mpc = "idle" /\ age # "expired" => DayPoints \subseteq OnDisk

\* README: file.Sync after every flush makes sure that the data is on disk: what
\* a flush has written while no migration runs can be read after it.
FlushPersists ==
    [][\A p \in LatePoints :
          mpc = "idle" /\ age # "expired" /\ p \in flushed' \ flushed => p \in OnDisk']_vars

=============================================================================
