------------------------------ MODULE QueryDays ------------------------------
(***************************************************************************)
(* A query over several days (tffiles/storage.go, Query): the loop that    *)
(* steps from the start time by 24 hours and starts a goroutine for the    *)
(* date each step falls on, and the goroutines, which read the hot and the *)
(* cold file of their date and append to the answer under the lock.  The   *)
(* files do not move during the query (Tiering has that), but writers add  *)
(* points to them.                                                         *)
(*                                                                         *)
(* A point is its time.  A calendar gives the first time of each date: in  *)
(* local time a date has 24 hours, or 23 or 25 when the clock changes.     *)
(***************************************************************************)
EXTENDS Integers, Sequences, Bags

CONSTANTS
    Calendars,      \* the midnights, in turn
    DayLength,      \* 24 hours
    Horizon,        \* times are 0 .. Horizon
    HotPoints, ColdPoints,      \* the points stored before the query
    LatePoints      \* the points that may be flushed during it

ASSUME QueryDaysAssumption ==
    /\ DayLength \in Nat \ {0} /\ Horizon \in Nat
    /\ \A c \in Calendars :
        /\ c \in Seq(Nat) /\ Len(c) > 0 /\ c[1] = 0 /\ c[Len(c)] > Horizon
        /\ \A m, n \in DOMAIN c : m < n => c[m] < c[n]
    /\ HotPoints \union ColdPoints \union LatePoints \subseteq 0 .. Horizon
    /\ LatePoints \intersect (HotPoints \union ColdPoints) = {}

VARIABLES
    calendar, startTime, endTime,       \* chosen by the call
    hotFiles, coldFiles,                \* the points in the files of a tier
    queryPc,                            \* "idle", "loop", "returned"
    day,                                \* d
    reading,                            \* the step of the goroutine of each d
    found,                              \* its points
    allPoints

daysVars == <<calendar, startTime, endTime, hotFiles, coldFiles, queryPc, day,
              reading, found, allPoints>>
rangeVars == <<calendar, startTime, endTime>>

\* The date that a time falls on; the last one of a calendar has no end.
FallsOn(t, n) == calendar[n] <= t /\ (n < Len(calendar) => t < calendar[n + 1])
SameDate(t, u) == \E n \in DOMAIN calendar : FallsOn(t, n) /\ FallsOn(u, n)

DaysInit ==
    /\ calendar = <<>> /\ startTime = 0 /\ endTime = 0
    /\ hotFiles = HotPoints /\ coldFiles = ColdPoints
    /\ queryPc = "idle" /\ day = 0
    /\ reading = <<>> /\ found = <<>> /\ allPoints = EmptyBag

QueryCall ==
    /\ queryPc = "idle" /\ queryPc' = "loop"
    /\ \E c \in Calendars, s, e \in 0 .. Horizon :
        calendar' = c /\ startTime' = s /\ endTime' = e /\ day' = s
    /\ UNCHANGED <<hotFiles, coldFiles, reading, found, allPoints>>

\* Mutant: the loop ends at the end time, not at the end of a day after it.
InRangeOfDates == day <= endTime

\* d.Before(endDate.Add(24 * time.Hour))
MoreDates == day < endTime + DayLength

\* One round of the loop: a goroutine of its own for the date d falls on.
StartDate ==
    /\ queryPc = "loop" /\ MoreDates
    /\ reading' = Append(reading, "hot") /\ found' = Append(found, EmptyBag)
    /\ day' = day + DayLength
    /\ UNCHANGED <<rangeVars, hotFiles, coldFiles, queryPc, allPoints>>

\* The points of the files of a tier that are of the date of goroutine w and in
\* the range.
PointsOf(files, w) ==
    SetToBag({t \in files : /\ SameDate(t, startTime + (w - 1) * DayLength)
                            /\ startTime <= t /\ t <= endTime})

ReadTier(w, from, files, to) ==
    /\ reading[w] = from
    /\ found' = [found EXCEPT ![w] = @ (+) PointsOf(files, w)]
    /\ reading' = [reading EXCEPT ![w] = to]
    /\ UNCHANGED <<rangeVars, hotFiles, coldFiles, queryPc, day, allPoints>>

ReadHot(w) == ReadTier(w, "hot", hotFiles, "cold")
ReadCold(w) == ReadTier(w, "cold", coldFiles, "append")

\* Under the lock.
AppendPoints(w) ==
    /\ reading[w] = "append"
    /\ allPoints' = allPoints (+) found[w]
    /\ reading' = [reading EXCEPT ![w] = "done"]
    /\ UNCHANGED <<rangeVars, hotFiles, coldFiles, queryPc, day, found>>

\* wg.Wait() and the return.
QueryReturn ==
    /\ queryPc = "loop" /\ ~ MoreDates
    /\ \A w \in DOMAIN reading : reading[w] = "done"
    /\ queryPc' = "returned"
    /\ UNCHANGED <<rangeVars, hotFiles, coldFiles, day, reading, found, allPoints>>

\* The writer of a device flushes a point of the last days.
FlushPoint(t) ==
    /\ t \in LatePoints \ hotFiles
    /\ hotFiles' = hotFiles \union {t}
    /\ UNCHANGED <<rangeVars, coldFiles, queryPc, day, reading, found, allPoints>>

DaysNext ==
    \/ QueryCall \/ StartDate \/ QueryReturn
    \/ \E w \in DOMAIN reading : ReadHot(w) \/ ReadCold(w) \/ AppendPoints(w)
    \/ \E t \in LatePoints : FlushPoint(t)

DaysSpec == DaysInit /\ [][DaysNext]_daysVars

-----------------------------------------------------------------------------

Copies(t, bag) == IF BagIn(t, bag) THEN bag[t] ELSE 0
Indicator(condition) == IF condition THEN 1 ELSE 0
Stored(t) == Indicator(t \in HotPoints) + Indicator(t \in ColdPoints)

\* The answer has every point of the range that was stored when the query began
\* exactly as often as it is stored, whatever the goroutines' order and whatever
\* the times of day the range starts and ends at, and a point flushed meanwhile
\* at most once.  The loop adds 24 hours to a time and not one to a date: a date
\* that is shorter may be missed, and one that is longer read twice.
EachDateOnce ==
    queryPc = "returned" =>
        \A t \in 0 .. Horizon, n \in 1 .. Len(calendar) - 1 :
            LET length == calendar[n + 1] - calendar[n]
                stored == IF startTime <= t /\ t <= endTime THEN Stored(t) ELSE 0
                late == Indicator(startTime <= t /\ t <= endTime /\ t \in LatePoints)
                copies == Copies(t, allPoints)
            IN  FallsOn(t, n) => /\ length >= DayLength => copies >= stored
                                 /\ length <= DayLength => copies <= stored + late

=============================================================================
