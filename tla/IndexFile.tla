------------------------------ MODULE IndexFile ------------------------------
(***************************************************************************)
(* The index file of a day as bytes (tffiles/writer.go, flush, and         *)
(* storage.go, readIndex).  Entries have 36 bytes, in the files of an      *)
(* earlier version 32, and nothing in a file says which: readIndex decides *)
(* by the length.  A write that fails leaves the first bytes of an entry   *)
(* behind, and later entries are appended to them.                         *)
(*                                                                         *)
(* The unit is 4 bytes; a length that is no multiple of 4 is never taken   *)
(* for one of old entries.                                                 *)
(***************************************************************************)
EXTENDS Integers, Sequences

CONSTANTS MaxOld, MaxNew, MaxTears

ASSUME IndexFileAssumption == MaxOld \in Nat /\ MaxNew \in Nat /\ MaxTears \in Nat

OldSize == 8
NewSize == 9

VARIABLES
    idxData,        \* the units: <<entry, number of the unit in it>>
    oldEntries, newEntries,     \* how many whole entries were written
    tears,          \* how many torn ones
    tornUnits,      \* the units they left
    wholeBefore     \* the whole entries before the first torn one

idxVars == <<idxData, oldEntries, newEntries, tears, tornUnits, wholeBefore>>

Entries == oldEntries + newEntries + tears
Units(n, size) == [j \in 1 .. size |-> <<n, j>>]

IndexInit ==
    /\ idxData = <<>> /\ oldEntries = 0 /\ newEntries = 0
    /\ tears = 0 /\ tornUnits = 0 /\ wholeBefore = 0

BeforeTears == wholeBefore' = IF tears = 0 THEN wholeBefore + 1 ELSE wholeBefore

\* The earlier version wrote the file.
AppendOld ==
    /\ oldEntries < MaxOld /\ newEntries + tears = 0
    /\ idxData' = idxData \o Units(Entries + 1, OldSize)
    /\ oldEntries' = oldEntries + 1
    /\ BeforeTears
    /\ UNCHANGED <<newEntries, tears, tornUnits>>

\* flush appends the entry of a block.
AppendNew ==
    /\ newEntries < MaxNew
    /\ idxData' = idxData \o Units(Entries + 1, NewSize)
    /\ newEntries' = newEntries + 1
    /\ BeforeTears
    /\ UNCHANGED <<oldEntries, tears, tornUnits>>

\* The disk is full, or the power fails.
AppendTorn ==
    /\ tears < MaxTears
    /\ \E k \in 1 .. NewSize - 1 :
        /\ idxData' = idxData \o Units(Entries + 1, k)
        /\ tornUnits' = tornUnits + k
    /\ tears' = tears + 1
    /\ UNCHANGED <<oldEntries, newEntries, wholeBefore>>

IndexNext == AppendOld \/ AppendNew \/ AppendTorn

IndexSpec == IndexInit /\ [][IndexNext]_idxVars

\* Mutant: a length that both sizes divide is taken for the old one.
entrySizeOld == IF Len(idxData) % OldSize = 0 THEN OldSize ELSE NewSize

entrySize ==
    IF Len(idxData) % OldSize = 0 /\ Len(idxData) % NewSize # 0 THEN OldSize ELSE NewSize

\* The entries, each as the units it is decoded from; a rest is left out.
readIndex ==
    [i \in 1 .. Len(idxData) \div entrySize |->
        SubSeq(idxData, (i - 1) * entrySize + 1, i * entrySize)]

-----------------------------------------------------------------------------

ReadsRight ==
    \A n \in 1 .. wholeBefore :
        n \in DOMAIN readIndex
        /\ readIndex[n] = Units(n, IF n <= oldEntries THEN OldSize ELSE NewSize)

\* An index without old entries gives back every entry up to the first torn one,
\* and whole ones always, unless the units that were torn off make up for the
\* difference of the sizes; one of old entries gives back all of them unless
\* their number is a multiple of nine.  (Files of both kinds, as an upgrade
\* leaves them in the middle of a day, are not covered: they are misread.)
IndexReadable ==
    /\ oldEntries = 0 /\ (tears = 0 \/ (newEntries + tornUnits) % 8 # 0) => ReadsRight
    /\ newEntries + tears = 0 /\ oldEntries % 9 # 0 => ReadsRight

=============================================================================
