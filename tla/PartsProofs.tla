------------------------------ MODULE PartsProofs ------------------------------
(* Theorems of four small components, for every value of their constants:    *)
(* the tables that a workbook asks for, the index file, the query over       *)
(* several days, and the clearing of the table cache.                        *)
EXTENDS IndexFile, QueryDays, SheetDDL, TableCache, SiftingProofs, FunctionTheorems

-----------------------------------------------------------------------------
(* The sheets.                                                               *)

\* Reading a workbook gives tables of the sheets it has.
FromSheets(ts) ==
    /\ Len(ts) \in Nat
    /\ \A i \in 1 .. Len(ts) :
        \E s \in Sheets : s.name = ts[i].name /\ s.table = ts[i].table

\* What is kept of a sequence has its type.
LEMMA SiftIn ==
    ASSUME NEW T, NEW s \in Seq(T), NEW S
    PROVE  Sift(s, S) \in Seq(T)
<1> DEFINE r == Sift(s, S)
<1>1. r \in Seq(T \intersect S)
  BY SiftType
<1> HIDE DEF r
<1>2. r \in [1 .. Len(r) -> T] /\ Len(r) \in Nat
  BY <1>1, LenProperties, ElementOfSeq
<1>3. r \in Seq(T)
  BY <1>2, IsASeq
<1> QED
  BY <1>3 DEF r

\* The rows that are columns.
Used == {c \in Column : ~ CutShort(c) /\ c.name # "" /\ Lower(c.name) \notin reserved}

LEMMA ReadSheets ==
    ASSUME NEW p \in Invocations, NEW wb \in Workbooks[p]
    PROVE  /\ FromSheets(Read(wb))
           /\ Read(wb) \in [1 .. Len(Read(wb)) -> Range(Read(wb))]
           /\ \A i \in 1 .. Len(Read(wb)) : \E s \in Sheet :
                Read(wb)[i].rows = defaultAuditColumns \o Sift(s.rows, Used)
<1> DEFINE used == Used
           isTable == {s \in Sheet : s.rows # <<>> /\ s.name \notin MetaSheets}
           WithAudit(s) == [s EXCEPT !.rows = defaultAuditColumns \o Sift(@, used)]
           kept == Sift(wb, isTable)
           R == Read(wb)
<1>1. wb \in Seq(Sheet) /\ Range(wb) \subseteq Sheets
  BY SheetAssumption DEF Sheets
<1>2. Range(kept) = Range(wb) \intersect isTable
  BY <1>1, SiftRange
<1>3. kept \in Seq(Sheet)
  BY <1>1, SiftIn
<1>4. ASSUME NEW s \in Sheet
      PROVE  WithAudit(s).name = s.name /\ WithAudit(s).table = s.table
  BY DEF Sheet
<1>11. ASSUME NEW s \in Sheet
       PROVE  WithAudit(s).rows = defaultAuditColumns \o Sift(s.rows, used)
  BY DEF Sheet
<1>5. R = [i \in DOMAIN kept |-> WithAudit(kept[i])]
  BY DEF Read, Used
<1> HIDE DEF kept, WithAudit, R, isTable
<1>6. DOMAIN kept = 1 .. Len(kept) /\ Len(kept) \in Nat /\ \A i \in 1 .. Len(kept) : kept[i] \in Sheet
  BY <1>3, LenProperties, ElementOfSeq
<1> DEFINE U == {WithAudit(s) : s \in Sheet}
<1>7. R \in [1 .. Len(kept) -> U]
  BY <1>5, <1>6
<1>8. Len(R) = Len(kept)
  <2>1. R \in Seq(U)
    BY <1>6, <1>7, IsASeq
  <2> QED
    BY <2>1, <1>6, <1>7, SameEnd, LenProperties
<1>9. ASSUME NEW i \in 1 .. Len(R)
      PROVE  \E s \in Sheets : s.name = R[i].name /\ s.table = R[i].table
  <2>1. kept[i] \in Range(kept) /\ kept[i] \in Sheet /\ R[i] = WithAudit(kept[i])
    BY <1>5, <1>6, <1>8 DEF Range
  <2>2. kept[i] \in Sheets
    BY <2>1, <1>1, <1>2
  <2> QED
    BY <2>1, <2>2, <1>4
<1>10. R \in [1 .. Len(R) -> Range(R)]
  BY <1>7, <1>8 DEF Range
<1>12. ASSUME NEW i \in 1 .. Len(R)
       PROVE  \E s \in Sheet : R[i].rows = defaultAuditColumns \o Sift(s.rows, used)
  <2>1. kept[i] \in Sheet /\ R[i] = WithAudit(kept[i])
    BY <1>5, <1>6, <1>8
  <2> QED
    BY <1>11, <2>1
<1> QED
  BY <1>6, <1>8, <1>9, <1>10, <1>12 DEF FromSheets, R

\* An invocation has its tables from a workbook, counts them up to the end, and
\* has left every table before the one at hand in the database.
InvocationInv(p) ==
    /\ FromSheets(tables[p])
    /\ at[p] <= Len(tables[p]) + 1
    /\ ipc[p] = "idle" => at[p] = 1
    /\ ipc[p] \in {"build", "check", "exec"} => at[p] <= Len(tables[p])
    /\ ipc[p] = "ok" => at[p] = Len(tables[p]) + 1
    /\ ~ dryRun[p] => \A i \in 1 .. at[p] - 1 : tables[p][i].table \in catalogue

\* A name in the catalogue is one that a sheet's name is folded to: a sheet whose
\* own name is in it has its table.
SheetInv ==
    /\ ipc \in [Invocations -> {"idle", "build", "check", "exec", "ok", "fatal"}]
    /\ dryRun \in [Invocations -> BOOLEAN]
    /\ at \in [Invocations -> Nat \ {0}]
    /\ DOMAIN tables = Invocations
    /\ \A x \in catalogue : \E t \in Sheets : t.table = x
    /\ \A p \in Invocations : InvocationInv(p)

LEMMA NoTables == FromSheets(<<>>) /\ Len(<<>>) = 0
  BY DEF FromSheets

LEMMA SheetInitInv == SheetInit => SheetInv
<1> SUFFICES ASSUME SheetInit PROVE SheetInv
  OBVIOUS
<1> USE DEF SheetInit
<1>1. ASSUME NEW p \in Invocations PROVE InvocationInv(p)
  <2>1. tables[p] = <<>> /\ at[p] = 1 /\ ipc[p] = "idle"
    OBVIOUS
  <2> QED
    BY <2>1, NoTables DEF InvocationInv
<1>2. DOMAIN tables = Invocations /\ catalogue = {}
  OBVIOUS
<1> QED
  BY <1>1, <1>2, SMT DEF SheetInv

\* A step of another invocation leaves the invariant of an invocation alone, for
\* no table is ever dropped.
LEMMA OthersCreate ==
    ASSUME NEW p, InvocationInv(p), tables'[p] = tables[p], at'[p] = at[p], ipc'[p] = ipc[p],
           dryRun'[p] = dryRun[p], catalogue \subseteq catalogue'
    PROVE  InvocationInv(p)'
  BY DEF InvocationInv, FromSheets

\* Going on to the next table, with the table at hand in the database.
LEMMA AdvanceKeeps ==
    ASSUME NEW p \in Invocations, InvocationInv(p), Advance(p),
           ipc \in [Invocations -> {"idle", "build", "check", "exec", "ok", "fatal"}],
           at \in [Invocations -> Nat \ {0}],
           ipc[p] \in {"build", "check", "exec"},
           tables'[p] = tables[p], dryRun'[p] = dryRun[p], catalogue \subseteq catalogue',
           ~ dryRun[p] => tables[p][at[p]].table \in catalogue'
    PROVE  /\ InvocationInv(p)'
           /\ at' \in [Invocations -> Nat \ {0}]
           /\ ipc' \in [Invocations -> {"idle", "build", "check", "exec", "ok", "fatal"}]
           /\ \A q \in Invocations : q # p => at'[q] = at[q] /\ ipc'[q] = ipc[q]
<1>1. /\ at'[p] = at[p] + 1 /\ at' \in [Invocations -> Nat \ {0}]
      /\ ipc'[p] = (IF at[p] < Len(tables[p]) THEN "build" ELSE "ok")
      /\ ipc' \in [Invocations -> {"idle", "build", "check", "exec", "ok", "fatal"}]
      /\ \A q \in Invocations : q # p => at'[q] = at[q] /\ ipc'[q] = ipc[q]
  BY DEF Advance, Become
<1>2. at[p] <= Len(tables[p]) /\ Len(tables[p]) \in Nat /\ at[p] \in Nat \ {0} /\ FromSheets(tables'[p])
  BY DEF InvocationInv, FromSheets
<1>3. ~ dryRun'[p] => \A i \in 1 .. at'[p] - 1 : tables'[p][i].table \in catalogue'
  BY <1>1, <1>2 DEF InvocationInv
<1> QED
  BY <1>1, <1>2, <1>3 DEF InvocationInv

LEMMA SheetStepInv == SheetInv /\ [SheetNext]_sheetVars => SheetInv'
<1> SUFFICES ASSUME SheetInv, [SheetNext]_sheetVars PROVE SheetInv'
  OBVIOUS
<1> DEFINE Labels == {"idle", "build", "check", "exec", "ok", "fatal"}
           Typed == /\ ipc \in [Invocations -> Labels] /\ dryRun \in [Invocations -> BOOLEAN]
                    /\ at \in [Invocations -> Nat \ {0}] /\ DOMAIN tables = Invocations
           Named == \A x \in catalogue : \E t \in Sheets : t.table = x
<1>0. Typed /\ Named /\ \A q \in Invocations : InvocationInv(q)
  BY DEF SheetInv
<1>1. CASE UNCHANGED sheetVars
  BY <1>0, <1>1 DEF sheetVars, SheetInv, InvocationInv
<1> SUFFICES ASSUME NEW p \in Invocations,
                    Run(p) \/ Build(p) \/ BuildFail(p) \/ Check(p) \/ Exec(p) \/ ExecFail(p)
                        \/ Again(p)
             PROVE  SheetInv'
  BY <1>1, Zenon DEF SheetNext
<1>2. ASSUME Typed', Named', InvocationInv(p)', catalogue \subseteq catalogue',
             \A q \in Invocations : q # p =>
                /\ tables'[q] = tables[q] /\ at'[q] = at[q]
                /\ ipc'[q] = ipc[q] /\ dryRun'[q] = dryRun[q]
      PROVE  SheetInv'
  <2>1. ASSUME NEW q \in Invocations PROVE InvocationInv(q)'
    <3>1. CASE q = p
      BY <1>2, <3>1
    <3>2. CASE q # p
      <4>1. /\ tables'[q] = tables[q] /\ at'[q] = at[q]
            /\ ipc'[q] = ipc[q] /\ dryRun'[q] = dryRun[q]
        BY <1>2, <3>2
      <4>2. InvocationInv(q)
        BY <1>0
      <4> QED
        BY <1>2, <4>1, <4>2, OthersCreate
    <3> QED
      BY <3>1, <3>2
  <2> QED
    BY <1>2, <2>1 DEF SheetInv
<1>3. InvocationInv(p) /\ ipc[p] \in Labels /\ at[p] \in Nat \ {0} /\ FromSheets(tables[p])
  BY <1>0 DEF InvocationInv
\* The end with log.Fatal at a table.
<1>4. ASSUME Become(p, "fatal"), UNCHANGED <<dryRun, tables, at, catalogue>> PROVE SheetInv'
  <2>1. Typed' /\ Named'
    BY <1>0, <1>4 DEF Become
  <2>2. InvocationInv(p)'
    BY <1>0, <1>3, <1>4 DEF Become, InvocationInv
  <2>3. \A q \in Invocations : q # p =>
            /\ tables'[q] = tables[q] /\ at'[q] = at[q]
            /\ ipc'[q] = ipc[q] /\ dryRun'[q] = dryRun[q]
    BY <1>0, <1>4 DEF Become
  <2> QED
    BY <1>2, <1>4, <2>1, <2>2, <2>3
\* On to the next table.
<1>5. ASSUME Advance(p), ipc[p] \in {"build", "check", "exec"}, UNCHANGED <<dryRun, tables>>,
             catalogue \subseteq catalogue', Named',
             ~ dryRun[p] => tables[p][at[p]].table \in catalogue'
      PROVE  SheetInv'
  <2>1. /\ InvocationInv(p)'
        /\ at' \in [Invocations -> Nat \ {0}] /\ ipc' \in [Invocations -> Labels]
        /\ \A q \in Invocations : q # p => at'[q] = at[q] /\ ipc'[q] = ipc[q]
    BY <1>0, <1>3, <1>5, AdvanceKeeps
  <2>2. Typed'
    BY <1>0, <1>5, <2>1
  <2> QED
    BY <1>2, <1>5, <2>1, <2>2
\* On to the next statement about the table at hand.
<1>6. ASSUME NEW l \in {"check", "exec"}, Become(p, l), UNCHANGED <<dryRun, tables, at, catalogue>>,
             ipc[p] \in {"build", "check"}
      PROVE  SheetInv'
  <2>1. Typed' /\ Named'
    BY <1>0, <1>6 DEF Become
  <2>2. InvocationInv(p)'
    BY <1>0, <1>3, <1>6 DEF Become, InvocationInv
  <2>3. \A q \in Invocations : q # p =>
            /\ tables'[q] = tables[q] /\ at'[q] = at[q]
            /\ ipc'[q] = ipc[q] /\ dryRun'[q] = dryRun[q]
    BY <1>0, <1>6 DEF Become
  <2> QED
    BY <1>2, <1>6, <2>1, <2>2, <2>3
<1>7. CASE Run(p)
  <2>1. PICK wb \in Workbooks[p], dry \in BOOLEAN :
            /\ dryRun' = [dryRun EXCEPT ![p] = dry]
            /\ tables' = [tables EXCEPT ![p] = IF ReadFails(wb) THEN <<>> ELSE Read(wb)]
            /\ IF ReadFails(wb) THEN Become(p, "fatal")
               ELSE Become(p, "build") \/ Become(p, "fatal")
    BY <1>7 DEF Run
  <2>2. at' = at /\ catalogue' = catalogue /\ at[p] = 1
    BY <1>3, <1>7 DEF Run, InvocationInv
  <2> DEFINE ts == IF ReadFails(wb) THEN <<>> ELSE Read(wb)
  <2>3. FromSheets(ts) /\ Len(ts) \in Nat
    <3>1. FromSheets(<<>>) /\ FromSheets(Read(wb))
      BY NoTables, ReadSheets
    <3>2. FromSheets(ts)
      BY <3>1
    <3> QED
      BY <3>2 DEF FromSheets
  <2>4. ~ ReadFails(wb) => Len(ts) >= 1
    <3>1. SUFFICES ASSUME ~ ReadFails(wb) PROVE Len(ts) # 0
      BY <2>3
    <3>2. Read(wb) # <<>> /\ ts = Read(wb)
      BY <3>1 DEF ReadFails
    <3>3. Read(wb) \in [1 .. Len(Read(wb)) -> Range(Read(wb))]
      BY ReadSheets
    <3>4. Len(Read(wb)) = 0 => Read(wb) = <<>>
      BY <3>3
    <3> QED
      BY <3>2, <3>4
  <2> HIDE DEF ts
  <2>5. /\ tables' = [tables EXCEPT ![p] = ts] /\ dryRun' = [dryRun EXCEPT ![p] = dry]
        /\ Become(p, "fatal") \/ (Len(ts) >= 1 /\ Become(p, "build"))
    BY <2>1, <2>4 DEF ts
  <2>6. Typed' /\ Named'
    BY <1>0, <2>2, <2>5 DEF Become
  <2>7. InvocationInv(p)'
    <3>1. tables'[p] = ts /\ at'[p] = 1 /\ (ipc'[p] = "fatal" \/ (Len(ts) >= 1 /\ ipc'[p] = "build"))
      BY <1>0, <2>2, <2>5 DEF Become
    <3> QED
      BY <2>3, <3>1 DEF InvocationInv
  <2>8. \A q \in Invocations : q # p =>
            /\ tables'[q] = tables[q] /\ at'[q] = at[q]
            /\ ipc'[q] = ipc[q] /\ dryRun'[q] = dryRun[q]
    BY <1>0, <2>2, <2>5 DEF Become
  <2> QED
    BY <1>2, <2>2, <2>6, <2>7, <2>8
<1>8. CASE Build(p)
  <2>1. CASE dryRun[p]
    BY <1>0, <1>5, <1>8, <2>1 DEF Build
  <2>2. CASE ~ dryRun[p]
    BY <1>6, <1>8, <2>2 DEF Build
  <2> QED
    BY <2>1, <2>2
<1>9. CASE BuildFail(p) \/ ExecFail(p)
  BY <1>4, <1>9 DEF BuildFail, ExecFail
<1>10. CASE Check(p)
  <2>1. CASE tables[p][at[p]].name \in catalogue /\ Advance(p)
    <3>1. PICK t \in Sheets : t.table = tables[p][at[p]].name
      BY <1>0, <2>1
    <3>2. at[p] \in 1 .. Len(tables[p])
      BY <1>3, <1>10 DEF Check, InvocationInv, FromSheets
    <3>3. PICK s \in Sheets : s.name = tables[p][at[p]].name /\ s.table = tables[p][at[p]].table
      BY <1>3, <3>2 DEF FromSheets
    <3>4. s.table = s.name
      BY <3>1, <3>3, SheetAssumption
    <3>5. tables[p][at[p]].table \in catalogue
      BY <2>1, <3>3, <3>4
    <3> QED
      BY <1>0, <1>5, <1>10, <2>1, <3>5 DEF Check
  <2>2. CASE Become(p, "exec") /\ UNCHANGED at
    BY <1>6, <1>10, <2>2 DEF Check
  <2>3. CASE Become(p, "fatal") /\ UNCHANGED at
    BY <1>4, <1>10, <2>3 DEF Check
  <2> QED
    BY <1>10, <2>1, <2>2, <2>3 DEF Check
<1>11. CASE Exec(p)
  <2>1. at[p] \in 1 .. Len(tables[p])
    BY <1>3, <1>11 DEF Exec, InvocationInv, FromSheets
  <2>2. PICK s \in Sheets : s.table = tables[p][at[p]].table
    BY <1>3, <2>1 DEF FromSheets
  <2>3. Named'
    BY <1>0, <1>11, <2>2 DEF Exec
  <2> QED
    BY <1>5, <1>11, <2>3 DEF Exec
<1>12. CASE Again(p)
  <2>1. Typed' /\ Named'
    BY <1>0, <1>12 DEF Again, Become
  <2>2. InvocationInv(p)'
    <3>1. tables'[p] = <<>> /\ at'[p] = 1 /\ ipc'[p] = "idle"
      BY <1>0, <1>12 DEF Again, Become
    <3> QED
      BY <3>1, NoTables DEF InvocationInv
  <2>3. \A q \in Invocations : q # p =>
            /\ tables'[q] = tables[q] /\ at'[q] = at[q]
            /\ ipc'[q] = ipc[q] /\ dryRun'[q] = dryRun[q]
    BY <1>0, <1>12 DEF Again, Become
  <2>4. catalogue' = catalogue
    BY <1>12 DEF Again
  <2> QED
    BY <1>2, <2>1, <2>2, <2>3, <2>4
<1> QED
  BY <1>7, <1>8, <1>9, <1>10, <1>11, <1>12

LEMMA SheetInvImplies == SheetInv => EarlierTablesExist
<1> SUFFICES ASSUME SheetInv, NEW p \in Invocations, ~ dryRun[p],
                    NEW i \in 1 .. (IF ipc[p] = "ok" THEN Len(tables[p]) ELSE at[p] - 1)
             PROVE  tables[p][i].table \in catalogue
  BY Zenon DEF EarlierTablesExist
<1>1. InvocationInv(p) /\ at[p] \in Nat \ {0} /\ Len(tables[p]) \in Nat
  BY DEF SheetInv, InvocationInv, FromSheets
<1>2. i \in 1 .. at[p] - 1
  BY <1>1 DEF InvocationInv
<1> QED
  BY <1>1, <1>2 DEF InvocationInv

\* Whatever the invocations overlap with, a run that takes a table for made (main,
\* after tableExists) finds it in the database, so that an invocation that ended
\* well has left all of its tables and one that failed those before the failure.
THEOREM NoTableIsLeftOut == SheetSpec => []EarlierTablesExist
<1>1. SheetInit => SheetInv
  BY SheetInitInv
<1>2. SheetInv /\ [SheetNext]_sheetVars => SheetInv'
  BY SheetStepInv
<1>3. SheetInv => EarlierTablesExist
  BY SheetInvImplies
<1> QED
  BY <1>1, <1>2, <1>3, PTL DEF SheetSpec

-----------------------------------------------------------------------------
(* The columns and their conversion.                                         *)

\* The tokens of a rule stand in t from the place i.
Stands(from, t, i) ==
    /\ i + Len(from) - 1 <= Len(t)
    /\ \A j \in 1 .. Len(from) : t[i + j - 1] = from[j]

\* A rule finds its tokens in the first e of t when they stand there.
LEMMA Standing ==
    ASSUME NEW T, NEW t \in Seq(T), NEW from \in Seq(T), Len(from) >= 1, NEW e \in 0 .. Len(t)
    PROVE  from \in SubSeqs(SubSeq(t, 1, e))
              <=> \E i \in 1 .. e : Stands(from, t, i) /\ i + Len(from) - 1 <= e
<1> DEFINE u == SubSeq(t, 1, e)
           n == Len(from)
<1>1. Len(t) \in Nat /\ n \in Nat /\ n >= 1 /\ e \in Nat /\ e <= Len(t)
      /\ (\A i \in 1 .. Len(t) : t[i] \in T)
      /\ (\A i \in 1 .. n : from[i] \in T)
  BY LenProperties
<1>2. u \in Seq(T) /\ Len(u) = e /\ \A i \in 1 .. e : u[i] = t[i]
  <2>1. 1 \in Int /\ e \in Int /\ \A i \in 1 .. e : t[i] \in T
    BY <1>1
  <2>2. /\ u \in Seq(T) /\ Len(u) = (IF 1 <= e THEN e - 1 + 1 ELSE 0)
        /\ \A i \in 1 .. e - 1 + 1 : u[i] = t[1 + i - 1]
    BY <2>1, SubSeqProperties
  <2> HIDE DEF u
  <2> QED
    BY <1>1, <2>2
<1> HIDE DEF u, n
<1>3. ASSUME NEW i \in 0 .. e, NEW j \in 0 .. e
      PROVE  /\ SubSeq(u, i + 1, j) \in Seq(T)
             /\ Len(SubSeq(u, i + 1, j)) = (IF i + 1 <= j THEN j - i ELSE 0)
             /\ \A x \in 1 .. j - i : SubSeq(u, i + 1, j)[x] = t[i + x]
  <2> DEFINE v == SubSeq(u, i + 1, j)
  <2>1. i + 1 \in Int /\ j \in Int /\ \A x \in i + 1 .. j : u[x] \in T
    BY <1>1, <1>2, <1>3
  <2>2. /\ v \in Seq(T) /\ Len(v) = (IF i + 1 <= j THEN j - (i + 1) + 1 ELSE 0)
        /\ \A x \in 1 .. j - (i + 1) + 1 : v[x] = u[i + 1 + x - 1]
    BY <2>1, SubSeqProperties
  <2> HIDE DEF v
  <2>3. j - (i + 1) + 1 = j - i
    BY <1>1
  <2>4. ASSUME NEW x \in 1 .. j - i PROVE i + 1 + x - 1 = i + x /\ i + x \in 1 .. e
    BY <1>1
  <2>5. v \in Seq(T) /\ Len(v) = (IF i + 1 <= j THEN j - i ELSE 0)
    BY <2>2, <2>3
  <2>6. \A x \in 1 .. j - i : v[x] = t[i + x]
    BY <1>2, <2>2, <2>3, <2>4
  <2> QED
    BY <2>5, <2>6 DEF v
<1>6. \A x : x \in SubSeqs(u) <=> \E i, j \in 0 .. e : x = SubSeq(u, i + 1, j)
  <2>1. \A x : x \in SubSeqs(u) <=> \E i, j \in 0 .. Len(u) : x = SubSeq(u, i + 1, j)
    BY DEF SubSeqs
  <2> QED
    BY <1>2, <2>1, Zenon
<1>4. ASSUME from \in SubSeqs(u)
      PROVE  \E i \in 1 .. e : Stands(from, t, i) /\ i + n - 1 <= e
  <2>1. PICK i \in 0 .. e, j \in 0 .. e : from = SubSeq(u, i + 1, j)
    BY <1>4, <1>6
  <2>2. i + 1 <= j /\ n = j - i /\ \A x \in 1 .. n : from[x] = t[i + x]
    <3>1. n = (IF i + 1 <= j THEN j - i ELSE 0) /\ \A x \in 1 .. j - i : from[x] = t[i + x]
      BY <1>3, <2>1 DEF n
    <3> QED
      BY <1>1, <3>1
  <2>3. i + 1 \in 1 .. e /\ (i + 1) + n - 1 <= e /\ \A x \in 1 .. n : (i + 1) + x - 1 = i + x
    BY <1>1, <2>2
  <2>4. Stands(from, t, i + 1)
    <3>1. (i + 1) + n - 1 <= Len(t)
      BY <1>1, <2>3
    <3> QED
      BY <2>2, <2>3, <3>1 DEF Stands, n
  <2> QED
    BY <2>3, <2>4
<1>5. ASSUME NEW i \in 1 .. e, Stands(from, t, i), i + n - 1 <= e
      PROVE  from \in SubSeqs(u)
  <2> DEFINE j == i + n - 1
             v == SubSeq(u, (i - 1) + 1, j)
  <2>1. i - 1 \in 0 .. e /\ j \in 0 .. e /\ j - (i - 1) = n /\ (i - 1) + 1 <= j
    BY <1>1, <1>5
  <2>2. v \in Seq(T) /\ Len(v) = n /\ \A x \in 1 .. n : v[x] = t[(i - 1) + x]
    BY <1>3, <2>1
  <2>3. \A x \in 1 .. n : (i - 1) + x = i + x - 1
    BY <1>1
  <2>4. \A x \in 1 .. n : v[x] = from[x]
    BY <1>5, <2>2, <2>3 DEF Stands, n
  <2>5. v = from
    <3> HIDE DEF v
    <3> QED
      BY <2>2, <2>4, SeqEqual DEF n
  <2> HIDE DEF j
  <2> QED
    BY <1>6, <2>1, <2>5, Zenon
<1> QED
  BY <1>4, <1>5 DEF u, n

\* A rule leaves tokens alone in which its own stand nowhere.
LEMMA RewriteNone ==
    ASSUME NEW T, NEW t \in Seq(T), NEW from \in Seq(T), Len(from) >= 1, NEW to,
           \A i \in 1 .. Len(t) : ~ Stands(from, t, i)
    PROVE  Rewrite(from, to, t) = t
<1>1. Len(t) \in Nat /\ SubSeq(t, 1, Len(t)) = t
  BY LenProperties, SubSeqFull
<1>2. from \notin SubSeqs(t)
  <2>1. Len(t) \in 0 .. Len(t)
    BY <1>1
  <2> QED
    BY <1>1, <2>1, Standing
<1> QED
  BY <1>2 DEF Rewrite, ReplaceFirstSubSeq

\* Where its tokens stand first, they give way to the new ones.
LEMMA RewriteAt ==
    ASSUME NEW T, NEW t \in Seq(T), NEW from \in Seq(T), Len(from) >= 1, NEW to \in Seq(T),
           NEW k \in 1 .. Len(t), Stands(from, t, k), \A i \in 1 .. k - 1 : ~ Stands(from, t, i)
    PROVE  Rewrite(from, to, t) = SubSeq(t, 1, k - 1) \o to \o SubSeq(t, k + Len(from), Len(t))
<1> DEFINE e == k + Len(from) - 1
           Found(i) == from \in SubSeqs(SubSeq(t, 1, i))
           P(i) == Found(i) /\ \A j \in 0 .. i - 1 : ~ Found(j)
<1>1. /\ Len(t) \in Nat /\ Len(from) \in Nat /\ SubSeq(t, 1, Len(t)) = t
      /\ e \in 0 .. Len(t) /\ k <= e
  BY LenProperties, SubSeqFull DEF Stands
<1>2. \A i \in 0 .. Len(t) :
         Found(i) <=> \E x \in 1 .. i : Stands(from, t, x) /\ x + Len(from) - 1 <= i
  BY Standing
<1>3. Found(e)
  <2>1. k \in 1 .. e /\ k + Len(from) - 1 <= e
    BY <1>1
  <2> HIDE DEF e, Found
  <2> QED
    BY <1>1, <1>2, <2>1
<1>4. \A j \in 0 .. Len(t) : Found(j) => e <= j
  <2> SUFFICES ASSUME NEW j \in 0 .. Len(t), Found(j) PROVE e <= j
    OBVIOUS
  <2>1. PICK x \in 1 .. j : Stands(from, t, x) /\ x + Len(from) - 1 <= j
    BY <1>2
  <2>2. ~ (x \in 1 .. k - 1)
    BY <2>1
  <2> QED
    BY <1>1, <2>1, <2>2
<1> HIDE DEF e, Found
<1>5. P(e)
  BY <1>1, <1>3, <1>4
<1>6. \A i \in 0 .. Len(t) : P(i) => i = e
  <2> SUFFICES ASSUME NEW i \in 0 .. Len(t), P(i) PROVE i = e
    OBVIOUS
  <2>1. e <= i
    BY <1>4
  <2>2. ~ (e \in 0 .. i - 1)
    BY <1>3
  <2> QED
    BY <1>1, <2>1, <2>2
<1>7. (CHOOSE i \in 0 .. Len(t) : P(i)) = e
  <2> HIDE DEF P
  <2> QED
    BY <1>1, <1>5, <1>6
<1>8. IndexFirstSubSeq(from, t) = k
  <2>1. IndexFirstSubSeq(from, t) = (CHOOSE i \in 0 .. Len(t) : P(i)) - (Len(from) - 1)
    BY DEF IndexFirstSubSeq, Found
  <2>2. IndexFirstSubSeq(from, t) = e - (Len(from) - 1)
    BY <1>7, <2>1
  <2>3. e - (Len(from) - 1) = k
    BY <1>1 DEF e
  <2> QED
    BY <2>2, <2>3
<1>9. from \in SubSeqs(t)
  <2>1. Found(Len(t))
    <3>1. Len(t) \in 0 .. Len(t) /\ k \in 1 .. Len(t) /\ k + Len(from) - 1 <= Len(t)
      BY <1>1 DEF e
    <3> QED
      BY <1>2, <3>1
  <2> QED
    BY <1>1, <2>1 DEF Found
<1> QED
  BY <1>8, <1>9 DEF Rewrite, ReplaceFirstSubSeq, ReplaceSubSeqAt

\* r has the tokens of t with new ones in the place of those of a rule, which stand
\* at k first.
Gives(T, from, to, t, k, r) ==
    /\ t \in Seq(T) /\ from \in Seq(T) /\ Len(from) >= 1 /\ to \in Seq(T) /\ k \in 1 .. Len(t)
    /\ Stands(from, t, k) /\ \A i \in 1 .. k - 1 : ~ Stands(from, t, i)
    /\ r \in Seq(T) /\ Len(r) = Len(t) - Len(from) + Len(to)
    /\ \A i \in 1 .. k - 1 : r[i] = t[i]
    /\ \A i \in 1 .. Len(to) : r[k - 1 + i] = to[i]
    /\ \A i \in 1 .. Len(t) - (k + Len(from) - 1) :
            r[k - 1 + Len(to) + i] = t[k + Len(from) - 1 + i]

LEMMA RewriteGives ==
    ASSUME NEW T, NEW from, NEW to, NEW t, NEW k, NEW r, Gives(T, from, to, t, k, r)
    PROVE  Rewrite(from, to, t) = r
<1>0. /\ t \in Seq(T) /\ from \in Seq(T) /\ Len(from) >= 1 /\ to \in Seq(T) /\ k \in 1 .. Len(t)
      /\ r \in Seq(T)
  BY DEF Gives
<1>00. /\ Stands(from, t, k) /\ \A i \in 1 .. k - 1 : ~ Stands(from, t, i)
       /\ Len(r) = Len(t) - Len(from) + Len(to)
       /\ \A i \in 1 .. k - 1 : r[i] = t[i]
       /\ \A i \in 1 .. Len(to) : r[k - 1 + i] = to[i]
       /\ \A i \in 1 .. Len(t) - (k + Len(from) - 1) :
               r[k - 1 + Len(to) + i] = t[k + Len(from) - 1 + i]
  BY DEF Gives
<1> USE <1>0
<1> DEFINE pre == SubSeq(t, 1, k - 1)
           post == SubSeq(t, k + Len(from), Len(t))
           n == Len(from)
           m == Len(to)
           w == (pre \o to) \o post
<1>1. /\ Len(t) \in Nat /\ n \in Nat /\ m \in Nat /\ n >= 1 /\ k + n - 1 <= Len(t)
      /\ \A i \in 1 .. Len(t) : t[i] \in T
  BY <1>00, LenProperties, ElementOfSeq DEF Stands
<1> HIDE DEF n, m
<1>2. pre \in Seq(T) /\ Len(pre) = k - 1 /\ \A i \in 1 .. k - 1 : pre[i] = t[i]
  <2>1. 1 \in Int /\ k - 1 \in Int /\ \A i \in 1 .. k - 1 : t[i] \in T
    BY <1>1
  <2>2. /\ pre \in Seq(T) /\ Len(pre) = (IF 1 <= k - 1 THEN k - 1 - 1 + 1 ELSE 0)
        /\ \A i \in 1 .. k - 1 - 1 + 1 : pre[i] = t[1 + i - 1]
    BY <2>1, SubSeqProperties
  <2> HIDE DEF pre
  <2> QED
    BY <1>1, <2>2
<1>3. /\ post \in Seq(T) /\ Len(post) = Len(t) - (k + n - 1)
      /\ \A i \in 1 .. Len(t) - (k + n - 1) : post[i] = t[k + n - 1 + i]
  <2>1. k + n \in Int /\ Len(t) \in Int /\ \A i \in k + n .. Len(t) : t[i] \in T
    BY <1>1
  <2>5. post = SubSeq(t, k + n, Len(t))
    BY DEF post, n
  <2> HIDE DEF post
  <2>2. /\ post \in Seq(T)
        /\ Len(post) = (IF k + n <= Len(t) THEN Len(t) - (k + n) + 1 ELSE 0)
        /\ \A i \in 1 .. Len(t) - (k + n) + 1 : post[i] = t[k + n + i - 1]
    BY <2>1, <2>5, SubSeqProperties, SMTT(20)
  <2>3. Len(post) = Len(t) - (k + n - 1)
    <3>1. CASE k + n <= Len(t)
      <4>1. Len(post) = Len(t) - (k + n) + 1
        BY <2>2, <3>1, Zenon
      <4>2. Len(t) - (k + n) + 1 = Len(t) - (k + n - 1)
        BY <1>1
      <4> QED
        BY <4>1, <4>2, Zenon
    <3>2. CASE ~ (k + n <= Len(t))
      <4>1. Len(post) = 0
        BY <2>2, <3>2, Zenon
      <4>2. Len(t) - (k + n - 1) = 0
        BY <1>1, <3>2
      <4> QED
        BY <4>1, <4>2, Zenon
    <3> QED
      BY <3>1, <3>2
  <2>4. \A i \in 1 .. Len(t) - (k + n - 1) :
           i \in 1 .. Len(t) - (k + n) + 1 /\ k + n + i - 1 = k + n - 1 + i
    BY <1>1
  <2> QED
    BY <2>2, <2>3, <2>4
<1> HIDE DEF pre, post
<1>4. pre \o to \in Seq(T) /\ Joint(pre \o to, pre, to)
  BY <1>2, ConcatOf
<1>5. w \in Seq(T) /\ Joint(w, pre \o to, post)
  BY <1>3, <1>4, ConcatOf
<1> HIDE DEF w
<1>6. /\ Len(pre \o to) = k - 1 + m /\ Len(w) = k - 1 + m + (Len(t) - (k + n - 1))
      /\ \A i \in 1 .. k - 1 + m : w[i] = (pre \o to)[i]
      /\ \A i \in 1 .. Len(t) - (k + n - 1) : w[k - 1 + m + i] = post[i]
  BY <1>2, <1>3, <1>4, <1>5 DEF Joint, m
<1>7. Len(r) = Len(w)
  BY <1>00, <1>1, <1>6 DEF n, m
<1>8. ASSUME NEW i \in 1 .. Len(w) PROVE w[i] = r[i]
  <2>1. CASE i \in 1 .. k - 1
    <3>1. i \in 1 .. k - 1 + m
      BY <1>1, <2>1
    <3>2. (pre \o to)[i] = pre[i]
      BY <1>2, <1>4, <2>1 DEF Joint
    <3> QED
      BY <1>00, <1>2, <1>6, <2>1, <3>1, <3>2
  <2>2. CASE i \in k .. k - 1 + m
    <3> DEFINE x == i - (k - 1)
    <3>1. x \in 1 .. m /\ i = k - 1 + x /\ i \in 1 .. k - 1 + m
      BY <1>1, <2>2
    <3> HIDE DEF x
    <3>2. (pre \o to)[k - 1 + x] = to[x]
      BY <1>2, <1>4, <3>1 DEF Joint, m
    <3>3. r[k - 1 + x] = to[x]
      BY <1>00, <3>1 DEF m
    <3> QED
      BY <1>6, <3>1, <3>2, <3>3
  <2>3. CASE i \in k + m .. Len(w)
    <3> DEFINE x == i - (k - 1 + m)
    <3>1. x \in 1 .. Len(t) - (k + n - 1) /\ i = k - 1 + m + x
      <4> DEFINE lw == Len(w)
                 lt == Len(t)
      <4>1. lw = k - 1 + m + (lt - (k + n - 1)) /\ i \in k + m .. lw /\ lt \in Nat
        BY <1>1, <1>6, <2>3
      <4> HIDE DEF lw
      <4> QED
        BY <1>1, <4>1
    <3> HIDE DEF x
    <3>2. r[k - 1 + m + x] = t[k + n - 1 + x]
      BY <1>00, <3>1 DEF n, m
    <3> QED
      BY <1>3, <1>6, <3>1, <3>2
  <2>4. i \in 1 .. k - 1 \/ i \in k .. k - 1 + m \/ i \in k + m .. Len(w)
    <3> DEFINE e == Len(w)
    <3>1. k \in Int /\ m \in Int /\ e \in Int /\ i \in 1 .. e
      BY <1>1, <1>6
    <3> HIDE DEF e, m
    <3>2. i \in 1 .. k - 1 \/ i \in k .. k - 1 + m \/ i \in k + m .. e
      BY <3>1
    <3> QED
      BY <3>2 DEF e
  <2> QED
    BY <2>1, <2>2, <2>3, <2>4
<1>9. w = r
  BY <1>5, <1>7, <1>8, SeqEqual
<1> QED
  BY <1>00, <1>9, RewriteAt, ZenonT(40) DEF w, pre, post

\* The rules for one token, applied to every token.
Names(t) == [i \in DOMAIN t |-> Renamed(t[i])]

LEMMA NamesType ==
    ASSUME NEW T, NEW t \in Seq(T), \A x \in T : Renamed(x) \in T
    PROVE  /\ Names(t) \in Seq(T) /\ Len(Names(t)) = Len(t)
           /\ \A i \in 1 .. Len(t) : Names(t)[i] = Renamed(t[i])
<1>1. Len(t) \in Nat /\ DOMAIN t = 1 .. Len(t) /\ \A i \in 1 .. Len(t) : t[i] \in T
  BY LenProperties, ElementOfSeq
<1>3. Names(t) \in [1 .. Len(t) -> T] /\ \A i \in 1 .. Len(t) : Names(t)[i] = Renamed(t[i])
  BY <1>1 DEF Names
<1> QED
  BY <1>1, <1>3, SequenceOf

\* They go through one sequence after the other.
LEMMA NamesConcat ==
    ASSUME NEW T, NEW s \in Seq(T), NEW t \in Seq(T), \A x \in T : Renamed(x) \in T
    PROVE  Names(s \o t) = Names(s) \o Names(t)
<1> DEFINE w == s \o t
           a == Names(w)
           b == Names(s) \o Names(t)
<1>1. w \in Seq(T) /\ Joint(w, s, t)
  BY ConcatOf
<1>2. b \in Seq(T) /\ Joint(b, Names(s), Names(t))
  BY NamesType, ConcatOf
<1> HIDE DEF w
<1>3. a \in Seq(T) /\ Len(a) = Len(w) /\ \A i \in 1 .. Len(w) : a[i] = Renamed(w[i])
  BY <1>1, NamesType
<1>4. /\ Len(Names(s)) = Len(s) /\ \A i \in 1 .. Len(s) : Names(s)[i] = Renamed(s[i])
      /\ Len(Names(t)) = Len(t) /\ \A i \in 1 .. Len(t) : Names(t)[i] = Renamed(t[i])
  BY NamesType
<1> HIDE DEF a, b
<1>5. Len(s) \in Nat /\ Len(t) \in Nat /\ Len(w) = Len(s) + Len(t) /\ Len(b) = Len(w)
  BY <1>1, <1>2, <1>4 DEF Joint
<1>6. ASSUME NEW i \in 1 .. Len(w) PROVE a[i] = b[i]
  <2>1. CASE i \in 1 .. Len(s)
    BY <1>1, <1>2, <1>3, <1>4, <2>1 DEF Joint
  <2>2. CASE i \in Len(s) + 1 .. Len(s) + Len(t)
    <3> DEFINE x == i - Len(s)
    <3>1. x \in 1 .. Len(t) /\ i = Len(s) + x
      BY <1>5, <2>2
    <3> HIDE DEF x
    <3>2. w[Len(s) + x] = t[x] /\ b[Len(s) + x] = Names(t)[x]
      BY <1>1, <1>2, <1>4, <3>1 DEF Joint
    <3> QED
      BY <1>3, <1>4, <3>1, <3>2
  <2> QED
    BY <1>5, <2>1, <2>2
<1>7. a = b
  BY <1>2, <1>3, <1>5, <1>6, SeqEqual
<1> QED
  BY <1>7 DEF a, b, w

\* The first two tokens of the rules that have more than one.
Starts(a, b) == (a = "INT" /\ b = "IDENTITY") \/ (a = "BIT" /\ b = "NOT NULL")

\* They stand nowhere.
Clear(t) == \A i \in 1 .. Len(t) - 1 : ~ Starts(t[i], t[i + 1])

\* A rule of two tokens or more whose first two stand nowhere leaves all as it is.
LEMMA ClearStays ==
    ASSUME NEW T, NEW t \in Seq(T), Clear(t), NEW from \in Seq(T), Len(from) >= 2,
           Starts(from[1], from[2]), NEW to
    PROVE  Rewrite(from, to, t) = t
<1>1. Len(from) \in Nat /\ Len(t) \in Nat
  BY LenProperties
<1>2. ASSUME NEW i \in 1 .. Len(t), Stands(from, t, i) PROVE FALSE
  <2>1. i + 2 - 1 = i + 1 /\ i + 1 - 1 = i /\ i \in 1 .. Len(t) - 1
    BY <1>1, <1>2 DEF Stands
  <2>2. 1 \in 1 .. Len(from) /\ 2 \in 1 .. Len(from)
    BY <1>1
  <2>3. t[i + 1 - 1] = from[1] /\ t[i + 2 - 1] = from[2]
    BY <1>2, <2>2 DEF Stands
  <2>4. t[i] = from[1] /\ t[i + 1] = from[2]
    BY <2>1, <2>3
  <2> QED
    BY <2>1, <2>4 DEF Clear
<1>3. Len(from) >= 1
  BY <1>1
<1> QED
  BY <1>2, <1>3, RewriteNone

\* Renaming makes none of these tokens.
LEMMA ClearNames ==
    ASSUME NEW T, NEW t \in Seq(T), \A x \in T : Renamed(x) \in T, Clear(t)
    PROVE  Clear(Names(t))
<1>1. \A x \in {"INT", "IDENTITY", "BIT", "NOT NULL"} : \A y : Renamed(y) = x => y = x
  BY DEF Renamed
<1>2. /\ Len(t) \in Nat /\ Len(Names(t)) = Len(t)
      /\ \A i \in 1 .. Len(t) : t[i] \in T /\ Names(t)[i] = Renamed(t[i])
  BY NamesType, LenProperties, ElementOfSeq
<1> SUFFICES ASSUME NEW i \in 1 .. Len(t) - 1
             PROVE  ~ Starts(Names(t)[i], Names(t)[i + 1])
  BY <1>2 DEF Clear
<1>3. i \in 1 .. Len(t) /\ i + 1 \in 1 .. Len(t)
  BY <1>2
<1>4. /\ Names(t)[i] = Renamed(t[i]) /\ Names(t)[i + 1] = Renamed(t[i + 1])
      /\ t[i] \in T /\ t[i + 1] \in T
  BY <1>2, <1>3
<1>5. ~ Starts(t[i], t[i + 1])
  BY DEF Clear
<1> QED
  BY <1>1, <1>4, <1>5 DEF Starts

\* Nor does putting two sequences together when it does not happen at the seam.
LEMMA ClearConcat ==
    ASSUME NEW T, NEW s \in Seq(T), NEW t \in Seq(T), Clear(s), Clear(t), Len(s) >= 1, Len(t) >= 1,
           ~ Starts(s[Len(s)], t[1])
    PROVE  /\ Clear(s \o t) /\ s \o t \in Seq(T)
           /\ Len(s \o t) >= 1 /\ (s \o t)[Len(s \o t)] = t[Len(t)]
<1> DEFINE w == s \o t
<1>1. w \in Seq(T) /\ Joint(w, s, t)
  BY ConcatOf
<1> HIDE DEF w
<1>2. Len(s) \in Nat /\ Len(t) \in Nat /\ Len(w) = Len(s) + Len(t)
  BY <1>1 DEF Joint
<1>3. /\ \A i \in 1 .. Len(s) - 1 : ~ Starts(s[i], s[i + 1])
      /\ \A i \in 1 .. Len(t) - 1 : ~ Starts(t[i], t[i + 1])
      /\ ~ Starts(s[Len(s)], t[1])
  BY DEF Clear
<1>4. ASSUME NEW i \in 1 .. Len(w) - 1 PROVE ~ Starts(w[i], w[i + 1])
  <2>1. CASE i \in 1 .. Len(s) - 1
    <3>1. i \in 1 .. Len(s) /\ i + 1 \in 1 .. Len(s)
      BY <1>2, <2>1
    <3> QED
      BY <1>1, <1>3, <2>1, <3>1 DEF Joint
  <2>2. CASE i = Len(s)
    <3>1. i \in 1 .. Len(s) /\ 1 \in 1 .. Len(t)
      BY <1>2, <2>2
    <3>2. w[i] = s[Len(s)] /\ w[Len(s) + 1] = t[1]
      BY <1>1, <2>2, <3>1 DEF Joint
    <3> QED
      BY <1>3, <2>2, <3>2
  <2>3. CASE i \in Len(s) + 1 .. Len(w) - 1
    <3> DEFINE x == i - Len(s)
    <3>1. /\ x \in 1 .. Len(t) - 1 /\ x \in 1 .. Len(t) /\ x + 1 \in 1 .. Len(t)
          /\ i = Len(s) + x /\ i + 1 = Len(s) + (x + 1)
      BY <1>2, <2>3
    <3> HIDE DEF x
    <3>2. w[Len(s) + x] = t[x] /\ w[Len(s) + (x + 1)] = t[x + 1]
      BY <1>1, <3>1 DEF Joint
    <3> QED
      BY <1>3, <3>1, <3>2
  <2> QED
    BY <1>2, <2>1, <2>2, <2>3
<1>5. Clear(w)
  BY <1>4 DEF Clear
<1>6. w[Len(w)] = t[Len(t)]
  <2>1. Len(t) \in 1 .. Len(t)
    BY <1>2
  <2> QED
    BY <1>1, <1>2, <2>1 DEF Joint
<1> QED
  BY <1>1, <1>2, <1>5, <1>6 DEF w

\* The tokens of a column.
Tokens(c) ==
    {c.name, c.default, "INT", "BIGINT", "FLOAT", "DECIMAL", "NVARCHAR(MAX)", "NVARCHAR(n)",
     "NVARCHAR(?)", "BIT", "DATETIME2", "IDENTITY", "PRIMARY KEY", "NOT NULL", "UNIQUE", "DEFAULT",
     "N'", "'", "0", "1", "TEXT", "VARCHAR(n)", "TIMESTAMP", "CURRENT_TIMESTAMP", "SERIAL",
     "BOOLEAN", "FALSE"}

\* Renaming gives tokens.
LEMMA TokensRenamed ==
    ASSUME NEW c
    PROVE  \A x \in Tokens(c) : Renamed(x) \in Tokens(c)
<1> SUFFICES ASSUME NEW x \in Tokens(c) PROVE Renamed(x) \in Tokens(c)
  OBVIOUS
<1>1. Renamed(x) \in {"TEXT", "VARCHAR(n)", "TIMESTAMP", "CURRENT_TIMESTAMP", "'", x}
  BY DEF Renamed
<1> QED
  BY <1>1 DEF Tokens

\* A name and a type, and what columnDDL writes behind them before the default.
Constraints == {"PRIMARY KEY", "NOT NULL", "UNIQUE"}

Open(T, t) == t \in Seq(T) /\ Clear(t) /\ Len(t) >= 1 /\ t[Len(t)] # "BIT"

\* With one constraint more or without it.
LEMMA OpenIf ==
    ASSUME NEW T, NEW t, Open(T, t), Constraints \subseteq T, NEW b \in BOOLEAN, NEW e \in Constraints,
           \A x \in T : Renamed(x) \in T
    PROVE  /\ Open(T, t \o If(b, <<e>>))
           /\ Names(t \o If(b, <<e>>)) = Names(t) \o If(b, <<e>>)
<1>1. t \in Seq(T) /\ Clear(t) /\ Len(t) >= 1 /\ t[Len(t)] # "BIT"
  BY DEF Open
<1>2. CASE b
  <2> DEFINE s == <<e>>
  <2>1. If(b, <<e>>) = s
    BY <1>2 DEF If
  <2>2. s \in Seq(T) /\ Len(s) = 1 /\ s[1] = e
    OBVIOUS
  <2> HIDE DEF s
  <2>3. Clear(s)
    BY <2>2 DEF Clear
  <2>4. ~ Starts(t[Len(t)], s[1])
    BY <1>1, <2>2 DEF Starts, Constraints
  <2>5. /\ Clear(t \o s) /\ t \o s \in Seq(T)
        /\ Len(t \o s) >= 1 /\ (t \o s)[Len(t \o s)] = s[Len(s)]
    <3>1. Len(s) >= 1
      BY <2>2
    <3> QED
      BY <1>1, <2>2, <2>3, <2>4, <3>1, ClearConcat, Zenon
  <2>6. Open(T, t \o s)
    BY <2>2, <2>5 DEF Open, Constraints
  <2>7. Names(s) = s
    <3>1. Renamed(e) = e
      BY DEF Renamed, Constraints, Now
    <3>2. /\ Names(s) \in Seq(T) /\ Len(Names(s)) = Len(s)
          /\ \A i \in 1 .. Len(s) : Names(s)[i] = Renamed(s[i])
      BY <2>2, NamesType
    <3> QED
      BY <2>2, <3>1, <3>2, SeqEqual
  <2>8. Names(t \o s) = Names(t) \o s
    <3>1. Names(t \o s) = Names(t) \o Names(s)
      BY <1>1, <2>2, NamesConcat, Zenon
    <3> QED
      BY <2>7, <3>1
  <2> QED
    BY <2>1, <2>6, <2>8
<1>3. CASE ~ b
  <2>1. If(b, <<e>>) = <<>>
    BY <1>3 DEF If
  <2>2. t \o <<>> = t
    BY <1>1, ConcatEmptySeq
  <2>3. Names(t) \o <<>> = Names(t)
    BY <1>1, NamesType, ConcatEmptySeq
  <2> QED
    BY <2>1, <2>2, <2>3
<1> QED
  BY <1>2, <1>3

\* Short sequences, written out.
LEMMA Tuples ==
    ASSUME NEW T, NEW a \in T, NEW b \in T, NEW c \in T, NEW d \in T
    PROVE  /\ <<a>> \in Seq(T) /\ Len(<<a>>) = 1 /\ <<a>>[1] = a
           /\ <<a, b>> \in Seq(T) /\ Len(<<a, b>>) = 2 /\ <<a, b>>[1] = a /\ <<a, b>>[2] = b
           /\ <<a, b, c>> \in Seq(T) /\ Len(<<a, b, c>>) = 3
           /\ <<a, b, c>>[1] = a /\ <<a, b, c>>[2] = b /\ <<a, b, c>>[3] = c
           /\ <<a, b, c, d>> \in Seq(T) /\ Len(<<a, b, c, d>>) = 4
           /\ <<a, b, c, d>>[1] = a /\ <<a, b, c, d>>[2] = b
           /\ <<a, b, c, d>>[3] = c /\ <<a, b, c, d>>[4] = d
  OBVIOUS

LEMMA JointIs ==
    ASSUME NEW T, NEW r \in Seq(T), NEW s \in Seq(T), NEW t \in Seq(T), Joint(r, s, t)
    PROVE  s \o t = r
<1> DEFINE w == s \o t
<1>1. w \in Seq(T) /\ Joint(w, s, t)
  BY ConcatOf
<1> HIDE DEF w
<1>2. Len(s) \in Nat /\ Len(t) \in Nat /\ Len(w) = Len(s) + Len(t) /\ Len(r) = Len(w)
  BY <1>1 DEF Joint
<1>3. ASSUME NEW i \in 1 .. Len(w) PROVE w[i] = r[i]
  <2>1. CASE i \in 1 .. Len(s)
    BY <1>1, <2>1 DEF Joint
  <2>2. CASE i \in Len(s) + 1 .. Len(s) + Len(t)
    <3> DEFINE x == i - Len(s)
    <3>1. x \in 1 .. Len(t) /\ i = Len(s) + x
      BY <1>2, <2>2
    <3> HIDE DEF x
    <3> QED
      BY <1>1, <3>1 DEF Joint
  <2> QED
    BY <1>2, <2>1, <2>2
<1>4. w = r
  BY <1>1, <1>2, <1>3, SeqEqual
<1> QED
  BY <1>4 DEF w

LEMMA OneAndOne ==
    ASSUME NEW a, NEW b
    PROVE  <<a>> \o <<b>> = <<a, b>>
<1> DEFINE r == <<a, b>>
           s == <<a>>
           t == <<b>>
<1>1. /\ Len(r) = 2 /\ Len(s) = 1 /\ Len(t) = 1
      /\ r[1] = a /\ r[2] = b /\ s[1] = a /\ t[1] = b
      /\ r \in Seq({a, b}) /\ s \in Seq({a, b}) /\ t \in Seq({a, b})
  OBVIOUS
<1> HIDE DEF r, s, t
<1>2. \A i \in 1 .. 1 : i = 1 /\ 1 + i = 2
  OBVIOUS
<1>3. Joint(r, s, t)
  BY <1>1, <1>2 DEF Joint
<1>4. s \o t = r
  BY <1>1, <1>3, JointIs
<1> QED
  BY <1>4 DEF r, s, t

LEMMA OneAndThree ==
    ASSUME NEW a, NEW b, NEW c, NEW d
    PROVE  <<a>> \o <<b, c, d>> = <<a, b, c, d>>
<1>1. Joint(<<a, b, c, d>>, <<a>>, <<b, c, d>>)
  BY DEF Joint
<1>2. /\ <<a>> \in Seq({a, b, c, d}) /\ <<b, c, d>> \in Seq({a, b, c, d})
      /\ <<a, b, c, d>> \in Seq({a, b, c, d})
  OBVIOUS
<1> QED
  BY <1>1, <1>2, JointIs

LEMMA TwoAndOne ==
    ASSUME NEW a, NEW b, NEW c
    PROVE  <<a, b>> \o <<c>> = <<a, b, c>>
<1>1. Joint(<<a, b, c>>, <<a, b>>, <<c>>)
  BY DEF Joint
<1>2. <<a, b>> \in Seq({a, b, c}) /\ <<c>> \in Seq({a, b, c}) /\ <<a, b, c>> \in Seq({a, b, c})
  OBVIOUS
<1> QED
  BY <1>1, <1>2, JointIs

LEMMA TwoAndTwo ==
    ASSUME NEW a, NEW b, NEW c, NEW d
    PROVE  <<a, b>> \o <<c, d>> = <<a, b, c, d>>
<1>1. Joint(<<a, b, c, d>>, <<a, b>>, <<c, d>>)
  BY DEF Joint
<1>2. /\ <<a, b>> \in Seq({a, b, c, d}) /\ <<c, d>> \in Seq({a, b, c, d})
      /\ <<a, b, c, d>> \in Seq({a, b, c, d})
  OBVIOUS
<1> QED
  BY <1>1, <1>2, JointIs

LEMMA ThreeAndOne ==
    ASSUME NEW a, NEW b, NEW c, NEW d
    PROVE  <<a, b, c>> \o <<d>> = <<a, b, c, d>>
<1>1. Joint(<<a, b, c, d>>, <<a, b, c>>, <<d>>)
  BY DEF Joint
<1>2. /\ <<a, b, c>> \in Seq({a, b, c, d}) /\ <<d>> \in Seq({a, b, c, d})
      /\ <<a, b, c, d>> \in Seq({a, b, c, d})
  OBVIOUS
<1> QED
  BY <1>1, <1>2, JointIs

\* The rules have two tokens at least.
LEMMA AtLeastTwo ==
    ASSUME NEW s, Len(s) = 2 \/ Len(s) = 3 \/ Len(s) = 4
    PROVE  Len(s) >= 1 /\ Len(s) >= 2
  OBVIOUS

\* Renamed one by one.
LEMMA TwoNamed ==
    ASSUME NEW a, NEW b
    PROVE  Names(<<a, b>>) = <<Renamed(a), Renamed(b)>>
  BY DEF Names

LEMMA ThreeNamed ==
    ASSUME NEW a, NEW b, NEW c
    PROVE  Names(<<a, b, c>>) = <<Renamed(a), Renamed(b), Renamed(c)>>
  BY DEF Names

LEMMA FourNamed ==
    ASSUME NEW a, NEW b, NEW c, NEW d
    PROVE  Names(<<a, b, c, d>>) = <<Renamed(a), Renamed(b), Renamed(c), Renamed(d)>>
  BY DEF Names

\* Without the beginning of a rule.
LEMMA TuplesClear ==
    ASSUME NEW T, NEW a \in T, NEW b \in T, NEW c \in T, NEW d \in T, ~ Starts(a, b)
    PROVE  /\ Clear(<<a>>) /\ Clear(<<a, b>>)
           /\ ~ Starts(b, c) => Clear(<<a, b, c>>)
           /\ ~ Starts(b, c) /\ ~ Starts(c, d) => Clear(<<a, b, c, d>>)
<1>1. Clear(<<a>>) /\ Clear(<<a, b>>)
  <2> DEFINE s == <<a>>
             t == <<a, b>>
  <2>1. Len(s) = 1 /\ Len(t) = 2 /\ t[1] = a /\ t[2] = b
    OBVIOUS
  <2> HIDE DEF s, t
  <2>2. Clear(s) /\ Clear(t)
    BY <2>1 DEF Clear
  <2> QED
    BY <2>2 DEF s, t
<1>2. ASSUME ~ Starts(b, c) PROVE Clear(<<a, b, c>>)
  <2> DEFINE t == <<a, b, c>>
  <2>1. Len(t) = 3 /\ t[1] = a /\ t[2] = b /\ t[3] = c
    OBVIOUS
  <2> HIDE DEF t
  <2>2. \A i \in 1 .. 2 : i = 1 \/ i = 2
    OBVIOUS
  <2>3. Clear(t)
    BY <1>2, <2>1, <2>2 DEF Clear
  <2> QED
    BY <2>3 DEF t
<1>3. ASSUME ~ Starts(b, c), ~ Starts(c, d) PROVE Clear(<<a, b, c, d>>)
  <2> DEFINE t == <<a, b, c, d>>
  <2>1. Len(t) = 4 /\ t[1] = a /\ t[2] = b /\ t[3] = c /\ t[4] = d
    OBVIOUS
  <2> HIDE DEF t
  <2>2. \A i \in 1 .. 3 : i = 1 \/ i = 2 \/ i = 3
    OBVIOUS
  <2>3. Clear(t)
    BY <1>3, <2>1, <2>2 DEF Clear
  <2> QED
    BY <2>3 DEF t
<1> QED
  BY <1>1, <1>2, <1>3

\* The rules of more than one token.
Serial == <<"INT", "IDENTITY", "PRIMARY KEY">>
Flag == <<"BIT", "NOT NULL">>
Flag0 == <<"BIT", "NOT NULL", "DEFAULT", "0">>

LEMMA Rules ==
    ASSUME NEW T, {"INT", "IDENTITY", "PRIMARY KEY", "BIT", "NOT NULL", "DEFAULT", "0"} \subseteq T
    PROVE  /\ Serial \in Seq(T) /\ Flag \in Seq(T) /\ Flag0 \in Seq(T)
           /\ Len(Serial) = 3 /\ Len(Flag) = 2 /\ Len(Flag0) = 4
           /\ Starts(Serial[1], Serial[2]) /\ Starts(Flag[1], Flag[2]) /\ Starts(Flag0[1], Flag0[2])
           /\ Serial[1] = "INT" /\ Serial[2] = "IDENTITY" /\ Serial[3] = "PRIMARY KEY"
           /\ Flag[1] = "BIT" /\ Flag[2] = "NOT NULL"
           /\ Flag0[1] = "BIT" /\ Flag0[2] = "NOT NULL" /\ Flag0[3] = "DEFAULT" /\ Flag0[4] = "0"
<1>1. "INT" \in T /\ "IDENTITY" \in T /\ "PRIMARY KEY" \in T /\ "BIT" \in T /\ "NOT NULL" \in T
      /\ "DEFAULT" \in T /\ "0" \in T
  OBVIOUS
<1>2. Starts("INT", "IDENTITY") /\ Starts("BIT", "NOT NULL")
  BY DEF Starts
<1> QED
  BY <1>1, <1>2, Tuples, ZenonT(40) DEF Serial, Flag, Flag0

\* The conversion, rule after rule.
LEMMA Steps ==
    ASSUME NEW t, NEW u, NEW v, Rewrite(Serial, <<"SERIAL", "PRIMARY KEY">>, t) = u,
           Rewrite(Flag0, NewFlag, Names(u)) = v
    PROVE  ConvertDDL(t) = Rewrite(Flag, NewFlag, v)
<1>1. ConvertDDL(t) = ConvertFlags(Names(u))
  BY DEF ConvertDDL, Names, Serial
<1>2. ConvertFlags(Names(u)) = Rewrite(Flag, NewFlag, Rewrite(Flag0, NewFlag, Names(u)))
  BY DEF ConvertFlags, Flag, Flag0
<1> QED
  BY <1>1, <1>2

\* The rules leave a clear column what its tokens are renamed to.
LEMMA ClearConverted ==
    ASSUME NEW T, NEW t \in Seq(T), Clear(t), \A x \in T : Renamed(x) \in T,
           {"INT", "IDENTITY", "PRIMARY KEY", "BIT", "NOT NULL", "DEFAULT", "0"} \subseteq T
    PROVE  ConvertDDL(t) = Names(t)
<1>1. Names(t) \in Seq(T) /\ Clear(Names(t))
  BY NamesType, ClearNames
<1>2. /\ Serial \in Seq(T) /\ Flag \in Seq(T) /\ Flag0 \in Seq(T)
      /\ Len(Serial) >= 2 /\ Len(Flag) >= 2 /\ Len(Flag0) >= 2
      /\ Starts(Serial[1], Serial[2]) /\ Starts(Flag[1], Flag[2]) /\ Starts(Flag0[1], Flag0[2])
  <2>1. Len(Serial) = 3 /\ Len(Flag) = 2 /\ Len(Flag0) = 4
    BY Rules
  <2>2. Len(Serial) >= 2 /\ Len(Flag) >= 2 /\ Len(Flag0) >= 2
    BY <2>1, AtLeastTwo, Zenon
  <2> QED
    BY <2>2, Rules
<1>3. Rewrite(Serial, <<"SERIAL", "PRIMARY KEY">>, t) = t
  BY <1>2, ClearStays, Zenon
<1>4. Rewrite(Flag0, NewFlag, Names(t)) = Names(t)
  BY <1>1, <1>2, ClearStays, Zenon
<1>5. Rewrite(Flag, NewFlag, Names(t)) = Names(t)
  BY <1>1, <1>2, ClearStays, Zenon
<1> QED
  BY <1>3, <1>4, <1>5, Steps

\* What a row that is not of a flag asks for as its default, and what its text is
\* renamed to.
Value(c) ==
    CASE c.type \in Texts /\ c.default \notin Numerals \union Literals -> <<"'", c.default, "'">>
      [] c.type \notin Texts /\ c.default \in Now -> <<"CURRENT_TIMESTAMP">>
      [] OTHER -> <<c.default>>

Text(c) == c.type \in Texts /\ c.default \notin Numerals \union Literals

\* A row that is not spoiled has nothing in it that a rule would rename, unless it
\* is the time of day as the default of a column that is no text.
LEMMA NoMatch ==
    ASSUME NEW c, ~ Spoiled(c)
    PROVE  /\ Renamed(c.name) = c.name /\ c.name \notin Now \union {"N'"}
           /\ c.type \notin Flags =>
                /\ Renamed(c.default) # c.default => c.default \in Now
                /\ c.default # "N'"
                /\ c.type \in Texts => c.default \notin Now
<1>1. ~ HasMatch(c)
  BY DEF Spoiled
<1>2. Types \union Now \union {"N'"} \subseteq Touched
  BY TouchedAssumption
<1>3. \A x : Renamed(x) # x => x \in Types \union Now \union {"N'"}
  BY DEF Renamed, Types
<1>4. "N'" \notin Now
  BY DEF Now
<1> QED
  BY <1>1, <1>2, <1>3, <1>4 DEF HasMatch

LEMMA DefaultTokens ==
    ASSUME NEW c, c.type \notin Flags, ~ Spoiled(c)
    PROVE  /\ Text(c) => /\ normalizeDefault(c) = <<"N'", c.default, "'">>
                         /\ Value(c) = <<"'", c.default, "'">>
                         /\ Renamed(c.default) = c.default
           /\ ~ Text(c) => /\ normalizeDefault(c) = <<c.default>>
                           /\ Value(c) = <<Renamed(c.default)>>
           /\ Renamed("N'") = "'" /\ Renamed("'") = "'" /\ Renamed("DEFAULT") = "DEFAULT"
<1>1. /\ Renamed(c.default) # c.default => c.default \in Now
      /\ c.type \in Texts => c.default \notin Now
  BY NoMatch
<1>2. c.default \in Now => Renamed(c.default) = "CURRENT_TIMESTAMP"
  BY DEF Renamed, Now
<1>3. Renamed("N'") = "'" /\ Renamed("'") = "'" /\ Renamed("DEFAULT") = "DEFAULT"
  BY DEF Renamed, Now
<1>4. CASE Text(c)
  <2>1. normalizeDefault(c) = <<"N'", c.default, "'">>
    BY <1>1, <1>4 DEF normalizeDefault, Text
  <2>2. Value(c) = <<"'", c.default, "'">>
    BY <1>1, <1>4 DEF Value, Text
  <2>3. Renamed(c.default) = c.default
    BY <1>1, <1>4 DEF Text
  <2> QED
    BY <1>3, <1>4, <2>1, <2>2, <2>3
<1>5. CASE ~ Text(c)
  <2>1. normalizeDefault(c) = <<c.default>>
    BY <1>5 DEF normalizeDefault, Text
  <2>2. CASE c.default \in Now
    <3>1. Value(c) = <<"CURRENT_TIMESTAMP">>
      <4>1. c.type \notin Texts
        BY <1>1, <2>2
      <4> QED
        BY <2>2, <4>1 DEF Value
    <3> QED
      BY <1>2, <1>3, <1>5, <2>1, <2>2, <3>1
  <2>3. CASE c.default \notin Now
    <3>1. Value(c) = <<c.default>>
      BY <1>5, <2>3 DEF Value, Text
    <3> QED
      BY <1>1, <1>3, <1>5, <2>1, <2>3, <3>1
  <2> QED
    BY <2>2, <2>3
<1> QED
  BY <1>4, <1>5

\* The default as it is written and as it is converted.
LEMMA DefaultConverted ==
    ASSUME NEW c, c.type \notin Flags, ~ Spoiled(c)
    PROVE  LET d == <<"DEFAULT">> \o normalizeDefault(c)
           IN  /\ d \in Seq(Tokens(c)) /\ Clear(d) /\ Len(d) >= 1 /\ d[1] = "DEFAULT"
               /\ Names(d) = <<"DEFAULT">> \o Value(c)
<1> DEFINE T == Tokens(c)
           d == <<"DEFAULT">> \o normalizeDefault(c)
<1>1. /\ "DEFAULT" \in T /\ "N'" \in T /\ "'" \in T /\ c.default \in T
      /\ Renamed(c.default) \in T
  BY TokensRenamed DEF Tokens
<1>2. \A x, y : ~ Starts("DEFAULT", x) /\ ~ Starts("N'", x) /\ ~ Starts(x, "'")
  BY DEF Starts
<1> HIDE DEF T
<1>3. CASE Text(c)
  <2> DEFINE s == <<"DEFAULT", "N'", c.default, "'">>
  <2>1. d = s /\ <<"DEFAULT">> \o Value(c) = <<"DEFAULT", "'", c.default, "'">>
    <3>1. /\ <<"DEFAULT">> \o <<"N'", c.default, "'">> = s
          /\ <<"DEFAULT">> \o <<"'", c.default, "'">> = <<"DEFAULT", "'", c.default, "'">>
      BY OneAndThree, Zenon
    <3> HIDE DEF s
    <3>2. normalizeDefault(c) = <<"N'", c.default, "'">> /\ Value(c) = <<"'", c.default, "'">>
      BY <1>3, DefaultTokens
    <3> QED
      BY <3>1, <3>2, Zenon
  <2>2. Names(s) = <<"DEFAULT", "'", c.default, "'">>
    <3>1. Names(s) = <<Renamed("DEFAULT"), Renamed("N'"), Renamed(c.default), Renamed("'")>>
      BY FourNamed, Zenon
    <3> QED
      BY <1>3, <3>1, DefaultTokens, Zenon
  <2>3. s \in Seq(T) /\ Len(s) = 4 /\ s[1] = "DEFAULT"
    BY <1>1, Tuples, ZenonT(40)
  <2>4. Clear(s)
    BY <1>1, <1>2, TuplesClear, Zenon
  <2> HIDE DEF s
  <2>5. Len(s) >= 1
    BY <2>3, AtLeastTwo, Zenon
  <2> QED
    BY <2>1, <2>2, <2>3, <2>4, <2>5 DEF T
<1>4. CASE ~ Text(c)
  <2> DEFINE s == <<"DEFAULT", c.default>>
  <2>1. d = s /\ <<"DEFAULT">> \o Value(c) = <<"DEFAULT", Renamed(c.default)>>
    <3>1. /\ <<"DEFAULT">> \o <<c.default>> = s
          /\ <<"DEFAULT">> \o <<Renamed(c.default)>> = <<"DEFAULT", Renamed(c.default)>>
      BY OneAndOne, Zenon
    <3> HIDE DEF s
    <3>2. normalizeDefault(c) = <<c.default>> /\ Value(c) = <<Renamed(c.default)>>
      BY <1>4, DefaultTokens
    <3> QED
      BY <3>1, <3>2, Zenon
  <2>2. Names(s) = <<"DEFAULT", Renamed(c.default)>>
    <3>1. Names(s) = <<Renamed("DEFAULT"), Renamed(c.default)>>
      BY TwoNamed, Zenon
    <3> QED
      BY <3>1, DefaultTokens, Zenon
  <2>3. s \in Seq(T) /\ Len(s) = 2 /\ s[1] = "DEFAULT"
    BY <1>1, Tuples, Zenon
  <2>4. Clear(s)
    BY <1>1, <1>2, TuplesClear, Zenon
  <2> HIDE DEF s
  <2>5. Len(s) >= 1
    BY <2>3, AtLeastTwo, Zenon
  <2> QED
    BY <2>1, <2>2, <2>3, <2>4, <2>5 DEF T
<1> QED
  BY <1>3, <1>4

\* The type a row that is not of a flag asks for.
Type(c) ==
    CASE c.type \in Times2 -> "TIMESTAMP"
      [] SQLType(c) = "NVARCHAR(MAX)" -> "TEXT"
      [] c.type \in Texts /\ SQLType(c) # "NVARCHAR(MAX)" -> "VARCHAR(n)"
      [] OTHER -> SQLType(c)

LEMMA TypeConverted ==
    ASSUME NEW c, c.type \notin Flags, ~ Spoiled(c), SQLType(c) # "unsupported"
    PROVE  /\ Renamed(SQLType(c)) = Type(c) /\ Renamed(c.name) = c.name
           /\ SQLType(c) \in Tokens(c) /\ SQLType(c) \notin {"BIT", "IDENTITY", "NOT NULL"}
<1>1. Renamed(c.name) = c.name /\ SQLType(c) # "NVARCHAR(?)"
  BY NoMatch DEF Spoiled
<1>2. CASE c.type \in {"INT", "INTEGER"}
  <2>1. SQLType(c) = "INT" /\ Type(c) = "INT" /\ Renamed("INT") = "INT"
    BY <1>2 DEF SQLType, Type, Times2, Texts, Renamed, Now
  <2> QED
    BY <1>1, <2>1 DEF Tokens
<1>3. CASE c.type \in {"BIGINT", "FLOAT"}
  <2>1. SQLType(c) = c.type /\ Type(c) = c.type /\ Renamed(c.type) = c.type
    BY <1>3 DEF SQLType, Type, Times2, Texts, Renamed, Now
  <2> QED
    BY <1>1, <1>3, <2>1 DEF Tokens
<1>4. CASE c.type \in {"VARCHAR", "NVARCHAR"}
  <2>1. \/ SQLType(c) = "NVARCHAR(MAX)" /\ Type(c) = "TEXT"
        \/ SQLType(c) = "NVARCHAR(n)" /\ Type(c) = "VARCHAR(n)"
    <3>1. c.type \notin Times2 /\ c.type \in Texts /\ SQLType(c) \in {"NVARCHAR(MAX)", "NVARCHAR(n)"}
      BY <1>1, <1>4 DEF SQLType, Times2, Texts
    <3>2. CASE SQLType(c) = "NVARCHAR(MAX)"
      <4>1. Type(c) = "TEXT"
        BY <3>1, <3>2 DEF Type
      <4> QED
        BY <3>2, <4>1
    <3>3. CASE SQLType(c) = "NVARCHAR(n)"
      <4>1. SQLType(c) # "NVARCHAR(MAX)"
        BY <3>3
      <4>2. Type(c) = "VARCHAR(n)"
        BY <3>1, <4>1 DEF Type
      <4> QED
        BY <3>3, <4>2
    <3> QED
      BY <3>1, <3>2, <3>3
  <2>2. Renamed("NVARCHAR(MAX)") = "TEXT" /\ Renamed("NVARCHAR(n)") = "VARCHAR(n)"
    BY DEF Renamed, Now
  <2> QED
    BY <1>1, <2>1, <2>2 DEF Tokens
<1>5. CASE c.type \in {"TEXT", "JSON", "JSONB"}
  <2>1. SQLType(c) = "NVARCHAR(MAX)" /\ Type(c) = "TEXT" /\ Renamed("NVARCHAR(MAX)") = "TEXT"
    <3>1. SQLType(c) = "NVARCHAR(MAX)" /\ c.type \notin Times2
      BY <1>5 DEF SQLType, Times2, Flags
    <3>2. Type(c) = "TEXT"
      BY <3>1 DEF Type
    <3>3. Renamed("NVARCHAR(MAX)") = "TEXT"
      BY DEF Renamed, Now
    <3> QED
      BY <3>1, <3>2, <3>3
  <2> QED
    BY <1>1, <2>1 DEF Tokens
<1>6. CASE c.type \in Times2
  <2>1. /\ SQLType(c) = "DATETIME2" /\ Type(c) = "TIMESTAMP"
        /\ Renamed("DATETIME2") = "TIMESTAMP"
    BY <1>6 DEF SQLType, Type, Times2, Flags, Texts, Renamed, Now
  <2> QED
    BY <1>1, <2>1 DEF Tokens
<1>7. CASE c.type \in {"DECIMAL", "NUMERIC"}
  <2>1. SQLType(c) = "DECIMAL" /\ Type(c) = "DECIMAL" /\ Renamed("DECIMAL") = "DECIMAL"
    BY <1>7 DEF SQLType, Type, Times2, Flags, Texts, Renamed, Now
  <2> QED
    BY <1>1, <2>1 DEF Tokens
<1> QED
  BY <1>2, <1>3, <1>4, <1>5, <1>6, <1>7 DEF SQLType

\* A column that is neither an identity nor a flag.
LEMMA PlainConverted ==
    ASSUME NEW c, c.type \notin Flags, ~ IsIdentity(c), ~ Spoiled(c), SQLType(c) # "unsupported",
           c.primary \in BOOLEAN, c.notNull \in BOOLEAN, c.unique \in BOOLEAN
    PROVE  ConvertDDL(columnDDL(c)) = Wanted(c)
<1> DEFINE T == Tokens(c)
           has == c.default # ""
           d == <<"DEFAULT">> \o normalizeDefault(c)
           v == <<"DEFAULT">> \o Value(c)
           s0 == <<c.name, SQLType(c)>>
           s1 == s0 \o If(c.primary, <<"PRIMARY KEY">>)
           s2 == s1 \o If(c.notNull, <<"NOT NULL">>)
           s3 == s2 \o If(c.unique, <<"UNIQUE">>)
           w0 == <<c.name, Type(c)>>
           w1 == w0 \o If(c.primary, <<"PRIMARY KEY">>)
           w2 == w1 \o If(c.notNull, <<"NOT NULL">>)
           w3 == w2 \o If(c.unique, <<"UNIQUE">>)
<1>1. columnDDL(c) = s3 \o If(has, d)
  BY DEF columnDDL
<1>2. Wanted(c) = w3 \o If(has, v)
  <2> DEFINE type == CASE c.type \in Flags -> "BOOLEAN"
                       [] c.type \in Times2 -> "TIMESTAMP"
                       [] SQLType(c) = "NVARCHAR(MAX)" -> "TEXT"
                       [] c.type \in Texts /\ SQLType(c) # "NVARCHAR(MAX)" -> "VARCHAR(n)"
                       [] OTHER -> SQLType(c)
             value == CASE c.type \in Flags ->
                                <<IF c.default \in Trues THEN "TRUE" ELSE "FALSE">>
                        [] c.type \in Texts /\ c.default \notin Numerals \union Literals ->
                                <<"'", c.default, "'">>
                        [] c.type \notin Flags \union Texts /\ c.default \in Now ->
                                <<"CURRENT_TIMESTAMP">>
                        [] OTHER -> <<c.default>>
  <2>1. type = Type(c)
    BY DEF Type
  <2>2. value = Value(c)
    BY DEF Value
  <2>3. Wanted(c) = <<c.name, type>> \o If(c.primary, <<"PRIMARY KEY">>)
             \o If(c.notNull, <<"NOT NULL">>) \o If(c.unique, <<"UNIQUE">>)
             \o If(c.default # "" \/ c.type \in Flags, <<"DEFAULT">> \o value)
    BY Zenon DEF Wanted
  <2> HIDE DEF type, value
  <2>4. If(c.default # "" \/ c.type \in Flags, <<"DEFAULT">> \o value) = If(has, v)
    BY <2>2 DEF If
  <2> QED
    BY <2>1, <2>3, <2>4, Zenon
<1>3. /\ Constraints \subseteq T /\ (\A x \in T : Renamed(x) \in T)
      /\ {"INT", "IDENTITY", "PRIMARY KEY", "BIT", "NOT NULL", "DEFAULT", "0"} \subseteq T
      /\ "PRIMARY KEY" \in Constraints /\ "NOT NULL" \in Constraints /\ "UNIQUE" \in Constraints
      /\ c.name \in T
  BY TokensRenamed DEF Constraints, Tokens
<1>4. d \in Seq(T) /\ Clear(d) /\ Len(d) >= 1 /\ d[1] = "DEFAULT" /\ Names(d) = v
  BY DefaultConverted
<1> HIDE DEF T, has, d, v
<1>5. Open(T, s0) /\ Names(s0) = w0
  <2>1. /\ Renamed(SQLType(c)) = Type(c) /\ Renamed(c.name) = c.name
        /\ SQLType(c) \in T /\ SQLType(c) # "BIT"
        /\ ~ Starts(c.name, SQLType(c))
    BY TypeConverted DEF T, Starts
  <2>2. Names(s0) = w0
    <3>1. Names(s0) = <<Renamed(c.name), Renamed(SQLType(c))>>
      BY TwoNamed, Zenon
    <3> QED
      BY <2>1, <3>1, Zenon
  <2>3. s0 \in Seq(T) /\ Len(s0) = 2 /\ s0[2] = SQLType(c)
    BY <1>3, <2>1, Tuples, Zenon
  <2>4. Clear(s0)
    BY <1>3, <2>1, TuplesClear, Zenon
  <2> HIDE DEF s0
  <2>5. Len(s0) >= 1
    BY <2>3, AtLeastTwo, Zenon
  <2> QED
    BY <2>1, <2>2, <2>3, <2>4, <2>5, Zenon DEF Open
<1> HIDE DEF s0, w0
<1>6. Open(T, s1) /\ Names(s1) = w1
  BY <1>3, <1>5, OpenIf, ZenonT(40)
<1> HIDE DEF s1, w1
<1>7. Open(T, s2) /\ Names(s2) = w2
  BY <1>3, <1>6, OpenIf, ZenonT(40) DEF s2, w2
<1> HIDE DEF s2, w2
<1>8. Open(T, s3) /\ Names(s3) = w3
  BY <1>3, <1>7, OpenIf, ZenonT(40) DEF s3, w3
<1> HIDE DEF s3, w3
<1>9. ASSUME NEW t \in Seq(T), Clear(t) PROVE ConvertDDL(t) = Names(t)
  BY <1>3, <1>9, ClearConverted, Zenon
<1>10. CASE has
  <2>1. columnDDL(c) = s3 \o d /\ Wanted(c) = w3 \o v
    BY <1>1, <1>2, <1>10 DEF If
  <2>2. ~ Starts(s3[Len(s3)], d[1])
    BY <1>4 DEF Starts
  <2>3. s3 \o d \in Seq(T) /\ Clear(s3 \o d)
    BY <1>4, <1>8, <2>2, ClearConcat, Zenon DEF Open
  <2>4. Names(s3 \o d) = w3 \o v
    <3>1. Names(s3 \o d) = Names(s3) \o Names(d)
      BY <1>3, <1>4, <1>8, NamesConcat, Zenon DEF Open
    <3> QED
      BY <1>4, <1>8, <3>1, Zenon
  <2> QED
    BY <1>9, <2>1, <2>3, <2>4, Zenon
<1>11. CASE ~ has
  <2>1. columnDDL(c) = s3 \o <<>> /\ Wanted(c) = w3 \o <<>>
    BY <1>1, <1>2, <1>11, Zenon DEF If
  <2>2. s3 \in Seq(T) /\ Clear(s3) /\ w3 \in Seq(T)
    <3>1. s3 \in Seq(T) /\ Clear(s3)
      BY <1>8, Zenon DEF Open
    <3> QED
      BY <1>3, <1>8, <3>1, NamesType, Zenon
  <2>3. s3 \o <<>> = s3 /\ w3 \o <<>> = w3
    BY <2>2, ConcatEmptySeq, Zenon
  <2> QED
    BY <1>8, <1>9, <2>1, <2>2, <2>3, Zenon
<1> QED
  BY <1>10, <1>11

\* A rule whose second token stands behind no other leaves all as it is.
LEMMA SecondMissing ==
    ASSUME NEW T, NEW t \in Seq(T), NEW from \in Seq(T), Len(from) >= 2, NEW to,
           \A i \in 2 .. Len(t) : t[i] # from[2]
    PROVE  Rewrite(from, to, t) = t
<1>1. Len(from) \in Nat /\ Len(t) \in Nat
  BY LenProperties
<1>2. ASSUME NEW i \in 1 .. Len(t), Stands(from, t, i) PROVE FALSE
  <2>1. i + 2 - 1 = i + 1 /\ i + 1 \in 2 .. Len(t)
    BY <1>1, <1>2 DEF Stands
  <2>2. 2 \in 1 .. Len(from)
    BY <1>1
  <2>3. t[i + 2 - 1] = from[2]
    BY <1>2, <2>2 DEF Stands
  <2> QED
    BY <2>1, <2>3
<1>3. Len(from) >= 1
  BY <1>1
<1> QED
  BY <1>2, <1>3, RewriteNone

\* A rule takes the tokens behind the first one, where its second cannot be taken
\* for its first.
Second(T, from, to, t, r) ==
    /\ t \in Seq(T) /\ from \in Seq(T) /\ Len(from) >= 1 /\ to \in Seq(T) /\ Len(t) >= 2
    /\ Stands(from, t, 2) /\ ~ Stands(from, t, 1)
    /\ r \in Seq(T) /\ Len(r) = Len(t) - Len(from) + Len(to) /\ r[1] = t[1]
    /\ \A i \in 1 .. Len(to) : r[1 + i] = to[i]
    /\ \A i \in 1 .. Len(t) - (1 + Len(from)) : r[1 + Len(to) + i] = t[1 + Len(from) + i]

LEMMA RewriteSecond ==
    ASSUME NEW T, NEW from, NEW to, NEW t, NEW r, Second(T, from, to, t, r)
    PROVE  Rewrite(from, to, t) = r
<1> DEFINE k == 2
<1>1. /\ t \in Seq(T) /\ from \in Seq(T) /\ Len(from) >= 1 /\ to \in Seq(T) /\ Len(t) >= 2
      /\ Stands(from, t, k) /\ ~ Stands(from, t, 1)
      /\ r \in Seq(T) /\ Len(r) = Len(t) - Len(from) + Len(to) /\ r[1] = t[1]
      /\ \A i \in 1 .. Len(to) : r[1 + i] = to[i]
      /\ \A i \in 1 .. Len(t) - (1 + Len(from)) : r[1 + Len(to) + i] = t[1 + Len(from) + i]
  BY DEF Second
<1>2. /\ Len(t) \in Nat /\ Len(from) \in Nat /\ Len(to) \in Nat
      /\ k \in 1 .. Len(t) /\ k - 1 = 1 /\ k + Len(from) - 1 = 1 + Len(from)
  BY <1>1, LenProperties
<1> HIDE DEF k
<1>3. \A i \in 1 .. k - 1 : i = 1
  BY <1>2
<1>4. \A i \in 1 .. k - 1 : ~ Stands(from, t, i) /\ r[i] = t[i]
  BY <1>1, <1>3
<1>5. \A i \in 1 .. Len(to) : r[k - 1 + i] = to[i]
  BY <1>1, <1>2
<1>6. \A i \in 1 .. Len(t) - (k + Len(from) - 1) :
         r[k - 1 + Len(to) + i] = t[k + Len(from) - 1 + i]
  BY <1>1, <1>2
<1>7. Gives(T, from, to, t, k, r)
  BY <1>1, <1>2, <1>4, <1>5, <1>6 DEF Gives
<1> QED
  BY <1>7, RewriteGives

LEMMA ThreeRewritten ==
    ASSUME NEW n, NEW a, NEW b, NEW c, NEW x, NEW y, a # b
    PROVE  Rewrite(<<a, b, c>>, <<x, y>>, <<n, a, b, c>>) = <<n, x, y>>
<1> DEFINE T == {n, a, b, c, x, y}
           t == <<n, a, b, c>>
           from == <<a, b, c>>
           to == <<x, y>>
           r == <<n, x, y>>
<1>1. /\ t \in Seq(T) /\ from \in Seq(T) /\ to \in Seq(T) /\ r \in Seq(T)
      /\ Len(t) = 4 /\ Len(from) = 3 /\ Len(to) = 2 /\ Len(r) = 3
      /\ t[1] = n /\ t[2] = a /\ t[3] = b /\ t[4] = c
      /\ from[1] = a /\ from[2] = b /\ from[3] = c
      /\ to[1] = x /\ to[2] = y /\ r[1] = n /\ r[2] = x /\ r[3] = y
  OBVIOUS
<1> HIDE DEF T, t, from, to, r
<1>2. Stands(from, t, 2)
  <2>1. \A j \in 1 .. 3 : j = 1 \/ j = 2 \/ j = 3
    OBVIOUS
  <2> QED
    BY <1>1, <2>1 DEF Stands
<1>3. ~ Stands(from, t, 1)
  <2>1. 1 + 2 - 1 = 2
    OBVIOUS
  <2>2. 2 \in 1 .. 3
    OBVIOUS
  <2> QED
    BY <1>1, <2>1, <2>2 DEF Stands
<1>4. \A i \in 1 .. Len(to) : r[1 + i] = to[i]
  <2>1. \A i \in 1 .. 2 : (i = 1 /\ 1 + i = 2) \/ (i = 2 /\ 1 + i = 3)
    OBVIOUS
  <2> QED
    BY <1>1, <2>1
<1>5. /\ \A i \in 1 .. Len(t) - (1 + Len(from)) :
            r[1 + Len(to) + i] = t[1 + Len(from) + i]
      /\ r[1] = t[1]
      /\ Len(t) >= 2 /\ Len(from) >= 1 /\ Len(r) = Len(t) - Len(from) + Len(to)
  BY <1>1
<1>6. Second(T, from, to, t, r)
  BY <1>1, <1>2, <1>3, <1>4, <1>5 DEF Second
<1>7. Rewrite(from, to, t) = r
  BY <1>6, RewriteSecond
<1> QED
  BY <1>7 DEF t, from, to, r

LEMMA FourRewritten ==
    ASSUME NEW n, NEW a, NEW b, NEW c, NEW d, NEW x, NEW y, NEW z, NEW w, a # b
    PROVE  Rewrite(<<a, b, c, d>>, <<x, y, z, w>>, <<n, a, b, c, d>>) = <<n, x, y, z, w>>
<1> DEFINE T == {n, a, b, c, d, x, y, z, w}
           t == <<n, a, b, c, d>>
           from == <<a, b, c, d>>
           to == <<x, y, z, w>>
           r == <<n, x, y, z, w>>
<1>1. /\ t \in Seq(T) /\ from \in Seq(T) /\ to \in Seq(T) /\ r \in Seq(T)
      /\ Len(t) = 5 /\ Len(from) = 4 /\ Len(to) = 4 /\ Len(r) = 5
      /\ t[1] = n /\ t[2] = a /\ t[3] = b /\ t[4] = c /\ t[5] = d
      /\ from[1] = a /\ from[2] = b /\ from[3] = c /\ from[4] = d
      /\ to[1] = x /\ to[2] = y /\ to[3] = z /\ to[4] = w
      /\ r[1] = n /\ r[2] = x /\ r[3] = y /\ r[4] = z /\ r[5] = w
  OBVIOUS
<1> HIDE DEF T, t, from, to, r
<1>2. Stands(from, t, 2)
  <2>1. \A j \in 1 .. 4 : j = 1 \/ j = 2 \/ j = 3 \/ j = 4
    OBVIOUS
  <2> QED
    BY <1>1, <2>1 DEF Stands
<1>3. ~ Stands(from, t, 1)
  <2>1. 1 + 2 - 1 = 2
    OBVIOUS
  <2>2. 2 \in 1 .. 4
    OBVIOUS
  <2> QED
    BY <1>1, <2>1, <2>2 DEF Stands
<1>4. \A i \in 1 .. Len(to) : r[1 + i] = to[i]
  <2>1. \A i \in 1 .. 4 : \/ i = 1 /\ 1 + i = 2
                          \/ i = 2 /\ 1 + i = 3
                          \/ i = 3 /\ 1 + i = 4
                          \/ i = 4 /\ 1 + i = 5
    OBVIOUS
  <2> QED
    BY <1>1, <2>1
<1>5. /\ \A i \in 1 .. Len(t) - (1 + Len(from)) :
            r[1 + Len(to) + i] = t[1 + Len(from) + i]
      /\ r[1] = t[1]
      /\ Len(t) >= 2 /\ Len(from) >= 1 /\ Len(r) = Len(t) - Len(from) + Len(to)
  BY <1>1
<1>6. Second(T, from, to, t, r)
  BY <1>1, <1>2, <1>3, <1>4, <1>5 DEF Second
<1>7. Rewrite(from, to, t) = r
  BY <1>6, RewriteSecond
<1> QED
  BY <1>7 DEF t, from, to, r

LEMMA TwoRewritten ==
    ASSUME NEW n, NEW a, NEW b, NEW x, NEW y, NEW z, NEW w, NEW u, a # b
    PROVE  /\ Rewrite(<<a, b>>, <<x, y, z, w>>, <<n, a, b>>) = <<n, x, y, z, w>>
           /\ Rewrite(<<a, b>>, <<x, y, z, w>>, <<n, a, b, u>>) = <<n, x, y, z, w, u>>
<1> DEFINE T == {n, a, b, x, y, z, w, u}
           t == <<n, a, b>>
           t2 == <<n, a, b, u>>
           from == <<a, b>>
           to == <<x, y, z, w>>
           r == <<n, x, y, z, w>>
           r2 == <<n, x, y, z, w, u>>
<1>1. /\ t \in Seq(T) /\ t2 \in Seq(T) /\ from \in Seq(T) /\ to \in Seq(T)
      /\ r \in Seq(T) /\ r2 \in Seq(T)
      /\ Len(t) = 3 /\ Len(t2) = 4 /\ Len(from) = 2 /\ Len(to) = 4 /\ Len(r) = 5 /\ Len(r2) = 6
  OBVIOUS
<1>2. /\ t[1] = n /\ t[2] = a /\ t[3] = b
      /\ t2[1] = n /\ t2[2] = a /\ t2[3] = b /\ t2[4] = u
      /\ from[1] = a /\ from[2] = b
      /\ to[1] = x /\ to[2] = y /\ to[3] = z /\ to[4] = w
      /\ r[1] = n /\ r[2] = x /\ r[3] = y /\ r[4] = z /\ r[5] = w
      /\ r2[1] = n /\ r2[2] = x /\ r2[3] = y /\ r2[4] = z /\ r2[5] = w /\ r2[6] = u
  OBVIOUS
<1> HIDE DEF T, t, t2, from, to, r, r2
<1>3. Stands(from, t, 2) /\ Stands(from, t2, 2)
  <2>1. \A j \in 1 .. 2 : j = 1 \/ j = 2
    OBVIOUS
  <2> QED
    BY <1>1, <1>2, <2>1 DEF Stands
<1>4. ~ Stands(from, t, 1) /\ ~ Stands(from, t2, 1)
  <2>1. 1 + 2 - 1 = 2
    OBVIOUS
  <2>2. 2 \in 1 .. 2
    OBVIOUS
  <2> QED
    BY <1>1, <1>2, <2>1, <2>2 DEF Stands
<1>5. \A i \in 1 .. Len(to) : r[1 + i] = to[i] /\ r2[1 + i] = to[i]
  <2>1. \A i \in 1 .. 4 : \/ i = 1 /\ 1 + i = 2
                          \/ i = 2 /\ 1 + i = 3
                          \/ i = 3 /\ 1 + i = 4
                          \/ i = 4 /\ 1 + i = 5
    OBVIOUS
  <2> QED
    BY <1>1, <1>2, <2>1
<1>6. /\ \A i \in 1 .. Len(t) - (1 + Len(from)) :
            r[1 + Len(to) + i] = t[1 + Len(from) + i]
      /\ r[1] = t[1]
      /\ Len(t) >= 2 /\ Len(from) >= 1 /\ Len(r) = Len(t) - Len(from) + Len(to)
  BY <1>1, <1>2
<1>7. /\ \A i \in 1 .. Len(t2) - (1 + Len(from)) :
            r2[1 + Len(to) + i] = t2[1 + Len(from) + i]
      /\ r2[1] = t2[1]
      /\ Len(t2) >= 2 /\ Len(r2) = Len(t2) - Len(from) + Len(to)
  BY <1>1, <1>2
<1>8. Second(T, from, to, t, r)
  BY <1>1, <1>3, <1>4, <1>5, <1>6 DEF Second
<1>9. Second(T, from, to, t2, r2)
  BY <1>1, <1>3, <1>4, <1>5, <1>6, <1>7 DEF Second
<1>10. Rewrite(from, to, t) = r /\ Rewrite(from, to, t2) = r2
  BY <1>8, <1>9, RewriteSecond
<1> QED
  BY <1>10 DEF t, t2, from, to, r, r2

\* A rule of four tokens finds no room behind the first.
LEMMA NoRoom ==
    ASSUME NEW n, NEW a, NEW b, NEW c, NEW d, NEW to, NEW u, a # b
    PROVE  /\ Rewrite(<<a, b, c, d>>, to, <<n, a, b>>) = <<n, a, b>>
           /\ Rewrite(<<a, b, c, d>>, to, <<n, a, b, u>>) = <<n, a, b, u>>
<1> DEFINE T == {n, a, b, c, d, u}
           t == <<n, a, b>>
           t2 == <<n, a, b, u>>
           from == <<a, b, c, d>>
<1>1. /\ t \in Seq(T) /\ t2 \in Seq(T) /\ from \in Seq(T)
      /\ Len(t) = 3 /\ Len(t2) = 4 /\ Len(from) = 4 /\ t2[2] = a /\ from[2] = b
  OBVIOUS
<1> HIDE DEF T, t, t2, from
<1>2. \A i \in 1 .. Len(t) : ~ Stands(from, t, i)
  BY <1>1 DEF Stands
<1>3. ASSUME NEW i \in 1 .. Len(t2), Stands(from, t2, i) PROVE FALSE
  <2>1. i = 1 /\ i + 2 - 1 = 2 /\ 2 \in 1 .. Len(from)
    BY <1>1, <1>3 DEF Stands
  <2>2. t2[i + 2 - 1] = from[2]
    BY <1>3, <2>1 DEF Stands
  <2> QED
    BY <1>1, <2>1, <2>2
<1>4. Len(from) >= 1
  BY <1>1
<1>5. Rewrite(from, to, t) = t /\ Rewrite(from, to, t2) = t2
  BY <1>1, <1>2, <1>3, <1>4, RewriteNone
<1> QED
  BY <1>5 DEF t, t2, from

\* An identity column.
LEMMA IdentityConverted ==
    ASSUME NEW c, IsIdentity(c), Renamed(c.name) = c.name
    PROVE  ConvertDDL(columnDDL(c)) = Wanted(c)
<1> DEFINE n == c.name
           T == Tokens(c)
           t == <<n, "INT", "IDENTITY", "PRIMARY KEY">>
           u == <<n, "SERIAL", "PRIMARY KEY">>
<1>1. columnDDL(c) = t /\ Wanted(c) = u
  BY DEF columnDDL, Wanted
<1>2. Rewrite(Serial, <<"SERIAL", "PRIMARY KEY">>, t) = u
  <2> DEFINE a == "INT"
             b == "IDENTITY"
             k == "PRIMARY KEY"
             x == "SERIAL"
             m == n
  <2>1. a # b
    OBVIOUS
  <2> HIDE DEF a, b, k, x, m
  <2>2. Rewrite(<<a, b, k>>, <<x, k>>, <<m, a, b, k>>) = <<m, x, k>>
    BY <2>1, ThreeRewritten
  <2> QED
    BY <2>2 DEF Serial, a, b, k, x, m
<1>3. Names(u) = u
  <2>1. Names(u) = <<Renamed(n), Renamed("SERIAL"), Renamed("PRIMARY KEY")>>
    BY ThreeNamed, Zenon
  <2>2. Renamed(n) = n /\ Renamed("SERIAL") = "SERIAL" /\ Renamed("PRIMARY KEY") = "PRIMARY KEY"
    BY DEF Renamed, Now
  <2> QED
    BY <2>1, <2>2, Zenon
<1>4. /\ {"INT", "IDENTITY", "PRIMARY KEY", "BIT", "NOT NULL", "DEFAULT", "0"} \subseteq T
      /\ n \in T /\ "SERIAL" \in T /\ "PRIMARY KEY" \in T
  BY DEF Tokens
<1> HIDE DEF T
<1>5. u \in Seq(T) /\ Clear(u)
  <2>1. ~ Starts(n, "SERIAL") /\ ~ Starts("SERIAL", "PRIMARY KEY")
    BY DEF Starts
  <2> QED
    BY <1>4, <2>1, Tuples, TuplesClear, Zenon
<1> HIDE DEF n, t, u
<1>6. Rewrite(Flag0, NewFlag, u) = u /\ Rewrite(Flag, NewFlag, u) = u
  <2>1. /\ Flag \in Seq(T) /\ Flag0 \in Seq(T) /\ Len(Flag) = 2 /\ Len(Flag0) = 4
        /\ Starts(Flag[1], Flag[2]) /\ Starts(Flag0[1], Flag0[2])
    BY <1>4, Rules
  <2>2. Len(Flag) >= 2 /\ Len(Flag0) >= 2
    BY <2>1, AtLeastTwo, Zenon
  <2> QED
    BY <1>5, <2>1, <2>2, ClearStays, Zenon
<1>7. ConvertDDL(t) = Rewrite(Flag, NewFlag, u)
  BY <1>2, <1>3, <1>6, Steps, ZenonT(40)
<1> QED
  BY <1>1, <1>6, <1>7, Zenon

\* The bag of a sequence does not know the places of its elements.
Moves(g, s, t) ==
    /\ g \in [DOMAIN s -> DOMAIN t]
    /\ \A i, j \in DOMAIN s : g[i] = g[j] => i = j
    /\ \A j \in DOMAIN t : \E i \in DOMAIN s : g[i] = j
    /\ \A i \in DOMAIN s : s[i] = t[g[i]]

LEMMA BagOfPlaces ==
    ASSUME NEW T, NEW s \in Seq(T), NEW t, NEW g, Moves(g, s, t)
    PROVE  ToBag(s) = ToBag(t)
<1>0. /\ g \in [DOMAIN s -> DOMAIN t]
      /\ \A i, j \in DOMAIN s : g[i] = g[j] => i = j
      /\ \A j \in DOMAIN t : \E i \in DOMAIN s : g[i] = j
      /\ \A i \in DOMAIN s : s[i] = t[g[i]]
  BY DEF Moves
<1> USE <1>0
<1> DEFINE At(r, x) == {i \in DOMAIN r : r[i] = x}
<1>1. Range(s) = Range(t)
  BY DEF Range
<1>2. ASSUME NEW x PROVE Cardinality(At(s, x)) = Cardinality(At(t, x))
  <2> DEFINE f == [i \in At(s, x) |-> g[i]]
             I == At(s, x)
             J == At(t, x)
  <2>1. IsFiniteSet(I)
    <3>1. DOMAIN s = 1 .. Len(s) /\ Len(s) \in Nat
      BY LenProperties
    <3>2. IsFiniteSet(1 .. Len(s))
      BY <3>1, FS_Interval
    <3> QED
      BY <3>1, <3>2, FS_Subset
  <2>2. f \in [I -> J]
    OBVIOUS
  <2>3. \A a, b \in I : f[a] = f[b] => a = b
    OBVIOUS
  <2>4. \A b \in J : \E a \in I : f[a] = b
    OBVIOUS
  <2> HIDE DEF f, I, J
  <2>5. f \in Bijection(I, J)
    BY <2>2, <2>3, <2>4, Fun_IsBij
  <2>6. ExistsBijection(I, J)
    BY <2>5, Fun_ExistsBij
  <2>7. Cardinality(J) = Cardinality(I)
    BY <2>1, <2>6, FS_Bijection
  <2> QED
    BY <2>7 DEF I, J
<1> DEFINE F(x) == Cardinality(At(s, x))
           G(x) == Cardinality(At(t, x))
<1>3. ToBag(s) = [x \in Range(s) |-> F(x)] /\ ToBag(t) = [x \in Range(t) |-> G(x)]
  BY DEF ToBag
<1>4. \A x : F(x) = G(x)
  BY <1>2
<1> HIDE DEF F, G
<1> QED
  BY <1>1, <1>3, <1>4

\* One moved before two.
LEMMA BagOfMoved ==
    ASSUME NEW a, NEW b, NEW c, NEW d, NEW e, NEW u
    PROVE  ToBag(<<a, b, c, d, e, u>>) = ToBag(<<a, b, c, u, d, e>>)
<1> DEFINE s == <<a, b, c, d, e, u>>
           t == <<a, b, c, u, d, e>>
           T == {a, b, c, d, e, u}
           g == [i \in 1 .. 6 |-> IF i <= 3 THEN i ELSE IF i = 6 THEN 4 ELSE i + 1]
<1>1. /\ s \in Seq(T) /\ t \in Seq(T) /\ DOMAIN s = 1 .. 6 /\ DOMAIN t = 1 .. 6
      /\ s[1] = a /\ s[2] = b /\ s[3] = c /\ s[4] = d /\ s[5] = e /\ s[6] = u
      /\ t[1] = a /\ t[2] = b /\ t[3] = c /\ t[4] = u /\ t[5] = d /\ t[6] = e
  OBVIOUS
<1>2. /\ g \in [1 .. 6 -> 1 .. 6]
      /\ g[1] = 1 /\ g[2] = 2 /\ g[3] = 3 /\ g[4] = 5 /\ g[5] = 6 /\ g[6] = 4
  OBVIOUS
<1>3. \A i \in 1 .. 6 : i = 1 \/ i = 2 \/ i = 3 \/ i = 4 \/ i = 5 \/ i = 6
  OBVIOUS
<1> HIDE DEF s, t, T, g
<1>4. \A i, j \in 1 .. 6 : g[i] = g[j] => i = j
  BY <1>2, <1>3
<1>5. \A j \in 1 .. 6 : \E i \in 1 .. 6 : g[i] = j
  <2>1. 1 \in 1 .. 6 /\ 2 \in 1 .. 6 /\ 3 \in 1 .. 6 /\ 4 \in 1 .. 6 /\ 5 \in 1 .. 6 /\ 6 \in 1 .. 6
    OBVIOUS
  <2> QED
    BY <1>2, <1>3, <2>1
<1>6. \A i \in 1 .. 6 : s[i] = t[g[i]]
  BY <1>1, <1>2, <1>3
<1>7. ToBag(s) = ToBag(t)
  <2>1. DOMAIN s = 1 .. 6 /\ DOMAIN t = 1 .. 6 /\ s \in Seq(T)
    BY <1>1
  <2>2. Moves(g, s, t)
    BY <1>2, <1>4, <1>5, <1>6, <2>1, Zenon DEF Moves
  <2> QED
    BY <2>1, <2>2, BagOfPlaces
<1> QED
  BY <1>7 DEF s, t

\* The column of a flag that is not spoiled has one of three forms.
LEMMA FlagTokens ==
    ASSUME NEW n, Renamed(n) = n
    PROVE  /\ ConvertDDL(<<n, "BIT", "NOT NULL">>) = <<n, "BOOLEAN", "NOT NULL", "DEFAULT", "FALSE">>
           /\ ConvertDDL(<<n, "BIT", "NOT NULL", "UNIQUE">>)
                = <<n, "BOOLEAN", "NOT NULL", "DEFAULT", "FALSE", "UNIQUE">>
           /\ ConvertDDL(<<n, "BIT", "NOT NULL", "DEFAULT", "0">>)
                = <<n, "BOOLEAN", "NOT NULL", "DEFAULT", "FALSE">>
<1> DEFINE bit == "BIT"
           nn == "NOT NULL"
           df == "DEFAULT"
           zero == "0"
           un == "UNIQUE"
           bo == "BOOLEAN"
           no == "FALSE"
           id == "IDENTITY"
           T == {n, bit, nn, df, zero, un, bo, no, "INT", "IDENTITY", "PRIMARY KEY"}
           a == <<n, bit, nn>>
           b == <<n, bit, nn, un>>
           e == <<n, bit, nn, df, zero>>
           f == <<n, bo, nn, df, no>>
<1>1. /\ bit # nn /\ bit # id /\ nn # id /\ un # id /\ df # id /\ zero # id
      /\ ~ Starts(n, bo) /\ ~ Starts(bo, nn) /\ ~ Starts(nn, df) /\ ~ Starts(df, no)
  BY DEF Starts
<1>2. /\ Renamed(bit) = bit /\ Renamed(nn) = nn /\ Renamed(df) = df /\ Renamed(zero) = zero
      /\ Renamed(un) = un
  BY DEF Renamed, Now
<1>3. /\ Flag = <<bit, nn>> /\ Flag0 = <<bit, nn, df, zero>> /\ NewFlag = <<bo, nn, df, no>>
  BY DEF Flag, Flag0, NewFlag
<1>4. /\ Serial \in Seq(T) /\ Flag \in Seq(T) /\ Len(Serial) = 3 /\ Len(Flag) = 2
      /\ Serial[2] = id /\ Starts(Flag[1], Flag[2])
  BY Rules
<1>5. Len(Serial) >= 2 /\ Len(Flag) >= 2
  BY <1>4, AtLeastTwo, Zenon
<1>6. n \in T /\ bit \in T /\ nn \in T /\ df \in T /\ zero \in T /\ un \in T /\ bo \in T /\ no \in T
  OBVIOUS
<1> HIDE DEF bit, nn, df, zero, un, bo, no, id, T
<1>7. Names(a) = a /\ Names(b) = b /\ Names(e) = e
  BY <1>2 DEF Names
<1>8. /\ a \in Seq(T) /\ b \in Seq(T) /\ e \in Seq(T) /\ f \in Seq(T)
      /\ Len(a) = 3 /\ Len(b) = 4 /\ Len(e) = 5 /\ Len(f) = 5
      /\ a[2] = bit /\ a[3] = nn /\ b[2] = bit /\ b[3] = nn /\ b[4] = un
      /\ e[2] = bit /\ e[3] = nn /\ e[4] = df /\ e[5] = zero
      /\ f[1] = n /\ f[2] = bo /\ f[3] = nn /\ f[4] = df /\ f[5] = no
  BY <1>6
<1>9. /\ Rewrite(Flag0, NewFlag, a) = a /\ Rewrite(Flag0, NewFlag, b) = b
  BY <1>1, <1>3, NoRoom
<1>10. /\ Rewrite(Flag, NewFlag, a) = f
       /\ Rewrite(Flag, NewFlag, b) = <<n, bo, nn, df, no, un>>
  BY <1>1, <1>3, TwoRewritten
<1>11. Rewrite(Flag0, NewFlag, e) = f
  BY <1>1, <1>3, FourRewritten
<1> HIDE DEF a, b, e, f
<1>12. /\ \A i \in 2 .. Len(a) : a[i] # Serial[2]
       /\ \A i \in 2 .. Len(b) : b[i] # Serial[2]
       /\ \A i \in 2 .. Len(e) : e[i] # Serial[2]
  <2>1. /\ \A i \in 2 .. 3 : i = 2 \/ i = 3
        /\ \A i \in 2 .. 4 : i = 2 \/ i = 3 \/ i = 4
        /\ \A i \in 2 .. 5 : i = 2 \/ i = 3 \/ i = 4 \/ i = 5
    OBVIOUS
  <2> QED
    BY <1>1, <1>4, <1>8, <2>1
<1>13. ASSUME NEW to
       PROVE  Rewrite(Serial, to, a) = a /\ Rewrite(Serial, to, b) = b /\ Rewrite(Serial, to, e) = e
  BY <1>4, <1>5, <1>8, <1>12, SecondMissing, Zenon
<1>14. Rewrite(Flag, NewFlag, f) = f
  <2>1. Clear(f)
    <3>1. \A i \in 1 .. 4 : \/ i = 1 /\ i + 1 = 2
                            \/ i = 2 /\ i + 1 = 3
                            \/ i = 3 /\ i + 1 = 4
                            \/ i = 4 /\ i + 1 = 5
      OBVIOUS
    <3> QED
      BY <1>1, <1>8, <3>1 DEF Clear
  <2> QED
    BY <1>4, <1>5, <1>8, <2>1, ClearStays, Zenon
<1>15. ConvertDDL(a) = f /\ ConvertDDL(b) = <<n, bo, nn, df, no, un>> /\ ConvertDDL(e) = f
  <2> DEFINE se == <<"SERIAL", "PRIMARY KEY">>
  <2>1. ASSUME NEW t, NEW u, NEW v, Rewrite(Serial, se, t) = u,
               Rewrite(Flag0, NewFlag, Names(u)) = v
        PROVE  ConvertDDL(t) = Rewrite(Flag, NewFlag, v)
    BY <2>1, Steps
  <2>2. Rewrite(Serial, se, a) = a /\ Rewrite(Serial, se, b) = b /\ Rewrite(Serial, se, e) = e
    BY <1>13
  <2> HIDE DEF se
  <2>3. /\ Rewrite(Flag0, NewFlag, Names(a)) = a /\ Rewrite(Flag0, NewFlag, Names(b)) = b
        /\ Rewrite(Flag0, NewFlag, Names(e)) = f
    BY <1>7, <1>9, <1>11
  <2>4. /\ ConvertDDL(a) = Rewrite(Flag, NewFlag, a) /\ ConvertDDL(b) = Rewrite(Flag, NewFlag, b)
        /\ ConvertDDL(e) = Rewrite(Flag, NewFlag, f)
    BY <2>1, <2>2, <2>3
  <2> QED
    BY <1>10, <1>14, <2>4
<1> QED
  BY <1>15 DEF a, b, e, f, bit, nn, df, zero, un, bo, no

LEMMA NothingJoined ==
    ASSUME NEW a, NEW b, NEW c, NEW d
    PROVE  <<a, b>> \o <<>> = <<a, b>> /\ <<a, b, c>> \o <<>> = <<a, b, c>>
           /\ <<a, b, c, d>> \o <<>> = <<a, b, c, d>>
<1>1. <<a, b>> \in Seq({a, b, c, d}) /\ <<a, b, c>> \in Seq({a, b, c, d})
      /\ <<a, b, c, d>> \in Seq({a, b, c, d})
  OBVIOUS
<1> QED
  BY <1>1, ConcatEmptySeq

LEMMA ThreeAndTwo ==
    ASSUME NEW a, NEW b, NEW c, NEW d, NEW e
    PROVE  <<a, b, c>> \o <<d, e>> = <<a, b, c, d, e>>
<1>1. Joint(<<a, b, c, d, e>>, <<a, b, c>>, <<d, e>>)
  BY DEF Joint
<1>2. /\ <<a, b, c>> \in Seq({a, b, c, d, e}) /\ <<d, e>> \in Seq({a, b, c, d, e})
      /\ <<a, b, c, d, e>> \in Seq({a, b, c, d, e})
  OBVIOUS
<1> QED
  BY <1>1, <1>2, JointIs

LEMMA FourAndTwo ==
    ASSUME NEW a, NEW b, NEW c, NEW d, NEW e, NEW u
    PROVE  <<a, b, c, d>> \o <<e, u>> = <<a, b, c, d, e, u>>
<1>1. Joint(<<a, b, c, d, e, u>>, <<a, b, c, d>>, <<e, u>>)
  BY DEF Joint
<1>2. /\ <<a, b, c, d>> \in Seq({a, b, c, d, e, u}) /\ <<e, u>> \in Seq({a, b, c, d, e, u})
      /\ <<a, b, c, d, e, u>> \in Seq({a, b, c, d, e, u})
  OBVIOUS
<1> QED
  BY <1>1, <1>2, JointIs

\* The parts of a column of a flag, put together.
LEMMA PartsJoined ==
    ASSUME NEW n, NEW b, NEW nn, NEW un, NEW df, NEW v
    PROVE  /\ <<n, b>> \o <<>> \o <<nn>> \o <<>> \o <<>> = <<n, b, nn>>
           /\ <<n, b>> \o <<>> \o <<nn>> \o <<un>> \o <<>> = <<n, b, nn, un>>
           /\ <<n, b>> \o <<>> \o <<nn>> \o <<>> \o (<<df>> \o <<v>>) = <<n, b, nn, df, v>>
           /\ <<n, b>> \o <<>> \o <<nn>> \o <<un>> \o (<<df>> \o <<v>>) = <<n, b, nn, un, df, v>>
<1>1. <<n, b>> \o <<>> = <<n, b>> /\ <<n, b, nn>> \o <<>> = <<n, b, nn>>
  BY NothingJoined
<1>2. <<n, b, nn, un>> \o <<>> = <<n, b, nn, un>>
  BY NothingJoined
<1>3. <<n, b>> \o <<nn>> = <<n, b, nn>>
  BY TwoAndOne
<1>4. <<n, b, nn>> \o <<un>> = <<n, b, nn, un>> /\ <<df>> \o <<v>> = <<df, v>>
  BY ThreeAndOne, OneAndOne
<1>5. <<n, b, nn>> \o <<df, v>> = <<n, b, nn, df, v>>
  BY ThreeAndTwo
<1>6. <<n, b, nn, un>> \o <<df, v>> = <<n, b, nn, un, df, v>>
  BY FourAndTwo
<1> QED
  BY <1>1, <1>2, <1>3, <1>4, <1>5, <1>6, Zenon

\* A flag.
LEMMA FlagConverted ==
    ASSUME NEW c, c.type \in Flags, ~ Spoiled(c), c.unique \in BOOLEAN
    PROVE  /\ ToBag(ConvertDDL(columnDDL(c))) = ToBag(Wanted(c))
           /\ ConvertDDL(columnDDL(c)) \in
                {<<c.name, "BOOLEAN", "NOT NULL", "DEFAULT", "FALSE">>,
                 <<c.name, "BOOLEAN", "NOT NULL", "DEFAULT", "FALSE", "UNIQUE">>}
<1> DEFINE n == c.name
<1>1. /\ c.notNull /\ ~ c.primary /\ c.default \notin Trues
      /\ c.unique => c.default = ""
      /\ Renamed(n) = n
  BY NoMatch DEF Spoiled
<1>2. ~ IsIdentity(c) /\ SQLType(c) = "BIT"
  <2>1. c.type \notin {"INT", "INTEGER", "BIGINT", "FLOAT", "VARCHAR", "NVARCHAR", "TEXT", "JSON",
                       "JSONB", "SERIAL", "DECIMAL", "NUMERIC"} \union Times2
    BY DEF Flags, Times2
  <2>2. SQLType(c) = "BIT"
    BY <2>1 DEF SQLType
  <2> QED
    BY <2>1, <2>2 DEF IsIdentity
<1>3. normalizeDefault(c) = <<"0">>
  BY <1>1 DEF normalizeDefault, Flags, Texts
<1> DEFINE type == CASE c.type \in Flags -> "BOOLEAN"
                     [] c.type \in Times2 -> "TIMESTAMP"
                     [] SQLType(c) = "NVARCHAR(MAX)" -> "TEXT"
                     [] c.type \in Texts /\ SQLType(c) # "NVARCHAR(MAX)" -> "VARCHAR(n)"
                     [] OTHER -> SQLType(c)
           value == CASE c.type \in Flags ->
                            <<IF c.default \in Trues THEN "TRUE" ELSE "FALSE">>
                      [] c.type \in Texts /\ c.default \notin Numerals \union Literals ->
                            <<"'", c.default, "'">>
                      [] c.type \notin Flags \union Texts /\ c.default \in Now ->
                            <<"CURRENT_TIMESTAMP">>
                      [] OTHER -> <<c.default>>
<1>4. type = "BOOLEAN"
  BY <1>2 DEF Flags, Times2, Texts
<1>5. value = <<"FALSE">>
  BY <1>1 DEF Flags, Texts
<1>6. Wanted(c) = <<n, type>> \o If(c.primary, <<"PRIMARY KEY">>)
           \o If(c.notNull, <<"NOT NULL">>) \o If(c.unique, <<"UNIQUE">>)
           \o If(c.default # "" \/ c.type \in Flags, <<"DEFAULT">> \o value)
  BY <1>2, Zenon DEF Wanted
<1> HIDE DEF type, value
<1>7. If(c.primary, <<"PRIMARY KEY">>) = <<>> /\ If(c.notNull, <<"NOT NULL">>) = <<"NOT NULL">>
  BY <1>1 DEF If
<1>8. If(c.default # "" \/ c.type \in Flags, <<"DEFAULT">> \o value) = <<"DEFAULT">> \o <<"FALSE">>
  BY <1>5 DEF If
<1>9. Wanted(c) = <<n, "BOOLEAN">> \o <<>> \o <<"NOT NULL">> \o If(c.unique, <<"UNIQUE">>)
                    \o (<<"DEFAULT">> \o <<"FALSE">>)
  BY <1>4, <1>6, <1>7, <1>8, Zenon
<1>10. columnDDL(c) = <<n, "BIT">> \o <<>> \o <<"NOT NULL">> \o If(c.unique, <<"UNIQUE">>)
                        \o If(c.default # "", <<"DEFAULT">> \o <<"0">>)
  BY <1>2, <1>3, <1>7, Zenon DEF columnDDL
<1> HIDE DEF n
<1> DEFINE bit == "BIT"
           nn == "NOT NULL"
           df == "DEFAULT"
           zero == "0"
           un == "UNIQUE"
           bo == "BOOLEAN"
           no == "FALSE"
           a == <<n, bit, nn>>
           b == <<n, bit, nn, un>>
           e == <<n, bit, nn, df, zero>>
           f == <<n, bo, nn, df, no>>
<1>11. /\ ConvertDDL(a) = f /\ ConvertDDL(b) = <<n, bo, nn, df, no, un>> /\ ConvertDDL(e) = f
  BY <1>1, FlagTokens DEF n
<1>12. /\ Wanted(c) = <<n, bo>> \o <<>> \o <<nn>> \o If(c.unique, <<un>>) \o (<<df>> \o <<no>>)
       /\ columnDDL(c) = <<n, bit>> \o <<>> \o <<nn>> \o If(c.unique, <<un>>)
                           \o If(c.default # "", <<df>> \o <<zero>>)
  BY <1>9, <1>10
<1> HIDE DEF bit, nn, df, zero, un, bo, no
<1> SUFFICES /\ ToBag(ConvertDDL(columnDDL(c))) = ToBag(Wanted(c))
             /\ ConvertDDL(columnDDL(c)) \in {f, <<n, bo, nn, df, no, un>>}
  BY DEF n, bo, nn, df, no, un
<1>13. /\ <<n, bit>> \o <<>> \o <<nn>> \o <<>> \o <<>> = a
       /\ <<n, bit>> \o <<>> \o <<nn>> \o <<un>> \o <<>> = b
       /\ <<n, bit>> \o <<>> \o <<nn>> \o <<>> \o (<<df>> \o <<zero>>) = e
       /\ <<n, bo>> \o <<>> \o <<nn>> \o <<>> \o (<<df>> \o <<no>>) = f
       /\ <<n, bo>> \o <<>> \o <<nn>> \o <<un>> \o (<<df>> \o <<no>>) = <<n, bo, nn, un, df, no>>
  <2>1. <<n, bit>> \o <<>> \o <<nn>> \o <<>> \o <<>> = a
    BY PartsJoined
  <2>2. <<n, bit>> \o <<>> \o <<nn>> \o <<un>> \o <<>> = b
    BY PartsJoined
  <2>3. <<n, bit>> \o <<>> \o <<nn>> \o <<>> \o (<<df>> \o <<zero>>) = e
    BY PartsJoined
  <2>4. <<n, bo>> \o <<>> \o <<nn>> \o <<>> \o (<<df>> \o <<no>>) = f
    BY PartsJoined
  <2>5. <<n, bo>> \o <<>> \o <<nn>> \o <<un>> \o (<<df>> \o <<no>>) = <<n, bo, nn, un, df, no>>
    BY PartsJoined
  <2> QED
    BY <2>1, <2>2, <2>3, <2>4, <2>5, Zenon
<1>14. ToBag(<<n, bo, nn, df, no, un>>) = ToBag(<<n, bo, nn, un, df, no>>)
  BY BagOfMoved
<1> HIDE DEF a, b, e, f
<1>15. CASE c.unique
  <2>1. If(c.unique, <<un>>) = <<un>> /\ If(c.default # "", <<df>> \o <<zero>>) = <<>>
    BY <1>1, <1>15 DEF If
  <2>2. columnDDL(c) = b /\ Wanted(c) = <<n, bo, nn, un, df, no>>
    BY <1>12, <1>13, <2>1, Zenon
  <2> QED
    BY <1>11, <1>14, <2>2, Zenon
<1>16. CASE ~ c.unique
  <2>1. If(c.unique, <<un>>) = <<>>
    BY <1>16 DEF If
  <2>2. Wanted(c) = f
    BY <1>12, <1>13, <2>1, Zenon
  <2>3. CASE c.default = ""
    <3>1. If(c.default # "", <<df>> \o <<zero>>) = <<>>
      BY <2>3 DEF If
    <3> QED
      BY <1>11, <1>12, <1>13, <2>1, <2>2, <3>1, Zenon
  <2>4. CASE c.default # ""
    <3>1. If(c.default # "", <<df>> \o <<zero>>) = <<df>> \o <<zero>>
      BY <2>4 DEF If
    <3> QED
      BY <1>11, <1>12, <1>13, <2>1, <2>2, <3>1, Zenon
  <2> QED
    BY <2>3, <2>4
<1> QED
  BY <1>15, <1>16

\* The marks of a column.
Marked(c) == c.primary \in BOOLEAN /\ c.notNull \in BOOLEAN /\ c.unique \in BOOLEAN

\* The tokens the connection sends on as they are.
Sendable(c) == Tokens(c) \ (Now \union {"N'"})

LEMMA SentAsIs ==
    ASSUME NEW c, NEW t \in Seq(Sendable(c))
    PROVE  Render(t) = t
<1> DEFINE r == Render(t)
<1>1. /\ DOMAIN r = DOMAIN t
      /\ \A i \in DOMAIN t : r[i] = IF t[i] \in Now THEN "CURRENT_TIMESTAMP"
                                  ELSE IF t[i] = "N'" THEN "'" ELSE t[i]
  BY DEF Render
<1>2. DOMAIN t = 1 .. Len(t) /\ Len(t) \in Nat /\ \A i \in 1 .. Len(t) : t[i] \in Sendable(c)
  BY LenProperties, ElementOfSeq
<1>3. \A i \in DOMAIN t : r[i] = t[i]
  BY <1>1, <1>2 DEF Sendable
<1>4. r = [i \in DOMAIN t |-> r[i]] /\ t = [i \in DOMAIN t |-> t[i]]
  BY <1>2, LenProperties DEF Render
<1> QED
  BY <1>3, <1>4

LEMMA SendableIf ==
    ASSUME NEW T, NEW t \in Seq(T), NEW b \in BOOLEAN, NEW e \in Seq(T)
    PROVE  t \o If(b, e) \in Seq(T)
<1>1. If(b, e) \in Seq(T)
  BY DEF If
<1> QED
  BY <1>1, ConcatOf

\* What rows ask for that are not spoiled.
LEMMA WantedSendable ==
    ASSUME NEW c, ~ Spoiled(c), IsIdentity(c) \/ SQLType(c) # "unsupported", c.type \notin Flags,
           c.primary \in BOOLEAN, c.notNull \in BOOLEAN, c.unique \in BOOLEAN
    PROVE  Wanted(c) \in Seq(Sendable(c))
<1> DEFINE S == Sendable(c)
           type == CASE c.type \in Flags -> "BOOLEAN"
                     [] c.type \in Times2 -> "TIMESTAMP"
                     [] SQLType(c) = "NVARCHAR(MAX)" -> "TEXT"
                     [] c.type \in Texts /\ SQLType(c) # "NVARCHAR(MAX)" -> "VARCHAR(n)"
                     [] OTHER -> SQLType(c)
           value == CASE c.type \in Flags ->
                            <<IF c.default \in Trues THEN "TRUE" ELSE "FALSE">>
                      [] c.type \in Texts /\ c.default \notin Numerals \union Literals ->
                            <<"'", c.default, "'">>
                      [] c.type \notin Flags \union Texts /\ c.default \in Now ->
                            <<"CURRENT_TIMESTAMP">>
                      [] OTHER -> <<c.default>>
<1>1. /\ "PRIMARY KEY" \in S /\ "NOT NULL" \in S /\ "UNIQUE" \in S /\ "DEFAULT" \in S
      /\ "'" \in S /\ "CURRENT_TIMESTAMP" \in S /\ "SERIAL" \in S
      /\ "TIMESTAMP" \in S /\ "TEXT" \in S /\ "VARCHAR(n)" \in S
      /\ c.name \in S
      /\ c.default \in Now \/ c.default \in S
  BY NoMatch DEF Sendable, Tokens, Now
<1> HIDE DEF S
<1>2. CASE IsIdentity(c)
  <2>1. Wanted(c) = <<c.name, "SERIAL", "PRIMARY KEY">>
    BY <1>2 DEF Wanted
  <2>2. <<c.name, "SERIAL", "PRIMARY KEY">> \in Seq(S)
    BY <1>1, Tuples, Zenon
  <2> QED
    BY <2>1, <2>2 DEF S
<1>3. CASE ~ IsIdentity(c)
  <2>1. type \in S
    <3>1. SQLType(c) \in Tokens(c)
      BY <1>3, TypeConverted
    <3>2. SQLType(c) \notin Now \union {"N'"}
      BY <1>3 DEF SQLType, Now, Flags, Times2
    <3>3. SQLType(c) \in S
      BY <3>1, <3>2 DEF Sendable, S
    <3> QED
      BY <1>1, <3>3
  <2>2. value \in Seq(S)
    <3>1. c.default \in Now => c.type \notin Texts
      BY NoMatch
    <3>2. <<"CURRENT_TIMESTAMP">> \in Seq(S)
      BY <1>1, Tuples, ZenonT(40)
    <3>3. c.default \in S => <<c.default>> \in Seq(S) /\ <<"'", c.default, "'">> \in Seq(S)
      BY <1>1, Tuples, ZenonT(40)
    <3> QED
      BY <1>1, <3>1, <3>2, <3>3
  <2>3. Wanted(c) = <<c.name, type>> \o If(c.primary, <<"PRIMARY KEY">>)
             \o If(c.notNull, <<"NOT NULL">>) \o If(c.unique, <<"UNIQUE">>)
             \o If(c.default # "" \/ c.type \in Flags, <<"DEFAULT">> \o value)
    BY <1>3, Zenon DEF Wanted
  <2> HIDE DEF type, value
  <2>4. /\ <<c.name, type>> \in Seq(S) /\ <<"PRIMARY KEY">> \in Seq(S) /\ <<"NOT NULL">> \in Seq(S)
        /\ <<"UNIQUE">> \in Seq(S) /\ <<"DEFAULT">> \in Seq(S)
    BY <1>1, <2>1, Tuples, ZenonT(40)
  <2>5. <<"DEFAULT">> \o value \in Seq(S)
    BY <2>2, <2>4, ConcatOf
  <2> DEFINE w0 == <<c.name, type>>
             w1 == w0 \o If(c.primary, <<"PRIMARY KEY">>)
             w2 == w1 \o If(c.notNull, <<"NOT NULL">>)
             w3 == w2 \o If(c.unique, <<"UNIQUE">>)
             has == c.default # "" \/ c.type \in Flags
  <2>6. Wanted(c) = w3 \o If(has, <<"DEFAULT">> \o value) /\ has \in BOOLEAN
    BY <2>3
  <2>7. w0 \in Seq(S)
    BY <2>4
  <2> HIDE DEF w0
  <2>8. w1 \in Seq(S)
    BY <2>4, <2>7, SendableIf
  <2> HIDE DEF w1
  <2>9. w2 \in Seq(S)
    BY <2>4, <2>8, SendableIf
  <2> HIDE DEF w2
  <2>10. w3 \in Seq(S)
    BY <2>4, <2>9, SendableIf
  <2> HIDE DEF w3, has
  <2> QED
    BY <2>5, <2>6, <2>10, SendableIf DEF S
<1> QED
  BY <1>2, <1>3

\* Every column, as it is sent.
LEMMA ColumnConverted ==
    ASSUME NEW c, Marked(c), IsIdentity(c) \/ SQLType(c) # "unsupported", ~ Spoiled(c)
    PROVE  ToBag(Render(ConvertDDL(columnDDL(c)))) = ToBag(Wanted(c))
<1>1. c.primary \in BOOLEAN /\ c.notNull \in BOOLEAN /\ c.unique \in BOOLEAN
  BY DEF Marked
<1>2. Renamed(c.name) = c.name
  BY NoMatch
<1>3. ASSUME ConvertDDL(columnDDL(c)) = Wanted(c), c.type \notin Flags
      PROVE  ToBag(Render(ConvertDDL(columnDDL(c)))) = ToBag(Wanted(c))
  <2>1. Wanted(c) \in Seq(Sendable(c))
    BY <1>1, <1>3, WantedSendable
  <2> QED
    BY <1>3, <2>1, SentAsIs, Zenon
<1>4. CASE IsIdentity(c)
  <2>1. c.type \notin Flags
    BY <1>4 DEF IsIdentity, Flags
  <2> QED
    BY <1>2, <1>3, <1>4, <2>1, IdentityConverted
<1>5. CASE c.type \in Flags
  <2> DEFINE s == ConvertDDL(columnDDL(c))
             S == Sendable(c)
             f == <<c.name, "BOOLEAN", "NOT NULL", "DEFAULT", "FALSE">>
             g == <<c.name, "BOOLEAN", "NOT NULL", "DEFAULT", "FALSE", "UNIQUE">>
  <2>1. ToBag(s) = ToBag(Wanted(c)) /\ s \in {f, g}
    BY <1>1, <1>5, FlagConverted
  <2>2. /\ c.name \in S /\ "BOOLEAN" \in S /\ "NOT NULL" \in S /\ "DEFAULT" \in S
        /\ "FALSE" \in S /\ "UNIQUE" \in S
    BY NoMatch DEF Sendable, Tokens, Now
  <2> HIDE DEF S
  <2>3. f \in Seq(S) /\ g \in Seq(S)
    <3>1. ASSUME NEW n \in S, NEW a \in S, NEW b \in S, NEW d \in S, NEW e \in S, NEW u \in S
          PROVE  <<n, a, b, d, e>> \in Seq(S) /\ <<n, a, b, d, e, u>> \in Seq(S)
      BY <3>1
    <3> QED
      BY <2>2, <3>1, Zenon
  <2> HIDE DEF f, g, s
  <2>4. Render(s) = s
    BY <2>1, <2>3, SentAsIs DEF S
  <2> QED
    BY <2>1, <2>4 DEF s
<1>6. CASE ~ IsIdentity(c) /\ c.type \notin Flags
  BY <1>1, <1>3, <1>6, PlainConverted
<1> QED
  BY <1>4, <1>5, <1>6

\* The columns of the tables an invocation has read have their marks, ...
MarkedRows(ts) ==
    \A i \in 1 .. Len(ts) : \A j \in DOMAIN ts[i].rows : Marked(ts[i].rows[j])

\* ... and what it is to execute was converted from the columns of its table, none of
\* them of a type that SQLType does not have.
DdlInv(p) ==
    /\ MarkedRows(tables[p])
    /\ ipc[p] \in {"check", "exec"} =>
        /\ Unsupported(p) = {}
        /\ ddl[p] = [j \in DOMAIN Rows(p) |-> Converted(Rows(p)[j])]

AllDdlInv == DOMAIN ddl = Invocations /\ \A p \in Invocations : DdlInv(p)

\* Any six make a sequence of what is in it.
LEMMA SixInARow ==
    ASSUME NEW a, NEW b, NEW c, NEW d, NEW e, NEW f
    PROVE  /\ <<a, b, c, d, e, f>> \in Seq(Range(<<a, b, c, d, e, f>>))
           /\ Len(<<a, b, c, d, e, f>>) = 6
<1> DEFINE s == <<a, b, c, d, e, f>>
<1>1. s \in Seq({a, b, c, d, e, f}) /\ Len(s) = 6
  OBVIOUS
<1> HIDE DEF s
<1>2. DOMAIN s = 1 .. 6 /\ s \in [1 .. 6 -> {a, b, c, d, e, f}]
  BY <1>1, LenProperties, ElementOfSeq
<1>3. s \in [1 .. 6 -> Range(s)]
  BY <1>2 DEF Range
<1>4. s \in Seq(Range(s))
  BY <1>3, SequenceOf
<1> QED
  BY <1>1, <1>4 DEF s

\* The audit columns and those of a sheet.
LEMMA RowsMarked ==
    ASSUME NEW s \in Seq(Column), NEW S
    PROVE  \A j \in DOMAIN (defaultAuditColumns \o Sift(s, S)) :
                Marked((defaultAuditColumns \o Sift(s, S))[j])
<1> DEFINE D == defaultAuditColumns
           r == Sift(s, S)
           T == Column \union Range(D)
           w == D \o r
<1>1. /\ D \in Seq(Range(D)) /\ Len(D) = 6
      /\ \A j \in 1 .. 6 : Marked(D[j])
  <2>1. D \in Seq(Range(D)) /\ Len(D) = 6
    BY SixInARow, Zenon DEF defaultAuditColumns
  <2>2. \A j \in 1 .. 6 : j = 1 \/ j = 2 \/ j = 3 \/ j = 4 \/ j = 5 \/ j = 6
    OBVIOUS
  <2>3. Marked(D[1]) /\ Marked(D[2]) /\ Marked(D[3]) /\ Marked(D[4]) /\ Marked(D[5]) /\ Marked(D[6])
    BY DEF defaultAuditColumns, Audit, Marked
  <2> HIDE DEF D
  <2> QED
    BY <2>1, <2>2, <2>3
<1>2. r \in Seq(Column)
  BY SiftIn
<1> HIDE DEF D, r
<1>3. /\ Len(r) \in Nat /\ \A j \in 1 .. Len(r) : r[j] \in Column /\ Marked(r[j])
  <2>1. \A c \in Column : Marked(c)
    BY DEF Column, Marked
  <2> QED
    BY <1>2, <2>1, LenProperties, ElementOfSeq
<1>4. D \in Seq(T) /\ r \in Seq(T)
  BY <1>1, <1>2
<1> HIDE DEF T
<1>5. w \in Seq(T) /\ Joint(w, D, r)
  BY <1>4, ConcatOf
<1> HIDE DEF w
<1>6. DOMAIN w = 1 .. 6 + Len(r)
  BY <1>1, <1>5, LenProperties DEF Joint
<1>7. ASSUME NEW j \in 1 .. 6 + Len(r) PROVE Marked(w[j])
  <2>1. CASE j \in 1 .. 6
    BY <1>1, <1>5, <2>1 DEF Joint
  <2>2. CASE j \in 7 .. 6 + Len(r)
    <3> DEFINE x == j - 6
    <3>1. x \in 1 .. Len(r) /\ j = 6 + x
      BY <1>3, <2>2
    <3> HIDE DEF x
    <3>2. w[6 + x] = r[x]
      BY <1>1, <1>5, <3>1 DEF Joint
    <3> QED
      BY <1>3, <3>1, <3>2
  <2> QED
    BY <1>3, <2>1, <2>2
<1> QED
  BY <1>6, <1>7 DEF w, D, r

LEMMA ReadMarked ==
    ASSUME NEW p \in Invocations, NEW wb \in Workbooks[p]
    PROVE  MarkedRows(Read(wb))
<1> SUFFICES ASSUME NEW i \in 1 .. Len(Read(wb))
             PROVE  \A j \in DOMAIN Read(wb)[i].rows : Marked(Read(wb)[i].rows[j])
  BY DEF MarkedRows
<1>1. PICK s \in Sheet : Read(wb)[i].rows = defaultAuditColumns \o Sift(s.rows, Used)
  BY ReadSheets
<1>2. s.rows \in Seq(Column)
  BY DEF Sheet
<1> QED
  BY <1>1, <1>2, RowsMarked

LEMMA DdlInitInv == SheetInit => AllDdlInv
<1> SUFFICES ASSUME SheetInit PROVE AllDdlInv
  OBVIOUS
<1>1. MarkedRows(<<>>)
  BY DEF MarkedRows
<1>2. DOMAIN ddl = Invocations
      /\ \A p \in Invocations : tables[p] = <<>> /\ ipc[p] = "idle"
  BY DEF SheetInit
<1> QED
  BY <1>1, <1>2 DEF AllDdlInv, DdlInv

\* What an invocation is to execute stays as it is while it is at its table.
LEMMA DdlStays ==
    ASSUME NEW q, DdlInv(q), tables'[q] = tables[q],
           ipc'[q] \in {"check", "exec"} =>
                ipc[q] \in {"check", "exec"} /\ at'[q] = at[q] /\ ddl'[q] = ddl[q]
    PROVE  DdlInv(q)'
<1>1. MarkedRows(tables'[q])
  BY DEF DdlInv
<1>2. ASSUME ipc'[q] \in {"check", "exec"}
      PROVE  /\ Unsupported(q)' = {}
             /\ ddl'[q] = [j \in DOMAIN Rows(q)' |-> Converted(Rows(q)'[j])]
  <2>1. Rows(q)' = Rows(q) /\ Unsupported(q)' = Unsupported(q)
    BY <1>2 DEF Rows, Unsupported
  <2> QED
    BY <1>2, <2>1 DEF DdlInv
<1> QED
  BY <1>1, <1>2 DEF DdlInv

LEMMA DdlStepInv == SheetInv /\ AllDdlInv /\ [SheetNext]_sheetVars => AllDdlInv'
<1> SUFFICES ASSUME SheetInv, AllDdlInv, [SheetNext]_sheetVars PROVE AllDdlInv'
  OBVIOUS
<1>0. /\ DOMAIN ddl = Invocations /\ DOMAIN tables = Invocations
      /\ ipc \in [Invocations -> {"idle", "build", "check", "exec", "ok", "fatal"}]
      /\ at \in [Invocations -> Nat \ {0}]
      /\ \A q \in Invocations : DdlInv(q)
  BY DEF AllDdlInv, SheetInv
<1>1. CASE UNCHANGED sheetVars
  BY <1>0, <1>1, DdlStays DEF sheetVars, AllDdlInv
<1> SUFFICES ASSUME NEW p \in Invocations,
                    Run(p) \/ Build(p) \/ BuildFail(p) \/ Check(p) \/ Exec(p) \/ ExecFail(p)
                        \/ Again(p)
             PROVE  AllDdlInv'
  BY <1>1, Zenon DEF SheetNext
\* Whatever p does, it does nothing to another invocation.
<1>2. ASSUME NEW q \in Invocations, q # p
      PROVE  tables'[q] = tables[q] /\ at'[q] = at[q] /\ ddl'[q] = ddl[q] /\ ipc'[q] = ipc[q]
  BY <1>0, <1>2 DEF Run, Build, BuildFail, Check, Exec, ExecFail, Again, Advance, Become
<1>3. DOMAIN ddl' = Invocations
  BY <1>0 DEF Run, Build, BuildFail, Check, Exec, ExecFail, Again
<1>4. SUFFICES DdlInv(p)'
  <2>1. ASSUME NEW q \in Invocations PROVE DdlInv(q)'
    <3>1. CASE q = p
      BY <1>4, <3>1
    <3>2. CASE q # p
      BY <1>0, <1>2, <3>2, DdlStays
    <3> QED
      BY <3>1, <3>2
  <2> QED
    BY <1>3, <2>1 DEF AllDdlInv
\* Steps to a label at which nothing is to be executed, with the same tables.
<1>5. ASSUME tables' = tables, ipc'[p] \notin {"check", "exec"} PROVE DdlInv(p)'
  BY <1>0, <1>5, DdlStays
<1>6. Advance(p) => ipc'[p] \notin {"check", "exec"}
  BY <1>0 DEF Advance, Become
<1>7. ASSUME NEW l, Become(p, l) PROVE ipc'[p] = l
  BY <1>0, <1>7 DEF Become
<1>8. CASE Run(p)
  <2>1. PICK wb \in Workbooks[p] :
            /\ tables' = [tables EXCEPT ![p] = IF ReadFails(wb) THEN <<>> ELSE Read(wb)]
            /\ Become(p, "fatal") \/ Become(p, "build")
    BY <1>8 DEF Run
  <2>2. MarkedRows(<<>>) /\ MarkedRows(Read(wb))
    BY ReadMarked DEF MarkedRows
  <2>3. tables'[p] = <<>> \/ tables'[p] = Read(wb)
    BY <1>0, <2>1
  <2>4. ipc'[p] \notin {"check", "exec"}
    BY <1>7, <2>1
  <2> QED
    BY <2>2, <2>3, <2>4 DEF DdlInv
<1>9. CASE Build(p)
  <2>1. CASE dryRun[p]
    BY <1>5, <1>6, <1>9, <2>1 DEF Build
  <2>2. CASE ~ dryRun[p]
    <3>1. Rows(p)' = Rows(p) /\ Unsupported(p)' = Unsupported(p) /\ tables'[p] = tables[p]
      BY <1>9, <2>2 DEF Build, Rows, Unsupported
    <3>2. ddl'[p] = [j \in DOMAIN Rows(p) |-> Converted(Rows(p)[j])]
      BY <1>0, <1>9 DEF Build
    <3>3. MarkedRows(tables[p]) /\ Unsupported(p) = {}
      BY <1>0, <1>9 DEF Build, DdlInv
    <3> QED
      BY <3>1, <3>2, <3>3 DEF DdlInv
  <2> QED
    BY <2>1, <2>2
<1>10. CASE BuildFail(p)
  BY <1>5, <1>7, <1>10 DEF BuildFail
<1>11. CASE Check(p)
  <2>1. CASE Advance(p) \/ Become(p, "fatal")
    BY <1>5, <1>6, <1>7, <1>11, <2>1 DEF Check
  <2>2. CASE Become(p, "exec") /\ UNCHANGED at
    BY <1>0, <1>11, <2>2, DdlStays DEF Check
  <2> QED
    BY <1>11, <2>1, <2>2 DEF Check
<1>12. CASE Exec(p)
  BY <1>5, <1>6, <1>12 DEF Exec
<1>13. CASE ExecFail(p)
  BY <1>5, <1>7, <1>13 DEF ExecFail
<1>14. CASE Again(p)
  <2>1. tables'[p] = <<>> /\ ipc'[p] = "idle" /\ MarkedRows(<<>>)
    BY <1>0, <1>7, <1>14 DEF Again, MarkedRows
  <2> QED
    BY <2>1 DEF DdlInv
<1> QED
  BY <1>8, <1>9, <1>10, <1>11, <1>12, <1>13, <1>14

LEMMA DdlInvImplies == AllDdlInv /\ SheetInv => ConversionFaithful
<1> SUFFICES ASSUME AllDdlInv, SheetInv, NEW p \in Invocations, ipc[p] \in {"check", "exec"},
                    NEW j \in DOMAIN ddl[p], ~ Spoiled(Rows(p)[j])
             PROVE  ToBag(Render(ddl[p][j])) = ToBag(Wanted(Rows(p)[j]))
  <2>1. ASSUME NEW p \in Invocations, NEW j \in DOMAIN ddl[p]
        PROVE  Executed(p)[j] = Render(ddl[p][j])
    BY DEF Executed
  <2> QED
    BY <2>1, Zenon DEF ConversionFaithful
<1> DEFINE rows == Rows(p)
           c == rows[j]
<1>1. /\ MarkedRows(tables[p]) /\ Unsupported(p) = {}
      /\ ddl[p] = [x \in DOMAIN rows |-> Converted(rows[x])]
  BY DEF AllDdlInv, DdlInv
<1>2. j \in DOMAIN rows /\ ddl[p][j] = ConvertDDL(columnDDL(c))
  BY <1>1 DEF Converted, Spoiled
<1>3. Marked(c)
  <2>1. at[p] \in 1 .. Len(tables[p]) /\ rows = tables[p][at[p]].rows
    BY DEF SheetInv, InvocationInv, FromSheets, Rows
  <2> QED
    BY <1>1, <1>2, <2>1 DEF MarkedRows
<1>4. IsIdentity(c) \/ SQLType(c) # "unsupported"
  BY <1>1, <1>2 DEF Unsupported, Range
<1> QED
  BY <1>2, <1>3, <1>4, ColumnConverted

\* A column of a statement that is sent is the one its row asks for (columnDDL, the
\* rewriting rules of ConvertDDL and those of Render), whatever the workbook holds
\* and whichever the texts are in which the rules find something, unless the row is
\* of one of the kinds listed in Spoiled.
THEOREM ColumnsAreAsWanted == SheetSpec => []ConversionFaithful
<1>1. SheetInit => SheetInv /\ AllDdlInv
  BY SheetInitInv, DdlInitInv
<1>2. SheetInv /\ AllDdlInv /\ [SheetNext]_sheetVars => SheetInv' /\ AllDdlInv'
  BY SheetStepInv, DdlStepInv
<1>3. SheetInv /\ AllDdlInv => ConversionFaithful
  BY DdlInvImplies
<1> QED
  BY <1>1, <1>2, <1>3, PTL DEF SheetSpec

-----------------------------------------------------------------------------
(* The index.                                                                *)

Unit == Nat \X Nat

\* Entry n begins after n - 1 entries of a size.
Placed(n, size) == \A j \in 1 .. size : idxData[size * (n - 1) + j] = <<n, j>>

\* The length is what was written; the entries before the first torn one are
\* where they are looked for, if the file has entries of one size only.
IndexInv ==
    /\ idxData \in Seq(Unit)
    /\ oldEntries \in Nat /\ newEntries \in Nat /\ tears \in Nat
    /\ tornUnits \in Nat /\ wholeBefore \in Nat
    /\ Len(idxData) = OldSize * oldEntries + NewSize * newEntries + tornUnits
    /\ tears = 0 => tornUnits = 0 /\ wholeBefore = oldEntries + newEntries
    /\ wholeBefore <= oldEntries + newEntries
    /\ oldEntries = 0 => \A n \in 1 .. wholeBefore : Placed(n, NewSize)
    /\ newEntries + tears = 0 => \A n \in 1 .. wholeBefore : Placed(n, OldSize)

\* What an append does to the file.
LEMMA UnitsAppended ==
    ASSUME NEW d \in Seq(Unit), NEW n \in Nat, NEW size \in Nat
    PROVE  /\ d \o Units(n, size) \in Seq(Unit)
           /\ Len(d \o Units(n, size)) = Len(d) + size
           /\ \A x \in 1 .. Len(d) : (d \o Units(n, size))[x] = d[x]
           /\ \A j \in 1 .. size : (d \o Units(n, size))[Len(d) + j] = <<n, j>>
<1> DEFINE u == Units(n, size)
<1>1. u \in [1 .. size -> Unit] /\ \A j \in 1 .. size : u[j] = <<n, j>>
  BY DEF Units, Unit
<1> HIDE DEF u
<1>2. u \in Seq(Unit)
  BY <1>1, IsASeq
<1>3. Len(u) = size
  BY <1>1, <1>2, SameEnd, LenProperties
<1>4. /\ d \o u \in Seq(Unit) /\ Len(d \o u) = Len(d) + Len(u)
      /\ \A x \in 1 .. Len(d) + Len(u) : (d \o u)[x] = IF x <= Len(d) THEN d[x] ELSE u[x - Len(d)]
  BY <1>2, ConcatProperties
<1>5. Len(d) \in Nat
  BY LenProperties
<1> QED
  BY <1>1, <1>3, <1>4, <1>5 DEF u

LEMMA IndexInitInv == IndexInit => IndexInv
<1> SUFFICES ASSUME IndexInit PROVE IndexInv
  OBVIOUS
<1>1. idxData \in Seq(Unit) /\ Len(idxData) = 0
  BY DEF IndexInit
<1> QED
  BY <1>1 DEF IndexInit, IndexInv, OldSize, NewSize

\* An entry that lies in the file stays where it is.
LEMMA PlacedStays ==
    ASSUME NEW n \in Nat, NEW size \in Nat, n >= 1, Placed(n, size), size * n <= Len(idxData),
           size \in {OldSize, NewSize}, Len(idxData) \in Nat,
           \A x \in 1 .. Len(idxData) : idxData'[x] = idxData[x]
    PROVE  Placed(n, size)'
<1>1. ASSUME NEW j \in 1 .. size PROVE size * (n - 1) + j \in 1 .. Len(idxData)
  BY SMT DEF OldSize, NewSize
<1> QED
  BY <1>1 DEF Placed

LEMMA IndexStepInv == IndexInv /\ [IndexNext]_idxVars => IndexInv'
<1> SUFFICES ASSUME IndexInv, [IndexNext]_idxVars PROVE IndexInv'
  OBVIOUS
<1> USE DEF OldSize, NewSize
<1>0. idxData \in Seq(Unit) /\ Len(idxData) \in Nat
  BY LenProperties DEF IndexInv
<1>1. CASE UNCHANGED idxVars
  BY <1>1 DEF idxVars, IndexInv, Placed
<1>2. CASE AppendOld
  <2> DEFINE e == Entries + 1
  <2>1. /\ newEntries = 0 /\ tears = 0 /\ newEntries' = 0 /\ tears' = 0 /\ tornUnits' = 0
        /\ tornUnits = 0 /\ e = oldEntries + 1 /\ oldEntries' = e
        /\ wholeBefore = oldEntries /\ wholeBefore' = e /\ oldEntries \in Nat
        /\ Len(idxData) = 8 * oldEntries
    BY <1>2 DEF AppendOld, IndexInv, BeforeTears, Entries
  <2>2. e \in Nat /\ idxData' = idxData \o Units(e, 8)
    BY <1>2, <2>1 DEF AppendOld
  <2> HIDE DEF e
  <2>3. /\ idxData' \in Seq(Unit) /\ Len(idxData') = Len(idxData) + 8
        /\ \A x \in 1 .. Len(idxData) : idxData'[x] = idxData[x]
        /\ \A j \in 1 .. 8 : idxData'[Len(idxData) + j] = <<e, j>>
    <3> DEFINE d == idxData \o Units(e, 8)
    <3>1. /\ d \in Seq(Unit) /\ Len(d) = Len(idxData) + 8
          /\ \A x \in 1 .. Len(idxData) : d[x] = idxData[x]
          /\ \A j \in 1 .. 8 : d[Len(idxData) + j] = <<e, j>>
      <4> DEFINE size == 8
      <4>1. size \in Nat /\ e \in Nat /\ idxData \in Seq(Unit)
        BY <1>0, <2>2
      <4> HIDE DEF size
      <4>2. /\ idxData \o Units(e, size) \in Seq(Unit)
            /\ Len(idxData \o Units(e, size)) = Len(idxData) + size
            /\ \A x \in 1 .. Len(idxData) : (idxData \o Units(e, size))[x] = idxData[x]
            /\ \A j \in 1 .. size : (idxData \o Units(e, size))[Len(idxData) + j] = <<e, j>>
        BY <4>1, UnitsAppended
      <4> QED
        BY <4>2 DEF size
    <3> HIDE DEF d
    <3>2. idxData' = d
      BY <2>2 DEF d
    <3> QED
      BY <3>1, <3>2
  <2>4. ASSUME NEW n \in 1 .. e PROVE Placed(n, 8)'
    <3>1. CASE n = e
      <4>1. ASSUME NEW j \in 1 .. 8 PROVE idxData'[8 * (n - 1) + j] = <<n, j>>
        <5>1. 8 * (n - 1) + j = Len(idxData) + j
          BY <2>1, <3>1
        <5> QED
          BY <2>3, <3>1, <5>1
      <4> QED
        BY <4>1 DEF Placed
    <3>2. CASE n # e
      <4>1. n \in 1 .. wholeBefore /\ 8 * n <= Len(idxData)
        BY <2>1, <3>2
      <4>2. Placed(n, 8)
        BY <2>1, <4>1 DEF IndexInv
      <4>3. \A j \in 1 .. Len(idxData) : idxData'[j] = idxData[j]
        BY <2>3
      <4> QED
        BY <1>0, <2>1, <4>1, <4>2, <4>3, PlacedStays
    <3> QED
      BY <3>1, <3>2
  <2> QED
    BY <2>1, <2>2, <2>3, <2>4 DEF IndexInv
<1>3. CASE AppendNew
  <2> DEFINE e == Entries + 1
  <2>1. e \in Nat /\ idxData' = idxData \o Units(e, 9) /\ e = oldEntries + newEntries + tears + 1
    BY <1>3 DEF AppendNew, IndexInv, Entries
  <2> HIDE DEF e
  <2>2. /\ idxData' \in Seq(Unit) /\ Len(idxData') = Len(idxData) + 9
        /\ \A x \in 1 .. Len(idxData) : idxData'[x] = idxData[x]
        /\ \A j \in 1 .. 9 : idxData'[Len(idxData) + j] = <<e, j>>
    <3> DEFINE d == idxData \o Units(e, 9)
    <3>1. /\ d \in Seq(Unit) /\ Len(d) = Len(idxData) + 9
          /\ \A x \in 1 .. Len(idxData) : d[x] = idxData[x]
          /\ \A j \in 1 .. 9 : d[Len(idxData) + j] = <<e, j>>
      <4> DEFINE size == 9
      <4>1. size \in Nat /\ e \in Nat /\ idxData \in Seq(Unit)
        BY <1>0, <2>1
      <4> HIDE DEF size
      <4>2. /\ idxData \o Units(e, size) \in Seq(Unit)
            /\ Len(idxData \o Units(e, size)) = Len(idxData) + size
            /\ \A x \in 1 .. Len(idxData) : (idxData \o Units(e, size))[x] = idxData[x]
            /\ \A j \in 1 .. size : (idxData \o Units(e, size))[Len(idxData) + j] = <<e, j>>
        BY <4>1, UnitsAppended
      <4> QED
        BY <4>2 DEF size
    <3> HIDE DEF d
    <3>2. idxData' = d
      BY <2>1 DEF d
    <3> QED
      BY <3>1, <3>2
  <2>3. /\ newEntries' = newEntries + 1 /\ oldEntries' = oldEntries /\ tears' = tears
        /\ tornUnits' = tornUnits
        /\ wholeBefore' = IF tears = 0 THEN wholeBefore + 1 ELSE wholeBefore
    BY <1>3 DEF AppendNew, BeforeTears
  <2>4. ASSUME oldEntries = 0, NEW n \in 1 .. wholeBefore' PROVE Placed(n, 9)'
    <3>1. CASE n \in 1 .. wholeBefore
      <4>1. Placed(n, 9) /\ 9 * n <= Len(idxData)
        BY <2>4, <3>1 DEF IndexInv
      <4>2. n \in Nat /\ n >= 1
        BY <3>1 DEF IndexInv
      <4> QED
        BY <1>0, <2>2, <4>1, <4>2, PlacedStays
    <3>2. CASE n \notin 1 .. wholeBefore
      <4>1. tears = 0 /\ n = wholeBefore + 1
        BY <2>3, <3>2 DEF IndexInv
      <4>2. n = e /\ Len(idxData) = 9 * (n - 1)
        BY <2>1, <2>4, <4>1 DEF IndexInv
      <4> QED
        BY <2>2, <4>2 DEF Placed
    <3> QED
      BY <3>1, <3>2
  <2>5. /\ newEntries' \in Nat /\ wholeBefore' \in Nat /\ newEntries' + tears' # 0
        /\ Len(idxData') = 8 * oldEntries' + 9 * newEntries' + tornUnits'
        /\ tears' = 0 => tornUnits' = 0 /\ wholeBefore' = oldEntries' + newEntries'
        /\ wholeBefore' <= oldEntries' + newEntries'
    <3>1. /\ oldEntries \in Nat /\ newEntries \in Nat /\ tears \in Nat /\ tornUnits \in Nat
          /\ wholeBefore \in Nat /\ wholeBefore <= oldEntries + newEntries
          /\ Len(idxData) = 8 * oldEntries + 9 * newEntries + tornUnits
          /\ tears = 0 => tornUnits = 0 /\ wholeBefore = oldEntries + newEntries
      BY DEF IndexInv
    <3>2. Len(idxData') = Len(idxData) + 9
      BY <2>2
    <3>3. Len(idxData') = 8 * oldEntries' + 9 * newEntries' + tornUnits'
      BY <2>3, <3>1, <3>2
    <3> QED
      BY <2>3, <3>1, <3>3
  <2> QED
    BY <2>2, <2>3, <2>4, <2>5 DEF IndexInv
<1>4. CASE AppendTorn
  <2>1. PICK k \in 1 .. NewSize - 1 : idxData' = idxData \o Units(Entries + 1, k) /\ tornUnits' = tornUnits + k
    BY <1>4, Zenon DEF AppendTorn
  <2>2. Entries + 1 \in Nat /\ k \in Nat
    BY DEF Entries, IndexInv
  <2>3. /\ idxData' \in Seq(Unit) /\ Len(idxData') = Len(idxData) + k
        /\ \A x \in 1 .. Len(idxData) : idxData'[x] = idxData[x]
    BY <1>0, <2>1, <2>2, UnitsAppended, Zenon
  <2>4. /\ newEntries' = newEntries /\ oldEntries' = oldEntries /\ tears' = tears + 1
        /\ wholeBefore' = wholeBefore
    BY <1>4 DEF AppendTorn
  <2>5. ASSUME oldEntries = 0, NEW n \in 1 .. wholeBefore PROVE Placed(n, 9)'
    <3>1. Placed(n, 9) /\ 9 * n <= Len(idxData)
      BY <2>5 DEF IndexInv
    <3> QED
      BY <1>0, <2>3, <3>1, PlacedStays DEF IndexInv
  <2> QED
    BY <2>1, <2>3, <2>4, <2>5 DEF IndexInv
<1> QED
  BY <1>1, <1>2, <1>3, <1>4 DEF IndexNext

\* An entry is read from where it lies when the size is the right one.
LEMMA EntryRead ==
    ASSUME NEW n \in Nat, n >= 1, Placed(n, entrySize), idxData \in Seq(Unit),
           entrySize \in {OldSize, NewSize}, entrySize * n <= Len(idxData)
    PROVE  n \in DOMAIN readIndex /\ readIndex[n] = Units(n, entrySize)
<1> DEFINE size == entrySize
           a == (n - 1) * size + 1
           b == n * size
           s == SubSeq(idxData, a, b)
<1>0. size \in {8, 9} /\ Len(idxData) \in Nat /\ Placed(n, size) /\ size * n <= Len(idxData)
  BY LenProperties DEF OldSize, NewSize
<1>1. DOMAIN readIndex = 1 .. Len(idxData) \div size /\ (n \in DOMAIN readIndex => readIndex[n] = s)
  BY DEF readIndex
<1> HIDE DEF size
<1>2. n \in 1 .. Len(idxData) \div size
  <2>1. CASE size = 8
    BY <1>0, <2>1, SMT
  <2>2. CASE size = 9
    BY <1>0, <2>2, SMT
  <2> QED
    BY <1>0, <2>1, <2>2
<1>3. a \in Int /\ b \in Int /\ b - a + 1 = size /\ a <= b /\ a >= 1 /\ b <= Len(idxData)
      /\ a = size * (n - 1) + 1
  <2>1. CASE size = 8
    BY <1>0, <2>1, SMT
  <2>2. CASE size = 9
    BY <1>0, <2>2, SMT
  <2> QED
    BY <1>0, <2>1, <2>2
<1> HIDE DEF a, b
<1>4. \A x \in a .. b : idxData[x] \in Unit
  BY <1>0, <1>3, ElementOfSeq
<1>5. /\ s \in Seq(Unit) /\ Len(s) = size
      /\ \A j \in 1 .. size : s[j] = idxData[a + j - 1]
  BY <1>0, <1>3, <1>4, SubSeqProperties
<1> HIDE DEF s
<1>6. ASSUME NEW j \in 1 .. size PROVE s[j] = <<n, j>>
  <2>1. idxData[size * (n - 1) + j] = <<n, j>>
    BY <1>0 DEF Placed
  <2>2. a + j - 1 = size * (n - 1) + j
    <3>1. CASE size = 8
      BY <1>3, <3>1
    <3>2. CASE size = 9
      BY <1>3, <3>2
    <3> QED
      BY <1>0, <3>1, <3>2
  <2> QED
    BY <1>5, <2>1, <2>2
<1>7. s = [j \in 1 .. size |-> s[j]]
  BY <1>5, LenProperties
<1>8. s = Units(n, size)
  BY <1>6, <1>7 DEF Units
<1> QED
  BY <1>1, <1>2, <1>8 DEF size

LEMMA IndexInvImplies == IndexInv => IndexReadable
<1> SUFFICES ASSUME IndexInv PROVE IndexReadable
  OBVIOUS
<1> USE DEF OldSize, NewSize
<1>1. ASSUME oldEntries = 0, tears = 0 \/ (newEntries + tornUnits) % 8 # 0 PROVE ReadsRight
  <2>1. Len(idxData) = 9 * newEntries + tornUnits /\ newEntries \in Nat /\ tornUnits \in Nat
    BY <1>1 DEF IndexInv
  <2>2. entrySize = 9
    <3>1. CASE tears = 0
      <4>1. Len(idxData) % 9 = 0
        BY <2>1, <3>1 DEF IndexInv
      <4> QED
        BY <4>1 DEF entrySize
    <3>2. CASE (newEntries + tornUnits) % 8 # 0
      <4>1. Len(idxData) % 8 # 0
        BY <2>1, <3>2, SMT
      <4> QED
        BY <4>1 DEF entrySize
    <3> QED
      BY <1>1, <3>1, <3>2
  <2>3. ASSUME NEW n \in 1 .. wholeBefore
        PROVE  n \in DOMAIN readIndex
               /\ readIndex[n] = Units(n, IF n <= oldEntries THEN OldSize ELSE NewSize)
    <3>1. /\ Placed(n, 9) /\ 9 * n <= Len(idxData) /\ n \in Nat /\ n >= 1
          /\ ~ (n <= oldEntries) /\ idxData \in Seq(Unit)
      BY <1>1, <2>1 DEF IndexInv
    <3> QED
      BY <2>2, <3>1, EntryRead
  <2> QED
    BY <2>3, Zenon DEF ReadsRight
<1>2. ASSUME newEntries + tears = 0, oldEntries % 9 # 0 PROVE ReadsRight
  <2>1. /\ newEntries = 0 /\ tears = 0 /\ Len(idxData) = 8 * oldEntries /\ oldEntries \in Nat
        /\ wholeBefore = oldEntries
    BY <1>2 DEF IndexInv
  <2>2. Len(idxData) % 8 = 0 /\ Len(idxData) % 9 # 0
    BY <1>2, <2>1, SMT
  <2>3. entrySize = 8
    BY <2>2 DEF entrySize
  <2>4. ASSUME NEW n \in 1 .. wholeBefore
        PROVE  n \in DOMAIN readIndex
               /\ readIndex[n] = Units(n, IF n <= oldEntries THEN OldSize ELSE NewSize)
    <3>1. /\ Placed(n, 8) /\ 8 * n <= Len(idxData) /\ n \in Nat /\ n >= 1
          /\ n <= oldEntries /\ idxData \in Seq(Unit)
      BY <1>2, <2>1 DEF IndexInv
    <3> QED
      BY <2>3, <3>1, EntryRead
  <2> QED
    BY <2>4, Zenon DEF ReadsRight
<1> QED
  BY <1>1, <1>2, Zenon DEF IndexReadable

\* readIndex, which has nothing but the length of the file to tell the size of
\* its entries (flush appends them, and a failing append leaves a part of one),
\* gives back every entry before the first torn one, whatever was torn off, as
\* long as the length does not look like one of the other size.
THEOREM IndexIsReadable == IndexSpec => []IndexReadable
<1>1. IndexInit => IndexInv
  BY IndexInitInv
<1>2. IndexInv /\ [IndexNext]_idxVars => IndexInv'
  BY IndexStepInv
<1>3. IndexInv => IndexReadable
  BY IndexInvImplies
<1> QED
  BY <1>1, <1>2, <1>3, PTL DEF IndexSpec

-----------------------------------------------------------------------------
(* The query over several days.                                              *)

Times == 0 .. Horizon
TimeBags == UNION {[S -> Nat] : S \in SUBSET Times}

\* Adding bags adds the copies.
LEMMA CopiesSum ==
    ASSUME NEW A \in TimeBags, NEW B \in TimeBags
    PROVE  /\ A (+) B \in TimeBags
           /\ \A t \in Times : /\ Copies(t, A) \in Nat /\ Copies(t, B) \in Nat
                               /\ Copies(t, A (+) B) = Copies(t, A) + Copies(t, B)
<1>1. PICK S \in SUBSET Times : A \in [S -> Nat]
  BY DEF TimeBags
<1>2. PICK T \in SUBSET Times : B \in [T -> Nat]
  BY DEF TimeBags
<1> DEFINE C == A (+) B
<1>3. C = [e \in S \union T |-> (IF e \in S THEN A[e] ELSE 0) + (IF e \in T THEN B[e] ELSE 0)]
  BY <1>1, <1>2 DEF (+)
<1> HIDE DEF C
<1>4. C \in [S \union T -> Nat] /\ S \union T \in SUBSET Times
  BY <1>1, <1>2, <1>3
<1>5. C \in TimeBags
  BY <1>4 DEF TimeBags
<1>6. ASSUME NEW t \in Times
      PROVE  /\ Copies(t, A) \in Nat /\ Copies(t, B) \in Nat
             /\ Copies(t, C) = Copies(t, A) + Copies(t, B)
  BY <1>1, <1>2, <1>3, <1>4 DEF Copies, BagIn, BagToSet
<1> QED
  BY <1>5, <1>6 DEF C

\* A set has its elements once.
LEMMA CopiesOfSet ==
    ASSUME NEW S \in SUBSET Times
    PROVE  /\ SetToBag(S) \in TimeBags
           /\ \A t \in Times : Copies(t, SetToBag(S)) = Indicator(t \in S)
<1>1. SetToBag(S) \in [S -> Nat]
  BY DEF SetToBag
<1>2. SetToBag(S) \in TimeBags
  BY <1>1 DEF TimeBags
<1> QED
  BY <1>1, <1>2 DEF Copies, BagIn, BagToSet, SetToBag, Indicator

\* Multiples of the length of a step are a step apart.
LEMMA Apart ==
    ASSUME NEW m \in Nat, NEW n \in Nat, NEW d \in Nat, m < n
    PROVE  m * d + d <= n * d
<1> DEFINE k == n - m - 1
<1>1. k \in Nat /\ n = m + 1 + k
  OBVIOUS
<1> HIDE DEF k
<1>2. n * d = m * d + d + k * d
  BY <1>1
<1>3. k * d \in Nat /\ m * d \in Nat
  BY <1>1
<1> QED
  BY <1>2, <1>3

Stages == {"hot", "cold", "append", "done"}
Step(w) == startTime + (w - 1) * DayLength
InRange(t) == startTime <= t /\ t <= endTime
Hit(w, t) == InRange(t) /\ SameDate(t, Step(w))

DaysTypes ==
    /\ queryPc \in {"idle", "loop", "returned"}
    /\ startTime \in Times /\ endTime \in Times /\ day \in Nat
    /\ reading \in Seq(Stages)
    /\ found \in Seq(TimeBags) /\ Len(found) = Len(reading)
    /\ allPoints \in TimeBags
    /\ HotPoints \subseteq hotFiles /\ hotFiles \subseteq HotPoints \union LatePoints
    /\ coldFiles = ColdPoints
    /\ queryPc = "idle" => calendar = <<>> /\ reading = <<>> /\ allPoints = EmptyBag
    /\ queryPc # "idle" => calendar \in Calendars /\ day = startTime + Len(reading) * DayLength

\* What goroutine w has found of time t.
FoundInv(w, t) ==
    LET k == Copies(t, found[w])
    IN  /\ reading[w] = "hot" \/ ~ Hit(w, t) => k = 0
        /\ Hit(w, t) /\ reading[w] = "cold" =>
                /\ Indicator(t \in HotPoints) <= k
                /\ k <= Indicator(t \in HotPoints) + Indicator(t \in LatePoints)
        /\ Hit(w, t) /\ reading[w] \in {"append", "done"} =>
                Stored(t) <= k /\ k <= Stored(t) + Indicator(t \in LatePoints)

AtLeast(w, t) == reading[w] = "done" => Copies(t, found[w]) <= Copies(t, allPoints)

Short(t, n) == FallsOn(t, n) /\ calendar[n + 1] - calendar[n] <= DayLength
Long(t, n) == FallsOn(t, n) /\ calendar[n + 1] - calendar[n] >= DayLength

\* A date not longer than a step is met by one goroutine at most.
AtMost(t, n) ==
    Short(t, n) =>
        \/ Copies(t, allPoints) = 0
        \/ \E w \in 1 .. Len(reading) :
                reading[w] = "done" /\ Copies(t, allPoints) = Copies(t, found[w])

\* A date not shorter than a step is met by one, or the loop is not past it.
Met(t, n) ==
    Long(t, n) /\ InRange(t) =>
        \/ \E w \in 1 .. Len(reading) : Hit(w, t)
        \/ reading = <<>>
        \/ day < calendar[n] + DayLength

DaysInv ==
    /\ DaysTypes
    /\ \A w \in 1 .. Len(reading), t \in Times : FoundInv(w, t) /\ AtLeast(w, t)
    /\ \A t \in Times, n \in 1 .. Len(calendar) - 1 : AtMost(t, n) /\ Met(t, n)
    /\ queryPc = "returned" =>
            ~ MoreDates /\ \A w \in 1 .. Len(reading) : reading[w] = "done"

\* The midnights on either side of a time tell which other times have its date.
LEMMA DatesApart ==
    ASSUME NEW t \in Times, calendar \in Calendars, NEW n \in 1 .. Len(calendar) - 1,
           FallsOn(t, n), NEW u \in Nat
    PROVE  /\ SameDate(t, u) <=> calendar[n] <= u /\ u < calendar[n + 1]
           /\ calendar[n] \in Nat /\ calendar[n + 1] \in Nat
           /\ calendar[n] <= t /\ t < calendar[n + 1]
<1> DEFINE N == Len(calendar)
<1>1. /\ N \in Nat /\ DOMAIN calendar = 1 .. N
      /\ \A m \in 1 .. N : calendar[m] \in Nat
      /\ \A l, m \in 1 .. N : l < m => calendar[l] < calendar[m]
  <2>1. calendar \in Seq(Nat)
    BY QueryDaysAssumption
  <2>2. N \in Nat /\ DOMAIN calendar = 1 .. N /\ \A m \in 1 .. N : calendar[m] \in Nat
    BY <2>1, LenProperties, ElementOfSeq
  <2>3. \A l, m \in 1 .. N : l < m => calendar[l] < calendar[m]
    BY QueryDaysAssumption
  <2> QED
    BY <2>2, <2>3
<1>2. t \in Nat /\ n \in 1 .. N /\ n + 1 \in 1 .. N /\ calendar[n] <= t /\ t < calendar[n + 1]
  BY <1>1, QueryDaysAssumption DEF FallsOn, Times
<1>3. ASSUME SameDate(t, u) PROVE calendar[n] <= u /\ u < calendar[n + 1]
  <2>1. PICK m \in 1 .. N : FallsOn(t, m) /\ FallsOn(u, m)
    BY <1>1, <1>3 DEF SameDate
  <2>2. CASE m < n
    <3>1. m + 1 \in 1 .. N /\ (m + 1 = n \/ m + 1 < n) /\ m < N
      BY <1>1, <1>2, <2>2
    <3>2. calendar[m + 1] <= calendar[n]
      BY <1>1, <1>2, <3>1
    <3> QED
      BY <1>1, <1>2, <2>1, <3>1, <3>2 DEF FallsOn
  <2>3. CASE n < m
    <3>1. n + 1 = m \/ n + 1 < m
      BY <1>1, <1>2, <2>3
    <3>2. calendar[n + 1] <= calendar[m]
      BY <1>1, <1>2, <3>1
    <3> QED
      BY <1>1, <1>2, <2>1, <3>2 DEF FallsOn
  <2>4. CASE m = n
    BY <1>1, <1>2, <2>1, <2>4 DEF FallsOn
  <2> QED
    BY <1>1, <2>2, <2>3, <2>4
<1>4. ASSUME calendar[n] <= u, u < calendar[n + 1] PROVE SameDate(t, u)
  BY <1>1, <1>2, <1>4 DEF SameDate, FallsOn
<1> QED
  BY <1>1, <1>2, <1>3, <1>4

\* The time of a goroutine's step.
LEMMA StepTypes ==
    ASSUME DaysTypes, NEW w \in Nat, w >= 1
    PROVE  Step(w) \in Nat /\ DayLength \in Nat /\ DayLength > 0 /\ startTime \in Nat /\ endTime \in Nat
<1>1. DayLength \in Nat /\ DayLength > 0 /\ startTime \in Nat /\ endTime \in Nat
  BY QueryDaysAssumption DEF DaysTypes, Times
<1>2. w - 1 \in Nat
  OBVIOUS
<1>3. (w - 1) * DayLength \in Nat
  BY <1>1, <1>2
<1> QED
  BY <1>1, <1>3 DEF Step

\* Two steps do not fall on the same date if it is not longer than a step.
LEMMA MetOnce ==
    ASSUME DaysTypes, NEW t \in Times, calendar \in Calendars, NEW n \in 1 .. Len(calendar) - 1,
           Short(t, n), NEW v \in Nat, NEW w \in Nat, v >= 1, w >= 1, Hit(v, t), Hit(w, t)
    PROVE  v = w
<1>1. FallsOn(t, n) /\ calendar[n + 1] - calendar[n] <= DayLength
  BY DEF Short
<1>2. ASSUME NEW x \in Nat, x >= 1, Hit(x, t)
      PROVE  Step(x) \in Nat /\ calendar[n] <= Step(x) /\ Step(x) < calendar[n + 1]
  BY <1>1, <1>2, StepTypes, DatesApart DEF Hit
<1>3. calendar[n] \in Nat /\ calendar[n + 1] \in Nat /\ DayLength \in Nat /\ startTime \in Nat
  BY <1>1, StepTypes, DatesApart
<1>4. ASSUME NEW x \in Nat, NEW y \in Nat, x >= 1, y >= 1, Hit(x, t), Hit(y, t), x < y PROVE FALSE
  <2> DEFINE l == x - 1
             m == y - 1
  <2>1. l \in Nat /\ m \in Nat /\ l < m
    BY <1>4
  <2>2. Step(x) = startTime + l * DayLength /\ Step(y) = startTime + m * DayLength
    BY DEF Step
  <2> HIDE DEF l, m
  <2>3. l * DayLength + DayLength <= m * DayLength /\ l * DayLength \in Nat /\ m * DayLength \in Nat
    BY <1>3, <2>1, Apart
  <2>4. Step(x) + DayLength <= Step(y)
    BY <1>3, <2>2, <2>3
  <2>5. /\ Step(x) \in Nat /\ Step(y) \in Nat
        /\ calendar[n] <= Step(x) /\ Step(y) < calendar[n + 1]
    BY <1>2, <1>4
  <2> DEFINE p == Step(x)
             q == Step(y)
             low == calendar[n]
             high == calendar[n + 1]
  <2>6. /\ p \in Nat /\ q \in Nat /\ low \in Nat /\ high \in Nat /\ DayLength \in Nat
        /\ p + DayLength <= q /\ low <= p /\ q < high /\ high - low <= DayLength
    BY <1>1, <1>3, <2>4, <2>5
  <2> HIDE DEF p, q, low, high
  <2> QED
    BY <2>6
<1> QED
  BY <1>4

\* What a goroutine gets of the files of a tier.
LEMMA PointsOfTier ==
    ASSUME NEW files \in SUBSET Times, NEW w
    PROVE  /\ PointsOf(files, w) \in TimeBags
           /\ \A t \in Times : Copies(t, PointsOf(files, w)) = Indicator(t \in files /\ Hit(w, t))
<1> DEFINE S == {t \in files : Hit(w, t)}
<1>1. PointsOf(files, w) = SetToBag(S)
  <2>1. S = {t \in files : /\ SameDate(t, startTime + (w - 1) * DayLength)
                           /\ startTime <= t /\ t <= endTime}
    BY DEF Hit, InRange, Step
  <2> QED
    BY <2>1 DEF PointsOf
<1>2. S \in SUBSET Times
  OBVIOUS
<1>3. \A t \in Times : (t \in S) = (t \in files /\ Hit(w, t))
  OBVIOUS
<1> HIDE DEF S
<1> QED
  BY <1>1, <1>2, <1>3, CopiesOfSet

\* The arguments of the call do not change while it runs.
LEMMA RangeKept ==
    ASSUME UNCHANGED rangeVars
    PROVE  /\ \A w, t : Hit(w, t)' <=> Hit(w, t)
           /\ \A t, n : (Short(t, n)' <=> Short(t, n)) /\ (Long(t, n)' <=> Long(t, n))
           /\ \A t : InRange(t)' <=> InRange(t)
           /\ calendar' = calendar /\ startTime' = startTime /\ endTime' = endTime
  BY DEF rangeVars, Hit, InRange, SameDate, Step, FallsOn, Short, Long

LEMMA DaysInitInv == DaysInit => DaysInv
<1> SUFFICES ASSUME DaysInit PROVE DaysInv
  OBVIOUS
<1>1. EmptyBag \in TimeBags
  BY CopiesOfSet DEF EmptyBag
<1>2. reading = <<>> /\ found = <<>> /\ Len(reading) = 0 /\ Len(found) = 0 /\ calendar = <<>>
      /\ Len(calendar) = 0
  BY DEF DaysInit
<1>3. DaysTypes
  BY <1>1, <1>2, QueryDaysAssumption DEF DaysInit, DaysTypes, Times
<1> QED
  BY <1>2, <1>3 DEF DaysInv, DaysInit

LEMMA NoCopies == \A t : Copies(t, EmptyBag) = 0
  BY DEF Copies, EmptyBag, SetToBag, BagIn, BagToSet

LEMMA Indicators ==
    \A b \in BOOLEAN : Indicator(b) \in {0, 1} /\ (b => Indicator(b) = 1) /\ (~ b => Indicator(b) = 0)
  BY DEF Indicator

\* Each action keeps the invariant.
LEMMA QueryCallInv == DaysInv /\ QueryCall => DaysInv'
<1> SUFFICES ASSUME DaysInv, QueryCall PROVE DaysInv'
  OBVIOUS
<1>1. DaysTypes /\ queryPc = "idle" /\ reading = <<>> /\ allPoints = EmptyBag /\ Len(reading) = 0
  BY DEF DaysInv, DaysTypes, QueryCall
<1>2. /\ queryPc' = "loop" /\ calendar' \in Calendars /\ startTime' \in Times /\ endTime' \in Times
      /\ day' = startTime' /\ UNCHANGED <<hotFiles, coldFiles, reading, found, allPoints>>
  BY DEF QueryCall, Times
<1>3. DaysTypes'
  <2>1. day' \in Nat /\ day' = startTime' + Len(reading') * DayLength
    <3>1. 0 * DayLength = 0
      BY QueryDaysAssumption
    <3>2. startTime' \in Nat /\ Len(reading') = 0
      BY <1>1, <1>2 DEF Times
    <3> QED
      BY <1>2, <3>1, <3>2
  <2> QED
    BY <1>1, <1>2, <2>1 DEF DaysTypes
<1>4. ASSUME NEW t \in Times, NEW n PROVE AtMost(t, n)' /\ Met(t, n)'
  BY <1>1, <1>2, NoCopies DEF AtMost, Met
<1> QED
  BY <1>1, <1>2, <1>3, <1>4 DEF DaysInv

LEMMA StartDateInv == DaysInv /\ StartDate => DaysInv'
<1> SUFFICES ASSUME DaysInv, StartDate PROVE DaysInv'
  OBVIOUS
<1> DEFINE L == Len(reading)
           e == L + 1
<1>1. DaysTypes /\ queryPc = "loop" /\ queryPc' = "loop"
      /\ UNCHANGED <<rangeVars, hotFiles, coldFiles, queryPc, allPoints>>
  BY DEF DaysInv, StartDate
<1>2. /\ L \in Nat /\ reading' \in Seq(Stages) /\ Len(reading') = e /\ reading'[e] = "hot"
      /\ \A w \in 1 .. L : reading'[w] = reading[w]
  BY <1>1, AppendProperties, LenProperties DEF DaysTypes, StartDate, Stages
<1>3. /\ found' \in Seq(TimeBags) /\ Len(found') = e /\ found'[e] = EmptyBag
      /\ \A w \in 1 .. L : found'[w] = found[w]
  <2>1. EmptyBag \in TimeBags
    BY CopiesOfSet DEF EmptyBag
  <2>2. found \in Seq(TimeBags) /\ Len(found) = L /\ found' = Append(found, EmptyBag)
    BY <1>1 DEF DaysTypes, StartDate
  <2> HIDE DEF L
  <2> QED
    BY <2>1, <2>2, AppendProperties
<1>4. day = Step(e) /\ day' = day + DayLength /\ day \in Nat /\ DayLength \in Nat /\ DayLength > 0
      /\ startTime \in Nat /\ endTime \in Nat
  <2>1. day' = day + DayLength /\ day \in Nat /\ day = startTime + L * DayLength
    BY <1>1 DEF DaysTypes, StartDate
  <2>2. e - 1 = L /\ e \in Nat /\ e >= 1
    BY <1>2
  <2>3. Step(e) = startTime + L * DayLength
    BY <2>2 DEF Step
  <2> HIDE DEF e
  <2> QED
    BY <1>1, <2>1, <2>2, <2>3, StepTypes
<1>5. DaysTypes'
  <2>1. e * DayLength = L * DayLength + DayLength /\ L * DayLength \in Nat
    BY <1>2, <1>4
  <2>2. day' \in Nat /\ day' = startTime' + Len(reading') * DayLength
    BY <1>1, <1>2, <1>4, <2>1 DEF DaysTypes, rangeVars
  <2> HIDE DEF L
  <2> QED
    BY <1>1, <1>2, <1>3, <2>2 DEF DaysTypes, rangeVars
<1>6. /\ \A w, t : Hit(w, t)' <=> Hit(w, t)
      /\ \A t, n : (Short(t, n)' <=> Short(t, n)) /\ (Long(t, n)' <=> Long(t, n))
      /\ \A t : InRange(t)' <=> InRange(t)
      /\ calendar' = calendar
  BY <1>1, RangeKept, Zenon
<1> HIDE DEF e, L
<1>7. ASSUME NEW w \in 1 .. Len(reading'), NEW t \in Times PROVE FoundInv(w, t)' /\ AtLeast(w, t)'
  <2>1. CASE w = e
    BY <1>2, <1>3, <2>1, NoCopies DEF FoundInv, AtLeast
  <2>2. CASE w # e
    <3>1. w \in 1 .. L /\ reading'[w] = reading[w] /\ found'[w] = found[w]
      BY <1>2, <1>3, <2>2 DEF e
    <3>2. FoundInv(w, t) /\ AtLeast(w, t)
      BY <3>1 DEF DaysInv, L
    <3> QED
      BY <1>1, <1>6, <3>1, <3>2 DEF FoundInv, AtLeast
  <2> QED
    BY <2>1, <2>2
<1>8. ASSUME NEW t \in Times, NEW n \in 1 .. Len(calendar) - 1 PROVE AtMost(t, n)' /\ Met(t, n)'
  <2>0. AtMost(t, n) /\ Met(t, n)
    BY DEF DaysInv
  <2>1. AtMost(t, n)'
    <3>1. SUFFICES ASSUME Short(t, n), Copies(t, allPoints) # 0
                   PROVE  \E w \in 1 .. Len(reading') :
                            reading'[w] = "done" /\ Copies(t, allPoints) = Copies(t, found'[w])
      BY <1>1, <1>6 DEF AtMost
    <3>2. PICK w \in 1 .. L : reading[w] = "done" /\ Copies(t, allPoints) = Copies(t, found[w])
      BY <2>0, <3>1 DEF AtMost, L
    <3>3. w \in 1 .. Len(reading') /\ reading'[w] = "done" /\ found'[w] = found[w]
      BY <1>2, <1>3, <3>2 DEF e
    <3> QED
      BY <3>2, <3>3
  <2>2. Met(t, n)'
    <3>1. SUFFICES ASSUME Long(t, n), InRange(t), ~ \E w \in 1 .. Len(reading') : Hit(w, t)
                   PROVE  day' < calendar[n] + DayLength
      BY <1>6 DEF Met
    <3>2. ~ Hit(e, t) /\ ~ \E w \in 1 .. L : Hit(w, t)
      BY <1>2, <3>1 DEF e
    <3>3. calendar \in Calendars /\ FallsOn(t, n) /\ calendar[n + 1] - calendar[n] >= DayLength
      BY <1>1, <3>1 DEF Long, DaysTypes
    <3>4. /\ SameDate(t, day) <=> calendar[n] <= day /\ day < calendar[n + 1]
          /\ calendar[n] \in Nat /\ calendar[n + 1] \in Nat
          /\ calendar[n] <= t /\ t < calendar[n + 1]
      BY <1>4, <3>3, DatesApart
    <3>5. ~ SameDate(t, day)
      BY <1>4, <3>1, <3>2 DEF Hit
    <3>6. day < calendar[n + 1]
      <4>1. CASE reading = <<>>
        <5>1. L = 0 /\ day = startTime + 0 * DayLength
          BY <1>1, <4>1 DEF L, DaysTypes
        <5>2. t \in Nat
          BY QueryDaysAssumption DEF Times
        <5> QED
          BY <1>4, <3>1, <3>4, <5>1, <5>2 DEF InRange
      <4>2. CASE day < calendar[n] + DayLength
        BY <1>4, <3>3, <3>4, <4>2
      <4> QED
        BY <2>0, <3>1, <3>2, <4>1, <4>2 DEF Met, L
    <3> QED
      BY <1>4, <3>4, <3>5, <3>6
  <2> QED
    BY <2>1, <2>2
<1> QED
  BY <1>1, <1>5, <1>6, <1>7, <1>8 DEF DaysInv

LEMMA QueryReturnInv == DaysInv /\ QueryReturn => DaysInv'
<1> SUFFICES ASSUME DaysInv, QueryReturn PROVE DaysInv'
  OBVIOUS
<1>1. /\ queryPc = "loop" /\ queryPc' = "returned" /\ ~ MoreDates
      /\ \A w \in 1 .. Len(reading) : reading[w] = "done"
      /\ UNCHANGED <<rangeVars, hotFiles, coldFiles, day, reading, found, allPoints>>
  <2>1. DOMAIN reading = 1 .. Len(reading)
    BY LenProperties DEF DaysInv, DaysTypes
  <2> QED
    BY <2>1 DEF QueryReturn
<1>2. /\ \A w, t : Hit(w, t)' <=> Hit(w, t)
      /\ \A t, n : (Short(t, n)' <=> Short(t, n)) /\ (Long(t, n)' <=> Long(t, n))
      /\ \A t : InRange(t)' <=> InRange(t)
      /\ calendar' = calendar /\ startTime' = startTime /\ endTime' = endTime
  BY <1>1, RangeKept, Zenon
<1>3. DaysTypes'
  BY <1>1, <1>2 DEF DaysInv, DaysTypes
<1>4. ASSUME NEW w \in 1 .. Len(reading), NEW t \in Times PROVE FoundInv(w, t)' /\ AtLeast(w, t)'
  <2>1. FoundInv(w, t) /\ AtLeast(w, t)
    BY DEF DaysInv
  <2> QED
    BY <1>1, <1>2, <2>1 DEF FoundInv, AtLeast
<1>5. ASSUME NEW t \in Times, NEW n \in 1 .. Len(calendar) - 1 PROVE AtMost(t, n)' /\ Met(t, n)'
  <2>1. AtMost(t, n) /\ Met(t, n)
    BY DEF DaysInv
  <2> QED
    BY <1>1, <1>2, <2>1 DEF AtMost, Met
<1>6. ~ MoreDates'
  BY <1>1, <1>2 DEF MoreDates
<1> QED
  BY <1>1, <1>2, <1>3, <1>4, <1>5, <1>6 DEF DaysInv

LEMMA FlushPointInv == ASSUME DaysInv, NEW p \in LatePoints, FlushPoint(p) PROVE DaysInv'
<1>1. /\ hotFiles' = hotFiles \union {p}
      /\ UNCHANGED <<rangeVars, coldFiles, queryPc, day, reading, found, allPoints>>
  BY DEF FlushPoint
<1>2. /\ \A w, t : Hit(w, t)' <=> Hit(w, t)
      /\ \A t, n : (Short(t, n)' <=> Short(t, n)) /\ (Long(t, n)' <=> Long(t, n))
      /\ \A t : InRange(t)' <=> InRange(t)
      /\ calendar' = calendar /\ startTime' = startTime /\ endTime' = endTime
  BY <1>1, RangeKept, Zenon
<1>3. DaysTypes'
  BY <1>1, <1>2 DEF DaysInv, DaysTypes
<1>4. ASSUME NEW w \in 1 .. Len(reading), NEW t \in Times PROVE FoundInv(w, t)' /\ AtLeast(w, t)'
  <2>1. FoundInv(w, t) /\ AtLeast(w, t)
    BY DEF DaysInv
  <2> QED
    BY <1>1, <1>2, <2>1 DEF FoundInv, AtLeast
<1>5. ASSUME NEW t \in Times, NEW n \in 1 .. Len(calendar) - 1 PROVE AtMost(t, n)' /\ Met(t, n)'
  <2>1. AtMost(t, n) /\ Met(t, n)
    BY DEF DaysInv
  <2> QED
    BY <1>1, <1>2, <2>1 DEF AtMost, Met
<1>6. MoreDates' <=> MoreDates
  BY <1>1, <1>2 DEF MoreDates
<1> QED
  BY <1>1, <1>2, <1>3, <1>4, <1>5, <1>6 DEF DaysInv

LEMMA ReadTierInv ==
    ASSUME DaysInv, NEW v \in DOMAIN reading, ReadHot(v) \/ ReadCold(v)
    PROVE  DaysInv'
<1>1. /\ UNCHANGED <<rangeVars, hotFiles, coldFiles, queryPc, day, allPoints>>
      /\ DaysTypes /\ DOMAIN reading = 1 .. Len(reading) /\ v \in 1 .. Len(reading)
      /\ Len(reading) \in Nat /\ reading \in Seq(Stages) /\ found \in Seq(TimeBags)
      /\ Len(found) = Len(reading)
  BY LenProperties DEF DaysInv, DaysTypes, ReadHot, ReadCold, ReadTier
<1>2. PICK files \in SUBSET Times, to \in {"cold", "append"} :
        /\ found' = [found EXCEPT ![v] = @ (+) PointsOf(files, v)]
        /\ reading' = [reading EXCEPT ![v] = to]
        /\ \/ reading[v] = "hot" /\ to = "cold" /\ files = hotFiles
           \/ reading[v] = "cold" /\ to = "append" /\ files = ColdPoints
  <2>1. hotFiles \in SUBSET Times /\ coldFiles = ColdPoints /\ ColdPoints \in SUBSET Times
    BY <1>1, QueryDaysAssumption DEF DaysTypes, Times
  <2> QED
    BY <2>1 DEF ReadHot, ReadCold, ReadTier
<1> DEFINE b == found[v] (+) PointsOf(files, v)
<1>3. /\ found[v] \in TimeBags /\ b \in TimeBags
      /\ \A t \in Times : /\ Copies(t, found[v]) \in Nat
                          /\ Copies(t, b) = Copies(t, found[v]) + Indicator(t \in files /\ Hit(v, t))
  <2>1. found[v] \in TimeBags
    BY <1>1, ElementOfSeq
  <2>2. /\ PointsOf(files, v) \in TimeBags
        /\ \A t \in Times : Copies(t, PointsOf(files, v)) = Indicator(t \in files /\ Hit(v, t))
    BY PointsOfTier
  <2> QED
    BY <2>1, <2>2, CopiesSum
<1> HIDE DEF b
<1>4. /\ found' \in Seq(TimeBags) /\ Len(found') = Len(reading) /\ found'[v] = b
      /\ \A w \in 1 .. Len(reading) : w # v => found'[w] = found[w]
  <2>1. found' = [found EXCEPT ![v] = b]
    BY <1>2 DEF b
  <2> QED
    BY <1>1, <1>3, <2>1, ExceptSeq
<1>5. /\ reading' \in Seq(Stages) /\ Len(reading') = Len(reading) /\ reading'[v] = to
      /\ \A w \in 1 .. Len(reading) : w # v => reading'[w] = reading[w]
  <2>1. to \in Stages
    BY DEF Stages
  <2> QED
    BY <1>1, <1>2, <2>1, ExceptSeq
<1>6. /\ \A w, t : Hit(w, t)' <=> Hit(w, t)
      /\ \A t, n : (Short(t, n)' <=> Short(t, n)) /\ (Long(t, n)' <=> Long(t, n))
      /\ \A t : InRange(t)' <=> InRange(t)
      /\ calendar' = calendar /\ startTime' = startTime /\ endTime' = endTime
  BY <1>1, RangeKept, Zenon
<1>7. DaysTypes'
  <2>1. queryPc # "idle"
    BY <1>1 DEF DaysTypes
  <2> QED
    BY <1>1, <1>4, <1>5, <1>6, <2>1 DEF DaysTypes
<1>8. ASSUME NEW w \in 1 .. Len(reading), NEW t \in Times PROVE FoundInv(w, t)' /\ AtLeast(w, t)'
  <2>0. FoundInv(w, t) /\ AtLeast(w, t)
    BY DEF DaysInv
  <2>1. CASE w # v
    BY <1>1, <1>4, <1>5, <1>6, <2>0, <2>1 DEF FoundInv, AtLeast
  <2>2. CASE w = v
    <3> DEFINE k == Copies(t, found[v])
               i == Indicator(t \in HotPoints)
               j == Indicator(t \in ColdPoints)
               l == Indicator(t \in LatePoints)
               m == Indicator(t \in files /\ Hit(v, t))
    <3>1. k \in Nat /\ Copies(t, b) = k + m /\ found'[v] = b /\ reading'[v] = to
      BY <1>3, <1>4, <1>5
    <3>2. i \in Nat /\ j \in Nat /\ l \in Nat /\ Stored(t) = i + j
      <4>1. i \in Nat /\ j \in Nat /\ l \in Nat
        BY DEF Indicator
      <4> HIDE DEF i, j, l
      <4> QED
        BY <4>1 DEF Stored, i, j
    <3>3. /\ reading[v] = "hot" \/ ~ Hit(v, t) => k = 0
          /\ Hit(v, t) /\ reading[v] = "cold" => i <= k /\ k <= i + l
      BY <2>0, <2>2 DEF FoundInv
    <3>4. ~ Hit(v, t) => m = 0
      BY Indicators
    <3>5. Hit(v, t) /\ files = hotFiles => i <= m /\ m <= i + l
      <4>1. (t \in HotPoints => t \in hotFiles) /\ (t \in hotFiles => t \in HotPoints \/ t \in LatePoints)
        BY <1>1 DEF DaysTypes
      <4> QED
        BY <4>1 DEF Indicator
    <3>6. Hit(v, t) /\ files = ColdPoints => m = j
      BY DEF Indicator
    <3> HIDE DEF k, i, j, l, m
    <3>7. /\ ~ Hit(v, t) => k + m = 0
          /\ Hit(v, t) /\ to = "cold" => i <= k + m /\ k + m <= i + l
          /\ Hit(v, t) /\ to = "append" => i + j <= k + m /\ k + m <= i + j + l
      <4>1. \/ reading[v] = "hot" /\ to = "cold" /\ files = hotFiles
            \/ reading[v] = "cold" /\ to = "append" /\ files = ColdPoints
        BY <1>2
      <4>2. m \in Nat
        BY DEF m, Indicator
      <4>3. CASE ~ Hit(v, t)
        BY <3>3, <3>4, <4>3
      <4>4. CASE Hit(v, t) /\ reading[v] = "hot" /\ to = "cold" /\ files = hotFiles
        BY <3>2, <3>3, <3>5, <4>2, <4>4
      <4>5. CASE Hit(v, t) /\ reading[v] = "cold" /\ to = "append" /\ files = ColdPoints
        BY <3>1, <3>2, <3>3, <3>6, <4>5
      <4> QED
        BY <4>1, <4>3, <4>4, <4>5
    <3>8. to # "hot" /\ to # "done" /\ (Hit(v, t)' <=> Hit(v, t)) /\ Copies(t, found'[v]) = k + m
      BY <1>2, <1>6, <3>1
    <3>9. Stored(t)' = Stored(t) /\ i = Indicator(t \in HotPoints) /\ l = Indicator(t \in LatePoints)
      BY DEF i, l, Stored
    <3>10. FoundInv(v, t)'
      BY <3>1, <3>2, <3>7, <3>8, <3>9 DEF FoundInv
    <3> QED
      BY <2>2, <3>1, <3>8, <3>10 DEF AtLeast
  <2> QED
    BY <2>1, <2>2
<1>9. ASSUME NEW t \in Times, NEW n \in 1 .. Len(calendar) - 1 PROVE AtMost(t, n)' /\ Met(t, n)'
  <2>1. AtMost(t, n) /\ Met(t, n)
    BY DEF DaysInv
  <2>2. reading # <<>> /\ reading' # <<>> /\ reading[v] # "done"
    <3>1. Len(reading) # 0
      BY <1>1
    <3> QED
      BY <1>2, <1>5, <3>1, EmptySeq
  <2>3. AtMost(t, n)'
    BY <1>1, <1>4, <1>5, <1>6, <2>1, <2>2 DEF AtMost
  <2>4. Met(t, n)'
    BY <1>1, <1>5, <1>6, <2>1, <2>2 DEF Met
  <2> QED
    BY <2>3, <2>4
<1>10. queryPc' # "returned"
  BY <1>1, <1>2 DEF DaysInv
<1> QED
  BY <1>5, <1>6, <1>7, <1>8, <1>9, <1>10 DEF DaysInv

LEMMA AppendPointsInv ==
    ASSUME DaysInv, NEW v \in DOMAIN reading, AppendPoints(v)
    PROVE  DaysInv'
<1>1. /\ UNCHANGED <<rangeVars, hotFiles, coldFiles, queryPc, day, found>>
      /\ reading[v] = "append" /\ reading' = [reading EXCEPT ![v] = "done"]
      /\ allPoints' = allPoints (+) found[v]
      /\ DaysTypes /\ DOMAIN reading = 1 .. Len(reading) /\ v \in 1 .. Len(reading)
      /\ Len(reading) \in Nat /\ reading \in Seq(Stages) /\ found \in Seq(TimeBags)
      /\ Len(found) = Len(reading) /\ allPoints \in TimeBags
  BY LenProperties DEF DaysInv, DaysTypes, AppendPoints
<1>2. /\ reading' \in Seq(Stages) /\ Len(reading') = Len(reading) /\ reading'[v] = "done"
      /\ \A w \in 1 .. Len(reading) : w # v => reading'[w] = reading[w]
  <2>1. "done" \in Stages
    BY DEF Stages
  <2> QED
    BY <1>1, <2>1, ExceptSeq
<1>3. /\ allPoints' \in TimeBags
      /\ \A t \in Times : /\ Copies(t, found[v]) \in Nat /\ Copies(t, allPoints) \in Nat
                          /\ Copies(t, allPoints') = Copies(t, allPoints) + Copies(t, found[v])
  <2>1. found[v] \in TimeBags
    BY <1>1, ElementOfSeq
  <2> QED
    BY <1>1, <2>1, CopiesSum
<1>4. /\ \A w, t : Hit(w, t)' <=> Hit(w, t)
      /\ \A t, n : (Short(t, n)' <=> Short(t, n)) /\ (Long(t, n)' <=> Long(t, n))
      /\ \A t : InRange(t)' <=> InRange(t)
      /\ calendar' = calendar /\ startTime' = startTime /\ endTime' = endTime
  BY <1>1, RangeKept, Zenon
<1>5. queryPc # "idle" /\ calendar \in Calendars
  BY <1>1 DEF DaysTypes
<1>6. DaysTypes'
  BY <1>1, <1>2, <1>3, <1>4, <1>5 DEF DaysTypes
<1>7. ASSUME NEW w \in 1 .. Len(reading), NEW t \in Times PROVE FoundInv(w, t)' /\ AtLeast(w, t)'
  <2>0. FoundInv(w, t) /\ AtLeast(w, t) /\ found' = found
    BY <1>1 DEF DaysInv
  <2>1. Copies(t, found[w]) \in Nat
    <3>1. found[w] \in TimeBags
      BY <1>1, ElementOfSeq
    <3> QED
      BY <1>1, <3>1, CopiesSum
  <2>2. CASE w # v
    BY <1>1, <1>2, <1>3, <1>4, <2>0, <2>1, <2>2 DEF FoundInv, AtLeast
  <2>3. CASE w = v
    <3>1. FoundInv(v, t)'
      BY <1>1, <1>2, <1>4, <2>0, <2>3 DEF FoundInv
    <3>2. AtLeast(v, t)'
      BY <1>2, <1>3, <2>0 DEF AtLeast
    <3> QED
      BY <2>3, <3>1, <3>2
  <2> QED
    BY <2>2, <2>3
<1>8. ASSUME NEW t \in Times, NEW n \in 1 .. Len(calendar) - 1 PROVE AtMost(t, n)' /\ Met(t, n)'
  <2>0. AtMost(t, n) /\ Met(t, n)
    BY DEF DaysInv
  <2>1. AtMost(t, n)'
    <3>1. SUFFICES ASSUME Short(t, n), Copies(t, allPoints') # 0
                   PROVE  \E w \in 1 .. Len(reading) :
                            reading'[w] = "done" /\ Copies(t, allPoints') = Copies(t, found[w])
      BY <1>1, <1>2, <1>4 DEF AtMost
    <3>2. CASE Copies(t, allPoints) = 0
      BY <1>1, <1>2, <1>3, <3>2
    <3>3. CASE Copies(t, allPoints) # 0
      <4>1. PICK w \in 1 .. Len(reading) :
                reading[w] = "done" /\ Copies(t, allPoints) = Copies(t, found[w])
        BY <2>0, <3>1, <3>3 DEF AtMost
      <4>2. w # v /\ w \in Nat /\ w >= 1 /\ v \in Nat /\ v >= 1
        BY <1>1, <4>1
      <4>3. FoundInv(w, t) /\ FoundInv(v, t)
        BY <1>1 DEF DaysInv
      <4>4. Hit(w, t)
        BY <3>3, <4>1, <4>3 DEF FoundInv
      <4>5. ~ Hit(v, t)
        BY <1>1, <1>5, <3>1, <4>2, <4>4, MetOnce
      <4>6. Copies(t, found[v]) = 0
        BY <4>3, <4>5 DEF FoundInv
      <4> QED
        BY <1>2, <1>3, <4>1, <4>2, <4>6
    <3> QED
      BY <3>2, <3>3
  <2>2. reading # <<>>
    <3>1. Len(reading) # 0
      BY <1>1
    <3> QED
      BY <3>1, EmptySeq
  <2>3. Met(t, n)'
    BY <1>1, <1>2, <1>4, <2>0, <2>2 DEF Met
  <2> QED
    BY <2>1, <2>3
<1>9. queryPc' # "returned"
  BY <1>1 DEF DaysInv
<1> QED
  BY <1>2, <1>4, <1>6, <1>7, <1>8, <1>9 DEF DaysInv

LEMMA DaysStepInv == DaysInv /\ [DaysNext]_daysVars => DaysInv'
<1> SUFFICES ASSUME DaysInv, [DaysNext]_daysVars PROVE DaysInv'
  OBVIOUS
<1>1. CASE UNCHANGED daysVars
  <2>1. /\ UNCHANGED rangeVars /\ queryPc' = queryPc /\ day' = day /\ reading' = reading
        /\ found' = found /\ allPoints' = allPoints /\ hotFiles' = hotFiles /\ coldFiles' = coldFiles
    BY <1>1 DEF daysVars, rangeVars
  <2>2. /\ \A w, t : Hit(w, t)' <=> Hit(w, t)
        /\ \A t, n : (Short(t, n)' <=> Short(t, n)) /\ (Long(t, n)' <=> Long(t, n))
        /\ \A t : InRange(t)' <=> InRange(t)
        /\ calendar' = calendar /\ startTime' = startTime /\ endTime' = endTime
    BY <2>1, RangeKept, Zenon
  <2>3. DaysTypes'
    BY <2>1, <2>2 DEF DaysInv, DaysTypes
  <2>4. ASSUME NEW w \in 1 .. Len(reading), NEW t \in Times PROVE FoundInv(w, t)' /\ AtLeast(w, t)'
    <3>1. FoundInv(w, t) /\ AtLeast(w, t)
      BY DEF DaysInv
    <3> QED
      BY <2>1, <2>2, <3>1 DEF FoundInv, AtLeast
  <2>5. ASSUME NEW t \in Times, NEW n \in 1 .. Len(calendar) - 1 PROVE AtMost(t, n)' /\ Met(t, n)'
    <3>1. AtMost(t, n) /\ Met(t, n)
      BY DEF DaysInv
    <3> QED
      BY <2>1, <2>2, <3>1 DEF AtMost, Met
  <2>6. MoreDates' <=> MoreDates
    BY <2>1, <2>2 DEF MoreDates
  <2> QED
    BY <2>1, <2>2, <2>3, <2>4, <2>5, <2>6 DEF DaysInv
<1>2. CASE QueryCall \/ StartDate \/ QueryReturn
  BY <1>2, QueryCallInv, StartDateInv, QueryReturnInv
<1>3. ASSUME NEW w \in DOMAIN reading, ReadHot(w) \/ ReadCold(w) \/ AppendPoints(w) PROVE DaysInv'
  BY <1>3, ReadTierInv, AppendPointsInv
<1>4. ASSUME NEW t \in LatePoints, FlushPoint(t) PROVE DaysInv'
  BY <1>4, FlushPointInv
<1> QED
  BY <1>1, <1>2, <1>3, <1>4, Zenon DEF DaysNext

LEMMA DaysInvImplies == DaysInv => EachDateOnce
<1> SUFFICES ASSUME DaysInv, queryPc = "returned", NEW t \in Times,
                    NEW n \in 1 .. Len(calendar) - 1, FallsOn(t, n)
             PROVE  LET length == calendar[n + 1] - calendar[n]
                        stored == IF startTime <= t /\ t <= endTime THEN Stored(t) ELSE 0
                        late == Indicator(startTime <= t /\ t <= endTime /\ t \in LatePoints)
                        copies == Copies(t, allPoints)
                    IN  /\ length >= DayLength => copies >= stored
                        /\ length <= DayLength => copies <= stored + late
  BY DEF EachDateOnce, Times
<1> DEFINE copies == Copies(t, allPoints)
           late == Indicator(t \in LatePoints)
<1>1. /\ DaysTypes /\ ~ MoreDates /\ calendar \in Calendars /\ allPoints \in TimeBags
      /\ AtMost(t, n) /\ Met(t, n)
      /\ \A w \in 1 .. Len(reading) : reading[w] = "done" /\ FoundInv(w, t) /\ AtLeast(w, t)
  BY DEF DaysInv, DaysTypes
<1>2. copies \in Nat /\ Stored(t) \in Nat /\ late \in Nat
  <2>1. copies \in Nat
    BY <1>1, CopiesSum
  <2>2. Stored(t) \in Nat /\ late \in Nat
    BY DEF Stored, Indicator
  <2> QED
    BY <2>1, <2>2
<1>3. \A w \in 1 .. Len(reading) : Copies(t, found[w]) \in Nat
  <2>1. \A w \in 1 .. Len(reading) : found[w] \in TimeBags
    BY <1>1, ElementOfSeq DEF DaysTypes
  <2> QED
    BY <2>1, CopiesSum
<1>4. ASSUME Long(t, n), InRange(t) PROVE copies >= Stored(t)
  <2>1. \E w \in 1 .. Len(reading) : Hit(w, t)
    <3>1. /\ startTime \in Nat /\ endTime \in Nat /\ day \in Nat /\ t \in Nat
          /\ DayLength \in Nat /\ DayLength > 0
      BY <1>1, QueryDaysAssumption DEF DaysTypes, Times
    <3>2. calendar[n] \in Nat /\ calendar[n] <= t
      BY <1>1, DatesApart, <3>1
    <3>3. day >= endTime + DayLength
      BY <1>1, <3>1 DEF MoreDates
    <3>4. reading # <<>>
      <4>1. reading = <<>> => day = startTime + 0 * DayLength
        BY <1>1 DEF DaysTypes
      <4> QED
        BY <1>4, <3>1, <3>3, <4>1 DEF InRange
    <3>5. ~ (day < calendar[n] + DayLength)
      BY <1>4, <3>1, <3>2, <3>3 DEF InRange
    <3> QED
      BY <1>1, <1>4, <3>4, <3>5 DEF Met
  <2>2. PICK w \in 1 .. Len(reading) : Hit(w, t)
    BY <2>1
  <2>3. Stored(t) <= Copies(t, found[w]) /\ Copies(t, found[w]) <= copies
    BY <1>1, <2>2 DEF FoundInv, AtLeast
  <2> QED
    BY <1>2, <1>3, <2>3
<1>5. ASSUME Short(t, n)
      PROVE  copies = 0 \/ (InRange(t) /\ copies <= Stored(t) + late)
  <2>1. SUFFICES ASSUME copies # 0 PROVE InRange(t) /\ copies <= Stored(t) + late
    OBVIOUS
  <2>2. PICK w \in 1 .. Len(reading) : copies = Copies(t, found[w])
    BY <1>1, <1>5, <2>1 DEF AtMost
  <2>3. Hit(w, t)
    BY <1>1, <2>1, <2>2 DEF FoundInv
  <2> QED
    BY <1>1, <2>2, <2>3 DEF FoundInv, Hit
<1>6. ~ InRange(t) => Indicator(startTime <= t /\ t <= endTime /\ t \in LatePoints) = 0
  BY DEF Indicator, InRange
<1>7. InRange(t) => Indicator(startTime <= t /\ t <= endTime /\ t \in LatePoints) = late
  BY DEF Indicator, InRange
<1> HIDE DEF copies, late
<1>8. InRange(t) <=> startTime <= t /\ t <= endTime
  BY DEF InRange
<1> QED
  BY <1>2, <1>4, <1>5, <1>6, <1>7, <1>8 DEF Long, Short, copies

\* Whatever the goroutines' order, the range of the call and the points that are
\* flushed meanwhile, a Query that returned has each stored point of its range as
\* often as it is stored, on every date of 24 hours.
THEOREM EveryDateOnce == DaysSpec => []EachDateOnce
<1>1. DaysInv => EachDateOnce
  BY DaysInvImplies
<1> QED
  BY <1>1, DaysInitInv, DaysStepInv, PTL DEF DaysSpec

-----------------------------------------------------------------------------
(* The table cache: what a clearing that returns without an error has        *)
(* cleared.                                                                  *)

\* Types: the keys a call works on are keys, and its pattern is one of three.
CacheTypes ==
    /\ kpc \in [Clearers -> {"idle", "scan", "del", "ok", "error"}]
    /\ goal \in [Clearers -> Goals \union {"all"}]
    /\ pattern \in [Clearers -> 1 .. 3]
    /\ unseen \in [Clearers -> SUBSET Keys]
    /\ batch \in [Clearers -> SUBSET Keys]
    /\ cursorZero \in [Clearers -> BOOLEAN]
    /\ fresh \in [Clearers -> SUBSET Keys]

\* The keys of pattern n that call c may leave behind are among ks.
LeavesOnly(c, n, ks) == cached \intersect Matching(goal[c], n) \subseteq ks

\* The patterns that are done have left only keys set since; the one at hand
\* leaves, besides, what the scan still has to return and what it has in hand.
ClearInv(c) ==
    /\ kpc[c] \in {"scan", "del", "ok"} =>
            \A n \in 1 .. 3 : n < pattern[c] => LeavesOnly(c, n, fresh[c])
    /\ kpc[c] = "scan" => LeavesOnly(c, pattern[c], fresh[c] \union unseen[c])
    /\ kpc[c] = "del" => LeavesOnly(c, pattern[c], fresh[c] \union unseen[c] \union batch[c])
    /\ kpc[c] = "del" /\ cursorZero[c] => unseen[c] = {}
    /\ kpc[c] = "ok" => \A n \in 1 .. 3 : LeavesOnly(c, n, fresh[c])

CacheInv == CacheTypes /\ \A c \in Clearers : ClearInv(c)

\* The patterns are three.
LEMMA ThreePatterns == Len(Patterns) = 3 /\ DOMAIN Patterns = 1 .. 3
  BY DEF Patterns

\* The invariant holds at the start.
LEMMA CacheInitInv == CacheInit => CacheInv
  BY SMT DEF CacheInit, CacheInv, CacheTypes, ClearInv

\* A step of another call, or of another client, that adds to the cache only
\* keys it adds to fresh, and takes from unseen and from a portion at hand only
\* keys it takes from the cache, leaves the invariant of a call alone.
LEMMA OthersKeep ==
  ASSUME NEW c \in Clearers, ClearInv(c),
         kpc'[c] = kpc[c], goal'[c] = goal[c], pattern'[c] = pattern[c],
         batch'[c] = batch[c], cursorZero'[c] = cursorZero[c],
         fresh[c] \subseteq fresh'[c],
         unseen'[c] \subseteq unseen[c],
         cached' \subseteq cached \union fresh'[c],
         cached' \intersect unseen[c] \subseteq unseen'[c] \union fresh'[c]
  PROVE  ClearInv(c)'
  BY DEF ClearInv, LeavesOnly, Matching

\* Every step keeps the invariant.
LEMMA CacheStepInv == CacheInv /\ [CacheNext]_cacheVars => CacheInv'
<1> SUFFICES ASSUME CacheInv, [CacheNext]_cacheVars
             PROVE  CacheInv'
  OBVIOUS
<1> USE ThreePatterns
<1> DEFINE Stays(x) == ClearInv(x)'
<1>0. CacheTypes /\ \A x \in Clearers : ClearInv(x)
  BY DEF CacheInv
<1>1. ASSUME NEW c \in Clearers, Begin(c) PROVE CacheInv'
  <2>1. PICK g \in Goals \union {"all"} : ScanPattern(c, g, 1)
    BY <1>1 DEF Begin
  <2>2. CacheTypes'
    BY <1>0, <1>1, <2>1 DEF CacheTypes, Begin, ScanPattern, Matching
  <2>3. Stays(c)
    BY <1>0, <1>1, <2>1, <2>2 DEF CacheTypes, Begin, ScanPattern, ClearInv, LeavesOnly, Matching
  <2>4. ASSUME NEW x \in Clearers, x # c PROVE Stays(x)
    <3>1. /\ kpc'[x] = kpc[x] /\ goal'[x] = goal[x] /\ pattern'[x] = pattern[x]
          /\ batch'[x] = batch[x] /\ cursorZero'[x] = cursorZero[x]
          /\ fresh'[x] = fresh[x] /\ unseen'[x] = unseen[x] /\ cached' = cached
      BY <1>0, <1>1, <2>1, <2>4 DEF CacheTypes, Begin, ScanPattern
    <3> QED BY <1>0, <3>1, OthersKeep
  <2> QED BY <2>2, <2>3, <2>4 DEF CacheInv
<1>2. ASSUME NEW c \in Clearers, Scan(c) PROVE CacheInv'
  <2>1. CacheTypes'
    BY <1>0, <1>2 DEF CacheTypes, Scan, Matching, where
  <2>2. Stays(c)
    BY <1>0, <1>2 DEF CacheTypes, Scan, ClearInv, LeavesOnly, Matching, where
  <2>3. ASSUME NEW x \in Clearers, x # c PROVE Stays(x)
    <3>1. /\ kpc'[x] = kpc[x] /\ goal'[x] = goal[x] /\ pattern'[x] = pattern[x]
          /\ batch'[x] = batch[x] /\ cursorZero'[x] = cursorZero[x]
          /\ fresh'[x] = fresh[x] /\ unseen'[x] = unseen[x] /\ cached' = cached
      BY <1>0, <1>2, <2>3 DEF CacheTypes, Scan, where
    <3> QED BY <1>0, <3>1, OthersKeep
  <2> QED BY <2>1, <2>2, <2>3 DEF CacheInv
<1>3. ASSUME NEW c \in Clearers, Del(c) PROVE CacheInv'
  <2>1. CacheTypes'
    BY <1>0, <1>3 DEF CacheTypes, Del, Gone, where
  <2>2. Stays(c)
    BY <1>0, <1>3 DEF CacheTypes, Del, Gone, ClearInv, LeavesOnly, Matching, where
  <2>3. ASSUME NEW x \in Clearers, x # c PROVE Stays(x)
    <3>1. /\ kpc'[x] = kpc[x] /\ goal'[x] = goal[x] /\ pattern'[x] = pattern[x]
          /\ batch'[x] = batch[x] /\ cursorZero'[x] = cursorZero[x]
          /\ fresh'[x] = fresh[x] /\ unseen'[x] = unseen[x] \ batch[c]
          /\ cached' = cached \ batch[c]
      BY <1>0, <1>3, <2>3 DEF CacheTypes, Del, Gone, where
    <3> QED BY <1>0, <3>1, OthersKeep
  <2> QED BY <2>1, <2>2, <2>3 DEF CacheInv
<1>4. ASSUME NEW c \in Clearers, AfterPortion(c) PROVE CacheInv'
  <2> USE DEF CacheTypes, AfterPortion, ScanPattern, where
  <2>1. CacheTypes'
    BY <1>0, <1>4 DEF Matching
  <2>2. Stays(c)
    <3>1. CASE ~ cursorZero[c]
      BY <1>0, <1>4, <3>1 DEF ClearInv, LeavesOnly
    <3>2. CASE cursorZero[c] /\ pattern[c] < 3
      <4>1. LeavesOnly(c, pattern[c], fresh[c])
        BY <1>0, <1>4, <3>2 DEF ClearInv, LeavesOnly
      <4>2. \A n \in 1 .. 3 : n < pattern[c] + 1 => LeavesOnly(c, n, fresh[c])
        <5>1. pattern[c] \in 1 .. 3 /\ kpc[c] = "del"
          BY <1>0, <1>4
        <5>2. \A n \in 1 .. 3 : n < pattern[c] => LeavesOnly(c, n, fresh[c])
          BY <1>0, <5>1, Zenon DEF ClearInv
        <5>3. ASSUME NEW n \in 1 .. 3, n < pattern[c] + 1 PROVE n < pattern[c] \/ n = pattern[c]
          BY <5>1, <5>3, SMT
        <5> QED BY <4>1, <5>2, <5>3, Zenon
      <4>3. /\ kpc'[c] = "scan" /\ goal'[c] = goal[c] /\ pattern'[c] = pattern[c] + 1
            /\ unseen'[c] = cached \intersect Matching(goal[c], pattern[c] + 1)
            /\ fresh' = fresh /\ cached' = cached
        BY <1>0, <1>4, <3>2
      <4> QED BY <4>2, <4>3 DEF ClearInv, LeavesOnly, Matching
    <3>3. CASE cursorZero[c] /\ pattern[c] = 3
      <4>1. \A n \in 1 .. 3 : LeavesOnly(c, n, fresh[c])
        BY <1>0, <1>4, <3>3 DEF ClearInv, LeavesOnly
      <4>2. /\ kpc'[c] = "ok" /\ goal'[c] = goal[c]
            /\ fresh' = fresh /\ cached' = cached
        BY <1>0, <1>4, <3>3
      <4> QED BY <4>1, <4>2 DEF ClearInv, LeavesOnly, Matching
    <3> QED BY <1>0, <3>1, <3>2, <3>3
  <2>3. ASSUME NEW x \in Clearers, x # c PROVE Stays(x)
    <3>1. /\ kpc'[x] = kpc[x] /\ goal'[x] = goal[x] /\ pattern'[x] = pattern[x]
          /\ batch'[x] = batch[x] /\ cursorZero'[x] = cursorZero[x]
          /\ fresh'[x] = fresh[x] /\ unseen'[x] = unseen[x] /\ cached' = cached
      BY <1>0, <1>4, <2>3
    <3> QED BY <1>0, <3>1, OthersKeep
  <2> QED BY <2>1, <2>2, <2>3 DEF CacheInv
<1>5. ASSUME NEW c \in Clearers, Fail(c) PROVE CacheInv'
  <2> USE DEF CacheTypes, Fail, Gone, where
  <2>1. CacheTypes'
    BY <1>0, <1>5
  <2>2. Stays(c)
    BY <1>0, <1>5 DEF ClearInv
  <2>3. ASSUME NEW x \in Clearers, x # c PROVE Stays(x)
    <3>1. /\ kpc'[x] = kpc[x] /\ goal'[x] = goal[x] /\ pattern'[x] = pattern[x]
          /\ batch'[x] = batch[x] /\ cursorZero'[x] = cursorZero[x]
          /\ fresh'[x] = fresh[x]
          /\ \/ unseen'[x] = unseen[x] /\ cached' = cached
             \/ unseen'[x] = unseen[x] \ batch[c] /\ cached' = cached \ batch[c]
      BY <1>0, <1>5, <2>3
    <3> QED BY <1>0, <3>1, OthersKeep
  <2> QED BY <2>1, <2>2, <2>3 DEF CacheInv
<1>6. ASSUME NEW k \in Keys, SetKey(k) PROVE CacheInv'
  <2> USE DEF CacheTypes, SetKey, where
  <2>1. CacheTypes'
    BY <1>0, <1>6
  <2>2. ASSUME NEW x \in Clearers PROVE Stays(x)
    <3>1. /\ fresh'[x] = fresh[x] \union {k} /\ cached' = cached \union {k}
          /\ UNCHANGED <<kpc, goal, pattern, unseen, batch, cursorZero>>
      BY <1>0, <1>6
    <3> QED BY <1>0, <3>1, OthersKeep
  <2> QED BY <2>1, <2>2 DEF CacheInv
<1>7. ASSUME NEW k \in Keys, Expire(k) PROVE CacheInv'
  <2> USE DEF CacheTypes, Expire, Gone, where
  <2>1. CacheTypes'
    BY <1>0, <1>7
  <2>2. ASSUME NEW x \in Clearers PROVE Stays(x)
    <3>1. /\ unseen'[x] = unseen[x] \ {k} /\ cached' = cached \ {k}
          /\ UNCHANGED <<kpc, goal, pattern, batch, cursorZero, fresh>>
      BY <1>0, <1>7
    <3> QED BY <1>0, <3>1, OthersKeep
  <2> QED BY <2>1, <2>2 DEF CacheInv
<1>8. CASE UNCHANGED cacheVars
  <2>1. ASSUME NEW x \in Clearers PROVE Stays(x)
    BY <1>0, <1>8 DEF cacheVars, ClearInv, LeavesOnly, Matching
  <2> QED BY <1>0, <1>8, <2>1 DEF cacheVars, CacheInv, CacheTypes
<1> QED
  BY <1>1, <1>2, <1>3, <1>4, <1>5, <1>6, <1>7, <1>8 DEF CacheNext

\* A clearing that returns without an error leaves nothing behind that was there
\* when it began (ScanDeleteByPrefix and the two functions that call it).
THEOREM ClearingIsComplete == CacheSpec => []ClearedIsFresh
<1>1. CacheInv => ClearedIsFresh
  BY ThreePatterns DEF CacheInv, ClearInv, ClearedIsFresh, LeavesOnly
<1> QED
  BY <1>1, CacheInitInv, CacheStepInv, PTL DEF CacheSpec

-----------------------------------------------------------------------------
(* The counts.                                                               *)

\* As many removals are counted as keys are gone, at most.
CountInv ==
    /\ total \in [Clearers -> Nat] /\ added \in Nat /\ cached \subseteq Keys
    /\ IsFiniteSet(Counted) /\ CountedOnce

\* The cache is finite, and shrinks by what is taken from it.
LEMMA CacheFinite ==
    ASSUME NEW ks \in SUBSET Keys, NEW gone
    PROVE  /\ IsFiniteSet(ks) /\ Cardinality(ks) \in Nat
           /\ IsFiniteSet(gone \intersect ks) /\ Cardinality(gone \intersect ks) \in Nat
           /\ Cardinality(ks \ gone) = Cardinality(ks) - Cardinality(gone \intersect ks)
<1>1. IsFiniteSet(ks)
  BY CacheAssumption, FS_Subset
<1>2. IsFiniteSet(gone \intersect ks)
  BY <1>1, FS_Intersection
<1>3. Cardinality(ks \ gone) = Cardinality(ks) - Cardinality(ks \intersect gone)
  BY <1>1, FS_Difference
<1>4. ks \intersect gone = gone \intersect ks
  OBVIOUS
<1> QED
  BY <1>1, <1>2, <1>3, <1>4, FS_CardinalityType

\* A step that counts nothing, and adds to the cache only what it counts as added.
LEMMA CountsNothing ==
    ASSUME CountInv, total' = total, cached' \subseteq Keys,
           \/ added' = added /\ cached' \subseteq cached
           \/ added' = added + 1 /\ \E k : cached' = cached \union {k}
    PROVE  CountInv'
<1>1. Counted' = Counted
  BY DEF Counted
<1>2. IsFiniteSet(cached) /\ Cardinality(cached) \in Nat /\ Cardinality(cached') \in Nat
  BY CacheFinite DEF CountInv
<1>3. Cardinality(Counted) \in Nat /\ Cardinality(Keys) \in Nat
  BY CacheAssumption, FS_CardinalityType DEF CountInv
<1>4. Cardinality(cached') - added' <= Cardinality(cached) - added /\ added' \in Nat
  <2>1. CASE added' = added /\ cached' \subseteq cached
    <3>1. Cardinality(cached') <= Cardinality(cached)
      BY <1>2, <2>1, FS_Subset
    <3> QED
      BY <1>2, <2>1, <3>1 DEF CountInv
  <2>2. CASE added' = added + 1 /\ \E k : cached' = cached \union {k}
    <3>1. PICK k : cached' = cached \union {k}
      BY <2>2
    <3>2. Cardinality(cached') <= Cardinality(cached) + 1
      BY <1>2, <3>1, FS_AddElement
    <3> QED
      BY <1>2, <2>2, <3>2 DEF CountInv
  <2> QED
    BY <2>1, <2>2
<1>5. CountedOnce'
  BY <1>1, <1>2, <1>3, <1>4 DEF CountInv, CountedOnce
<1> QED
  BY <1>1, <1>4, <1>5 DEF CountInv

LEMMA CountInitInv == CacheInit => CountInv
<1> SUFFICES ASSUME CacheInit PROVE CountInv
  OBVIOUS
<1>1. total \in [Clearers -> Nat] /\ added \in Nat /\ cached = Keys /\ added = 0
  BY DEF CacheInit
<1>2. \A c \in Clearers : {c} \X (1 .. total[c]) = {}
  BY DEF CacheInit
<1>3. Counted = {}
  BY <1>2 DEF Counted
<1>4. IsFiniteSet(Counted) /\ Cardinality(Counted) = 0 /\ Cardinality(Keys) \in Nat
  BY <1>3, CacheAssumption, FS_EmptySet, FS_CardinalityType
<1> QED
  BY <1>1, <1>4 DEF CountInv, CountedOnce

LEMMA CountStepInv == CountInv /\ [CacheNext]_cacheVars => CountInv'
<1> SUFFICES ASSUME CountInv, [CacheNext]_cacheVars PROVE CountInv'
  OBVIOUS
<1>0. cached \subseteq Keys /\ total \in [Clearers -> Nat] /\ added \in Nat /\ IsFiniteSet(Counted)
  BY DEF CountInv
<1>1. ASSUME NEW c \in Clearers, Begin(c) \/ Scan(c) \/ AfterPortion(c) \/ Fail(c) PROVE CountInv'
  <2>1. total' = total /\ added' = added /\ cached' \subseteq cached
    BY <1>1 DEF Begin, Scan, AfterPortion, Fail, Gone
  <2> QED
    BY <1>0, <2>1, CountsNothing
<1>2. ASSUME NEW k \in Keys, SetKey(k) \/ Expire(k) PROVE CountInv'
  <2>1. CASE SetKey(k)
    <3>1. total' = total /\ added' = added + 1 /\ cached' = cached \union {k}
      BY <2>1 DEF SetKey
    <3> QED
      BY <1>0, <3>1, CountsNothing
  <2>2. CASE Expire(k)
    <3>1. total' = total /\ added' = added /\ cached' \subseteq cached
      BY <2>2 DEF Expire, Gone
    <3> QED
      BY <1>0, <3>1, CountsNothing
  <2> QED
    BY <1>2, <2>1, <2>2
<1>3. ASSUME NEW c \in Clearers, Del(c) PROVE CountInv'
  <2> DEFINE m == Cardinality(batch[c] \intersect cached)
             t == total[c]
             More == {c} \X (t + 1 .. t + m)
  <2>1. /\ cached' = cached \ batch[c] /\ added' = added
        /\ total' = [total EXCEPT ![c] = t + m]
    BY <1>3 DEF Del, Gone
  <2>2. /\ m \in Nat /\ Cardinality(cached) \in Nat
        /\ Cardinality(cached') = Cardinality(cached) - m
    BY <1>0, <2>1, CacheFinite
  <2>3. t \in Nat
    BY <1>0
  <2> HIDE DEF m, t
  <2>4. total' \in [Clearers -> Nat] /\ total'[c] = t + m
        /\ \A x \in Clearers : x # c => total'[x] = total[x]
    BY <1>0, <2>1, <2>2, <2>3
  <2>5. Counted' = Counted \union More
    <3>1. 1 .. t + m = (1 .. t) \union (t + 1 .. t + m)
      BY <2>2, <2>3
    <3>2. {c} \X (1 .. total'[c]) = ({c} \X (1 .. total[c])) \union More
      BY <2>4, <3>1 DEF t
    <3> HIDE DEF More
    <3>3. ASSUME NEW y PROVE y \in Counted' <=> y \in Counted \union More
      <4>1. y \in Counted' <=> \E x \in Clearers : y \in {x} \X (1 .. total'[x])
        BY DEF Counted
      <4>2. y \in Counted <=> \E x \in Clearers : y \in {x} \X (1 .. total[x])
        BY DEF Counted
      <4>3. \A x \in Clearers : x # c => {x} \X (1 .. total'[x]) = {x} \X (1 .. total[x])
        BY <2>4
      <4> QED
        BY <3>2, <4>1, <4>2, <4>3, Zenon
    <3> QED
      BY <3>3
  <2>6. Counted \intersect More = {}
    <3>1. ASSUME NEW y \in Counted, y \in More PROVE FALSE
      <4>1. PICK x \in Clearers : y \in {x} \X (1 .. total[x])
        BY <3>1 DEF Counted
      <4>2. y[1] = x /\ y[2] \in 1 .. total[x] /\ y[1] = c /\ y[2] \in t + 1 .. t + m
        BY <3>1, <4>1
      <4> QED
        BY <2>2, <2>3, <4>2 DEF t
    <3> QED
      BY <3>1
  <2>7. IsFiniteSet(More) /\ Cardinality(More) = m
    <3> DEFINE I == t + 1 .. t + m
    <3>1. IsFiniteSet(I) /\ Cardinality(I) = m
      <4> DEFINE a == t + 1
                 b == t + m
      <4>1. a \in Int /\ b \in Int /\ (a > b => m = 0) /\ b - a + 1 = m
        BY <2>2, <2>3
      <4> HIDE DEF a, b
      <4>2. IsFiniteSet(a .. b) /\ Cardinality(a .. b) = IF a > b THEN 0 ELSE b - a + 1
        BY <4>1, FS_Interval
      <4> QED
        BY <4>1, <4>2 DEF a, b
    <3>2. IsFiniteSet({c}) /\ Cardinality({c}) = 1
      BY FS_Singleton
    <3> HIDE DEF I
    <3>3. IsFiniteSet({c} \X I) /\ Cardinality({c} \X I) = 1 * m
      BY <3>1, <3>2, FS_Product
    <3> QED
      BY <2>2, <3>3 DEF I
  <2> HIDE DEF More
  <2>8. /\ IsFiniteSet(Counted')
        /\ Cardinality(Counted') = Cardinality(Counted) + m
    <3>1. /\ IsFiniteSet(Counted \union More)
          /\ Cardinality(Counted \union More)
                = Cardinality(Counted) + Cardinality(More) - Cardinality(Counted \intersect More)
      BY <1>0, <2>7, FS_Union
    <3>2. Cardinality(Counted \intersect More) = 0
      BY <2>6, FS_EmptySet
    <3>3. Cardinality(Counted) \in Nat
      BY <1>0, FS_CardinalityType
    <3> QED
      BY <2>2, <2>5, <2>7, <3>1, <3>2, <3>3
  <2>9. Cardinality(Counted) \in Nat /\ Cardinality(Keys) \in Nat
    BY <1>0, CacheAssumption, FS_CardinalityType
  <2>10. CountedOnce'
    BY <1>0, <2>1, <2>2, <2>8, <2>9 DEF CountInv, CountedOnce
  <2> QED
    BY <1>0, <2>1, <2>4, <2>8, <2>10 DEF CountInv
<1>4. CASE UNCHANGED cacheVars
  BY <1>0, <1>4, CountsNothing DEF cacheVars
<1> QED
  BY <1>1, <1>2, <1>3, <1>4, Zenon DEF CacheNext

\* Whatever calls return the same key from their scans, and whoever else removes
\* it, the totals they return (ScanDeleteByPrefix adds up what DEL answers) count
\* no removal twice.
THEOREM NoRemovalCountedTwice == CacheSpec => []CountedOnce
<1>1. CountInv => CountedOnce
  BY DEF CountInv
<1> QED
  BY <1>1, CountInitInv, CountStepInv, PTL DEF CacheSpec

===============================================================================
