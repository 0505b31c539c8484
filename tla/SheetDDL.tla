------------------------------- MODULE SheetDDL -------------------------------
(***************************************************************************)
(* Tables from a workbook (gobackendkit/cmd/excelddl/main.go): the reading *)
(* of the sheets and the T-SQL made of their rows (schema/excelddl), its   *)
(* conversion for PostgreSQL by rewriting rules (dialect), and the         *)
(* invocations of the program, which may overlap, that create the tables   *)
(* which are not there yet.                                                *)
(*                                                                         *)
(* A column definition is the sequence of its tokens.  The rewriting rules *)
(* know nothing of columns: they are regular expressions over the whole    *)
(* statement, most of them blind to case and some to where a word ends, so *)
(* that they find matches in names and in the text of defaults as well.    *)
(* Such a text is Touched, and nothing is said of what its column becomes. *)
(***************************************************************************)
EXTENDS Integers, Sequences, SequencesExt, FiniteSets, Sifting

CONSTANTS
    Invocations,
    Workbooks,      \* the workbooks each may be given
    MetaSheets,     \* the sheet names that are empty or begin with an underscore
    Lower(_),       \* strings.ToLower
    Numerals,        \* the texts strconv.ParseFloat takes
    Literals,       \* the texts that begin with a quote, or with N and a quote
    Touched,        \* the texts in which a rule of ConvertDDL or Render finds something
    Garbled(_)      \* what a column with such a name or default becomes

Flags == {"BOOLEAN", "BOOL", "BIT"}
Texts == {"VARCHAR", "NVARCHAR", "TEXT"}
Times2 == {"TIMESTAMP", "DATETIME", "DATETIME2"}
Trues == {"true", "TRUE", "1"}
Now == {"GETDATE()", "SYSUTCDATETIME()"}

Column == [name : STRING, type : STRING, length : {"", "n", "max", "?"}, notNull : BOOLEAN,
           unique : BOOLEAN, primary : BOOLEAN, default : STRING]

\* A sheet with the name its table gets in the catalogue: the rules may have
\* rewritten it, and PostgreSQL folds an unquoted name to lower case.
Sheet == [name : STRING, table : STRING, rows : Seq(Column)]

Sheets == UNION {Range(wb) : wb \in UNION {Workbooks[p] : p \in Invocations}}

\* A name in the catalogue would stay as it is.
ASSUME SheetAssumption ==
    /\ \A p \in Invocations : Workbooks[p] \subseteq Seq(Sheet)
    /\ \A s, t \in Sheets : s.name = t.table => s.table = s.name

\* What the rules for one token rename.
Types == {"NVARCHAR(MAX)", "NVARCHAR(n)", "DATETIME2", "DATETIME"}
ASSUME TouchedAssumption == Types \union Now \union {"N'"} \subseteq Touched

VARIABLES
    ipc,        \* "idle", "build", "check", "exec", "ok" or "fatal"
    dryRun,     \* the flag
    tables,     \* what ReadFile returned
    at,         \* the table at hand
    ddl,        \* its columns, converted
    catalogue   \* the tables in the database

sheetVars == <<ipc, dryRun, tables, at, ddl, catalogue>>

-----------------------------------------------------------------------------
(* From a row to T-SQL.                                                     *)

Audit(name, type, length, notNull, primary, default) ==
    [name |-> name, type |-> type, length |-> length, notNull |-> notNull, unique |-> FALSE,
     primary |-> primary, default |-> default]

defaultAuditColumns ==
    <<Audit("id", "INT", "", FALSE, TRUE, ""),
      Audit("create_time", "TIMESTAMP", "", TRUE, FALSE, ""),
      Audit("create_user", "NVARCHAR", "n", TRUE, FALSE, "''"),
      Audit("update_time", "TIMESTAMP", "", TRUE, FALSE, ""),
      Audit("update_user", "NVARCHAR", "n", TRUE, FALSE, "''"),
      Audit("is_delete", "BIT", "", TRUE, FALSE, "0")>>

reserved == {defaultAuditColumns[i].name : i \in DOMAIN defaultAuditColumns}

\* Cells behind the last one that is filled are cut off a row, and fewer than
\* three are too few: nothing follows the name.
CutShort(c) ==
    /\ c.type = "" /\ c.length = "" /\ c.default = ""
    /\ ~ c.notNull /\ ~ c.unique /\ ~ c.primary

\* The sheets that are tables, with the audit columns first and the rows left out
\* that are short or have no name or a reserved one; a sheet without a row stands
\* for the ones with fewer than three.
Read(wb) ==
    LET used == {c \in Column : ~ CutShort(c) /\ c.name # "" /\ Lower(c.name) \notin reserved}
        WithAudit(s) == [s EXCEPT !.rows = defaultAuditColumns \o Sift(@, used)]
        kept == Sift(wb, {s \in Sheet : s.rows # <<>> /\ s.name \notin MetaSheets})
    IN  [i \in DOMAIN kept |-> WithAudit(kept[i])]

\* ReadFile fails for a row that is used and has no type; main fails without
\* tables.
ReadFails(wb) ==
    LET sheets == Read(wb)
    IN  sheets = <<>> \/ \E s \in Range(sheets) : \E c \in Range(s.rows) : c.type = ""

IsIdentity(c) == c.type = "SERIAL" \/ (c.type \in {"INT", "INTEGER"} /\ c.primary)

SQLType(c) ==
    CASE c.type \in {"INT", "INTEGER"}        -> "INT"
      [] c.type \in {"BIGINT", "FLOAT"}       -> c.type
      [] c.type \in {"VARCHAR", "NVARCHAR"}   ->
            IF c.length = "max" THEN "NVARCHAR(MAX)"
            ELSE IF c.length = "?" THEN "NVARCHAR(?)" ELSE "NVARCHAR(n)"
      [] c.type \in {"TEXT", "JSON", "JSONB"} -> "NVARCHAR(MAX)"
      [] c.type \in Flags                     -> "BIT"
      [] c.type \in Times2                    -> "DATETIME2"
      [] c.type \in {"DECIMAL", "NUMERIC"}    -> "DECIMAL"
      [] OTHER                                -> "unsupported"

normalizeDefault(c) ==
    CASE c.type \in Flags -> <<IF c.default \in Trues THEN "1" ELSE "0">>
      [] c.type \in Texts /\ c.default \notin Numerals \union Literals ->
            <<"N'", c.default, "'">>
      [] OTHER -> <<c.default>>

If(condition, tokens) == IF condition THEN tokens ELSE <<>>

columnDDL(c) ==
    IF IsIdentity(c) THEN <<c.name, "INT", "IDENTITY", "PRIMARY KEY">>
    ELSE <<c.name, SQLType(c)>> \o If(c.primary, <<"PRIMARY KEY">>)
         \o If(c.notNull, <<"NOT NULL">>) \o If(c.unique, <<"UNIQUE">>)
         \o If(c.default # "", <<"DEFAULT">> \o normalizeDefault(c))

-----------------------------------------------------------------------------
(* From T-SQL to PostgreSQL.                                                *)

Rewrite(from, to, tokens) == ReplaceFirstSubSeq(to, from, tokens)

\* The rules for one token.
Renamed(t) ==
    CASE t = "NVARCHAR(MAX)"             -> "TEXT"
      [] t = "NVARCHAR(n)"               -> "VARCHAR(n)"
      [] t \in {"DATETIME2", "DATETIME"} -> "TIMESTAMP"
      [] t \in Now                       -> "CURRENT_TIMESTAMP"
      [] t = "N'"                        -> "'"
      [] OTHER                           -> t

NewFlag == <<"BOOLEAN", "NOT NULL", "DEFAULT", "FALSE">>

\* Mutant: the rule without a default is applied first.
ConvertFlagsSwapped(tokens) ==
    Rewrite(<<"BIT", "NOT NULL", "DEFAULT", "0">>, NewFlag,
            Rewrite(<<"BIT", "NOT NULL">>, NewFlag, tokens))

ConvertFlags(tokens) ==
    Rewrite(<<"BIT", "NOT NULL">>, NewFlag,
            Rewrite(<<"BIT", "NOT NULL", "DEFAULT", "0">>, NewFlag, tokens))

ConvertDDL(tokens) ==
    LET serial == Rewrite(<<"INT", "IDENTITY", "PRIMARY KEY">>, <<"SERIAL", "PRIMARY KEY">>,
                          tokens)
        flags == ConvertFlags([i \in DOMAIN serial |-> Renamed(serial[i])])
    IN  flags

\* A name or a default with a match in it: a flag's default is not copied, and
\* the time of day is what two of the rules are meant for, unless it is quoted.
HasMatch(c) ==
    \/ c.name \in Touched
    \/ c.default \in Touched /\ c.type \notin Flags /\ (c.default \in Now => c.type \in Texts)

Converted(c) == IF HasMatch(c) THEN Garbled(c) ELSE ConvertDDL(columnDDL(c))

\* What the connection makes of a statement before it sends it: of its rules
\* (placeholders, TOP, ISNULL, paging, casts, the tail of an INSERT), these two
\* match more than texts.
Render(tokens) ==
    [i \in DOMAIN tokens |->
        IF tokens[i] \in Now THEN "CURRENT_TIMESTAMP"
        ELSE IF tokens[i] = "N'" THEN "'" ELSE tokens[i]]

-----------------------------------------------------------------------------
(* The invocations.                                                         *)

SheetInit ==
    /\ ipc = [p \in Invocations |-> "idle"]
    /\ dryRun = [p \in Invocations |-> FALSE]
    /\ tables = [p \in Invocations |-> <<>>] /\ at = [p \in Invocations |-> 1]
    /\ ddl = [p \in Invocations |-> <<>>]
    /\ catalogue = {}

Become(p, label) == ipc' = [ipc EXCEPT ![p] = label]

\* main up to its loop.  An invocation ends with log.Fatal when the settings or
\* the workbook cannot be read or there is no connection.
Run(p) ==
    /\ ipc[p] = "idle"
    /\ \E wb \in Workbooks[p], dry \in BOOLEAN :
        /\ dryRun' = [dryRun EXCEPT ![p] = dry]
        /\ tables' = [tables EXCEPT ![p] = IF ReadFails(wb) THEN <<>> ELSE Read(wb)]
        /\ IF ReadFails(wb) THEN Become(p, "fatal")
           ELSE Become(p, "build") \/ Become(p, "fatal")
    /\ UNCHANGED <<at, ddl, catalogue>>

\* The next table, or the end.
Advance(p) ==
    /\ at' = [at EXCEPT ![p] = @ + 1]
    /\ Become(p, IF at[p] < Len(tables[p]) THEN "build" ELSE "ok")

Rows(p) == tables[p][at[p]].rows
Unsupported(p) ==
    {c \in Range(Rows(p)) : ~ IsIdentity(c) /\ SQLType(c) = "unsupported"}

Build(p) ==
    /\ ipc[p] = "build"
    /\ Unsupported(p) = {}
    /\ ddl' = [ddl EXCEPT ![p] = [j \in DOMAIN Rows(p) |-> Converted(Rows(p)[j])]]
    /\ IF dryRun[p] THEN Advance(p) ELSE Become(p, "check") /\ UNCHANGED at
    /\ UNCHANGED <<dryRun, tables, catalogue>>

BuildFail(p) ==
    /\ ipc[p] = "build"
    /\ Unsupported(p) # {}
    /\ Become(p, "fatal")
    /\ UNCHANGED <<dryRun, tables, at, ddl, catalogue>>

\* tableExists asks for the name as it is written on the sheet; a query that
\* fails ends the program.
Check(p) ==
    /\ ipc[p] = "check"
    /\ \/ tables[p][at[p]].name \in catalogue /\ Advance(p)
       \/ tables[p][at[p]].name \notin catalogue /\ Become(p, "exec") /\ UNCHANGED at
       \/ Become(p, "fatal") /\ UNCHANGED at
    /\ UNCHANGED <<dryRun, tables, ddl, catalogue>>

\* PostgreSQL takes nothing with a type it does not have, a second default or
\* primary key, or an integer for a bit string (and refuses more, in ExecFail).
Acceptable(columns) ==
    LET Places(t) == {a \in (DOMAIN columns) \X (1 .. 12) :
                        a[2] \in DOMAIN columns[a[1]] /\ columns[a[1]][a[2]] = t}
    IN  /\ Places("NVARCHAR(?)") = {}
        /\ Cardinality(Places("PRIMARY KEY")) <= 1
        /\ \A a, b \in Places("DEFAULT") : a[1] = b[1] => a = b
        /\ \A a \in Places("DEFAULT") : columns[a[1]][2] # "BIT"

Executed(p) == [j \in DOMAIN ddl[p] |-> Render(ddl[p][j])]

Exec(p) ==
    /\ ipc[p] = "exec"
    /\ tables[p][at[p]].table \notin catalogue /\ Acceptable(Executed(p))
    /\ catalogue' = catalogue \union {tables[p][at[p]].table}
    /\ Advance(p)
    /\ UNCHANGED <<dryRun, tables, ddl>>

\* Mutant: an error of a statement is printed, and the loop goes on.
ExecSkip(p) ==
    /\ ipc[p] = "exec"
    /\ Advance(p)
    /\ UNCHANGED <<dryRun, tables, ddl, catalogue>>

\* The table is there already, the statement is refused or the connection lost.
ExecFail(p) ==
    /\ ipc[p] = "exec"
    /\ Become(p, "fatal")
    /\ UNCHANGED <<dryRun, tables, at, ddl, catalogue>>

\* The program can be run again, with the same workbook or another.
Again(p) ==
    /\ ipc[p] \in {"ok", "fatal"}
    /\ Become(p, "idle")
    /\ dryRun' = [dryRun EXCEPT ![p] = FALSE]
    /\ tables' = [tables EXCEPT ![p] = <<>>] /\ ddl' = [ddl EXCEPT ![p] = <<>>]
    /\ at' = [at EXCEPT ![p] = 1]
    /\ UNCHANGED catalogue

SheetNext ==
    \E p \in Invocations :
        Run(p) \/ Build(p) \/ BuildFail(p) \/ Check(p) \/ Exec(p) \/ ExecFail(p) \/ Again(p)

SheetSpec == SheetInit /\ [][SheetNext]_sheetVars

-----------------------------------------------------------------------------

\* The column in PostgreSQL that a row asks for.
Wanted(c) ==
    LET type == CASE c.type \in Flags -> "BOOLEAN"
                  [] c.type \in Times2 -> "TIMESTAMP"
                  [] SQLType(c) = "NVARCHAR(MAX)" -> "TEXT"
                  [] c.type \in Texts /\ SQLType(c) # "NVARCHAR(MAX)" -> "VARCHAR(n)"
                  [] OTHER -> SQLType(c)
        value == CASE c.type \in Flags -> <<IF c.default \in Trues THEN "TRUE" ELSE "FALSE">>
                   [] c.type \in Texts /\ c.default \notin Numerals \union Literals ->
                        <<"'", c.default, "'">>
                   [] c.type \notin Flags \union Texts /\ c.default \in Now ->
                        <<"CURRENT_TIMESTAMP">>
                   [] OTHER -> <<c.default>>
    IN  IF IsIdentity(c) THEN <<c.name, "SERIAL", "PRIMARY KEY">>
        ELSE <<c.name, type>> \o If(c.primary, <<"PRIMARY KEY">>)
             \o If(c.notNull, <<"NOT NULL">>) \o If(c.unique, <<"UNIQUE">>)
             \o If(c.default # "" \/ c.type \in Flags, <<"DEFAULT">> \o value)

\* Rows that the rules cannot carry over: a flag that is not a plain NOT NULL
\* with the default false, a name or a default in which a rule finds something,
\* a length that is not a number.
Spoiled(c) ==
    \/ c.type \in Flags /\ \/ ~ c.notNull \/ c.primary \/ c.default \in Trues
                           \/ c.unique /\ c.default # ""
    \/ HasMatch(c)
    \/ SQLType(c) = "NVARCHAR(?)"

\* Every other row reaches the database as the column it asks for, each of its
\* constraints in it once, although the rules overlap and two sets of them are
\* applied to one text, the second when it is sent.
ConversionFaithful ==
    \A p \in Invocations : ipc[p] \in {"check", "exec"} =>
        \A j \in DOMAIN ddl[p] :
            ~ Spoiled(Rows(p)[j]) => ToBag(Executed(p)[j]) = ToBag(Wanted(Rows(p)[j]))

\* An invocation that is at a table, or ended there, has left every table before
\* it in the database, whoever created it; one that ended well, all of its
\* tables.  (Tables created before an error stay: no statement is undone.)
EarlierTablesExist ==
    \A p \in Invocations : ~ dryRun[p] =>
        \A i \in 1 .. (IF ipc[p] = "ok" THEN Len(tables[p]) ELSE at[p] - 1) :
            tables[p][i].table \in catalogue

=============================================================================
