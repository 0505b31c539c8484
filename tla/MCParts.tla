------------------------------ MODULE MCParts ------------------------------
(* The small components side by side: a behaviour is a behaviour of one of *)
(* them, the part, while the others stay as they begin.                    *)
EXTENDS Encoder, IndexFile, QueryDays, TableCache, SheetDDL, Notify, TLC

VARIABLE part

partVars ==
    <<part, codecVars, idxVars, daysVars, cacheVars, sheetVars, notifyVars>>

\* Encoder.  Differences that wrap around, that need one to three bytes and
\* that are a power of the radix, values between the thousandths, and values far
\* enough apart that their difference is rounded.
MCSamples ==
    {[time |-> 0, value |-> 0], [time |-> 32, value |-> 5], [time |-> 2047, value |-> -10],
     [time |-> -2048, value |-> 25], [time |-> 640, value |-> 600]}

\* QueryDays.  A day of 24 hours, a shorter and a longer one.
MCCalendars == {<<0, 4, 8, 12>>, <<0, 4, 7, 11>>, <<0, 4, 9, 13>>}

\* TableCache.
MCKeys == {[family |-> "ft", table |-> "user"], [family |-> "handler", table |-> "users"]}
MCExtends == {<<"user", "users">>, <<"user", "user_role">>}
MCExtendsWord == {<<"user", "user_role">>}

\* Notify.
MCchannel == [l \in {"l1", "l2"} |-> IF l = "l1" THEN "a" ELSE "b"]

\* SheetDDL.  A sheet with a row for every combination of the columns' choices.
Col(n, t, l, nn, u, p, d) ==
    [name |-> n, type |-> t, length |-> l, notNull |-> nn, unique |-> u, primary |-> p,
     default |-> d]
SheetOf(n, t, rows) == [name |-> n, table |-> t, rows |-> rows]

\* The texts of names and defaults, with what is to be known of them: a name that
\* is a type in small letters is rewritten, and so is a text that ends in N, holds
\* a question mark or a quotation of its own.
MCLower(name) == IF name = "Is_Delete" THEN "is_delete" ELSE name
MCTouched ==
    Types \union Now \union {"N'", "datetime", "N", "why?", "N'x'"}
MCGarbled(c) == <<>>

Bit(k, n) == (k \div 2 ^ n) % 2 = 1
Defaults ==
    <<"", "0", "2.5", "TRUE", "true", "N", "x", "'x'", "N'x'", "why?", "GETDATE()",
      "SYSUTCDATETIME()", "DATETIME">>
EveryRow(t) ==
    [k \in 1 .. 8 * Len(Defaults) |->
        Col("a", t, "n", Bit(k, 0), Bit(k, 1), Bit(k, 2), Defaults[(k - 1) \div 8 + 1])]
Carried(t) == SelectSeq(EveryRow(t), LAMBDA c : ~ c.primary /\ ~ Spoiled(c))
Names == <<"a", "datetime", "Is_Delete", "">>
Lengths == <<"", "n", "max", "?">>
EveryName(t) ==
    [k \in 1 .. 16 |->
        Col(Names[(k - 1) \div 4 + 1], t, Lengths[(k % 4) + 1], FALSE, FALSE, FALSE, "")]

Plain == <<Col("a", "INT", "", FALSE, FALSE, FALSE, "")>>
SheetA == SheetOf("a", "a", Plain)
SheetB == SheetOf("B", "b", Plain)
Untyped == <<Col("x", "", "n", FALSE, FALSE, FALSE, "")>>
TooShort == <<Col("x", "", "", FALSE, FALSE, FALSE, "")>>
Unknown == <<Col("x", "BLOB", "", FALSE, FALSE, FALSE, "")>>

MCWorkbooks ==
    1 :> ({<<SheetA, SheetB>>, <<SheetA, SheetOf("c", "c", Unknown), SheetB>>,
           <<SheetOf("_options", "_options", Plain), SheetOf("d", "d", <<>>), SheetA>>,
           <<SheetOf("d", "d", TooShort)>>,
           <<SheetOf("d", "d", <<>>)>>, <<SheetOf("d", "d", Untyped)>>,
           <<SheetOf("d", "d", Carried("BIT") \o Carried("VARCHAR")), SheetB>>,
           <<SheetOf("d", "d", EveryName("NVARCHAR") \o EveryName("TEXT") \o EveryName("BIT"))>>}
          \union {<<SheetOf("d", "d", EveryRow(t))>> :
                    t \in {"INT", "VARCHAR", "BIT", "TIMESTAMP", "DECIMAL", "JSON"}})
    @@ 2 :> {<<SheetA, SheetB>>}

Parts == {"codec", "index", "days", "cache", "sheet", "notify"}

Init ==
    /\ part \in Parts
    /\ CodecInit /\ IndexInit /\ DaysInit /\ CacheInit /\ SheetInit /\ NotifyInit

Codec ==
    /\ part = "codec" /\ CodecNext
    /\ UNCHANGED <<part, idxVars, daysVars, cacheVars, sheetVars, notifyVars>>
Index ==
    /\ part = "index" /\ IndexNext
    /\ UNCHANGED <<part, codecVars, daysVars, cacheVars, sheetVars, notifyVars>>
Query ==
    /\ part = "days" /\ DaysNext
    /\ UNCHANGED <<part, codecVars, idxVars, cacheVars, sheetVars, notifyVars>>
Cache ==
    /\ part = "cache" /\ CacheNext
    /\ UNCHANGED <<part, codecVars, idxVars, daysVars, sheetVars, notifyVars>>
Tables ==
    /\ part = "sheet" /\ SheetNext
    /\ UNCHANGED <<part, codecVars, idxVars, daysVars, cacheVars, notifyVars>>
Notifications ==
    /\ part = "notify" /\ NotifyNext
    /\ UNCHANGED <<part, codecVars, idxVars, daysVars, cacheVars, sheetVars>>

Next == Codec \/ Index \/ Query \/ Cache \/ Tables \/ Notifications

Spec == Init /\ [][Next]_partVars /\ NotifyFairness

=============================================================================
