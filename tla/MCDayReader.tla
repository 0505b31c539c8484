----------------------------- MODULE MCDayReader -----------------------------
(* DayReader on all small files of two kinds. *)
EXTENDS DayReader

\* Long enough for the search to turn both ways; every block is sound.
SearchBlocks ==
    {[pts |-> p, fmt |-> "zstd", read |-> "good"] :
        p \in {<<1>>, <<2>>, <<3>>, <<1, 2>>, <<2, 2>>, <<2, 3>>, <<3, 1>>}}

\* Every format and every outcome of a read.
DamagedBlocks ==
    {[pts |-> p, fmt |-> c[1], read |-> c[2]] :
        p \in {<<1, 2>>, <<2>>},
        c \in {<<"zstd", "good">>, <<"raw", "good">>, <<"raw", "bad">>, <<"raw", "eof">>,
               <<"legacy", "good">>}}

UpTo(n, S) == UNION {[1 .. m -> S] : m \in 0 .. n}

\* The increasing sequences over 1 .. n.
Increasing(n) ==
    {s \in UpTo(n, 1 .. n) : \A x, y \in DOMAIN s : x < y => s[x] < s[y]}

MCImages ==
    {[data |-> d, hasIndex |-> TRUE, index |-> [b \in DOMAIN d |-> b]] : d \in UpTo(4, SearchBlocks)}
    \union
    UNION {{[data |-> d, hasIndex |-> TRUE, index |-> x] : x \in Increasing(Len(d))} :
              d \in UpTo(3, DamagedBlocks)}
    \union
    {[data |-> d, hasIndex |-> FALSE, index |-> <<>>] :
        d \in UpTo(2, DamagedBlocks) \union [1 .. 3 -> {b \in DamagedBlocks : b.fmt = "legacy"}]}

\* Sound files of a writer that does not compress, whose index is gone.
MCScanImages ==
    {[data |-> d, hasIndex |-> FALSE, index |-> <<>>] :
        d \in UpTo(3, {b \in DamagedBlocks : b.fmt = "raw" /\ b.read = "good"})}

=============================================================================
