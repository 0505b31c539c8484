----------------------------- MODULE MCDayWriter -----------------------------
(* DayWriter on a small instance: sizes, timestamps and the fault sets. *)
EXTENDS DayWriter

\* Blocks of two or more points are compressed.
MCZstdLen == [k \in 1 .. MaxPoints |-> k + 1]

\* The third point arrives late: its timestamp lies before the second's.
MCTimeOf == [p \in 1 .. MaxPoints |-> IF p = 3 THEN 10 ELSE 10 * p]

=============================================================================
