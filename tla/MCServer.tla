------------------------------ MODULE MCServer ------------------------------
(* Server with the requests that differ in how they are handled. *)
EXTENDS Server

Msg(k, f, ds, n) == [kind |-> k, form |-> f, days |-> ds, fields |-> n]

MCRequests ==
    {Msg("write", "good", {1, 2}, 1), Msg("write", "good", {}, 1), Msg("query", "good", {}, 1),
     Msg("query", "bad", {}, 1), Msg("pong", "good", {}, 1), Msg("pong", "huge", {}, 1)}

\* A write that needs every writer.
MCWrites == {Msg("write", "good", Days, 1)}

\* The connections are interchangeable.
Symmetry == Permutations(Conns)

=============================================================================
