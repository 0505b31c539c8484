----------------------------- MODULE MCTiering -----------------------------
(* Tiering for days of different shapes. *)
EXTENDS Tiering

\* A quiet device: the day fits one block that is not compressed.
OneBlock == <<[pts |-> {1, 2}, fmt |-> "raw"]>>

\* A day flushed twice.
TwoBlocks == <<[pts |-> {1}, fmt |-> "raw"], [pts |-> {2}, fmt |-> "raw"]>>

=============================================================================
