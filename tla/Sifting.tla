------------------------------- MODULE Sifting -------------------------------
(* What a loop leaves of a sequence when it passes over the elements that are *)
(* not in a set: the filter of the code's loops, as a recursive function.     *)
EXTENDS Integers, Sequences

\* What the loop has kept after n elements of s.
Kept(s, S) ==
    LET kept[n \in 0 .. Len(s)] ==
            IF n = 0 THEN <<>>
            ELSE IF s[n] \in S THEN Append(kept[n - 1], s[n]) ELSE kept[n - 1]
    IN  kept

Sift(s, S) == Kept(s, S)[Len(s)]

\* The numbers from 1 to k, in order.
Counting(k) == [n \in 1 .. k |-> n]

=============================================================================
