------------------------------ MODULE Filtering ------------------------------
(* Sequences filtered by a set, in a form that can be proved about.         *)
EXTENDS Integers, Sequences

\* The elements of s that are in S, in their order.
Filtered(s, S) ==
    LET kept[n \in 0 .. Len(s)] ==
            IF n = 0 THEN <<>>
            ELSE IF s[n] \in S THEN Append(kept[n - 1], s[n]) ELSE kept[n - 1]
    IN  kept[Len(s)]
=============================================================================
