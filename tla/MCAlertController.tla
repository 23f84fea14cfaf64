-------------------------- MODULE MCAlertController --------------------------
(* Values of the constants of AlertController for the runs of TLC.          *)
EXTENDS AlertRefinement

CONSTANTS s1, s2, e1

\* Status alerts with the default priority and an error alert below them.
MCPriority == [a \in Alerts |-> IF a = e1 THEN 0 ELSE 1000]

\* Handles are never compared but for equality.
Symmetry == Permutations(Handles)
=============================================================================
