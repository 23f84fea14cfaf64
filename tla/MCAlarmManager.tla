--------------------------- MODULE MCAlarmManager ---------------------------
(* Values of the constants of AlarmManager for the runs of TLC.            *)
EXTENDS AlarmRefinement

CONSTANTS p1, p2, t1, t2

\* p1 and t2 fire once, p2 and t1 repeat every two ticks.
MCRepeat == [a \in Alarms |-> IF a \in {p1, t2} THEN 0 ELSE 2]

\* A deadline already past, one at this very moment, and one in the future.
MCDelays == {-1, 0, 1}
=============================================================================
