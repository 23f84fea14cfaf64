------------------------------ MODULE MCObserve ------------------------------
(***************************************************************************)
(* The parts of observe-js side by side for TLC.  They share no state, so  *)
(* a behaviour is one of a single part, and the others stay where they     *)
(* are at the start.                                                       *)
(***************************************************************************)
EXTENDS ArraySplices, ObservePath, ObjectChanges, ObserveCheckpoint

VARIABLE part   \* the part whose behaviour this is

CONSTANTS a, b, p1, c1, c2

allVars == <<arrayVars, pathText, objectVars, observerVars, part>>

ArrayAtRest    == hasObserve = FALSE /\ array = <<>>
ObjectsAtRest  == object = [o \in Objects |-> [p \in Props |-> Absent]]
ObserverAtRest == store = [p \in Paths |-> 0] /\ observed[p1] = <<CHOOSE p \in Paths : TRUE>>

Init ==
    /\ ArrayInit /\ PathInit /\ ObjectInit /\ ObserverInit
    /\ part \in {"splices", "path", "objects", "checkpoint"}
    /\ part # "splices" => ArrayAtRest
    /\ part # "objects" => ObjectsAtRest
    /\ part # "checkpoint" => ObserverAtRest

Runs(A) == part = "checkpoint" /\ A /\ UNCHANGED <<arrayVars, pathText, objectVars, part>>

Next ==
    \/ part = "splices" /\ ArrayNext /\ UNCHANGED <<pathText, objectVars, observerVars, part>>
    \/ part = "path" /\ TypeChar /\ UNCHANGED <<arrayVars, objectVars, observerVars, part>>
    \/ part = "objects" /\ ObjectNext /\ UNCHANGED <<arrayVars, pathText, observerVars, part>>
    \/ Runs(ObserverNext)

Fairness ==
    /\ WF_allVars(Runs(EngineSteps))
    /\ WF_allVars(Runs(Poll))
    /\ WF_allVars(Runs(AtEndOfMicrotask))

Spec == Init /\ [][Next]_allVars /\ Fairness
=============================================================================
