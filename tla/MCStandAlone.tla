---------------------------- MODULE MCStandAlone ----------------------------
(***************************************************************************)
(* Four parts that stand alone, in one run of TLC: the history of          *)
(* statistics on the server, the tabbed panel of the client, the planner   *)
(* of constraints in observe-js, and the harness that runs tests in a      *)
(* page.  They share nothing, so a behaviour is one of a single part while *)
(* the others stay as they are at the start.                               *)
(***************************************************************************)
EXTENDS Statistics, TabbedPanel, Planner, TestHarness

VARIABLE part   \* the part whose behaviour this is

\* Constraints over four variables: a chain, a cycle, one that can only set its
\* variable, one of three.
MCLinks == {<<1, 2>>, <<2, 3>>, <<1, 3>>, <<3>>, <<4, 2, 1>>, <<3, 4>>}

allVars == <<vars, tabVars, plannerVars, harnessVars, part>>

MCInit ==
    /\ Init /\ TabInit /\ PlannerInit /\ HarnessInit
    /\ part \in {"statistics", "tabs", "planner", "harness"}

RunsHarness(A) == part = "harness" /\ A /\ UNCHANGED <<vars, tabVars, plannerVars, part>>

MCNext ==
    \/ part = "statistics" /\ Next /\ UNCHANGED <<tabVars, plannerVars, harnessVars, part>>
    \/ part = "tabs" /\ TabNext /\ UNCHANGED <<vars, plannerVars, harnessVars, part>>
    \/ part = "planner" /\ PlannerNext /\ UNCHANGED <<vars, tabVars, harnessVars, part>>
    \/ RunsHarness(HarnessNext)

\* Only the harness promises that something will happen; its fairness is that of
\* HarnessSpec.
MCSpec ==
    /\ MCInit /\ [][MCNext]_allVars
    /\ WF_allVars(RunsHarness(Returns)) /\ WF_allVars(RunsHarness(HarnessTimer))

\* HarnessCompletes, of the behaviours that are the harness's.
TestsComplete == part = "harness" => HarnessCompletes
=============================================================================
