---------------------------- MODULE AlarmService ----------------------------
(***************************************************************************)
(* What the alarm service promises its clients, with no queue, timers,     *)
(* locks or threads: an alarm is armed once, is handed to the executor     *)
(* only when it is overdue, once per deadline unless the server crashes in *)
(* between, and is off for good once it was cancelled or fired.            *)
(***************************************************************************)
EXTENDS Integers

CONSTANTS Persistent, Transient, Repeat, Delays, BackendFails, Horizon, Null

Alarms == Persistent \union Transient

VARIABLES
  state, \* "new", "armed", "handed" (to the executor, not yet settled) or "off"
  due,   \* ticks until the deadline of an alarm that is armed or handed
  jobs   \* callbacks handed to the executor that it has not started

vars == <<state, due, jobs>>

DeadlinesOf(a) == IF Repeat[a] > 0 THEN {Repeat[a]} ELSE Delays

Init ==
  /\ state = [a \in Alarms |-> "new"]
  /\ due = [a \in Alarms |-> Null]
  /\ jobs = [a \in Alarms |-> 0]

Arm(a) ==
  /\ state[a] = "new"
  /\ \E d \in DeadlinesOf(a) : \E late \in -Horizon .. d :
       due' = [due EXCEPT ![a] = late]
  /\ state' = [state EXCEPT ![a] = "armed"]
  /\ UNCHANGED jobs

\* What becomes of an alarm that has fired: a one-shot alarm is off, another
\* one is armed for its next deadline.
Settled(a) ==
  IF Repeat[a] > 0
  THEN /\ state' = [state EXCEPT ![a] = "armed"]
       /\ due' = [due EXCEPT ![a] = Repeat[a]]
  ELSE /\ state' = [state EXCEPT ![a] = "off"]
       /\ due' = [due EXCEPT ![a] = Null]

Fire(a) ==
  /\ state[a] = "armed"
  /\ due[a] < 0
  /\ jobs' = [jobs EXCEPT ![a] = @ + 1]
  /\ \/ a \in Transient /\ Settled(a)
     \/ /\ a \in Persistent
        /\ state' = [state EXCEPT ![a] = "handed"]
        /\ UNCHANGED due

Settle(a) ==
  /\ state[a] = "handed"
  /\ Settled(a)
  /\ UNCHANGED jobs

Cancel(a) ==
  /\ state[a] = "armed"
  /\ state' = [state EXCEPT ![a] = "off"]
  /\ due' = [due EXCEPT ![a] = Null]
  /\ UNCHANGED jobs

Call(a) ==
  /\ jobs[a] > 0
  /\ jobs' = [jobs EXCEPT ![a] = @ - 1]
  /\ UNCHANGED <<state, due>>

\* The database fails to record that the alarm fired: it may fire once more.
Slip(a) ==
  /\ BackendFails
  /\ state[a] = "handed"
  /\ state' = [state EXCEPT ![a] = "armed"]
  /\ UNCHANGED <<due, jobs>>

\* A crash forgets the transient alarms, those being created included, and the
\* jobs of the executor; a fired alarm not yet settled may fire once more.
Crash ==
  /\ \E lost \in SUBSET {a \in Transient : state[a] # "off"} :
       /\ {a \in Transient : state[a] = "armed"} \subseteq lost
       /\ state' = [a \in Alarms |-> IF a \in lost THEN "off"
                                     ELSE IF state[a] = "handed" THEN "armed"
                                     ELSE state[a]]
       /\ due' = [a \in Alarms |-> IF a \in lost THEN Null ELSE due[a]]
  /\ jobs' = [a \in Alarms |-> 0]

Tick ==
  /\ due' = [a \in Alarms |-> IF due[a] = Null \/ due[a] = -Horizon
                              THEN due[a] ELSE due[a] - 1]
  /\ UNCHANGED <<state, jobs>>

Next ==
  \/ \E a \in Alarms :
       Arm(a) \/ Fire(a) \/ Settle(a) \/ Cancel(a) \/ Call(a) \/ Slip(a)
  \/ Crash
  \/ Tick

Spec == Init /\ [][Next]_vars
=============================================================================
