-------------------------- MODULE AlarmRefinement ---------------------------
(***************************************************************************)
(* AlarmManager implements AlarmService. A persistent alarm is armed as    *)
(* long as its row is in the database, whatever the memory of the server   *)
(* holds; it is cancelled when cancel() removes the row. A transient alarm *)
(* is armed as long as it has a description.                               *)
(***************************************************************************)
EXTENDS AlarmManager

HalfFired(a) == firing # Null /\ firing[1] = a

\* Is the alarm still being created? A client lost in a crash leaves a
\* transient alarm that was asked for and will never be.
AsYetNew(a) ==
  a \notin issued \/ (a \in Transient /\ given[Client(a)] # Null)

StateOf(a) ==
  IF a \in Persistent
  THEN IF rows[a] # Null THEN IF HalfFired(a) THEN "handed" ELSE "armed"
       ELSE IF AsYetNew(a) THEN "new" ELSE "off"
  ELSE IF a \in alarmDescriptions THEN "armed"
       ELSE IF AsYetNew(a) THEN "new" ELSE "off"

DueOf(a) ==
  IF a \in Persistent THEN rows[a]
  ELSE IF a \in alarmDescriptions THEN occurrences[Client(a)] ELSE Null

ServiceState == [a \in Alarms |-> StateOf(a)]
ServiceDue   == [a \in Alarms |-> DueOf(a)]

Service == INSTANCE AlarmService WITH state <- ServiceState, due <- ServiceDue

\* Every step of the manager, its threads, its clients and its crashes is a
\* step of the service its clients rely on, or changes nothing they can see.
ImplementsService == Service!Spec
=============================================================================
