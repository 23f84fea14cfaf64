------------------------ MODULE AlarmManager_proofs -------------------------
(***************************************************************************)
(* Proofs about AlarmManager for any alarms, timers, delays and bounds:    *)
(* its types, that fireAlarm always finds the row it is about to change,   *)
(* that a wakeup is never lost, that queue, map and rows agree, and that   *)
(* the manager implements AlarmService.                                    *)
(***************************************************************************)
EXTENDS AlarmRefinement, FiniteSetTheorems, TLAPS

USE AlarmsAssumption, BoundsAssumption, NullAssumption

(* The two things scheduleNextAlarmCycle is called for *)

\* scheduleNextAlarmCycle keeps the types, and starts and ends no run.
LEMMA ScheduleTypes ==
  ASSUME TypeOK,
         NEW q \in [Entries -> Time \union {Null}],
         NEW ts \in [Timers -> TaskStates],
         ScheduleNextAlarmCycle(q, ts)
  PROVE  /\ task' \in [Timers -> TaskStates]
         /\ delay' \in [Timers -> Nat]
         /\ nextOccurrenceFuture' \in Timers \union {Null}
         /\ \A t \in Timers : task'[t] = "running" <=> ts[t] = "running"
<1> DEFINE open == [t \in Timers |->
                      IF t = nextOccurrenceFuture /\ ts[t] = "pending"
                      THEN "free" ELSE ts[t]]
           next == CHOOSE t \in Timers : open[t] = "free"
           rest == [t \in Timers |-> IF open[t] = "pending" THEN delay[t] ELSE 0]
<1>1. /\ open \in [Timers -> TaskStates]
      /\ rest \in [Timers -> Nat]
      /\ \A t \in Timers : open[t] = "running" <=> ts[t] = "running"
  BY DEF TypeOK, TaskStates
<1>2. CASE /\ task' = open /\ delay' = rest
           /\ nextOccurrenceFuture' = Null
  BY <1>1, <1>2
<1>3. CASE \E e \in Queued(q) :
             /\ IsHead(q, e)
             /\ \E t \in Timers : open[t] = "free"
             /\ task' = [open EXCEPT ![next] = "pending"]
             /\ delay' = [rest EXCEPT ![next] = Sleep(q[e])]
             /\ nextOccurrenceFuture' = next
  <2>1. PICK e \in Queued(q) :
             /\ \E t \in Timers : open[t] = "free"
             /\ task' = [open EXCEPT ![next] = "pending"]
             /\ delay' = [rest EXCEPT ![next] = Sleep(q[e])]
             /\ nextOccurrenceFuture' = next
    BY <1>3
  <2>2. next \in Timers /\ open[next] = "free"
    BY <2>1
  <2>3. Sleep(q[e]) \in Nat
    BY DEF Queued, Sleep, Time
  <2> HIDE DEF open, next, rest
  <2> QED
    BY <1>1, <2>1, <2>2, <2>3 DEF TaskStates
<1> QED
  BY <1>2, <1>3 DEF ScheduleNextAlarmCycle

\* After scheduleNextAlarmCycle a timer is set for the head of the queue, and
\* so for every occurrence behind it.
LEMMA ScheduleCovers ==
  ASSUME TypeOK,
         NEW q \in [Entries -> Time \union {Null}],
         NEW ts \in [Timers -> TaskStates],
         ScheduleNextAlarmCycle(q, ts),
         NEW f \in Queued(q)
  PROVE  \E t \in Timers : task'[t] = "pending" /\ delay'[t] <= Sleep(q[f])
<1> DEFINE open == [t \in Timers |->
                      IF t = nextOccurrenceFuture /\ ts[t] = "pending"
                      THEN "free" ELSE ts[t]]
           next == CHOOSE t \in Timers : open[t] = "free"
           rest == [t \in Timers |-> IF open[t] = "pending" THEN delay[t] ELSE 0]
<1>1. PICK e \in Queued(q) :
             /\ IsHead(q, e)
             /\ \E t \in Timers : open[t] = "free"
             /\ task' = [open EXCEPT ![next] = "pending"]
             /\ delay' = [rest EXCEPT ![next] = Sleep(q[e])]
             /\ nextOccurrenceFuture' = next
  BY DEF ScheduleNextAlarmCycle
<1>2. next \in Timers
  BY <1>1
<1>3. task'[next] = "pending" /\ delay'[next] = Sleep(q[e])
  <2> HIDE DEF open, next
  <2> QED
    BY <1>1, <1>2 DEF open
<1>4. q[e] <= q[f] /\ q[e] \in Int /\ q[f] \in Int
  BY <1>1 DEF IsHead, Queued, Time
<1>5. Sleep(q[e]) <= Sleep(q[f])
  BY <1>4 DEF Sleep
<1> HIDE DEF next
<1> QED
  BY <1>2, <1>3, <1>5

(***************************************************************************)
(* Types                                                                   *)
(***************************************************************************)

LEMMA DeadlineType ==
  ASSUME NEW a \in Alarms, NEW d \in DeadlinesOf(a)
  PROVE  d \in Time /\ d # Null
BY DEF DeadlinesOf, Time, Alarms

LEMMA ClientStepTypes == TypeOK /\ ClientStep => TypeOK'
<1> SUFFICES ASSUME TypeOK, NEW a \in Alarms,
                    \/ \E d \in DeadlinesOf(a) : CreateAlarm(a, d)
                    \/ ScheduleNewAlarm(a)
                    \/ LookupAlarm(a)
                    \/ CancelAlarm(a)
                    \/ RemoveCancelledRow(a)
             PROVE  TypeOK'
  BY DEF ClientStep
<1> USE DEF timerVars, runVars, clientVars, historyVars
<1>1. ASSUME NEW d \in DeadlinesOf(a), CreateAlarm(a, d)
      PROVE  TypeOK'
  <2>1. d \in Time
    BY DeadlineType
  <2> QED
    BY <1>1, <2>1 DEF CreateAlarm, TypeOK, Alarms
<1>2. CASE ScheduleNewAlarm(a)
  <2>1. Client(a) \in Entries
    BY DEF Client, Entries
  <2>2. occurrences' \in [Entries -> Time \union {Null}]
    BY <1>2, <2>1 DEF ScheduleNewAlarm, Enqueue, TypeOK
  <2>3. alarmDescriptions' \subseteq Alarms
    BY <1>2 DEF ScheduleNewAlarm, Enqueue, TypeOK, Client
  <2>4. /\ task' \in [Timers -> TaskStates]
        /\ delay' \in [Timers -> Nat]
        /\ nextOccurrenceFuture' \in Timers \union {Null}
        /\ \A t \in Timers : task'[t] = "running" <=> task[t] = "running"
    <3>1. ScheduleNextAlarmCycle(occurrences', task)
      BY <1>2 DEF ScheduleNewAlarm
    <3>2. task \in [Timers -> TaskStates]
      BY DEF TypeOK
    <3> QED
      BY <2>2, <3>1, <3>2, ScheduleTypes
  <2> QED
    BY <1>2, <2>2, <2>3, <2>4 DEF ScheduleNewAlarm, TypeOK
<1>3. CASE LookupAlarm(a)
  BY <1>3 DEF LookupAlarm, TypeOK
<1>4. CASE CancelAlarm(a)
  BY <1>4 DEF CancelAlarm, TypeOK
<1>5. CASE RemoveCancelledRow(a)
  BY <1>5 DEF RemoveCancelledRow, TypeOK
<1> QED
  BY <1>1, <1>2, <1>3, <1>4, <1>5

LEMMA RunStepTypes == TypeOK /\ RunStep => TypeOK'
<1> SUFFICES ASSUME TypeOK, RunStep
             PROVE  TypeOK'
  OBVIOUS
<1> USE DEF timerVars, runVars, clientVars, historyVars
<1>1. ASSUME NEW t \in Timers, StartTimer(t)
      PROVE  TypeOK'
  BY <1>1 DEF StartTimer, TypeOK, TaskStates
<1>2. ASSUME NEW t \in Timers, BeginRun(t)
      PROVE  TypeOK'
  BY <1>2 DEF BeginRun, TypeOK, TaskStates, Unlocked
<1>3. ASSUME NEW t \in Timers, Reschedule(t)
      PROVE  TypeOK'
  <2> DEFINE ts == [task EXCEPT ![t] = "free"]
  <2>1. /\ ts \in [Timers -> TaskStates]
        /\ \A u \in Timers : ts[u] = "running" <=> task[u] = "running"
    BY <1>3 DEF Reschedule, TypeOK, TaskStates
  <2>2. occurrences \in [Entries -> Time \union {Null}]
    BY DEF TypeOK
  <2>3. ScheduleNextAlarmCycle(occurrences, ts)
    BY <1>3 DEF Reschedule
  <2> HIDE DEF ts
  <2>4. /\ task' \in [Timers -> TaskStates]
        /\ delay' \in [Timers -> Nat]
        /\ nextOccurrenceFuture' \in Timers \union {Null}
        /\ \A u \in Timers : task'[u] = "running" <=> ts[u] = "running"
    BY <2>1, <2>2, <2>3, ScheduleTypes
  <2> QED
    BY <1>3, <2>1, <2>4 DEF Reschedule, TypeOK
<1>4. ASSUME NEW e \in Entries, DropOccurrence(e)
      PROVE  TypeOK'
  BY <1>4 DEF DropOccurrence, TypeOK
<1>5. ASSUME NEW e \in Entries, FireTransient(e)
      PROVE  TypeOK'
  <2>1. e[1] \in Alarms /\ Repeat[e[1]] \in Time
    BY DEF Entries, Time, Alarms
  <2>2. jobs' \in [Alarms -> 0 .. MaxJobs]
    BY <1>5, <2>1 DEF FireTransient, HandOver, TypeOK
  <2>3. /\ occurrences' \in [Entries -> Time \union {Null}]
        /\ alarmDescriptions' \subseteq Alarms
    BY <1>5, <2>1 DEF FireTransient, Enqueue, WithoutDescription, TypeOK
  <2> QED
    BY <1>5, <2>2, <2>3 DEF FireTransient, TypeOK
<1>6. ASSUME NEW e \in Entries, FirePersistent(e)
      PROVE  TypeOK'
  <2>1. e[1] \in Alarms /\ e \in Persistent \X {"client", "loader"}
    BY <1>6 DEF FirePersistent, Entries
  <2>2. jobs' \in [Alarms -> 0 .. MaxJobs]
    BY <1>6, <2>1 DEF FirePersistent, HandOver, TypeOK
  <2> QED
    BY <1>6, <2>1, <2>2 DEF FirePersistent, CanPop, WithoutDescription, TypeOK
<1>7. CASE StoreFired
  <2>1. firing \in Entries /\ firing[1] \in Persistent /\ firing[1] \in Alarms
    BY <1>7 DEF StoreFired, TypeOK, Entries, Alarms
  <2>2. Repeat[firing[1]] \in Time /\ Stored(firing[1]) \in Time \union {Null}
    BY <2>1 DEF Stored, Time
  <2>3. rows' \in [Persistent -> Time \union {Null}]
    BY <1>7, <2>2 DEF StoreFired, TypeOK
  <2>4. /\ occurrences' \in [Entries -> Time \union {Null}]
        /\ alarmDescriptions' \subseteq Alarms
    BY <1>7, <2>1, <2>2 DEF StoreFired, Enqueue, TypeOK
  <2> QED
    BY <1>7, <2>3, <2>4 DEF StoreFired, TypeOK
<1>8. CASE AbortRun
  BY <1>8 DEF AbortRun, TypeOK, TaskStates
<1>9. CASE EndRun
  BY <1>9 DEF EndRun, TypeOK, TaskStates
<1> QED
  BY <1>1, <1>2, <1>3, <1>4, <1>5, <1>6, <1>7, <1>8, <1>9 DEF RunStep

LEMMA ServiceStepTypes == TypeOK /\ ServiceStep => TypeOK'
<1> SUFFICES ASSUME TypeOK, ServiceStep
             PROVE  TypeOK'
  OBVIOUS
<1> USE DEF timerVars, runVars, clientVars, historyVars
<1>1. CASE Restart
  BY <1>1 DEF Restart, TypeOK
<1>2. CASE DoStart
  <2>1. given' \in [Entries -> Time \union {Null}]
    BY <1>2 DEF DoStart, TypeOK
  <2> QED
    BY <1>2, <2>1 DEF DoStart, TypeOK
<1>3. CASE FinishStart
  <2>1. /\ occurrences \in [Entries -> Time \union {Null}]
        /\ task \in [Timers -> TaskStates]
    BY DEF TypeOK
  <2>2. /\ task' \in [Timers -> TaskStates]
        /\ delay' \in [Timers -> Nat]
        /\ nextOccurrenceFuture' \in Timers \union {Null}
        /\ \A t \in Timers : task'[t] = "running" <=> task[t] = "running"
    BY <1>3, <2>1, ScheduleTypes DEF FinishStart
  <2> QED
    BY <1>3, <2>2 DEF FinishStart, TypeOK
<1>4. CASE Crash
  BY <1>4 DEF Crash, TypeOK, TaskStates
<1>5. ASSUME NEW a \in Alarms, LoadAlarm(a)
      PROVE  TypeOK'
  <2>1. Loader(a) \in Entries /\ Loader(a)[1] = a
    BY DEF Loader, Entries
  <2>2. /\ occurrences' \in [Entries -> Time \union {Null}]
        /\ alarmDescriptions' \subseteq Alarms
        /\ given' \in [Entries -> Time \union {Null}]
    BY <1>5, <2>1 DEF LoadAlarm, Enqueue, TypeOK
  <2> QED
    BY <1>5, <2>2 DEF LoadAlarm, TypeOK
<1>6. ASSUME NEW a \in Alarms, RunCallback(a)
      PROVE  TypeOK'
  BY <1>6 DEF RunCallback, TypeOK
<1> QED
  BY <1>1, <1>2, <1>3, <1>4, <1>5, <1>6 DEF ServiceStep

LEMMA AgeType ==
  ASSUME NEW d \in Time \union {Null}
  PROVE  Age(d) \in Time \union {Null} /\ (Age(d) = Null <=> d = Null)
BY DEF Age, Time

LEMMA TickTypes == TypeOK /\ Tick => TypeOK'
<1> SUFFICES ASSUME TypeOK, Tick
             PROVE  TypeOK'
  OBVIOUS
<1>1. /\ occurrences' \in [Entries -> Time \union {Null}]
      /\ given' \in [Entries -> Time \union {Null}]
      /\ rows' \in [Persistent -> Time \union {Null}]
  BY AgeType DEF Tick, TypeOK
<1>2. delay' \in [Timers -> Nat] /\ lag' \in 0 .. MaxLag
  BY DEF Tick, TypeOK
<1> QED
  BY <1>1, <1>2 DEF Tick, TypeOK, clientVars, historyVars

\* DefaultAlarmManager's variables keep their types, whatever its clients, its
\* timers, the database and crashes do.
THEOREM TypeCorrect == Spec => []TypeOK
<1>1. Init => TypeOK
  BY DEF Init, TypeOK, TaskStates
<1>2. TypeOK /\ [Next]_vars => TypeOK'
  <2> SUFFICES ASSUME TypeOK, [Next]_vars
               PROVE  TypeOK'
    OBVIOUS
  <2>1. CASE Next
    BY <2>1, ClientStepTypes, RunStepTypes, ServiceStepTypes, TickTypes DEF Next
  <2>2. CASE UNCHANGED vars
    BY <2>2 DEF vars, timerVars, runVars, clientVars, historyVars, TypeOK
  <2> QED
    BY <2>1, <2>2
<1> QED
  BY <1>1, <1>2, PTL DEF Spec

(***************************************************************************)
(* Rows, descriptions and cancellation                                     *)
(***************************************************************************)

\* Nothing in the memory of the server knows of a, except perhaps a thread
\* that is about to queue it.
Quiet(a) ==
  /\ a \notin alarmDescriptions
  /\ a \notin handles
  /\ a \notin cancelling
  /\ jobs[a] = 0
  /\ ~HalfFired(a)

NotGiven(a) == given[Client(a)] = Null /\ given[Loader(a)] = Null

\* An alarm nobody asked for leaves no trace.
UnissuedOK(a) ==
  a \notin issued => /\ Quiet(a) /\ NotGiven(a)
                     /\ a \in Persistent => rows[a] = Null

\* While createPersistentAlarm is between its two steps the row is there and
\* nobody can have got hold of the alarm: doStart was over before.
CreatingOK(a) ==
  given[Client(a)] # Null =>
    /\ Quiet(a) /\ given[Loader(a)] = Null
    /\ a \in Persistent => rows[a] # Null /\ server = "running"

\* What doStart has read and not queued yet is not known to anybody else.
LoadingOK(a) ==
  given[Loader(a)] # Null =>
    a \in Persistent /\ server = "loading" /\ rows[a] # Null /\ Quiet(a)

\* Before doStart reads the database no persistent alarm is in memory.
BootOK(a) ==
  server \in {"down", "boot"} /\ a \in Persistent => Quiet(a) /\ NotGiven(a)

\* The description of an alarm that is being fired is not in the map.
LiveOK(a) ==
  /\ a \in Persistent /\ (a \in alarmDescriptions \/ HalfFired(a))
       => rows[a] # Null /\ a \notin cancelling
  /\ HalfFired(a) => a \notin alarmDescriptions

CancelledOK(a) ==
  a \in cancelled =>
    /\ a \in issued /\ a \notin alarmDescriptions /\ ~HalfFired(a) /\ NotGiven(a)
    /\ a \in Persistent => rows[a] = Null

AlarmOK(a) ==
  UnissuedOK(a) /\ CreatingOK(a) /\ LoadingOK(a) /\ BootOK(a) /\ LiveOK(a)
    /\ CancelledOK(a)

\* The inductive invariant behind RowOutlivesDescription and CancelledIsGone.
AlarmsInv == ~EarlyClients => \A a \in Alarms : AlarmOK(a)

LEMMA EntryNames ==
  ASSUME NEW a \in Alarms
  PROVE  /\ Client(a) \in Entries /\ Loader(a) \in Entries
         /\ Client(a)[1] = a /\ Loader(a)[1] = a /\ Loader(a)[2] = "loader"
         /\ Client(a)[2] = "client"
         /\ \A b \in Alarms : /\ Client(a) # Loader(b)
                              /\ Client(a) = Client(b) => a = b
                              /\ Loader(a) = Loader(b) => a = b
BY DEF Client, Loader, Entries

\* A step that changes nothing but the timers and their threads.
LEMMA AlarmsInvFrame ==
  ASSUME TypeOK, AlarmsInv,
         server' = server, UNCHANGED <<alarmDescriptions, firing, given, jobs,
                                       handles, cancelling, rows, issued, cancelled>>
  PROVE  AlarmsInv'
BY DEF AlarmsInv, AlarmOK, UnissuedOK, CreatingOK, LoadingOK, BootOK, LiveOK,
       CancelledOK, Quiet, NotGiven, HalfFired, Client, Loader

LEMMA ClientStepAlarms == TypeOK /\ AlarmsInv /\ ClientStep => AlarmsInv'
<1> SUFFICES ASSUME TypeOK, AlarmsInv, ~EarlyClients, NEW a \in Alarms,
                    \/ \E d \in DeadlinesOf(a) : CreateAlarm(a, d)
                    \/ ScheduleNewAlarm(a)
                    \/ LookupAlarm(a)
                    \/ CancelAlarm(a)
                    \/ RemoveCancelledRow(a),
                    NEW b \in Alarms
             PROVE  AlarmOK(b)'
  BY DEF ClientStep, AlarmsInv
<1> USE EntryNames
<1>0. AlarmOK(a) /\ AlarmOK(b)
  BY DEF AlarmsInv
<1> USE DEF AlarmOK, UnissuedOK, CreatingOK, LoadingOK, BootOK, LiveOK,
            CancelledOK, Quiet, NotGiven, HalfFired
<1> USE DEF timerVars, runVars, clientVars, historyVars
<1>1. ASSUME NEW d \in DeadlinesOf(a), CreateAlarm(a, d)
      PROVE  AlarmOK(b)'
  <2>1. d # Null
    BY DeadlineType
  <2>2. server' = server /\ (a \in Persistent => server = "running")
    BY <1>1 DEF CreateAlarm, MayCreate, Alarms
  <2>3. /\ given'[Client(b)] = IF a = b THEN d ELSE given[Client(b)]
        /\ given'[Loader(b)] = given[Loader(b)]
        /\ b \in Persistent => rows'[b] = IF a = b THEN d ELSE rows[b]
    BY <1>1 DEF CreateAlarm, TypeOK
  <2>4. CASE a = b
    BY <1>0, <1>1, <2>1, <2>2, <2>3, <2>4 DEF CreateAlarm
  <2>5. CASE a # b
    BY <1>0, <1>1, <2>2, <2>3, <2>5 DEF CreateAlarm
  <2> QED
    BY <2>4, <2>5
<1>2. CASE ScheduleNewAlarm(a)
  <2>1. /\ given'[Client(b)] = IF a = b THEN Null ELSE given[Client(b)]
        /\ given'[Loader(b)] = given[Loader(b)]
        /\ alarmDescriptions' = alarmDescriptions \union {a}
        /\ handles' = handles \union {a}
    BY <1>2 DEF ScheduleNewAlarm, Enqueue, TypeOK
  <2> QED
    BY <1>0, <1>2, <2>1 DEF ScheduleNewAlarm
<1>3. CASE LookupAlarm(a)
  BY <1>0, <1>3 DEF LookupAlarm
<1>4. CASE CancelAlarm(a)
  BY <1>0, <1>4 DEF CancelAlarm, Unlocked, TypeOK
<1>5. CASE RemoveCancelledRow(a)
  BY <1>0, <1>5 DEF RemoveCancelledRow, TypeOK
<1> QED
  BY <1>1, <1>2, <1>3, <1>4, <1>5

LEMMA RunStepAlarms == TypeOK /\ AlarmsInv /\ RunStep => AlarmsInv'
<1> SUFFICES ASSUME TypeOK, AlarmsInv, ~EarlyClients, RunStep, NEW b \in Alarms
             PROVE  AlarmOK(b)'
  BY DEF AlarmsInv
<1>0. AlarmOK(b) /\ \A a \in Alarms : AlarmOK(a)
  BY DEF AlarmsInv
<1> USE DEF timerVars, runVars, clientVars, historyVars
<1>1. ASSUME NEW t \in Timers, StartTimer(t) \/ BeginRun(t) \/ Reschedule(t)
      PROVE  AlarmOK(b)'
  BY <1>1, AlarmsInvFrame DEF StartTimer, BeginRun, Reschedule, AlarmsInv
<1>2. ASSUME NEW e \in Entries, DropOccurrence(e)
      PROVE  AlarmOK(b)'
  BY <1>2, AlarmsInvFrame DEF DropOccurrence, AlarmsInv
<1>3. CASE EndRun
  BY <1>3, AlarmsInvFrame DEF EndRun, AlarmsInv
<1> USE DEF AlarmOK, UnissuedOK, CreatingOK, LoadingOK, BootOK, LiveOK,
            CancelledOK, Quiet, NotGiven, HalfFired
<1>4. ASSUME NEW e \in Entries, FireTransient(e)
      PROVE  AlarmOK(b)'
  <2>1. e[1] \in Alarms /\ e[1] \in Transient /\ e[1] \in alarmDescriptions
    BY <1>4 DEF FireTransient, IsLive, Entries
  <2>2. b \in alarmDescriptions' => b \in alarmDescriptions
    BY <1>4, <2>1 DEF FireTransient, Enqueue, WithoutDescription
  <2>3. e[1] # b => jobs'[b] = jobs[b]
    BY <1>4 DEF FireTransient, HandOver, TypeOK
  <2>4. /\ UNCHANGED <<server, firing, given, handles, cancelling, rows, issued,
                       cancelled>>
        /\ e[1] \notin Persistent
    BY <1>4, <2>1 DEF FireTransient
  <2> QED
    BY <1>0, <2>1, <2>2, <2>3, <2>4
<1>5. ASSUME NEW e \in Entries, FirePersistent(e)
      PROVE  AlarmOK(b)'
  <2>1. e[1] \in Alarms /\ e[1] \in Persistent /\ e[1] \in alarmDescriptions
    BY <1>5 DEF FirePersistent, IsLive, Entries
  <2>2. /\ alarmDescriptions' = alarmDescriptions \ {e[1]}
        /\ jobs' = [jobs EXCEPT ![e[1]] = @ + 1]
        /\ firing' = e /\ firing = Null
    BY <1>5 DEF FirePersistent, WithoutDescription, HandOver, CanPop
  <2> QED
    BY <1>0, <1>5, <2>1, <2>2 DEF FirePersistent, TypeOK
<1>6. CASE StoreFired
  <2> DEFINE a == firing[1]
  <2>1. firing # Null /\ a \in Persistent /\ a \in Alarms /\ HalfFired(a)
    BY <1>6 DEF StoreFired, TypeOK, Alarms
  <2>2. /\ rows[a] # Null
        /\ rows' = [rows EXCEPT ![a] = Stored(a)]
        /\ \/ Repeat[a] > 0 /\ alarmDescriptions' = alarmDescriptions \union {a}
           \/ Repeat[a] = 0 /\ alarmDescriptions' = alarmDescriptions
        /\ firing' = Null
    BY <1>6 DEF StoreFired, Enqueue
  <2>3. Repeat[a] > 0 => Stored(a) # Null
    BY <2>1 DEF Stored
  <2>4. \A c \in Persistent : rows'[c] = IF c = a THEN Stored(a) ELSE rows[c]
    BY <2>2 DEF TypeOK
  <2>U. UNCHANGED <<server, given, jobs, handles, cancelling, issued, cancelled>>
    BY <1>6 DEF StoreFired
  <2> HIDE DEF a
  <2>5. CASE b = a
    BY <1>0, <2>1, <2>2, <2>3, <2>4, <2>U, <2>5
  <2>6. CASE b # a
    BY <1>0, <2>1, <2>2, <2>4, <2>U, <2>6 DEF a
  <2> QED
    BY <2>5, <2>6
<1>7. CASE AbortRun
  BY <1>0, <1>7 DEF AbortRun
<1> QED
  BY <1>1, <1>2, <1>3, <1>4, <1>5, <1>6, <1>7 DEF RunStep

LEMMA ServiceStepAlarms == TypeOK /\ AlarmsInv /\ ServiceStep => AlarmsInv'
<1> SUFFICES ASSUME TypeOK, AlarmsInv, ~EarlyClients, ServiceStep, NEW b \in Alarms
             PROVE  AlarmOK(b)'
  BY DEF AlarmsInv
<1>0. AlarmOK(b) /\ \A a \in Alarms : AlarmOK(a)
  BY DEF AlarmsInv
<1>E. /\ Client(b) \in Entries /\ Loader(b) \in Entries
      /\ Loader(b)[1] = b /\ Loader(b)[2] = "loader" /\ Client(b)[2] = "client"
  BY EntryNames
<1> USE DEF timerVars, runVars, clientVars, historyVars
<1> USE DEF AlarmOK, UnissuedOK, CreatingOK, LoadingOK, BootOK, LiveOK,
            CancelledOK, Quiet, NotGiven, HalfFired
<1>1. CASE Restart
  BY <1>0, <1>1 DEF Restart
<1>2. CASE DoStart
  <2>1. CASE UNCHANGED given /\ server' = "running"
    BY <1>0, <1>2, <2>1 DEF DoStart
  <2>2. CASE /\ server' = "loading"
             /\ given'[Client(b)] = given[Client(b)]
             /\ given'[Loader(b)] = IF b \in Persistent THEN rows[b]
                                                       ELSE given[Loader(b)]
    BY <1>0, <1>2, <2>2 DEF DoStart
  <2> QED
    BY <1>2, <1>E, <2>1, <2>2 DEF DoStart
<1>3. CASE FinishStart
  BY <1>0, <1>3, EntryNames DEF FinishStart
<1>4. CASE Crash
  BY <1>0, <1>4, <1>E DEF Crash
<1>5. ASSUME NEW a \in Alarms, LoadAlarm(a)
      PROVE  AlarmOK(b)'
  <2>1. /\ given'[Loader(b)] = IF a = b THEN Null ELSE given[Loader(b)]
        /\ given'[Client(b)] = given[Client(b)]
    BY <1>5, <1>E, EntryNames DEF LoadAlarm, TypeOK
  <2>2. \/ alarmDescriptions' = alarmDescriptions
        \/ alarmDescriptions' = alarmDescriptions \union {a}
    BY <1>5, EntryNames DEF LoadAlarm, Enqueue
  <2> QED
    BY <1>0, <1>5, <2>1, <2>2 DEF LoadAlarm
<1>6. ASSUME NEW a \in Alarms, RunCallback(a)
      PROVE  AlarmOK(b)'
  BY <1>0, <1>6 DEF RunCallback, TypeOK
<1> QED
  BY <1>1, <1>2, <1>3, <1>4, <1>5, <1>6 DEF ServiceStep

LEMMA TickAlarms == TypeOK /\ AlarmsInv /\ Tick => AlarmsInv'
<1> SUFFICES ASSUME TypeOK, AlarmsInv, ~EarlyClients, Tick, NEW b \in Alarms
             PROVE  AlarmOK(b)'
  BY DEF AlarmsInv
<1>1. AlarmOK(b)
  BY DEF AlarmsInv
<1>2. /\ given'[Client(b)] = Null <=> given[Client(b)] = Null
      /\ given'[Loader(b)] = Null <=> given[Loader(b)] = Null
  BY EntryNames, AgeType DEF Tick, TypeOK
<1>3. b \in Persistent => (rows'[b] = Null <=> rows[b] = Null)
  BY AgeType DEF Tick, TypeOK
<1> QED
  BY <1>1, <1>2, <1>3
  DEF Tick, clientVars, historyVars, AlarmOK, UnissuedOK, CreatingOK, LoadingOK,
      BootOK, LiveOK, CancelledOK, Quiet, NotGiven, HalfFired

THEOREM AlarmsInvariant == Spec => [](TypeOK /\ AlarmsInv)
<1>1. Init => AlarmsInv
  BY EntryNames DEF Init, AlarmsInv, AlarmOK, UnissuedOK, CreatingOK, LoadingOK,
     BootOK, LiveOK, CancelledOK, Quiet, NotGiven, HalfFired
<1>2. TypeOK /\ AlarmsInv /\ [Next]_vars => AlarmsInv'
  <2> SUFFICES ASSUME TypeOK, AlarmsInv, [Next]_vars
               PROVE  AlarmsInv'
    OBVIOUS
  <2>1. CASE Next
    BY <2>1, ClientStepAlarms, RunStepAlarms, ServiceStepAlarms, TickAlarms
    DEF Next
  <2>2. CASE UNCHANGED vars
    BY <2>2, AlarmsInvFrame
    DEF vars, timerVars, runVars, clientVars, historyVars
  <2> QED
    BY <2>1, <2>2
<1> QED
  BY <1>1, <1>2, TypeCorrect, PTL DEF Spec

\* fireAlarm always finds the row it is about to change, and no cancel() is
\* about to remove it: updateAlarm and removeAlarm do not throw out of run()
\* unless the database itself fails.
THEOREM RowsOutliveDescriptions == Spec => []RowOutlivesDescription
<1>1. TypeOK /\ AlarmsInv => RowOutlivesDescription
  BY DEF RowOutlivesDescription, AlarmsInv, AlarmOK, LiveOK, HalfFired, Alarms
<1> QED
  BY <1>1, AlarmsInvariant, PTL

\* A cancel() that has returned is final: neither a run() in progress, nor the
\* occurrence left in the queue, nor a restart brings the alarm back.
THEOREM CancelIsFinal == Spec => []CancelledIsGone
<1>1. TypeOK /\ AlarmsInv => CancelledIsGone
  BY DEF CancelledIsGone, TypeOK, AlarmsInv, AlarmOK, CancelledOK
<1> QED
  BY <1>1, AlarmsInvariant, PTL

\* Nobody but fireAlarm hands a callback to the executor.
LEMMA OnlyFireHandsOver ==
  ASSUME TypeOK, Next, NEW a \in Alarms, ~(jobs'[a] <= jobs[a])
  PROVE  \E e \in Entries : e[1] = a /\ (FireTransient(e) \/ FirePersistent(e))
<1> USE DEF timerVars, runVars, clientVars, historyVars
<1>0. jobs \in [Alarms -> 0 .. MaxJobs]
  BY DEF TypeOK
<1>1. jobs' # jobs
  BY <1>0
<1>2. ~ClientStep
  BY <1>1 DEF ClientStep, CreateAlarm, ScheduleNewAlarm, LookupAlarm, CancelAlarm,
     RemoveCancelledRow
<1>3. ~Tick
  BY <1>1 DEF Tick
<1>4. ASSUME ServiceStep PROVE FALSE
  <2>1. ~Restart /\ ~DoStart /\ ~FinishStart /\ \A b \in Alarms : ~LoadAlarm(b)
    BY <1>1 DEF Restart, DoStart, FinishStart, LoadAlarm
  <2>2. ~Crash
    BY <1>0 DEF Crash
  <2>3. \A b \in Alarms : ~RunCallback(b)
    BY <1>0 DEF RunCallback
  <2> QED
    BY <1>4, <2>1, <2>2, <2>3 DEF ServiceStep
<1>5. PICK e \in Entries : FireTransient(e) \/ FirePersistent(e)
  BY <1>1, <1>2, <1>3, <1>4 DEF Next, RunStep, StartTimer, BeginRun, Reschedule,
     DropOccurrence, StoreFired, AbortRun, EndRun
<1>6. jobs' = [jobs EXCEPT ![e[1]] = @ + 1]
  BY <1>5 DEF FireTransient, FirePersistent, HandOver
<1>7. CASE e[1] = a
  BY <1>5, <1>7
<1>8. CASE e[1] # a
  BY <1>0, <1>6, <1>8
<1> QED
  BY <1>7, <1>8

\* Whatever is left in the queue, an alarm that was cancelled, or whose cancel()
\* has passed cancelAlarm, is never handed to the executor again.
THEOREM CancelledNeverFires == Spec => NoFireAfterCancel
<1>1. TypeOK /\ AlarmsInv /\ [Next]_vars =>
        [~EarlyClients =>
           \A a \in cancelled \union cancelling : jobs'[a] <= jobs[a]]_vars
  <2> SUFFICES ASSUME TypeOK, AlarmsInv, Next, ~EarlyClients,
                      NEW a \in cancelled \union cancelling
               PROVE  jobs'[a] <= jobs[a]
    OBVIOUS
  <2>1. a \in Alarms
    BY DEF TypeOK, Alarms
  <2>2. a \in cancelling => a \in Persistent
    BY DEF TypeOK
  <2>3. a \notin alarmDescriptions
    BY <2>1, <2>2 DEF AlarmsInv, AlarmOK, CancelledOK, LiveOK
  <2>4. \A e \in Entries : FireTransient(e) \/ FirePersistent(e)
                             => e[1] \in alarmDescriptions
    BY DEF FireTransient, FirePersistent, IsLive
  <2> QED
    BY <2>1, <2>3, <2>4, OnlyFireHandsOver
<1> QED
  BY <1>1, AlarmsInvariant, PTL DEF Spec, NoFireAfterCancel

\* Whichever timers make run() look at the queue, it fires nothing before its
\* deadline: also those it should have cancelled and those set for another
\* occurrence.
THEOREM NothingFiresEarly == Spec => NeverEarly
<1>1. TypeOK /\ [Next]_vars =>
        [\A a \in Alarms : jobs'[a] > jobs[a] =>
           \E e \in Queued(occurrences) : e[1] = a /\ occurrences[e] <= 0]_vars
  <2> SUFFICES ASSUME TypeOK, Next, NEW a \in Alarms, jobs'[a] > jobs[a]
               PROVE  \E e \in Queued(occurrences) : e[1] = a /\ occurrences[e] <= 0
    OBVIOUS
  <2>1. ~(jobs'[a] <= jobs[a])
    BY TickTypes, ClientStepTypes, RunStepTypes, ServiceStepTypes DEF Next, TypeOK
  <2>2. PICK e \in Entries : e[1] = a /\ (FireTransient(e) \/ FirePersistent(e))
    BY <2>1, OnlyFireHandsOver
  <2>3. e \in Queued(occurrences) /\ occurrences[e] < -lag
    BY <2>2 DEF FireTransient, FirePersistent, CanPop, Due, IsHead
  <2>4. occurrences[e] \in Int /\ lag \in Nat
    BY <2>3 DEF TypeOK, Queued, Time
  <2>5. occurrences[e] <= 0
    BY <2>3, <2>4
  <2> QED
    BY <2>2, <2>3, <2>5
<1> QED
  BY <1>1, TypeCorrect, PTL DEF Spec, NeverEarly

(***************************************************************************)
(* No wakeup is lost                                                       *)
(***************************************************************************)

\* A pending timer and the occurrence it was set for age together.
LEMMA SleepAges ==
  ASSUME NEW x \in Time, NEW n \in Nat, n <= Sleep(x)
  PROVE  (IF n > 0 THEN n - 1 ELSE 0) <= Sleep(Age(x))
<1>1. x \in Int /\ Null \notin Int /\ MinSleep \in Nat \ {0} /\ Horizon \in Nat
  BY DEF Time
<1> QED
  BY <1>1 DEF Sleep, Age

\* Whoever holds the locks is a thread that will reschedule.
LEMMA RunnerReschedules ==
  ASSUME TypeOK, runner # Null
  PROVE  WillReschedule
BY DEF TypeOK, WillReschedule

LEMMA WakeupScheduledStep ==
  TypeOK /\ TypeOK' /\ AlarmsInv /\ WakeupScheduled /\ [Next]_vars
    => WakeupScheduled'
<1> SUFFICES ASSUME TypeOK, TypeOK', AlarmsInv, WakeupScheduled, [Next]_vars,
                    Reliable, ~WillReschedule', NEW e \in Queued(occurrences)'
             PROVE  \E t \in Timers : /\ task'[t] = "pending"
                                      /\ delay'[t] <= Sleep(occurrences'[e])
  BY DEF WakeupScheduled, Reliable, Queued
<1> DEFINE Goal == \E t \in Timers : /\ task'[t] = "pending"
                                     /\ delay'[t] <= Sleep(occurrences'[e])
<1>0. /\ occurrences \in [Entries -> Time \union {Null}]
      /\ occurrences' \in [Entries -> Time \union {Null}]
      /\ task \in [Timers -> TaskStates]
      /\ e \in Entries /\ occurrences'[e] # Null
      /\ e \in Queued(occurrences')
  BY DEF TypeOK, Queued
<1> USE DEF timerVars, runVars, clientVars, historyVars
<1>1. ASSUME UNCHANGED <<server, occurrences, task, delay>>
      PROVE  Goal
  BY <1>0, <1>1 DEF WakeupScheduled, WillReschedule, Queued
<1>2. ASSUME UNCHANGED task, runner # Null
      PROVE  FALSE
  BY <1>2 DEF TypeOK, WillReschedule
<1>3. CASE UNCHANGED vars
  BY <1>1, <1>3 DEF vars
<1>4. CASE ClientStep
  <2> PICK a \in Alarms : \/ \E d \in DeadlinesOf(a) : CreateAlarm(a, d)
                          \/ ScheduleNewAlarm(a)
                          \/ LookupAlarm(a)
                          \/ CancelAlarm(a)
                          \/ RemoveCancelledRow(a)
    BY <1>4 DEF ClientStep
  <2>1. CASE ScheduleNewAlarm(a)
    <3>1. ScheduleNextAlarmCycle(occurrences', task)
      BY <2>1 DEF ScheduleNewAlarm
    <3> QED
      BY <1>0, <3>1, ScheduleCovers
  <2>2. CASE ~ScheduleNewAlarm(a)
    BY <1>1, <2>2 DEF CreateAlarm, LookupAlarm, CancelAlarm, RemoveCancelledRow
  <2> QED
    BY <2>1, <2>2
<1>5. CASE RunStep
  <2>1. ASSUME NEW t \in Timers, StartTimer(t) \/ BeginRun(t)
        PROVE  FALSE
    BY <1>0, <2>1 DEF StartTimer, BeginRun, WillReschedule
  <2>2. ASSUME NEW t \in Timers, Reschedule(t)
        PROVE  Goal
    <3>1. [task EXCEPT ![t] = "free"] \in [Timers -> TaskStates]
      BY <1>0 DEF TaskStates
    <3>2. /\ occurrences' = occurrences
          /\ ScheduleNextAlarmCycle(occurrences, [task EXCEPT ![t] = "free"])
      BY <2>2 DEF Reschedule
    <3> QED
      BY <1>0, <3>1, <3>2, ScheduleCovers
  <2>3. ASSUME NEW f \in Entries,
               DropOccurrence(f) \/ FireTransient(f) \/ FirePersistent(f)
        PROVE  FALSE
    BY <1>2, <2>3 DEF DropOccurrence, FireTransient, FirePersistent, CanPop
  <2>4. ~StoreFired
    BY <1>2 DEF StoreFired, TypeOK
  <2>5. ~AbortRun
    BY DEF AbortRun, Reliable, AlarmsInv, AlarmOK, LiveOK, HalfFired, TypeOK, Alarms
  <2>6. ~EndRun
    BY <1>0 DEF EndRun, WillReschedule, TypeOK
  <2> QED
    BY <1>5, <2>1, <2>2, <2>3, <2>4, <2>5, <2>6 DEF RunStep
<1>6. CASE ServiceStep
  <2>1. ~DoStart
    BY DEF DoStart, Reliable, WillReschedule
  <2>2. CASE FinishStart
    BY <1>0, <2>2, ScheduleCovers DEF FinishStart
  <2>3. ~Crash
    BY <1>0 DEF Crash
  <2>4. \A a \in Alarms : ~LoadAlarm(a)
    BY DEF LoadAlarm, WillReschedule
  <2>5. ASSUME NEW a \in Alarms, RunCallback(a)
        PROVE  Goal
    BY <1>1, <2>5 DEF RunCallback
  <2>6. CASE Restart
    <3>1. ~WillReschedule /\ UNCHANGED <<occurrences, task, delay>>
      BY <2>6 DEF Restart, WillReschedule
    <3> QED
      BY <1>0, <3>1 DEF WakeupScheduled, Queued
  <2> QED
    BY <1>6, <2>1, <2>2, <2>3, <2>4, <2>5, <2>6 DEF ServiceStep
<1>7. CASE Tick
  <2>1. /\ occurrences'[e] = Age(occurrences[e])
        /\ occurrences[e] \in Time \union {Null}
    BY <1>0, <1>7 DEF Tick
  <2>2. occurrences[e] # Null /\ occurrences[e] \in Time
    BY <1>0, <2>1 DEF Age
  <2>3. ~WillReschedule
    BY <1>7 DEF Tick, WillReschedule
  <2>4. PICK t \in Timers : task[t] = "pending" /\ delay[t] <= Sleep(occurrences[e])
    BY <1>0, <2>2, <2>3 DEF WakeupScheduled, Queued
  <2>5. /\ task'[t] = "pending"
        /\ delay'[t] = IF delay[t] > 0 THEN delay[t] - 1 ELSE 0
    BY <1>7, <2>4 DEF Tick
  <2>6. delay[t] \in Nat
    BY DEF TypeOK
  <2>7. delay'[t] <= Sleep(occurrences'[e])
    BY <2>1, <2>2, <2>4, <2>5, <2>6, SleepAges
  <2> QED
    BY <2>5, <2>7
<1> QED
  BY <1>3, <1>4, <1>5, <1>6, <1>7 DEF Next

\* scheduleNextAlarmCycle never leaves an occurrence without a timer: between
\* clients that add and cancel alarms, runs that started before them, stale
\* timers and doStart, some timer goes off by every deadline or within the
\* minimum sleep, or a thread is about to set it.
THEOREM NoWakeupLost == Spec => []WakeupScheduled
<1>1. Init => WakeupScheduled
  BY DEF Init, WakeupScheduled, Queued
<1>2. TypeOK /\ TypeOK' /\ AlarmsInv /\ WakeupScheduled /\ [Next]_vars
        => WakeupScheduled'
  BY WakeupScheduledStep
<1> QED
  BY <1>1, <1>2, AlarmsInvariant, PTL DEF Spec

(***************************************************************************)
(* Queue, map and database agree                                           *)
(***************************************************************************)

NotQueued(a) == occurrences[Client(a)] = Null /\ occurrences[Loader(a)] = Null

QueuedOnce(a) == ~(occurrences[Client(a)] = Null <=> occurrences[Loader(a)] = Null)

\* An alarm that is yet to be queued has nothing in the queue: who may queue it
\* is the client that makes it, doStart, or fireAlarm for one that repeats.
ToBeQueuedOK(a) ==
  (a \notin issued \/ ~NotGiven(a) \/ HalfFired(a)
     \/ (a \in Persistent /\ server \in {"down", "boot"})) => NotQueued(a)

\* The deadline that a client or doStart is about to queue is the one stored.
GivenOK(a) ==
  a \in Persistent =>
    /\ given[Client(a)] # Null => given[Client(a)] = rows[a]
    /\ given[Loader(a)] # Null => given[Loader(a)] = rows[a]

QueuedOK(a) ==
  a \in alarmDescriptions =>
    /\ QueuedOnce(a)
    /\ a \in Persistent =>
         /\ occurrences[Client(a)] # Null => occurrences[Client(a)] = rows[a]
         /\ occurrences[Loader(a)] # Null => occurrences[Loader(a)] = rows[a]

\* The inductive invariant behind OccurrencesAgree, on top of AlarmsInv.
QueueInv ==
  ~EarlyClients => \A a \in Alarms : ToBeQueuedOK(a) /\ GivenOK(a) /\ QueuedOK(a)

LEMMA EntryOf ==
  ASSUME NEW e \in Entries
  PROVE  e[1] \in Alarms /\ (e = Client(e[1]) \/ e = Loader(e[1]))
BY DEF Client, Loader, Entries

LEMMA QueueInvFrame ==
  ASSUME QueueInv, server' = server,
         UNCHANGED <<occurrences, alarmDescriptions, firing, given, rows, issued>>
  PROVE  QueueInv'
BY DEF QueueInv, ToBeQueuedOK, GivenOK, QueuedOK, QueuedOnce, NotQueued, NotGiven,
       HalfFired, Client, Loader

LEMMA ClientStepQueue == TypeOK /\ AlarmsInv /\ QueueInv /\ ClientStep => QueueInv'
<1> SUFFICES ASSUME TypeOK, AlarmsInv, QueueInv, ~EarlyClients, NEW a \in Alarms,
                    \/ \E d \in DeadlinesOf(a) : CreateAlarm(a, d)
                    \/ ScheduleNewAlarm(a)
                    \/ LookupAlarm(a)
                    \/ CancelAlarm(a)
                    \/ RemoveCancelledRow(a),
                    NEW b \in Alarms
             PROVE  (ToBeQueuedOK(b) /\ GivenOK(b) /\ QueuedOK(b))'
  BY DEF ClientStep, QueueInv
<1> USE EntryNames
<1>0. /\ AlarmOK(a) /\ AlarmOK(b)
      /\ ToBeQueuedOK(b) /\ GivenOK(b) /\ QueuedOK(b)
  BY DEF AlarmsInv, QueueInv
<1> USE DEF AlarmOK, UnissuedOK, CreatingOK, LoadingOK, LiveOK,
            Quiet, NotGiven, HalfFired, ToBeQueuedOK, GivenOK, QueuedOK, QueuedOnce, NotQueued
<1> USE DEF timerVars, runVars, clientVars, historyVars
<1>1. ASSUME NEW d \in DeadlinesOf(a), CreateAlarm(a, d)
      PROVE  (ToBeQueuedOK(b) /\ GivenOK(b) /\ QueuedOK(b))'
  <2>1. /\ given'[Client(b)] = IF a = b THEN d ELSE given[Client(b)]
        /\ given'[Loader(b)] = given[Loader(b)]
        /\ b \in Persistent => rows'[b] = IF a = b THEN d ELSE rows[b]
    BY <1>1 DEF CreateAlarm, TypeOK
  <2>2. /\ UNCHANGED <<server, occurrences, alarmDescriptions, firing>>
        /\ a \notin issued /\ issued' = issued \union {a}
    BY <1>1 DEF CreateAlarm
  <2> QED
    BY <1>0, <2>1, <2>2
<1>2. CASE ScheduleNewAlarm(a)
  <2>1. /\ given'[Client(b)] = IF a = b THEN Null ELSE given[Client(b)]
        /\ given'[Loader(b)] = given[Loader(b)]
        /\ alarmDescriptions' = alarmDescriptions \union {a}
        /\ occurrences'[Client(b)] = IF a = b THEN given[Client(b)] ELSE occurrences[Client(b)]
        /\ occurrences'[Loader(b)] = occurrences[Loader(b)]
    BY <1>2 DEF ScheduleNewAlarm, Enqueue, TypeOK
  <2>2. given[Client(a)] # Null /\ UNCHANGED <<server, firing, rows, issued>>
    BY <1>2 DEF ScheduleNewAlarm
  <2>3. CASE a = b
    BY <1>0, <2>1, <2>2, <2>3
  <2>4. CASE a # b
    BY <1>0, <2>1, <2>2, <2>4
  <2> QED
    BY <2>3, <2>4
<1>3. CASE LookupAlarm(a)
  BY <1>0, <1>3 DEF LookupAlarm
<1>4. CASE CancelAlarm(a)
  BY <1>0, <1>4 DEF CancelAlarm
<1>5. CASE RemoveCancelledRow(a)
  <2>1. /\ a \in cancelling
        /\ b # a /\ b \in Persistent => rows'[b] = rows[b]
        /\ UNCHANGED <<server, occurrences, alarmDescriptions, firing, given, issued>>
    BY <1>5 DEF RemoveCancelledRow, TypeOK
  <2> QED
    BY <1>0, <2>1
<1> QED
  BY <1>1, <1>2, <1>3, <1>4, <1>5

\* What the entries of b become when d takes the place of entry e.
Exchanged(e, d, b) ==
  \/ /\ b # e[1]
     /\ occurrences'[Client(b)] = occurrences[Client(b)]
     /\ occurrences'[Loader(b)] = occurrences[Loader(b)]
  \/ /\ b = e[1] /\ occurrences[e] = occurrences[Client(b)]
     /\ occurrences'[Client(b)] = d
     /\ occurrences'[Loader(b)] = occurrences[Loader(b)]
  \/ /\ b = e[1] /\ occurrences[e] = occurrences[Loader(b)]
     /\ occurrences'[Loader(b)] = d
     /\ occurrences'[Client(b)] = occurrences[Client(b)]

LEMMA OneEntryChanges ==
  ASSUME TypeOK, NEW e \in Entries, NEW d, occurrences' = [occurrences EXCEPT ![e] = d],
         NEW b \in Alarms
  PROVE  Exchanged(e, d, b)
<1> USE EntryNames, EntryOf DEF TypeOK, Exchanged
<1>1. CASE b # e[1]
  BY <1>1
<1>2. CASE e = Client(b)
  BY <1>2
<1>3. CASE e = Loader(b)
  BY <1>3
<1> QED
  BY <1>1, <1>2, <1>3

LEMMA RunStepQueue == TypeOK /\ AlarmsInv /\ QueueInv /\ RunStep => QueueInv'
<1> SUFFICES ASSUME TypeOK, AlarmsInv, QueueInv, ~EarlyClients, RunStep, NEW b \in Alarms
             PROVE  (ToBeQueuedOK(b) /\ GivenOK(b) /\ QueuedOK(b))'
  BY DEF QueueInv
<1> DEFINE Goal == (ToBeQueuedOK(b) /\ GivenOK(b) /\ QueuedOK(b))'
<1>0. /\ AlarmOK(b) /\ ToBeQueuedOK(b) /\ GivenOK(b) /\ QueuedOK(b)
  BY DEF AlarmsInv, QueueInv
<1> USE DEF timerVars, runVars, clientVars, historyVars
<1>1. ASSUME NEW t \in Timers, StartTimer(t) \/ BeginRun(t) \/ Reschedule(t) PROVE Goal
  BY <1>1, QueueInvFrame DEF StartTimer, BeginRun, Reschedule, QueueInv
<1>2. CASE EndRun
  BY <1>2, QueueInvFrame DEF EndRun, QueueInv
<1> USE DEF AlarmOK, UnissuedOK, CreatingOK, LoadingOK, BootOK, LiveOK,
            Quiet, NotGiven, HalfFired, ToBeQueuedOK, GivenOK, QueuedOK, QueuedOnce, NotQueued
<1>3. ASSUME NEW e \in Entries, DropOccurrence(e) PROVE Goal
  <2>1. /\ e[1] \notin alarmDescriptions
        /\ occurrences' = [occurrences EXCEPT ![e] = Null]
        /\ UNCHANGED <<server, alarmDescriptions, firing, given, rows, issued>>
    BY <1>3 DEF DropOccurrence, IsLive
  <2>2. Exchanged(e, Null, b)
    BY <2>1, OneEntryChanges
  <2> QED
    BY <1>0, <2>1, <2>2 DEF Exchanged
<1>4. ASSUME NEW e \in Entries, FireTransient(e) PROVE Goal
  <2>1. /\ e[1] \in Transient /\ e[1] \in alarmDescriptions /\ occurrences[e] # Null
        /\ UNCHANGED <<server, firing, given, rows, issued>>
        /\ e[1] \notin Persistent
    BY <1>4 DEF FireTransient, IsLive, CanPop, Due, IsHead, Queued
  <2>2. CASE /\ Repeat[e[1]] > 0 /\ occurrences' = [occurrences EXCEPT ![e] = Repeat[e[1]]]
             /\ alarmDescriptions' = alarmDescriptions \union {e[1]}
    <3>1. Repeat[e[1]] # Null
      BY EntryOf
    <3>2. Exchanged(e, Repeat[e[1]], b)
      BY <2>2, OneEntryChanges
    <3> QED
      BY <1>0, <2>1, <2>2, <3>1, <3>2 DEF Exchanged
  <2>3. CASE /\ occurrences' = [occurrences EXCEPT ![e] = Null]
             /\ alarmDescriptions' = alarmDescriptions \ {e[1]}
    <3>1. Exchanged(e, Null, b)
      BY <2>3, OneEntryChanges
    <3> QED
      BY <1>0, <2>1, <2>3, <3>1 DEF Exchanged
  <2> QED
    BY <1>4, <2>2, <2>3 DEF FireTransient, Enqueue, WithoutDescription
<1>5. ASSUME NEW e \in Entries, FirePersistent(e) PROVE Goal
  <2>1. /\ e[1] \in Persistent /\ e[1] \in alarmDescriptions /\ occurrences[e] # Null
        /\ occurrences' = [occurrences EXCEPT ![e] = Null]
        /\ alarmDescriptions' = alarmDescriptions \ {e[1]}
        /\ firing = Null /\ firing' = e
        /\ UNCHANGED <<server, given, rows, issued>>
    BY <1>5 DEF FirePersistent, IsLive, CanPop, Due, IsHead, Queued, WithoutDescription
  <2>2. Exchanged(e, Null, b)
    BY <2>1, OneEntryChanges
  <2> QED
    BY <1>0, <2>1, <2>2 DEF Exchanged
<1>6. CASE StoreFired
  <2> DEFINE a == firing[1]
  <2>1. firing # Null /\ firing \in Entries /\ a \in Persistent /\ HalfFired(a)
    BY <1>6 DEF StoreFired, TypeOK, Alarms, Entries
  <2>2. /\ \A c \in Persistent : rows'[c] = IF c = a THEN Stored(a) ELSE rows[c]
        /\ firing' = Null
        /\ UNCHANGED <<server, given, issued>>
    BY <1>6 DEF StoreFired, TypeOK
  <2>3. CASE UNCHANGED <<occurrences, alarmDescriptions>>
    BY <1>0, <2>1, <2>2, <2>3
  <2>4. CASE /\ Repeat[a] > 0 /\ occurrences' = [occurrences EXCEPT ![firing] = Repeat[a]]
             /\ alarmDescriptions' = alarmDescriptions \union {a}
    <3>1. Repeat[a] # Null /\ Stored(a) = Repeat[a]
      BY <2>1, <2>4, EntryOf DEF Stored
    <3>2. Exchanged(firing, Repeat[a], b)
      BY <2>1, <2>4, OneEntryChanges
    <3> QED
      BY <1>0, <2>1, <2>2, <2>4, <3>1, <3>2 DEF Exchanged
  <2> QED
    BY <1>6, <2>3, <2>4 DEF StoreFired, Enqueue
<1>7. CASE AbortRun
  BY <1>0, <1>7 DEF AbortRun
<1> QED
  BY <1>1, <1>2, <1>3, <1>4, <1>5, <1>6, <1>7 DEF RunStep

LEMMA ServiceStepQueue == TypeOK /\ AlarmsInv /\ QueueInv /\ ServiceStep => QueueInv'
<1> SUFFICES ASSUME TypeOK, AlarmsInv, QueueInv, ~EarlyClients, ServiceStep, NEW b \in Alarms
             PROVE  (ToBeQueuedOK(b) /\ GivenOK(b) /\ QueuedOK(b))'
  BY DEF QueueInv
<1>0. /\ AlarmOK(b) /\ ToBeQueuedOK(b) /\ GivenOK(b) /\ QueuedOK(b)
  BY DEF AlarmsInv, QueueInv
<1>E. /\ Client(b) \in Entries /\ Loader(b) \in Entries
      /\ Loader(b)[1] = b /\ Loader(b)[2] = "loader" /\ Client(b)[2] = "client"
  BY EntryNames
<1> USE DEF timerVars, runVars, clientVars, historyVars
<1> USE DEF AlarmOK, UnissuedOK, CreatingOK, LoadingOK, BootOK, LiveOK,
            Quiet, NotGiven, HalfFired, ToBeQueuedOK, GivenOK, QueuedOK, QueuedOnce, NotQueued
<1>1. CASE Restart
  BY <1>0, <1>1 DEF Restart
<1>2. CASE DoStart
  <2>1. CASE UNCHANGED given /\ server' = "running"
    BY <1>0, <1>2, <2>1 DEF DoStart
  <2>2. CASE /\ server' = "loading"
             /\ given'[Client(b)] = given[Client(b)]
             /\ given'[Loader(b)] = IF b \in Persistent THEN rows[b]
                                                       ELSE given[Loader(b)]
    BY <1>0, <1>2, <2>2 DEF DoStart
  <2> QED
    BY <1>2, <1>E, <2>1, <2>2 DEF DoStart
<1>3. CASE FinishStart
  BY <1>0, <1>3, EntryNames DEF FinishStart
<1>4. CASE Crash
  BY <1>0, <1>4, <1>E DEF Crash
<1>5. ASSUME NEW a \in Alarms, LoadAlarm(a)
      PROVE  (ToBeQueuedOK(b) /\ GivenOK(b) /\ QueuedOK(b))'
  <2>1. /\ given'[Loader(b)] = IF a = b THEN Null ELSE given[Loader(b)]
        /\ given'[Client(b)] = given[Client(b)]
        /\ given[Loader(a)] # Null
        /\ UNCHANGED <<server, firing, rows, issued>>
    BY <1>5, <1>E, EntryNames DEF LoadAlarm, TypeOK
  <2>2. CASE UNCHANGED <<occurrences, alarmDescriptions>>
    BY <1>0, <2>1, <2>2
  <2>3. CASE Enqueue(Loader(a), given[Loader(a)])
    <3>1. /\ alarmDescriptions' = alarmDescriptions \union {a}
          /\ occurrences'[Loader(b)] = IF a = b THEN given[Loader(b)] ELSE occurrences[Loader(b)]
          /\ occurrences'[Client(b)] = occurrences[Client(b)]
      BY <2>3, <1>E, EntryNames DEF Enqueue, TypeOK
    <3> QED
      BY <1>0, <2>1, <3>1
  <2> QED
    BY <1>5, <2>2, <2>3 DEF LoadAlarm
<1>6. ASSUME NEW a \in Alarms, RunCallback(a)
      PROVE  (ToBeQueuedOK(b) /\ GivenOK(b) /\ QueuedOK(b))'
  BY <1>0, <1>6 DEF RunCallback
<1> QED
  BY <1>1, <1>2, <1>3, <1>4, <1>5, <1>6 DEF ServiceStep

\* What is given, queued and stored ages alike.
LEMMA TickQueue == TypeOK /\ QueueInv /\ Tick => QueueInv'
<1> SUFFICES ASSUME TypeOK, QueueInv, ~EarlyClients, Tick, NEW b \in Alarms
             PROVE  (ToBeQueuedOK(b) /\ GivenOK(b) /\ QueuedOK(b))'
  BY DEF QueueInv
<1>1. ToBeQueuedOK(b) /\ GivenOK(b) /\ QueuedOK(b)
  BY DEF QueueInv
<1>2. \A e \in {Client(b), Loader(b)} :
        /\ given'[e] = Age(given[e]) /\ occurrences'[e] = Age(occurrences[e])
        /\ given'[e] = Null <=> given[e] = Null
        /\ occurrences'[e] = Null <=> occurrences[e] = Null
  BY EntryNames, AgeType DEF Tick, TypeOK
<1>3. b \in Persistent => rows'[b] = Age(rows[b])
  BY DEF Tick
<1> QED
  BY <1>1, <1>2, <1>3
  DEF Tick, clientVars, historyVars, ToBeQueuedOK, GivenOK, QueuedOK, QueuedOnce,
      NotQueued, NotGiven, HalfFired

LEMMA QueueInvariant == Spec => [](TypeOK /\ AlarmsInv /\ QueueInv)
<1>1. Init => QueueInv
  BY EntryNames DEF Init, QueueInv, ToBeQueuedOK, GivenOK, QueuedOK, QueuedOnce,
     NotQueued, NotGiven, HalfFired
<1>2. TypeOK /\ AlarmsInv /\ QueueInv /\ [Next]_vars => QueueInv'
  <2> SUFFICES ASSUME TypeOK, AlarmsInv, QueueInv, [Next]_vars
               PROVE  QueueInv'
    OBVIOUS
  <2>1. CASE Next
    BY <2>1, ClientStepQueue, RunStepQueue, ServiceStepQueue, TickQueue DEF Next
  <2>2. CASE UNCHANGED vars
    BY <2>2, QueueInvFrame DEF vars, timerVars, runVars, clientVars, historyVars
  <2> QED
    BY <2>1, <2>2
<1> QED
  BY <1>1, <1>2, AlarmsInvariant, PTL DEF Spec

\* Queue, map and database tell one story, whatever creations, cancels, runs,
\* crashes, restarts and failures of the database come between: a description
\* has exactly one occurrence, with the deadline of its row.
THEOREM QueueAgreesWithRows == Spec => []OccurrencesAgree
<1>1. ASSUME TypeOK, QueueInv PROVE RowMatchesOccurrence
  <2> SUFFICES ASSUME ~EarlyClients, NEW e \in Queued(occurrences),
                      e[1] \in alarmDescriptions \intersect Persistent
               PROVE  occurrences[e] = rows[e[1]]
    BY DEF RowMatchesOccurrence
  <2>1. e \in Entries /\ occurrences[e] # Null
    BY DEF Queued
  <2> QED
    BY <1>1, <2>1, EntryOf DEF QueueInv, QueuedOK
<1>2. ASSUME TypeOK, QueueInv PROVE OneOccurrencePerDescription
  <2> SUFFICES ASSUME ~EarlyClients, NEW a \in alarmDescriptions
               PROVE  Cardinality({e \in Queued(occurrences) : e[1] = a}) = 1
    BY DEF OneOccurrencePerDescription
  <2>1. a \in Alarms /\ QueuedOnce(a)
    BY <1>2 DEF TypeOK, QueueInv, QueuedOK
  <2>2. PICK f \in {Client(a), Loader(a)} :
          \A e \in Entries : e[1] = a /\ occurrences[e] # Null <=> e = f
    BY <2>1, EntryOf, EntryNames DEF QueuedOnce
  <2>3. {e \in Queued(occurrences) : e[1] = a} = {f}
    BY <2>1, <2>2, EntryNames DEF Queued
  <2> QED
    BY <2>3, FS_Singleton
<1> QED
  BY <1>1, <1>2, QueueInvariant, PTL DEF OccurrencesAgree

(***************************************************************************)
(* The manager implements the service                                      *)
(***************************************************************************)

\* What the mapping needs besides: transient alarms are queued by their clients
\* only, with a deadline asked for that has aged since.
TransientInv ==
  ~EarlyClients =>
    \A a \in Transient :
      /\ occurrences[Loader(a)] = Null
      /\ given[Client(a)] # Null =>
           \E d \in DeadlinesOf(a) : given[Client(a)] \in -Horizon .. d

LEMMA TransientStep ==
  TypeOK /\ AlarmsInv /\ TransientInv /\ [Next]_vars => TransientInv'
<1> SUFFICES ASSUME TypeOK, AlarmsInv, TransientInv, [Next]_vars, ~EarlyClients,
                    NEW b \in Transient
             PROVE  /\ occurrences'[Loader(b)] = Null
                    /\ given'[Client(b)] # Null =>
                         \E d \in DeadlinesOf(b) : given'[Client(b)] \in -Horizon .. d
  BY DEF TransientInv, DeadlinesOf
<1> DEFINE Goal == /\ occurrences'[Loader(b)] = Null
                   /\ given'[Client(b)] # Null =>
                        \E d \in DeadlinesOf(b) : given'[Client(b)] \in -Horizon .. d
<1>0. /\ b \in Alarms /\ b \notin Persistent
      /\ occurrences[Loader(b)] = Null
      /\ given[Client(b)] # Null =>
           \E d \in DeadlinesOf(b) : given[Client(b)] \in -Horizon .. d
      /\ given[Loader(b)] = Null
  BY DEF TransientInv, Alarms, AlarmsInv, AlarmOK, LoadingOK
<1> USE EntryNames
<1> USE DEF timerVars, runVars, clientVars, historyVars
<1>1. CASE UNCHANGED <<occurrences, given>>
  BY <1>0, <1>1
<1>2. CASE ClientStep
  <2> PICK a \in Alarms : \/ \E d \in DeadlinesOf(a) : CreateAlarm(a, d)
                          \/ ScheduleNewAlarm(a)
                          \/ LookupAlarm(a)
                          \/ CancelAlarm(a)
                          \/ RemoveCancelledRow(a)
    BY <1>2 DEF ClientStep
  <2>1. ASSUME NEW d \in DeadlinesOf(a), CreateAlarm(a, d) PROVE Goal
    <3>1. d \in -Horizon .. d
      BY DEF DeadlinesOf, Time
    <3>2. /\ occurrences' = occurrences
          /\ given'[Client(b)] = IF a = b THEN d ELSE given[Client(b)]
      BY <2>1, <1>0 DEF CreateAlarm, TypeOK
    <3> QED
      BY <1>0, <3>1, <3>2
  <2>2. CASE ScheduleNewAlarm(a)
    <3>1. /\ occurrences'[Loader(b)] = occurrences[Loader(b)]
          /\ given'[Client(b)] = IF a = b THEN Null ELSE given[Client(b)]
      BY <2>2, <1>0 DEF ScheduleNewAlarm, Enqueue, TypeOK
    <3> QED
      BY <1>0, <3>1
  <2> QED
    BY <1>1, <2>1, <2>2 DEF LookupAlarm, CancelAlarm, RemoveCancelledRow
<1>3. CASE RunStep
  <2>1. ASSUME NEW e \in Entries, NEW d, occurrences' = [occurrences EXCEPT ![e] = d],
               given' = given, occurrences[e] # Null \/ e[1] \in Persistent
        PROVE  Goal
    BY <1>0, <2>1 DEF TypeOK
  <2>2. ASSUME NEW e \in Entries, DropOccurrence(e) \/ FireTransient(e) \/ FirePersistent(e)
        PROVE  Goal
    <3>1. occurrences[e] # Null /\ given' = given
      BY <2>2 DEF DropOccurrence, FireTransient, FirePersistent, CanPop, Due, IsHead, Queued
    <3>2. \/ occurrences' = [occurrences EXCEPT ![e] = Null]
          \/ occurrences' = [occurrences EXCEPT ![e] = Repeat[e[1]]]
      BY <2>2 DEF DropOccurrence, FireTransient, FirePersistent, Enqueue
    <3> HIDE DEF Goal
    <3>3. CASE occurrences' = [occurrences EXCEPT ![e] = Null]
      BY <2>1, <3>1, <3>3
    <3>4. CASE occurrences' = [occurrences EXCEPT ![e] = Repeat[e[1]]]
      BY <2>1, <3>1, <3>4
    <3> QED
      BY <3>2, <3>3, <3>4
  <2>3. CASE StoreFired
    <3>1. firing \in Entries /\ firing[1] \in Persistent /\ given' = given
      BY <2>3 DEF StoreFired, TypeOK, Entries, Alarms
    <3>2. \/ occurrences' = occurrences
          \/ occurrences' = [occurrences EXCEPT ![firing] = Repeat[firing[1]]]
      BY <2>3 DEF StoreFired, Enqueue
    <3> QED
      BY <1>1, <2>1, <3>1, <3>2
  <2> QED
    BY <1>1, <1>3, <2>2, <2>3
       DEF RunStep, StartTimer, BeginRun, Reschedule, AbortRun, EndRun
<1>4. CASE ServiceStep
  <2>1. CASE DoStart
    <3>1. given'[Client(b)] = given[Client(b)] /\ occurrences' = occurrences
      BY <1>0, <2>1 DEF DoStart
    <3> QED
      BY <1>0, <3>1
  <2>2. CASE Crash
    BY <1>0, <2>2 DEF Crash
  <2>3. ASSUME NEW a \in Alarms, LoadAlarm(a) PROVE Goal
    <3>1. a # b /\ given'[Client(b)] = given[Client(b)]
      BY <1>0, <2>3 DEF LoadAlarm, TypeOK
    <3>2. occurrences'[Loader(b)] = occurrences[Loader(b)]
      BY <1>0, <2>3, <3>1 DEF LoadAlarm, Enqueue, TypeOK
    <3> QED
      BY <1>0, <3>1, <3>2
  <2> QED
    BY <1>1, <1>4, <2>1, <2>2, <2>3 DEF ServiceStep, Restart, FinishStart, RunCallback
<1>5. CASE Tick
  <2>1. /\ occurrences'[Loader(b)] = Age(occurrences[Loader(b)])
        /\ given'[Client(b)] = Age(given[Client(b)])
    BY <1>0, <1>5 DEF Tick
  <2>2. given[Client(b)] \in Time \union {Null}
    BY <1>0 DEF TypeOK
  <2>3. \A d \in DeadlinesOf(b) : d \in Int
    BY <1>0 DEF DeadlinesOf, Time
  <2> QED
    BY <1>0, <2>1, <2>2, <2>3 DEF Age, Time
<1> QED
  BY <1>1, <1>2, <1>3, <1>4, <1>5 DEF Next, vars

\* What the mapping shows of one alarm depends on this and nothing else.
LEMMA SameShown ==
  ASSUME NEW b \in Alarms,
         b \in Persistent => rows'[b] = rows[b] /\ (HalfFired(b)' <=> HalfFired(b)),
         b \in Transient => b \in alarmDescriptions' <=> b \in alarmDescriptions,
         b \in Transient => (b \in alarmDescriptions =>
                                occurrences'[Client(b)] = occurrences[Client(b)]),
         b \in issued' <=> b \in issued,
         b \in Transient => given'[Client(b)] = Null <=> given[Client(b)] = Null
  PROVE  StateOf(b)' = StateOf(b) /\ DueOf(b)' = DueOf(b)
<1>1. b \in Persistent \/ b \in Transient
  BY DEF Alarms
<1>2. AsYetNew(b)' <=> AsYetNew(b)
  BY DEF AsYetNew, Client
<1>3. CASE b \in Persistent
  BY <1>2, <1>3 DEF StateOf, DueOf
<1>4. CASE b \notin Persistent
  BY <1>1, <1>2, <1>4 DEF StateOf, DueOf, Client
<1> QED
  BY <1>3, <1>4

\* One alarm gets another state and another deadline.
LEMMA OneShownChanges ==
  ASSUME NEW a \in Alarms, NEW s, NEW d, StateOf(a)' = s, DueOf(a)' = d,
         \A b \in Alarms : b # a => StateOf(b)' = StateOf(b) /\ DueOf(b)' = DueOf(b)
  PROVE  /\ ServiceState' = [ServiceState EXCEPT ![a] = s]
         /\ ServiceDue' = [ServiceDue EXCEPT ![a] = d]
BY DEF ServiceState, ServiceDue

LEMMA NoneShownChanges ==
  ASSUME \A b \in Alarms : StateOf(b)' = StateOf(b) /\ DueOf(b)' = DueOf(b)
  PROVE  ServiceState' = ServiceState /\ ServiceDue' = ServiceDue
BY DEF ServiceState, ServiceDue

ServiceInv == TypeOK /\ AlarmsInv /\ QueueInv /\ TransientInv

ServiceSteps == [Service!Next]_(Service!vars)

LEMMA ServiceFrame ==
  ASSUME UNCHANGED <<ServiceState, ServiceDue, jobs>>
  PROVE  ServiceSteps
BY DEF ServiceSteps, Service!vars

LEMMA ClientStepServes == ~EarlyClients /\ ServiceInv /\ ClientStep => ServiceSteps
<1> SUFFICES ASSUME ServiceInv, ~EarlyClients, NEW a \in Alarms,
                    \/ \E d \in DeadlinesOf(a) : CreateAlarm(a, d)
                    \/ ScheduleNewAlarm(a)
                    \/ LookupAlarm(a)
                    \/ CancelAlarm(a)
                    \/ RemoveCancelledRow(a)
             PROVE  ServiceSteps
  BY DEF ClientStep
<1> USE EntryNames
<1> USE DEF timerVars, runVars, clientVars, historyVars
<1>T. TypeOK /\ (a \in Persistent \/ a \in Transient) /\ Persistent \intersect Transient = {}
  BY DEF ServiceInv, Alarms
<1>A. AlarmOK(a)
  BY DEF ServiceInv, AlarmsInv
<1>1. ASSUME NEW d \in DeadlinesOf(a), CreateAlarm(a, d) PROVE ServiceSteps
  <2>1. \A b \in Alarms : b # a =>
           /\ b \in Persistent => rows'[b] = rows[b]
           /\ given'[Client(b)] = given[Client(b)]
           /\ b \in issued' <=> b \in issued
    BY <1>1, <1>T DEF CreateAlarm, TypeOK
  <2>2. \A b \in Alarms : b # a => StateOf(b)' = StateOf(b) /\ DueOf(b)' = DueOf(b)
    BY <1>1, <2>1, SameShown DEF CreateAlarm, HalfFired
  <2>3. /\ Quiet(a) /\ a \notin issued
        /\ a \in Persistent => rows[a] = Null
    BY <1>1, <1>A DEF CreateAlarm, AlarmOK, UnissuedOK
  <2>4. d # Null /\ d \in Time
    BY DeadlineType DEF DeadlinesOf
  <2>5. StateOf(a) = "new"
    BY <1>T, <2>3 DEF StateOf, AsYetNew, Quiet
  <2>6. CASE a \in Persistent
    <3>1. rows'[a] = d
      BY <1>1, <1>T, <2>6 DEF CreateAlarm, TypeOK
    <3>2. StateOf(a)' = "armed" /\ DueOf(a)' = d
      BY <1>1, <2>3, <2>4, <2>6, <3>1 DEF StateOf, DueOf, Quiet, HalfFired, CreateAlarm
    <3>3. /\ ServiceState' = [ServiceState EXCEPT ![a] = "armed"]
          /\ ServiceDue' = [ServiceDue EXCEPT ![a] = d]
      BY <2>2, <3>2, OneShownChanges
    <3>4. d \in -Horizon .. d /\ d \in Service!DeadlinesOf(a) /\ jobs' = jobs
      BY <1>1, <2>4 DEF Time, DeadlinesOf, Service!DeadlinesOf, CreateAlarm
    <3>5. Service!Arm(a)
      BY <2>5, <3>3, <3>4 DEF Service!Arm, ServiceState
    <3> QED
      BY <3>5 DEF ServiceSteps, Service!Next, Service!Alarms, Alarms
  <2>7. CASE a \in Transient
    <3>1. given'[Client(a)] # Null
      BY <1>1, <2>4 DEF CreateAlarm, TypeOK, ServiceInv
    <3>2. StateOf(a)' = "new" /\ DueOf(a)' = Null /\ DueOf(a) = Null
      BY <1>1, <1>T, <2>3, <2>7, <3>1 DEF StateOf, DueOf, AsYetNew, Quiet, CreateAlarm, Client
    <3> QED
      BY <1>1, <2>2, <2>5, <3>2, NoneShownChanges, ServiceFrame DEF CreateAlarm
  <2> QED
    BY <1>T, <2>6, <2>7
<1>2. CASE ScheduleNewAlarm(a)
  <2>1. \A b \in Alarms : b # a =>
           /\ given'[Client(b)] = given[Client(b)]
           /\ occurrences'[Client(b)] = occurrences[Client(b)]
           /\ b \in alarmDescriptions' <=> b \in alarmDescriptions
    BY <1>2, <1>T DEF ScheduleNewAlarm, Enqueue, TypeOK
  <2>2. \A b \in Alarms : b # a => StateOf(b)' = StateOf(b) /\ DueOf(b)' = DueOf(b)
    BY <1>2, <2>1, SameShown DEF ScheduleNewAlarm, HalfFired
  <2>3. /\ given[Client(a)] # Null /\ given'[Client(a)] = Null
        /\ occurrences'[Client(a)] = given[Client(a)]
        /\ a \in alarmDescriptions' /\ Quiet(a) /\ jobs' = jobs
    BY <1>2, <1>T, <1>A DEF ScheduleNewAlarm, Enqueue, TypeOK, AlarmOK, CreatingOK
  <2>4. CASE a \in Persistent
    <3>1. StateOf(a)' = StateOf(a) /\ DueOf(a)' = DueOf(a)
      BY <1>2, <1>T, <2>4, SameShown DEF ScheduleNewAlarm, HalfFired
    <3> QED
      BY <2>2, <2>3, <3>1, NoneShownChanges, ServiceFrame
  <2>5. CASE a \in Transient
    <3>1. StateOf(a) = "new"
      BY <1>T, <2>3, <2>5 DEF StateOf, AsYetNew, Quiet
    <3>2. StateOf(a)' = "armed" /\ DueOf(a)' = given[Client(a)]
      BY <1>T, <2>3, <2>5 DEF StateOf, DueOf, Client
    <3>3. /\ ServiceState' = [ServiceState EXCEPT ![a] = "armed"]
          /\ ServiceDue' = [ServiceDue EXCEPT ![a] = given[Client(a)]]
      BY <2>2, <3>2, OneShownChanges
    <3>4. \E d \in Service!DeadlinesOf(a) : given[Client(a)] \in -Horizon .. d
      BY <2>3, <2>5 DEF ServiceInv, TransientInv, DeadlinesOf, Service!DeadlinesOf
    <3>5. Service!Arm(a)
      BY <2>3, <3>1, <3>3, <3>4 DEF Service!Arm, ServiceState
    <3> QED
      BY <3>5 DEF ServiceSteps, Service!Next, Service!Alarms, Alarms
  <2> QED
    BY <1>T, <2>4, <2>5
<1>3. CASE LookupAlarm(a)
  <2>1. \A b \in Alarms : StateOf(b)' = StateOf(b) /\ DueOf(b)' = DueOf(b)
    BY <1>3, SameShown DEF LookupAlarm, HalfFired
  <2> QED
    BY <1>3, <2>1, NoneShownChanges, ServiceFrame DEF LookupAlarm
<1>4. CASE CancelAlarm(a)
  <2>1. \A b \in Alarms : b # a \/ a \in Persistent \/ a \notin alarmDescriptions =>
           StateOf(b)' = StateOf(b) /\ DueOf(b)' = DueOf(b)
    BY <1>4, <1>T, SameShown DEF CancelAlarm, HalfFired
  <2>2. CASE a \in Persistent \/ a \notin alarmDescriptions
    BY <1>4, <2>1, <2>2, NoneShownChanges, ServiceFrame DEF CancelAlarm
  <2>3. CASE a \notin Persistent /\ a \in alarmDescriptions
    <3>1. a \in issued /\ given[Client(a)] = Null
      BY <1>A, <2>3 DEF AlarmOK, UnissuedOK, CreatingOK, Quiet
    <3>2. StateOf(a) = "armed" /\ StateOf(a)' = "off" /\ DueOf(a)' = Null
      BY <1>4, <2>3, <3>1 DEF CancelAlarm, StateOf, DueOf, AsYetNew, Client
    <3>3. /\ ServiceState' = [ServiceState EXCEPT ![a] = "off"]
          /\ ServiceDue' = [ServiceDue EXCEPT ![a] = Null]
      BY <2>1, <3>2, OneShownChanges
    <3>4. Service!Cancel(a)
      BY <1>4, <3>2, <3>3 DEF Service!Cancel, ServiceState, CancelAlarm
    <3> QED
      BY <3>4 DEF ServiceSteps, Service!Next, Service!Alarms, Alarms
  <2> QED
    BY <2>2, <2>3
<1>5. CASE RemoveCancelledRow(a)
  <2>1. a \in Persistent /\ ~HalfFired(a) /\ a \in issued
    BY <1>5, <1>T, <1>A DEF RemoveCancelledRow, TypeOK, AlarmOK, LiveOK, UnissuedOK, Quiet
  <2>2. CASE rows' = rows
    <3>1. \A b \in Alarms : StateOf(b)' = StateOf(b) /\ DueOf(b)' = DueOf(b)
      BY <1>5, <2>2, SameShown DEF RemoveCancelledRow, HalfFired
    <3> QED
      BY <1>5, <3>1, NoneShownChanges, ServiceFrame DEF RemoveCancelledRow
  <2>3. CASE rows[a] # Null /\ rows' = [rows EXCEPT ![a] = Null]
    <3>1. \A b \in Alarms : b # a => StateOf(b)' = StateOf(b) /\ DueOf(b)' = DueOf(b)
      BY <1>5, <1>T, <2>3, SameShown DEF RemoveCancelledRow, HalfFired, TypeOK
    <3>2. StateOf(a) = "armed" /\ StateOf(a)' = "off" /\ DueOf(a)' = Null
      BY <1>5, <1>T, <2>1, <2>3
         DEF RemoveCancelledRow, StateOf, DueOf, AsYetNew, TypeOK
    <3>3. /\ ServiceState' = [ServiceState EXCEPT ![a] = "off"]
          /\ ServiceDue' = [ServiceDue EXCEPT ![a] = Null]
      BY <3>1, <3>2, OneShownChanges
    <3>4. Service!Cancel(a)
      BY <1>5, <3>2, <3>3 DEF Service!Cancel, ServiceState, RemoveCancelledRow
    <3> QED
      BY <3>4 DEF ServiceSteps, Service!Next, Service!Alarms, Alarms
  <2> QED
    BY <1>5, <2>2, <2>3 DEF RemoveCancelledRow
<1> QED
  BY <1>1, <1>2, <1>3, <1>4, <1>5

LEMMA RunStepServes == ~EarlyClients /\ ServiceInv /\ RunStep => ServiceSteps
<1> SUFFICES ASSUME ServiceInv, ~EarlyClients, RunStep PROVE ServiceSteps
  OBVIOUS
<1> USE DEF timerVars, runVars, clientVars, historyVars
<1>T. TypeOK /\ Persistent \intersect Transient = {}
  BY DEF ServiceInv
<1>A. \A a \in Alarms : AlarmOK(a) /\ ToBeQueuedOK(a) /\ QueuedOK(a)
  BY DEF ServiceInv, AlarmsInv, QueueInv
<1>1. ASSUME NEW t \in Timers, StartTimer(t) \/ BeginRun(t) \/ Reschedule(t) PROVE ServiceSteps
  <2>1. \A b \in Alarms : StateOf(b)' = StateOf(b) /\ DueOf(b)' = DueOf(b)
    BY <1>1, SameShown DEF StartTimer, BeginRun, Reschedule, HalfFired
  <2> QED
    BY <1>1, <2>1, NoneShownChanges, ServiceFrame DEF StartTimer, BeginRun, Reschedule
<1>2. CASE EndRun
  <2>1. \A b \in Alarms : StateOf(b)' = StateOf(b) /\ DueOf(b)' = DueOf(b)
    BY <1>2, SameShown DEF EndRun, HalfFired
  <2> QED
    BY <1>2, <2>1, NoneShownChanges, ServiceFrame DEF EndRun
<1>3. ASSUME NEW e \in Entries, DropOccurrence(e) PROVE ServiceSteps
  <2>1. \A b \in alarmDescriptions : b \in Alarms => occurrences'[Client(b)] = occurrences[Client(b)]
    BY <1>3, EntryNames DEF DropOccurrence, IsLive
  <2>2. \A b \in Alarms : StateOf(b)' = StateOf(b) /\ DueOf(b)' = DueOf(b)
    BY <1>3, <2>1, SameShown DEF DropOccurrence, HalfFired
  <2> QED
    BY <1>3, <2>2, NoneShownChanges, ServiceFrame DEF DropOccurrence
<1>4. ASSUME NEW e \in Entries, FireTransient(e) PROVE ServiceSteps
  <2> DEFINE a == e[1]
  <2>1. /\ a \in Alarms /\ a \in Transient /\ a \notin Persistent /\ a \in alarmDescriptions
        /\ occurrences[e] # Null /\ occurrences[e] < -lag
        /\ jobs' = [jobs EXCEPT ![a] = @ + 1]
        /\ UNCHANGED <<firing, given, rows, issued>>
    BY <1>4, <1>T, EntryOf
       DEF FireTransient, IsLive, CanPop, Due, IsHead, Queued, HandOver
  <2>2. e = Client(a)
    BY <2>1, EntryOf DEF ServiceInv, TransientInv
  <2>3. \A b \in Alarms : b # a =>
           /\ occurrences'[Client(b)] = occurrences[Client(b)]
           /\ b \in alarmDescriptions' <=> b \in alarmDescriptions
    BY <1>4, <1>T, EntryNames, EntryOf DEF FireTransient, Enqueue, WithoutDescription, TypeOK
  <2>4. \A b \in Alarms : b # a => StateOf(b)' = StateOf(b) /\ DueOf(b)' = DueOf(b)
    BY <2>1, <2>3, SameShown DEF HalfFired
  <2>5. StateOf(a) = "armed" /\ DueOf(a) = occurrences[e] /\ DueOf(a) < 0
    <3>1. occurrences[e] \in Int /\ lag \in Nat
      BY <1>T, <2>1 DEF TypeOK, Time
    <3> QED
      BY <2>1, <2>2, <3>1 DEF StateOf, DueOf
  <2>6. ServiceState[a] = "armed" /\ ServiceDue[a] < 0
    BY <2>1, <2>5 DEF ServiceState, ServiceDue
  <2> HIDE DEF a
  <2>7. CASE Repeat[a] > 0 /\ occurrences' = [occurrences EXCEPT ![e] = Repeat[a]]
             /\ a \in alarmDescriptions'
    <3>1. StateOf(a)' = "armed" /\ DueOf(a)' = Repeat[a]
      BY <1>T, <2>1, <2>2, <2>7, EntryNames DEF StateOf, DueOf, TypeOK
    <3>2. /\ ServiceState' = [ServiceState EXCEPT ![a] = "armed"]
          /\ ServiceDue' = [ServiceDue EXCEPT ![a] = Repeat[a]]
      BY <2>1, <2>4, <3>1, OneShownChanges
    <3>3. Service!Settled(a)
      BY <2>7, <3>2 DEF Service!Settled
    <3>4. Service!Fire(a)
      BY <2>1, <2>6, <3>3 DEF Service!Fire
    <3> QED
      BY <2>1, <3>4 DEF ServiceSteps, Service!Next, Service!Alarms, Alarms
  <2>8. CASE Repeat[a] = 0 /\ a \notin alarmDescriptions'
    <3>0. a \in issued /\ given[Client(a)] = Null
      BY <1>A, <2>1 DEF AlarmOK, UnissuedOK, CreatingOK, Quiet
    <3>1. StateOf(a)' = "off" /\ DueOf(a)' = Null
      BY <2>1, <2>8, <3>0 DEF StateOf, DueOf, AsYetNew, Client
    <3>2. /\ ServiceState' = [ServiceState EXCEPT ![a] = "off"]
          /\ ServiceDue' = [ServiceDue EXCEPT ![a] = Null]
      BY <2>1, <2>4, <3>1, OneShownChanges
    <3>3. Service!Settled(a)
      BY <2>8, <3>2 DEF Service!Settled
    <3>4. Service!Fire(a)
      BY <2>1, <2>6, <3>3 DEF Service!Fire
    <3> QED
      BY <2>1, <3>4 DEF ServiceSteps, Service!Next, Service!Alarms, Alarms
  <2> QED
    BY <1>4, <2>7, <2>8 DEF FireTransient, Enqueue, WithoutDescription, a
<1>5. ASSUME NEW e \in Entries, FirePersistent(e) PROVE ServiceSteps
  <2> DEFINE a == e[1]
  <2>1. /\ a \in Alarms /\ a \in Persistent /\ a \notin Transient /\ a \in alarmDescriptions
        /\ occurrences[e] # Null /\ occurrences[e] < -lag
        /\ jobs' = [jobs EXCEPT ![a] = @ + 1]
        /\ alarmDescriptions' = alarmDescriptions \ {a}
        /\ occurrences' = [occurrences EXCEPT ![e] = Null]
        /\ firing = Null /\ firing' = e
        /\ UNCHANGED <<given, rows, issued>>
    BY <1>5, <1>T, EntryOf
       DEF FirePersistent, IsLive, CanPop, Due, IsHead, Queued, HandOver, WithoutDescription
  <2>2. occurrences[e] = rows[a] /\ rows[a] # Null
    BY <1>A, <2>1, EntryOf DEF QueuedOK
  <2>3. e # Null
    OBVIOUS
  <2>4. \A b \in Alarms : b # a => StateOf(b)' = StateOf(b) /\ DueOf(b)' = DueOf(b)
    <3>1. \A b \in Alarms : b # a => occurrences'[Client(b)] = occurrences[Client(b)]
      BY <1>T, <2>1, EntryNames DEF TypeOK
    <3> QED
      BY <2>1, <3>1, SameShown DEF HalfFired
  <2>5. StateOf(a) = "armed" /\ StateOf(a)' = "handed" /\ DueOf(a) = rows[a] /\ DueOf(a)' = rows[a]
    BY <2>1, <2>2, <2>3 DEF StateOf, DueOf, HalfFired
  <2>6. DueOf(a) < 0
    <3>1. occurrences[e] \in Int /\ lag \in Nat
      BY <1>T, <2>1 DEF TypeOK, Time
    <3> QED
      BY <2>1, <2>2, <2>5, <3>1
  <2> HIDE DEF a
  <2>7. /\ ServiceState[a] = "armed" /\ ServiceDue[a] < 0 /\ ServiceDue[a] = rows[a]
        /\ ServiceState' = [ServiceState EXCEPT ![a] = "handed"]
        /\ ServiceDue' = [ServiceDue EXCEPT ![a] = rows[a]]
    BY <2>1, <2>4, <2>5, <2>6, OneShownChanges DEF ServiceState, ServiceDue
  <2>8. ServiceDue' = ServiceDue
    BY <2>7 DEF ServiceDue
  <2>9. Service!Fire(a)
    BY <2>1, <2>7, <2>8 DEF Service!Fire
  <2> QED
    BY <2>1, <2>9 DEF ServiceSteps, Service!Next, Service!Alarms, Alarms
<1>6. CASE StoreFired
  <2> PICK a \in Alarms : a = firing[1]
    BY <1>6, <1>T DEF StoreFired, TypeOK, Alarms
  <2>1. /\ firing # Null /\ firing \in Entries /\ a \in Alarms /\ a \in Persistent
        /\ a \notin Transient /\ HalfFired(a)
    BY <1>6, <1>T DEF StoreFired, TypeOK, Alarms, Entries, HalfFired
  <2>2. /\ rows[a] # Null
        /\ \A c \in Persistent : rows'[c] = IF c = a THEN Stored(a) ELSE rows[c]
        /\ firing' = Null
        /\ UNCHANGED <<given, issued, jobs>>
    BY <1>6, <1>T DEF StoreFired, TypeOK
  <2>3. \A b \in Alarms : b # a =>
           /\ occurrences'[Client(b)] = occurrences[Client(b)]
           /\ b \in alarmDescriptions' <=> b \in alarmDescriptions
    BY <1>6, <1>T, <2>1, EntryNames DEF StoreFired, Enqueue, TypeOK
  <2>4. \A b \in Alarms : b # a => StateOf(b)' = StateOf(b) /\ DueOf(b)' = DueOf(b)
    BY <2>1, <2>2, <2>3, SameShown DEF HalfFired
  <2>5. StateOf(a) = "handed" /\ a \in issued
    BY <1>A, <2>1, <2>2 DEF StateOf, AlarmOK, UnissuedOK, Quiet
  <2>6. Repeat[a] \in Nat
    BY <2>1
  <2>7. CASE Repeat[a] > 0
    <3>1. StateOf(a)' = "armed" /\ DueOf(a)' = Repeat[a]
      BY <2>1, <2>2, <2>6, <2>7 DEF StateOf, DueOf, HalfFired, Stored
    <3>2. /\ ServiceState' = [ServiceState EXCEPT ![a] = "armed"]
          /\ ServiceDue' = [ServiceDue EXCEPT ![a] = Repeat[a]]
      BY <2>1, <2>4, <3>1, OneShownChanges
    <3>3. Service!Settled(a)
      BY <2>7, <3>2 DEF Service!Settled
    <3>4. Service!Settle(a)
      BY <2>1, <2>2, <2>5, <3>3 DEF Service!Settle, ServiceState
    <3> QED
      BY <2>1, <3>4 DEF ServiceSteps, Service!Next, Service!Alarms, Alarms
  <2>8. CASE ~(Repeat[a] > 0)
    <3>1. StateOf(a)' = "off" /\ DueOf(a)' = Null
      BY <2>1, <2>2, <2>5, <2>8 DEF StateOf, DueOf, HalfFired, Stored, AsYetNew
    <3>2. /\ ServiceState' = [ServiceState EXCEPT ![a] = "off"]
          /\ ServiceDue' = [ServiceDue EXCEPT ![a] = Null]
      BY <2>1, <2>4, <3>1, OneShownChanges
    <3>3. Service!Settled(a)
      BY <2>8, <3>2 DEF Service!Settled
    <3>4. Service!Settle(a)
      BY <2>1, <2>2, <2>5, <3>3 DEF Service!Settle, ServiceState
    <3> QED
      BY <2>1, <3>4 DEF ServiceSteps, Service!Next, Service!Alarms, Alarms
  <2> QED
    BY <2>7, <2>8
<1>7. CASE AbortRun
  <2> PICK a \in Alarms : a = firing[1]
    BY <1>7, <1>T DEF AbortRun, TypeOK, Alarms
  <2>1. /\ firing # Null /\ a \in Alarms /\ a \in Persistent /\ HalfFired(a)
    BY <1>7, <1>T DEF AbortRun, TypeOK, Alarms, HalfFired
  <2>2. rows[a] # Null /\ BackendFails
    BY <1>7, <1>A, <2>1 DEF AbortRun, AlarmOK, LiveOK
  <2>3. \A b \in Alarms : b # a => StateOf(b)' = StateOf(b) /\ DueOf(b)' = DueOf(b)
    BY <1>7, <2>1, SameShown DEF AbortRun, HalfFired
  <2>4. StateOf(a) = "handed" /\ StateOf(a)' = "armed" /\ DueOf(a)' = DueOf(a)
    BY <1>7, <2>1, <2>2 DEF StateOf, DueOf, HalfFired, AbortRun
  <2>5. /\ ServiceState[a] = "handed"
        /\ ServiceState' = [ServiceState EXCEPT ![a] = "armed"]
        /\ ServiceDue' = [ServiceDue EXCEPT ![a] = DueOf(a)]
    BY <2>1, <2>3, <2>4, OneShownChanges DEF ServiceState
  <2>6. ServiceDue' = ServiceDue /\ jobs' = jobs
    BY <1>7, <2>5 DEF ServiceDue, AbortRun
  <2>7. Service!Slip(a)
    BY <2>2, <2>5, <2>6 DEF Service!Slip
  <2> QED
    BY <2>1, <2>7 DEF ServiceSteps, Service!Next, Service!Alarms, Alarms
<1> QED
  BY <1>1, <1>2, <1>3, <1>4, <1>5, <1>6, <1>7 DEF RunStep

LEMMA ServiceStepServes == ~EarlyClients /\ ServiceInv /\ ServiceStep => ServiceSteps
<1> SUFFICES ASSUME ServiceInv, ~EarlyClients, ServiceStep PROVE ServiceSteps
  OBVIOUS
<1> USE DEF timerVars, runVars, clientVars, historyVars
<1>T. TypeOK /\ Persistent \intersect Transient = {}
  BY DEF ServiceInv
<1>A. \A a \in Alarms : AlarmOK(a)
  BY DEF ServiceInv, AlarmsInv
<1>1. CASE Restart \/ DoStart \/ FinishStart
  <2>1. \A b \in Transient : given'[Client(b)] = given[Client(b)]
    BY <1>1, EntryNames DEF Restart, DoStart, FinishStart, Alarms
  <2>2. \A b \in Alarms : StateOf(b)' = StateOf(b) /\ DueOf(b)' = DueOf(b)
    BY <1>1, <2>1, SameShown DEF Restart, DoStart, FinishStart, HalfFired
  <2> QED
    BY <1>1, <2>2, NoneShownChanges, ServiceFrame DEF Restart, DoStart, FinishStart
<1>2. ASSUME NEW a \in Alarms, LoadAlarm(a) PROVE ServiceSteps
  <2>1. a \in Persistent /\ a \notin Transient
    BY <1>2, <1>A, <1>T DEF LoadAlarm, AlarmOK, LoadingOK
  <2>2. \A b \in Transient : /\ given'[Client(b)] = given[Client(b)]
                             /\ b \in alarmDescriptions' <=> b \in alarmDescriptions
                             /\ occurrences'[Client(b)] = occurrences[Client(b)]
    BY <1>2, <1>T, <2>1, EntryNames DEF LoadAlarm, Enqueue, TypeOK, Alarms
  <2>3. \A b \in Alarms : StateOf(b)' = StateOf(b) /\ DueOf(b)' = DueOf(b)
    BY <1>2, <2>2, SameShown DEF LoadAlarm, HalfFired
  <2> QED
    BY <1>2, <2>3, NoneShownChanges, ServiceFrame DEF LoadAlarm
<1>3. ASSUME NEW a \in Alarms, RunCallback(a) PROVE ServiceSteps
  <2>1. \A b \in Alarms : StateOf(b)' = StateOf(b) /\ DueOf(b)' = DueOf(b)
    BY <1>3, SameShown DEF RunCallback, HalfFired
  <2>2. ServiceState' = ServiceState /\ ServiceDue' = ServiceDue
    BY <2>1, NoneShownChanges
  <2>3. Service!Call(a)
    BY <1>3, <2>2 DEF Service!Call, RunCallback
  <2> QED
    BY <2>3 DEF ServiceSteps, Service!Next, Service!Alarms, Alarms
<1>4. CASE Crash
  <2> DEFINE lost == {a \in Transient : StateOf(a) # "off" /\ a \in issued}
  <2>1. /\ firing' = Null /\ alarmDescriptions' = {} /\ rows' = rows /\ issued' = issued
        /\ jobs' = [a \in Alarms |-> 0]
        /\ \A a \in Alarms : given'[Client(a)] = Null
    BY <1>4, EntryNames DEF Crash
  <2>2. \A a \in Transient : a \in Alarms /\ a \notin Persistent
    BY <1>T DEF Alarms
  <2>3. \A a \in Transient : a \in alarmDescriptions => a \in issued
    BY <1>A, <2>2 DEF AlarmOK, UnissuedOK, Quiet
  <2>4. \A a \in Alarms : StateOf(a)' = IF a \in lost THEN "off"
                                        ELSE IF StateOf(a) = "handed" THEN "armed"
                                        ELSE StateOf(a)
    <3> TAKE a \in Alarms
    <3>1. CASE a \in Persistent
      BY <2>1, <2>2, <3>1 DEF StateOf, AsYetNew, HalfFired
    <3>2. CASE a \notin Persistent
      BY <2>1, <2>2, <2>3, <3>2 DEF StateOf, AsYetNew, Alarms, Client
    <3> QED
      BY <3>1, <3>2
  <2>5. \A a \in Alarms : DueOf(a)' = IF a \in lost THEN Null ELSE DueOf(a)
    <3> TAKE a \in Alarms
    <3>1. CASE a \in Persistent
      BY <2>1, <2>2, <3>1 DEF DueOf
    <3>2. CASE a \notin Persistent
      BY <2>1, <2>2, <2>3, <3>2 DEF StateOf, DueOf, Alarms
    <3> QED
      BY <3>1, <3>2
  <2>6. /\ lost \in SUBSET {a \in Transient : ServiceState[a] # "off"}
        /\ {a \in Transient : ServiceState[a] = "armed"} \subseteq lost
    BY <2>2, <2>3 DEF ServiceState, StateOf, AsYetNew
  <2> HIDE DEF lost
  <2>7. /\ ServiceState' = [a \in Alarms |-> IF a \in lost THEN "off"
                                             ELSE IF ServiceState[a] = "handed" THEN "armed"
                                             ELSE ServiceState[a]]
        /\ ServiceDue' = [a \in Alarms |-> IF a \in lost THEN Null ELSE ServiceDue[a]]
    BY <2>4, <2>5 DEF ServiceState, ServiceDue
  <2>8. Service!Crash
    BY <2>1, <2>6, <2>7 DEF Service!Crash, Service!Alarms, Alarms
  <2> QED
    BY <2>8 DEF ServiceSteps, Service!Next
<1> QED
  BY <1>1, <1>2, <1>3, <1>4 DEF ServiceStep

LEMMA TickServes == ServiceInv /\ Tick => ServiceSteps
<1> SUFFICES ASSUME ServiceInv, Tick PROVE ServiceSteps
  OBVIOUS
<1> USE DEF timerVars, runVars, clientVars, historyVars
<1>T. TypeOK
  BY DEF ServiceInv
<1>1. \A a \in Alarms : /\ given'[Client(a)] = Null <=> given[Client(a)] = Null
                        /\ occurrences'[Client(a)] = Age(occurrences[Client(a)])
  BY <1>T, EntryNames, AgeType DEF Tick, TypeOK
<1>2. \A a \in Persistent : rows'[a] = Age(rows[a]) /\ (rows'[a] = Null <=> rows[a] = Null)
  BY <1>T, AgeType DEF Tick, TypeOK
<1>3. \A a \in Alarms : StateOf(a)' = StateOf(a)
  BY <1>1, <1>2 DEF Tick, StateOf, AsYetNew, HalfFired, Alarms, Client
<1>4. \A a \in Alarms : DueOf(a)' = Age(DueOf(a))
  BY <1>1, <1>2 DEF Tick, DueOf, Age, Client
<1>5. /\ ServiceState' = ServiceState
      /\ ServiceDue' = [a \in Alarms |-> IF ServiceDue[a] = Null \/ ServiceDue[a] = -Horizon
                                         THEN ServiceDue[a] ELSE ServiceDue[a] - 1]
  BY <1>3, <1>4 DEF ServiceState, ServiceDue, Age
<1>6. Service!Tick
  BY <1>5 DEF Service!Tick, Service!Alarms, Alarms, Tick
<1> QED
  BY <1>6 DEF ServiceSteps, Service!Next

\* Whatever the queue, the timers, the locks, the crashes and the failures of the
\* database do, clients see a service that arms an alarm once, fires it when it is
\* due and not before, once for each deadline but for a crash or a failure in the
\* middle of it, and never again once it is cancelled or has fired for good.
THEOREM ManagerImplementsService == ~EarlyClients => (Spec => ImplementsService)
<1> SUFFICES ASSUME ~EarlyClients PROVE Spec => ImplementsService
  OBVIOUS
<1>1. Init => Service!Init
  BY DEF Init, Service!Init, Service!Alarms, Alarms, ServiceState, ServiceDue, StateOf,
         DueOf, AsYetNew
<1>2. Init => TransientInv
  BY EntryNames DEF Init, TransientInv, Alarms
<1>3. ServiceInv /\ [Next]_vars => ServiceSteps
  <2>1. CASE Next
    BY <2>1, ClientStepServes, RunStepServes, ServiceStepServes, TickServes DEF Next
  <2>2. ASSUME UNCHANGED vars PROVE ServiceSteps
    <3>1. \A b \in Alarms : StateOf(b)' = StateOf(b) /\ DueOf(b)' = DueOf(b)
      BY <2>2, SameShown
         DEF vars, runVars, historyVars, HalfFired
    <3> QED
      BY <2>2, <3>1, NoneShownChanges, ServiceFrame DEF vars
  <2> QED
    BY <2>1, <2>2
<1> QED
  BY <1>1, <1>2, <1>3, TransientStep, QueueInvariant, PTL
     DEF Spec, ImplementsService, Service!Spec, ServiceInv, ServiceSteps
=============================================================================
