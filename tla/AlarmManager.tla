---------------------------- MODULE AlarmManager ----------------------------
(***************************************************************************)
(* The server's alarm manager (DefaultAlarmManager), the database rows of  *)
(* its persistent alarms (AlarmDbHelper), the pool of timer threads that   *)
(* runs it, the executor that runs the callbacks, its client threads, and  *)
(* crashes and restarts of the server process.                             *)
(*                                                                         *)
(* Time is kept relative to now: a deadline is the number of ticks until   *)
(* it, negative once it lies in the past, and a tick ages every deadline.  *)
(* One tick stands for any duration; MinSleep is 100 ms in the code.       *)
(***************************************************************************)
EXTENDS Integers, FiniteSets

CONSTANTS
  Persistent,   \* alarms made by createPersistentAlarm
  Transient,    \* alarms made by createTransientAlarm
  Repeat,       \* repeatDuration of each alarm; 0 is null, a one-shot alarm
  Delays,       \* what a client may ask of scheduleFor, relative to now
  Unloadable,   \* persistent alarms whose callback class is gone at a restart
  Timers,       \* identities of the futures that may be outstanding at once
  PoolSize,     \* threads of the scheduled executor
  MinSleep,     \* MINIMUM_SLEEP_TIME_MS
  BackendFails, \* may a call on the alarm backend throw?
  EarlyClients, \* may clients create persistent alarms before doStart is done?
  Horizon,      \* bound: a deadline older than this many ticks ages no more
  MaxLag,       \* bound: the ticks during which one run may hold the locks
  MaxJobs,      \* bound: callbacks of one alarm waiting in the executor
  MaxCrashes,   \* bound: crashes of the server
  Null

Alarms == Persistent \union Transient
Time == {d \in Int : d >= -Horizon}

\* An occurrence is queued for a client that made the alarm, or for the row
\* that doStart read; the same alarm can have one of each.
Client(a) == <<a, "client">>
Loader(a) == <<a, "loader">>
Entries == Alarms \X {"client", "loader"}

ASSUME AlarmsAssumption ==
  /\ Persistent \intersect Transient = {}
  /\ Unloadable \subseteq Persistent
  /\ Repeat \in [Alarms -> Nat]
  /\ Delays \subseteq Time

ASSUME BoundsAssumption ==
  /\ MinSleep \in Nat \ {0}
  /\ PoolSize \in Nat \ {0}
  /\ MaxLag \in Nat
  /\ Horizon \in Nat /\ Horizon > MaxLag
  /\ MaxJobs \in Nat \ {0}
  /\ MaxCrashes \in Nat
  /\ BackendFails \in BOOLEAN
  /\ EarlyClients \in BOOLEAN

ASSUME NullAssumption ==
  /\ Null \notin Int
  /\ Null \notin Timers
  /\ Null \notin Entries

VARIABLES
  server,               \* "down", "boot", "loading" (in doStart) or "running"
  occurrences,          \* deadline of each queued occurrence, or Null
  alarmDescriptions,    \* the alarms with an entry in the map
  nextOccurrenceFuture, \* the tracked timer, or Null
  task,                 \* what has become of each timer
  delay,                \* ticks until a pending timer is due
  runner,               \* the timer whose run() holds both locks, or Null
  lag,                  \* ticks since that run() read the clock
  firing,               \* the entry whose fireAlarm is between its two calls
  given,                \* deadlines a client or doStart has yet to queue
  jobs,                 \* callbacks handed to the background executor
  handles,              \* alarms some client holds an AlarmHandle of
  cancelling,           \* persistent alarms between the two steps of cancel()
  rows,                 \* nextDeadline of each row in the database, or Null
  crashes,
  issued,               \* history: alarms that were asked for
  cancelled,            \* history: alarms whose cancel() returned normally
  called                \* history: alarms whose callback has started

timerVars   == <<nextOccurrenceFuture, task, delay>>
runVars     == <<runner, lag, firing>>
clientVars  == <<handles, cancelling>>
historyVars == <<issued, cancelled, called>>
vars == <<server, occurrences, alarmDescriptions, timerVars, runVars, given,
          jobs, clientVars, rows, crashes, historyVars>>

-----------------------------------------------------------------------------
(* Helpers *)

\* A timer is pending until a thread has started it, running while its run()
\* holds both locks, and rescheduling once run() has released them.
TaskStates == {"free", "pending", "started", "running", "rescheduling"}

Queued(q) == {e \in Entries : q[e] # Null}

\* Mutant: the comparator of the queue has its arguments swapped.
IsTail(q, e) == e \in Queued(q) /\ \A f \in Queued(q) : q[e] >= q[f]

\* The entry peek() may return: among equal deadlines it may be any.
IsHead(q, e) == e \in Queued(q) /\ \A f \in Queued(q) : q[e] <= q[f]

\* Math.max(MINIMUM_SLEEP_TIME_MS, deadline - now)
Sleep(d) == IF d < MinSleep THEN MinSleep ELSE d

\* Mutant: the synchronized blocks are gone.
Unsynchronized == TRUE

\* No run() holds the locks; nobody else keeps them for longer than one action.
Unlocked == runner = Null

\* Mutant: only one of the two structures is updated.
EnqueueNoOccurrence(e, d) ==
  alarmDescriptions' = alarmDescriptions \union {e[1]} /\ UNCHANGED occurrences

\* occurrences.add and alarmDescriptions.put, always together.
Enqueue(e, d) ==
  /\ occurrences' = [occurrences EXCEPT ![e] = d]
  /\ alarmDescriptions' = alarmDescriptions \union {e[1]}

\* The deadlines that a client's call can compute: now plus the repeat
\* duration for scheduleToRepeatEvery, any time at all for scheduleFor.
DeadlinesOf(a) == IF Repeat[a] > 0 THEN {Repeat[a]} ELSE Delays

Init ==
  /\ server = "down"
  /\ occurrences = [e \in Entries |-> Null]
  /\ alarmDescriptions = {}
  /\ nextOccurrenceFuture = Null
  /\ task = [t \in Timers |-> "free"]
  /\ delay = [t \in Timers |-> 0]
  /\ runner = Null /\ lag = 0 /\ firing = Null
  /\ given = [e \in Entries |-> Null]
  /\ jobs = [a \in Alarms |-> 0]
  /\ handles = {} /\ cancelling = {}
  /\ rows = [a \in Persistent |-> Null]
  /\ crashes = 0
  /\ issued = {} /\ cancelled = {} /\ called = {}

\* Cancels the tracked timer unless it has started, and schedules the next one
\* for the head of the queue q; ts holds the timers as the caller leaves them.
ScheduleNextAlarmCycle(q, ts) ==
  LET tracked == nextOccurrenceFuture
      open == [t \in Timers |-> IF t = tracked /\ ts[t] = "pending"
                                THEN "free" ELSE ts[t]]
      next == CHOOSE t \in Timers : open[t] = "free"
      rest == [t \in Timers |-> IF open[t] = "pending" THEN delay[t] ELSE 0]
  IN  \/ /\ Queued(q) = {}
         /\ task' = open
         /\ delay' = rest
         /\ nextOccurrenceFuture' = Null
      \/ \E e \in Queued(q) :
         /\ IsHead(q, e)
         /\ \E t \in Timers : open[t] = "free"
         /\ task' = [open EXCEPT ![next] = "pending"]
         /\ delay' = [rest EXCEPT ![next] = Sleep(q[e])]
         /\ nextOccurrenceFuture' = next

-----------------------------------------------------------------------------
(* Clients: creating, looking up and cancelling alarms *)

MayCreate(a) ==
  IF a \in Transient \/ EarlyClients
  THEN server \in {"boot", "loading", "running"}
  ELSE server = "running"

\* The builder computes the deadline and, for a persistent alarm, stores the
\* row: neither lock is held, so anything can happen before ScheduleNewAlarm.
CreateAlarm(a, d) ==
  /\ MayCreate(a)
  /\ a \notin issued
  /\ given' = [given EXCEPT ![Client(a)] = d]
  /\ rows' = IF a \in Persistent THEN [rows EXCEPT ![a] = d] ELSE rows
  /\ issued' = issued \union {a}
  /\ UNCHANGED <<server, occurrences, alarmDescriptions, timerVars, runVars,
                 jobs, clientVars, crashes, cancelled, called>>

ScheduleNewAlarm(a) ==
  /\ given[Client(a)] # Null
  /\ Unlocked
  /\ Enqueue(Client(a), given[Client(a)])
  /\ ScheduleNextAlarmCycle(occurrences', task)
  /\ given' = [given EXCEPT ![Client(a)] = Null]
  /\ handles' = handles \union {a}
  /\ UNCHANGED <<server, runVars, jobs, cancelling, rows, crashes, historyVars>>

LookupAlarm(a) ==
  /\ Unlocked
  /\ a \in alarmDescriptions
  /\ handles' = handles \union {a}
  /\ UNCHANGED <<server, occurrences, alarmDescriptions, timerVars, runVars,
                 given, jobs, cancelling, rows, crashes, historyVars>>

\* The first step of cancel(), and all of it for a transient alarm. The
\* occurrence stays in the queue.
CancelAlarm(a) ==
  /\ a \in handles
  /\ Unlocked
  /\ alarmDescriptions' = alarmDescriptions \ {a}
  /\ \/ /\ a \in Transient
        /\ cancelled' = cancelled \union {a}
        /\ UNCHANGED cancelling
     \/ /\ a \in Persistent
        /\ cancelling' = cancelling \union {a}
        /\ UNCHANGED cancelled
  /\ UNCHANGED <<server, occurrences, timerVars, runVars, given, jobs, handles,
                 rows, crashes, issued, called>>

\* The second step of cancel(): the row goes, unless it is already gone or the
\* database fails, and then cancel() throws.
RemoveCancelledRow(a) ==
  /\ a \in cancelling
  /\ cancelling' = cancelling \ {a}
  /\ \/ /\ rows[a] # Null
        /\ rows' = [rows EXCEPT ![a] = Null]
        /\ cancelled' = cancelled \union {a}
     \/ /\ rows[a] = Null \/ BackendFails
        /\ UNCHANGED <<rows, cancelled>>
  /\ UNCHANGED <<server, occurrences, alarmDescriptions, timerVars, runVars,
                 given, jobs, handles, crashes, issued, called>>

-----------------------------------------------------------------------------
(* Timer threads: one run() of the manager for every timer that goes off *)

\* A thread of the pool takes a timer that is due. From here on cancel(false)
\* has no effect on it.
StartTimer(t) ==
  /\ task[t] = "pending" /\ delay[t] = 0
  /\ Cardinality({u \in Timers : task[u] \notin {"free", "pending"}}) < PoolSize
  /\ task' = [task EXCEPT ![t] = "started"]
  /\ UNCHANGED <<server, occurrences, alarmDescriptions, nextOccurrenceFuture,
                 delay, runVars, given, jobs, clientVars, rows, crashes,
                 historyVars>>

\* run() takes both locks, forgets the tracked timer and reads the clock.
BeginRun(t) ==
  /\ task[t] = "started"
  /\ Unlocked
  /\ task' = [task EXCEPT ![t] = "running"]
  /\ runner' = t
  /\ lag' = 0
  /\ nextOccurrenceFuture' = Null
  /\ UNCHANGED <<server, occurrences, alarmDescriptions, delay, firing, given,
                 jobs, clientVars, rows, crashes, historyVars>>

\* Mutant: alarms due within the minimum sleep fire along with those overdue.
DueSoon(e) == IsHead(occurrences, e) /\ occurrences[e] <= MinSleep

\* The head of the queue lies strictly before the time run() read.
Due(e) == IsHead(occurrences, e) /\ occurrences[e] < -lag

\* run() can take e from the queue.
CanPop(e) == runner # Null /\ firing = Null /\ Due(e)

\* Mutant: run() fires what it takes without asking whether it was cancelled.
IsLiveUnchecked(a) == TRUE

\* alarmDescriptions.remove found a description, the alarm was not cancelled.
IsLive(a) == a \in alarmDescriptions

\* Mutant: the description is looked up, not removed.
WithoutDescriptionKept(a) == alarmDescriptions

WithoutDescription(a) == alarmDescriptions \ {a}

HandOver(a) == jobs[a] < MaxJobs /\ jobs' = [jobs EXCEPT ![a] = @ + 1]

\* The occurrence of an alarm that was cancelled is dropped.
DropOccurrence(e) ==
  /\ CanPop(e)
  /\ ~IsLive(e[1])
  /\ occurrences' = [occurrences EXCEPT ![e] = Null]
  /\ UNCHANGED <<server, alarmDescriptions, timerVars, runVars, given, jobs,
                 clientVars, rows, crashes, historyVars>>

\* A transient alarm is handed to the executor and, if it repeats, queued anew.
FireTransient(e) ==
  /\ CanPop(e)
  /\ e[1] \in Transient /\ IsLive(e[1])
  /\ HandOver(e[1])
  /\ \/ Repeat[e[1]] > 0 /\ Enqueue(e, Repeat[e[1]])
     \/ /\ Repeat[e[1]] = 0
        /\ occurrences' = [occurrences EXCEPT ![e] = Null]
        /\ alarmDescriptions' = WithoutDescription(e[1])
  /\ UNCHANGED <<server, timerVars, runVars, given, clientVars, rows, crashes,
                 historyVars>>

\* A persistent alarm is handed to the executor first, its row updated next.
FirePersistent(e) ==
  /\ CanPop(e)
  /\ e[1] \in Persistent /\ IsLive(e[1])
  /\ HandOver(e[1])
  /\ occurrences' = [occurrences EXCEPT ![e] = Null]
  /\ alarmDescriptions' = WithoutDescription(e[1])
  /\ firing' = e
  /\ UNCHANGED <<server, timerVars, runner, lag, given, clientVars, rows,
                 crashes, historyVars>>

\* Mutant: no call of updateAlarm for an alarm that repeats.
StoredNotUpdated(a) == IF Repeat[a] > 0 THEN rows[a] ELSE Null

\* What fireAlarm makes of the row: updateAlarm or removeAlarm.
Stored(a) == IF Repeat[a] > 0 THEN Repeat[a] ELSE Null

\* The backend has done its part, and an alarm that repeats is queued anew.
StoreFired ==
  /\ firing # Null
  /\ LET a == firing[1] IN
     /\ rows[a] # Null
     /\ rows' = [rows EXCEPT ![a] = Stored(a)]
     /\ \/ Repeat[a] > 0 /\ Enqueue(firing, Repeat[a])
        \/ Repeat[a] = 0 /\ UNCHANGED <<occurrences, alarmDescriptions>>
  /\ firing' = Null
  /\ UNCHANGED <<server, timerVars, runner, lag, given, jobs, clientVars,
                 crashes, historyVars>>

\* The backend throws, as it does for a row that is gone: the exception leaves
\* run(), so that no further timer is scheduled.
AbortRun ==
  /\ firing # Null
  /\ rows[firing[1]] = Null \/ BackendFails
  /\ task' = [task EXCEPT ![runner] = "free"]
  /\ runner' = Null /\ lag' = 0 /\ firing' = Null
  /\ UNCHANGED <<server, occurrences, alarmDescriptions, nextOccurrenceFuture,
                 delay, given, jobs, clientVars, rows, crashes, historyVars>>

\* Nothing more is due: run() releases the locks ...
EndRun ==
  /\ runner # Null /\ firing = Null
  /\ \A e \in Entries : ~Due(e)
  /\ task' = [task EXCEPT ![runner] = "rescheduling"]
  /\ runner' = Null /\ lag' = 0
  /\ UNCHANGED <<server, occurrences, alarmDescriptions, nextOccurrenceFuture,
                 delay, firing, given, jobs, clientVars, rows, crashes,
                 historyVars>>

\* ... and takes one of them again to schedule the next timer.
Reschedule(t) ==
  /\ task[t] = "rescheduling"
  /\ Unlocked
  /\ ScheduleNextAlarmCycle(occurrences, [task EXCEPT ![t] = "free"])
  /\ UNCHANGED <<server, occurrences, alarmDescriptions, runVars, given, jobs,
                 clientVars, rows, crashes, historyVars>>

\* A thread of the background executor runs a callback, which gets the handle.
RunCallback(a) ==
  /\ jobs[a] > 0
  /\ jobs' = [jobs EXCEPT ![a] = @ - 1]
  /\ called' = called \union {a}
  /\ handles' = handles \union {a}
  /\ UNCHANGED <<server, occurrences, alarmDescriptions, timerVars, runVars,
                 given, cancelling, rows, crashes, issued, cancelled>>

-----------------------------------------------------------------------------
(* The service: start, crash, restart *)

Restart ==
  /\ server = "down"
  /\ server' = "boot"
  /\ UNCHANGED <<occurrences, alarmDescriptions, timerVars, runVars, given,
                 jobs, clientVars, rows, crashes, historyVars>>

\* doStart reads the rows; if that fails the service is not started, but the
\* manager goes on serving its clients.
DoStart ==
  /\ server = "boot"
  /\ \/ /\ server' = "loading"
        /\ given' = [e \in Entries |-> IF e[2] = "loader" /\ e[1] \in Persistent
                                       THEN rows[e[1]] ELSE given[e]]
     \/ /\ BackendFails
        /\ server' = "running"
        /\ UNCHANGED given
  /\ UNCHANGED <<occurrences, alarmDescriptions, timerVars, runVars, jobs,
                 clientVars, rows, crashes, historyVars>>

\* doStart queues one row, or skips it if its callback class cannot be found.
LoadAlarm(a) ==
  /\ server = "loading"
  /\ given[Loader(a)] # Null
  /\ given' = [given EXCEPT ![Loader(a)] = Null]
  /\ \/ /\ a \in Unloadable
        /\ UNCHANGED <<occurrences, alarmDescriptions>>
     \/ /\ a \notin Unloadable
        /\ Unlocked
        /\ Enqueue(Loader(a), given[Loader(a)])
  /\ UNCHANGED <<server, timerVars, runVars, jobs, clientVars, rows, crashes,
                 historyVars>>

FinishStart ==
  /\ server = "loading"
  /\ \A a \in Alarms : given[Loader(a)] = Null
  /\ Unlocked
  /\ ScheduleNextAlarmCycle(occurrences, task)
  /\ server' = "running"
  /\ UNCHANGED <<occurrences, alarmDescriptions, runVars, given, jobs,
                 clientVars, rows, crashes, historyVars>>

\* The process dies at any point; only the database survives.
Crash ==
  /\ server # "down"
  /\ crashes < MaxCrashes
  /\ crashes' = crashes + 1
  /\ server' = "down"
  /\ occurrences' = [e \in Entries |-> Null]
  /\ alarmDescriptions' = {}
  /\ nextOccurrenceFuture' = Null
  /\ task' = [t \in Timers |-> "free"]
  /\ delay' = [t \in Timers |-> 0]
  /\ runner' = Null /\ lag' = 0 /\ firing' = Null
  /\ given' = [e \in Entries |-> Null]
  /\ jobs' = [a \in Alarms |-> 0]
  /\ handles' = {} /\ cancelling' = {}
  /\ UNCHANGED <<rows, historyVars>>

-----------------------------------------------------------------------------
(* Time *)

Age(d) == IF d = Null \/ d = -Horizon THEN d ELSE d - 1

Tick ==
  /\ runner # Null => lag < MaxLag
  /\ occurrences' = [e \in Entries |-> Age(occurrences[e])]
  /\ given' = [e \in Entries |-> Age(given[e])]
  /\ rows' = [a \in Persistent |-> Age(rows[a])]
  /\ delay' = [t \in Timers |-> IF delay[t] > 0 THEN delay[t] - 1 ELSE 0]
  /\ lag' = IF runner = Null THEN 0 ELSE lag + 1
  /\ UNCHANGED <<server, alarmDescriptions, nextOccurrenceFuture, task, runner,
                 firing, jobs, clientVars, crashes, historyVars>>

-----------------------------------------------------------------------------

ClientStep ==
  \E a \in Alarms :
    \/ \E d \in DeadlinesOf(a) : CreateAlarm(a, d)
    \/ ScheduleNewAlarm(a)
    \/ LookupAlarm(a)
    \/ CancelAlarm(a)
    \/ RemoveCancelledRow(a)

RunStep ==
  \/ \E t \in Timers : StartTimer(t) \/ BeginRun(t) \/ Reschedule(t)
  \/ \E e \in Entries : DropOccurrence(e) \/ FireTransient(e) \/ FirePersistent(e)
  \/ StoreFired \/ AbortRun \/ EndRun

ServiceStep ==
  \/ Restart \/ DoStart \/ FinishStart \/ Crash
  \/ \E a \in Alarms : LoadAlarm(a) \/ RunCallback(a)

Next == ClientStep \/ RunStep \/ ServiceStep \/ Tick

Spec == Init /\ [][Next]_vars

(* Fairness: threads that can run do, time passes, and a dead server is      *)
(* restarted. The monitor is released again and again and each waiting       *)
(* thread gets it in the end (HotSpot queues them): strong fairness. Clients *)
(* owe nothing but to finish the calls they have begun.                      *)
Fairness ==
  /\ WF_vars(Tick)
  /\ WF_vars(RunStep)
  /\ \A a \in Alarms :
       /\ SF_vars(ScheduleNewAlarm(a))
       /\ WF_vars(RemoveCancelledRow(a))
       /\ SF_vars(LoadAlarm(a))
       /\ WF_vars(RunCallback(a))
  /\ WF_vars(Restart) /\ WF_vars(DoStart) /\ SF_vars(FinishStart)

FairSpec == Spec /\ Fairness

-----------------------------------------------------------------------------
(* Properties *)

\* Every variable holds a value of its type; a run that holds the locks is a
\* running task, and only it has an entry half fired.
TypeOK ==
  /\ server \in {"down", "boot", "loading", "running"}
  /\ occurrences \in [Entries -> Time \union {Null}]
  /\ alarmDescriptions \subseteq Alarms
  /\ nextOccurrenceFuture \in Timers \union {Null}
  /\ task \in [Timers -> TaskStates]
  /\ delay \in [Timers -> Nat]
  /\ runner \in Timers \union {Null}
  /\ lag \in 0 .. MaxLag
  /\ firing \in (Persistent \X {"client", "loader"}) \union {Null}
  /\ given \in [Entries -> Time \union {Null}]
  /\ jobs \in [Alarms -> 0 .. MaxJobs]
  /\ handles \subseteq Alarms
  /\ cancelling \subseteq Persistent
  /\ rows \in [Persistent -> Time \union {Null}]
  /\ crashes \in 0 .. MaxCrashes
  /\ issued \subseteq Alarms
  /\ cancelled \subseteq Alarms
  /\ called \subseteq Alarms
  /\ \A t \in Timers : task[t] = "running" <=> runner = t
  /\ firing # Null => runner # Null

\* Nothing interferes with the manager: the backend never throws on its own,
\* and persistent alarms are created only once doStart is done.
Reliable == ~BackendFails /\ ~EarlyClients

\* Some thread is on its way to a call of scheduleNextAlarmCycle.
WillReschedule ==
  \/ server = "loading"
  \/ \E t \in Timers : task[t] \in {"started", "running", "rescheduling"}

\* The wakeup is never lost: while an occurrence is queued and no thread is
\* about to schedule, some timer is set to go off by its deadline, or within
\* the minimum sleep (scheduleNextAlarmCycle against the races of run, of the
\* creating clients, of cancel and of doStart).
WakeupScheduled ==
  Reliable /\ ~WillReschedule =>
    \A e \in Queued(occurrences) :
      \E t \in Timers : task[t] = "pending" /\ delay[t] <= Sleep(occurrences[e])

\* What fireAlarm and cancel() touch in the database is there: an alarm in the
\* map, or half fired, has its row, and no cancel() is about to remove that
\* row. Otherwise fireAlarm would throw out of run().
RowOutlivesDescription ==
  ~EarlyClients =>
    \A a \in Persistent :
      a \in alarmDescriptions \/ (firing # Null /\ firing[1] = a)
        => rows[a] # Null /\ a \notin cancelling

\* The database agrees with the queue: the occurrence of a live persistent
\* alarm carries the deadline of its row, so a restart moves no deadline.
RowMatchesOccurrence ==
  ~EarlyClients =>
    \A e \in Queued(occurrences) :
      e[1] \in alarmDescriptions \intersect Persistent
        => occurrences[e] = rows[e[1]]

\* A description in the map has exactly one occurrence in the queue: with none
\* the alarm would never fire, with two it would fire twice per interval. The
\* map loses its entry while the queue keeps one (cancelAlarm), never the
\* other way round.
OneOccurrencePerDescription ==
  ~EarlyClients =>
    \A a \in alarmDescriptions :
      Cardinality({e \in Queued(occurrences) : e[1] = a}) = 1

\* Queue, map and database tell one story: no interleaving of creations, cycles
\* of run() and cancels, no crash and no failed call of the database leaves an
\* alarm with a deadline other than its row's, with two occurrences or with none.
OccurrencesAgree == RowMatchesOccurrence /\ OneOccurrencePerDescription

\* An alarm whose cancel() has returned is gone from the map and from the
\* database, through every later crash and restart.
CancelledIsGone ==
  ~EarlyClients =>
    \A a \in cancelled :
      a \notin alarmDescriptions /\ (a \in Persistent => rows[a] = Null)

\* No callback is handed to the executor for an alarm whose cancel() has
\* returned or has passed cancelAlarm, whatever its occurrence still in the
\* queue does.
NoFireAfterCancel ==
  [][~EarlyClients =>
       \A a \in cancelled \union cancelling : jobs'[a] <= jobs[a]]_vars

\* A callback is handed over only for an occurrence whose deadline has come,
\* whatever timers, stale ones included, made run() look at the queue.
NeverEarly ==
  [][\A a \in Alarms : jobs'[a] > jobs[a] =>
       \E e \in Queued(occurrences) : e[1] = a /\ occurrences[e] <= 0]_vars

\* AlarmManager.createPersistentAlarm promises an alarm that "isn't lost on a
\* server restart": one that was stored and whose cancel() nobody called is
\* called back, or still waits as a row or as a job of the executor.
PersistentAlarmNotLost ==
  \A a \in Persistent \intersect issued :
    a \in called \union cancelled \union cancelling \/ rows[a] # Null \/ jobs[a] > 0

\* A stored alarm fires: its callback reaches the executor unless the alarm is
\* cancelled, also when the server crashes and is restarted in between. (While
\* fireAlarm is between its two calls the row of an alarm already called back
\* is still there; then it must go.)
PersistentAlarmsFire ==
  \A a \in Persistent :
    rows[a] # Null ~> \/ jobs[a] > 0
                      \/ a \in cancelling \union cancelled
                      \/ a \in called /\ rows[a] = Null

\* AlarmBuilder.scheduleFor and scheduleToRepeatEvery: an alarm that is in the
\* map fires, in due time and again after every interval, unless it is
\* cancelled or the server dies.
TransientAlarmsFire ==
  \A a \in Transient :
    a \in alarmDescriptions ~> jobs[a] > 0 \/ a \in cancelled \/ server = "down"

\* Both promises of AlarmManager: what is scheduled fires.
AlarmsFire == PersistentAlarmsFire /\ TransientAlarmsFire
=============================================================================
