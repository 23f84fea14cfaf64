-------------------------- MODULE ObserveCheckpoint --------------------------
(***************************************************************************)
(* The observers of observe-js in a browser without Object.observe: open,  *)
(* close, deliver, discardChanges and reset, the dirty checks that         *)
(* Platform.performMicrotaskCheckpoint makes of all of them, the tasks run *)
(* at the end of it (runEOM), and Polymer's poll (flush.js) that calls it. *)
(* Callbacks are code of the page: in the middle of a check they may call  *)
(* any operation, so the JavaScript call stack is part of the state.       *)
(***************************************************************************)
EXTENDS Integers, Sequences, FiniteSets, SequencesExt, Filtering

CONSTANTS PathObservers,  \* PathObserver objects
          Compounds,      \* CompoundObserver objects
          Eager,          \* the compounds made with reportChangesOnOpen
          Paths,          \* the paths of the model data
          Values,         \* what a path may read as
          Undefined,      \* the value of a path observer that is not open
          MaxCycles,      \* MAX_DIRTY_CHECK_CYCLES
          MaxActs,        \* bound: the calls made by code of the page
          MaxStack,       \* bound: the depth of the call stack
          PageThrows      \* whether the page's functions throw

ASSUME ObserverAssumption ==
    /\ Eager \subseteq Compounds
    /\ PathObservers \cap Compounds = {}
    /\ Paths \cap (PathObservers \cup Compounds) = {}
    /\ Undefined \notin Values
    /\ MaxCycles \in Nat \ {0} /\ MaxActs \in Nat /\ MaxStack \in Nat
    /\ PageThrows \in BOOLEAN

Observers == PathObservers \cup Compounds

VARIABLES
    store,        \* the model data: the value of each path
    state,        \* state_ of an observer
    observed,     \* what it observes: paths, for a compound observers too
    value,        \* value_: the value it last saw of each of them
    callback,     \* callback_: the page's, or the compound that opened it
    allObservers, \* the observers of the next cycle
    running,      \* runningMicrotaskCheckpoint
    loop,         \* the locals of performMicrotaskCheckpoint
    eomTasks,     \* the number of tasks to run at its end
    stack,        \* the functions being called, the innermost last
    errorThrown,  \* Observer._errorThrownDuringCallback
    settled,      \* history: the last checkpoint found nothing, no write since
    passedOver,   \* history: observers a checkpoint dropped before they were open
    flushing,     \* flush.js: a flush waits for the end of the microtask
    visible,      \* whether the page is visible
    polling,      \* the interval of visibilityHandler is set
    acts          \* the calls the page has made

data   == <<store, state, observed, value, callback, allObservers>>
engine == <<running, loop, eomTasks, stack, errorThrown, settled, passedOver>>
page   == <<flushing, visible, polling, acts>>
observerVars == <<store, state, observed, value, callback, allObservers, running, loop,
                  eomTasks, stack, errorThrown, settled, passedOver, flushing, visible, polling,
                  acts>>

Idle == [cycles |-> 0, toCheck |-> <<>>, i |-> 1, anyChanged |-> FALSE,
         reported |-> FALSE, task |-> 0]

ObserverInit ==
    /\ store \in [Paths -> Values]
    /\ state = [o \in Observers |-> "unopened"]
    /\ \E path \in [PathObservers -> Paths] :
          observed = [o \in Observers |-> IF o \in PathObservers THEN <<path[o]>> ELSE <<>>]
    /\ value = [o \in Observers |-> IF o \in PathObservers THEN <<Undefined>> ELSE <<>>]
    /\ callback = [o \in Observers |-> "none"]
    /\ allObservers = <<>>
    /\ running = FALSE /\ loop = Idle /\ eomTasks = 0 /\ stack = <<>>
    /\ errorThrown = FALSE /\ settled = FALSE /\ passedOver = {}
    /\ flushing = TRUE /\ visible = TRUE /\ polling = TRUE
    /\ acts = 0

(***************************************************************************)
(* check_ and what it calls, on a record of the variables it changes.      *)
(***************************************************************************)
heap == [state |-> state, value |-> value, callback |-> callback, all |-> allObservers]

SetHeap(h) ==
    /\ state' = h.state /\ value' = h.value
    /\ callback' = h.callback /\ allObservers' = h.all

Nested(o) == {observed[o][i] : i \in DOMAIN observed[o]} \cap PathObservers
PathOf(x) == IF x \in PathObservers THEN observed[x][1] ELSE x
Current(o) == [i \in DOMAIN observed[o] |-> store[PathOf(observed[o][i])]]

\* The values check_ reads.  A compound reads an observer inside it by
\* discardChanges, which brings that observer's value up to date in silence.
Refreshed(h, o) ==
    [h EXCEPT !.value = [x \in Observers |->
        IF x \in Nested(o) \cup {o} THEN Current(x) ELSE h.value[x]]]

Changes(h, o) == Current(o) # h.value[o]

\* Mutant: the observers inside a compound are not put on the list.
OpenedAlone(h, o, cb) ==
    LET new == {o} \cup Nested(o) IN
    Refreshed([state |-> [x \in Observers |-> IF x \in new THEN "opened" ELSE h.state[x]],
               value |-> h.value,
               callback |-> [x \in Observers |->
                    IF x = o THEN cb ELSE IF x \in Nested(o) THEN o ELSE h.callback[x]],
               all |-> Append(h.all, o)], o)

\* open of an observer on its own: addToAll, then connect_ reads the value.
\* A compound that is not open yet opens the observers inside it.
Opened(h, o, cb) ==
    LET inner == Filtered(observed[o], Nested(o))
        new   == {o} \cup Nested(o)
    IN  Refreshed([state |-> [x \in Observers |-> IF x \in new THEN "opened" ELSE h.state[x]],
                   value |-> h.value,
                   callback |-> [x \in Observers |->
                        IF x = o THEN cb ELSE IF x \in Nested(o) THEN o ELSE h.callback[x]],
                   all |-> h.all \o <<o>> \o inner], o)

Frame(call, o) == [call |-> call, obs |-> o, cycles |-> 0]
Top == Last(stack)
Pop == Front(stack)

\* report_: calls the callback; the one of an inner observer is the deliver of
\* its compound.  A callback that is gone throws, which report_ catches.
Report(s, o) ==
    /\ stack' = CASE callback[o] = "page" -> Append(s, Frame("callback", o))
                  [] callback[o] = "none" -> s
                  [] OTHER -> IF state[callback[o]] = "opened"
                              THEN Append(s, Frame("deliver", callback[o])) ELSE s
    /\ errorThrown' = (errorThrown \/ callback[o] = "none")

(***************************************************************************)
(* What code of the page may call: at the top of the stack, or from a      *)
(* callback or a task.                                                     *)
(***************************************************************************)
PageRuns == stack # <<>> => Top.call \in {"callback", "task"}

Act ==
    /\ PageRuns
    /\ acts < MaxActs
    /\ acts' = acts + 1

\* Any write of the page to its data, also by setValue of an observer.
Write(p, v) ==
    /\ Act
    /\ store[p] # v
    /\ store' = [store EXCEPT ![p] = v]
    /\ settled' = FALSE
    /\ UNCHANGED <<state, observed, value, callback, allObservers, running, loop, eomTasks,
                   stack, errorThrown, flushing, visible, polling, passedOver>>

\* addPath and addObserver, before open.  An eager compound reads the value now.
Add(c, x) ==
    /\ Act
    /\ state[c] = "unopened"
    /\ x \in PathObservers => c \notin Eager /\ state[x] = "unopened"
                              /\ \A d \in Compounds : x \notin Nested(d)
    /\ Len(observed[c]) < 2
    /\ observed' = [observed EXCEPT ![c] = Append(@, x)]
    /\ value' = [value EXCEPT ![c] = Append(@, IF c \in Eager THEN store[x] ELSE Undefined)]
    /\ UNCHANGED <<store, state, callback, allObservers, engine, flushing, visible, polling>>

\* open.  An eager compound reports what changed since its paths were added,
\* and is open only when the callback has returned.
Open(o) ==
    /\ Act
    /\ state[o] = "unopened"
    /\ o \in PathObservers => \A c \in Compounds : o \notin Nested(c)
    /\ IF o \in Eager /\ Changes(heap, o) /\ callback[o] = "none"
       THEN /\ SetHeap([Refreshed(heap, o) EXCEPT !.callback[o] = "page", !.all = Append(@, o)])
            /\ stack' = stack \o <<Frame("open", o), Frame("callback", o)>>
       ELSE /\ callback[o] = "none"
            /\ SetHeap(Opened(heap, o, "page"))
            /\ UNCHANGED stack
    /\ UNCHANGED <<store, observed, running, loop, eomTasks, errorThrown, settled,
                   flushing, visible, polling, passedOver>>

FinishOpen ==
    /\ stack # <<>> /\ Top.call = "open"
    /\ state' = [state EXCEPT ![Top.obs] = "opened"]
    /\ stack' = Pop
    /\ UNCHANGED <<store, observed, value, callback, allObservers, running, loop, eomTasks,
                   errorThrown, settled, page, passedOver>>

\* close, and disconnect_ of a compound with the observers inside it.  The
\* observer stays in allObservers until a checkpoint leaves it out.
Close(o) ==
    /\ Act
    /\ state[o] = "opened"
    /\ LET shut == {o} \cup {x \in Nested(o) : state[x] = "opened"} IN
       /\ state' = [x \in Observers |-> IF x \in shut THEN "closed" ELSE state[x]]
       /\ callback' = [x \in Observers |-> IF x \in shut THEN "none" ELSE callback[x]]
       /\ observed' = [x \in Observers |-> IF x = o /\ o \in Compounds THEN <<>> ELSE observed[x]]
       /\ value' = [x \in Observers |->
             IF x \in shut THEN IF x \in Compounds THEN <<>> ELSE <<Undefined>> ELSE value[x]]
    /\ UNCHANGED <<store, allObservers, engine, flushing, visible, polling>>

Deliver(o) ==
    /\ Act
    /\ state[o] = "opened"
    /\ Len(stack) + 2 <= MaxStack
    /\ stack' = Append(stack, Frame("deliver", o))
    /\ UNCHANGED <<data, running, loop, eomTasks, errorThrown, settled, flushing, visible, polling, passedOver>>

discardChanges(o) ==
    /\ Act
    /\ state[o] = "opened"
    /\ SetHeap(Refreshed(heap, o))
    /\ UNCHANGED <<store, observed, engine, flushing, visible, polling>>

\* The reset of an expression with dynamic dependencies (getBinding's valueFn):
\* startReset, the paths the expression reads this time, finishReset.  If the
\* expression throws, finishReset is never called.
Reset(c, x) ==
    /\ Act
    /\ state[c] = "opened" /\ c \notin Eager
    /\ LET inner == {n \in Nested(c) : state[n] = "opened"}
           closed == [s |-> [n \in Observers |-> IF n \in inner THEN "closed" ELSE state[n]],
                      v |-> [n \in Observers |-> IF n \in inner THEN <<Undefined>> ELSE value[n]]]
       IN  /\ callback' = [n \in Observers |-> IF n \in inner THEN "none" ELSE callback[n]]
           /\ \/ /\ observed' = [observed EXCEPT ![c] = <<x>>]
                 /\ state' = closed.s
                 /\ value' = [closed.v EXCEPT ![c] = <<store[x]>>]
              \/ /\ PageThrows
                 /\ observed' = [observed EXCEPT ![c] = <<>>]
                 /\ state' = [closed.s EXCEPT ![c] = "resetting"]
                 /\ value' = [closed.v EXCEPT ![c] = <<>>]
    /\ UNCHANGED <<store, allObservers, engine, flushing, visible, polling>>

RunEOM ==
    /\ Act
    /\ eomTasks' = eomTasks + 1
    /\ settled' = FALSE
    /\ UNCHANGED <<data, running, loop, stack, errorThrown, flushing, visible, polling, passedOver>>

(***************************************************************************)
(* dirtyCheck: deliver checks one observer until it reports nothing.       *)
(***************************************************************************)
DirtyCheck ==
    /\ stack # <<>> /\ Top.call = "deliver"
    /\ LET o == Top.obs IN
       IF Top.cycles < MaxCycles
       THEN /\ SetHeap(Refreshed(heap, o))
            /\ IF Changes(heap, o)
               THEN Report(Append(Pop, [Top EXCEPT !.cycles = @ + 1]), o)
               ELSE stack' = Pop /\ UNCHANGED errorThrown
       ELSE stack' = Pop /\ UNCHANGED <<state, value, callback, allObservers, errorThrown>>
    /\ UNCHANGED <<store, observed, running, loop, eomTasks, settled, page, passedOver>>

(***************************************************************************)
(* performMicrotaskCheckpoint                                              *)
(***************************************************************************)
Cycle(n) == [Idle EXCEPT !.cycles = n, !.toCheck = allObservers]

Checkpoint ==
    IF running THEN UNCHANGED <<running, loop, allObservers, stack>>
    ELSE /\ running' = TRUE
         /\ loop' = Cycle(1)
         /\ allObservers' = <<>>
         /\ stack' = Append(stack, [call |-> "checkpoint", obs |-> "none", cycles |-> 0])

\* The page calls it, which does nothing while one is under way.
PerformCheckpoint ==
    /\ Act
    /\ Len(stack) + 2 <= MaxStack
    /\ Checkpoint
    /\ UNCHANGED <<store, state, observed, value, callback, eomTasks, errorThrown, settled,
                   flushing, visible, polling, passedOver>>

InCheckpoint == stack # <<>> /\ Top.call = "checkpoint"

\* One observer of the cycle: left out unless it is open, else checked and,
\* once its callback has returned, kept for the next cycle.
CheckNext ==
    /\ InCheckpoint
    /\ loop.i <= Len(loop.toCheck)
    /\ LET o == loop.toCheck[loop.i] IN
       CASE loop.reported ->
              /\ loop' = [loop EXCEPT !.i = @ + 1, !.anyChanged = TRUE, !.reported = FALSE]
              /\ allObservers' = Append(allObservers, o)
              /\ UNCHANGED <<state, value, callback, stack, errorThrown>>
         [] ~loop.reported /\ state[o] # "opened" ->
              /\ loop' = [loop EXCEPT !.i = @ + 1]
              /\ passedOver' = IF state[o] = "closed" THEN passedOver ELSE passedOver \cup {o}
              /\ UNCHANGED <<state, value, callback, allObservers, stack, errorThrown>>
         [] ~loop.reported /\ state[o] = "opened" /\ Changes(heap, o) ->
              /\ SetHeap(Refreshed(heap, o))
              /\ loop' = [loop EXCEPT !.reported = TRUE]
              /\ Report(stack, o)
         [] OTHER ->
              /\ SetHeap([Refreshed(heap, o) EXCEPT !.all = Append(@, o)])
              /\ loop' = [loop EXCEPT !.i = @ + 1]
              /\ UNCHANGED <<stack, errorThrown>>
    /\ (loop.reported \/ state[loop.toCheck[loop.i]] = "opened") => UNCHANGED passedOver
    /\ UNCHANGED <<store, observed, running, eomTasks, settled, page>>

\* runEOMTasks: the next task, one that a task before it added too.
RunTask ==
    /\ InCheckpoint
    /\ loop.i > Len(loop.toCheck)
    /\ loop.task < eomTasks
    /\ loop' = [loop EXCEPT !.task = @ + 1]
    /\ stack' = Append(stack, [call |-> "task", obs |-> "none", cycles |-> 0])
    /\ UNCHANGED <<data, running, eomTasks, errorThrown, settled, page, passedOver>>

\* The end of a cycle: another one if anything changed, but not for ever.
EndCycle ==
    /\ InCheckpoint
    /\ loop.i > Len(loop.toCheck)
    /\ loop.task = eomTasks
    /\ eomTasks' = 0
    /\ LET anyChanged == loop.anyChanged \/ eomTasks > 0 IN
       IF loop.cycles < MaxCycles /\ anyChanged
       THEN /\ loop' = Cycle(loop.cycles + 1)
            /\ allObservers' = <<>>
            /\ UNCHANGED <<running, stack, settled>>
       ELSE /\ running' = FALSE
            /\ loop' = Idle
            /\ stack' = Pop
            /\ settled' = ~anyChanged
            /\ UNCHANGED allObservers
    /\ UNCHANGED <<store, state, observed, value, callback, errorThrown, page, passedOver>>

\* A callback or a task is done.
Return ==
    /\ stack # <<>> /\ Top.call \in {"callback", "task"}
    /\ stack' = Pop
    /\ UNCHANGED <<data, running, loop, eomTasks, errorThrown, settled, page, passedOver>>

\* A callback that throws: report_ catches it.
CallbackThrows ==
    /\ PageThrows
    /\ stack # <<>> /\ Top.call = "callback"
    /\ stack' = Pop
    /\ errorThrown' = TRUE
    /\ UNCHANGED <<data, running, loop, eomTasks, settled, page, passedOver>>

\* A task that throws: nothing catches it before the caller of the checkpoint,
\* which is a callback or nobody.  runningMicrotaskCheckpoint stays set.
TaskThrows ==
    /\ PageThrows
    /\ stack # <<>> /\ Top.call = "task"
    /\ LET below == Front(Pop) IN
       IF below = <<>> THEN stack' = below /\ UNCHANGED errorThrown
       ELSE stack' = Front(below) /\ errorThrown' = TRUE
    /\ UNCHANGED <<data, running, loop, eomTasks, settled, page, passedOver>>

(***************************************************************************)
(* flush.js: every interval, when the page is visible, a flush at the end  *)
(* of the microtask.                                                       *)
(***************************************************************************)
Poll ==
    /\ stack = <<>> /\ polling
    /\ ~flushing
    /\ flushing' = TRUE
    /\ UNCHANGED <<data, engine, visible, polling, acts>>

AtEndOfMicrotask ==
    /\ stack = <<>> /\ flushing
    /\ flushing' = FALSE
    /\ Checkpoint
    /\ UNCHANGED <<store, state, observed, value, callback, eomTasks, errorThrown, settled,
                   visible, polling, acts, passedOver>>

\* Mutant: the interval is set when the page is hidden.
VisibilityChangeInverted ==
    /\ stack = <<>>
    /\ Act
    /\ visible' = ~visible
    /\ polling' = visible
    /\ UNCHANGED <<data, engine, flushing>>

VisibilityChange ==
    /\ stack = <<>>
    /\ Act
    /\ visible' = ~visible
    /\ polling' = ~visible
    /\ UNCHANGED <<data, engine, flushing>>

PageActs ==
    \/ \E p \in Paths, v \in Values : Write(p, v)
    \/ \E c \in Compounds, x \in Paths \cup PathObservers : Add(c, x)
    \/ \E o \in Observers : Open(o) \/ Close(o) \/ Deliver(o) \/ discardChanges(o)
    \/ \E c \in Compounds, x \in Paths : Reset(c, x)
    \/ RunEOM
    \/ PerformCheckpoint
    \/ VisibilityChange

EngineSteps ==
    FinishOpen \/ DirtyCheck \/ CheckNext \/ RunTask \/ EndCycle
    \/ Return \/ CallbackThrows \/ TaskThrows

ObserverNext == PageActs \/ EngineSteps \/ Poll \/ AtEndOfMicrotask

\* A JavaScript function runs on once it is called, the interval fires and a
\* microtask is run; the page need not do anything.
ObserverFairness ==
    WF_observerVars(EngineSteps) /\ WF_observerVars(Poll) /\ WF_observerVars(AtEndOfMicrotask)

ObserverSpec == ObserverInit /\ [][ObserverNext]_observerVars /\ ObserverFairness

----------------------------------------------------------------------------
(***************************************************************************)
(* Properties                                                              *)
(***************************************************************************)
\* The observers that a checkpoint has still to check or has kept.
Registered == Range(allObservers)
              \cup {loop.toCheck[i] : i \in loop.i .. Len(loop.toCheck)}

\* An open observer is on the list, in the middle of a checkpoint
\* too, and when a checkpoint has come to rest every open observer has seen the
\* data as it is (performMicrotaskCheckpoint's two lists, addToAll, close).  Only
\* an observer that a checkpoint met before its open had returned is lost.
NothingMissed ==
    \A o \in Observers \ passedOver :
        state[o] = "opened" => /\ o \in Registered
                               /\ settled => value[o] = Current(o)

\* A page that is visible gets its changes reported: an open observer that is
\* behind the data is brought up to date or closed (flush.js: data changes are
\* guaranteed to be processed).
ChangesGetProcessed ==
    \A o \in Observers :
        (state[o] = "opened" /\ value[o] # Current(o) /\ visible)
            ~> (state[o] # "opened" \/ value[o] = Current(o) \/ ~visible \/ o \in passedOver)

\* The same of a page whose callbacks, expressions and tasks throw, as long as
\* no task of runEOM has thrown out of a checkpoint: an exception of a callback
\* or of an expression stays with the observer it belongs to (report_, dirtyCheck).
ProcessedUnlessTaskThrows == [](~(running /\ stack = <<>>)) => ChangesGetProcessed
=============================================================================
