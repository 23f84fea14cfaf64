--------------------------- MODULE AlertController ---------------------------
(***************************************************************************)
(* The alert area of the web client (DefaultAlertController): alerts that  *)
(* any number of callers display through handles, that a click dismisses,  *)
(* and that fade away unless the mouse is over them.                       *)
(*                                                                         *)
(* The client is single threaded JavaScript: every action is one event.    *)
(* What interleaves is the order of the events, the commands deferred to   *)
(* the next turn of the event loop, and the fade timers.                   *)
(***************************************************************************)
EXTENDS Filtering, FiniteSets, SequencesExt

CONSTANTS
  Alerts,       \* alerts made by an AlertBuilder; each may be displayed often
  Priority,     \* the priority of each alert
  Fading,       \* the alerts that fade
  Handles,      \* identities of AlertHandles, one per requestDisplay
  MaxViews,     \* bound: AlertViews ever made
  MaxTimers,    \* bound: fade timers outstanding at once
  MaxDeferred,  \* bound: commands deferred to the next turn
  Calm,         \* is every turn over before the next mouse event, and a fading
                \* alert requested only while it is not displayed?
  Null

\* The views are numbered in the order in which they are made.
Views == 1 .. MaxViews
TimerIds == 1 .. MaxTimers

ASSUME AlertsAssumption ==
  /\ Priority \in [Alerts -> Int]
  /\ Fading \subseteq Alerts
  /\ MaxViews \in Nat /\ MaxTimers \in Nat /\ MaxDeferred \in Nat
  /\ Calm \in BOOLEAN
  /\ Null \notin Int /\ Null \notin Alerts

VARIABLES
  displayedAlerts, \* alert -> the view that shows it, or Null
  displayRequests, \* view -> the handles that asked for it and did not cancel
  fadeWatchers,    \* view -> its tracked fade timer, or Null
  view,            \* the widgets of the alert area, from top to bottom
  alertOf,         \* view -> the alert it was made for, Null before it is made
  viewOf,          \* handle -> the view it was made for, Null before it is made
  fade,            \* views with the style of a fading alert
  deferred,        \* views whose fading waits for the next turn, in order
  timers,          \* outstanding fade timers, the earliest deadline first
  over             \* view under the mouse, or Null

vars == <<displayedAlerts, displayRequests, fadeWatchers, view, alertOf, viewOf,
          fade, deferred, timers, over>>

Init ==
  /\ displayedAlerts = [a \in Alerts |-> Null]
  /\ displayRequests = [v \in Views |-> {}]
  /\ fadeWatchers = [v \in Views |-> Null]
  /\ view = <<>>
  /\ alertOf = [v \in Views |-> Null]
  /\ viewOf = [h \in Handles |-> Null]
  /\ fade = {}
  /\ deferred = <<>>
  /\ timers = <<>>
  /\ over = Null

-----------------------------------------------------------------------------
(* Helpers *)

PriorityOf(v) == Priority[alertOf'[v]]

\* A new view goes above the first one whose priority is not higher.
AddViewToContainer(v) ==
  LET Below(u) == PriorityOf(u) <= PriorityOf(v)
      i == SelectInSeq(view, Below)
  IN  IF i = 0 THEN Append(view, v) ELSE InsertAt(view, i, v)

\* Cancelling a timer; Null stands for no timer.
Without(ts, id) == Filtered(ts, {t \in ToSet(ts) : t.id # id})

\* The alert of view v is no longer displayed, whichever view shows it. The
\* mouse is over nothing once the widget under it is gone.
CancelAlert(v, ts) ==
  /\ displayRequests' = [displayRequests EXCEPT ![v] = {}]
  /\ view' = RemoveFirst(view, v)
  /\ displayedAlerts' = [displayedAlerts EXCEPT ![alertOf[v]] = Null]
  /\ fadeWatchers' = [fadeWatchers EXCEPT ![v] = Null]
  /\ timers' = Without(ts, fadeWatchers[v])
  /\ over' = IF over = v THEN Null ELSE over

StopFading(v) ==
  /\ fadeWatchers' = [fadeWatchers EXCEPT ![v] = Null]
  /\ timers' = Without(timers, fadeWatchers[v])
  /\ fade' = fade \ {v}

\* Mutant: fading starts without a deferred command to see it through.
StartFadingNever(v, n) == StopFading(v) /\ UNCHANGED deferred

\* n calls of startFading in a row.
StartFading(v, n) ==
  /\ StopFading(v)
  /\ Len(deferred) + n <= MaxDeferred
  /\ deferred' = deferred \o [i \in 1 .. n |-> v]

\* Every requestDisplay of a fading alert adds a mouse handler to its view.
MouseHandlers(v) ==
  IF alertOf[v] \in Fading THEN Cardinality({h \in Handles : viewOf[h] = v}) ELSE 0

-----------------------------------------------------------------------------
(* Callers *)

\* requestDisplay: a handle for the displayed view, or for a new one.
RequestDisplay(a, h) ==
  /\ viewOf[h] = Null
  /\ (Calm /\ a \in Fading) => displayedAlerts[a] = Null
  /\ \E v \in Views :
     /\ \/ /\ displayedAlerts[a] = v
           /\ UNCHANGED <<view, displayedAlerts, alertOf>>
        \/ /\ displayedAlerts[a] = Null
           /\ v = Cardinality({u \in Views : alertOf[u] # Null}) + 1
           /\ alertOf' = [alertOf EXCEPT ![v] = a]
           /\ view' = AddViewToContainer(v)
           /\ displayedAlerts' = [displayedAlerts EXCEPT ![a] = v]
     /\ viewOf' = [viewOf EXCEPT ![h] = v]
     /\ displayRequests' = [displayRequests EXCEPT ![v] = @ \union {h}]
     /\ \/ a \in Fading /\ StartFading(v, 1)
        \/ /\ a \notin Fading
           /\ fade' = fade \ {v}
           /\ UNCHANGED <<fadeWatchers, timers, deferred>>
  /\ UNCHANGED over

\* Mutant: a handle that was cancelled already is not told apart.
RemovesLastAnyway(v, h) == displayRequests[v] \ {h} = {}

\* The handle is the last one that keeps the view.
RemovesLast(v, h) == displayRequests[v] = {h}

\* AlertHandle.cancel, and the callback delegateTo makes, which calls it. It may
\* be called again and long after the view has gone.
CancelHandle(h) ==
  LET v == viewOf[h] IN
  /\ v # Null
  /\ \/ /\ RemovesLast(v, h)
        /\ CancelAlert(v, timers)
     \/ /\ ~RemovesLast(v, h)
        /\ displayRequests' = [displayRequests EXCEPT ![v] = @ \ {h}]
        /\ UNCHANGED <<displayedAlerts, fadeWatchers, view, timers, over>>
  /\ UNCHANGED <<alertOf, viewOf, fade, deferred>>

-----------------------------------------------------------------------------
(* The browser: mouse events, deferred commands, timers *)

\* A click runs one handler per request; those after the first find nothing.
Click(v) ==
  /\ Contains(view, v)
  /\ CancelAlert(v, timers)
  /\ UNCHANGED <<alertOf, viewOf, fade, deferred>>

\* The browser reports mouse events only for widgets in the page.
MouseOver(v) ==
  /\ Contains(view, v) /\ MouseHandlers(v) > 0
  /\ over = Null
  /\ Calm => deferred = <<>>
  /\ over' = v
  /\ StopFading(v)
  /\ UNCHANGED <<displayedAlerts, displayRequests, view, alertOf, viewOf, deferred>>

\* Each handler starts the fading anew.
MouseOut(v) ==
  /\ over = v
  /\ Calm => deferred = <<>>
  /\ over' = Null
  /\ StartFading(v, MouseHandlers(v))
  /\ UNCHANGED <<displayedAlerts, displayRequests, view, alertOf, viewOf>>

\* Mutant: the view is not looked up again when its turn comes.
StillDisplayedUnchecked(v) == TRUE

\* The alert has not been cancelled since startFading.
StillDisplayed(v) == displayedAlerts[alertOf[v]] = v

\* The next turn runs all that is deferred: the style, a timer, and its handle
\* into fadeWatchers, over the one that may be there. Which timer a new one is
\* matters to nobody.
RunDeferred ==
  LET starting == Filtered(deferred, {v \in ToSet(deferred) : StillDisplayed(v)})
      free == Injection(DOMAIN starting, TimerIds \ {timers[i].id : i \in DOMAIN timers})
      id == CHOOSE f \in free : TRUE
  IN  /\ deferred # <<>>
      /\ free # {}
      /\ deferred' = <<>>
      /\ fade' = fade \union ToSet(starting)
      /\ timers' = timers \o [i \in DOMAIN starting |->
                                [id |-> id[i], view |-> starting[i]]]
      /\ fadeWatchers' = [v \in Views |->
                            LET i == SelectLastInSeq(starting, LAMBDA u : u = v)
                            IN  IF i = 0 THEN fadeWatchers[v] ELSE id[i]]
      /\ UNCHANGED <<displayedAlerts, displayRequests, view, alertOf, viewOf, over>>

\* All timers run for the same time: the oldest one goes off first. The view it
\* was made for is cancelled, and its alert, even if that has a new view.
FireTimer ==
  /\ timers # <<>>
  /\ CancelAlert(Head(timers).view, Tail(timers))
  /\ UNCHANGED <<alertOf, viewOf, fade, deferred>>

Next ==
  \/ \E h \in Handles : CancelHandle(h) \/ \E a \in Alerts : RequestDisplay(a, h)
  \/ \E v \in Views : Click(v) \/ MouseOver(v) \/ MouseOut(v)
  \/ RunDeferred
  \/ FireTimer

Spec == Init /\ [][Next]_vars

\* The browser runs what is deferred and fires its timers; it owes no mouse
\* event, and callers owe nothing.
FairSpec == Spec /\ WF_vars(RunDeferred) /\ WF_vars(FireTimer)

-----------------------------------------------------------------------------
(* Properties *)

\* Every variable holds a value of its type, no widget is on the page twice, and
\* every view in play was made for some alert.
TypeOK ==
  /\ displayedAlerts \in [Alerts -> Views \union {Null}]
  /\ displayRequests \in [Views -> SUBSET Handles]
  /\ fadeWatchers \in [Views -> TimerIds \union {Null}]
  /\ view \in Seq(Views)
  /\ alertOf \in [Views -> Alerts \union {Null}]
  /\ viewOf \in [Handles -> Views \union {Null}]
  /\ fade \subseteq Views
  /\ deferred \in Seq(Views)
  /\ timers \in Seq([id : TimerIds, view : Views])
  /\ over \in Views \union {Null}
  /\ \A i, j \in DOMAIN view : view[i] = view[j] => i = j
  /\ \A v \in ToSet(view) \union ToSet(deferred) : alertOf[v] # Null

\* The alert area is sorted by priority, the newest view on top of its equals
\* (addViewToContainer under any order of requests and dismissals).
SortedByPriority ==
  \A i, j \in DOMAIN view :
    i < j => \/ Priority[alertOf[view[i]]] > Priority[alertOf[view[j]]]
             \/ /\ Priority[alertOf[view[i]]] = Priority[alertOf[view[j]]]
                /\ view[i] > view[j]

\* A view is on the page exactly while some handle that asked for it has not
\* been cancelled; one that was dismissed leaves nothing in any of the maps.
ShownWhileRequested ==
  \A v \in Views :
    /\ Contains(view, v) <=> displayRequests[v] # {}
    /\ ~Contains(view, v) =>
         fadeWatchers[v] = Null /\ \A a \in Alerts : displayedAlerts[a] # v

\* The opacity transition and its timer go together: a view on the page looks
\* faded exactly while the timer in fadeWatchers is set, and that timer is
\* outstanding and made for it.
FadedWhileTimed ==
  \A v \in ToSet(view) :
    /\ v \in fade <=> fadeWatchers[v] # Null
    /\ fadeWatchers[v] # Null => Contains(timers, [id |-> fadeWatchers[v], view |-> v])

\* AlertHandle.cancel "has no effect if the alert has already been cancelled",
\* although its alert may be displayed again by another view; nor does it take
\* away what another caller asked for.
CancelIsLocal ==
  [][\A h \in Handles : CancelHandle(h) =>
       /\ h \notin displayRequests[viewOf[h]] => UNCHANGED vars
       /\ displayRequests[viewOf[h]] \ {h} # {} => UNCHANGED <<view, displayedAlerts>>]_vars

\* The alert area shows what was asked for: its views are there, sorted, and look
\* as the live handles say, after every order of requests, clicks, timers,
\* deferred commands and stale or repeated cancels.
ShownAsRequested ==
  []ShownWhileRequested /\ []SortedByPriority /\ []FadedWhileTimed /\ CancelIsLocal

\* Alert.requestDisplay: "If the alert is already being displayed, this request
\* merely creates another handle to the currently displayed alert."
OneViewPerAlert ==
  \A u, v \in ToSet(view) : alertOf[u] = alertOf[v] => u = v

\* A calm client has no timer that fadeWatchers has lost sight of: the timer of
\* a view that was dismissed, or that the mouse is over, never fires.
NoStrayTimer ==
  Calm => \A i \in DOMAIN timers :
            fadeWatchers[timers[i].view] = timers[i].id /\ over # timers[i].view

\* A fading alert goes away by itself unless the mouse comes over it.
FadingAlertsGo ==
  \A v \in Views :
    Contains(view, v) /\ alertOf[v] \in Fading /\ over # v
      ~> ~Contains(view, v) \/ over = v

\* A fading alert of a calm client goes by its own timer: it does go, and no
\* timer of another view, or of one under the mouse, takes it away.
FadingIsKept == []NoStrayTimer /\ FadingAlertsGo
=============================================================================
