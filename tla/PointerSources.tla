---------------------------- MODULE PointerSources ----------------------------
(***************************************************************************)
(* The mouse and the fingers that feed the gesture dispatcher.  Mouse      *)
(* events the browser makes up after a touch are swallowed, a finger that  *)
(* scrolls the page is cancelled, and a pointer keeps the target it went   *)
(* down on until it goes up.                                               *)
(***************************************************************************)
EXTENDS Gestures

CONSTANTS Fingers,   \* pointer ids of touches: their identifiers plus 2
          NoFinger, NoPosition,
          MaxEvents  \* bound: events of the user

ASSUME PointerSourcesAssumption ==
    /\ Fingers = PointerIds \ {1} /\ NoFinger \notin Fingers
    /\ NoPosition \notin Positions /\ MaxEvents \in Nat

VARIABLES ps, events

pointerVars == <<gestureVars, ps, events>>

PointersInit ==
    /\ GesturesInit
    /\ ps = [pmap        |-> [p \in {} |-> Doc],   \* pointermap: id -> target
             buttons     |-> {},                   \* of the mouse, 1 is the left one
             fingers     |-> [f \in {} |-> 0],     \* down: position, and target of their events
             firstTouch  |-> NoFinger, firstXY |-> NoPosition,
             scrolling   |-> "null",
             lastTouches |-> {},
             lost        |-> {},      \* history: fingers gone without an event since a touchstart
             unheard     |-> "no"]    \* history: "mouse", the end of a press was not heard; "lost", it was
                                       \* not before the next one, or a touch's, or a second button came
    /\ events = 0

Event(type, id, x, target, buttons) ==
    [type |-> type, id |-> id, pos |-> x, target |-> target, buttons |-> buttons, related |-> NoNode,
     primary |-> id = 1 \/ ps.firstTouch = id, tapPrevented |-> FALSE, required |-> {}]

\* One event of the user.
UserActs(s, p) ==
    /\ events < MaxEvents /\ Len(s.queue) <= MaxQueue
    /\ events' = events + 1
    /\ gs' = s /\ ps' = p
    /\ UNCHANGED <<wants, listens, pgListeners, touchAction>>

(***************************************************************************)
(* The mouse.                                                              *)
(***************************************************************************)
isEventSimulatedFromTouch(x) == \E y \in ps.lastTouches : Distance(x, y) <= 25

cleanupMouse(p) == IF p.buttons = {} THEN [p EXCEPT !.pmap = Drop(@, 1)] ELSE p

mousedown(x, b) ==
    LET t    == findTarget(NoNode, x)
        held == ps.buttons \cup {b}
        now  == [ps EXCEPT !.buttons = held, !.unheard = IF @ # "no" \/ ps.buttons # {} THEN "lost" ELSE @]
    IN  /\ b \notin ps.buttons /\ 1 \notin DOMAIN ps.fingers
        /\ IF isEventSimulatedFromTouch(x) THEN UserActs(gs, now)
           ELSE UserActs(dispatchDown(gs, Event("", 1, x, t, held), addGestureDependency(t)),
                         [now EXCEPT !.pmap = With(@, 1, t)])

\* Without a button an up event was missed, so the pointer is cancelled.
mousemove(x) ==
    IF isEventSimulatedFromTouch(x) \/ 1 \notin DOMAIN ps.pmap THEN UserActs(gs, ps)
    ELSE LET e == Event("", 1, x, ps.pmap[1], ps.buttons)
         IN  IF ps.buttons = {} THEN UserActs(dispatchCancel(gs, e), [cleanupMouse(ps) EXCEPT !.unheard = IF @ = "mouse" THEN "no" ELSE @])
             ELSE UserActs(dispatchMove(gs, e), ps)

\* The browser gives a mouseup to the page only when it has its mouse.
mouseup(x, b, inside) ==
    LET now == [ps EXCEPT !.buttons = @ \ {b}]
        t   == IF 1 \in DOMAIN ps.pmap THEN ps.pmap[1] ELSE NoNode
        e   == [Event("", 1, x, t, now.buttons) EXCEPT !.related = findTarget(NoNode, x)]
    IN  /\ b \in ps.buttons
        /\ IF ~ inside \/ isEventSimulatedFromTouch(x) THEN UserActs(gs, [now EXCEPT !.unheard = IF @ = "no" THEN "mouse" ELSE @])
           ELSE UserActs(dispatchUp(gs, e), cleanupMouse(now))

(***************************************************************************)
(* Touches.                                                                *)
(***************************************************************************)
\* Touches are listened to only where gestures are.
heard(t) == \E n \in ToSet(pathFrom(t)) : pgListeners[n] > 0

\* What is cancelled is the target of a pointer, not the pointer; a node has
\* neither a target nor an id, so nothing happens.
vacuumTouches(p, touches) ==
    LET abandoned == IF Cardinality(DOMAIN p.pmap) >= Cardinality(touches)
                     THEN DOMAIN p.pmap \ ({1} \cup touches) ELSE {}
        pointerId(node) == NoPointer
    IN  [p EXCEPT !.pmap = Restrict(@, DOMAIN @ \ {pointerId(p.pmap[f]) : f \in abandoned})]

setPrimaryTouch(p, f, x) ==
    IF DOMAIN p.pmap \subseteq {1}
    THEN [p EXCEPT !.firstTouch = f, !.firstXY = x, !.scrolling = "null"] ELSE p

dedupSynthMouse(p, f, x) == IF p.firstTouch = f THEN [p EXCEPT !.lastTouches = @ \cup {x}] ELSE p

cleanUpPointer(p, f) ==
    [p EXCEPT !.pmap = Drop(@, f),
              !.firstTouch = IF @ = f THEN NoFinger ELSE @,
              !.firstXY = IF p.firstTouch = f THEN NoPosition ELSE @]

shouldScroll(p, t) == p.firstXY # NoPosition /\ findTouchAction(t) # "none"

touchstart(f, x) ==
    LET t      == findTarget(NoNode, x)
        down   == [ps EXCEPT !.fingers = With(@, f, [pos |-> x, target |-> t])]
        now    == dedupSynthMouse(setPrimaryTouch(vacuumTouches(
                      [down EXCEPT !.lost = {}],
                      DOMAIN ps.fingers \cup {f}), f, x), f, x)
        e      == [Event("", f, x, t, {1}) EXCEPT !.primary = now.firstTouch = f]
    IN  /\ f \notin DOMAIN ps.fingers
        /\ IF ~ heard(t) THEN UserActs(gs, down)
           ELSE IF now.scrolling = "yes" THEN UserActs(gs, now)
           ELSE UserActs(dispatchDown(gs, e, addGestureDependency(t)), [now EXCEPT !.pmap = With(@, f, t)])

TargetOf(f) == IF f \in DOMAIN ps.pmap THEN ps.pmap[f] ELSE NoNode

\* processTouches for the end of a touch.
touchesEnd(p, f, s) == UserActs(IF f \in DOMAIN p.pmap THEN s ELSE gs, cleanUpPointer(p, f))

touchmove(f, x) ==
    LET t   == ps.fingers[f].target
        e   == Event("", f, x, TargetOf(f), {1})
        now == [ps EXCEPT !.fingers[f].pos = x]
    IN  /\ f \in DOMAIN ps.fingers
        /\ IF ~ heard(t) THEN UserActs(gs, now)
           ELSE IF ps.scrolling = "null" /\ shouldScroll(ps, t) THEN UserActs(gs, [now EXCEPT !.scrolling = "yes"])
           ELSE IF ps.scrolling # "yes"
           THEN UserActs(IF TargetOf(f) # NoNode THEN dispatchMove(gs, e) ELSE gs, [now EXCEPT !.scrolling = "no"])
           ELSE IF ps.firstXY # NoPosition /\ Distance(x, ps.firstXY) >= 20
           THEN touchesEnd([now EXCEPT !.firstXY = NoPosition], f, dispatchCancel(gs, e))
           ELSE UserActs(gs, now)

touchend(f) ==
    LET t   == TargetOf(f)
        x   == ps.fingers[f].pos
        e   == [Event("", f, x, t, {}) EXCEPT !.related = findTarget(t, x)]
        now == [ps EXCEPT !.fingers = Drop(@, f)]
    IN  /\ f \in DOMAIN ps.fingers
        /\ IF ~ heard(ps.fingers[f].target) THEN UserActs(gs, [now EXCEPT !.unheard = "lost", !.lost = @ \cup {f}])
           ELSE touchesEnd(dedupSynthMouse(now, f, x), f, dispatchUp(gs, e))

touchcancel(f) ==
    LET now == [ps EXCEPT !.fingers = Drop(@, f)]
    IN  /\ f \in DOMAIN ps.fingers /\ heard(ps.fingers[f].target)
        /\ touchesEnd(now, f, dispatchCancel(gs, Event("", f, ps.fingers[f].pos, TargetOf(f), {})))

\* A finger is gone and the browser said nothing.
FingerLost(f) ==
    /\ f \in DOMAIN ps.fingers
    /\ UserActs(gs, [ps EXCEPT !.fingers = Drop(@, f), !.lost = @ \cup {f}, !.unheard = "lost"])

LastTouchExpires(x) ==
    /\ x \in ps.lastTouches
    /\ ps' = [ps EXCEPT !.lastTouches = @ \ {x}]
    /\ UNCHANGED <<gestureVars, events>>

PointersNext ==
    \/ (Frame \/ HoldTimer) /\ UNCHANGED <<ps, events>>
    \/ \E n \in Nodes, r \in Recognizers : (activateGesture(n, r) \/ deactivateGesture(n, r)) /\ UNCHANGED <<ps, events>>
    \/ \E x \in Positions : mousemove(x) \/ LastTouchExpires(x)
    \/ \E x \in Positions, b \in {1, 2} : mousedown(x, b) \/ \E inside \in BOOLEAN : mouseup(x, b, inside)
    \/ \E f \in Fingers : touchend(f) \/ touchcancel(f) \/ FingerLost(f)
    \/ \E f \in Fingers, x \in Positions : touchstart(f, x) \/ touchmove(f, x)

PointersSpec == PointersInit /\ [][PointersNext]_pointerVars

(***************************************************************************)
(* Properties.                                                             *)
(***************************************************************************)
\* Whatever happens between a down and an up, gestures come in their order and
\* are ended: a track, hold or pinch begins once and ends once, a tap comes only
\* if nobody prevented it and at the innermost node both its ends are in, and when
\* no button and no finger is down and the queue is drained, nothing is left of
\* any of them: no gesture open, no timer, no pointer.  Excluded is what the
\* recognizers cannot know, an end that was not heard and a second mouse button.
GesturesBalanced ==
    ps.unheard = "no" =>
        /\ gs.wrong = {}
        /\ ps.buttons = {} /\ ps.fingers = [f \in {} |-> 0] /\ gs.queue = <<>> =>
               /\ gs.open = {} /\ gs.hold = NoHold /\ gs.pinch = <<>>
               /\ DOMAIN gs.track = {} /\ DOMAIN gs.tap = {} /\ DOMAIN ps.pmap = {}
               /\ \A p \in PointerIds : gs.required[p] = {}

\* "on every touchstart, we remove the touches that did not fire a touchend
\* event" (touch.js 205-210).
AbandonedTouchesGone == DOMAIN ps.pmap \subseteq {1} \cup DOMAIN ps.fingers \cup ps.lost
===============================================================================
