------------------------------- MODULE Gestures -------------------------------
(***************************************************************************)
(* The gesture dispatcher and its recognizers.  Down, move and up events   *)
(* of pointers are put in a queue, each with the recognizers wanted where  *)
(* its pointer went down; the next animation frame hands them to those,    *)
(* which fire track, hold, tap and pinch events at the page.  Positions    *)
(* are on a line, in pixels.                                               *)
(***************************************************************************)
EXTENDS Integers, Sequences, FiniteSets, SequencesExt

CONSTANTS Nodes,        \* nodes of the page, shadow roots included
          Doc,          \* the document
          UpFrom,       \* node -> parent, or host of a shadow root
          ShadowRoots,
          ElementAt,    \* root -> position -> its element there, NoNode if none
          Positions,
          PointerIds,   \* 1 is the mouse, others are touches
          NoNode, NoPointer,
          Preventable,  \* events whose listener calls preventTap
          Listened,     \* <<node, recognizer>> the page listens for, at first
          Changing,     \* bound: those of them that may come and go later
          MaxListens,   \* bound: changes of that
          MaxQueue      \* bound: events in the queue

Recognizers == {"track", "hold", "tap", "pinch"}
Order == <<"track", "hold", "tap", "pinch">>

ASSUME GesturesAssumption ==
    /\ Doc \in Nodes /\ ShadowRoots \subseteq Nodes \ {Doc} /\ NoNode \notin Nodes
    /\ UpFrom \in [Nodes -> Nodes \cup {NoNode}] /\ UpFrom[Doc] = NoNode
    /\ \A n \in Nodes \ {Doc} : UpFrom[n] \in Nodes
    /\ ElementAt \in [{Doc} \cup ShadowRoots -> [Positions -> Nodes \cup {NoNode}]]
    /\ Changing \subseteq Listened
    /\ Positions \subseteq Int /\ PointerIds \subseteq Nat /\ NoPointer \notin PointerIds
    /\ MaxQueue \in Nat \ {0} /\ MaxListens \in Nat

VARIABLES
    gs,          \* the dispatcher, the recognizers and what they fired, see GesturesInit
    wants,       \* node -> recognizer -> listeners, _pgEvents
    listens,
    pgListeners, \* node -> _pgListeners
    touchAction  \* node -> its attribute touch-action

gestureVars == <<gs, wants, listens, pgListeners, touchAction>>

NoHold == [id |-> NoPointer, pos |-> 0, held |-> FALSE]

GesturesInit ==
    /\ gs = [required  |-> [p \in PointerIds |-> {}],   \* requiredGestures
             queue     |-> <<>>,                        \* gestureQueue
             track     |-> [p \in {} |-> 0], hold |-> NoHold,
             tap       |-> [p \in {} |-> 0],
             pinch     |-> <<>>,                        \* pointers of pinch, in the order they came
             diameter  |-> 0,                           \* reference.diameter
             open      |-> {},      \* history: gestures begun and not ended
             prevented |-> {},      \* history: pointers whose tap was prevented
             wrong     |-> {}]      \* history: what was fired out of turn
    /\ wants = [n \in Nodes |-> [r \in Recognizers |-> IF <<n, r>> \in Listened THEN 1 ELSE 0]]
    /\ listens = 0
    /\ pgListeners = [n \in Nodes |-> Cardinality({r \in Recognizers : <<n, r>> \in Listened})]
    /\ touchAction = [n \in Nodes |-> IF \E r \in {"track", "pinch"} : <<n, r>> \in Listened THEN "none" ELSE "auto"]

With(f, k, x) == (k :> x) @@ f
Drop(f, k) == Restrict(f, DOMAIN f \ {k})
Distance(x, y) == IF x < y THEN y - x ELSE x - y

(***************************************************************************)
(* Finding nodes.                                                          *)
(***************************************************************************)
RECURSIVE pathFrom(_), searchRoot(_, _)

\* A node and all it is in, through shadow roots.
pathFrom(n) == IF n = NoNode THEN <<>> ELSE <<n>> \o pathFrom(UpFrom[n])

searchRoot(root, x) ==
    LET t == ElementAt[root][x]
    IN  IF t \in Nodes /\ \E r \in ShadowRoots : UpFrom[r] = t
        THEN LET inner == searchRoot(CHOOSE r \in ShadowRoots : UpFrom[r] = t, x)
             IN  IF inner = NoNode THEN t ELSE inner
        ELSE t

\* The search starts in the tree of the event's target.
owner(n) == IF n = NoNode THEN Doc ELSE SelectInSeq(pathFrom(n), LAMBDA m : m \in ShadowRoots \cup {Doc})
findTarget(n, x) ==
    LET root == IF n = NoNode THEN Doc ELSE pathFrom(n)[owner(n)]
    IN  searchRoot(IF ElementAt[root][x] = NoNode THEN Doc ELSE root, x)

depth(n) == Len(pathFrom(n))
walk(n, u) == IF u < depth(n) THEN pathFrom(n)[u + 1] ELSE NoNode

\* Browser: Node.contains stays in one tree.
contains(a, b) ==
    \E i \in 1..depth(b) : pathFrom(b)[i] = a /\ \A j \in 1..(i - 1) : pathFrom(b)[j] \notin ShadowRoots

\* Mutant: the deeper node is walked up one step too few.
LCAShort(a, b) ==
    LET d == depth(a) - depth(b)
        x == IF d > 0 THEN walk(a, d - 1) ELSE a
        y == IF d < 0 THEN walk(b, -d - 1) ELSE b
        k == CHOOSE k \in 0..depth(x) : walk(x, k) = walk(y, k) /\ \A i \in 0..(k - 1) : walk(x, i) # walk(y, i)
    IN  IF b = NoNode \/ a = b \/ contains(a, b) THEN a ELSE IF a = NoNode \/ contains(b, a) THEN b ELSE walk(x, k)
LCA(a, b) ==
    LET d == depth(a) - depth(b)
        x == IF d > 0 THEN walk(a, d) ELSE a
        y == IF d < 0 THEN walk(b, -d) ELSE b
        k == CHOOSE k \in 0..depth(x) : walk(x, k) = walk(y, k) /\ \A i \in 0..(k - 1) : walk(x, i) # walk(y, i)
    IN  IF b = NoNode \/ a = b \/ contains(a, b) THEN a ELSE IF a = NoNode \/ contains(b, a) THEN b ELSE walk(x, k)

findTouchAction(n) ==
    LET set == SelectSeq(pathFrom(n), LAMBDA m : touchAction[m] # "auto")
    IN  IF set = <<>> THEN "auto" ELSE touchAction[Head(set)]

(***************************************************************************)
(* What recognizers fire, and the tap it may prevent.                      *)
(***************************************************************************)
First(name) == name \in {"trackstart", "hold", "pinchstart"}
End(name) == name \in {"trackend", "release", "pinchend"}

\* Does the event come in its turn?
InTurn(s, name, kind, id) ==
    IF First(name) THEN <<kind, id>> \notin s.open ELSE <<kind, id>> \in s.open

fire(s, name, kind, id) ==
    LET preventing == name \in Preventable
    IN  [s EXCEPT !.open = IF First(name) THEN @ \cup {<<kind, id>>}
                           ELSE IF End(name) THEN @ \ {<<kind, id>>} ELSE @,
                  !.wrong = IF InTurn(s, name, kind, id) THEN @ ELSE @ \cup {name},
                  !.tap = IF preventing THEN Drop(@, id) ELSE @,
                  !.prevented = IF preventing THEN @ \cup {id} ELSE @]

(***************************************************************************)
(* track.js                                                                *)
(***************************************************************************)
trackDown(s, e) ==
    IF e.primary /\ (e.id = 1 => e.buttons = {1})
    THEN [s EXCEPT !.track = With(@, e.id, [pos |-> e.pos, tracking |-> FALSE])] ELSE s

trackMove(s, e) ==
    IF e.id \notin DOMAIN s.track THEN s
    ELSE LET starts == ~ s.track[e.id].tracking /\ Distance(e.pos, s.track[e.id].pos) > 2
             begun  == IF starts THEN fire([s EXCEPT !.track[e.id].tracking = TRUE], "trackstart", "track", e.id) ELSE s
         IN  IF begun.track[e.id].tracking THEN fire(begun, "track", "track", e.id) ELSE begun

trackUp(s, e) ==
    LET ended == IF e.id \in DOMAIN s.track /\ s.track[e.id].tracking
                 THEN fire(s, "trackend", "track", e.id) ELSE s
    IN  [ended EXCEPT !.track = Drop(@, e.id)]

(***************************************************************************)
(* hold.js                                                                 *)
(***************************************************************************)
pulse(s) ==
    [fire(s, IF s.hold.held THEN "holdpulse" ELSE "hold", "hold", s.hold.id) EXCEPT !.hold.held = TRUE]

holdCancel(s) ==
    [IF s.hold.held THEN fire(s, "release", "hold", s.hold.id) ELSE s EXCEPT !.hold = NoHold]

holdDown(s, e) ==
    IF e.primary /\ s.hold.id = NoPointer
    THEN [s EXCEPT !.hold = [id |-> e.id, pos |-> e.pos, held |-> FALSE]] ELSE s

holdMove(s, e) == IF s.hold.id = e.id /\ Distance(e.pos, s.hold.pos) > 4 THEN holdCancel(s) ELSE s
holdUp(s, e) == IF s.hold.id = e.id THEN holdCancel(s) ELSE s

(***************************************************************************)
(* tap.js                                                                  *)
(***************************************************************************)
tapDown(s, e) ==
    LET fresh == [s EXCEPT !.prevented = IF e.tapPrevented THEN @ \cup {e.id} ELSE @ \ {e.id}]
    IN  IF e.primary /\ ~ e.tapPrevented THEN [fresh EXCEPT !.tap = With(@, e.id, [target |-> e.target, buttons |-> e.buttons])] ELSE fresh

shouldTap(e, start) ==
    ~ e.tapPrevented /\ (e.id = 1 => e.buttons # {1} /\ 1 \in start.buttons)

\* The node a tap is fired at: the innermost that has both nodes in it.
IsLCA(n, a, b) ==
    /\ n \in ToSet(pathFrom(a))
    /\ b # NoNode => n \in ToSet(pathFrom(b))
    /\ \A m \in ToSet(pathFrom(a)) : (b # NoNode => m \in ToSet(pathFrom(b))) => depth(m) <= depth(n)

tapUp(s, e) ==
    IF e.id \notin DOMAIN s.tap THEN s
    ELSE [s EXCEPT !.tap = Drop(@, e.id),
             !.wrong = IF ~ shouldTap(e, s.tap[e.id]) THEN @
                       ELSE IF e.id \in s.prevented THEN @ \cup {"tap"}
                       ELSE IF ~ IsLCA(LCA(s.tap[e.id].target, e.related), s.tap[e.id].target, e.related)
                       THEN @ \cup {"target"} ELSE @]

(***************************************************************************)
(* pinch.js                                                                *)
(***************************************************************************)
Chord(s) ==
    Max({0} \cup {Distance(s.pinch[i].pos, s.pinch[j].pos) : i, j \in 1..Len(s.pinch)})
PinchOf(s, id) == SelectInSeq(s.pinch, LAMBDA p : p.id = id)

pinchDown(s, e) ==
    LET i   == PinchOf(s, e.id)
        now == [s EXCEPT !.pinch = IF i > 0 THEN [@ EXCEPT ![i].pos = e.pos] ELSE Append(@, [id |-> e.id, pos |-> e.pos])]
    IN  IF Len(now.pinch) # 2 THEN now
        ELSE fire([now EXCEPT !.diameter = Chord(now)], "pinchstart", "pinch", NoPointer)

pinchMove(s, e) ==
    LET i   == PinchOf(s, e.id)
        now == IF i > 0 THEN [s EXCEPT !.pinch[i].pos = e.pos] ELSE s
    IN  IF i = 0 \/ Len(now.pinch) < 2 \/ Chord(now) = s.diameter THEN now
        ELSE fire(now, "pinch", "pinch", NoPointer)

pinchUp(s, e) ==
    LET ended == IF Len(s.pinch) = 2 THEN fire(s, "pinchend", "pinch", NoPointer) ELSE s
    IN  IF PinchOf(s, e.id) = 0 THEN s
        ELSE [ended EXCEPT !.pinch = SelectSeq(@, LAMBDA p : p.id # e.id)]

(***************************************************************************)
(* dispatcher.js                                                           *)
(***************************************************************************)
recognize(s, e, r) ==
    CASE r = "track" /\ e.type = "down" -> trackDown(s, e) [] r = "track" /\ e.type = "move" -> trackMove(s, e)
      [] r = "track" /\ e.type = "up"   -> trackUp(s, e)
      [] r = "hold"  /\ e.type = "down" -> holdDown(s, e)  [] r = "hold"  /\ e.type = "move" -> holdMove(s, e)
      [] r = "hold"  /\ e.type = "up"   -> holdUp(s, e)
      [] r = "tap"   /\ e.type = "down" -> tapDown(s, e)   [] r = "tap"   /\ e.type = "up"   -> tapUp(s, e)
      [] r = "pinch" /\ e.type = "down" -> pinchDown(s, e) [] r = "pinch" /\ e.type = "move" -> pinchMove(s, e)
      [] r = "pinch" /\ e.type = "up"   -> pinchUp(s, e)
      [] OTHER -> s

gestureTrigger(s) ==
    [FoldLeft(LAMBDA now, e : FoldLeft(LAMBDA t, r : recognize(t, e, r), now,
                                       SelectSeq(Order, LAMBDA r : r \in e.required)),
              s, s.queue) EXCEPT !.queue = <<>>]

fillGestureQueue(s, e) ==
    [s EXCEPT !.queue = Append(@, [e EXCEPT !.required = s.required[e.id]])]

\* An event without a target is not dispatched.
fireEvent(s, e) == IF e.target = NoNode THEN s ELSE fillGestureQueue(s, e)

dispatchDown(s, e, wanted) ==
    fireEvent([s EXCEPT !.required[e.id] = wanted], [e EXCEPT !.type = "down", !.tapPrevented = "down" \in Preventable])
dispatchMove(s, e) == fillGestureQueue(s, [e EXCEPT !.type = "move"])
dispatchUp(s, e) == [fireEvent(s, [e EXCEPT !.type = "up"]) EXCEPT !.required[e.id] = {}]
dispatchCancel(s, e) == dispatchUp(s, [e EXCEPT !.tapPrevented = TRUE])

\* Every node on the way that has listeners adds what it wants.
addGestureDependency(n) ==
    {r \in Recognizers : \E m \in ToSet(pathFrom(n)) : (m = Doc \/ pgListeners[m] > 0) /\ wants[m][r] > 0}

(***************************************************************************)
(* Listeners, frames and timers.                                           *)
(***************************************************************************)
DefaultAction(r) == IF r \in {"track", "pinch"} THEN "none" ELSE "auto"

activateGesture(n, r) ==
    /\ <<n, r>> \in Changing /\ listens < MaxListens /\ listens' = listens + 1
    /\ wants' = [wants EXCEPT ![n][r] = @ + 1]
    /\ pgListeners' = [pgListeners EXCEPT ![n] = @ + 1]
    /\ touchAction' = [touchAction EXCEPT ![n] = IF n \notin {Doc} \cup ShadowRoots /\ @ = "auto" THEN DefaultAction(r) ELSE @]
    /\ UNCHANGED <<gs>>

deactivateGesture(n, r) ==
    /\ <<n, r>> \in Changing /\ wants[n][r] > 0 /\ listens < MaxListens /\ listens' = listens + 1
    /\ wants' = [wants EXCEPT ![n][r] = @ - 1]
    /\ pgListeners' = [pgListeners EXCEPT ![n] = @ - 1]
    /\ UNCHANGED <<gs, touchAction>>

Frame ==
    /\ gs.queue # <<>>
    /\ gs' = gestureTrigger(gs)
    /\ UNCHANGED <<wants, listens, pgListeners, touchAction>>

HoldTimer ==
    /\ gs.hold.id # NoPointer
    /\ gs' = pulse(gs)
    /\ UNCHANGED <<wants, listens, pgListeners, touchAction>>
===============================================================================
