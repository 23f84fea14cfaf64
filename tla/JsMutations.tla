----------------------------- MODULE JsMutations -----------------------------
(***************************************************************************)
(* The polyfill of mutation observers for browsers that have none: it      *)
(* learns of changes from mutation events.  The first listener that an     *)
(* event meets on its way down stops the event and enqueues the record for *)
(* every observer; dispatchCallbacks runs in a task of its own and calls   *)
(* the page.                                                               *)
(***************************************************************************)
EXTENDS Integers, Sequences, FiniteSets, SequencesExt

CONSTANTS NumJsObservers, \* observers; uid_ is 1, 2, ...
          TreeNodes,      \* nodes
          RootedAt,       \* the tree at the start: node -> its parent, or NoParent
          NoParent,
          ObserveOptions, \* options of pages: types, subtree, and whether the old value is wanted
          MaxEventCount,  \* bound: changes of the tree
          MaxObserveCalls, \* bound: calls of observe, disconnect and takeRecords
          PageCallbacksThrow

JsObservers == 1..NumJsObservers

ASSUME JsAssumption ==
    /\ NumJsObservers \in Nat /\ MaxEventCount \in Nat /\ MaxObserveCalls \in Nat
    /\ NoParent \notin TreeNodes /\ RootedAt \in [TreeNodes -> TreeNodes \cup {NoParent}]
    /\ PageCallbacksThrow \in BOOLEAN
    /\ \A options \in ObserveOptions : options.types # {} /\ (options.old => "attributes" \in options.types)

VARIABLES jm,      \* see JsInit
          promised \* history of what observers should hear

jsVars == <<jm, promised>>

JsInit ==
    /\ jm = [up            |-> RootedAt,
             registration  |-> <<>>,                            \* those made, in order
             registrations |-> [n \in TreeNodes |-> <<>>],      \* registrationsTable
             listeners     |-> [n \in TreeNodes |-> <<>>],      \* <<type of event, registration>>
             nodes_        |-> [o \in JsObservers |-> <<>>],
             records_      |-> [o \in JsObservers |-> <<>>],    \* <<number of the change, has the old value>>
             scheduledObservers |-> <<>>, isScheduled |-> FALSE,
             tasks         |-> 0,                               \* calls of setImmediate to come
             running       |-> FALSE, observers |-> <<>>, anyNonEmpty |-> FALSE, \* dispatchCallbacks
             calling       |-> 0,
             changes       |-> 0, calls |-> 0]
    /\ promised = [heard   |-> [o \in JsObservers |-> <<>>],    \* records the page was given
                   due     |-> [o \in JsObservers |-> <<>>],    \* changes of what it observes
                   extra   |-> [o \in JsObservers |-> {}],      \* changes of what has left that
                   watched |-> [o \in JsObservers |-> [n \in TreeNodes |-> {}]],
                   left    |-> [o \in JsObservers |-> {}],
                   muddled |-> {}, dropped |-> {}]

RECURSIVE Upward(_, _)
Upward(s, n) == IF n = NoParent THEN <<>> ELSE <<n>> \o Upward(s, s.up[n])
Within(s, n, m) == Contains(Upward(s, m), n)

(***************************************************************************)
(* Records.                                                                *)
(***************************************************************************)
scheduleJsCallback(s, o) ==
    [s EXCEPT !.scheduledObservers = Append(@, o), !.isScheduled = TRUE, !.tasks = IF s.isScheduled THEN @ ELSE @ + 1]

\* Mutant: a record of the same change is not recognised.
enqueueAlways(s, o, record) ==
    IF s.records_[o] = <<>> THEN [scheduleJsCallback(s, o) EXCEPT !.records_[o] = <<record>>]
    ELSE [s EXCEPT !.records_[o] = Append(@, record)]

\* enqueue and selectRecord: of two records of one change, that with the old value stays.
enqueue(s, o, record) ==
    IF s.records_[o] = <<>> THEN [scheduleJsCallback(s, o) EXCEPT !.records_[o] = <<record>>]
    ELSE IF Last(s.records_[o])[1] = record[1]
    THEN [s EXCEPT !.records_[o] = Append(Front(@), <<record[1], record[2] \/ Last(@)[2]>>)]
    ELSE [s EXCEPT !.records_[o] = Append(@, record)]

forEachAncestorAndObserverEnqueueRecord(s, target, type) ==
    FoldLeft(LAMBDA u, n :
        FoldLeft(LAMBDA v, r :
            LET g == v.registration[r]
            IN  IF (n = target \/ g.options.subtree) /\ type \in g.options.types
                THEN enqueue(v, g.observer, <<s.changes, type = "attributes" /\ g.options.old>>) ELSE v,
            u, u.registrations[n]),
        s, Upward(s, target))

(***************************************************************************)
(* Registrations and their listeners.                                      *)
(***************************************************************************)
Heard(options) ==
    (IF "attributes" \in options.types THEN {"DOMAttrModified"} ELSE {})
    \cup (IF "characterData" \in options.types THEN {"DOMCharacterDataModified"} ELSE {})
    \cup (IF "childList" \in options.types THEN {"DOMNodeInserted"} ELSE {})
    \cup (IF "childList" \in options.types \/ options.subtree THEN {"DOMNodeRemoved"} ELSE {})

addListeners_(s, r, n) ==
    LET new == Heard(s.registration[r].options) \ {l[1] : l \in {k \in ToSet(s.listeners[n]) : k[2] = r}}
    IN  [s EXCEPT !.listeners[n] = @ \o SetToSeq({<<type, r>> : type \in new})]

removeListeners_(s, r, n) ==
    [s EXCEPT !.listeners[n] = SelectSeq(@, LAMBDA l : l[2] # r \/ l[1] \notin Heard(s.registration[r].options))]

addTransientObserver(s, r, n) ==
    IF n = s.registration[r].target THEN s
    ELSE [addListeners_(s, r, n) EXCEPT !.registration[r].transientObservedNodes = Append(@, n),
                                        !.registrations[n] = Append(@, r)]

WithoutOne(rs, r) == LET k == SelectInSeq(rs, LAMBDA q : q = r) IN IF k = 0 THEN rs ELSE RemoveAt(rs, k)

removeJsTransientObservers(s, r) ==
    FoldLeft(LAMBDA u, n : [removeListeners_(u, r, n) EXCEPT !.registrations[n] = WithoutOne(@, r)],
             [s EXCEPT !.registration[r].transientObservedNodes = <<>>], s.registration[r].transientObservedNodes)

\* forEach over a list that loses elements on the way.
removeJsTransientObserversFor(s, o) ==
    FoldLeft(LAMBDA u, n :
        FoldLeft(LAMBDA w, turn :
            IF w.j > Len(w.s.registrations[n]) THEN w
            ELSE LET r == w.s.registrations[n][w.j]
                 IN  [j |-> w.j + 1, s |-> IF w.s.registration[r].observer = o THEN removeJsTransientObservers(w.s, r) ELSE w.s],
            [j |-> 1, s |-> u], u.registrations[n]).s,
        s, s.nodes_[o])

(***************************************************************************)
(* Mutation events.                                                        *)
(***************************************************************************)
\* The registrations that listen, in the order in which the event meets them.
Listening(s, n, event) ==
    FlattenSeq([k \in 1..Len(Upward(s, n)) |->
        LET at == Reverse(Upward(s, n))[k]
            ls == SelectSeq(s.listeners[at], LAMBDA l : l[1] = event)
        IN  [i \in 1..Len(ls) |-> ls[i][2]]])

\* The first of them stops the event.
handleEvent(s, n, event, target, type) ==
    IF Listening(s, n, event) = <<>> THEN s
    ELSE forEachAncestorAndObserverEnqueueRecord(
             IF event = "DOMNodeRemoved" THEN addTransientObserver(s, Head(Listening(s, n, event)), n) ELSE s, target, type)

PageMay == jm.running => jm.calling # 0

\* Those who observe the node, or what has left a node they observe.
Watching(o, target, type) ==
    UNION {{w \in promised.watched[o][n] : type \in w.types /\ (n = target \/ w.subtree)} :
              n \in {m \in TreeNodes : Within(jm, m, target)}}
MayWatch(o, target, type) ==
    \E x \in promised.left[o] : \E w \in promised.watched[o][x[1]] :
        type \in w.types /\ (x[2] = target \/ (w.subtree /\ Within(jm, x[2], target)))
Leaves(o, n) ==
    {<<t, n>> : t \in {m \in TreeNodes : promised.watched[o][m] # {} /\
                          (Within(jm, m, jm.up[n]) \/ \E x \in promised.left[o] : x[1] = m /\ Within(jm, x[2], jm.up[n]))}}

Event(n, event, target, type) ==
    /\ PageMay /\ jm.changes < MaxEventCount
    /\ LET s == [jm EXCEPT !.changes = @ + 1]
       IN  jm' = CASE event = "DOMNodeInserted" -> handleEvent([s EXCEPT !.up[n] = target], n, event, target, type)
                   [] event = "DOMNodeRemoved"  -> [handleEvent(s, n, event, target, type) EXCEPT !.up[n] = NoParent]
                   [] OTHER                     -> handleEvent(s, n, event, target, type)
    /\ promised' = [promised EXCEPT
          !.due   = [o \in JsObservers |-> IF Watching(o, target, type) = {} THEN @[o]
                        ELSE Append(@[o], <<jm.changes + 1, type = "attributes" /\ \E w \in Watching(o, target, type) : w.old>>)],
          !.extra = [o \in JsObservers |-> IF MayWatch(o, target, type) THEN @[o] \cup {jm.changes + 1} ELSE @[o]],
          !.left  = [o \in JsObservers |-> IF event = "DOMNodeRemoved" THEN @[o] \cup Leaves(o, n) ELSE @[o]]]

ChangeAttribute(n) == Event(n, "DOMAttrModified", n, "attributes")
ChangeData(n)      == Event(n, "DOMCharacterDataModified", n, "characterData")
InsertNode(p, n)   == jm.up[n] = NoParent /\ ~ Within(jm, n, p) /\ Event(n, "DOMNodeInserted", p, "childList")
RemoveNode(n)      == jm.up[n] # NoParent /\ Event(n, "DOMNodeRemoved", jm.up[n], "childList")

(***************************************************************************)
(* Calls of the page.                                                      *)
(***************************************************************************)
PageCalls == PageMay /\ jm.calls < MaxObserveCalls

Observe(o, n, options) ==
    LET mine == SelectSeq(jm.registrations[n], LAMBDA r : jm.registration[r].observer = o)
        r    == IF mine = <<>> THEN Len(jm.registration) + 1 ELSE Head(mine)
        s    == [jm EXCEPT !.calls = @ + 1]
        set  == IF mine = <<>>
                THEN [s EXCEPT !.registration = Append(@, [observer |-> o, target |-> n, options |-> options, transientObservedNodes |-> <<>>]),
                               !.registrations[n] = Append(@, r), !.nodes_[o] = Append(@, n)]
                ELSE [removeListeners_(s, r, s.registration[r].target) EXCEPT !.registration[r].options = options]
    IN  /\ PageCalls
        /\ jm' = addListeners_(set, r, set.registration[r].target)
        \* Transient registrations take the options meant for a new one, and keep their listeners.
        /\ promised' = [promised EXCEPT !.watched[o][n] = {options},
                                        !.muddled = IF promised.left[o] = {} THEN @ ELSE @ \cup {o}]

Disconnect(o) ==
    LET first(s, n) == SelectInSeq(s.registrations[n], LAMBDA r : s.registration[r].observer = o)
        drop(s, n)  == IF first(s, n) = 0 THEN s
                       ELSE LET r == s.registrations[n][first(s, n)]
                            IN  [removeListeners_(s, r, s.registration[r].target) EXCEPT !.registrations[n] = RemoveAt(@, first(s, n))]
    IN  /\ PageCalls
        /\ jm' = FoldLeft(drop, [jm EXCEPT !.records_[o] = <<>>, !.calls = @ + 1], jm.nodes_[o])
        \* A transient registration is not removed.
        /\ promised' = [promised EXCEPT !.watched[o] = [n \in TreeNodes |-> {}], !.heard[o] = <<>>, !.due[o] = <<>>,
                                        !.muddled = IF promised.left[o] = {} THEN @ ELSE @ \cup {o}]

TakeRecords(o) ==
    /\ PageCalls
    /\ jm' = [jm EXCEPT !.records_[o] = <<>>, !.calls = @ + 1]
    /\ promised' = [promised EXCEPT !.heard[o] = @ \o jm.records_[o]]

(***************************************************************************)
(* dispatchCallbacks                                                       *)
(***************************************************************************)
Started(s) == [s EXCEPT !.isScheduled = FALSE, !.running = TRUE, !.anyNonEmpty = FALSE, !.scheduledObservers = <<>>,
                        !.observers = SortSeq(s.scheduledObservers, LAMBDA o, p : o < p)]

StartDispatch ==
    /\ ~ jm.running /\ jm.tasks > 0
    /\ jm' = [Started(jm) EXCEPT !.tasks = @ - 1]
    /\ UNCHANGED promised

DispatchNext ==
    /\ jm.running /\ jm.calling = 0 /\ jm.observers # <<>>
    /\ LET o     == Head(jm.observers)
           queue == jm.records_[o]
       IN  /\ jm' = [removeJsTransientObserversFor([jm EXCEPT !.observers = Tail(@), !.records_[o] = <<>>], o) EXCEPT
                        !.calling = IF queue = <<>> THEN 0 ELSE o]
           /\ promised' = [promised EXCEPT !.heard[o] = @ \o queue, !.left[o] = {}]

JsCallbackReturns ==
    /\ jm.calling # 0
    /\ jm' = [jm EXCEPT !.calling = 0, !.anyNonEmpty = TRUE]
    /\ UNCHANGED promised

\* The observers behind it are not scheduled again: they have records.
JsCallbackThrows ==
    /\ PageCallbacksThrow /\ jm.calling # 0
    /\ jm' = [jm EXCEPT !.calling = 0, !.running = FALSE, !.observers = <<>>]
    /\ promised' = [promised EXCEPT !.dropped = @ \cup ToSet(jm.observers)]

EndDispatch ==
    /\ jm.running /\ jm.calling = 0 /\ jm.observers = <<>>
    /\ jm' = IF jm.anyNonEmpty THEN Started(jm) ELSE [jm EXCEPT !.running = FALSE]
    /\ UNCHANGED promised

JsNext ==
    \/ \E o \in JsObservers : \/ \E n \in TreeNodes, options \in ObserveOptions : Observe(o, n, options)
                              \/ Disconnect(o) \/ TakeRecords(o)
    \/ \E n \in TreeNodes : \/ ChangeAttribute(n) \/ ChangeData(n) \/ RemoveNode(n)
                            \/ \E p \in TreeNodes : InsertNode(p, n)
    \/ StartDispatch \/ DispatchNext \/ JsCallbackReturns \/ JsCallbackThrows \/ EndDispatch

JsSpec == JsInit /\ [][JsNext]_jsVars

(***************************************************************************)
(* Properties.                                                             *)
(***************************************************************************)
\* Though one listener answers for all, each observer is told of every change of
\* what it observes, once and in order, with the old value if it asked for that;
\* beyond these it is only told of changes of what has left a node it observes
\* (handleEvent, enqueue).  Whoever has a record will be called, whatever is
\* observed and disconnected on the way, unless a callback threw.
RecordsReach ==
    /\ \A o \in JsObservers \ promised.muddled :
          LET told == promised.heard[o] \o jm.records_[o]
              own  == SelectSeq(told, LAMBDA t : \E d \in ToSet(promised.due[o]) : d[1] = t[1])
          IN  /\ \A i \in 1..Len(told) - 1 : told[i][1] < told[i + 1][1]
              /\ Len(own) = Len(promised.due[o])
              /\ \A i \in 1..Len(own) : own[i][1] = promised.due[o][i][1] /\ (promised.due[o][i][2] => own[i][2])
              /\ \A t \in ToSet(told) \ ToSet(own) : t[1] \in promised.extra[o]
    /\ \A o \in JsObservers \ promised.dropped :
          jm.records_[o] # <<>> => o \in ToSet(jm.scheduledObservers) \cup ToSet(jm.observers)
    /\ jm.scheduledObservers # <<>> => jm.tasks > 0
===============================================================================
