---------------------------- MODULE ShadowEvents ----------------------------
(***************************************************************************)
(* Events in the ShadowDOM polyfill.  The page's listeners are kept in     *)
(* tables of its own; the browser is asked to call dispatchOriginalEvent   *)
(* for a target that has any, and the polyfill then walks the event path   *)
(* through the shadow trees itself.  Listeners run in the middle of that:  *)
(* they add and remove listeners, stop the event, throw, and dispatch      *)
(* other events.                                                           *)
(***************************************************************************)
EXTENDS Integers, Sequences, FiniteSets, SequencesExt

CONSTANTS EvNodes,     \* the targets: nodes of the document and of shadow trees
          Win,         \* the window
          EvDocument,  \* the document
          EvParent,    \* node -> its parent in its own tree, or NoNode
          RootHost,    \* shadow root -> its host
          ScopeOf,     \* node -> the root of its tree
          Points,      \* node -> the insertion points it is distributed to
          OlderTree,   \* shadow insertion point -> the older shadow root it shows, or NoNode
          VisualParent,\* node -> its parent in the browser's tree, or NoNode
          NoNode,
          Types,       \* types of events
          Bubbling, AlwaysStopped, LoadLike,   \* subsets of Types
          EvTargets,   \* where the page listens
          EvSources,   \* where events arise
          EvRelated,   \* their related targets, with NoNode for none
          MaxListeners, MaxRemovals, MaxDispatches   \* bounds on the page

ASSUME EventAssumption ==
    /\ Win \notin EvNodes /\ NoNode \notin EvNodes \cup {Win} /\ EvDocument \in EvNodes
    /\ EvParent \in [EvNodes -> EvNodes \cup {NoNode}]
    /\ ScopeOf \in [EvNodes -> EvNodes] /\ Points \in [EvNodes -> Seq(EvNodes)]
    /\ Bubbling \cup AlwaysStopped \cup LoadLike \subseteq Types
    /\ EvTargets \subseteq EvNodes \cup {Win} /\ EvSources \subseteq EvNodes
    /\ EvRelated \subseteq EvNodes \cup {NoNode}
    /\ MaxListeners \in Nat /\ MaxRemovals \in Nat /\ MaxDispatches \in Nat

VARIABLES
    listeners,   \* target -> its listeners, in the order they were added
    depth,       \* target -> how many invocations of its listeners are under way
    hearing,     \* <<target, type>> the browser calls dispatchOriginalEvent for
    dispatches,  \* the dispatches under way, the innermost first
    added, removals, dispatched,   \* how much of the bounds was used
    pendingError,\* the first error of a listener, not yet thrown
    finished,    \* history: the dispatch that just came to its end, or <<>>
    mislaid      \* history: what the browser was told to give up while a listener stayed

eventVars == <<listeners, depth, hearing, dispatches, added, removals, dispatched, pendingError,
               finished, mislaid>>
bounds == <<added, removals, dispatched>>

EventInit ==
    /\ listeners = [n \in EvNodes \cup {Win} |-> <<>>]
    /\ depth = [n \in EvNodes \cup {Win} |-> 0]
    /\ hearing = {}
    /\ dispatches = <<>>
    /\ added = 0 /\ removals = 0 /\ dispatched = 0
    /\ pendingError = FALSE
    /\ finished = <<>>
    /\ mislaid = {}

(***************************************************************************)
(* The path of an event, and what each target on it is shown.              *)
(***************************************************************************)
IsShadowRoot(n) == n \in DOMAIN RootHost

eventMustBeStopped(type) == type \in AlwaysStopped

\* What follows current on the path of an event that arises at node.
passedPoints(current) ==
    FlattenSeq([i \in DOMAIN Points[current] |->
        LET point == Points[current][i] IN
        IF point \in DOMAIN OlderTree /\ OlderTree[point] # NoNode
        THEN <<OlderTree[point], point>> ELSE <<point>>])

getEventPath(node, type) ==
    LET step(st) ==
          IF st.current = NoNode THEN st
          ELSE IF Points[st.current] # <<>>
          THEN [path |-> st.path \o passedPoints(st.current), current |-> Last(Points[st.current])]
          ELSE IF IsShadowRoot(st.current)
          THEN IF ScopeOf[node] = ScopeOf[st.current] /\ eventMustBeStopped(type)
               THEN [st EXCEPT !.current = NoNode]
               ELSE [path |-> Append(st.path, RootHost[st.current]),
                     current |-> RootHost[st.current]]
          ELSE LET p == EvParent[st.current]
               IN  [path |-> IF p = NoNode THEN st.path ELSE Append(st.path, p), current |-> p]
    IN  FoldLeft(LAMBDA st, k : step(st), [path |-> <<node>>, current |-> node],
                 [k \in 1 .. 2 * Cardinality(EvNodes) |-> k]).path

\* A tree and the trees it is nested in, from the outermost in.
RECURSIVE getTreeScopeAncestors(_)
getTreeScopeAncestors(root) ==
    IF IsShadowRoot(root) THEN Append(getTreeScopeAncestors(ScopeOf[RootHost[root]]), root)
    ELSE <<root>>

lowestCommonInclusiveAncestor(a, b) ==
    LET sa == getTreeScopeAncestors(a)
        sb == getTreeScopeAncestors(b)
        common == {i \in DOMAIN sa \cap DOMAIN sb : \A k \in 1 .. i : sa[k] = sb[k]}
    IN  IF common = {} THEN NoNode ELSE sa[CHOOSE i \in common : \A k \in common : k <= i]

TreeOf(target) == ScopeOf[IF target = Win THEN EvDocument ELSE target]

\* The first node of the path in the innermost tree that both are in.
eventRetargetting(path, currentTarget) ==
    LET tree == lowestCommonInclusiveAncestor(TreeOf(currentTarget), ScopeOf[path[1]])
        i == SelectInSeq(path, LAMBDA n : ScopeOf[n] = tree)
    IN  IF path = <<>> THEN currentTarget ELSE IF i = 0 THEN Last(path) ELSE path[i]

relatedTargetResolution(type, currentTarget, related) ==
    LET path == getEventPath(related, type)
        tree == lowestCommonInclusiveAncestor(TreeOf(currentTarget), ScopeOf[related])
        outwards == IF tree = NoNode THEN <<>> ELSE Reverse(getTreeScopeAncestors(tree))
        found == FlattenSeq([k \in DOMAIN outwards |->
                                SelectSeq(path, LAMBDA n : ScopeOf[n] = outwards[k])])
    IN  IF found = <<>> THEN NoNode ELSE found[1]

\* The stops at which the related target is seen as the target itself.
SeenAsRelated ==
    {<<type, node, n, related>> \in
        Types \X EvSources \X (EvNodes \cup {Win}) \X (EvRelated \ {NoNode}) :
            relatedTargetResolution(type, n, related)
                = eventRetargetting(getEventPath(node, type), n)}

(***************************************************************************)
(* Listeners.  A listener is [id, type, handler, capture, removed]; the    *)
(* handler is its id, for no two listeners of the page are the same        *)
(* function but where addEventListener is called again with one of them.   *)
(***************************************************************************)
PageMayAct == dispatches # <<>> => Head(dispatches).running # NoNode

\* A shadow root has no place in the browser's tree: its host listens for it.
getTargetToListenAt(n) == IF IsShadowRoot(n) THEN RootHost[n] ELSE n

Live(n) == SelectSeq(listeners[n], LAMBDA l : ~l.removed)

addEventListener(n, type, capture) ==
    /\ PageMayAct
    /\ added < MaxListeners
    /\ added' = added + 1
    /\ listeners' = [listeners EXCEPT ![n] =
          Append(@, [id |-> added + 1, type |-> type, capture |-> capture, removed |-> FALSE])]
    /\ hearing' = hearing \cup {<<getTargetToListenAt(n), type>>}
    /\ mislaid' = mislaid \ {<<getTargetToListenAt(n), type>>}
    /\ finished' = <<>>
    /\ UNCHANGED <<depth, dispatches, removals, dispatched, pendingError>>

\* A removed listener stays in the list until no invocation is under way; the
\* browser's call is given up with the last one that is counted: those of the
\* other phase, and those of the shadow root beside its host, are not.
Without(n, l, table) == [table EXCEPT ![n] = [i \in DOMAIN @ |->
    IF @[i].id = l.id THEN [@[i] EXCEPT !.removed = TRUE] ELSE @[i]]]

\* Mutant: the call is given up whatever is left.
countedNot(n, l, table) == TRUE

countedLast(n, l, table) ==
    Len(SelectSeq(table[n], LAMBDA m : m.type = l.type /\ m.capture = l.capture)) = 1

HearingWithout(n, l) ==
    IF countedLast(n, l, listeners) THEN hearing \ {<<getTargetToListenAt(n), l.type>>} ELSE hearing

\* A listener that is not counted with l, and would lose the call with it.
Uncounted(n, l) ==
    \E m \in EvNodes \cup {Win} :
        /\ getTargetToListenAt(m) = getTargetToListenAt(n)
        /\ \E k \in ToSet(Live(m)) : k.type = l.type /\ (m # n \/ k.capture # l.capture)

MislaidWithout(n, l) ==
    IF Uncounted(n, l) /\ HearingWithout(n, l) # hearing
    THEN mislaid \cup {<<getTargetToListenAt(n), l.type>>} ELSE mislaid

removeEventListener(n, i) ==
    LET l == listeners[n][i]
    IN  /\ PageMayAct
        /\ i \in DOMAIN listeners[n] /\ ~l.removed /\ l.id > 0
        /\ removals < MaxRemovals
        /\ removals' = removals + 1
        /\ listeners' = Without(n, l, listeners)
        /\ hearing' = HearingWithout(n, l)
        /\ mislaid' = MislaidWithout(n, l)
        /\ finished' = <<>>
        /\ UNCHANGED <<depth, dispatches, added, dispatched, pendingError>>

(***************************************************************************)
(* Dispatch.                                                               *)
(***************************************************************************)
RECURSIVE VisualUp(_)
VisualUp(n) == IF n = NoNode THEN <<>> ELSE <<n>> \o VisualUp(VisualParent[n])

\* The browser goes down its own tree to the node, and calls the polyfill at the
\* first target that it is to call it for.
CalledBack(node, type) ==
    \/ \E n \in ToSet(VisualUp(node)) : <<n, type>> \in hearing
    \/ <<Win, type>> \in hearing /\ type \notin LoadLike

hasListenerInAncestors(node, type) ==
    \E n \in ToSet(VisualUp(node)) : \E i \in DOMAIN Live(n) : Live(n)[i].type = type

\* Every stop on the way: the window and the path down, the target, and up again.
itinerary(path, win, type) ==
    LET down == Reverse(Tail(path))
        at(ns, phase) == [i \in DOMAIN ns |-> [node |-> ns[i], phase |-> phase]]
    IN  at((IF win THEN <<Win>> ELSE <<>>) \o down, "capturing")
          \o at(<<path[1]>>, "target")
          \o at(Tail(path) \o (IF win THEN <<Win>> ELSE <<>>), "bubbling")

newDispatch(node, type, related, temporary, byPage) ==
    LET path == getEventPath(node, type)
        win  == type \notin LoadLike /\ Last(path) = EvDocument
    IN  [type |-> type, related |-> related, path |-> path, todo |-> itinerary(path, win, type),
         node |-> NoNode, phase |-> "none", index |-> 0, length |-> 0, anyRemoved |-> FALSE,
         running |-> NoNode, stopped |-> FALSE, stoppedNow |-> FALSE,
         temporary |-> temporary, byPage |-> byPage, heard |-> TRUE,
         before |-> UNION {{[node |-> n, listener |-> Live(n)[i]] : i \in DOMAIN Live(n)} :
                               n \in EvNodes \cup {Win}},
         called |-> <<>>]

\* The browser takes the event to its end without the polyfill.
Unheard(d) == /\ UNCHANGED dispatches
              /\ finished' = <<[d EXCEPT !.heard = FALSE]>>
WayToListeners(d) == /\ dispatches' = <<d>> \o dispatches
            /\ finished' = <<>>

\* dispatchEvent of the page: if nobody in the browser's tree listens, the target
\* does for the time of the dispatch.
dispatchEvent(node, type, related) ==
    LET quiet == ~hasListenerInAncestors(node, type)
        temporary == [id |-> -1 - dispatched, type |-> type, capture |-> TRUE, removed |-> FALSE]
        d == newDispatch(node, type, related, IF quiet THEN {temporary} ELSE {}, TRUE)
        key == <<getTargetToListenAt(node), type>>
    IN  /\ PageMayAct
        /\ dispatched < MaxDispatches
        /\ dispatched' = dispatched + 1
        /\ IF quiet
           THEN /\ listeners' = [listeners EXCEPT ![node] = Append(@, temporary)]
                /\ hearing' = hearing \cup {key}
                /\ mislaid' = mislaid \ {key}
           ELSE UNCHANGED <<listeners, hearing, mislaid>>
        /\ IF quiet \/ CalledBack(node, type) THEN WayToListeners(d) ELSE Unheard(d)
        /\ UNCHANGED <<depth, added, removals, pendingError>>

\* An event of the browser.
BrowserEvent(node, type, related) ==
    LET d == newDispatch(node, type, related, {}, FALSE)
    IN  /\ dispatches = <<>>
        /\ dispatched < MaxDispatches
        /\ dispatched' = dispatched + 1
        /\ IF CalledBack(node, type) THEN WayToListeners(d) ELSE Unheard(d)
        /\ UNCHANGED <<listeners, depth, hearing, added, removals, pendingError, mislaid>>

Top == Head(dispatches)
SetTop(d) == dispatches' = <<d>> \o Tail(dispatches)

\* invoke, up to the loop over the listeners: the stop is skipped if there are
\* none, in a phase that is not the target's, or when the related target is seen
\* as the target itself.
Skipped(stop, target) ==
    \/ listeners[stop.node] = <<>>
    \/ target = stop.node /\ stop.phase = "capturing"
    \/ target # stop.node /\ stop.phase = "bubbling" /\ Top.type \notin Bubbling
    \/ <<Top.type, Top.path[1], stop.node, Top.related>> \in SeenAsRelated

invoke ==
    LET stop == Head(Top.todo)
        target == eventRetargetting(Top.path, stop.node)
        skip == Skipped(stop, target)
    IN  /\ dispatches # <<>> /\ Top.node = NoNode /\ Top.todo # <<>> /\ ~Top.stopped
        /\ SetTop([Top EXCEPT
              !.todo = Tail(@),
              !.node = IF skip THEN NoNode ELSE stop.node,
              !.phase = IF target = stop.node THEN "target" ELSE stop.phase,
              !.index = 1, !.length = Len(listeners[stop.node]), !.anyRemoved = FALSE])
        /\ depth' = IF skip THEN depth ELSE [depth EXCEPT ![stop.node] = @ + 1]
        /\ finished' = <<>>
        /\ UNCHANGED <<listeners, hearing, bounds, pendingError, mislaid>>

\* The loop: the length is that of the start.  The temporary listener does nothing.
NextListener ==
    LET l == listeners[Top.node][Top.index]
        hears == /\ l.type = Top.type
                 /\ ~(~l.capture /\ Top.phase = "capturing")
                 /\ ~(l.capture /\ Top.phase = "bubbling")
    IN  /\ dispatches # <<>> /\ Top.node # NoNode /\ Top.running = NoNode
        /\ Top.index <= Top.length
        /\ SetTop([Top EXCEPT
              !.index = @ + 1,
              !.anyRemoved = @ \/ l.removed,
              !.running = IF ~l.removed /\ hears /\ l.id > 0 THEN Top.node ELSE NoNode,
              !.called = IF ~l.removed /\ hears /\ l.id > 0
                         THEN Append(@, [node |-> Top.node, id |-> l.id,
                                         target |-> eventRetargetting(Top.path, Top.node)])
                         ELSE @])
        /\ finished' = <<>>
        /\ UNCHANGED <<listeners, depth, hearing, bounds, pendingError, mislaid>>

stopPropagation ==
    /\ dispatches # <<>> /\ Top.running # NoNode /\ ~Top.stopped
    /\ SetTop([Top EXCEPT !.stopped = TRUE])
    /\ finished' = <<>>
    /\ UNCHANGED <<listeners, depth, hearing, bounds, pendingError, mislaid>>

stopImmediatePropagation ==
    /\ dispatches # <<>> /\ Top.running # NoNode /\ ~Top.stoppedNow
    /\ SetTop([Top EXCEPT !.stopped = TRUE, !.stoppedNow = TRUE])
    /\ finished' = <<>>
    /\ UNCHANGED <<listeners, depth, hearing, bounds, pendingError, mislaid>>

\* After stopImmediatePropagation invoke returns at once, and depth stays.
ListenerReturns ==
    /\ dispatches # <<>> /\ Top.running # NoNode
    /\ SetTop([Top EXCEPT !.running = NoNode, !.node = IF Top.stoppedNow THEN NoNode ELSE @])
    /\ finished' = <<>>
    /\ UNCHANGED <<listeners, depth, hearing, bounds, pendingError, mislaid>>

\* The first error is kept for the end; the loop goes on, even if the listener
\* had stopped the event at once.
ListenerThrows ==
    /\ dispatches # <<>> /\ Top.running # NoNode
    /\ pendingError' = TRUE
    /\ SetTop([Top EXCEPT !.running = NoNode])
    /\ finished' = <<>>
    /\ UNCHANGED <<listeners, depth, hearing, bounds, mislaid>>

tidied(n, d, anyRemoved) ==
    IF anyRemoved /\ d = 0 THEN [listeners EXCEPT ![n] = SelectSeq(@, LAMBDA l : ~l.removed)]
    ELSE listeners

EndOfListeners ==
    /\ dispatches # <<>> /\ Top.node # NoNode /\ Top.running = NoNode /\ Top.index > Top.length
    /\ depth' = [depth EXCEPT ![Top.node] = @ - 1]
    /\ listeners' = tidied(Top.node, depth[Top.node] - 1, Top.anyRemoved)
    /\ SetTop([Top EXCEPT !.node = NoNode])
    /\ finished' = <<>>
    /\ UNCHANGED <<hearing, bounds, pendingError, mislaid>>

\* The dispatch is over, its temporary listener is removed as any other is, and
\* an error of a listener is thrown.
EndOfDispatch ==
    /\ dispatches # <<>> /\ Top.node = NoNode /\ (Top.todo = <<>> \/ Top.stopped)
    /\ dispatches' = Tail(dispatches)
    /\ pendingError' = FALSE
    /\ finished' = <<Top>>
    /\ IF Top.temporary = {} THEN UNCHANGED <<listeners, hearing, mislaid>>
       ELSE LET l == CHOOSE t \in Top.temporary : TRUE
            IN  /\ listeners' = Without(Top.path[1], l, listeners)
                /\ hearing' = HearingWithout(Top.path[1], l)
                /\ mislaid' = MislaidWithout(Top.path[1], l)
    /\ UNCHANGED <<depth, bounds>>

EventNext ==
    \/ \E n \in EvTargets, type \in Types, capture \in BOOLEAN : addEventListener(n, type, capture)
    \/ \E n \in EvTargets, i \in 1 .. MaxListeners : removeEventListener(n, i)
    \/ \E n \in EvSources, type \in Types, related \in EvRelated :
          dispatchEvent(n, type, related) \/ BrowserEvent(n, type, related)
    \/ stopPropagation \/ stopImmediatePropagation
    \/ invoke \/ NextListener \/ ListenerReturns \/ ListenerThrows \/ EndOfListeners \/ EndOfDispatch

EventSpec == EventInit /\ [][EventNext]_eventVars

----------------------------------------------------------------------------
(***************************************************************************)
(* Properties                                                              *)
(***************************************************************************)
\* The listeners that are there from before the dispatch until its end, in the
\* order they ought to hear of it: down the path, at every target, and up.
Lasting(d) == {r \in d.before :
    r.listener.id > 0 /\ \E i \in DOMAIN Live(r.node) : Live(r.node)[i].id = r.listener.id}
IsTarget(d, n) == eventRetargetting(d.path, n) = n
Related(d, n) == <<d.type, d.path[1], n, d.related>> \in SeenAsRelated

idsAt(d, n, Wanted(_)) ==
    LET mine == {r \in Lasting(d) : r.node = n /\ r.listener.type = d.type /\ Wanted(r.listener)}
    IN  IF Related(d, n) THEN <<>>
        ELSE SetToSortSeq({r.listener.id : r \in mine}, LAMBDA a, b : a < b)

ExpectedCalls(d) ==
    LET win  == d.type \notin LoadLike /\ Last(d.path) = EvDocument
        outer == IF win THEN Append(d.path, Win) ELSE d.path
        down(n) == IF IsTarget(d, n) THEN <<>> ELSE idsAt(d, n, LAMBDA l : l.capture)
        up(n)   == IF IsTarget(d, n) THEN idsAt(d, n, LAMBDA l : TRUE)
                   ELSE IF d.type \in Bubbling THEN idsAt(d, n, LAMBDA l : ~l.capture) ELSE <<>>
        along(ns, Ids(_)) == FlattenSeq([i \in DOMAIN ns |-> Ids(ns[i])])
    IN  along(Reverse(outer), down) \o along(outer, up)

\* A node whose listeners the browser has lost the way to: removeEventListener
\* counted none of them, or it is an insertion point, in no tree of the browser.
Deaf(d, n) ==
    \/ <<getTargetToListenAt(n), d.type>> \in mislaid
    \/ getTargetToListenAt(n) \notin ToSet(VisualUp(d.path[1])) \cup {Win}

\* The browser calls the polyfill for every event somebody listens to: for one it
\* does not, whoever should hear of it is deaf; and dispatchEvent of the page, with
\* its temporary listener, fails only where removeEventListener forgot one.
CalledBackInTime ==
    finished # <<>> /\ ~finished[1].heard =>
        LET d == finished[1]
        IN  /\ \A r \in d.before :
                  r.listener.id \in ToSet(ExpectedCalls(d)) => Deaf(d, r.node)
            /\ d.byPage =>
                  \E n \in ToSet(VisualUp(d.path[1])) : <<getTargetToListenAt(n), d.type>> \in mislaid

\* Whatever listeners do meanwhile, remove others, dispatch other events or throw,
\* a listener that stays is called, once and in its turn; and an event that was
\* stopped has been heard by those before the one who stopped it (dispatchEvent,
\* invoke, tidied).
HeardInTurn ==
    finished # <<>> /\ finished[1].heard =>
        LET d == finished[1]
            ids == {r.listener.id : r \in Lasting(d)}
            heardIds == SelectSeq([i \in DOMAIN d.called |-> d.called[i].id], LAMBDA id : id \in ids)
        IN  IF d.stopped THEN IsPrefix(heardIds, ExpectedCalls(d)) ELSE heardIds = ExpectedCalls(d)

\* No listener is shown a target in a shadow tree that it is not in itself, or
\* within: only nodes of its own tree and of those around it (eventRetargetting).
TargetsHidden ==
    \A i \in DOMAIN dispatches : \A k \in DOMAIN dispatches[i].called :
        LET c == dispatches[i].called[k]
        IN  ScopeOf[c.target] \in ToSet(getTreeScopeAncestors(TreeOf(c.node)))

\* An event reaches the listeners it should, in order, and shows each of them
\* only what its own tree may see.  Left out are the events that the browser never
\* calls the polyfill for: removeEventListener gave its call up although a listener
\* of the other phase, or of the shadow root beside its host, stayed (mislaid), or,
\* for an event the page did not dispatch itself, only insertion points listen.
EventsHeard == CalledBackInTime /\ HeardInTurn /\ TargetsHidden
=============================================================================
