---------------------------- MODULE CustomElements ----------------------------
(***************************************************************************)
(* The custom elements polyfill: document.registerElement, the upgrade of  *)
(* elements that are there already, and the attached and detached          *)
(* callbacks, driven by the mutation records of the document and of every  *)
(* shadow root.  Everything below runs in one thread, but each walk over a *)
(* tree calls the page back in the middle, and the page changes the tree,  *)
(* registers names and starts other walks from there.                      *)
(***************************************************************************)
EXTENDS Integers, Sequences, FiniteSets, SequencesExt

CONSTANTS CeDocument,   \* the main document
          CeImportsOf,  \* document -> the documents it imports, in the order of their links
          CeElements,   \* elements, ordered by CeOrder where order is open
          CeRoots,      \* shadow roots
          CeRootsOf,    \* element -> its shadow roots, the youngest first
          CeParent,     \* node -> its parent at the start, or NoCe
          NoCe,
          Names,        \* names that can be registered
          LocalName, IsName,   \* element -> its tag, its "is" attribute or NoCe
          ExtendsName,  \* name -> what its definition extends, or NoCe
          CePlaces,     \* the nodes that the page puts elements into
          MaxCeOps      \* bound on what the page does, throwing included

CeDocuments == DOMAIN CeImportsOf
CeNodes == CeDocuments \cup CeElements \cup CeRoots

ASSUME CustomElementsAssumption ==
    /\ CeDocument \in CeDocuments /\ NoCe \notin CeNodes \cup Names
    /\ CeImportsOf \in [CeDocuments -> Seq(CeDocuments)]
    /\ CeElements \cap (CeDocuments \cup CeRoots) = {}
    /\ CeRootsOf \in [CeElements -> Seq(CeRoots)]
    /\ CeParent \in [CeElements -> CeNodes \cup {NoCe}]
    /\ CePlaces \subseteq CeNodes /\ MaxCeOps \in Nat

VARIABLES
    kids,       \* node -> its children, in order
    registry,   \* name -> its definition: [tag, is]
    ready,      \* CustomElements.ready
    bootstrapped,     \* bootstrap was called
    processing, \* processingDocuments: <<the documents>>, or <<>> for null
    upgraded,   \* elements with __upgraded__
    attachedMarks,     \* elements with __attached
    observed,   \* document and shadow roots with an __observer
    records,    \* root -> the mutation records its observer has not been given
    transients, \* <<root, node>>: a removed node still observed for a root
    deferring,  \* hasPolyfillMutations
    pending,    \* pendingMutations
    timer,      \* isPendingMutations
    armed,      \* how many timeouts of takeMutations are set
    stack,      \* what is under way, the innermost first
    ceOps,      \* what the page has done
    strayed,    \* history: a callback moved the node a walk stood on, a name was registered
                \* in the middle of bootstrap, or a node was moved that nobody observed
    dropped_,   \* history: something was deferred during the loop of takeMutations, which drops it
    abandoned   \* history: the elements that were waiting for a walk an exception cut off

ceVars == <<kids, registry, ready, bootstrapped, processing, upgraded, attachedMarks, observed, records,
            transients, deferring, pending, timer, armed, stack, ceOps, strayed, dropped_, abandoned>>
tree == <<kids, records, transients, strayed>>
definitions == <<registry, ready, bootstrapped, processing, abandoned>>
deferral == <<deferring, pending, timer, armed, dropped_>>
lifecycle == <<upgraded, attachedMarks>>

KidsAtStart(p) == SetToSeq({n \in CeElements : CeParent[n] = p})

CustomElementsInit ==
    /\ kids = [n \in CeNodes |-> KidsAtStart(n)]
    /\ registry = <<>> /\ ready = FALSE /\ bootstrapped = FALSE /\ processing = <<>>
    /\ upgraded = {} /\ attachedMarks = {}
    /\ observed = CeRoots
    /\ records = [r \in CeRoots \cup CeDocuments |-> <<>>]
    /\ transients = {}
    /\ deferring \in BOOLEAN /\ pending = <<>> /\ timer = FALSE /\ armed = 0
    /\ stack = <<>>
    /\ ceOps = 0 /\ strayed = FALSE /\ dropped_ = FALSE /\ abandoned = {}

(***************************************************************************)
(* The tree.                                                               *)
(***************************************************************************)
ParentIn(k, n) == IF \E p \in CeNodes : n \in ToSet(k[p])
                  THEN CHOOSE p \in CeNodes : n \in ToSet(k[p]) ELSE NoCe
HostOf(n) == IF n \in CeRoots THEN CHOOSE h \in CeElements : n \in ToSet(CeRootsOf[h]) ELSE NoCe

RECURSIVE Upwards(_, _)
Upwards(k, n) == IF n = NoCe THEN {} ELSE {n} \cup Upwards(k, ParentIn(k, n))

\* The same, from shadow roots on to their hosts.
RECURSIVE Outwards(_)
Outwards(n) ==
    IF n = NoCe THEN {}
    ELSE {n} \cup Outwards(IF ParentIn(kids, n) # NoCe THEN ParentIn(kids, n) ELSE HostOf(n))

inDocument(n) == CeDocument \in Outwards(n)

NextSiblingOf(n) ==
    LET p == ParentIn(kids, n)
        i == IF p = NoCe THEN 0 ELSE CHOOSE j \in DOMAIN kids[p] : kids[p][j] = n
    IN  IF i = 0 \/ i = Len(kids[p]) THEN NoCe ELSE kids[p][i + 1]

\* The observers a change of the children of a node is recorded for.
ObserversOf(p, k) ==
    {r \in observed : r \in Upwards(k, p) \/ \E n \in Upwards(k, p) : <<r, n>> \in transients}

(***************************************************************************)
(* Definitions.                                                            *)
(***************************************************************************)
RECURSIVE ancestry(_)
ancestry(name) ==
    IF name \in DOMAIN registry THEN Append(ancestry(ExtendsName[name]), registry[name]) ELSE <<>>

\* The tag and the "is" of a new definition depend on what is registered already.
resolveTagName(name) ==
    LET above == ancestry(ExtendsName[name])
        base  == IF above = <<>> THEN ExtendsName[name]
                 ELSE IF Last(above).is = NoCe THEN NoCe ELSE Last(above).tag
    IN  [tag |-> IF base = NoCe THEN name ELSE base, is |-> IF base = NoCe THEN NoCe ELSE name]

\* The definition an element is upgraded with, as a set of at most one.
definitionFor(n) ==
    LET name == IF IsName[n] # NoCe THEN IsName[n] ELSE LocalName[n]
    IN  {d \in {name} \cap DOMAIN registry :
            IF IsName[n] # NoCe THEN registry[d].tag = LocalName[n] ELSE ExtendsName[d] = NoCe}

upgradable(n) == n \in CeElements /\ n \notin upgraded /\ definitionFor(n) # {}

(***************************************************************************)
(* What is under way, as tasks.                                            *)
(***************************************************************************)
Task(op, n, cb) == [op |-> op, node |-> n, cb |-> cb]
Now == Head(stack)
Doing(op) == stack # <<>> /\ Now.op = op
ThenDo(tasks) == stack' = tasks \o Tail(stack)

\* Mutant: the subtree of an upgraded element is left to those who walk over it.
upgradeWithDefinitionOnly(n) ==
    <<Task("call", n, "created"), Task("attachedNode", n, "attached")>>

upgradeWithDefinition(n) ==
    <<Task("call", n, "created"), Task("attachedNode", n, "attached"), Task("subtree", n, "added")>>

forSubtree(n, cb) == <<Task("kids", n, cb), Task("roots", n, cb)>>

Subtree == Doing("subtree") /\ ThenDo(forSubtree(Now.node, Now.cb))
           /\ UNCHANGED <<tree, definitions, lifecycle, observed, deferral, ceOps>>

findAllElements ==
    /\ Doing("kids")
    /\ ThenDo(IF kids[Now.node] = <<>> THEN <<>>
              ELSE <<Task("visit", Head(kids[Now.node]), Now.cb)>>)
    /\ UNCHANGED <<tree, definitions, lifecycle, observed, deferral, ceOps>>

\* The sibling is looked up when the element and its subtree are done with.
NextElement ==
    /\ Doing("next")
    /\ ThenDo(IF NextSiblingOf(Now.node) = NoCe THEN <<>>
              ELSE <<Task("visit", NextSiblingOf(Now.node), Now.cb)>>)
    /\ UNCHANGED <<tree, definitions, lifecycle, observed, deferral, ceOps>>

forRoots ==
    /\ Doing("roots")
    /\ ThenDo(IF Now.node \notin CeElements THEN <<>>
              ELSE [i \in DOMAIN CeRootsOf[Now.node] |->
                       Task("subtree", CeRootsOf[Now.node][i], Now.cb)])
    /\ UNCHANGED <<tree, definitions, lifecycle, observed, deferral, ceOps>>

deferMutation(n, cb) ==
    /\ pending' = Append(pending, Task(cb, n, cb))
    /\ timer' = TRUE
    /\ armed' = IF timer THEN armed ELSE armed + 1
    /\ dropped_' = (dropped_ \/ \E i \in DOMAIN stack : stack[i].op = "taken")
    /\ UNCHANGED <<deferring, lifecycle>>

_attached(n) ==
    IF n \in upgraded /\ n \notin attachedMarks /\ inDocument(n)
    THEN [marked |-> attachedMarks \cup {n}, calls |-> <<Task("call", n, "attached")>>]
    ELSE [marked |-> attachedMarks, calls |-> <<>>]

_detached(n) ==
    IF n \in upgraded /\ n \in attachedMarks /\ ~inDocument(n)
    THEN [marked |-> attachedMarks \ {n}, calls |-> <<Task("call", n, "detached")>>]
    ELSE [marked |-> attachedMarks, calls |-> <<>>]

\* attached or detached of a node, then the tasks that follow.
Attached(n, cb, tasks) ==
    LET r == IF cb = "detached" THEN _detached(n) ELSE _attached(n) IN
    IF deferring THEN deferMutation(n, cb) /\ ThenDo(tasks)
    ELSE /\ attachedMarks' = r.marked /\ ThenDo(r.calls \o tasks) /\ UNCHANGED <<upgraded, deferral>>

\* One element of a walk: the callback, its shadow roots, its children, and the
\* sibling.  An element that is upgraded has its subtree done by the upgrade.
Visit ==
    LET n == Now.node
        rest == <<Task("roots", n, Now.cb), Task("kids", n, Now.cb), Task("next", n, Now.cb)>>
    IN  /\ Doing("visit")
        /\ IF Now.cb = "added" /\ upgradable(n)
           THEN /\ upgraded' = upgraded \cup {n}
                /\ ThenDo(upgradeWithDefinition(n) \o <<Task("next", n, "added")>>)
                /\ UNCHANGED <<attachedMarks, deferral>>
           ELSE Attached(n, IF Now.cb = "detached" THEN "detached" ELSE "attached", rest)
        /\ UNCHANGED <<tree, definitions, observed, ceOps>>

\* The node of a record, or a document: it has no siblings to go on with.
addedNode ==
    LET n == Now.node IN
    /\ Doing("added")
    /\ IF upgradable(n)
       THEN /\ upgraded' = upgraded \cup {n}
            /\ ThenDo(upgradeWithDefinition(n))
            /\ UNCHANGED <<attachedMarks, deferral>>
       ELSE Attached(n, "attached", <<Task("subtree", n, "added")>>)
    /\ UNCHANGED <<tree, definitions, observed, ceOps>>

attachedNode ==
    /\ Doing("attachedNode")
    /\ Attached(Now.node, "attached", <<Task("attachedSubtree", Now.node, "attached")>>)
    /\ UNCHANGED <<tree, definitions, observed, ceOps>>

attachedSubtree ==
    /\ Doing("attachedSubtree")
    /\ ThenDo(IF inDocument(Now.node) THEN forSubtree(Now.node, "attached") ELSE <<>>)
    /\ UNCHANGED <<tree, definitions, lifecycle, observed, deferral, ceOps>>

detachedNode ==
    /\ Doing("detached")
    /\ Attached(Now.node, "detached", forSubtree(Now.node, "detached"))
    /\ UNCHANGED <<tree, definitions, observed, ceOps>>

CallbackDone ==
    /\ Doing("call")
    /\ ThenDo(<<>>)
    /\ UNCHANGED <<tree, definitions, lifecycle, observed, deferral, ceOps>>

\* What is left to tell an element.
Unsettled(n) == \/ inDocument(n) /\ upgradable(n)
                \/ n \in upgraded /\ (n \in attachedMarks <=> ~inDocument(n))

\* The elements a task has yet to walk over.
RECURSIVE SiblingsAfter(_)
SiblingsAfter(n) == IF NextSiblingOf(n) = NoCe THEN {}
            ELSE {NextSiblingOf(n)} \cup SiblingsAfter(NextSiblingOf(n))
AheadOf(task) ==
    CASE task.op \in {"call", "deferred", "taken", "takeNow", "ready", "observe"} -> {}
      [] task.op = "next" -> {m \in CeElements : Outwards(m) \cap SiblingsAfter(task.node) # {}}
      [] OTHER -> {m \in CeElements : task.node \in Outwards(m)}

\* An exception: everything up to the script that called is left as it is.
CutOff ==
    LET depth == SelectInSeq(Tail(stack), LAMBDA task : task.op = "call")
        cut == IF depth = 0 THEN stack ELSE SubSeq(stack, 1, depth)
    IN  /\ stack' = SubSeq(stack, Len(cut) + 1, Len(stack))
        /\ abandoned' = abandoned \cup
              {m \in UNION {AheadOf(cut[i]) : i \in DOMAIN cut} : Unsettled(m)}

CeCallbackThrows ==
    /\ Doing("call")
    /\ ceOps < MaxCeOps
    /\ ceOps' = ceOps + 1
    /\ CutOff
    /\ UNCHANGED <<tree, registry, ready, bootstrapped, processing, lifecycle, observed, deferral>>

(***************************************************************************)
(* Deferred mutations.                                                     *)
(***************************************************************************)
\* takeMutations runs what is in the list when it starts, and empties the list
\* at the end, if it comes there.
takeMutations == [i \in DOMAIN pending |-> [pending[i] EXCEPT !.op = "deferred"]]
                     \o <<Task("taken", CeDocument, "attached")>>

Deferred ==
    LET r == IF Now.cb = "detached" THEN _detached(Now.node) ELSE _attached(Now.node) IN
    /\ Doing("deferred")
    /\ attachedMarks' = r.marked
    /\ ThenDo(r.calls)
    /\ UNCHANGED <<tree, definitions, upgraded, observed, deferral, ceOps>>

Taken ==
    /\ Doing("taken")
    /\ pending' = <<>>
    /\ ThenDo(<<>>)
    /\ UNCHANGED <<tree, definitions, lifecycle, observed, deferring, timer, armed, dropped_, ceOps>>

TimerFires ==
    /\ stack = <<>> /\ armed > 0
    /\ armed' = armed - 1
    /\ timer' = FALSE
    /\ stack' = takeMutations
    /\ UNCHANGED <<tree, definitions, lifecycle, observed, deferring, pending, dropped_, ceOps>>

(***************************************************************************)
(* Mutation records.                                                       *)
(***************************************************************************)
\* handler: every record has the nodes it adds walked over, then those it removes.
handler(rs) ==
    FlattenSeq([i \in DOMAIN rs |->
        IF rs[i].added # NoCe THEN <<Task("added", rs[i].added, "added")>>
        ELSE <<Task("detached", rs[i].removed, "detached")>>])

Forget(r) == /\ records' = [records EXCEPT ![r] = <<>>]
             /\ transients' = {t \in transients : t[1] # r}

RecordsDelivered(r) ==
    /\ stack = <<>>
    /\ records[r] # <<>>
    /\ stack' = handler(records[r])
    /\ Forget(r)
    /\ UNCHANGED <<kids, strayed, definitions, lifecycle, observed, deferral, ceOps>>

(***************************************************************************)
(* The documents.  An import comes before the document that has its link,  *)
(* and no document twice.  The list of those seen is one for all walks: a  *)
(* walk within another sets it to null at its end, and the other then      *)
(* fails at the next document it comes to.                                 *)
(***************************************************************************)
upgradeDocumentTree ==
    <<Task("documents", CeDocument, "added"), Task("documentsDone", CeDocument, "added")>>

forDocumentTree ==
    LET d == Now.node IN
    /\ Doing("documents") /\ processing # <<>>
    /\ IF d \in processing[1] THEN ThenDo(<<>>) /\ UNCHANGED processing
       ELSE /\ processing' = <<processing[1] \cup {d}>>
            /\ ThenDo([i \in DOMAIN CeImportsOf[d] |-> Task("documents", CeImportsOf[d][i], "added")]
                         \o <<Task("added", d, "added"), Task("observe", d, "added")>>)
    /\ UNCHANGED <<tree, registry, ready, bootstrapped, abandoned, lifecycle, observed, deferral, ceOps>>

NoProcessingDocuments ==
    /\ Doing("documents") /\ processing = <<>>
    /\ CutOff
    /\ UNCHANGED <<tree, registry, ready, bootstrapped, processing, lifecycle, observed, deferral, ceOps>>

DocumentsDone ==
    /\ Doing("documentsDone")
    /\ processing' = <<>>
    /\ ThenDo(<<>>)
    /\ UNCHANGED <<tree, registry, ready, bootstrapped, abandoned, lifecycle, observed, deferral, ceOps>>

observeRoot ==
    /\ Doing("observe")
    /\ observed' = observed \cup {Now.node}
    /\ ThenDo(<<>>)
    /\ UNCHANGED <<tree, definitions, lifecycle, deferral, ceOps>>

bootstrap ==
    /\ stack = <<>> /\ ~bootstrapped
    /\ bootstrapped' = TRUE
    /\ processing' = <<{}>>
    /\ stack' = upgradeDocumentTree \o <<Task("ready", CeDocument, "added")>>
    /\ UNCHANGED <<tree, registry, ready, abandoned, lifecycle, observed, deferral, ceOps>>

SetReady ==
    /\ Doing("ready")
    /\ ready' = TRUE
    /\ ThenDo(<<>>)
    /\ UNCHANGED <<tree, registry, bootstrapped, processing, abandoned, lifecycle, observed, deferral, ceOps>>

(***************************************************************************)
(* The page: scripts between tasks, and callbacks in the middle of them.   *)
(***************************************************************************)
PageScriptRuns ==
    /\ stack # <<>> => Now.op = "call"
    /\ ceOps < MaxCeOps
    /\ ceOps' = ceOps + 1

register(name) ==
    /\ PageScriptRuns
    /\ name \notin DOMAIN registry
    /\ registry' = [m \in DOMAIN registry \cup {name} |->
                       IF m = name THEN resolveTagName(name) ELSE registry[m]]
    /\ stack' = (IF ready THEN upgradeDocumentTree ELSE <<>>) \o stack
    /\ processing' = IF ready THEN <<{}>> ELSE processing
    /\ strayed' = (strayed \/ (~ready /\ stack # <<>>))
    /\ UNCHANGED <<kids, records, transients, ready, bootstrapped, abandoned, lifecycle, observed, deferral>>

\* createElement asks for less than upgrade does: any definition without "is".
createdWith(n) ==
    LET name == IF IsName[n] # NoCe THEN IsName[n] ELSE LocalName[n]
    IN  {d \in {name} \cap DOMAIN registry :
            registry[d].is = IsName[n] /\ (IsName[n] # NoCe => registry[d].tag = LocalName[n])}

FreshUpgraded(n, found) ==
    /\ PageScriptRuns
    /\ ParentIn(kids, n) = NoCe /\ n \notin upgraded /\ found # {}
    /\ upgraded' = upgraded \cup {n}
    /\ stack' = upgradeWithDefinition(n) \o stack
    /\ UNCHANGED <<tree, definitions, attachedMarks, observed, deferral>>

\* The element is one that the page has no place for yet; a clone that is not
\* upgraded itself is left alone, with all in it.
createElement(n) == FreshUpgraded(n, createdWith(n))
cloneNode(n) == FreshUpgraded(n, definitionFor(n))

Stray(n) ==
    \/ \E i \in DOMAIN stack : stack[i].op = "next" /\ stack[i].node = n
    \/ CeDocument \notin observed /\ (stack # <<>> \/ \E m \in attachedMarks : n \in Outwards(m))

RemovedFrom(n, k) == [p \in CeNodes |-> SelectSeq(k[p], LAMBDA m : m # n)]

\* Node.appendChild and Node.removeChild, with their records.
Recorded(n, old, new, k) ==
    LET left == IF old = NoCe THEN {} ELSE ObserversOf(old, kids)
        come == IF new = NoCe THEN {}
                ELSE {r \in observed : \/ r \in Upwards(k, new)
                                       \/ \E m \in Upwards(k, new) : <<r, m>> \in transients}
    IN  /\ records' = [r \in DOMAIN records |->
              records[r] \o (IF r \in left THEN <<[added |-> NoCe, removed |-> n]>> ELSE <<>>)
                         \o (IF r \in come THEN <<[added |-> n, removed |-> NoCe]>> ELSE <<>>)]
        /\ transients' = transients \cup {<<r, n>> : r \in left}

Move(n, new) ==
    LET old == ParentIn(kids, n)
        gone == RemovedFrom(n, kids)
    IN  /\ PageScriptRuns
        /\ old # new
        /\ n \notin Outwards(new)
        /\ kids' = IF new = NoCe THEN gone ELSE [gone EXCEPT ![new] = Append(@, n)]
        /\ Recorded(n, old, new, gone)
        /\ strayed' = (strayed \/ Stray(n))
        /\ UNCHANGED <<stack, definitions, lifecycle, observed, deferral>>

appendChild(p, n) == Move(n, p)
removeChild_(n) == Move(n, NoCe)

\* CustomElements.takeRecords: what is pending happens at once.
takeRecordsOf(r) ==
    /\ PageScriptRuns
    /\ r \in observed
    /\ stack' = handler(records[r]) \o <<Task("takeNow", r, "added")>> \o stack
    /\ Forget(r)
    /\ UNCHANGED <<kids, strayed, definitions, lifecycle, observed, deferral>>

TakeNow ==
    /\ Doing("takeNow")
    /\ timer' = FALSE
    /\ ThenDo(takeMutations)
    /\ UNCHANGED <<tree, definitions, lifecycle, observed, deferring, pending, armed, dropped_, ceOps>>

CustomElementsNext ==
    \/ Subtree \/ findAllElements \/ NextElement \/ forRoots \/ Visit \/ addedNode
    \/ attachedNode \/ attachedSubtree \/ detachedNode \/ CallbackDone \/ CeCallbackThrows
    \/ Deferred \/ Taken \/ TimerFires \/ TakeNow
    \/ \E r \in observed : RecordsDelivered(r) \/ takeRecordsOf(r)
    \/ forDocumentTree \/ NoProcessingDocuments \/ DocumentsDone
    \/ observeRoot \/ bootstrap \/ SetReady
    \/ \E name \in Names : register(name)
    \/ \E n \in CeElements : createElement(n) \/ cloneNode(n) \/ removeChild_(n)
    \/ \E n \in CeElements, p \in CePlaces : appendChild(p, n)

CustomElementsSpec == CustomElementsInit /\ [][CustomElementsNext]_ceVars

----------------------------------------------------------------------------
(***************************************************************************)
(* Properties                                                              *)
(***************************************************************************)
Settled ==
    (ready /\ stack = <<>> /\ pending = <<>> /\ \A r \in DOMAIN records : records[r] = <<>>) =>
        \A n \in CeElements \ abandoned : ~Unsettled(n)

\* Once everything recorded and deferred is done, all in the document that has a
\* definition is upgraded, and every upgraded element has last been told that it
\* was attached if it is in the document, and detached if it is not, whatever the
\* callbacks did meanwhile: change the tree, register names, create elements, take
\* records, throw (upgrade, addedNode, detachedNode, handler, observe).  Left out are
\* behaviours in which a callback moved the very node a walk stood on, registered a
\* name in the middle of bootstrap, or a node was moved that nobody observed yet
\* (strayed), and those in which something was deferred while takeMutations ran,
\* which drops it (dropped_); and the elements that an exception, of a callback or of
\* a walk over documents within another, kept a walk from (abandoned).
LifecycleSettled == ~strayed /\ ~dropped_ => Settled
=============================================================================
