----------------------------- MODULE PolymerQueue -----------------------------
(***************************************************************************)
(* How <polymer-element> definitions come to be registered.  A definition  *)
(* needs a call of Polymer(name), the stylesheets it imports and its turn  *)
(* in a queue; then it waits until all others are ready too, and they are  *)
(* registered in one go.  Registering runs code of the page, which may     *)
(* make further definitions, so that the calls of the queue are kept on a  *)
(* stack and the page acts where one of them has called it.                *)
(***************************************************************************)
EXTENDS Integers, Sequences, FiniteSets, SequencesExt

CONSTANTS Definitions,  \* polymer-elements; also the names they define
          Imported,     \* those in imported documents, not in the main one
          Extends,      \* definition -> what it extends
          Native,       \* a native element as what is extended
          NoScripts,    \* those with the attribute noscript
          Styled,       \* those whose template imports stylesheets
          MaxWhenReady, \* bound: calls of whenReady, the one of Polymer included
          MaxForced     \* bound: calls of forceReady

ASSUME PolymerQueueAssumption ==
    /\ Imported \subseteq Definitions /\ NoScripts \subseteq Definitions /\ Styled \subseteq Definitions
    /\ Native \notin Definitions /\ Extends \in [Definitions -> Definitions \cup {Native}]
    /\ MaxWhenReady \in Nat \ {0} /\ MaxForced \in Nat

VARIABLES
    pq,           \* the queue and its callers, see QueueInit
    readying,     \* calls of whenReady that did not come back yet
    importsReady, \* HTMLImports.ready
    rafs,         \* an animation frame is requested
    forced        \* calls of forceReady made

queueVars == <<pq, readying, importsReady, rafs, forced>>

QueueInit ==
    /\ pq = [elements    |-> <<>>,   \* the definitions there are, as made
             prototypes  |-> {},     \* names Polymer() was called for
             clients     |-> {},     \* waitPrototype
             queued      |-> <<>>,   \* history: in the order of enqueue
             importQueue |-> <<>>, mainQueue |-> <<>>, flushQueue |-> <<>>,
             flushable   |-> {},
             needs       |-> {},     \* _needsResources
             registered  |-> <<>>,
             bases       |-> [d \in {} |-> d],  \* memoizedBases
             base        |-> [d \in {} |-> d],  \* what each definition inherits from
             waitToReady |-> TRUE, flushing |-> FALSE, ceReady |-> TRUE,
             callbacks   |-> <<>>,   \* readyCallbacks
             stack       |-> <<>>]   \* calls that are not finished, innermost last
    /\ readying = {1}                \* polymer-element.js asks for polymer-ready
    /\ importsReady = FALSE /\ rafs = FALSE /\ forced = 0

Called(s, frame) == [s EXCEPT !.stack = Append(@, frame)]

(***************************************************************************)
(* The queue.                                                              *)
(***************************************************************************)
queueForElement(s, d) == IF d \in Imported THEN s.importQueue ELSE s.mainQueue

nextQueued(s) == IF s.importQueue # <<>> THEN s.importQueue ELSE s.mainQueue

\* Its place is the first: nothing imported waits, or could still come.
FirstInLine(s, d) ==
    /\ d \in ToSet(queueForElement(s, d)) /\ Head(queueForElement(s, d)) = d
    /\ d \notin Imported => importsReady /\ s.importQueue = <<>>

enqueue(s, d) ==
    IF d \in ToSet(s.queued) THEN s
    ELSE IF d \in Imported
    THEN [s EXCEPT !.queued = Append(@, d), !.importQueue = Append(@, d)]
    ELSE [s EXCEPT !.queued = Append(@, d), !.mainQueue = Append(@, d)]

isEmpty(s) == ToSet(s.elements) \subseteq s.flushable

canReady(s) == ~ s.waitToReady /\ isEmpty(s)

(***************************************************************************)
(* registerWhenReady, go and check call one another, each as the last      *)
(* thing it does: one call after the other asks a definition to register.  *)
(* A check that was begun is left on the stack, for what it does when its  *)
(* call has come back.                                                     *)
(***************************************************************************)
Asks(s, d)  == [pq |-> s, asked |-> <<d>>]
AsksNone(s) == [pq |-> s, asked |-> <<>>]

\* Mutant: the next in line is not told.
checkNobody(s) == AsksNone(Called(s, [kind |-> "check"]))
check(s) ==
    LET begun == Called(s, [kind |-> "check"])
    IN  IF nextQueued(s) = <<>> THEN AsksNone(begun) ELSE Asks(begun, Head(nextQueued(s)))

go(s, d) ==
    check([s EXCEPT !.importQueue = IF d \in Imported THEN Tail(@) ELSE @,
                    !.mainQueue = IF d \in Imported THEN @ ELSE Tail(@),
                    !.flushable = @ \cup {d}, !.flushQueue = Append(@, d)])

PolymerCalled(s, name) == [s EXCEPT !.prototypes = @ \cup {name}, !.clients = @ \ {name}]

\* A definition without a prototype waits for the call of Polymer, or makes it.
waitingForPrototype(s, d) ==
    IF d \in s.prototypes THEN s
    ELSE IF d \in NoScripts THEN PolymerCalled(s, d) ELSE [s EXCEPT !.clients = @ \cup {d}]

\* One call of registerWhenReady.
Asked(s, d) ==
    LET waits  == waitingForPrototype(s, d)
        inLine == enqueue(waits, d)
    IN  IF d \in ToSet(s.registered) THEN AsksNone(s)
        ELSE IF d \notin waits.prototypes THEN AsksNone(waits)
        ELSE IF FirstInLine(inLine, d) /\ d \notin inLine.needs THEN go(inLine, d) ELSE AsksNone(inLine)

\* As each that goes leaves its queue, there is an end to them.
AllAsked(x) ==
    LET most == Len(x.pq.importQueue) + Len(x.pq.mainQueue) + 2
        after[k \in 0 .. most] ==
            IF k = 0 THEN x
            ELSE IF after[k - 1].asked = <<>> THEN after[k - 1]
            ELSE Asked(after[k - 1].pq, Head(after[k - 1].asked))
    IN  after[most].pq

registerWhenReady(s, d) == AllAsked(Asks(s, d))

element(s, name) ==
    IF name \in s.clients THEN registerWhenReady(PolymerCalled(s, name), name) ELSE PolymerCalled(s, name)

\* ready() up to its first call of the page: the outermost call flushes.
ready(s) ==
    [s EXCEPT !.ceReady = FALSE, !.flushing = TRUE,
              !.stack = Append(@, [kind |-> IF s.flushing THEN "upgrade" ELSE "flush", was |-> s.ceReady])]

Returned(s) == [s EXCEPT !.stack = Front(@)]

\* A check whose call has come back.
CheckReturns ==
    /\ pq.stack # <<>> /\ Last(pq.stack).kind = "check"
    /\ pq' = IF canReady(pq) THEN ready(Returned(pq)) ELSE Returned(pq)
    /\ UNCHANGED <<readying, importsReady, rafs, forced>>

\* init() registers again after it asked for the resources.
InitReturns ==
    /\ pq.stack # <<>> /\ Last(pq.stack).kind = "init"
    /\ pq' = registerWhenReady(Returned(pq), Last(pq.stack).definition)
    /\ UNCHANGED <<readying, importsReady, rafs, forced>>

(***************************************************************************)
(* Registration.                                                           *)
(***************************************************************************)
\* The prototype an extended name stands for is looked up once.
generateBasePrototype(s, name) ==
    IF name \in DOMAIN s.bases THEN s.bases[name]
    ELSE IF name \in ToSet(s.registered) THEN name ELSE Native

_register(s, d) ==
    LET found == generateBasePrototype(s, Extends[d])
    IN  [s EXCEPT !.registered = Append(@, d),
                  !.base = [x \in DOMAIN @ \cup {d} |-> IF x = d THEN found ELSE @[x]],
                  !.bases = [x \in DOMAIN @ \cup {Extends[d]} |-> IF x = Extends[d] THEN found ELSE @[x]]]

\* The next definition is registered, and its registerCallback called.
FlushNext ==
    /\ pq.stack # <<>> /\ Last(pq.stack).kind = "flush" /\ pq.flushQueue # <<>>
    /\ pq' = _register([pq EXCEPT !.flushQueue = Tail(@)], Head(pq.flushQueue))
    /\ UNCHANGED <<readying, importsReady, rafs, forced>>

\* Nothing is left: the elements of the document are upgraded.
FlushEnds ==
    /\ pq.stack # <<>> /\ Last(pq.stack).kind = "flush" /\ pq.flushQueue = <<>>
    /\ pq' = [pq EXCEPT !.flushing = FALSE, !.stack[Len(pq.stack)].kind = "upgrade"]
    /\ UNCHANGED <<readying, importsReady, rafs, forced>>

ReadyEnds ==
    /\ pq.stack # <<>> /\ Last(pq.stack).kind = "upgrade"
    /\ pq' = [Returned(pq) EXCEPT !.ceReady = Last(pq.stack).was]
    /\ rafs' = TRUE
    /\ UNCHANGED <<readying, importsReady, forced>>

FlushReadyCallbacks ==
    /\ rafs /\ pq.stack = <<>>
    /\ rafs' = FALSE
    /\ pq' = Called(pq, [kind |-> "callbacks"])
    /\ UNCHANGED <<readying, importsReady, forced>>

NextCallback ==
    /\ pq.stack # <<>> /\ Last(pq.stack).kind = "callbacks"
    /\ pq' = IF pq.callbacks = <<>> THEN Returned(pq) ELSE [pq EXCEPT !.callbacks = Tail(@)]
    /\ UNCHANGED <<readying, importsReady, rafs, forced>>

(***************************************************************************)
(* The page: as a task of its own, or called by a step of the queue.       *)
(***************************************************************************)
PageRuns == pq.stack # <<>> => Last(pq.stack).kind \in {"flush", "upgrade", "callbacks"}

\* A polymer-element is made, by the parser or by the page.
CreateDefinition(d) ==
    /\ PageRuns /\ d \notin ToSet(pq.elements)
    /\ LET made == [pq EXCEPT !.elements = Append(@, d), !.needs = @ \cup {d},
                              !.stack = Append(@, [kind |-> "init", definition |-> d])]
       IN  pq' = IF d \in Styled THEN made
                 ELSE registerWhenReady([made EXCEPT !.needs = @ \ {d}], d)
    /\ UNCHANGED <<readying, importsReady, rafs, forced>>

CallPolymer(d) ==
    /\ PageRuns /\ d \notin pq.prototypes /\ d \notin NoScripts
    /\ pq' = element(pq, d)
    /\ UNCHANGED <<readying, importsReady, rafs, forced>>

whenReady(n) ==
    /\ PageRuns /\ n > 1 /\ n \notin readying \cup ToSet(pq.callbacks)
    /\ readying' = readying \cup {n}
    /\ pq' = [pq EXCEPT !.waitToReady = TRUE]
    /\ UNCHANGED <<importsReady, rafs, forced>>

forceReady ==
    /\ PageRuns /\ forced < MaxForced
    /\ forced' = forced + 1
    /\ pq' = ready(pq)
    /\ UNCHANGED <<readying, importsReady, rafs>>

(***************************************************************************)
(* Tasks.                                                                  *)
(***************************************************************************)
StylesLoaded(d) ==
    /\ pq.stack = <<>> /\ d \in pq.needs
    /\ pq' = registerWhenReady([pq EXCEPT !.needs = @ \ {d}], d)
    /\ UNCHANGED <<readying, importsReady, rafs, forced>>

BecomeReady ==
    /\ pq.stack = <<>> /\ ~ importsReady /\ importsReady' = TRUE
    /\ UNCHANGED <<pq, readying, rafs, forced>>

\* The end of the microtask has come, and so have the imports.
WhenReadyReturns(n) ==
    /\ pq.stack = <<>> /\ importsReady /\ n \in readying
    /\ readying' = readying \ {n}
    /\ pq' = AllAsked(check([pq EXCEPT !.callbacks = Append(@, n), !.waitToReady = FALSE]))
    /\ UNCHANGED <<importsReady, rafs, forced>>

QueueNext ==
    \/ CheckReturns \/ InitReturns \/ FlushNext \/ FlushEnds \/ ReadyEnds
    \/ FlushReadyCallbacks \/ NextCallback \/ forceReady \/ BecomeReady
    \/ \E d \in Definitions : CreateDefinition(d) \/ CallPolymer(d) \/ StylesLoaded(d)
    \/ \E n \in 1..MaxWhenReady : whenReady(n) \/ WhenReadyReturns(n)

QueueSpec == QueueInit /\ [][QueueNext]_queueVars

(***************************************************************************)
(* Properties.                                                             *)
(***************************************************************************)
Place(seq, d) == CHOOSE i \in 1..Len(seq) : seq[i] = d

\* The turn of d came before that of f, or had to.
Before(d, f) ==
    /\ {d, f} \subseteq ToSet(pq.queued) /\ Place(pq.queued, d) < Place(pq.queued, f)
    /\ d \in Imported \/ f \notin Imported

\* Definitions are registered in the order in which they were queued, those of
\* imports first, however long each waits for its prototype and stylesheets and
\* whatever the page does while others are registered.  So what a definition
\* extends, when queued before it, is registered by then and is what it inherits
\* from.  Excluded is a name that another definition extended too early: what it
\* stood for then is kept (prototype.js 126-137).
RegisteredInOrder ==
    \A f \in ToSet(pq.registered) : \A d \in Definitions : Before(d, f) =>
        /\ d \in ToSet(pq.registered) /\ Place(pq.registered, d) < Place(pq.registered, f)
        /\ (Extends[f] = d /\ \A e \in ToSet(pq.registered) : Extends[e] = d => Before(d, e)) => pq.base[f] = d

\* It still needs something of its own.
Lacking(d) == d \notin pq.prototypes \/ d \in pq.needs

\* Nothing waits for ever: when the queue is at rest and everybody was told to
\* go on, either all definitions are registered and whoever asked for
\* polymer-ready is called, or one of them still lacks something itself, and
\* then so does the one at the head of the queue.
NothingWaits ==
    pq.stack = <<>> /\ readying = {} =>
        /\ pq.ceReady /\ ~ pq.flushing
        /\ \A d \in ToSet(pq.elements) : d \in ToSet(pq.queued) \/ d \notin pq.prototypes
        /\ nextQueued(pq) # <<>> => Lacking(Head(nextQueued(pq)))
        /\ \/ \E d \in ToSet(pq.elements) : Lacking(d)
           \/ /\ ToSet(pq.elements) = ToSet(pq.registered)
              /\ pq.callbacks # <<>> => rafs

\* Definitions come in any order and lack this or that: they are registered in
\* the order of the queue, and it only rests when there is nothing it could do.
QueueKept == RegisteredInOrder /\ NothingWaits
===============================================================================
