--------------------------- MODULE ShadowMutations ---------------------------
(***************************************************************************)
(* Mutation observers of the ShadowDOM polyfill: registrations on nodes,   *)
(* the transient ones that follow a removed node until the next delivery,  *)
(* the records that mutations enqueue, and notifyObservers, which runs at  *)
(* the end of the microtask and calls back into the page.                  *)
(***************************************************************************)
EXTENDS Integers, Sequences, FiniteSets, SequencesExt, Filtering

CONSTANTS NumObservers,    \* the number of MutationObservers; uid_ is 1, 2, ...
          Nodes,           \* nodes of the tree
          FirstParent,     \* the tree at the start: node -> its parent, or None
          None,
          RawOptions,      \* the options objects pages pass to observe
          MaxMutations,    \* bound: mutations of the tree
          MaxCalls,        \* bound: calls of observe, disconnect and takeRecords
          CallbacksThrow   \* whether callbacks of the page throw

MutationObservers == 1 .. NumObservers
RecordTypes == {"attributes", "characterData", "childList"}

ASSUME MutationAssumption ==
    /\ IsFiniteSet(Nodes) /\ NumObservers \in Nat /\ MaxMutations \in Nat /\ MaxCalls \in Nat
    /\ None \notin Nodes /\ None \notin MutationObservers
    /\ None \notin [subtree : BOOLEAN, types : SUBSET RecordTypes]
    /\ FirstParent \in [Nodes -> Nodes \cup {None}]
    /\ CallbacksThrow \in BOOLEAN

VARIABLES
    parent,        \* the tree
    registration,  \* the Registrations made, numbered in order
    registrations, \* node -> the numbers in its registrationsTable
    nodes_,        \* observer -> the nodes it was told to observe
    records_,      \* observer -> the mutations it has not been told of
    scheduled_,    \* observer -> whether it is in a list to be notified
    globalMutationObservers,  \* the observers to notify; the list is sorted when taken
    isScheduled,   \* whether notifyObservers runs at the end of the microtask
    notifying,     \* notifyObservers is running
    notifyList,    \* what is left of its list, in the order of uid_
    calling,       \* the observer whose callback runs, or None
    mutations, calls,      \* how much of the bounds was used
    heard,         \* history: observer -> the mutations it was told of, in order
    owed,          \* history: observer -> those that concerned it
    watched,       \* history: observer -> node -> how it observes it, or None
    gone,          \* history: observer -> what left a subtree since it was called
    misheard,       \* history: observers in a case the polyfill gets wrong
    dropped        \* history: observers in a list that a throwing callback ended

lightDom     == <<parent, mutations>>
table   == <<registration, registrations, nodes_>>
queue   == <<records_, scheduled_, globalMutationObservers, isScheduled>>
loop    == <<notifying, notifyList, calling>>
history == <<heard, owed, watched, gone, misheard, dropped>>
mutationVars == <<parent, mutations, registration, registrations, nodes_, records_, scheduled_,
                  globalMutationObservers, isScheduled, notifying, notifyList, calling, calls,
                  heard, owed, watched, gone, misheard, dropped>>

MutationInit ==
    /\ parent = FirstParent
    /\ registration = <<>>
    /\ registrations = [n \in Nodes |-> <<>>]
    /\ nodes_ = [o \in MutationObservers |-> <<>>]
    /\ records_ = [o \in MutationObservers |-> <<>>]
    /\ scheduled_ = [o \in MutationObservers |-> FALSE]
    /\ globalMutationObservers = {}
    /\ isScheduled = FALSE
    /\ notifying = FALSE /\ notifyList = {} /\ calling = None
    /\ mutations = 0 /\ calls = 0
    /\ heard = [o \in MutationObservers |-> <<>>]
    /\ owed = [o \in MutationObservers |-> <<>>]
    /\ watched = [o \in MutationObservers |-> [n \in Nodes |-> None]]
    /\ gone = [o \in MutationObservers |-> {}]
    /\ misheard = {} /\ dropped = {}

\* A node and its ancestors, from the node up.
PathUp(n) ==
    LET path[k \in 0 .. Cardinality(Nodes)] ==
            IF k = 0 THEN <<n>>
            ELSE LET p == parent[Last(path[k - 1])]
                 IN  IF p = None THEN path[k - 1] ELSE Append(path[k - 1], p)
    IN  path[Cardinality(Nodes)]

IsAncestor(m, n) == Contains(PathUp(n), m)   \* or the node itself

(***************************************************************************)
(* Options.  A member is omitted, or a value that is false or true.        *)
(***************************************************************************)
IsTrue(member)  == member = "true"
IsGiven(member) == member # "omitted"

\* <<>> if the constructor throws.  Whatever is made of characterData, the value
\* given is taken in the end.
MutationObserverOptions(raw) ==
    LET attributes == IF ~IsGiven(raw.attributes)
                      THEN IsGiven(raw.attributeOldValue) \/ IsGiven(raw.attributeFilter)
                      ELSE IsTrue(raw.attributes)
        characterData == IF ~IsGiven(raw.characterData) /\ IsGiven(raw.characterDataOldValue)
                         THEN TRUE ELSE IsTrue(raw.characterData)
        refused == \/ ~attributes /\ (IsTrue(raw.attributeOldValue) \/ IsGiven(raw.attributeFilter))
                   \/ ~characterData /\ IsTrue(raw.characterDataOldValue)
    IN  IF refused THEN <<>>
        ELSE << [subtree |-> IsTrue(raw.subtree),
                 types |-> {t \in RecordTypes : CASE t = "attributes" -> attributes
                                            [] t = "characterData" -> IsTrue(raw.characterData)
                                            [] t = "childList" -> IsTrue(raw.childList)}] >>

(***************************************************************************)
(* Scheduling, and the records of a mutation.                              *)
(***************************************************************************)
\* Mutant: an observer that is told again while notifyObservers runs is left to
\* the list that is being worked off.
scheduleCallbackOnce(os) ==
    LET new == {o \in os : ~scheduled_[o] /\ ~notifying} IN
    /\ globalMutationObservers' = globalMutationObservers \cup new
    /\ scheduled_' = [o \in MutationObservers |-> scheduled_[o] \/ o \in os]
    /\ isScheduled' = (isScheduled \/ new # {})

\* scheduleCallback of each of os.
scheduleCallback(os) ==
    LET new == {o \in os : ~scheduled_[o]} IN
    /\ globalMutationObservers' = globalMutationObservers \cup new
    /\ scheduled_' = [o \in MutationObservers |-> scheduled_[o] \/ o \in os]
    /\ isScheduled' = (isScheduled \/ new # {})

\* The observers that a registration on the way up makes interested.
interestedObservers(target, type) ==
    {o \in MutationObservers :
        \E n \in ToSet(PathUp(target)) : \E i \in DOMAIN registrations[n] :
            LET r == registration[registrations[n][i]] IN
            /\ r.observer = o
            /\ n = target \/ r.options.subtree
            /\ type \in r.options.types}

\* Who ought to hear of it: those who observe the node, or a subtree it is in or
\* has left since they were last called.
Concerned(target, type) ==
    {o \in MutationObservers :
        \E n \in Nodes :
            /\ watched[o][n] # None
            /\ type \in watched[o][n].types
            /\ \/ n = target
               \/ watched[o][n].subtree /\ IsAncestor(n, target)
               \/ \E left \in gone[o] : left[1] = n /\ IsAncestor(left[2], target)}

\* The number of the mutation is its record.
Enqueued(os) ==
    records_' = [o \in MutationObservers |->
                    IF o \in os THEN Append(records_[o], mutations + 1) ELSE records_[o]]
Owes(os) ==
    owed' = [o \in MutationObservers |->
                IF o \in os THEN Append(owed[o], mutations + 1) ELSE owed[o]]

(***************************************************************************)
(* Transient registrations.                                                *)
(***************************************************************************)
\* The table without the first registration on n that is one of rs.
Removed(table1, rs, n) ==
    LET first == SelectInSeq(table1[n], LAMBDA q : q \in rs) IN
    IF first = 0 THEN table1 ELSE [table1 EXCEPT ![n] = RemoveAt(@, first)]

\* The same for one node after the other.
RemovedOn(table1, rs, nodes) ==
    LET left[k \in 0 .. Len(nodes)] ==
            IF k = 0 THEN table1 ELSE Removed(left[k - 1], rs, nodes[k])
    IN  left[Len(nodes)]

\* removeTransientObservers, on a record of the two variables it changes.
removeTransientObservers(h, r) ==
    [reg   |-> [h.reg EXCEPT ![r].transientObservedNodes = <<>>],
     table |-> RemovedOn(h.table, {r}, h.reg[r].transientObservedNodes)]

heap == [reg |-> registration, table |-> registrations]

\* A registration is left without transient ones, and with the options if there
\* are any.
renewed(h, r, options) ==
    LET alone == removeTransientObservers(h, r) IN
    IF options = <<>> THEN alone ELSE [alone EXCEPT !.reg[r].options = options[1]]

\* The same for every registration of o on n; the loop goes on in the list that it
\* takes elements out of.
ForRegistrations(h, o, n, options) ==
    LET turn[j \in 0 .. Len(h.table[n])] ==
            IF j = 0 THEN h
            ELSE LET h1 == turn[j - 1] IN
                 IF j > Len(h1.table[n]) \/ h1.reg[h1.table[n][j]].observer # o THEN h1
                 ELSE renewed(h1, h1.table[n][j], options)
    IN  turn[Len(h.table[n])]

\* Mutant: the transient registrations stay.
removeTransientObserversForNone(o) == heap

removeTransientObserversFor(o) ==
    LET after[k \in 0 .. Len(nodes_[o])] ==
            IF k = 0 THEN heap ELSE ForRegistrations(after[k - 1], o, nodes_[o][k], <<>>)
    IN  after[Len(nodes_[o])]

\* addTransientObserver for every subtree registration from ancestor up.
transientOf(ancestor, node) ==
    LET path == PathUp(ancestor)
        adding == {r \in DOMAIN registration :
                      registration[r].options.subtree /\ registration[r].target # node}
        added[k \in 0 .. Len(path)] ==
            IF k = 0 THEN <<>> ELSE added[k - 1] \o Filtered(registrations[path[k]], adding)
    IN  added[Len(path)]

\* How often x is in a sequence.
TimesIn(x, s) == Cardinality({i \in DOMAIN s : s[i] = x})

registerTransientObservers(ancestor, node) ==
    LET rs == transientOf(ancestor, node) IN
    /\ registration' = [r \in DOMAIN registration |->
          [registration[r] EXCEPT !.transientObservedNodes =
              @ \o [k \in 1 .. TimesIn(r, rs) |-> node]]]
    /\ registrations' = [registrations EXCEPT ![node] = @ \o rs]

SetHeap(h) == registration' = h.reg /\ registrations' = h.table

(***************************************************************************)
(* The page, at the top of its stack or in a callback.                     *)
(***************************************************************************)
PageRuns == notifying => calling # None

Call == PageRuns /\ calls < MaxCalls /\ calls' = calls + 1

observe(o, target, raw) ==
    LET options == MutationObserverOptions(raw)
        mine(h) == {i \in DOMAIN h.table[target] :
                       h.reg[h.table[target][i]].observer = o}
        transient == {left \in gone[o] : left[1] = target}
    IN  /\ Call
        /\ options # <<>>
        /\ IF mine(heap) = {}
           THEN /\ registration' = Append(registration,
                      [observer |-> o, target |-> target, options |-> options[1],
                       transientObservedNodes |-> <<>>])
                /\ registrations' = [registrations EXCEPT ![target] =
                                        Append(@, Len(registration) + 1)]
                /\ nodes_' = [nodes_ EXCEPT ![o] = Append(@, target)]
           ELSE SetHeap(ForRegistrations(heap, o, target, options)) /\ UNCHANGED nodes_
        /\ watched' = [watched EXCEPT ![o][target] = options[1]]
        /\ gone' = [gone EXCEPT ![o] = @ \ transient]
        \* A transient registration takes the options meant for a new one.
        /\ misheard' = IF \E i \in mine(heap) :
                            registration[registrations[target][i]].target # target
                      THEN misheard \cup {o} ELSE misheard
        /\ UNCHANGED <<lightDom, queue, loop, heard, owed, dropped>>

\* Options that the constructor refuses: the call throws.
observeRefused(o, target, raw) ==
    /\ Call
    /\ MutationObserverOptions(raw) = <<>>
    /\ UNCHANGED <<lightDom, table, queue, loop, history>>

\* The first registration of the observer on each node goes; transient ones stay.
disconnect(o) ==
    LET own == {r \in DOMAIN registration : registration[r].observer = o} IN
    /\ Call
    /\ registrations' = RemovedOn(registrations, own, nodes_[o])
    /\ records_' = [records_ EXCEPT ![o] = <<>>]
    /\ watched' = [watched EXCEPT ![o] = [n \in Nodes |-> None]]
    /\ owed' = [owed EXCEPT ![o] = heard[o]]
    /\ gone' = [gone EXCEPT ![o] = {}]
    /\ misheard' = IF gone[o] = {} THEN misheard ELSE misheard \cup {o}
    /\ UNCHANGED <<lightDom, registration, nodes_, scheduled_, globalMutationObservers, isScheduled,
                   loop, heard, dropped>>

takeRecords(o) ==
    /\ Call
    /\ records_' = [records_ EXCEPT ![o] = <<>>]
    /\ heard' = [heard EXCEPT ![o] = @ \o records_[o]]
    /\ UNCHANGED <<lightDom, table, scheduled_, globalMutationObservers, isScheduled, loop,
                   owed, watched, gone, misheard, dropped>>

\* enqueueMutation of one record.
enqueueMutation(target, type) ==
    LET os == interestedObservers(target, type) IN
    /\ PageRuns
    /\ mutations < MaxMutations
    /\ mutations' = mutations + 1
    /\ scheduleCallback(os)
    /\ Enqueued(os)
    /\ Owes(Concerned(target, type))
    /\ UNCHANGED <<nodes_, loop, calls, heard, watched, misheard, dropped>>

\* An attribute or the data of a node changes.
ChangeNode(n, type) ==
    /\ type # "childList"
    /\ enqueueMutation(n, type)
    /\ UNCHANGED <<parent, registration, registrations, gone>>

\* appendChild of a node that has no parent.
appendLightChild(p, n) ==
    /\ parent[n] = None /\ ~IsAncestor(n, p)
    /\ parent' = [parent EXCEPT ![n] = p]
    /\ enqueueMutation(p, "childList")
    /\ UNCHANGED <<registration, registrations, gone>>

\* removeChild: the record first, then the transient registrations, which
\* schedule their observers, even those who have no record.
removeLightChild(n) ==
    LET p == parent[n]
        interested == interestedObservers(p, "childList")
        following == {o \in MutationObservers :
                         \E r \in ToSet(transientOf(p, n)) : registration[r].observer = o}
        left(o) == {<<t, n>> : t \in {m \in Nodes :
                        /\ watched[o][m] # None /\ watched[o][m].subtree
                        /\ m # n
                        /\ \/ IsAncestor(m, p)
                           \/ \E g \in gone[o] : g[1] = m /\ IsAncestor(g[2], p)}}
    IN  /\ PageRuns
        /\ p # None
        /\ mutations < MaxMutations
        /\ mutations' = mutations + 1
        /\ parent' = [parent EXCEPT ![n] = None]
        /\ scheduleCallback(interested \cup following)
        /\ Enqueued(interested)
        /\ Owes(Concerned(p, "childList"))
        /\ registerTransientObservers(p, n)
        /\ gone' = [o \in MutationObservers |-> gone[o] \cup left(o)]
        /\ UNCHANGED <<nodes_, loop, calls, heard, watched, misheard, dropped>>

(***************************************************************************)
(* notifyObservers                                                         *)
(***************************************************************************)
StartNotify ==
    /\ ~notifying /\ isScheduled
    /\ isScheduled' = FALSE
    /\ notifying' = TRUE
    /\ UNCHANGED <<lightDom, table, records_, scheduled_, globalMutationObservers, notifyList, calling,
                   calls, history>>

\* The while loop takes the list.
TakeList ==
    /\ notifying /\ calling = None /\ notifyList = {}
    /\ globalMutationObservers # {}
    /\ notifyList' = globalMutationObservers
    /\ globalMutationObservers' = {}
    /\ UNCHANGED <<lightDom, table, records_, scheduled_, isScheduled, notifying, calling, calls, history>>

\* The next observer, in the order of uid_; it is called if there is anything to tell.
NotifyNext ==
    /\ notifying /\ calling = None
    /\ \E o \in notifyList :
       /\ \A p \in notifyList : o <= p
       /\ notifyList' = notifyList \ {o}
       /\ scheduled_' = [scheduled_ EXCEPT ![o] = FALSE]
       /\ records_' = [records_ EXCEPT ![o] = <<>>]
       /\ heard' = [heard EXCEPT ![o] = @ \o records_[o]]
       /\ SetHeap(removeTransientObserversFor(o))
       /\ gone' = [gone EXCEPT ![o] = {}]
       /\ calling' = IF records_[o] # <<>> THEN o ELSE None
    /\ UNCHANGED <<lightDom, nodes_, globalMutationObservers, isScheduled, notifying, calls,
                   owed, watched, misheard, dropped>>

CallbackReturns ==
    /\ calling # None
    /\ calling' = None
    /\ UNCHANGED <<lightDom, table, queue, notifying, notifyList, calls, history>>

\* A callback that throws ends notifyObservers, and the rest of the list is lost.
CallbackThrows ==
    /\ CallbacksThrow /\ calling # None
    /\ calling' = None
    /\ notifying' = FALSE
    /\ notifyList' = {}
    /\ dropped' = dropped \cup notifyList
    /\ UNCHANGED <<lightDom, table, queue, calls, heard, owed, watched, gone, misheard>>

EndNotify ==
    /\ notifying /\ calling = None /\ notifyList = {} /\ globalMutationObservers = {}
    /\ notifying' = FALSE
    /\ UNCHANGED <<lightDom, table, queue, notifyList, calling, calls, history>>

MutationNext ==
    \/ \E o \in MutationObservers :
          \/ \E n \in Nodes, raw \in RawOptions : observe(o, n, raw) \/ observeRefused(o, n, raw)
          \/ disconnect(o)
          \/ takeRecords(o)
    \/ \E n \in Nodes :
          \/ \E type \in RecordTypes : ChangeNode(n, type)
          \/ \E p \in Nodes : appendLightChild(p, n)
          \/ removeLightChild(n)
    \/ StartNotify \/ TakeList \/ NotifyNext \/ CallbackReturns \/ CallbackThrows \/ EndNotify

MutationSpec == MutationInit /\ [][MutationNext]_mutationVars

----------------------------------------------------------------------------
(***************************************************************************)
(* Properties                                                              *)
(***************************************************************************)
\* Every observer hears of every mutation that concerns it, of each once and in
\* order, also of those in what has left its subtree since it was last called,
\* and of no other: what it was told and what it is about to be told is what is
\* owed to it (enqueueMutation, registerTransientObservers, notifyObservers).
MutationsHeard ==
    \A o \in MutationObservers \ misheard : heard[o] \o records_[o] = owed[o]

\* No record is stranded: an observer that has one is in a list, and a list that
\* is waiting has a notifyObservers to come or under way, whatever callbacks do
\* in the middle of it; but for those a throwing callback leaves behind
\* (scheduleCallback, notifyObservers).
NothingStranded ==
    /\ \A o \in MutationObservers \ dropped :
          records_[o] # <<>> => o \in globalMutationObservers \cup notifyList
    /\ globalMutationObservers # {} => isScheduled \/ notifying
    /\ notifyList # {} => notifying
=============================================================================
