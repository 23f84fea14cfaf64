---------------------------- MODULE ObjectChanges ----------------------------
(***************************************************************************)
(* The object observers of observe-js: the differences they report of an   *)
(* object's properties, from the records of a browser with Object.observe  *)
(* (diffObjectFromChangeRecords) or from a copy of the object as it was    *)
(* (diffObjectFromOldObject), and the ObservedObjects with which observers *)
(* take records and which are used again when an observer is closed.       *)
(***************************************************************************)
EXTENDS Integers, Sequences, FiniteSets, SequencesExt

CONSTANTS Objects,      \* observed objects, each with one observer at a time
          Props,        \* the properties an object may have
          PropValues,   \* their values
          Absent,       \* what a property the object does not have reads as
          MaxChanges    \* bound: the changes made by the page

ASSUME ObjectAssumption == IsFiniteSet(Objects) /\ Absent \notin PropValues /\ MaxChanges \in Nat

VARIABLES object,        \* object -> its properties
          observedBy,    \* object -> the ObservedObject of its open observer, or 0
          recordsOf,     \* ObservedObject -> the records its callback has not had
          cached,        \* observedObjectCache, the last one is taken first
          oldObject_,    \* object -> the copy the observer has of it
          told,          \* object -> what the listener knows of it
          changes        \* how much of the bound was used

objectVars == <<object, observedBy, recordsOf, cached, oldObject_, told, changes>>

\* There is never more than one ObservedObject per object.
Dirs == 1 .. Cardinality(Objects)

(***************************************************************************)
(* The two ways to the difference: added, removed and changed properties   *)
(* with their new values, and the values they had.                         *)
(***************************************************************************)
diffObjectFromOldObject(new, old) ==
    [added   |-> {p \in Props : old[p] = Absent /\ new[p] # Absent},
     removed |-> {p \in Props : old[p] # Absent /\ new[p] = Absent},
     changed |-> {p \in Props : Absent \notin {old[p], new[p]} /\ old[p] # new[p]}]

\* One record of the loop.  The first record of a property has the value it had.
takeRecord(st, record) ==
    LET p == record.name
        known == st.known \cup {p}
        old == IF p \in st.known THEN st.old ELSE [st.old EXCEPT ![p] = record.oldValue]
    IN  CASE record.type = "update" -> [st EXCEPT !.known = known, !.old = old]
          [] record.type = "add" /\ p \in st.removed ->
                 [st EXCEPT !.known = known, !.old = old, !.removed = @ \ {p}]
          [] record.type = "add" /\ p \notin st.removed ->
                 [st EXCEPT !.known = known, !.old = old, !.added = @ \cup {p}]
          [] record.type = "delete" /\ p \in st.added ->
                 [st EXCEPT !.known = known \ {p}, !.old = [old EXCEPT ![p] = Absent],
                            !.added = @ \ {p}]
          [] OTHER -> [st EXCEPT !.known = known, !.old = old, !.removed = @ \cup {p}]

noRecord == [added |-> {}, removed |-> {}, known |-> {}, old |-> [p \in Props |-> Absent]]

afterRecords(records) ==
    LET after[n \in 0 .. Len(records)] ==
            IF n = 0 THEN noRecord ELSE takeRecord(after[n - 1], records[n])
    IN  after[Len(records)]

diffObjectFromChangeRecords(new, records) ==
    LET end == afterRecords(records) IN
    [added   |-> end.added,
     removed |-> end.removed,
     changed |-> {p \in end.known \ (end.added \cup end.removed) : end.old[p] # new[p]}]

(***************************************************************************)
(* The page and its observers.                                             *)
(***************************************************************************)
ObjectInit ==
    /\ object \in [Objects -> [Props -> PropValues \cup {Absent}]]
    /\ observedBy = [x \in Objects |-> 0]
    /\ recordsOf = [d \in Dirs |-> <<>>]
    /\ cached = <<>>
    /\ oldObject_ = object
    /\ told = object
    /\ changes = 0

\* A property is added, deleted or updated; who observes the object gets a record.
Change(x, p, v) ==
    LET old == object[x][p]
        type == CASE old = Absent -> "add" [] v = Absent -> "delete" [] OTHER -> "update"
        record == [type |-> type, name |-> p, oldValue |-> old]
    IN  /\ changes < MaxChanges
        /\ old # v
        /\ object' = [object EXCEPT ![x][p] = v]
        /\ recordsOf' = [d \in Dirs |-> IF d = observedBy[x] THEN Append(recordsOf[d], record)
                                        ELSE recordsOf[d]]
        /\ changes' = changes + 1
        /\ UNCHANGED <<observedBy, cached, oldObject_, told>>

\* Mutant: the records of the observer before are left to the new one.
DeliveredBeforeKept(d) == recordsOf

\* open of an ObservedObject: records that were made for the observer before are
\* delivered to nobody.
DeliveredBefore(d) == [recordsOf EXCEPT ![d] = <<>>]

\* connect_: an ObservedObject out of the cache, or a new one; the copy.
OpenObserver(x) ==
    LET taken == {cached[i] : i \in DOMAIN cached} \cup {observedBy[y] : y \in Objects}
        d == IF cached # <<>> THEN Last(cached) ELSE CHOOSE n \in Dirs : n \notin taken
    IN  /\ observedBy[x] = 0
        /\ observedBy' = [observedBy EXCEPT ![x] = d]
        /\ cached' = IF cached = <<>> THEN cached ELSE Front(cached)
        /\ recordsOf' = DeliveredBefore(d)
        /\ oldObject_' = [oldObject_ EXCEPT ![x] = object[x]]
        /\ told' = [told EXCEPT ![x] = object[x]]
        /\ UNCHANGED <<object, changes>>

\* disconnect_: what has been recorded stays with the ObservedObject.
CloseObserver(x) ==
    /\ observedBy[x] # 0
    /\ cached' = Append(cached, observedBy[x])
    /\ observedBy' = [observedBy EXCEPT ![x] = 0]
    /\ UNCHANGED <<object, recordsOf, oldObject_, told, changes>>

diffOf(x) == diffObjectFromChangeRecords(object[x], recordsOf[observedBy[x]])

\* What a listener makes of a difference.
applied(known, new, diff) ==
    [p \in Props |-> CASE p \in diff.added \cup diff.changed -> new[p]
                       [] p \in diff.removed -> Absent
                       [] OTHER -> known[p]]

\* check_: the records are delivered, by the browser or by deliver().
CheckObject(x) ==
    /\ observedBy[x] # 0
    /\ recordsOf[observedBy[x]] # <<>>
    /\ told' = [told EXCEPT ![x] = applied(told[x], object[x], diffOf(x))]
    /\ oldObject_' = [oldObject_ EXCEPT ![x] = object[x]]
    /\ recordsOf' = [recordsOf EXCEPT ![observedBy[x]] = <<>>]
    /\ UNCHANGED <<object, observedBy, cached, changes>>

\* discardChanges: the caller knows the object, and no report follows.
DiscardObject(x) ==
    /\ observedBy[x] # 0
    /\ told' = [told EXCEPT ![x] = object[x]]
    /\ oldObject_' = [oldObject_ EXCEPT ![x] = object[x]]
    /\ recordsOf' = [recordsOf EXCEPT ![observedBy[x]] = <<>>]
    /\ UNCHANGED <<object, observedBy, cached, changes>>

ObjectNext ==
    \E x \in Objects :
        \/ \E p \in Props, v \in PropValues \cup {Absent} : Change(x, p, v)
        \/ OpenObserver(x) \/ CloseObserver(x) \/ CheckObject(x) \/ DiscardObject(x)

ObjectSpec == ObjectInit /\ [][ObjectNext]_objectVars

----------------------------------------------------------------------------
\* A browser with records and one without report the same difference for any
\* changes in between, it leads a listener to the object as it is, and the old
\* value of a property is the one the listener knew (diffObjectFromChangeRecords,
\* diffObjectFromOldObject, newObservedObject), also if the ObservedObject was
\* used for another object before and closed with records not delivered.
DiffsAgree ==
    \A x \in Objects : observedBy[x] # 0 =>
        /\ diffOf(x) = diffObjectFromOldObject(object[x], oldObject_[x])
        /\ applied(told[x], object[x], diffOf(x)) = object[x]
        /\ \A p \in diffOf(x).changed \cup diffOf(x).removed :
              afterRecords(recordsOf[observedBy[x]]).old[p] = told[x][p]
=============================================================================
