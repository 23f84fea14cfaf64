---------------------------- MODULE Observe_proofs -----------------------------
(***************************************************************************)
(* Proofs about observe-js: that the differences of ObjectChanges agree,   *)
(* by induction on the records, that the checkpoints of ObserveCheckpoint  *)
(* miss nothing, and that the planner of constraints finds a sound plan if *)
(* there is one.                                                           *)
(***************************************************************************)
EXTENDS ObjectChanges, ObserveCheckpoint, Planner, SequenceLemmas, FunctionTheorems, FiniteSetTheorems

Held == PropValues \cup {Absent}
Records == [type : {"add", "delete", "update"}, name : Props, oldValue : Held]
LoopStates == [added : SUBSET Props, removed : SUBSET Props, known : SUBSET Props, old : [Props -> Held]]

(***************************************************************************)
(* The loop of diffObjectFromChangeRecords, by induction on the records.   *)
(***************************************************************************)
\* What the loop knows before each record, as far as the n-th.
Runs(f, records, n) ==
    f = [i \in 0 .. n |-> IF i = 0 THEN noRecord ELSE takeRecord(f[i - 1], records[i])]

LEMMA RunExists ==
  ASSUME NEW records, NEW n \in Nat
  PROVE  \E f : Runs(f, records, n)
<1> DEFINE S == {k \in Nat : \E f : Runs(f, records, k)}
<1>1. 0 \in S
  <2>1. Runs([i \in 0 .. 0 |-> noRecord], records, 0) BY DEF Runs
  <2> QED BY <2>1
<1>2. \A k \in Nat : k \in S => k + 1 \in S
  <2> SUFFICES ASSUME NEW k \in Nat, NEW f, Runs(f, records, k)
               PROVE  \E g : Runs(g, records, k + 1)
      OBVIOUS
  <2> DEFINE g == [i \in 0 .. k + 1 |-> IF i = k + 1 THEN takeRecord(f[k], records[k + 1]) ELSE f[i]]
  <2>1. \A i \in 0 .. k : f[i] = IF i = 0 THEN noRecord ELSE takeRecord(f[i - 1], records[i])
      BY DEF Runs
  <2>2. \A i \in 0 .. k + 1 : g[i] = IF i = 0 THEN noRecord ELSE takeRecord(g[i - 1], records[i])
    <3> TAKE i \in 0 .. k + 1
    <3>1. CASE i = k + 1
      <4>1. g[i - 1] = f[k] BY <3>1
      <4> QED BY <3>1, <4>1
    <3>2. CASE i \in 0 .. k
      <4>1. i # 0 => g[i - 1] = f[i - 1] BY <3>2
      <4> QED BY <3>2, <4>1, <2>1
    <3> QED BY <3>1, <3>2
  <2>3. Runs(g, records, k + 1)
    <3> HIDE DEF g
    <3>1. g = [i \in 0 .. k + 1 |-> g[i]] BY DEF g
    <3> QED BY <2>2, <3>1 DEF Runs
  <2> QED BY <2>3
<1> HIDE DEF S
<1>3. Nat \subseteq S BY <1>1, <1>2, SetInduction
<1> QED BY <1>3 DEF S

\* Two runs over records that are the same as far as the n-th are the same so far.
LEMMA RunsAgree ==
  ASSUME NEW r, NEW s, NEW m \in Nat, NEW n \in Nat, n <= m, NEW f, NEW g,
         Runs(f, r, n), Runs(g, s, m), \A i \in 1 .. n : r[i] = s[i]
  PROVE  f[n] = g[n]
<1> DEFINE S == {k \in Nat : k <= n => f[k] = g[k]}
<1>1. 0 \in S BY DEF Runs
<1>2. \A k \in Nat : k \in S => k + 1 \in S
  <2> SUFFICES ASSUME NEW k \in Nat, f[k] = g[k], k + 1 <= n
               PROVE  f[k + 1] = g[k + 1]
      OBVIOUS
  <2>1. f[k + 1] = takeRecord(f[k], r[k + 1]) BY DEF Runs
  <2>2. g[k + 1] = takeRecord(g[k], s[k + 1]) BY DEF Runs
  <2> QED BY <2>1, <2>2
<1> HIDE DEF S
<1>3. Nat \subseteq S BY <1>1, <1>2, SetInduction
<1> QED BY <1>3 DEF S

LEMMA AfterIsRun ==
  ASSUME NEW records, Len(records) \in Nat
  PROVE  \E f : Runs(f, records, Len(records)) /\ afterRecords(records) = f[Len(records)]
<1> DEFINE f == CHOOSE h : Runs(h, records, Len(records))
<1>1. afterRecords(records) = f[Len(records)] BY DEF afterRecords, Runs
<1>2. Runs(f, records, Len(records)) BY RunExists
<1> QED BY <1>1, <1>2

\* The loop over no records, and over one more.
LEMMA AfterNone == afterRecords(<<>>) = noRecord
BY AfterIsRun DEF Runs

LEMMA AfterAppend ==
  ASSUME NEW records \in Seq(Records), NEW r \in Records
  PROVE  afterRecords(Append(records, r)) = takeRecord(afterRecords(records), r)
<1> DEFINE n == Len(records)
           more == Append(records, r)
<1>1. n \in Nat /\ Len(more) = n + 1 /\ (\A i \in 1 .. n : records[i] = more[i]) /\ more[n + 1] = r
  OBVIOUS
<1> HIDE DEF n, more
<1>2. PICK f : Runs(f, records, n) /\ afterRecords(records) = f[n]
  BY <1>1, AfterIsRun DEF n
<1>3. PICK g : Runs(g, more, n + 1) /\ afterRecords(more) = g[n + 1]
  BY <1>1, AfterIsRun
<1>4. f[n] = g[n]
  BY <1>1, <1>2, <1>3, RunsAgree
<1>5. g[n + 1] = takeRecord(g[n], r)
  BY <1>1, <1>3 DEF Runs
<1> QED BY <1>2, <1>3, <1>4, <1>5 DEF more

(***************************************************************************)
(* What the loop makes of the records between two states of an object.     *)
(***************************************************************************)
\* st is what the loop knows when records led from the properties old to new.
Summary(st, old, new) ==
    /\ st \in LoopStates
    /\ st.added = {p \in Props : old[p] = Absent /\ new[p] # Absent}
    /\ st.removed = {p \in Props : old[p] # Absent /\ new[p] = Absent}
    /\ \A p \in Props : IF p \in st.known THEN st.old[p] = old[p] ELSE old[p] = new[p]

recordOf(was, p, v) ==
    [type |-> CASE was = Absent -> "add" [] v = Absent -> "delete" [] OTHER -> "update",
     name |-> p, oldValue |-> was]

LEMMA NothingHappened ==
  ASSUME NEW old \in [Props -> Held]
  PROVE  Summary(noRecord, old, old)
<1>1. noRecord \in LoopStates BY DEF noRecord, LoopStates, Held
<1> QED BY <1>1 DEF Summary, noRecord

\* One more record keeps the summary.
LEMMA TakeKeepsSummary ==
  ASSUME NEW st, NEW old \in [Props -> Held], NEW new \in [Props -> Held], Summary(st, old, new),
         NEW p \in Props, NEW v \in Held, new[p] # v
  PROVE  Summary(takeRecord(st, recordOf(new[p], p, v)), old, [new EXCEPT ![p] = v])
<1> DEFINE r == recordOf(new[p], p, v)
           to == [new EXCEPT ![p] = v]
           known == st.known \cup {p}
           seen == IF p \in st.known THEN st.old ELSE [st.old EXCEPT ![p] = new[p]]
<1>0. st \in LoopStates BY DEF Summary
<1>1. /\ st.added \subseteq Props /\ st.removed \subseteq Props /\ st.known \subseteq Props
      /\ st.old \in [Props -> Held]
  BY <1>0 DEF LoopStates
<1>2. seen \in [Props -> Held] BY <1>1
<1>3. to \in [Props -> Held] /\ to[p] = v /\ \A q \in Props \ {p} : to[q] = new[q] OBVIOUS
<1>4. /\ st.added = {q \in Props : old[q] = Absent /\ new[q] # Absent}
      /\ st.removed = {q \in Props : old[q] # Absent /\ new[q] = Absent}
      /\ \A q \in Props : IF q \in st.known THEN st.old[q] = old[q] ELSE old[q] = new[q]
  BY DEF Summary
<1>5. r.name = p /\ r.oldValue = new[p] BY DEF recordOf
<1>6. /\ seen[p] = old[p]
      /\ \A q \in Props \ {p} : seen[q] = st.old[q]
  BY <1>1, <1>4
<1>7. CASE new[p] # Absent /\ v # Absent
  <2>1. r.type = "update" BY <1>7 DEF recordOf
  <2>2. takeRecord(st, r) = [st EXCEPT !.known = known, !.old = seen]
      BY <2>1, <1>5 DEF takeRecord
  <2>3. takeRecord(st, r) = [added |-> st.added, removed |-> st.removed, known |-> known, old |-> seen]
      BY <2>2, <1>0 DEF LoopStates
  <2> QED BY <2>3, <1>1, <1>2, <1>3, <1>4, <1>6, <1>7 DEF Summary, LoopStates
<1>8. CASE new[p] = Absent /\ p \in st.removed
  <2>1. r.type = "add" BY <1>8 DEF recordOf
  <2>2. takeRecord(st, r) = [st EXCEPT !.known = known, !.old = seen, !.removed = @ \ {p}]
      BY <2>1, <1>5, <1>8 DEF takeRecord
  <2>3. takeRecord(st, r) = [added |-> st.added, removed |-> st.removed \ {p}, known |-> known, old |-> seen]
      BY <2>2, <1>0 DEF LoopStates
  <2> QED BY <2>3, <1>1, <1>2, <1>3, <1>4, <1>6, <1>8 DEF Summary, LoopStates
<1>9. CASE new[p] = Absent /\ p \notin st.removed
  <2>1. r.type = "add" BY <1>9 DEF recordOf
  <2>2. takeRecord(st, r) = [st EXCEPT !.known = known, !.old = seen, !.added = @ \cup {p}]
      BY <2>1, <1>5, <1>9 DEF takeRecord
  <2>3. takeRecord(st, r) = [added |-> st.added \cup {p}, removed |-> st.removed, known |-> known, old |-> seen]
      BY <2>2, <1>0 DEF LoopStates
  <2> QED BY <2>3, <1>1, <1>2, <1>3, <1>4, <1>6, <1>9 DEF Summary, LoopStates
<1>10. CASE new[p] # Absent /\ v = Absent /\ p \in st.added
  <2>1. r.type = "delete" BY <1>10 DEF recordOf
  <2>2. takeRecord(st, r) = [st EXCEPT !.known = known \ {p}, !.old = [seen EXCEPT ![p] = Absent],
                                       !.added = @ \ {p}]
      BY <2>1, <1>5, <1>10 DEF takeRecord
  <2>3. takeRecord(st, r) = [added |-> st.added \ {p}, removed |-> st.removed, known |-> known \ {p},
                             old |-> [seen EXCEPT ![p] = Absent]]
      BY <2>2, <1>0 DEF LoopStates
  <2>4. [seen EXCEPT ![p] = Absent] \in [Props -> Held] BY <1>2 DEF Held
  <2>5. \A q \in Props \ {p} : [seen EXCEPT ![p] = Absent][q] = st.old[q] BY <1>2, <1>6
  <2> QED BY <2>3, <2>4, <2>5, <1>1, <1>3, <1>4, <1>10 DEF Summary, LoopStates
<1>11. CASE new[p] # Absent /\ v = Absent /\ p \notin st.added
  <2>1. r.type = "delete" BY <1>11 DEF recordOf
  <2>2. takeRecord(st, r) = [st EXCEPT !.known = known, !.old = seen, !.removed = @ \cup {p}]
      BY <2>1, <1>5, <1>11 DEF takeRecord
  <2>3. takeRecord(st, r) = [added |-> st.added, removed |-> st.removed \cup {p}, known |-> known, old |-> seen]
      BY <2>2, <1>0 DEF LoopStates
  <2> QED BY <2>3, <1>1, <1>2, <1>3, <1>4, <1>6, <1>11 DEF Summary, LoopStates
<1> QED BY <1>7, <1>8, <1>9, <1>10, <1>11

\* The two ways to the difference agree, and a listener can follow either.
LEMMA SummaryIsDifference ==
  ASSUME NEW records, NEW old \in [Props -> Held], NEW new \in [Props -> Held],
         Summary(afterRecords(records), old, new)
  PROVE  LET diff == diffObjectFromChangeRecords(new, records) IN
         /\ diff = diffObjectFromOldObject(new, old)
         /\ applied(old, new, diff) = new
         /\ \A p \in diff.changed \cup diff.removed : afterRecords(records).old[p] = old[p]
<1> DEFINE st == afterRecords(records)
           changed == {p \in st.known \ (st.added \cup st.removed) : st.old[p] # new[p]}
<1>1. /\ st.known \subseteq Props
      /\ st.added = {p \in Props : old[p] = Absent /\ new[p] # Absent}
      /\ st.removed = {p \in Props : old[p] # Absent /\ new[p] = Absent}
      /\ \A p \in Props : IF p \in st.known THEN st.old[p] = old[p] ELSE old[p] = new[p]
  BY DEF Summary, LoopStates
<1>2. diffObjectFromChangeRecords(new, records) = [added |-> st.added, removed |-> st.removed, changed |-> changed]
  BY DEF diffObjectFromChangeRecords
<1> HIDE DEF st
<1>3. changed = {p \in Props : Absent \notin {old[p], new[p]} /\ old[p] # new[p]}
  BY <1>1
<1>4. \A p \in changed \cup st.removed : st.old[p] = old[p]
  BY <1>1
<1>5. diffObjectFromChangeRecords(new, records) = diffObjectFromOldObject(new, old)
  BY <1>1, <1>2, <1>3 DEF diffObjectFromOldObject
<1>6. applied(old, new, diffObjectFromOldObject(new, old)) = new
  BY DEF applied, diffObjectFromOldObject
<1> DEFINE diff == diffObjectFromChangeRecords(new, records)
<1>7. diff.changed \cup diff.removed = changed \cup st.removed BY <1>2
<1> HIDE DEF changed, diff
<1>8. applied(old, new, diff) = new BY ONLY <1>5, <1>6 DEF diff
<1>9. \A p \in diff.changed \cup diff.removed : st.old[p] = old[p] BY ONLY <1>4, <1>7
<1> QED BY ONLY <1>5, <1>8, <1>9 DEF st, diff

(***************************************************************************)
(* The observers: each has an ObservedObject of its own, whose records     *)
(* lead from the copy it has to the object as it is.                       *)
(***************************************************************************)
ObjectTypes ==
    /\ object \in [Objects -> [Props -> Held]]
    /\ observedBy \in [Objects -> Dirs \cup {0}]
    /\ recordsOf \in [Dirs -> Seq(Records)]
    /\ cached \in Seq(Dirs)
    /\ oldObject_ \in [Objects -> [Props -> Held]]
    /\ told \in [Objects -> [Props -> Held]]

OneObserverEach ==
    /\ \A x, y \in Objects : observedBy[x] # 0 /\ observedBy[x] = observedBy[y] => x = y
    /\ \A i \in DOMAIN cached : \A x \in Objects : cached[i] # observedBy[x]
    /\ \A i, j \in DOMAIN cached : cached[i] = cached[j] => i = j

RecordsLeadOn ==
    \A x \in Objects : observedBy[x] # 0 =>
        /\ told[x] = oldObject_[x]
        /\ Summary(afterRecords(recordsOf[observedBy[x]]), oldObject_[x], object[x])

ObjectInv == ObjectTypes /\ OneObserverEach /\ RecordsLeadOn

LEMMA DirsNotZero == 0 \notin Dirs /\ Dirs \subseteq Nat
BY FS_CardinalityType, ObjectAssumption DEF Dirs

LEMMA ObjectStarts == ObjectInit => ObjectInv
<1> SUFFICES ASSUME ObjectInit PROVE ObjectInv OBVIOUS
<1>1. ObjectTypes
  <2>1. <<>> \in Seq(Records) /\ <<>> \in Seq(Dirs) OBVIOUS
  <2> QED BY <2>1 DEF ObjectInit, ObjectTypes, Held
<1>2. OneObserverEach BY DEF ObjectInit, OneObserverEach
<1>3. RecordsLeadOn BY DEF ObjectInit, RecordsLeadOn
<1> QED BY <1>1, <1>2, <1>3 DEF ObjectInv

\* The page changes one property: the records of its observer grow by one.
LEMMA ChangeKeeps ==
  ASSUME ObjectInv, NEW x \in Objects, NEW p \in Props, NEW v \in Held, Change(x, p, v)
  PROVE  ObjectInv'
<1> DEFINE r == recordOf(object[x][p], p, v)
<1>0. ObjectTypes /\ OneObserverEach /\ RecordsLeadOn BY DEF ObjectInv
<1>1. object[x][p] \in Held /\ object[x][p] # v BY <1>0 DEF Change, ObjectTypes
<1>2. r \in Records BY <1>1 DEF recordOf, Records
<1>3. /\ object' = [object EXCEPT ![x][p] = v]
      /\ recordsOf' = [d \in Dirs |-> IF d = observedBy[x] THEN Append(recordsOf[d], r) ELSE recordsOf[d]]
      /\ UNCHANGED <<observedBy, cached, oldObject_, told>>
  BY DEF Change, recordOf
<1> HIDE DEF r
<1>4. ObjectTypes'
  <2>1. \A d \in Dirs : Append(recordsOf[d], r) \in Seq(Records)
      BY <1>0, <1>2, AppendProperties DEF ObjectTypes
  <2> QED BY <1>0, <1>3, <2>1 DEF ObjectTypes
<1>5. OneObserverEach' BY <1>0, <1>3 DEF OneObserverEach
<1>6. RecordsLeadOn'
  <2> SUFFICES ASSUME NEW y \in Objects, observedBy[y] # 0
               PROVE  /\ told[y] = oldObject_[y]
                      /\ Summary(afterRecords(recordsOf'[observedBy[y]]), oldObject_[y], object'[y])
      BY <1>3 DEF RecordsLeadOn
  <2>1. observedBy[y] \in Dirs BY <1>0 DEF ObjectTypes
  <2>2. told[y] = oldObject_[y] /\ Summary(afterRecords(recordsOf[observedBy[y]]), oldObject_[y], object[y])
      BY <1>0 DEF RecordsLeadOn
  <2>3. CASE y = x
    <3>1. recordsOf'[observedBy[x]] = Append(recordsOf[observedBy[x]], r) BY <1>3, <2>1, <2>3
    <3>2. recordsOf[observedBy[x]] \in Seq(Records) BY <1>0, <2>1, <2>3 DEF ObjectTypes
    <3>3. afterRecords(recordsOf'[observedBy[x]]) = takeRecord(afterRecords(recordsOf[observedBy[x]]), r)
        BY <3>1, <3>2, <1>2, AfterAppend
    <3>4. object'[x] = [object[x] EXCEPT ![p] = v] BY <1>0, <1>3 DEF ObjectTypes
    <3>5. object[x] \in [Props -> Held] /\ oldObject_[x] \in [Props -> Held] BY <1>0 DEF ObjectTypes
    <3>6. Summary(takeRecord(afterRecords(recordsOf[observedBy[x]]), r), oldObject_[x], [object[x] EXCEPT ![p] = v])
        BY <1>1, <2>2, <2>3, <3>5, TakeKeepsSummary DEF r
    <3> QED BY <2>2, <2>3, <3>3, <3>4, <3>6
  <2>4. CASE y # x
    <3>1. observedBy[y] # observedBy[x] BY <1>0, <2>4 DEF OneObserverEach
    <3>2. recordsOf'[observedBy[y]] = recordsOf[observedBy[y]] BY <1>3, <2>1, <3>1
    <3>3. object'[y] = object[y] BY <1>0, <1>3, <2>4 DEF ObjectTypes
    <3> QED BY <2>2, <3>2, <3>3
  <2> QED BY <2>3, <2>4
<1> QED BY <1>4, <1>5, <1>6 DEF ObjectInv

\* There is an ObservedObject left for an object that has none.
LEMMA OneIsFree ==
  ASSUME ObjectInv, NEW x \in Objects, observedBy[x] = 0
  PROVE  \E n \in Dirs : \A y \in Objects : observedBy[y] # n
<1> SUFFICES ASSUME \A n \in Dirs : \E y \in Objects : observedBy[y] = n
             PROVE  FALSE
    OBVIOUS
<1>1. observedBy \in [Objects -> Dirs \cup {0}] BY DEF ObjectInv, ObjectTypes
<1>2. IsFiniteSet(Objects) /\ Cardinality(Objects) \in Nat BY ObjectAssumption, FS_CardinalityType
<1>3. IsFiniteSet(Objects \ {x}) /\ Cardinality(Objects \ {x}) = Cardinality(Objects) - 1
  BY <1>2, FS_RemoveElement
<1>4. Cardinality(Dirs) = Cardinality(Objects) BY <1>2, FS_Interval DEF Dirs
<1> DEFINE f == [y \in Objects \ {x} |-> IF observedBy[y] \in Dirs THEN observedBy[y] ELSE 1]
<1>5. Cardinality(Objects) >= 1 BY <1>2, <1>3, FS_CardinalityType
<1>6. f \in [Objects \ {x} -> Dirs] BY <1>2, <1>5 DEF Dirs
<1>7. \A n \in Dirs : \E y \in Objects \ {x} : f[y] = n BY <1>1, DirsNotZero
<1> HIDE DEF f
<1>8. f \in Surjection(Objects \ {x}, Dirs) BY <1>6, <1>7, Fun_IsSurj
<1>9. Cardinality(Dirs) <= Cardinality(Objects \ {x}) BY <1>3, <1>8, FS_Surjection
<1> QED BY <1>2, <1>3, <1>4, <1>9

\* A new observer takes an ObservedObject that no other one has, without records.
LEMMA OpenKeeps ==
  ASSUME ObjectInv, NEW x \in Objects, OpenObserver(x)
  PROVE  ObjectInv'
<1> DEFINE taken == {cached[i] : i \in DOMAIN cached} \cup {observedBy[y] : y \in Objects}
           d == IF cached # <<>> THEN Last(cached) ELSE CHOOSE n \in Dirs : n \notin taken
<1>0. ObjectTypes /\ OneObserverEach /\ RecordsLeadOn BY DEF ObjectInv
<1>1. /\ observedBy[x] = 0
      /\ observedBy' = [observedBy EXCEPT ![x] = d]
      /\ cached' = IF cached = <<>> THEN cached ELSE Front(cached)
      /\ recordsOf' = [recordsOf EXCEPT ![d] = <<>>]
      /\ oldObject_' = [oldObject_ EXCEPT ![x] = object[x]]
      /\ told' = [told EXCEPT ![x] = object[x]]
      /\ UNCHANGED object
  BY DEF OpenObserver, DeliveredBefore
<1>2. /\ d \in Dirs
      /\ \A y \in Objects : observedBy[y] # d
      /\ cached' \in Seq(Dirs)
      /\ \A i \in DOMAIN cached' : i \in DOMAIN cached /\ cached'[i] = cached[i] /\ cached'[i] # d
  <2>1. CASE cached = <<>>
    <3>1. PICK n \in Dirs : \A y \in Objects : observedBy[y] # n BY <1>1, OneIsFree
    <3>2. n \notin taken BY <2>1, <3>1
    <3>3. d \in Dirs /\ d \notin taken
      <4> HIDE DEF taken
      <4> QED BY <2>1, <3>2
    <3> QED BY <1>1, <2>1, <3>3
  <2>2. CASE cached # <<>>
    <3> DEFINE n == Len(cached)
    <3>1. cached \in Seq(Dirs) /\ n \in Nat \ {0} /\ DOMAIN cached = 1 .. n BY <1>0, <2>2 DEF ObjectTypes
    <3>2. d = cached[n] BY <2>2 DEF Last
    <3>3. cached' = SubSeq(cached, 1, n - 1) BY <1>1, <2>2 DEF Front
    <3>4. /\ cached' \in Seq(Dirs) /\ DOMAIN cached' = 1 .. n - 1
          /\ \A i \in 1 .. n - 1 : cached'[i] = cached[i]
        BY <3>1, <3>3
    <3>5. \A i \in 1 .. n - 1 : cached[i] # cached[n] BY <1>0, <3>1 DEF OneObserverEach
    <3>6. d \in Dirs /\ \A y \in Objects : observedBy[y] # d
        BY <1>0, <3>1, <3>2 DEF OneObserverEach
    <3> QED BY <3>1, <3>2, <3>4, <3>5, <3>6
  <2> QED BY <2>1, <2>2
<1> HIDE DEF d, taken
<1>3. ObjectTypes'
  <2>1. <<>> \in Seq(Records) OBVIOUS
  <2> QED BY <1>0, <1>1, <1>2, <2>1 DEF ObjectTypes
<1>4. OneObserverEach'
  <2>1. \A y \in Objects : observedBy'[y] = IF y = x THEN d ELSE observedBy[y]
      BY <1>0, <1>1 DEF ObjectTypes
  <2> QED BY <1>0, <1>2, <2>1 DEF OneObserverEach
<1>5. RecordsLeadOn'
  <2> SUFFICES ASSUME NEW y \in Objects, observedBy'[y] # 0
               PROVE  /\ told'[y] = oldObject_'[y]
                      /\ Summary(afterRecords(recordsOf'[observedBy'[y]]), oldObject_'[y], object[y])
      BY <1>1 DEF RecordsLeadOn
  <2>1. CASE y = x
    <3>1. observedBy'[x] = d /\ recordsOf'[d] = <<>> /\ told'[x] = object[x] /\ oldObject_'[x] = object[x]
        BY <1>0, <1>1, <1>2 DEF ObjectTypes
    <3>2. object[x] \in [Props -> Held] BY <1>0 DEF ObjectTypes
    <3> QED BY <2>1, <3>1, <3>2, AfterNone, NothingHappened
  <2>2. CASE y # x
    <3>1. observedBy'[y] = observedBy[y] /\ told'[y] = told[y] /\ oldObject_'[y] = oldObject_[y]
        BY <1>0, <1>1, <2>2 DEF ObjectTypes
    <3>2. recordsOf'[observedBy[y]] = recordsOf[observedBy[y]]
        BY <1>0, <1>1, <1>2, <3>1 DEF ObjectTypes
    <3> QED BY <1>0, <3>1, <3>2 DEF RecordsLeadOn
  <2> QED BY <2>1, <2>2
<1> QED BY <1>3, <1>4, <1>5 DEF ObjectInv

LEMMA CloseKeeps ==
  ASSUME ObjectInv, NEW x \in Objects, CloseObserver(x)
  PROVE  ObjectInv'
<1> DEFINE d == observedBy[x]
<1>0. ObjectTypes /\ OneObserverEach /\ RecordsLeadOn BY DEF ObjectInv
<1>1. /\ d # 0
      /\ cached' = Append(cached, d)
      /\ observedBy' = [observedBy EXCEPT ![x] = 0]
      /\ UNCHANGED <<object, recordsOf, oldObject_, told>>
  BY DEF CloseObserver
<1>2. d \in Dirs BY <1>0, <1>1 DEF ObjectTypes
<1>3. \A y \in Objects : observedBy'[y] = IF y = x THEN 0 ELSE observedBy[y]
  BY <1>0, <1>1 DEF ObjectTypes
<1>4. /\ cached' \in Seq(Dirs)
      /\ \A i \in DOMAIN cached' : IF i \in DOMAIN cached THEN cached'[i] = cached[i]
                                   ELSE i = Len(cached) + 1 /\ cached'[i] = d
  BY <1>0, <1>1, <1>2 DEF ObjectTypes
<1>5. \A i \in DOMAIN cached : cached[i] \in Dirs BY <1>0 DEF ObjectTypes
<1>6. ObjectTypes' BY <1>0, <1>1, <1>4 DEF ObjectTypes
<1>7. OneObserverEach' BY <1>0, <1>1, <1>2, <1>3, <1>4, <1>5, DirsNotZero DEF OneObserverEach
<1>8. RecordsLeadOn' BY <1>0, <1>1, <1>3 DEF RecordsLeadOn
<1> QED BY <1>6, <1>7, <1>8 DEF ObjectInv

LEMMA CheckKeeps ==
  ASSUME ObjectInv, NEW x \in Objects, CheckObject(x) \/ DiscardObject(x)
  PROVE  ObjectInv'
<1> DEFINE d == observedBy[x]
<1>0. ObjectTypes /\ OneObserverEach /\ RecordsLeadOn BY DEF ObjectInv
<1>1. /\ d # 0
      /\ oldObject_' = [oldObject_ EXCEPT ![x] = object[x]]
      /\ recordsOf' = [recordsOf EXCEPT ![d] = <<>>]
      /\ UNCHANGED <<object, observedBy, cached>>
  BY DEF CheckObject, DiscardObject
<1>2. d \in Dirs /\ object[x] \in [Props -> Held] /\ oldObject_[x] \in [Props -> Held]
  BY <1>0, <1>1 DEF ObjectTypes
<1>3. told' = [told EXCEPT ![x] = object[x]]
  <2>1. CASE DiscardObject(x) BY <2>1 DEF DiscardObject
  <2>2. CASE CheckObject(x)
    <3>1. told' = [told EXCEPT ![x] = applied(told[x], object[x], diffOf(x))] BY <2>2 DEF CheckObject
    <3>2. told[x] = oldObject_[x] /\ Summary(afterRecords(recordsOf[d]), oldObject_[x], object[x])
        BY <1>0, <1>1 DEF RecordsLeadOn
    <3>3. applied(told[x], object[x], diffOf(x)) = object[x]
        BY <1>2, <3>2, SummaryIsDifference DEF diffOf
    <3> QED BY <3>1, <3>3
  <2> QED BY <2>1, <2>2
<1>4. ObjectTypes'
  <2>1. <<>> \in Seq(Records) OBVIOUS
  <2> QED BY <1>0, <1>1, <1>2, <1>3, <2>1 DEF ObjectTypes
<1>5. OneObserverEach' BY <1>0, <1>1 DEF OneObserverEach
<1>6. RecordsLeadOn'
  <2> SUFFICES ASSUME NEW y \in Objects, observedBy[y] # 0
               PROVE  /\ told'[y] = oldObject_'[y]
                      /\ Summary(afterRecords(recordsOf'[observedBy[y]]), oldObject_'[y], object[y])
      BY <1>1 DEF RecordsLeadOn
  <2>1. CASE y = x
    <3>1. recordsOf'[d] = <<>> /\ told'[x] = object[x] /\ oldObject_'[x] = object[x]
        BY <1>0, <1>1, <1>2, <1>3 DEF ObjectTypes
    <3> QED BY <1>2, <2>1, <3>1, AfterNone, NothingHappened
  <2>2. CASE y # x
    <3>1. told'[y] = told[y] /\ oldObject_'[y] = oldObject_[y] BY <1>0, <1>1, <1>3, <2>2 DEF ObjectTypes
    <3>2. observedBy[y] # d BY <1>0, <2>2 DEF OneObserverEach
    <3>3. recordsOf'[observedBy[y]] = recordsOf[observedBy[y]] BY <1>0, <1>1, <3>2 DEF ObjectTypes
    <3> QED BY <1>0, <3>1, <3>3 DEF RecordsLeadOn
  <2> QED BY <2>1, <2>2
<1> QED BY <1>4, <1>5, <1>6 DEF ObjectInv

LEMMA ObjectInvariant == ObjectSpec => []ObjectInv
<1>1. ObjectInv /\ [ObjectNext]_objectVars => ObjectInv'
  <2> SUFFICES ASSUME ObjectInv, [ObjectNext]_objectVars PROVE ObjectInv' OBVIOUS
  <2>1. CASE UNCHANGED objectVars
      BY <2>1 DEF objectVars, ObjectInv, ObjectTypes, OneObserverEach, RecordsLeadOn
  <2>2. CASE ObjectNext
    <3>1. PICK x \in Objects :
             \/ \E p \in Props, v \in PropValues \cup {Absent} : Change(x, p, v)
             \/ OpenObserver(x) \/ CloseObserver(x) \/ CheckObject(x) \/ DiscardObject(x)
        BY <2>2 DEF ObjectNext
    <3> QED BY <3>1, ChangeKeeps, OpenKeeps, CloseKeeps, CheckKeeps DEF Held
  <2> QED BY <2>1, <2>2
<1> QED BY <1>1, ObjectStarts, PTL DEF ObjectSpec

\* Whatever the page does to its objects and observers, the records and the copy
\* give the same difference, a listener that follows it has the object as it is,
\* and the old values reported are those it knew (DiffsAgree).
THEOREM DifferencesAgree == ObjectSpec => []DiffsAgree
<1>1. ObjectInv => DiffsAgree
  <2> SUFFICES ASSUME ObjectInv, NEW x \in Objects, observedBy[x] # 0
               PROVE  /\ diffOf(x) = diffObjectFromOldObject(object[x], oldObject_[x])
                      /\ applied(told[x], object[x], diffOf(x)) = object[x]
                      /\ \A p \in diffOf(x).changed \cup diffOf(x).removed :
                            afterRecords(recordsOf[observedBy[x]]).old[p] = told[x][p]
      BY DEF DiffsAgree
  <2>1. object[x] \in [Props -> Held] /\ oldObject_[x] \in [Props -> Held] BY DEF ObjectInv, ObjectTypes
  <2>2. told[x] = oldObject_[x] /\ Summary(afterRecords(recordsOf[observedBy[x]]), oldObject_[x], object[x])
      BY DEF ObjectInv, RecordsLeadOn
  <2> QED BY <2>1, <2>2, SummaryIsDifference DEF diffOf
<1> QED BY <1>1, ObjectInvariant, PTL

-----------------------------------------------------------------------------
(***************************************************************************)
(* Checkpoints.                                                            *)
(***************************************************************************)
StateNames == {"unopened", "opened", "closed", "resetting"}
Frames == [call : {"open", "callback", "deliver"}, obs : Observers, cycles : Nat]
          \cup [call : {"checkpoint", "task"}, obs : {"none"}, cycles : Nat]
Loops == [cycles : Nat, toCheck : Seq(Observers), i : Nat \ {0}, anyChanged : BOOLEAN,
          reported : BOOLEAN, task : Nat]
Sources == Paths \cup PathObservers

CheckpointTypes ==
    /\ store \in [Paths -> Values]
    /\ state \in [Observers -> StateNames]
    /\ observed \in [Observers -> Seq(Sources)]
    /\ value = [o \in Observers |-> value[o]]
    /\ callback \in [Observers -> Observers \cup {"none", "page"}]
    /\ allObservers \in Seq(Observers)
    /\ running \in BOOLEAN /\ settled \in BOOLEAN
    /\ loop \in Loops
    /\ eomTasks \in Nat
    /\ stack \in Seq(Frames)

\* The observers that are open, or that an open under way is about to make so.
OpensIn(s, o) == \E k \in DOMAIN s : s[k].call = "open" /\ s[k].obs = o
OpensOnce(s) ==
    \A j, k \in DOMAIN s :
        s[j].call = "open" /\ s[k].call = "open" /\ s[j].obs = s[k].obs => j = k
Live(o) == state[o] = "opened" \/ OpensIn(stack, o)
UpToDate(o) == value[o] = Current(o)

\* Those that the cycle has still to check.
Rest == {loop.toCheck[i] : i \in loop.i .. Len(loop.toCheck)}

OpensUnderWay ==
    /\ OpensOnce(stack)
    /\ \A o \in Observers : OpensIn(stack, o) =>
          o \in Eager /\ state[o] = "unopened" /\ callback[o] = "page"
LoopRuns ==
    /\ ~running => loop = Idle
    /\ loop.reported => loop.i <= Len(loop.toCheck)
LiveAreListed == \A o \in Observers \ passedOver : Live(o) => o \in Registered
SettledIsSeen == settled => \A o \in Observers \ passedOver : Live(o) => UpToDate(o)

\* Nothing has been reported and no task run in this cycle: no code of the page
\* runs, and those checked are up to date.
CleanCycle == running /\ ~loop.anyChanged /\ ~loop.reported /\ loop.task = 0
CleanIsSeen ==
    CleanCycle =>
        /\ InCheckpoint
        /\ \A o \in Observers \ passedOver : Live(o) /\ o \notin Rest => UpToDate(o)

CheckpointInv ==
    /\ CheckpointTypes /\ OpensUnderWay /\ LoopRuns
    /\ LiveAreListed /\ SettledIsSeen /\ CleanIsSeen

(***************************************************************************)
(* The stack.                                                              *)
(***************************************************************************)
\* No open is under way on t that is not on s.
Quiet(s, t) == OpensOnce(s) => OpensOnce(t) /\ \A o \in Observers : OpensIn(t, o) => OpensIn(s, o)

LEMMA QuietSame == ASSUME NEW s PROVE Quiet(s, s)
BY DEF Quiet

LEMMA QuietTwice ==
  ASSUME NEW s, NEW t, NEW u, Quiet(s, t), Quiet(t, u) PROVE Quiet(s, u)
BY DEF Quiet

LEMMA QuietAppend ==
  ASSUME NEW s \in Seq(Frames), NEW f \in Frames, f.call # "open"
  PROVE  Append(s, f) \in Seq(Frames) /\ Quiet(s, Append(s, f))
<1> DEFINE t == Append(s, f)
<1>1. /\ t \in Seq(Frames) /\ Len(s) \in Nat /\ Len(t) = Len(s) + 1 /\ t[Len(t)] = f
      /\ \A i \in 1 .. Len(s) : t[i] = s[i]
  BY AppendProperties
<1> HIDE DEF t
<1>2. \A i \in DOMAIN t : t[i].call = "open" => i \in DOMAIN s /\ t[i] = s[i]
  BY <1>1
<1>3. Quiet(s, t) BY <1>2 DEF Quiet, OpensIn, OpensOnce
<1> QED BY <1>1, <1>3 DEF t

LEMMA FrontProperties ==
  ASSUME NEW s \in Seq(Frames), s # <<>>
  PROVE  /\ Front(s) \in Seq(Frames) /\ Quiet(s, Front(s))
         /\ DOMAIN Front(s) = 1 .. Len(s) - 1
         /\ \A i \in 1 .. Len(s) - 1 : Front(s)[i] = s[i]
         /\ Len(s) \in Nat \ {0} /\ Last(s) = s[Len(s)] /\ Last(s) \in Frames
<1>1. /\ Front(s) \in Seq(Frames)
      /\ DOMAIN Front(s) = 1 .. Len(s) - 1
      /\ \A i \in 1 .. Len(s) - 1 : Front(s)[i] = s[i]
      /\ Len(s) \in Nat \ {0}
  BY DEF Front
<1>2. Quiet(s, Front(s)) BY <1>1 DEF Quiet, OpensIn, OpensOnce
<1> QED BY <1>1, <1>2 DEF Last

(***************************************************************************)
(* The values that a step reads.                                           *)
(***************************************************************************)
LEMMA CurrentStays ==
  ASSUME NEW o \in Observers, store' = store, observed'[o] = observed[o],
         \A x \in PathObservers : observed'[x] = observed[x]
  PROVE  Current(o)' = Current(o)
BY DEF Current, PathOf

LEMMA RefreshedSets ==
  ASSUME NEW o \in Observers, SetHeap(Refreshed(heap, o))
  PROVE  /\ UNCHANGED <<state, callback, allObservers>>
         /\ value' = [x \in Observers |-> IF x \in Nested(o) \cup {o} THEN Current(x) ELSE value[x]]
BY DEF SetHeap, Refreshed, heap

\* A step that opens nothing and ends every cycle that has reported nothing.
LEMMA QuietKeeps ==
  ASSUME CheckpointInv, CheckpointTypes', LoopRuns', ~CleanCycle',
         Quiet(stack, stack'),
         \A o \in Observers : state'[o] = "opened" => state[o] = "opened",
         \A o \in Eager : state[o] = "unopened" /\ callback[o] = "page" =>
                          state'[o] = "unopened" /\ callback'[o] = "page",
         passedOver \subseteq passedOver',
         \A o \in Observers \ passedOver' : Live(o)' /\ o \in Registered => o \in Registered',
         settled' => /\ settled
                     /\ \A o \in Observers \ passedOver' : Live(o)' /\ UpToDate(o) => UpToDate(o)'
  PROVE  CheckpointInv'
<1>1. /\ OpensUnderWay /\ LiveAreListed /\ SettledIsSeen BY DEF CheckpointInv
<1>2. OpensUnderWay' BY <1>1 DEF OpensUnderWay, Quiet
<1>3. \A o \in Observers : Live(o)' => Live(o) BY <1>1 DEF Live, Quiet, OpensUnderWay
<1>4. LiveAreListed'
  <2> SUFFICES ASSUME NEW o \in Observers \ passedOver', Live(o)' PROVE o \in Registered'
      BY DEF LiveAreListed
  <2>1. o \in Registered BY <1>1, <1>3 DEF LiveAreListed
  <2> QED BY <2>1
<1>5. SettledIsSeen'
  <2> SUFFICES ASSUME settled', NEW o \in Observers \ passedOver', Live(o)' PROVE UpToDate(o)'
      BY DEF SettledIsSeen
  <2>1. UpToDate(o) BY <1>1, <1>3 DEF SettledIsSeen
  <2> QED BY <2>1
<1>6. CleanIsSeen' BY DEF CleanIsSeen
<1> QED BY <1>2, <1>4, <1>5, <1>6 DEF CheckpointInv

(***************************************************************************)
(* What code of the page calls.                                            *)
(***************************************************************************)
LEMMA PageIsNotClean ==
  ASSUME CheckpointInv, PageRuns PROVE ~CleanCycle
BY DEF CheckpointInv, CleanIsSeen, InCheckpoint, PageRuns

LEMMA FramesMade ==
  ASSUME NEW o \in Observers
  PROVE  /\ Frame("open", o) \in Frames /\ Frame("open", o).call = "open" /\ Frame("open", o).obs = o
         /\ Frame("callback", o) \in Frames /\ Frame("callback", o).call = "callback"
         /\ Frame("deliver", o) \in Frames /\ Frame("deliver", o).call = "deliver"
BY DEF Frame, Frames

LEMMA WriteKeeps ==
  ASSUME CheckpointInv, NEW p \in Paths, NEW v \in Values, Write(p, v)
  PROVE  CheckpointInv'
<1>1. /\ PageRuns /\ store' = [store EXCEPT ![p] = v] /\ settled' = FALSE
      /\ UNCHANGED <<state, observed, value, callback, allObservers, running, loop, eomTasks,
                     stack, passedOver>>
  BY DEF Write, Act
<1>2. CheckpointTypes' BY <1>1 DEF CheckpointInv, CheckpointTypes
<1>3. LoopRuns' BY <1>1 DEF CheckpointInv, LoopRuns
<1>4. ~CleanCycle' BY <1>1, PageIsNotClean DEF CleanCycle
<1>5. Quiet(stack, stack') BY <1>1, QuietSame
<1>6. \A o \in Observers : o \in Registered => o \in Registered' BY <1>1 DEF Registered
<1> QED BY <1>1, <1>2, <1>3, <1>4, <1>5, <1>6, QuietKeeps

LEMMA AddKeeps ==
  ASSUME CheckpointInv, NEW c \in Compounds, NEW x \in Sources, Add(c, x)
  PROVE  CheckpointInv'
<1>0. CheckpointTypes BY DEF CheckpointInv
<1>c. c \in Observers /\ c \notin PathObservers BY ObserverAssumption DEF Observers
<1>1. /\ PageRuns /\ state[c] = "unopened"
      /\ x \in PathObservers => c \notin Eager
      /\ observed' = [observed EXCEPT ![c] = Append(@, x)]
      /\ value' = [value EXCEPT ![c] = Append(@, IF c \in Eager THEN store[x] ELSE Undefined)]
      /\ UNCHANGED <<store, state, callback, allObservers, running, loop, eomTasks,
                     stack, passedOver, settled>>
  BY DEF Add, Act, engine
<1>2. observed[c] \in Seq(Sources) /\ Append(observed[c], x) \in Seq(Sources)
  BY <1>0, <1>c, AppendProperties DEF CheckpointTypes
<1>3. CheckpointTypes'
  <2>1. observed' \in [Observers -> Seq(Sources)] BY <1>0, <1>1, <1>2 DEF CheckpointTypes
  <2>2. value' = [o \in Observers |-> value'[o]] BY <1>0, <1>1 DEF CheckpointTypes
  <2> QED BY <1>0, <1>1, <2>1, <2>2 DEF CheckpointTypes
<1>4. \A o \in Observers \ {c} : value'[o] = value[o] /\ observed'[o] = observed[o]
  BY <1>0, <1>1 DEF CheckpointTypes
<1>5. \A o \in PathObservers : observed'[o] = observed[o] BY <1>c, <1>4 DEF Observers
<1>6. \A o \in Observers \ {c} : UpToDate(o) => UpToDate(o)'
  BY <1>1, <1>4, <1>5, CurrentStays DEF UpToDate
<1>7. c \in Eager /\ UpToDate(c) => UpToDate(c)'
  <2> SUFFICES ASSUME c \in Eager, value[c] = Current(c) PROVE value'[c] = Current(c)' BY DEF UpToDate
  <2> DEFINE n == Len(observed[c])
             A == {store[PathOf(y)] : y \in Sources}
  <2>1. x \notin PathObservers /\ PathOf(x) = x /\ x \in Sources BY <1>1 DEF PathOf, Sources
  <2>2. n \in Nat /\ DOMAIN observed[c] = 1 .. n /\ \A i \in 1 .. n : observed[c][i] \in Sources BY <1>2
  <2>3. Current(c) = [i \in 1 .. n |-> store[PathOf(observed[c][i])]] BY <2>2 DEF Current
  <2>4. Current(c) \in Seq(A) /\ Len(Current(c)) = n
    <3> HIDE DEF n
    <3>1. \A i \in 1 .. n : store[PathOf(observed[c][i])] \in A BY <2>2
    <3> HIDE DEF A
    <3> QED BY <2>2, <2>3, <3>1
  <2>5. store[x] \in A BY <2>1
  <2>6. value'[c] = Append(Current(c), store[x]) BY <1>0, <1>1, <1>c DEF CheckpointTypes
  <2> DEFINE new == Append(Current(c), store[x])
             seen == Append(observed[c], x)
  <2>7. /\ DOMAIN new = 1 .. n + 1 /\ (\A i \in 1 .. n : new[i] = Current(c)[i]) /\ new[n + 1] = store[x]
        /\ new = [i \in 1 .. n + 1 |-> new[i]]
    <3> HIDE DEF A, n
    <3> QED BY <2>2, <2>4, <2>5
  <2>8. DOMAIN seen = 1 .. n + 1 /\ (\A i \in 1 .. n : seen[i] = observed[c][i]) /\ seen[n + 1] = x
    BY <1>2
  <2>9. observed'[c] = seen BY <1>0, <1>1, <1>c DEF CheckpointTypes
  <2> DEFINE next(y) == IF y \in PathObservers THEN observed'[y][1] ELSE y
  <2>10. \A y : next(y) = PathOf(y) BY <1>5 DEF PathOf
  <2>11. Current(c)' = [i \in 1 .. n + 1 |-> store[PathOf(seen[i])]]
    <3>1. Current(c)' = [i \in DOMAIN observed'[c] |-> store'[next(observed'[c][i])]] BY DEF Current, PathOf
    <3> HIDE DEF seen, n, new, next
    <3>2. Current(c)' = [i \in 1 .. n + 1 |-> store[next(seen[i])]] BY <1>1, <2>8, <2>9, <3>1
    <3> QED BY <2>10, <3>2
  <2>12. \A i \in 1 .. n + 1 : new[i] = store[PathOf(seen[i])]
    <3> HIDE DEF seen, new, n
    <3> QED BY <2>1, <2>2, <2>3, <2>7, <2>8
  <2> HIDE DEF new, seen, n
  <2>13. new = Current(c)' BY <2>7, <2>11, <2>12
  <2> QED BY <2>6, <2>13 DEF new
<1>8. LoopRuns' BY <1>1 DEF CheckpointInv, LoopRuns
<1>9. ~CleanCycle' BY <1>1, PageIsNotClean DEF CleanCycle
<1>10. Quiet(stack, stack') BY <1>1, QuietSame
<1>11. \A o \in Observers : o \in Registered => o \in Registered' BY <1>1 DEF Registered
<1>12. Live(c)' => c \in Eager BY <1>1, <1>c DEF CheckpointInv, OpensUnderWay, Live
<1>13. \A o \in Observers : Live(o)' /\ UpToDate(o) => UpToDate(o)' BY <1>6, <1>7, <1>12
<1> QED BY <1>1, <1>3, <1>8, <1>9, <1>10, <1>11, <1>13, QuietKeeps

\* The parts of an open that both ways have in common.
LEMMA EagerIsCompound == \A o \in Eager : o \in Compounds /\ o \in Observers /\ o \notin PathObservers
BY ObserverAssumption DEF Observers

\* open of an eager compound whose paths have changed: its callback comes first.
LEMMA OpenEagerKeeps ==
  ASSUME CheckpointInv, NEW o \in Observers, Open(o),
         o \in Eager /\ Changes(heap, o) /\ callback[o] = "none"
  PROVE  CheckpointInv'
<1> DEFINE n == Len(stack)
           s == stack'
<1>0. CheckpointTypes /\ OpensUnderWay /\ LiveAreListed /\ SettledIsSeen BY DEF CheckpointInv
<1>1. /\ PageRuns /\ state[o] = "unopened"
      /\ SetHeap([Refreshed(heap, o) EXCEPT !.callback[o] = "page", !.all = Append(@, o)])
      /\ s = stack \o <<Frame("open", o), Frame("callback", o)>>
      /\ UNCHANGED <<store, observed, running, loop, eomTasks, settled, passedOver>>
  BY DEF Open, Act
<1>2. /\ state' = state /\ callback' = [callback EXCEPT ![o] = "page"]
      /\ allObservers' = Append(allObservers, o)
      /\ value' = [x \in Observers |-> IF x \in Nested(o) \cup {o} THEN Current(x) ELSE value[x]]
  BY <1>1 DEF SetHeap, Refreshed, heap
<1>3. /\ n \in Nat /\ s \in Seq(Frames) /\ DOMAIN s = 1 .. n + 2 /\ DOMAIN stack = 1 .. n
      /\ \A k \in 1 .. n : s[k] = stack[k]
      /\ s[n + 1] = Frame("open", o) /\ s[n + 2] = Frame("callback", o)
  <2>1. stack \in Seq(Frames) /\ Frame("open", o) \in Frames /\ Frame("callback", o) \in Frames
      BY <1>0, FramesMade DEF CheckpointTypes
  <2>2. <<Frame("open", o), Frame("callback", o)>> \in Seq(Frames) BY <2>1
  <2> QED BY <1>1, <2>1, <2>2
<1> HIDE DEF n, s
<1>4. CheckpointTypes'
  <2>1. allObservers' \in Seq(Observers) BY <1>0, <1>2 DEF CheckpointTypes
  <2>2. value' = [x \in Observers |-> value'[x]] BY <1>2
  <2> QED BY <1>0, <1>1, <1>2, <1>3, <2>1, <2>2 DEF CheckpointTypes, s
<1>5. ~OpensIn(stack, o) BY <1>0 DEF OpensUnderWay
<1>6. \A k \in 1 .. n + 2 : s[k].call = "open" =>
         (k \in 1 .. n /\ s[k] = stack[k] /\ stack[k].obs # o) \/ (k = n + 1 /\ s[k].obs = o)
  <2> SUFFICES ASSUME NEW k \in 1 .. n + 2, s[k].call = "open"
               PROVE  (k \in 1 .. n /\ s[k] = stack[k] /\ stack[k].obs # o) \/ (k = n + 1 /\ s[k].obs = o)
      OBVIOUS
  <2>1. CASE k \in 1 .. n BY <1>3, <1>5, <2>1 DEF OpensIn
  <2>2. CASE k = n + 1 BY <1>3, <2>2, FramesMade
  <2>3. CASE k = n + 2 BY <1>3, <2>3, FramesMade
  <2> QED BY <1>3, <2>1, <2>2, <2>3
<1>7. OpensOnce(s) BY <1>0, <1>3, <1>6 DEF OpensOnce, OpensUnderWay
<1>8. \A x \in Observers : OpensIn(s, x) => x = o \/ OpensIn(stack, x)
  BY <1>3, <1>6 DEF OpensIn
<1>9. \A x \in Observers : Live(x)' => x = o \/ Live(x) BY <1>2, <1>8 DEF Live, s
<1>10. OpensUnderWay' BY <1>0, <1>1, <1>2, <1>7, <1>8 DEF OpensUnderWay, CheckpointTypes, s
<1>11. LoopRuns' BY <1>1 DEF CheckpointInv, LoopRuns
<1>12. CleanIsSeen' BY <1>1, PageIsNotClean DEF CleanCycle, CleanIsSeen
<1>13. \A x \in Observers : x = o \/ x \in Registered => x \in Registered'
  <2>1. \A x \in Observers : x = o \/ x \in Range(allObservers) => x \in Range(allObservers')
    <3> DEFINE m == Len(allObservers)
    <3>1. /\ m \in Nat /\ DOMAIN allObservers = 1 .. m /\ DOMAIN allObservers' = 1 .. m + 1
          /\ allObservers'[m + 1] = o /\ \A i \in 1 .. m : allObservers'[i] = allObservers[i]
        BY <1>0, <1>2 DEF CheckpointTypes
    <3> HIDE DEF m
    <3> QED BY <3>1 DEF Range
  <2> QED BY <1>1, <2>1 DEF Registered
<1>14. LiveAreListed' BY <1>0, <1>1, <1>9, <1>13 DEF LiveAreListed
<1>15. \A x \in Observers : Current(x)' = Current(x) BY <1>1, CurrentStays
<1>16. SettledIsSeen' BY <1>0, <1>1, <1>2, <1>9, <1>15 DEF SettledIsSeen, UpToDate
<1> QED BY <1>4, <1>10, <1>11, <1>12, <1>14, <1>16 DEF CheckpointInv

\* The observers that open puts on the list.
LEMMA OpenedLists ==
  ASSUME NEW all \in Seq(Observers), NEW o \in Observers, observed[o] \in Seq(Sources)
  PROVE  LET more == all \o <<o>> \o Filtered(observed[o], Nested(o)) IN
         more \in Seq(Observers) /\ Range(more) = Range(all) \cup {o} \cup Nested(o)
<1> DEFINE inner == Filtered(observed[o], Nested(o))
           more == all \o <<o>> \o inner
<1>1. inner \in Seq(Sources) /\ ToSet(inner) = Nested(o)
  <2>1. Nested(o) \subseteq ToSet(observed[o]) BY DEF Nested, ToSet
  <2>2. inner \in Seq(Sources) /\ ToSet(inner) = ToSet(observed[o]) \cap Nested(o) BY FilteredElements
  <2> QED BY <2>1, <2>2
<1>2. \A i \in 1 .. Len(inner) : inner[i] \in Nested(o) BY <1>1 DEF ToSet
<1>3. Nested(o) \subseteq Observers BY DEF Nested, Observers
<1> HIDE DEF inner
<1>4. inner \in Seq(Observers) BY <1>1, <1>2, <1>3
<1>5. /\ more \in Seq(Observers) /\ Len(all) \in Nat /\ Len(inner) \in Nat
      /\ Len(more) = Len(all) + 1 + Len(inner) /\ DOMAIN more = 1 .. Len(more)
      /\ \A i \in 1 .. Len(all) : more[i] = all[i]
      /\ more[Len(all) + 1] = o
      /\ \A i \in 1 .. Len(inner) : more[Len(all) + 1 + i] = inner[i]
  BY <1>4
<1> HIDE DEF more
<1>6. \A e \in Range(more) : e \in Range(all) \cup {o} \cup Nested(o)
  <2> SUFFICES ASSUME NEW k \in 1 .. Len(more) PROVE more[k] \in Range(all) \cup {o} \cup Nested(o)
      BY <1>5 DEF Range
  <2>1. CASE k \in 1 .. Len(all) BY <1>5, <2>1 DEF Range
  <2>2. CASE k = Len(all) + 1 BY <1>5, <2>2
  <2>3. CASE k > Len(all) + 1
    <3>1. k - Len(all) - 1 \in 1 .. Len(inner) /\ k = Len(all) + 1 + (k - Len(all) - 1) BY <1>5, <2>3
    <3> QED BY <1>2, <1>5, <3>1
  <2> QED BY <1>5, <2>1, <2>2, <2>3
<1>7. \A i \in 1 .. Len(all) : i \in DOMAIN more /\ more[i] = all[i] BY <1>5
<1>8. \A i \in 1 .. Len(inner) : Len(all) + 1 + i \in DOMAIN more /\ more[Len(all) + 1 + i] = inner[i] BY <1>5
<1>9. Len(all) + 1 \in DOMAIN more /\ more[Len(all) + 1] = o BY <1>5
<1>10. \A e \in Range(all) : e \in Range(more) BY <1>7 DEF Range
<1>11. \A e \in Nested(o) : e \in Range(more) BY <1>1, <1>8 DEF Range, ToSet
<1>12. o \in Range(more) BY <1>9 DEF Range
<1> QED BY <1>5, <1>6, <1>10, <1>11, <1>12 DEF more, inner

\* Any other open.
LEMMA OpenPlainKeeps ==
  ASSUME CheckpointInv, NEW o \in Observers, Open(o),
         ~(o \in Eager /\ Changes(heap, o) /\ callback[o] = "none")
  PROVE  CheckpointInv'
<1> DEFINE new == {o} \cup Nested(o)
<1>0. CheckpointTypes /\ OpensUnderWay /\ LiveAreListed /\ SettledIsSeen BY DEF CheckpointInv
<1>1. /\ PageRuns /\ state[o] = "unopened" /\ callback[o] = "none"
      /\ SetHeap(Opened(heap, o, "page"))
      /\ UNCHANGED <<store, observed, running, loop, eomTasks, settled, passedOver, stack>>
  BY DEF Open, Act
<1>2. /\ state' = [x \in Observers |-> IF x \in new THEN "opened" ELSE state[x]]
      /\ callback' = [x \in Observers |->
                        IF x = o THEN "page" ELSE IF x \in Nested(o) THEN o ELSE callback[x]]
      /\ allObservers' = allObservers \o <<o>> \o Filtered(observed[o], Nested(o))
      /\ value' = [x \in Observers |-> IF x \in Nested(o) \cup {o} THEN Current(x) ELSE value[x]]
  BY <1>1 DEF SetHeap, Opened, Refreshed, heap
<1>3. allObservers' \in Seq(Observers) /\ Range(allObservers') = Range(allObservers) \cup new
  BY <1>0, <1>2, OpenedLists DEF CheckpointTypes
<1>4. CheckpointTypes'
  <2>1. state' \in [Observers -> StateNames] BY <1>0, <1>2 DEF CheckpointTypes, StateNames
  <2>2. callback' \in [Observers -> Observers \cup {"none", "page"}] BY <1>0, <1>2 DEF CheckpointTypes
  <2>3. value' = [x \in Observers |-> value'[x]] BY <1>2
  <2> QED BY <1>0, <1>1, <1>3, <2>1, <2>2, <2>3 DEF CheckpointTypes
<1>5. \A x \in Observers : Live(x)' => x \in new \/ Live(x) BY <1>1, <1>2 DEF Live
<1>6. OpensUnderWay'
  <2> SUFFICES ASSUME NEW x \in Observers, OpensIn(stack, x)
               PROVE  x \in Eager /\ state'[x] = "unopened" /\ callback'[x] = "page"
      BY <1>0, <1>1 DEF OpensUnderWay
  <2>1. x \in Eager /\ state[x] = "unopened" /\ callback[x] = "page" BY <1>0 DEF OpensUnderWay
  <2>2. x # o /\ x \notin Nested(o) BY <1>1, <2>1, EagerIsCompound DEF Nested
  <2> QED BY <1>2, <2>1, <2>2
<1>7. LoopRuns' BY <1>1 DEF CheckpointInv, LoopRuns
<1>8. CleanIsSeen' BY <1>1, PageIsNotClean DEF CleanCycle, CleanIsSeen
<1>9. LiveAreListed' BY <1>0, <1>1, <1>3, <1>5 DEF LiveAreListed, Registered
<1>10. \A x \in Observers : Current(x)' = Current(x) BY <1>1, CurrentStays
<1>11. SettledIsSeen' BY <1>0, <1>1, <1>2, <1>5, <1>10 DEF SettledIsSeen, UpToDate
<1> QED BY <1>4, <1>6, <1>7, <1>8, <1>9, <1>11 DEF CheckpointInv

\* The callback of an eager compound has returned: the compound is open.
LEMMA FinishOpenKeeps ==
  ASSUME CheckpointInv, FinishOpen
  PROVE  CheckpointInv'
<1> DEFINE o == Top.obs
           n == Len(stack)
<1>0. CheckpointTypes /\ OpensUnderWay /\ LiveAreListed /\ SettledIsSeen BY DEF CheckpointInv
<1>1. /\ stack # <<>> /\ Top.call = "open"
      /\ state' = [state EXCEPT ![o] = "opened"] /\ stack' = Front(stack)
      /\ UNCHANGED <<store, observed, value, callback, allObservers, running, loop, eomTasks, settled, passedOver>>
  BY DEF FinishOpen, Pop
<1>2. /\ Front(stack) \in Seq(Frames) /\ Quiet(stack, Front(stack)) /\ DOMAIN Front(stack) = 1 .. n - 1
      /\ \A i \in 1 .. n - 1 : Front(stack)[i] = stack[i]
      /\ n \in Nat \ {0} /\ Top = stack[n] /\ Top \in Frames
  BY <1>0, <1>1, FrontProperties DEF CheckpointTypes, Top
<1>3. DOMAIN stack = 1 .. n /\ n \in DOMAIN stack BY <1>0, <1>2 DEF CheckpointTypes
<1>4. OpensIn(stack, o) BY <1>1, <1>2, <1>3 DEF OpensIn
<1>5. CASE o \in Observers
  <2>1. o \in Eager /\ state[o] = "unopened" BY <1>0, <1>4, <1>5 DEF OpensUnderWay
  <2>2. CheckpointTypes' BY <1>0, <1>1, <1>2, <1>5 DEF CheckpointTypes, StateNames
  <2>3. ~OpensIn(stack', o)
    <3>1. \A k \in 1 .. n - 1 : ~(stack[k].call = "open" /\ stack[k].obs = o)
      <4> SUFFICES ASSUME NEW k \in 1 .. n - 1, stack[k].call = "open", stack[k].obs = o PROVE FALSE OBVIOUS
      <4>1. k \in DOMAIN stack /\ k # n BY <1>2, <1>3
      <4> QED BY <1>0, <1>1, <1>2, <1>3, <4>1 DEF OpensUnderWay, OpensOnce
    <3> QED BY <1>1, <1>2, <3>1 DEF OpensIn
  <2>4. OpensOnce(stack') /\ \A x \in Observers : OpensIn(stack', x) => x # o /\ OpensIn(stack, x)
      BY <1>0, <1>1, <1>2, <2>3 DEF Quiet, OpensUnderWay
  <2>5. \A x \in Observers : Live(x)' => Live(x)
      BY <1>0, <1>1, <1>4, <2>4 DEF Live, CheckpointTypes
  <2>6. OpensUnderWay' BY <1>0, <1>1, <2>4 DEF OpensUnderWay, CheckpointTypes
  <2>7. LoopRuns' BY <1>1 DEF CheckpointInv, LoopRuns
  <2>8. ~CleanCycle BY <1>1 DEF CheckpointInv, CleanIsSeen, InCheckpoint
  <2>9. CleanIsSeen' BY <1>1, <2>8 DEF CleanCycle, CleanIsSeen
  <2>10. LiveAreListed' BY <1>0, <1>1, <2>5 DEF LiveAreListed, Registered
  <2>11. \A x \in Observers : Current(x)' = Current(x) BY <1>1, CurrentStays
  <2>12. SettledIsSeen' BY <1>0, <1>1, <2>5, <2>11 DEF SettledIsSeen, UpToDate
  <2> QED BY <2>2, <2>6, <2>7, <2>9, <2>10, <2>12 DEF CheckpointInv
<1>6. o \in Observers BY <1>1, <1>2 DEF Frames
<1> QED BY <1>5, <1>6

LEMMA CloseActKeeps ==
  ASSUME CheckpointInv, NEW o \in Observers, Close(o)
  PROVE  CheckpointInv'
<1> DEFINE shut == {o} \cup {x \in Nested(o) : state[x] = "opened"}
<1>0. CheckpointTypes BY DEF CheckpointInv
<1>1. /\ PageRuns /\ state[o] = "opened"
      /\ state' = [x \in Observers |-> IF x \in shut THEN "closed" ELSE state[x]]
      /\ callback' = [x \in Observers |-> IF x \in shut THEN "none" ELSE callback[x]]
      /\ observed' = [x \in Observers |-> IF x = o /\ o \in Compounds THEN <<>> ELSE observed[x]]
      /\ value' = [x \in Observers |->
            IF x \in shut THEN IF x \in Compounds THEN <<>> ELSE <<Undefined>> ELSE value[x]]
      /\ UNCHANGED <<store, allObservers, running, loop, eomTasks, stack, settled, passedOver>>
  BY DEF Close, Act, engine
<1>2. \A x \in shut : state[x] = "opened" BY <1>1
<1>3. CheckpointTypes'
  <2>1. <<>> \in Seq(Sources) OBVIOUS
  <2>2. observed' \in [Observers -> Seq(Sources)] BY <1>0, <1>1, <2>1 DEF CheckpointTypes
  <2>3. state' \in [Observers -> StateNames] BY <1>0, <1>1 DEF CheckpointTypes, StateNames
  <2>4. callback' \in [Observers -> Observers \cup {"none", "page"}] BY <1>0, <1>1 DEF CheckpointTypes
  <2>5. value' = [x \in Observers |-> value'[x]] BY <1>1
  <2> QED BY <1>0, <1>1, <2>2, <2>3, <2>4, <2>5 DEF CheckpointTypes
<1>4. LoopRuns' BY <1>1 DEF CheckpointInv, LoopRuns
<1>5. ~CleanCycle' BY <1>1, PageIsNotClean DEF CleanCycle
<1>6. Quiet(stack, stack') BY <1>1, QuietSame
<1>7. \A x \in Observers : state'[x] = "opened" => state[x] = "opened" /\ x \notin shut BY <1>1
<1>8. \A x \in Eager : state[x] = "unopened" /\ callback[x] = "page" =>
                       state'[x] = "unopened" /\ callback'[x] = "page"
  BY <1>1, <1>2, EagerIsCompound
<1>9. \A x \in Observers : x \in Registered => x \in Registered' BY <1>1 DEF Registered
<1>10. \A x \in Observers : Live(x)' => x \notin shut
  BY <1>1, <1>2, <1>7 DEF Live, CheckpointInv, OpensUnderWay
<1>11. \A x \in PathObservers : observed'[x] = observed[x] BY <1>1, ObserverAssumption DEF Observers
<1>12. \A x \in Observers \ shut : Current(x)' = Current(x) BY <1>1, <1>11, CurrentStays
<1>13. \A x \in Observers : Live(x)' /\ UpToDate(x) => UpToDate(x)'
  BY <1>1, <1>10, <1>12 DEF UpToDate
<1> QED BY <1>1, <1>3, <1>4, <1>5, <1>6, <1>7, <1>8, <1>9, <1>13, QuietKeeps

LEMMA DeliverKeeps ==
  ASSUME CheckpointInv, NEW o \in Observers, Deliver(o)
  PROVE  CheckpointInv'
<1>0. CheckpointTypes BY DEF CheckpointInv
<1>1. /\ PageRuns /\ stack' = Append(stack, Frame("deliver", o))
      /\ UNCHANGED <<store, state, observed, value, callback, allObservers, running, loop, eomTasks,
                     settled, passedOver>>
  BY DEF Deliver, Act, data
<1>2. stack' \in Seq(Frames) /\ Quiet(stack, stack')
  BY <1>0, <1>1, FramesMade, QuietAppend DEF CheckpointTypes
<1>3. CheckpointTypes' BY <1>0, <1>1, <1>2 DEF CheckpointTypes
<1>4. LoopRuns' BY <1>1 DEF CheckpointInv, LoopRuns
<1>5. ~CleanCycle' BY <1>1, PageIsNotClean DEF CleanCycle
<1>6. \A x \in Observers : x \in Registered => x \in Registered' BY <1>1 DEF Registered
<1>7. \A x \in Observers : Current(x)' = Current(x) BY <1>1, CurrentStays
<1> QED BY <1>1, <1>2, <1>3, <1>4, <1>5, <1>6, <1>7, QuietKeeps DEF UpToDate

LEMMA DiscardKeeps ==
  ASSUME CheckpointInv, NEW o \in Observers, discardChanges(o)
  PROVE  CheckpointInv'
<1>0. CheckpointTypes BY DEF CheckpointInv
<1>1. /\ PageRuns /\ SetHeap(Refreshed(heap, o))
      /\ UNCHANGED <<store, observed, running, loop, eomTasks, stack, settled, passedOver>>
  BY DEF discardChanges, Act, engine
<1>2. /\ UNCHANGED <<state, callback, allObservers>>
      /\ value' = [x \in Observers |-> IF x \in Nested(o) \cup {o} THEN Current(x) ELSE value[x]]
  BY <1>1, RefreshedSets
<1>3. CheckpointTypes' BY <1>0, <1>1, <1>2 DEF CheckpointTypes
<1>4. LoopRuns' BY <1>1 DEF CheckpointInv, LoopRuns
<1>5. ~CleanCycle' BY <1>1, PageIsNotClean DEF CleanCycle
<1>6. Quiet(stack, stack') BY <1>1, QuietSame
<1>7. \A x \in Observers : x \in Registered => x \in Registered' BY <1>1, <1>2 DEF Registered
<1>8. \A x \in Observers : Current(x)' = Current(x) BY <1>1, CurrentStays
<1>9. \A x \in Observers : UpToDate(x) => UpToDate(x)' BY <1>2, <1>8 DEF UpToDate
<1> QED BY <1>1, <1>2, <1>3, <1>4, <1>5, <1>6, <1>7, <1>9, QuietKeeps

LEMMA ResetKeeps ==
  ASSUME CheckpointInv, NEW c \in Compounds, NEW x \in Paths, Reset(c, x)
  PROVE  CheckpointInv'
<1> DEFINE inner == {n \in Nested(c) : state[n] = "opened"}
           closed == [n \in Observers |-> IF n \in inner THEN "closed" ELSE state[n]]
           undone == [n \in Observers |-> IF n \in inner THEN <<Undefined>> ELSE value[n]]
<1>0. CheckpointTypes BY DEF CheckpointInv
<1>c. c \in Observers /\ c \notin PathObservers /\ x \notin PathObservers /\ inner \subseteq PathObservers
  BY ObserverAssumption DEF Observers, Nested
<1>1. /\ PageRuns /\ state[c] = "opened"
      /\ callback' = [n \in Observers |-> IF n \in inner THEN "none" ELSE callback[n]]
      /\ \/ /\ observed' = [observed EXCEPT ![c] = <<x>>]
            /\ state' = closed
            /\ value' = [undone EXCEPT ![c] = <<store[x]>>]
         \/ /\ observed' = [observed EXCEPT ![c] = <<>>]
            /\ state' = [closed EXCEPT ![c] = "resetting"]
            /\ value' = [undone EXCEPT ![c] = <<>>]
      /\ UNCHANGED <<store, allObservers, running, loop, eomTasks, stack, settled, passedOver>>
  BY DEF Reset, Act, engine
<1>2. \A n \in inner : state[n] = "opened" OBVIOUS
<1> HIDE DEF inner
<1>3. \A n \in Observers \ {c} : /\ observed'[n] = observed[n]
                                 /\ value'[n] = IF n \in inner THEN <<Undefined>> ELSE value[n]
                                 /\ state'[n] = IF n \in inner THEN "closed" ELSE state[n]
  BY <1>0, <1>1 DEF CheckpointTypes
<1>4. \/ observed'[c] = <<x>> /\ state'[c] = "opened" /\ value'[c] = <<store[x]>>
      \/ state'[c] = "resetting"
  BY <1>0, <1>1, <1>c DEF CheckpointTypes
<1>5. CheckpointTypes'
  <2>1. <<>> \in Seq(Sources) /\ <<x>> \in Seq(Sources) BY DEF Sources
  <2>2. observed' \in [Observers -> Seq(Sources)] BY <1>0, <1>1, <2>1 DEF CheckpointTypes
  <2>3. state' \in [Observers -> StateNames] BY <1>0, <1>1 DEF CheckpointTypes, StateNames
  <2>4. callback' \in [Observers -> Observers \cup {"none", "page"}] BY <1>0, <1>1 DEF CheckpointTypes
  <2>5. value' = [n \in Observers |-> value'[n]] BY <1>1
  <2> QED BY <1>0, <1>1, <2>2, <2>3, <2>4, <2>5 DEF CheckpointTypes
<1>6. LoopRuns' BY <1>1 DEF CheckpointInv, LoopRuns
<1>7. ~CleanCycle' BY <1>1, PageIsNotClean DEF CleanCycle
<1>8. Quiet(stack, stack') BY <1>1, QuietSame
<1>9. \A n \in Observers : state'[n] = "opened" => state[n] = "opened" /\ n \notin inner
  BY <1>1, <1>3, <1>c
<1>10. \A n \in Eager : state[n] = "unopened" /\ callback[n] = "page" =>
                        state'[n] = "unopened" /\ callback'[n] = "page"
  BY <1>1, <1>2, <1>3, EagerIsCompound
<1>11. \A n \in Observers : n \in Registered => n \in Registered' BY <1>1 DEF Registered
<1>12. \A n \in PathObservers : observed'[n] = observed[n] BY <1>3, <1>c DEF Observers
<1>13. \A n \in Observers \ {c} : Current(n)' = Current(n) BY <1>1, <1>3, <1>12, CurrentStays
<1>14. \A n \in Observers \ {c} : Live(n)' => n \notin inner
  BY <1>1, <1>2, <1>9 DEF Live, CheckpointInv, OpensUnderWay
<1>15. Live(c)' => UpToDate(c)'
  <2>1. CASE state'[c] = "opened"
    <3>1. observed'[c] = <<x>> /\ value'[c] = <<store[x]>> BY <1>4, <2>1
    <3>2. Current(c)' = [i \in DOMAIN <<x>> |-> store[x]]
      <4>1. \A i \in DOMAIN <<x>> : <<x>>[i] = x OBVIOUS
      <4> QED BY <1>1, <1>c, <3>1, <4>1 DEF Current, PathOf
    <3>3. [i \in DOMAIN <<x>> |-> store[x]] = <<store[x]>> OBVIOUS
    <3> QED BY <3>1, <3>2, <3>3 DEF UpToDate
  <2>2. CASE state'[c] # "opened"
    <3>1. ~Live(c)' BY <1>1, <1>c, <2>2 DEF Live, CheckpointInv, OpensUnderWay
    <3> QED BY <3>1
  <2> QED BY <2>1, <2>2
<1>16. \A n \in Observers : Live(n)' /\ UpToDate(n) => UpToDate(n)'
  BY <1>3, <1>13, <1>14, <1>15 DEF UpToDate
<1> QED BY <1>1, <1>5, <1>6, <1>7, <1>8, <1>9, <1>10, <1>11, <1>16, QuietKeeps

LEMMA RunEOMKeeps ==
  ASSUME CheckpointInv, RunEOM
  PROVE  CheckpointInv'
<1>1. /\ PageRuns /\ settled' = FALSE /\ eomTasks' = eomTasks + 1
      /\ UNCHANGED <<store, state, observed, value, callback, allObservers, running, loop, stack, passedOver>>
  BY DEF RunEOM, Act, data
<1>2. CheckpointTypes'
  <2>1. eomTasks \in Nat /\ value = [o \in Observers |-> value[o]] BY DEF CheckpointInv, CheckpointTypes
  <2>2. eomTasks' \in Nat BY <1>1, <2>1
  <2> QED BY <1>1, <2>2 DEF CheckpointInv, CheckpointTypes
<1>3. LoopRuns' BY <1>1 DEF CheckpointInv, LoopRuns
<1>4. ~CleanCycle' BY <1>1, PageIsNotClean DEF CleanCycle
<1>5. Quiet(stack, stack') BY <1>1, QuietSame
<1>6. \A o \in Observers : o \in Registered => o \in Registered' BY <1>1 DEF Registered
<1> QED BY <1>1, <1>2, <1>3, <1>4, <1>5, <1>6, QuietKeeps

(***************************************************************************)
(* What runs without the page.                                             *)
(***************************************************************************)
\* A step that leaves all that the invariant is about as it is.
LEMMA SameKeeps ==
  ASSUME CheckpointInv, UNCHANGED <<data, running, loop, eomTasks, stack, settled, passedOver>>
  PROVE  CheckpointInv'
BY DEF CheckpointInv, CheckpointTypes, OpensUnderWay, LoopRuns, LiveAreListed, SettledIsSeen, CleanIsSeen,
       Live, UpToDate, Current, PathOf, Registered, CleanCycle, InCheckpoint, Top, Rest, data

LEMMA FrontIsQuiet ==
  ASSUME NEW s \in Seq(Frames)
  PROVE  Front(s) \in Seq(Frames) /\ Quiet(s, Front(s))
<1>1. CASE s = <<>>
  <2>1. Front(s) = <<>> BY <1>1 DEF Front
  <2> QED BY <1>1, <2>1, QuietSame
<1>2. CASE s # <<>> BY <1>2, FrontProperties
<1> QED BY <1>1, <1>2

LEMMA ReportIsQuiet ==
  ASSUME CheckpointTypes, NEW s \in Seq(Frames), NEW o \in Observers, Report(s, o)
  PROVE  stack' \in Seq(Frames) /\ Quiet(s, stack')
<1>1. CASE callback[o] = "page"
  <2>1. stack' = Append(s, Frame("callback", o)) BY <1>1 DEF Report
  <2> QED BY <2>1, FramesMade, QuietAppend
<1>2. CASE callback[o] = "none"
  <2>1. stack' = s BY <1>2 DEF Report
  <2> QED BY <2>1, QuietSame
<1>3. CASE callback[o] \notin {"page", "none"}
  <2>1. callback[o] \in Observers BY <1>3 DEF CheckpointTypes
  <2>2. stack' = Append(s, Frame("deliver", callback[o])) \/ stack' = s BY <1>3 DEF Report
  <2> QED BY <2>1, <2>2, FramesMade, QuietAppend, QuietSame
<1> QED BY <1>1, <1>2, <1>3

LEMMA DirtyCheckKeeps ==
  ASSUME CheckpointInv, DirtyCheck
  PROVE  CheckpointInv'
<1> DEFINE o == Top.obs
           again == [Top EXCEPT !.cycles = @ + 1]
<1>0. CheckpointTypes BY DEF CheckpointInv
<1>1. /\ stack # <<>> /\ Top.call = "deliver"
      /\ UNCHANGED <<store, observed, running, loop, eomTasks, settled, passedOver>>
      /\ \/ SetHeap(Refreshed(heap, o)) /\ (Report(Append(Pop, again), o) \/ stack' = Pop)
         \/ stack' = Pop /\ UNCHANGED <<state, value, callback, allObservers>>
  BY DEF DirtyCheck
<1>2. Pop \in Seq(Frames) /\ Quiet(stack, Pop) /\ Top \in Frames
  BY <1>0, <1>1, FrontProperties DEF CheckpointTypes, Pop, Top
<1>3. o \in Observers /\ again \in Frames /\ again.call # "open" BY <1>1, <1>2 DEF Frames
<1> HIDE DEF o, again
<1>4. /\ UNCHANGED <<state, callback, allObservers>>
      /\ value' = value \/ value' = [x \in Observers |-> IF x \in Nested(o) \cup {o} THEN Current(x) ELSE value[x]]
  BY <1>1, <1>3, RefreshedSets
<1>5. stack' \in Seq(Frames) /\ Quiet(stack, stack')
  <2>1. CASE stack' = Pop BY <1>2, <2>1
  <2>2. CASE Report(Append(Pop, again), o)
    <3>1. Append(Pop, again) \in Seq(Frames) /\ Quiet(Pop, Append(Pop, again)) BY <1>2, <1>3, QuietAppend
    <3>2. stack' \in Seq(Frames) /\ Quiet(Append(Pop, again), stack') BY <1>0, <1>3, <2>2, <3>1, ReportIsQuiet
    <3> QED BY <1>2, <3>1, <3>2, QuietTwice
  <2> QED BY <1>1, <2>1, <2>2
<1>6. CheckpointTypes' BY <1>0, <1>1, <1>4, <1>5 DEF CheckpointTypes
<1>7. LoopRuns' BY <1>1 DEF CheckpointInv, LoopRuns
<1>8. ~CleanCycle' BY <1>1 DEF CheckpointInv, CleanIsSeen, InCheckpoint, CleanCycle
<1>9. \A x \in Observers : x \in Registered => x \in Registered' BY <1>1, <1>4 DEF Registered
<1>10. \A x \in Observers : Current(x)' = Current(x) BY <1>1, CurrentStays
<1>11. \A x \in Observers : UpToDate(x) => UpToDate(x)' BY <1>4, <1>10 DEF UpToDate
<1> QED BY <1>1, <1>4, <1>5, <1>6, <1>7, <1>8, <1>9, <1>11, QuietKeeps

\* Functions that return, or throw, outside the loop of the checkpoint.
LEMMA PopKeeps ==
  ASSUME CheckpointInv, Return \/ CallbackThrows \/ TaskThrows
  PROVE  CheckpointInv'
<1>0. CheckpointTypes BY DEF CheckpointInv
<1>1. /\ stack # <<>> /\ Top.call \in {"callback", "task"}
      /\ stack' \in {Pop, Front(Pop), Front(Front(Pop))}
      /\ UNCHANGED <<store, state, observed, value, callback, allObservers, running, loop, eomTasks, settled,
                     passedOver>>
  BY DEF Return, CallbackThrows, TaskThrows, data
<1>2. Pop \in Seq(Frames) /\ Quiet(stack, Pop) BY <1>0, <1>1, FrontIsQuiet DEF CheckpointTypes, Pop
<1>3. Front(Pop) \in Seq(Frames) /\ Quiet(stack, Front(Pop)) BY <1>2, FrontIsQuiet, QuietTwice
<1>4. Front(Front(Pop)) \in Seq(Frames) /\ Quiet(stack, Front(Front(Pop))) BY <1>3, FrontIsQuiet, QuietTwice
<1>5. stack' \in Seq(Frames) /\ Quiet(stack, stack') BY <1>1, <1>2, <1>3, <1>4
<1>6. CheckpointTypes' BY <1>0, <1>1, <1>5 DEF CheckpointTypes
<1>7. LoopRuns' BY <1>1 DEF CheckpointInv, LoopRuns
<1>8. ~CleanCycle' BY <1>1 DEF CheckpointInv, CleanIsSeen, InCheckpoint, CleanCycle
<1>9. \A x \in Observers : x \in Registered => x \in Registered' BY <1>1 DEF Registered
<1>10. \A x \in Observers : Current(x)' = Current(x) BY <1>1, CurrentStays
<1> QED BY <1>1, <1>5, <1>6, <1>7, <1>8, <1>9, <1>10, QuietKeeps DEF UpToDate

(***************************************************************************)
(* A checkpoint is on the stack once, and then one is under way.           *)
(***************************************************************************)
ChecksIn(s) == \E k \in DOMAIN s : s[k].call = "checkpoint"
ChecksOnce(s) ==
    \A j, k \in DOMAIN s : s[j].call = "checkpoint" /\ s[k].call = "checkpoint" => j = k
OneCheckpoint == ChecksOnce(stack) /\ (ChecksIn(stack) => running)

\* No checkpoint is on t that is not on s.
Calm(s, t) == ChecksOnce(s) => ChecksOnce(t) /\ (ChecksIn(t) => ChecksIn(s))

LEMMA CalmSame == ASSUME NEW s PROVE Calm(s, s)
BY DEF Calm

LEMMA CalmTwice ==
  ASSUME NEW s, NEW t, NEW u, Calm(s, t), Calm(t, u) PROVE Calm(s, u)
BY DEF Calm

LEMMA CalmFront ==
  ASSUME NEW s \in Seq(Frames) PROVE Calm(s, Front(s))
<1>1. CASE s = <<>>
  <2>1. Front(s) = <<>> BY <1>1 DEF Front
  <2> QED BY <1>1, <2>1, CalmSame
<1>2. CASE s # <<>>
  <2>1. /\ DOMAIN Front(s) = 1 .. Len(s) - 1 /\ Len(s) \in Nat \ {0}
        /\ \A i \in 1 .. Len(s) - 1 : Front(s)[i] = s[i]
      BY <1>2, FrontProperties
  <2>2. \A i \in DOMAIN Front(s) : i \in DOMAIN s /\ Front(s)[i] = s[i] BY <2>1
  <2> QED BY <2>2 DEF Calm, ChecksIn, ChecksOnce
<1> QED BY <1>1, <1>2

LEMMA CalmAppend ==
  ASSUME NEW s \in Seq(Frames), NEW f \in Frames, f.call # "checkpoint"
  PROVE  Calm(s, Append(s, f))
<1> DEFINE t == Append(s, f)
<1>1. /\ t \in Seq(Frames) /\ Len(s) \in Nat /\ Len(t) = Len(s) + 1 /\ t[Len(t)] = f
      /\ \A i \in 1 .. Len(s) : t[i] = s[i]
  BY AppendProperties
<1> HIDE DEF t
<1>2. \A i \in DOMAIN t : t[i].call = "checkpoint" => i \in DOMAIN s /\ t[i] = s[i]
  BY <1>1
<1>3. Calm(s, t) BY <1>2 DEF Calm, ChecksIn, ChecksOnce
<1> QED BY <1>3 DEF t

LEMMA ReportIsCalm ==
  ASSUME CheckpointTypes, NEW s \in Seq(Frames), NEW o \in Observers, Report(s, o)
  PROVE  Calm(s, stack')
<1>1. CASE callback[o] = "page"
  <2>1. stack' = Append(s, Frame("callback", o)) BY <1>1 DEF Report
  <2> QED BY <2>1, FramesMade, CalmAppend
<1>2. CASE callback[o] = "none"
  <2>1. stack' = s BY <1>2 DEF Report
  <2> QED BY <2>1, CalmSame
<1>3. CASE callback[o] \notin {"page", "none"}
  <2>1. callback[o] \in Observers BY <1>3 DEF CheckpointTypes
  <2>2. stack' = Append(s, Frame("deliver", callback[o])) \/ stack' = s BY <1>3 DEF Report
  <2> QED BY <2>1, <2>2, FramesMade, CalmAppend, CalmSame
<1> QED BY <1>1, <1>2, <1>3

TheCheckpoint == [call |-> "checkpoint", obs |-> "none", cycles |-> 0]

LEMMA CheckpointPushed ==
  ASSUME NEW s \in Seq(Frames), ~ChecksIn(s)
  PROVE  /\ Append(s, TheCheckpoint) \in Seq(Frames) /\ ChecksOnce(Append(s, TheCheckpoint))
         /\ Append(s, TheCheckpoint) # <<>> /\ Last(Append(s, TheCheckpoint)) = TheCheckpoint
         /\ Quiet(s, Append(s, TheCheckpoint))
<1> DEFINE t == Append(s, TheCheckpoint)
<1>0. TheCheckpoint \in Frames /\ TheCheckpoint.call # "open" BY DEF TheCheckpoint, Frames
<1>1. /\ t \in Seq(Frames) /\ Len(s) \in Nat /\ Len(t) = Len(s) + 1 /\ t[Len(t)] = TheCheckpoint
      /\ \A i \in 1 .. Len(s) : t[i] = s[i]
  BY <1>0, AppendProperties
<1>2. Quiet(s, t) BY <1>0, QuietAppend
<1> HIDE DEF t
<1>3. \A i \in DOMAIN t : t[i].call = "checkpoint" => i = Len(t) BY <1>1 DEF ChecksIn
<1>4. ChecksOnce(t) BY <1>3 DEF ChecksOnce
<1>5. t # <<>> /\ Last(t) = TheCheckpoint BY <1>1 DEF Last
<1> QED BY <1>1, <1>2, <1>4, <1>5 DEF t

LEMMA CheckpointPopped ==
  ASSUME NEW s \in Seq(Frames), ChecksOnce(s), s # <<>>, Last(s).call = "checkpoint"
  PROVE  ~ChecksIn(Front(s))
<1>1. /\ DOMAIN Front(s) = 1 .. Len(s) - 1 /\ Len(s) \in Nat \ {0}
      /\ \A i \in 1 .. Len(s) - 1 : Front(s)[i] = s[i]
      /\ Last(s) = s[Len(s)]
  BY FrontProperties
<1>2. \A i \in 1 .. Len(s) - 1 : i \in DOMAIN s /\ i # Len(s) /\ Len(s) \in DOMAIN s BY <1>1
<1> QED BY <1>1, <1>2 DEF ChecksIn, ChecksOnce

LEMMA OneCheckpointKept ==
  ASSUME CheckpointInv, OneCheckpoint, ObserverNext
  PROVE  OneCheckpoint'
<1>0. CheckpointTypes /\ stack \in Seq(Frames) BY DEF CheckpointInv, CheckpointTypes
<1>1. ASSUME running' = running, Calm(stack, stack') PROVE OneCheckpoint'
  BY <1>1 DEF OneCheckpoint, Calm
<1>2. ASSUME Checkpoint PROVE OneCheckpoint'
  <2>1. CASE running BY <1>2, <2>1, <1>1, CalmSame DEF Checkpoint
  <2>2. CASE ~running
    <3>1. running' = TRUE /\ stack' = Append(stack, TheCheckpoint) BY <1>2, <2>2 DEF Checkpoint, TheCheckpoint
    <3>2. ~ChecksIn(stack) BY <2>2 DEF OneCheckpoint
    <3> QED BY <1>0, <3>1, <3>2, CheckpointPushed DEF OneCheckpoint
  <2> QED BY <2>1, <2>2
<1>3. CASE PageActs
  <2>1. ASSUME NEW p \in Paths, NEW v \in Values, Write(p, v) PROVE OneCheckpoint'
      BY <2>1, <1>1, CalmSame DEF Write
  <2>2. ASSUME NEW c \in Compounds, NEW x \in Paths \cup PathObservers, Add(c, x) PROVE OneCheckpoint'
      BY <2>2, <1>1, CalmSame DEF Add, engine
  <2>3. ASSUME NEW o \in Observers, Open(o) PROVE OneCheckpoint'
    <3>1. running' = running BY <2>3 DEF Open
    <3>2. Calm(stack, stack')
      <4>1. CASE UNCHANGED stack BY <4>1, CalmSame
      <4>2. CASE stack' = stack \o <<Frame("open", o), Frame("callback", o)>>
        <5> DEFINE f == Frame("open", o)
                   g == Frame("callback", o)
        <5>1. f \in Frames /\ g \in Frames /\ f.call # "checkpoint" /\ g.call # "checkpoint"
            BY <2>3, FramesMade
        <5> HIDE DEF f, g
        <5>2. stack \o <<f, g>> = Append(Append(stack, f), g) BY <1>0, <5>1
        <5>3. Append(stack, f) \in Seq(Frames) BY <1>0, <5>1
        <5>4. Calm(stack, Append(stack, f)) /\ Calm(Append(stack, f), Append(Append(stack, f), g))
            BY <1>0, <5>1, <5>3, CalmAppend
        <5> QED BY <4>2, <5>2, <5>4, CalmTwice DEF f, g
      <4> QED BY <2>3, <4>1, <4>2 DEF Open
    <3> QED BY <3>1, <3>2, <1>1
  <2>4. ASSUME NEW o \in Observers, Close(o) PROVE OneCheckpoint'
      BY <2>4, <1>1, CalmSame DEF Close, engine
  <2>5. ASSUME NEW o \in Observers, Deliver(o) PROVE OneCheckpoint'
    <3>1. running' = running /\ stack' = Append(stack, Frame("deliver", o)) BY <2>5 DEF Deliver
    <3> QED BY <1>0, <1>1, <2>5, <3>1, FramesMade, CalmAppend
  <2>6. ASSUME NEW o \in Observers, discardChanges(o) PROVE OneCheckpoint'
      BY <2>6, <1>1, CalmSame DEF discardChanges, engine
  <2>7. ASSUME NEW c \in Compounds, NEW x \in Paths, Reset(c, x) PROVE OneCheckpoint'
      BY <2>7, <1>1, CalmSame DEF Reset, engine
  <2>8. ASSUME RunEOM \/ VisibilityChange PROVE OneCheckpoint'
      BY <2>8, <1>1, CalmSame DEF RunEOM, VisibilityChange, engine
  <2>9. ASSUME PerformCheckpoint PROVE OneCheckpoint' BY <2>9, <1>2 DEF PerformCheckpoint
  <2> QED BY <1>3, <2>1, <2>2, <2>3, <2>4, <2>5, <2>6, <2>7, <2>8, <2>9 DEF PageActs
<1>4. CASE EngineSteps
  <2>1. CASE FinishOpen
      BY <1>0, <2>1, <1>1, CalmFront DEF FinishOpen, Pop
  <2>2. CASE DirtyCheck
    <3> DEFINE o == Top.obs
               again == [Top EXCEPT !.cycles = @ + 1]
    <3>1. /\ stack # <<>> /\ Top.call = "deliver" /\ running' = running
          /\ Report(Append(Pop, again), o) \/ stack' = Pop
        BY <2>2 DEF DirtyCheck
    <3>2. Pop \in Seq(Frames) /\ Calm(stack, Pop) /\ Top \in Frames
        BY <1>0, <3>1, FrontProperties, CalmFront DEF Pop, Top
    <3>3. o \in Observers /\ again \in Frames /\ again.call # "checkpoint" BY <3>1, <3>2 DEF Frames
    <3> HIDE DEF o, again
    <3>4. CASE stack' = Pop BY <1>1, <3>1, <3>2, <3>4
    <3>5. CASE Report(Append(Pop, again), o)
      <4>1. Append(Pop, again) \in Seq(Frames) BY <3>2, <3>3
      <4>2. Calm(Pop, Append(Pop, again)) BY <3>2, <3>3, CalmAppend
      <4>3. Calm(Append(Pop, again), stack') BY <1>0, <3>3, <3>5, <4>1, ReportIsCalm
      <4> QED BY <1>1, <3>1, <3>2, <4>2, <4>3, CalmTwice
    <3> QED BY <3>1, <3>4, <3>5
  <2>3. CASE CheckNext
    <3> DEFINE o == loop.toCheck[loop.i]
    <3>1. running' = running /\ (Report(stack, o) \/ stack' = stack) BY <2>3 DEF CheckNext
    <3>2. o \in Observers
      <4>1. loop \in Loops /\ loop.i <= Len(loop.toCheck) BY <1>0, <2>3 DEF CheckpointTypes, CheckNext
      <4> QED BY <4>1 DEF Loops
    <3>3. Calm(stack, stack') BY <1>0, <3>1, <3>2, ReportIsCalm, CalmSame
    <3> QED BY <1>1, <3>1, <3>3
  <2>4. CASE RunTask
    <3> DEFINE f == [call |-> "task", obs |-> "none", cycles |-> 0]
    <3>1. running' = running /\ stack' = Append(stack, f) BY <2>4 DEF RunTask
    <3>2. f \in Frames /\ f.call # "checkpoint" BY DEF Frames
    <3> HIDE DEF f
    <3> QED BY <1>0, <1>1, <3>1, <3>2, CalmAppend
  <2>5. CASE EndCycle
    <3>1. /\ stack # <<>> /\ Last(stack).call = "checkpoint"
          /\ (running' = running /\ stack' = stack) \/ stack' = Front(stack)
        BY <2>5 DEF EndCycle, InCheckpoint, Top, Pop
    <3>2. ChecksOnce(stack) BY DEF OneCheckpoint
    <3>3. CASE stack' = Front(stack)
      <4>1. ~ChecksIn(stack') BY <1>0, <3>1, <3>2, <3>3, CheckpointPopped
      <4>2. Calm(stack, stack') BY <1>0, <3>3, CalmFront
      <4> QED BY <3>2, <4>1, <4>2 DEF OneCheckpoint, Calm
    <3> QED BY <1>1, <3>1, <3>3, CalmSame
  <2>6. CASE Return \/ CallbackThrows \/ TaskThrows
    <3>1. running' = running /\ stack' \in {Pop, Front(Pop), Front(Front(Pop))}
        BY <2>6 DEF Return, CallbackThrows, TaskThrows
    <3>2. Pop \in Seq(Frames) /\ Calm(stack, Pop) BY <1>0, FrontIsQuiet, CalmFront DEF Pop
    <3>3. Front(Pop) \in Seq(Frames) /\ Calm(stack, Front(Pop)) BY <3>2, FrontIsQuiet, CalmFront, CalmTwice
    <3>4. Calm(stack, Front(Front(Pop))) BY <3>3, CalmFront, CalmTwice
    <3> QED BY <1>1, <3>1, <3>2, <3>3, <3>4
  <2> QED BY <1>4, <2>1, <2>2, <2>3, <2>4, <2>5, <2>6 DEF EngineSteps
<1>5. CASE Poll BY <1>5, <1>1, CalmSame DEF Poll, engine
<1>6. CASE AtEndOfMicrotask BY <1>6, <1>2 DEF AtEndOfMicrotask
<1> QED BY <1>3, <1>4, <1>5, <1>6 DEF ObserverNext

(***************************************************************************)
(* The loop of performMicrotaskCheckpoint.                                 *)
(***************************************************************************)
LEMMA NoneLeft == Idle \in Loops /\ ~Idle.reported /\ {Idle.toCheck[i] : i \in Idle.i .. Len(Idle.toCheck)} = {}
<1>1. Idle.toCheck = <<>> /\ Idle.i = 1 /\ <<>> \in Seq(Observers) /\ Len(<<>>) = 0 BY DEF Idle
<1> QED BY <1>1 DEF Idle, Loops

\* A cycle starts with all the observers there are to check.
LEMMA CycleListsAll ==
  ASSUME CheckpointTypes, NEW n \in Nat
  PROVE  /\ Cycle(n) \in Loops /\ Cycle(n).i = 1 /\ Cycle(n).toCheck = allObservers
         /\ ~Cycle(n).reported
         /\ {Cycle(n).toCheck[i] : i \in Cycle(n).i .. Len(Cycle(n).toCheck)} = Range(allObservers)
<1>1. Cycle(n) = [cycles |-> n, toCheck |-> allObservers, i |-> 1, anyChanged |-> FALSE,
                  reported |-> FALSE, task |-> 0]
  <2>1. Idle \in Loops /\ Idle.i = 1 /\ ~Idle.anyChanged /\ ~Idle.reported /\ Idle.task = 0
      BY NoneLeft DEF Idle
  <2>2. Cycle(n) = [Idle EXCEPT !.cycles = n, !.toCheck = allObservers] BY DEF Cycle
  <2> QED BY <2>1, <2>2 DEF Loops
<1>2. allObservers \in Seq(Observers) /\ DOMAIN allObservers = 1 .. Len(allObservers) BY DEF CheckpointTypes
<1>3. Cycle(n) \in Loops BY <1>1, <1>2 DEF Loops
<1> QED BY <1>1, <1>2, <1>3 DEF Range

\* A new cycle begins, the first or a later one: all that was kept is to be checked.
LEMMA CycleKeeps ==
  ASSUME CheckpointInv, NEW n \in Nat,
         running' = TRUE, loop' = Cycle(n), allObservers' = <<>>, Rest = {},
         stack' \in Seq(Frames), Quiet(stack, stack'), InCheckpoint',
         eomTasks' \in Nat, UNCHANGED <<store, state, observed, value, callback, settled, passedOver>>
  PROVE  CheckpointInv'
<1>0. CheckpointTypes /\ OpensUnderWay /\ LiveAreListed /\ SettledIsSeen BY DEF CheckpointInv
<1>1. /\ Cycle(n) \in Loops /\ ~Cycle(n).reported
      /\ {Cycle(n).toCheck[i] : i \in Cycle(n).i .. Len(Cycle(n).toCheck)} = Range(allObservers)
  BY <1>0, CycleListsAll
<1>2. Rest' = Range(allObservers) BY <1>1 DEF Rest
<1>3. Registered = Range(allObservers) BY DEF Registered, Rest
<1>4. Range(allObservers) \subseteq Registered' BY <1>2 DEF Registered, Rest
<1>5. CheckpointTypes'
  <2>1. <<>> \in Seq(Observers) OBVIOUS
  <2> QED BY <1>0, <1>1, <2>1 DEF CheckpointTypes
<1>6. OpensUnderWay' BY <1>0 DEF OpensUnderWay, Quiet
<1>7. LoopRuns' BY <1>1 DEF LoopRuns
<1>8. \A o \in Observers : Live(o)' => Live(o) BY <1>0 DEF Live, Quiet, OpensUnderWay
<1>9. LiveAreListed' BY <1>0, <1>3, <1>4, <1>8 DEF LiveAreListed
<1>10. \A x \in Observers : Current(x)' = Current(x) BY CurrentStays
<1>11. SettledIsSeen' BY <1>0, <1>8, <1>10 DEF SettledIsSeen, UpToDate
<1>12. CleanIsSeen' BY <1>2, <1>3, <1>9, <1>0, <1>8 DEF CleanIsSeen, LiveAreListed
<1> QED BY <1>5, <1>6, <1>7, <1>9, <1>11, <1>12 DEF CheckpointInv

LEMMA CheckpointKeeps ==
  ASSUME CheckpointInv, OneCheckpoint, PerformCheckpoint \/ AtEndOfMicrotask
  PROVE  CheckpointInv'
<1>0. CheckpointTypes /\ LoopRuns BY DEF CheckpointInv
<1>1. /\ Checkpoint
      /\ UNCHANGED <<store, state, observed, value, callback, eomTasks, settled, passedOver>>
  BY DEF PerformCheckpoint, AtEndOfMicrotask
<1>2. CASE running
  <2>1. UNCHANGED <<running, loop, allObservers, stack>> BY <1>1, <1>2 DEF Checkpoint
  <2> QED BY <1>1, <2>1, SameKeeps DEF data
<1>3. CASE ~running
  <2>1. /\ running' = TRUE /\ loop' = Cycle(1) /\ allObservers' = <<>> /\ stack' = Append(stack, TheCheckpoint)
      BY <1>1, <1>3 DEF Checkpoint, TheCheckpoint
  <2>2. stack \in Seq(Frames) /\ ~ChecksIn(stack) BY <1>0, <1>3 DEF CheckpointTypes, OneCheckpoint
  <2>3. /\ stack' \in Seq(Frames) /\ Quiet(stack, stack') /\ stack' # <<>> /\ Last(stack') = TheCheckpoint
      BY <2>1, <2>2, CheckpointPushed
  <2>4. InCheckpoint' BY <2>3 DEF InCheckpoint, Top, TheCheckpoint
  <2>5. Rest = {} BY <1>0, <1>3, NoneLeft DEF LoopRuns, Rest
  <2>6. eomTasks' \in Nat BY <1>0, <1>1 DEF CheckpointTypes
  <2> QED BY <1>1, <2>1, <2>3, <2>4, <2>5, <2>6, CycleKeeps
<1> QED BY <1>2, <1>3

\* In a checkpoint one is under way.
LEMMA CheckpointRuns ==
  ASSUME CheckpointInv, OneCheckpoint, InCheckpoint
  PROVE  running
<1>1. stack \in Seq(Frames) /\ stack # <<>> /\ Last(stack).call = "checkpoint"
  BY DEF CheckpointInv, CheckpointTypes, InCheckpoint, Top
<1>2. Len(stack) \in DOMAIN stack /\ Last(stack) = stack[Len(stack)]
  BY <1>1, FrontProperties
<1>3. ChecksIn(stack) BY <1>1, <1>2 DEF ChecksIn
<1> QED BY <1>3 DEF OneCheckpoint

\* The loop goes on to the next observer.
LEMMA RestShrinks ==
  ASSUME CheckpointTypes, loop.i <= Len(loop.toCheck),
         loop'.toCheck = loop.toCheck, loop'.i = loop.i + 1
  PROVE  Rest = Rest' \cup {loop.toCheck[loop.i]}
<1>1. loop.i \in Nat \ {0} /\ loop.toCheck \in Seq(Observers) /\ Len(loop.toCheck) \in Nat
  BY DEF CheckpointTypes, Loops
<1>2. loop.i .. Len(loop.toCheck) = (loop.i + 1 .. Len(loop.toCheck)) \cup {loop.i} BY <1>1
<1> QED BY <1>2 DEF Rest

LEMMA LoopGoesOn ==
  ASSUME loop \in Loops, loop' = [loop EXCEPT !.i = @ + 1]
  PROVE  /\ loop' \in Loops /\ loop'.toCheck = loop.toCheck /\ loop'.i = loop.i + 1
         /\ (loop'.reported <=> loop.reported) /\ (loop'.anyChanged <=> loop.anyChanged)
         /\ loop'.task = loop.task
<1>1. /\ loop = [cycles |-> loop.cycles, toCheck |-> loop.toCheck, i |-> loop.i,
                 anyChanged |-> loop.anyChanged, reported |-> loop.reported, task |-> loop.task]
      /\ loop.cycles \in Nat /\ loop.toCheck \in Seq(Observers) /\ loop.i \in Nat \ {0}
      /\ loop.anyChanged \in BOOLEAN /\ loop.reported \in BOOLEAN /\ loop.task \in Nat
  BY DEF Loops
<1> DEFINE n == loop.i + 1
<1>2. n \in Nat \ {0} BY <1>1
<1>3. loop' = [loop EXCEPT !.i = n] OBVIOUS
<1> HIDE DEF n
<1>4. loop' = [cycles |-> loop.cycles, toCheck |-> loop.toCheck, i |-> n,
               anyChanged |-> loop.anyChanged, reported |-> loop.reported, task |-> loop.task]
  BY <1>1, <1>3
<1>5. loop' \in Loops BY <1>1, <1>2, <1>4 DEF Loops
<1> QED BY <1>4, <1>5 DEF n

LEMMA AppendRange ==
  ASSUME NEW all \in Seq(Observers), NEW o \in Observers
  PROVE  Append(all, o) \in Seq(Observers) /\ Range(Append(all, o)) = Range(all) \cup {o}
<1> DEFINE more == Append(all, o)
           n == Len(all)
<1>1. /\ more \in Seq(Observers) /\ n \in Nat /\ DOMAIN all = 1 .. n /\ DOMAIN more = 1 .. n + 1
      /\ more[n + 1] = o /\ \A i \in 1 .. n : more[i] = all[i]
  OBVIOUS
<1> HIDE DEF more, n
<1>2. Range(more) = Range(all) \cup {o} BY <1>1 DEF Range
<1> QED BY <1>1, <1>2 DEF more

\* An observer is kept after its callback has returned.
LEMMA ReportedKeeps ==
  ASSUME CheckpointInv, OneCheckpoint, CheckNext, loop.reported
  PROVE  CheckpointInv'
<1> DEFINE o == loop.toCheck[loop.i]
<1>0. CheckpointTypes BY DEF CheckpointInv
<1>1. /\ InCheckpoint /\ loop.i <= Len(loop.toCheck)
      /\ loop' = [loop EXCEPT !.i = @ + 1, !.anyChanged = TRUE, !.reported = FALSE]
      /\ allObservers' = Append(allObservers, o)
      /\ UNCHANGED <<store, state, observed, value, callback, running, eomTasks, stack, settled, passedOver>>
  BY DEF CheckNext
<1>2. /\ loop \in Loops /\ loop.toCheck \in Seq(Observers) /\ loop.i \in Nat \ {0}
      /\ allObservers \in Seq(Observers)
  BY <1>0 DEF CheckpointTypes, Loops
<1>3. o \in Observers BY <1>1, <1>2
<1>4. /\ loop' \in Loops /\ loop'.toCheck = loop.toCheck /\ loop'.i = loop.i + 1
      /\ loop'.anyChanged /\ ~loop'.reported
  <2>1. /\ loop = [cycles |-> loop.cycles, toCheck |-> loop.toCheck, i |-> loop.i,
                   anyChanged |-> loop.anyChanged, reported |-> loop.reported, task |-> loop.task]
        /\ loop.cycles \in Nat /\ loop.task \in Nat
    BY <1>2 DEF Loops
  <2> DEFINE n == loop.i + 1
  <2>2. n \in Nat \ {0} BY <1>2
  <2>3. loop' = [loop EXCEPT !.i = n, !.anyChanged = TRUE, !.reported = FALSE] BY <1>1
  <2> HIDE DEF n
  <2>4. loop' = [cycles |-> loop.cycles, toCheck |-> loop.toCheck, i |-> n,
                 anyChanged |-> TRUE, reported |-> FALSE, task |-> loop.task]
    BY <2>1, <2>3
  <2>5. loop' \in Loops BY <1>2, <2>1, <2>2, <2>4 DEF Loops
  <2> QED BY <2>4, <2>5 DEF n
<1>5. Rest = Rest' \cup {o} BY <1>0, <1>1, <1>4, RestShrinks
<1> HIDE DEF o
<1>6. allObservers' \in Seq(Observers) /\ Range(allObservers') = Range(allObservers) \cup {o}
  BY <1>1, <1>2, <1>3, AppendRange
<1>7. CheckpointTypes' BY <1>0, <1>1, <1>4, <1>6 DEF CheckpointTypes
<1>8. running BY <1>1, CheckpointRuns
<1>9. LoopRuns' BY <1>1, <1>4, <1>8 DEF LoopRuns
<1>10. ~CleanCycle' BY <1>4 DEF CleanCycle
<1>11. Quiet(stack, stack') BY <1>1, QuietSame
<1>12. Registered \subseteq Registered' BY <1>5, <1>6 DEF Registered, Rest
<1>13. \A x \in Observers : Current(x)' = Current(x) BY <1>1, CurrentStays
<1> QED BY <1>1, <1>7, <1>9, <1>10, <1>11, <1>12, <1>13, QuietKeeps DEF UpToDate

\* An observer that is not open is dropped.
LEMMA DroppedKeeps ==
  ASSUME CheckpointInv, OneCheckpoint, CheckNext, ~loop.reported,
         state[loop.toCheck[loop.i]] # "opened"
  PROVE  CheckpointInv'
<1> DEFINE o == loop.toCheck[loop.i]
<1>0. CheckpointTypes /\ OpensUnderWay /\ LiveAreListed /\ SettledIsSeen /\ CleanIsSeen BY DEF CheckpointInv
<1>1. /\ InCheckpoint /\ loop.i <= Len(loop.toCheck)
      /\ loop' = [loop EXCEPT !.i = @ + 1]
      /\ passedOver' = IF state[o] = "closed" THEN passedOver ELSE passedOver \cup {o}
      /\ UNCHANGED <<store, state, observed, value, callback, allObservers, running, eomTasks, stack, settled>>
  BY DEF CheckNext
<1>2. loop \in Loops /\ loop.i \in Nat \ {0} BY <1>0 DEF CheckpointTypes, Loops
<1>3. /\ loop' \in Loops /\ loop'.toCheck = loop.toCheck /\ loop'.i = loop.i + 1
      /\ (loop'.reported <=> loop.reported) /\ (loop'.anyChanged <=> loop.anyChanged)
      /\ loop'.task = loop.task
  BY <1>1, <1>2, LoopGoesOn
<1>4. Rest = Rest' \cup {o} BY <1>0, <1>1, <1>3, RestShrinks
<1>5. state[o] # "opened" OBVIOUS
<1> HIDE DEF o
<1>6. \A x \in Observers \ passedOver' : Live(x) => x # o
  BY <1>0, <1>1, <1>5 DEF Live, OpensUnderWay
<1>7. \A x \in Observers : (Live(x)' <=> Live(x)) /\ (UpToDate(x)' <=> UpToDate(x))
  <2>1. \A x \in Observers : Current(x)' = Current(x) BY <1>1, CurrentStays
  <2> QED BY <1>1, <2>1 DEF Live, UpToDate
<1>8. CheckpointTypes' BY <1>0, <1>1, <1>3 DEF CheckpointTypes
<1>9. OpensUnderWay' BY <1>0, <1>1 DEF OpensUnderWay
<1>10. running BY <1>1, CheckpointRuns
<1>11. LoopRuns' BY <1>1, <1>3, <1>10 DEF LoopRuns
<1>12. passedOver \subseteq passedOver' BY <1>1
<1>13. Registered \subseteq Registered' \cup {o} BY <1>1, <1>4 DEF Registered, Rest
<1>14. LiveAreListed' BY <1>0, <1>6, <1>7, <1>12, <1>13 DEF LiveAreListed
<1>15. SettledIsSeen' BY <1>0, <1>1, <1>7, <1>12 DEF SettledIsSeen
<1>16. InCheckpoint' BY <1>1 DEF InCheckpoint, Top
<1>17. CleanCycle' => CleanCycle BY <1>1, <1>3 DEF CleanCycle
<1>18. \A x \in Observers : x # o /\ x \notin Rest' => x \notin Rest BY <1>4
<1>19. CleanIsSeen' BY <1>0, <1>6, <1>7, <1>12, <1>16, <1>17, <1>18 DEF CleanIsSeen
<1> QED BY <1>8, <1>9, <1>11, <1>14, <1>15, <1>19 DEF CheckpointInv

\* An observer that is open is brought up to date: its change is reported, or
\* it is kept at once.
LEMMA CheckedKeeps ==
  ASSUME CheckpointInv, OneCheckpoint, CheckNext, ~loop.reported,
         state[loop.toCheck[loop.i]] = "opened"
  PROVE  CheckpointInv'
<1> DEFINE o == loop.toCheck[loop.i]
<1>0. CheckpointTypes /\ OpensUnderWay /\ LiveAreListed /\ SettledIsSeen /\ CleanIsSeen BY DEF CheckpointInv
<1>1. /\ InCheckpoint /\ loop.i <= Len(loop.toCheck)
      /\ UNCHANGED <<store, observed, running, eomTasks, settled, passedOver>>
  BY DEF CheckNext
<1>2. /\ loop \in Loops /\ loop.toCheck \in Seq(Observers) /\ loop.i \in Nat \ {0}
      /\ allObservers \in Seq(Observers)
  BY <1>0 DEF CheckpointTypes, Loops
<1>3. o \in Observers BY <1>1, <1>2
<1>4. running BY <1>1, CheckpointRuns
<1>5. \A x \in Observers : Current(x)' = Current(x) BY <1>1, CurrentStays
<1>6. CASE Changes(heap, o)
  <2>1. /\ SetHeap(Refreshed(heap, o))
        /\ loop' = [loop EXCEPT !.reported = TRUE]
        /\ Report(stack, o)
    BY <1>6 DEF CheckNext
  <2>2. /\ UNCHANGED <<state, callback, allObservers>>
        /\ value' = [x \in Observers |-> IF x \in Nested(o) \cup {o} THEN Current(x) ELSE value[x]]
    BY <1>3, <2>1, RefreshedSets
  <2>3. /\ loop' \in Loops /\ loop'.toCheck = loop.toCheck /\ loop'.i = loop.i /\ loop'.reported
    BY <1>2, <2>1 DEF Loops
  <2>4. stack' \in Seq(Frames) /\ Quiet(stack, stack')
    BY <1>0, <1>3, <2>1, ReportIsQuiet DEF CheckpointTypes
  <2>5. CheckpointTypes' BY <1>0, <1>1, <2>2, <2>3, <2>4 DEF CheckpointTypes
  <2>6. LoopRuns' BY <1>1, <1>4, <2>3 DEF LoopRuns
  <2>7. ~CleanCycle' BY <2>3 DEF CleanCycle
  <2>8. \A x \in Observers : x \in Registered => x \in Registered' BY <2>2, <2>3 DEF Registered
  <2>9. \A x \in Observers : UpToDate(x) => UpToDate(x)' BY <1>5, <2>2 DEF UpToDate
  <2> QED BY <1>1, <2>2, <2>4, <2>5, <2>6, <2>7, <2>8, <2>9, QuietKeeps
<1>7. CASE ~Changes(heap, o)
  <2>1. /\ SetHeap([Refreshed(heap, o) EXCEPT !.all = Append(@, o)])
        /\ loop' = [loop EXCEPT !.i = @ + 1]
        /\ stack' = stack
    BY <1>7 DEF CheckNext
  <2>2. /\ UNCHANGED <<state, callback>>
        /\ allObservers' = Append(allObservers, o)
        /\ value' = [x \in Observers |-> IF x \in Nested(o) \cup {o} THEN Current(x) ELSE value[x]]
    BY <2>1 DEF SetHeap, Refreshed, heap
  <2>3. /\ loop' \in Loops /\ loop'.toCheck = loop.toCheck /\ loop'.i = loop.i + 1
        /\ (loop'.reported <=> loop.reported) /\ (loop'.anyChanged <=> loop.anyChanged)
        /\ loop'.task = loop.task
    BY <1>2, <2>1, LoopGoesOn
  <2>4. Rest = Rest' \cup {o} BY <1>0, <1>1, <2>3, RestShrinks
  <2>5. allObservers' \in Seq(Observers) /\ Range(allObservers') = Range(allObservers) \cup {o}
    BY <1>2, <1>3, <2>2, AppendRange
  <2> HIDE DEF o
  <2>6. CheckpointTypes' BY <1>0, <1>1, <2>1, <2>2, <2>3, <2>5 DEF CheckpointTypes
  <2>7. OpensUnderWay' BY <1>0, <2>1, <2>2 DEF OpensUnderWay
  <2>8. LoopRuns' BY <1>1, <1>4, <2>3 DEF LoopRuns
  <2>9. \A x \in Observers : (Live(x)' <=> Live(x)) /\ (UpToDate(x) => UpToDate(x)')
    BY <1>5, <2>1, <2>2 DEF Live, UpToDate
  <2>10. \A x \in Observers : x = o => UpToDate(x)' BY <1>5, <2>2 DEF UpToDate
  <2>11. Registered \subseteq Registered' BY <2>4, <2>5 DEF Registered, Rest
  <2>12. LiveAreListed' BY <1>0, <1>1, <2>9, <2>11 DEF LiveAreListed
  <2>13. SettledIsSeen' BY <1>0, <1>1, <2>9 DEF SettledIsSeen
  <2>14. InCheckpoint' BY <1>1, <2>1 DEF InCheckpoint, Top
  <2>15. CleanCycle' => CleanCycle BY <1>1, <2>3 DEF CleanCycle
  <2>16. \A x \in Observers : x # o /\ x \notin Rest' => x \notin Rest BY <2>4
  <2>17. CleanIsSeen' BY <1>0, <1>1, <2>9, <2>10, <2>14, <2>15, <2>16 DEF CleanIsSeen
  <2> QED BY <2>6, <2>7, <2>8, <2>12, <2>13, <2>17 DEF CheckpointInv
<1> QED BY <1>6, <1>7

LEMMA RunTaskKeeps ==
  ASSUME CheckpointInv, OneCheckpoint, RunTask
  PROVE  CheckpointInv'
<1> DEFINE f == [call |-> "task", obs |-> "none", cycles |-> 0]
<1>0. CheckpointTypes /\ LoopRuns BY DEF CheckpointInv
<1>1. /\ InCheckpoint /\ loop.i > Len(loop.toCheck)
      /\ loop' = [loop EXCEPT !.task = @ + 1]
      /\ stack' = Append(stack, f)
      /\ UNCHANGED <<store, state, observed, value, callback, allObservers, running, eomTasks, settled, passedOver>>
  BY DEF RunTask, data
<1>2. loop \in Loops /\ loop.toCheck \in Seq(Observers) /\ loop.i \in Nat \ {0} /\ loop.task \in Nat
  BY <1>0 DEF CheckpointTypes, Loops
<1>3. /\ loop' \in Loops /\ loop'.toCheck = loop.toCheck /\ loop'.i = loop.i
      /\ loop'.reported = loop.reported /\ loop'.task = loop.task + 1
  BY <1>1, <1>2 DEF Loops
<1>4. stack \in Seq(Frames) /\ f \in Frames /\ f.call # "open" BY <1>0 DEF CheckpointTypes, Frames
<1> HIDE DEF f
<1>5. stack' \in Seq(Frames) /\ Quiet(stack, stack') BY <1>1, <1>4, QuietAppend
<1>6. CheckpointTypes' BY <1>0, <1>1, <1>3, <1>5 DEF CheckpointTypes
<1>7. running BY <1>1, CheckpointRuns
<1>8. LoopRuns' BY <1>0, <1>1, <1>3, <1>7 DEF LoopRuns
<1>9. loop'.task # 0 BY <1>2, <1>3
<1>10. ~CleanCycle' BY <1>9 DEF CleanCycle
<1>11. \A x \in Observers : x \in Registered => x \in Registered' BY <1>1, <1>3 DEF Registered
<1>12. \A x \in Observers : Current(x)' = Current(x) BY <1>1, CurrentStays
<1> QED BY <1>1, <1>5, <1>6, <1>8, <1>10, <1>11, <1>12, QuietKeeps DEF UpToDate

LEMMA EndCycleKeeps ==
  ASSUME CheckpointInv, OneCheckpoint, EndCycle
  PROVE  CheckpointInv'
<1> DEFINE anyChanged == loop.anyChanged \/ eomTasks > 0
<1>0. /\ CheckpointTypes /\ OpensUnderWay /\ LoopRuns
      /\ LiveAreListed /\ SettledIsSeen /\ CleanIsSeen
  BY DEF CheckpointInv
<1>1. /\ InCheckpoint /\ loop.i > Len(loop.toCheck) /\ loop.task = eomTasks /\ eomTasks' = 0
      /\ UNCHANGED <<store, state, observed, value, callback, passedOver>>
  BY DEF EndCycle
<1>2. /\ loop \in Loops /\ loop.toCheck \in Seq(Observers) /\ loop.i \in Nat \ {0} /\ loop.cycles \in Nat
      /\ eomTasks \in Nat
  BY <1>0 DEF CheckpointTypes, Loops
<1>3. ~loop.reported /\ Rest = {}
  <2>1. Len(loop.toCheck) \in Nat /\ loop.i .. Len(loop.toCheck) = {} BY <1>1, <1>2
  <2> QED BY <1>0, <1>1, <1>2, <2>1 DEF LoopRuns, Rest
<1>4. running BY <1>1, CheckpointRuns
<1>5. CASE loop.cycles < MaxCycles /\ anyChanged
  <2>1. /\ loop' = Cycle(loop.cycles + 1) /\ allObservers' = <<>>
        /\ UNCHANGED <<running, stack, settled>>
    BY <1>5 DEF EndCycle
  <2>2. InCheckpoint' BY <1>1, <2>1 DEF InCheckpoint, Top
  <2>3. loop.cycles + 1 \in Nat /\ 0 \in Nat BY <1>2
  <2>4. running' = TRUE BY <1>0, <1>4, <2>1 DEF CheckpointTypes
  <2>5. stack' \in Seq(Frames) /\ Quiet(stack, stack') BY <1>0, <2>1, QuietSame DEF CheckpointTypes
  <2> QED BY <1>1, <1>3, <2>1, <2>2, <2>3, <2>4, <2>5, CycleKeeps
<1>6. CASE ~(loop.cycles < MaxCycles /\ anyChanged)
  <2>1. /\ running' = FALSE /\ loop' = Idle /\ stack' = Pop /\ settled' = ~anyChanged
        /\ UNCHANGED allObservers
    BY <1>6 DEF EndCycle
  <2>2. stack' \in Seq(Frames) /\ Quiet(stack, stack')
    BY <1>0, <2>1, FrontIsQuiet DEF CheckpointTypes, Pop
  <2>3. CheckpointTypes'
    <3>1. settled' \in BOOLEAN /\ running' \in BOOLEAN BY <2>1
    <3> QED BY <1>0, <1>1, <2>1, <2>2, <3>1, NoneLeft DEF CheckpointTypes
  <2>4. OpensUnderWay' BY <1>0, <1>1, <2>2 DEF OpensUnderWay, Quiet
  <2>5. LoopRuns' BY <2>1, NoneLeft DEF LoopRuns
  <2>6. \A x \in Observers : Live(x)' => Live(x) BY <1>0, <1>1, <2>2 DEF Live, Quiet, OpensUnderWay
  <2>7. Registered \subseteq Registered' BY <1>3, <2>1 DEF Registered, Rest
  <2>8. LiveAreListed' BY <1>0, <1>1, <2>6, <2>7 DEF LiveAreListed
  <2>9. \A x \in Observers : Current(x)' = Current(x) BY <1>1, CurrentStays
  <2>10. settled' => CleanCycle
    <3> SUFFICES ASSUME settled' PROVE CleanCycle OBVIOUS
    <3>1. ~loop.anyChanged /\ ~(eomTasks > 0) BY <2>1
    <3>2. loop.task = 0 BY <1>1, <1>2, <3>1
    <3> QED BY <1>3, <1>4, <3>1, <3>2 DEF CleanCycle
  <2>11. settled' => \A x \in Observers \ passedOver : Live(x) => UpToDate(x)
    BY <1>0, <1>3, <2>10 DEF CleanIsSeen
  <2>12. SettledIsSeen' BY <1>1, <2>6, <2>9, <2>11 DEF SettledIsSeen, UpToDate
  <2>13. CleanIsSeen' BY <2>1 DEF CleanIsSeen, CleanCycle
  <2> QED BY <2>3, <2>4, <2>5, <2>8, <2>12, <2>13 DEF CheckpointInv
<1> QED BY <1>5, <1>6

(***************************************************************************)
(* The checkpoint as a whole.                                              *)
(***************************************************************************)
LEMMA CheckpointStarts == ObserverInit => CheckpointInv /\ OneCheckpoint
<1> SUFFICES ASSUME ObserverInit PROVE CheckpointInv /\ OneCheckpoint OBVIOUS
<1>1. /\ store \in [Paths -> Values] /\ state = [o \in Observers |-> "unopened"]
      /\ value = [o \in Observers |-> IF o \in PathObservers THEN <<Undefined>> ELSE <<>>]
      /\ callback = [o \in Observers |-> "none"] /\ allObservers = <<>>
      /\ running = FALSE /\ loop = Idle /\ eomTasks = 0 /\ stack = <<>> /\ settled = FALSE
  BY DEF ObserverInit
<1>2. observed \in [Observers -> Seq(Sources)]
  <2>1. PICK path \in [PathObservers -> Paths] :
            observed = [o \in Observers |-> IF o \in PathObservers THEN <<path[o]>> ELSE <<>>]
      BY DEF ObserverInit
  <2>2. \A o \in PathObservers : <<path[o]>> \in Seq(Sources) BY DEF Sources
  <2>3. <<>> \in Seq(Sources) OBVIOUS
  <2> QED BY <2>1, <2>2, <2>3
<1>3. CheckpointTypes
  <2>1. value = [o \in Observers |-> value[o]] BY <1>1
  <2>2. <<>> \in Seq(Observers) /\ <<>> \in Seq(Frames) OBVIOUS
  <2> QED BY <1>1, <1>2, <2>1, <2>2, NoneLeft DEF CheckpointTypes, StateNames
<1>4. DOMAIN stack = {} BY <1>1
<1>5. OpensUnderWay /\ OneCheckpoint
  BY <1>4 DEF OpensUnderWay, OpensIn, OpensOnce, OneCheckpoint, ChecksIn, ChecksOnce
<1>6. LoopRuns BY <1>1, NoneLeft DEF LoopRuns
<1>7. LiveAreListed BY <1>1, <1>4 DEF LiveAreListed, Live, OpensIn
<1>8. SettledIsSeen /\ CleanIsSeen BY <1>1 DEF SettledIsSeen, CleanIsSeen, CleanCycle
<1> QED BY <1>3, <1>5, <1>6, <1>7, <1>8 DEF CheckpointInv

LEMMA CheckpointSteps ==
  ASSUME CheckpointInv, OneCheckpoint, ObserverNext
  PROVE  CheckpointInv'
<1>1. CASE PageActs
  <2>1. ASSUME NEW o \in Observers, Open(o) PROVE CheckpointInv'
      BY <2>1, OpenEagerKeeps, OpenPlainKeeps
  <2>2. ASSUME NEW c \in Compounds, NEW x \in Paths \cup PathObservers, Add(c, x) PROVE CheckpointInv'
      BY <2>2, AddKeeps DEF Sources
  <2>3. ASSUME VisibilityChange PROVE CheckpointInv'
      BY <2>3, SameKeeps DEF VisibilityChange, engine
  <2> QED BY <1>1, <2>1, <2>2, <2>3, WriteKeeps, CloseActKeeps, DeliverKeeps, DiscardKeeps, ResetKeeps,
             RunEOMKeeps, CheckpointKeeps DEF PageActs
<1>2. CASE EngineSteps
  <2>1. CASE CheckNext
      BY <2>1, ReportedKeeps, DroppedKeeps, CheckedKeeps
  <2> QED BY <1>2, <2>1, FinishOpenKeeps, DirtyCheckKeeps, RunTaskKeeps, EndCycleKeeps, PopKeeps
          DEF EngineSteps
<1>3. CASE Poll BY <1>3, SameKeeps DEF Poll, engine
<1>4. CASE AtEndOfMicrotask BY <1>4, CheckpointKeeps
<1> QED BY <1>1, <1>2, <1>3, <1>4 DEF ObserverNext

LEMMA CheckpointInvariant == ObserverSpec => [](CheckpointInv /\ OneCheckpoint)
<1>1. CheckpointInv /\ OneCheckpoint /\ [ObserverNext]_observerVars => (CheckpointInv /\ OneCheckpoint)'
  <2> SUFFICES ASSUME CheckpointInv, OneCheckpoint, [ObserverNext]_observerVars
               PROVE  CheckpointInv' /\ OneCheckpoint'
      OBVIOUS
  <2>1. CASE UNCHANGED observerVars
    <3>1. CheckpointInv' BY <2>1, SameKeeps DEF observerVars, data
    <3>2. OneCheckpoint' BY <2>1 DEF observerVars, OneCheckpoint
    <3> QED BY <3>1, <3>2
  <2>2. CASE ObserverNext BY <2>2, CheckpointSteps, OneCheckpointKept
  <2> QED BY <2>1, <2>2
<1> QED BY <1>1, CheckpointStarts, PTL DEF ObserverSpec

\* Whatever the page calls, and whatever its functions throw: an observer that
\* is open is on the list of the next cycle, and once a checkpoint has come to
\* rest and no data was written since, it has seen the data (NothingMissed).
THEOREM NothingIsMissed == ObserverSpec => []NothingMissed
<1>1. CheckpointInv => NothingMissed
  BY DEF CheckpointInv, LiveAreListed, SettledIsSeen, Live, UpToDate, NothingMissed
<1> QED BY <1>1, CheckpointInvariant, PTL

(***************************************************************************)
(* The planner of constraints.  Its heap: whatever the scores are, an      *)
(* operation keeps the elements, but for the one that comes or goes, and   *)
(* none stands in it twice.                                                *)
(***************************************************************************)
\* t has the elements of s in another order.
Rearranged(t, s) ==
    /\ t \in Seq(PlannerVariables) /\ Len(t) = Len(s) /\ ToSet(t) = ToSet(s)
    /\ Distinct(s) => Distinct(t)

Heaps(s) == {h \in [content : Seq(PlannerVariables), at : 1 .. Len(s)] : Rearranged(h.content, s)}

\* Rearranging what is rearranged.
LEMMA RearrangedTwice ==
  ASSUME NEW r, NEW s, NEW t, Rearranged(s, r), Rearranged(t, s)
  PROVE  Rearranged(t, r)
BY DEF Rearranged

\* A swap rearranges.
LEMMA SwapRearranges ==
  ASSUME NEW s \in Seq(PlannerVariables), NEW h \in Heaps(s), NEW m \in 1 .. Len(s)
  PROVE  swapped(h, m) \in Heaps(s)
<1> DEFINE c == h.content
           a == h.at
           n == Len(s)
           t == [c EXCEPT ![a] = c[m], ![m] = c[a]]
<1>1. c \in Seq(PlannerVariables) /\ Len(c) = n /\ a \in 1 .. n /\ Rearranged(c, s) BY DEF Heaps, Rearranged
<1>2. n \in Nat /\ m \in 1 .. n OBVIOUS
<1>3. swapped(h, m) = [content |-> t, at |-> m] BY DEF swapped
<1> HIDE DEF c, a, n
<1>4. DOMAIN c = 1 .. n /\ \A i \in 1 .. n : c[i] \in PlannerVariables BY <1>1
<1>5. t \in [1 .. n -> PlannerVariables]
  <2>1. c \in [1 .. n -> PlannerVariables] BY <1>1
  <2> QED BY <1>1, <1>2, <1>4, <2>1
<1>7. \A i \in 1 .. n : t[i] = IF i = m THEN c[a] ELSE IF i = a THEN c[m] ELSE c[i] BY <1>1, <1>2, <1>4
<1> HIDE DEF t
<1>6. t \in Seq(PlannerVariables) /\ Len(t) = n /\ DOMAIN t = 1 .. n
  <2>1. t \in Seq(PlannerVariables) BY ONLY <1>2, <1>5, SeqDef
  <2> QED BY <1>2, <1>5, <2>1
<1>8. ToSet(t) = ToSet(c)
  <2>1. \A i \in 1 .. n : \E j \in 1 .. n : t[i] = c[j] BY <1>1, <1>2, <1>7
  <2>2. \A i \in 1 .. n : \E j \in 1 .. n : c[i] = t[j] BY <1>1, <1>2, <1>7
  <2>3. ToSet(t) = {t[i] : i \in 1 .. n} /\ ToSet(c) = {c[i] : i \in 1 .. n} BY <1>4, <1>6 DEF ToSet
  <2> QED BY ONLY <2>1, <2>2, <2>3
<1>9. ASSUME Distinct(c) PROVE Distinct(t)
  <2>1. \A i, j \in 1 .. n : c[i] = c[j] => i = j BY <1>1, <1>9 DEF Distinct
  <2>2. \A i, j \in 1 .. n : t[i] = t[j] => i = j BY <1>1, <1>2, <1>7, <2>1
  <2> QED BY <1>6, <2>2 DEF Distinct
<1>10. Rearranged(t, s) BY <1>1, <1>6, <1>8, <1>9 DEF Rearranged, n
<1> QED BY <1>2, <1>3, <1>6, <1>10 DEF Heaps, n

\* A turn of bubbleUp, of sinkDown.
LEMMA BubbledRearranges ==
  ASSUME NEW s \in Seq(PlannerVariables), NEW h \in Heaps(s), NEW score
  PROVE  bubbled(h, score) \in Heaps(s)
<1>1. h.at \in 1 .. Len(s) /\ Len(s) \in Nat BY DEF Heaps
<1>2. h.at # 1 => h.at \div 2 \in 1 .. Len(s) BY <1>1
<1>3. h.at # 1 => swapped(h, h.at \div 2) \in Heaps(s) BY <1>2, SwapRearranges
<1> QED BY <1>3 DEF bubbled

LEMMA SunkRearranges ==
  ASSUME NEW s \in Seq(PlannerVariables), NEW h \in Heaps(s), NEW score
  PROVE  sunk(h, score) \in Heaps(s)
<1>1. h.at \in 1 .. Len(s) /\ Len(h.content) = Len(s) /\ Len(s) \in Nat BY DEF Heaps, Rearranged
<1> DEFINE first  == 2 * h.at
           second == 2 * h.at + 1
           one    == IF first <= Len(h.content) /\ score[h.content[first]] > score[h.content[h.at]] THEN first ELSE h.at
           swap   == IF second <= Len(h.content) /\ score[h.content[second]] > score[h.content[one]] THEN second ELSE one
<1>2. first \in Nat \ {0} /\ second \in Nat \ {0} BY <1>1
<1>3. sunk(h, score) = IF swap = h.at THEN h ELSE swapped(h, swap) BY DEF sunk
<1> HIDE DEF first, second
<1>4. one \in 1 .. Len(s) BY <1>1, <1>2
<1> HIDE DEF one
<1>5. swap \in 1 .. Len(s) BY <1>1, <1>2, <1>4
<1> HIDE DEF swap
<1>6. swapped(h, swap) \in Heaps(s) BY <1>5, SwapRearranges
<1> QED BY <1>3, <1>6

\* All turns of bubbleUp, ...
LEMMA BubbleUpRearranges ==
  ASSUME NEW s \in Seq(PlannerVariables), NEW p \in 1 .. Len(s), NEW score
  PROVE  Rearranged(bubbleUp(s, p, score), s)
<1> DEFINE X == Heaps(s)
           b == [content |-> s, at |-> p]
           T == [k \in 0 .. p |-> X]
           U == UNION {T[k] : k \in 0 .. p}
           F == [x \in (1 .. p) \X U |-> bubbled(x[2], score)]
           After(f) == f = [k \in 0 .. p |-> IF k = 0 THEN b ELSE bubbled(f[k - 1], score)]
           after == CHOOSE f : After(f)
<1>1. p \in Nat /\ 0 \in 0 .. p /\ p \in 0 .. p /\ \A k \in 1 .. p : k \in 0 .. p /\ k - 1 \in 0 .. p /\ k # 0 OBVIOUS
<1>2. bubbleUp(s, p, score) = after[p].content BY DEF bubbleUp
<1>3. b \in T[0] BY <1>1 DEF Heaps, Rearranged
<1>4. \A k \in 1 .. p : \A x \in T[k - 1] : bubbled(x, score) \in T[k] BY <1>1, BubbledRearranges
<1>5. T[p] = X BY <1>1
<1> HIDE DEF T, X, b
<1>6. \A k \in 1 .. p : \A x \in T[k - 1] : F[<<k, x>>] = bubbled(x, score)
  <2> SUFFICES ASSUME NEW k \in 1 .. p, NEW x \in T[k - 1] PROVE F[<<k, x>>] = bubbled(x, score) OBVIOUS
  <2>1. x \in U BY <1>1
  <2> QED BY <2>1
<1> HIDE DEF F
<1>7. b \in T[0] /\ \A k \in 1 .. p : \A x \in T[k - 1] : F[<<k, x>>] \in T[k] BY <1>3, <1>4, <1>6
<1>8. PICK f : IsFold(f, p, b, F) /\ \A k \in 0 .. p : f[k] \in T[k] BY ONLY <1>1, <1>7, FoldExists
<1>9. After(f)
  <2>1. \A k \in 0 .. p : (IF k = 0 THEN b ELSE F[<<k, f[k - 1]>>]) = IF k = 0 THEN b ELSE bubbled(f[k - 1], score)
    <3> SUFFICES ASSUME NEW k \in 0 .. p, k # 0 PROVE F[<<k, f[k - 1]>>] = bubbled(f[k - 1], score) OBVIOUS
    <3>1. k \in 1 .. p /\ f[k - 1] \in T[k - 1] BY <1>1, <1>8
    <3> QED BY <1>6, <3>1
  <2> QED BY ONLY <1>8, <2>1 DEF IsFold
<1>10. After(after) BY <1>9
<1> HIDE DEF after
<1>11. \A k \in 0 .. p : after[k] = IF k = 0 THEN b ELSE bubbled(after[k - 1], score) BY ONLY <1>10
<1>12. after[0] \in T[0] /\ \A k \in 1 .. p : after[k - 1] \in T[k - 1] => after[k] \in T[k]
  BY <1>1, <1>3, <1>4, <1>11
<1>13. \A k \in 0 .. p : after[k] \in T[k] BY ONLY <1>1, <1>12, FoldStays
<1>14. after[p] \in X BY <1>1, <1>5, <1>13
<1> QED BY <1>2, <1>14 DEF X, Heaps

\* ... and of sinkDown.
LEMMA SinkDownRearranges ==
  ASSUME NEW s \in Seq(PlannerVariables), NEW p \in 1 .. Len(s), NEW score
  PROVE  Rearranged(sinkDown(s, p, score), s)
<1> DEFINE X == Heaps(s)
           n == Len(s)
           b == [content |-> s, at |-> p]
           T == [k \in 0 .. n |-> X]
           U == UNION {T[k] : k \in 0 .. n}
           F == [x \in (1 .. n) \X U |-> sunk(x[2], score)]
           After(f) == f = [k \in 0 .. n |-> IF k = 0 THEN b ELSE sunk(f[k - 1], score)]
           after == CHOOSE f : After(f)
<1>1. n \in Nat /\ 0 \in 0 .. n /\ n \in 0 .. n /\ \A k \in 1 .. n : k \in 0 .. n /\ k - 1 \in 0 .. n /\ k # 0 OBVIOUS
<1>2. sinkDown(s, p, score) = after[n].content BY DEF sinkDown
<1>3. b \in T[0] BY <1>1 DEF Heaps, Rearranged
<1>4. \A k \in 1 .. n : \A x \in T[k - 1] : sunk(x, score) \in T[k] BY <1>1, SunkRearranges
<1>5. T[n] = X BY <1>1
<1> HIDE DEF T, X, b, n
<1>6. \A k \in 1 .. n : \A x \in T[k - 1] : F[<<k, x>>] = sunk(x, score)
  <2> SUFFICES ASSUME NEW k \in 1 .. n, NEW x \in T[k - 1] PROVE F[<<k, x>>] = sunk(x, score) OBVIOUS
  <2>1. x \in U BY <1>1
  <2> QED BY <2>1
<1> HIDE DEF F
<1>7. b \in T[0] /\ \A k \in 1 .. n : \A x \in T[k - 1] : F[<<k, x>>] \in T[k] BY <1>3, <1>4, <1>6
<1>8. PICK f : IsFold(f, n, b, F) /\ \A k \in 0 .. n : f[k] \in T[k] BY ONLY <1>1, <1>7, FoldExists
<1>9. After(f)
  <2>1. \A k \in 0 .. n : (IF k = 0 THEN b ELSE F[<<k, f[k - 1]>>]) = IF k = 0 THEN b ELSE sunk(f[k - 1], score)
    <3> SUFFICES ASSUME NEW k \in 0 .. n, k # 0 PROVE F[<<k, f[k - 1]>>] = sunk(f[k - 1], score) OBVIOUS
    <3>1. k \in 1 .. n /\ f[k - 1] \in T[k - 1] BY <1>1, <1>8
    <3> QED BY <1>6, <3>1
  <2> QED BY ONLY <1>8, <2>1 DEF IsFold
<1>10. After(after) BY <1>9
<1> HIDE DEF after
<1>11. \A k \in 0 .. n : after[k] = IF k = 0 THEN b ELSE sunk(after[k - 1], score) BY ONLY <1>10
<1>12. after[0] \in T[0] /\ \A k \in 1 .. n : after[k - 1] \in T[k - 1] => after[k] \in T[k]
  BY <1>1, <1>3, <1>4, <1>11
<1>13. \A k \in 0 .. n : after[k] \in T[k] BY ONLY <1>1, <1>12, FoldStays
<1>14. after[n] \in X BY <1>1, <1>5, <1>13
<1> QED BY <1>2, <1>14 DEF X, Heaps

\* A heap has the elements it was built of.
LEMMA BuildRearranges ==
  ASSUME NEW s \in Seq(PlannerVariables), NEW score
  PROVE  Rearranged(build(s, score), s)
<1> DEFINE X == {x \in Seq(PlannerVariables) : Rearranged(x, s)}
           n == Len(s) \div 2
           T == [k \in 0 .. n |-> X]
           U == UNION {T[k] : k \in 0 .. n}
           F == [x \in (1 .. n) \X U |-> sinkDown(x[2], n + 1 - x[1], score)]
           After(f) == f = [k \in 0 .. n |-> IF k = 0 THEN s ELSE sinkDown(f[k - 1], n + 1 - k, score)]
           turn == CHOOSE f : After(f)
<1>0. Len(s) \in Nat OBVIOUS
<1>n. n \in Nat /\ n <= Len(s) BY <1>0
<1>2. build(s, score) = turn[n] BY DEF build
<1> HIDE DEF n
<1>1. n \in Nat /\ 0 \in 0 .. n /\ n \in 0 .. n /\ \A k \in 1 .. n : k \in 0 .. n /\ k - 1 \in 0 .. n /\ k # 0 BY <1>n
<1>3. s \in T[0] BY <1>1 DEF Rearranged
<1>4. \A k \in 1 .. n : \A x \in T[k - 1] : sinkDown(x, n + 1 - k, score) \in T[k]
  <2> SUFFICES ASSUME NEW k \in 1 .. n, NEW x \in X PROVE sinkDown(x, n + 1 - k, score) \in X BY <1>1
  <2>1. x \in Seq(PlannerVariables) /\ Len(x) = Len(s) /\ Rearranged(x, s) BY DEF Rearranged
  <2>2. n + 1 - k \in 1 .. Len(x) BY <1>0, <1>n, <2>1
  <2> DEFINE y == sinkDown(x, n + 1 - k, score)
  <2>3. Rearranged(y, x) BY <2>1, <2>2, SinkDownRearranges
  <2> HIDE DEF y
  <2>4. Rearranged(y, s) /\ y \in Seq(PlannerVariables) BY <2>1, <2>3 DEF Rearranged
  <2> QED BY <2>4 DEF y
<1>5. T[n] = X BY <1>1
<1> HIDE DEF T, X
<1>6. \A k \in 1 .. n : \A x \in T[k - 1] : F[<<k, x>>] = sinkDown(x, n + 1 - k, score)
  <2> SUFFICES ASSUME NEW k \in 1 .. n, NEW x \in T[k - 1] PROVE F[<<k, x>>] = sinkDown(x, n + 1 - k, score) OBVIOUS
  <2>1. x \in U BY <1>1
  <2> QED BY <2>1
<1> HIDE DEF F
<1>7. s \in T[0] /\ \A k \in 1 .. n : \A x \in T[k - 1] : F[<<k, x>>] \in T[k] BY <1>3, <1>4, <1>6
<1>8. PICK f : IsFold(f, n, s, F) /\ \A k \in 0 .. n : f[k] \in T[k] BY ONLY <1>1, <1>7, FoldExists
<1>9. After(f)
  <2>1. \A k \in 0 .. n : (IF k = 0 THEN s ELSE F[<<k, f[k - 1]>>]) = IF k = 0 THEN s ELSE sinkDown(f[k - 1], n + 1 - k, score)
    <3> SUFFICES ASSUME NEW k \in 0 .. n, k # 0 PROVE F[<<k, f[k - 1]>>] = sinkDown(f[k - 1], n + 1 - k, score) OBVIOUS
    <3>1. k \in 1 .. n /\ f[k - 1] \in T[k - 1] BY <1>1, <1>8
    <3> QED BY <1>6, <3>1
  <2> QED BY ONLY <1>8, <2>1 DEF IsFold
<1>10. After(turn) BY <1>9
<1> HIDE DEF turn
<1>11. \A k \in 0 .. n : turn[k] = IF k = 0 THEN s ELSE sinkDown(turn[k - 1], n + 1 - k, score) BY ONLY <1>10
<1>12. turn[0] \in T[0] /\ \A k \in 1 .. n : turn[k - 1] \in T[k - 1] => turn[k] \in T[k]
  BY <1>1, <1>3, <1>4, <1>11
<1>13. \A k \in 0 .. n : turn[k] \in T[k] BY ONLY <1>1, <1>12, FoldStays
<1>14. turn[n] \in X BY <1>1, <1>5, <1>13
<1> QED BY <1>2, <1>14 DEF X

\* A push adds an element, ...
LEMMA PushAdds ==
  ASSUME NEW s \in Seq(PlannerVariables), NEW v \in PlannerVariables, NEW score, Distinct(s), v \notin ToSet(s)
  PROVE  LET r == heapPush(s, v, score)
         IN  r \in Seq(PlannerVariables) /\ Distinct(r) /\ ToSet(r) = ToSet(s) \cup {v}
<1> DEFINE t == Append(s, v)
<1>1. t \in Seq(PlannerVariables) /\ Len(t) = Len(s) + 1 /\ Len(s) \in Nat OBVIOUS
<1>2. ToSet(t) = ToSet(s) \cup {v} BY AppendElements
<1>3. Distinct(t) BY AppendDistinct
<1> HIDE DEF t
<1>4. Len(s) + 1 \in 1 .. Len(t) BY <1>1
<1>5. Rearranged(bubbleUp(t, Len(s) + 1, score), t) BY <1>1, <1>4, BubbleUpRearranges
<1> QED BY <1>2, <1>3, <1>5 DEF heapPush, t, Rearranged

\* ... several pushes as many.
LEMMA PushAllAdds ==
  ASSUME NEW s \in Seq(PlannerVariables), NEW vs \in Seq(PlannerVariables), NEW score,
         Distinct(s), Distinct(vs), ToSet(s) \cap ToSet(vs) = {}
  PROVE  LET r == pushAll(s, vs, score)
         IN  r \in Seq(PlannerVariables) /\ Distinct(r) /\ ToSet(r) = ToSet(s) \cup ToSet(vs)
<1> DEFINE n == Len(vs)
           T == [k \in 0 .. n |-> {r \in Seq(PlannerVariables) : Distinct(r) /\ ToSet(r) = ToSet(s) \cup {vs[i] : i \in 1 .. k}}]
           U == UNION {T[k] : k \in 0 .. n}
           F == [x \in (1 .. n) \X U |-> heapPush(x[2], vs[x[1]], score)]
           After(f) == f = [k \in 0 .. n |-> IF k = 0 THEN s ELSE heapPush(f[k - 1], vs[k], score)]
           turn == CHOOSE f : After(f)
<1>1. n \in Nat /\ 0 \in 0 .. n /\ n \in 0 .. n /\ \A k \in 1 .. n : k \in 0 .. n /\ k - 1 \in 0 .. n /\ k # 0 OBVIOUS
<1>2. pushAll(s, vs, score) = turn[n] BY DEF pushAll
<1>v. /\ DOMAIN vs = 1 .. n /\ \A k \in 1 .. n : vs[k] \in PlannerVariables /\ vs[k] \notin ToSet(s)
      /\ \A i, j \in 1 .. n : vs[i] = vs[j] => i = j
  <2>1. DOMAIN vs = 1 .. n /\ \A k \in 1 .. n : vs[k] \in PlannerVariables OBVIOUS
  <2>2. ToSet(vs) = {vs[k] : k \in 1 .. n} BY <2>1 DEF ToSet
  <2>3. \A i, j \in 1 .. n : vs[i] = vs[j] => i = j BY DEF Distinct
  <2> QED BY <2>1, <2>2, <2>3
<1>t. \A k \in 0 .. n : \A r : r \in T[k] <=> /\ r \in Seq(PlannerVariables) /\ Distinct(r)
                                             /\ ToSet(r) = ToSet(s) \cup {vs[i] : i \in 1 .. k}
  OBVIOUS
<1> HIDE DEF n, T
<1>3. s \in T[0]
  <2>1. {vs[i] : i \in 1 .. 0} = {} OBVIOUS
  <2> QED BY <1>1, <1>t, <2>1
<1>4. \A k \in 1 .. n : \A x \in T[k - 1] : heapPush(x, vs[k], score) \in T[k]
  <2> SUFFICES ASSUME NEW k \in 1 .. n, NEW x \in T[k - 1] PROVE heapPush(x, vs[k], score) \in T[k] OBVIOUS
  <2>1. x \in Seq(PlannerVariables) /\ Distinct(x) /\ ToSet(x) = ToSet(s) \cup {vs[i] : i \in 1 .. k - 1}
    BY <1>1, <1>t
  <2>2. \A i \in 1 .. k - 1 : i \in 1 .. n /\ i # k BY <1>1
  <2>3. vs[k] \in PlannerVariables /\ vs[k] \notin ToSet(x) BY <1>v, <2>1, <2>2
  <2> DEFINE y == heapPush(x, vs[k], score)
  <2>4. y \in Seq(PlannerVariables) /\ Distinct(y) /\ ToSet(y) = ToSet(x) \cup {vs[k]}
    BY <2>1, <2>3, PushAdds
  <2> HIDE DEF y
  <2>5. \A i \in 1 .. k : i = k \/ i \in 1 .. k - 1 BY <1>1
  <2>6. k \in 1 .. k /\ \A i \in 1 .. k - 1 : i \in 1 .. k BY <1>1
  <2>7. {vs[i] : i \in 1 .. k} = {vs[i] : i \in 1 .. k - 1} \cup {vs[k]} BY <2>5, <2>6
  <2>8. y \in T[k] BY <1>1, <1>t, <2>1, <2>4, <2>7
  <2> QED BY <2>8 DEF y
<1>6. \A k \in 1 .. n : \A x \in T[k - 1] : F[<<k, x>>] = heapPush(x, vs[k], score)
  <2> SUFFICES ASSUME NEW k \in 1 .. n, NEW x \in T[k - 1] PROVE F[<<k, x>>] = heapPush(x, vs[k], score) OBVIOUS
  <2>1. x \in U BY <1>1
  <2> QED BY <2>1
<1> HIDE DEF F
<1>7. s \in T[0] /\ \A k \in 1 .. n : \A x \in T[k - 1] : F[<<k, x>>] \in T[k] BY <1>3, <1>4, <1>6
<1>8. PICK f : IsFold(f, n, s, F) /\ \A k \in 0 .. n : f[k] \in T[k] BY ONLY <1>1, <1>7, FoldExists
<1>9. After(f)
  <2>1. \A k \in 0 .. n : (IF k = 0 THEN s ELSE F[<<k, f[k - 1]>>]) = IF k = 0 THEN s ELSE heapPush(f[k - 1], vs[k], score)
    <3> SUFFICES ASSUME NEW k \in 0 .. n, k # 0 PROVE F[<<k, f[k - 1]>>] = heapPush(f[k - 1], vs[k], score) OBVIOUS
    <3>1. k \in 1 .. n /\ f[k - 1] \in T[k - 1] BY <1>1, <1>8
    <3> QED BY <1>6, <3>1
  <2> QED BY ONLY <1>8, <2>1 DEF IsFold
<1>10. After(turn) BY <1>9
<1> HIDE DEF turn
<1>11. \A k \in 0 .. n : turn[k] = IF k = 0 THEN s ELSE heapPush(turn[k - 1], vs[k], score) BY ONLY <1>10
<1>12. turn[0] \in T[0] /\ \A k \in 1 .. n : turn[k - 1] \in T[k - 1] => turn[k] \in T[k]
  BY <1>1, <1>3, <1>4, <1>11
<1>13. \A k \in 0 .. n : turn[k] \in T[k] BY ONLY <1>1, <1>12, FoldStays
<1>14. turn[n] \in T[n] BY <1>1, <1>13
<1>15. ToSet(vs) = {vs[i] : i \in 1 .. n} BY <1>v DEF ToSet
<1> HIDE DEF turn
<1> QED BY <1>1, <1>2, <1>14, <1>15, <1>t

\* A pop takes the first one.
LEMMA PopTakes ==
  ASSUME NEW s \in Seq(PlannerVariables), NEW score, Distinct(s), s # <<>>
  PROVE  LET r == heapPop(s, score)
         IN  /\ Head(s) \in ToSet(s)
             /\ r \in Seq(PlannerVariables) /\ Distinct(r) /\ ToSet(r) = ToSet(s) \ {Head(s)}
<1> DEFINE n == Len(s)
           t == [Front(s) EXCEPT ![1] = Last(s)]
<1>1. n \in Nat /\ n # 0 /\ DOMAIN s = 1 .. n /\ Head(s) = s[1] BY EmptySeq
<1>2. \A i, j \in 1 .. n : s[i] = s[j] => i = j BY DEF Distinct
<1>3. \A i \in 1 .. n : s[i] \in PlannerVariables OBVIOUS
<1>4. ToSet(s) = {s[i] : i \in 1 .. n} BY <1>1 DEF ToSet
<1>5. 1 \in 1 .. n BY <1>1
<1>6. Head(s) \in ToSet(s) BY <1>1, <1>4, <1>5
<1>9. Len(s) = n OBVIOUS
<1> HIDE DEF n
<1>7. CASE n = 1
  <2>1. heapPop(s, score) = <<>> BY <1>7, <1>9 DEF heapPop
  <2>2. ToSet(s) = {Head(s)} BY <1>1, <1>4, <1>7
  <2>3. ToSet(<<>>) = {} /\ Distinct(<<>>) /\ <<>> \in Seq(PlannerVariables) BY DEF ToSet, Distinct
  <2> QED BY <1>6, <2>1, <2>2, <2>3
<1>8. CASE n # 1
  <2> DEFINE u == Front(s)
  <2>1. u \in Seq(PlannerVariables) /\ Len(u) = n - 1 /\ \A i \in 1 .. n - 1 : u[i] = s[i]
    BY <1>1, <1>8, <1>9 DEF Front
  <2>2. Last(s) = s[n] /\ n \in 1 .. n BY <1>1, <1>9 DEF Last
  <2> HIDE DEF u
  <2>3. u \in [1 .. n - 1 -> PlannerVariables] /\ n - 1 \in Nat /\ 1 \in 1 .. n - 1 BY <1>1, <1>8, <2>1
  <2>4. t \in [1 .. n - 1 -> PlannerVariables] BY <1>3, <2>2, <2>3 DEF u
  <2>5. \A i \in 1 .. n - 1 : t[i] = IF i = 1 THEN s[n] ELSE s[i] BY <2>1, <2>2, <2>3 DEF u
  <2>6. heapPop(s, score) = sinkDown(t, 1, score) BY <1>8, <1>9 DEF heapPop
  <2> HIDE DEF t
  <2>7. t \in Seq(PlannerVariables) BY ONLY <2>3, <2>4, SeqDef
  <2>8. Len(t) = n - 1 /\ DOMAIN t = 1 .. n - 1 BY <2>3, <2>4, <2>7
  <2>9. \A i \in 1 .. n - 1 : i \in 1 .. n /\ i # n BY <1>1
  <2>10. Distinct(t)
    <3>1. \A i, j \in 1 .. n - 1 : t[i] = t[j] => i = j BY <1>2, <2>2, <2>5, <2>9
    <3> QED BY <2>8, <3>1 DEF Distinct
  <2>11. ToSet(t) = ToSet(s) \ {s[1]}
    <3>1. ToSet(t) = {t[i] : i \in 1 .. n - 1} BY <2>8 DEF ToSet
    <3>2. \A i \in 1 .. n - 1 : \E j \in 1 .. n : j # 1 /\ t[i] = s[j] BY <1>8, <2>2, <2>5, <2>9
    <3>3. \A j \in 1 .. n : j = 1 \/ j = n \/ j \in 1 .. n - 1 BY <1>1
    <3>4. \A j \in 1 .. n : j # 1 => \E i \in 1 .. n - 1 : t[i] = s[j] BY <2>3, <2>5, <3>3
    <3>5. \A j \in 1 .. n : j # 1 => s[j] # s[1] BY <1>2, <1>5
    <3>6. \A x : x \in ToSet(t) => x \in ToSet(s) \ {s[1]} BY ONLY <1>4, <3>1, <3>2, <3>5
    <3>7. \A x : x \in ToSet(s) \ {s[1]} => x \in ToSet(t) BY ONLY <1>4, <3>1, <3>4
    <3> QED BY ONLY <3>6, <3>7
  <2>12. 1 \in 1 .. Len(t) BY <2>3, <2>8
  <2> DEFINE r == sinkDown(t, 1, score)
  <2>13. Rearranged(r, t) BY <2>7, <2>12, SinkDownRearranges
  <2> HIDE DEF r
  <2>14. r \in Seq(PlannerVariables) /\ Distinct(r) /\ ToSet(r) = ToSet(s) \ {Head(s)}
    BY <1>1, <2>10, <2>11, <2>13 DEF Rearranged
  <2> QED BY <1>6, <2>6, <2>14 DEF r
<1> QED BY <1>7, <1>8

(***************************************************************************)
(* The methods on a variable.                                              *)
(***************************************************************************)
MethodPairs == Nat \X PlannerVariables

\* The method of constraint c writes v.
Writes(c, v) == v \in ToSet(planner.links[c])

\* The methods on v of the constraints in R; whether there is one, and whether
\* there is no other.
On(v, R)    == {<<c, v>> : c \in {d \in R : Writes(d, v)}}
Met(v, R)   == \E c \in R : Writes(c, v)
Alone(v, R) == \A c, d \in R : Writes(c, v) /\ Writes(d, v) => c = d

\* Each variable has the methods on it of the constraints in R, each once.
MethodsOf(methods, R) ==
    /\ methods \in [PlannerVariables -> Seq(MethodPairs)]
    /\ \A v \in PlannerVariables : Distinct(methods[v]) /\ ToSet(methods[v]) = On(v, R)

\* How many methods a variable has.
LEMMA MethodsCounted ==
  ASSUME NEW R, NEW methods, MethodsOf(methods, R), NEW v \in PlannerVariables
  PROVE  /\ Len(methods[v]) \in Nat
         /\ Len(methods[v]) = 0 <=> ~ Met(v, R)
         /\ methods[v] = <<>> <=> ~ Met(v, R)
         /\ Len(methods[v]) = 1 <=> Met(v, R) /\ Alone(v, R)
<1> DEFINE s == methods[v]
<1>1. s \in Seq(MethodPairs) /\ Distinct(s) /\ ToSet(s) = On(v, R) BY DEF MethodsOf
<1> HIDE DEF s
<1>2. /\ Len(s) \in Nat /\ (Len(s) = 0 <=> ToSet(s) = {}) /\ (s = <<>> <=> ToSet(s) = {})
      /\ (Len(s) = 1 => \E x \in MethodPairs : ToSet(s) = {x})
      /\ (Len(s) > 1 => \E x, y \in ToSet(s) : x # y)
  BY <1>1, LengthCounts
<1>3. ToSet(s) = {} <=> ~ Met(v, R) BY <1>1 DEF On, Met
<1>4. ASSUME NEW x, ToSet(s) = {x} PROVE Alone(v, R)
  <2> SUFFICES ASSUME NEW c \in R, NEW d \in R, Writes(c, v), Writes(d, v) PROVE c = d BY DEF Alone
  <2>1. <<c, v>> \in On(v, R) /\ <<d, v>> \in On(v, R) BY DEF On
  <2>2. <<c, v>> = <<d, v>> BY <1>1, <1>4, <2>1
  <2> QED BY <2>2
<1>5. ASSUME NEW x \in ToSet(s), NEW y \in ToSet(s), x # y PROVE ~ Alone(v, R)
  <2>1. PICK c \in R : Writes(c, v) /\ x = <<c, v>> BY <1>1 DEF On
  <2>2. PICK d \in R : Writes(d, v) /\ y = <<d, v>> BY <1>1 DEF On
  <2> QED BY <1>5, <2>1, <2>2 DEF Alone
<1>6. Len(s) = 0 \/ Len(s) = 1 \/ Len(s) > 1 BY <1>2
<1> QED BY <1>2, <1>3, <1>4, <1>5, <1>6 DEF s

\* reset gives every variable the methods of all constraints.
LEMMA ResetMethods ==
  ASSUME NEW cs \in Seq(Nat), Distinct(cs),
         NEW methods \in [PlannerVariables -> Seq(MethodPairs)],
         \A v \in PlannerVariables : Distinct(methods[v]) /\ ToSet(methods[v]) \subseteq On(v, ToSet(cs))
  PROVE  MethodsOf(reset(methods, cs), ToSet(cs))
<1> SUFFICES ASSUME NEW v \in PlannerVariables
             PROVE  LET r == addAll(methods[v], MethodsOn(v, cs))
                    IN  r \in Seq(MethodPairs) /\ Distinct(r) /\ ToSet(r) = On(v, ToSet(cs))
  BY DEF MethodsOf, reset
<1> DEFINE n == Len(cs)
           all == [k \in DOMAIN cs |-> <<cs[k], v>>]
           O == On(v, ToSet(cs))
           on == Filtered(all, O)
           s == methods[v]
           K == ToSet(on) \ ToSet(s)
           new == Filtered(on, K)
<1>1. n \in Nat /\ DOMAIN cs = 1 .. n /\ (\A k \in 1 .. n : cs[k] \in Nat) /\ (\A i, j \in 1 .. n : cs[i] = cs[j] => i = j)
  BY DEF Distinct
<1>2. addAll(s, MethodsOn(v, cs)) = s \o new BY DEF addAll, MethodsOn, On, Writes
<1>3. s \in Seq(MethodPairs) /\ Distinct(s) /\ ToSet(s) \subseteq O OBVIOUS
<1> HIDE DEF n, s
<1>4. all \in [1 .. n -> MethodPairs] BY <1>1 DEF MethodPairs
<1>5. \A k \in 1 .. n : all[k] = <<cs[k], v>> BY <1>1
<1> HIDE DEF all
<1>6. all \in Seq(MethodPairs) BY ONLY <1>1, <1>4, SeqDef
<1>7. Len(all) = n /\ DOMAIN all = 1 .. n BY <1>1, <1>4, <1>6
<1>8. Distinct(all)
  <2> SUFFICES ASSUME NEW i \in 1 .. n, NEW j \in 1 .. n, all[i] = all[j] PROVE i = j BY <1>7 DEF Distinct
  <2>1. cs[i] = cs[j] BY <1>5
  <2> QED BY <1>1, <2>1
<1>9. O \subseteq ToSet(all)
  <2>1. ToSet(all) = {all[k] : k \in 1 .. n} /\ ToSet(cs) = {cs[k] : k \in 1 .. n} BY <1>1, <1>7 DEF ToSet
  <2> QED BY <1>5, <2>1 DEF On
<1> HIDE DEF O
<1>10. on \in Seq(MethodPairs) /\ ToSet(on) = O /\ Distinct(on)
  <2>1. on \in Seq(MethodPairs) /\ ToSet(on) = ToSet(all) \cap O BY <1>6, FilteredElements
  <2>2. Distinct(on) BY <1>6, <1>8, FilteredDistinct
  <2> QED BY <1>9, <2>1, <2>2
<1> HIDE DEF on, K
<1>11. new \in Seq(MethodPairs) /\ ToSet(new) = ToSet(on) \cap K /\ Distinct(new)
  BY <1>10, FilteredElements, FilteredDistinct
<1> HIDE DEF new
<1>12. s \o new \in Seq(MethodPairs) /\ ToSet(s \o new) = ToSet(s) \cup ToSet(new) BY <1>3, <1>11, ElementsOfBoth
<1>13. ToSet(s) \cap ToSet(new) = {} BY <1>11 DEF K
<1>14. Distinct(s \o new) BY <1>3, <1>11, <1>13, BothDistinct
<1>15. ToSet(s) \cup ToSet(new) = O BY <1>3, <1>10, <1>11 DEF K
<1> QED BY <1>2, <1>12, <1>14, <1>15 DEF O, s

\* remove takes those of one constraint away.
LEMMA RemoveMethods ==
  ASSUME NEW methods \in [PlannerVariables -> Seq(MethodPairs)], NEW c,
         \A v \in PlannerVariables : Distinct(methods[v])
  PROVE  /\ remove(methods, c) \in [PlannerVariables -> Seq(MethodPairs)]
         /\ \A v \in PlannerVariables : /\ Distinct(remove(methods, c)[v])
                                        /\ ToSet(remove(methods, c)[v]) = ToSet(methods[v]) \ {<<c, v>>}
<1>1. ASSUME NEW v \in PlannerVariables
      PROVE  LET r == delete(methods[v], <<c, v>>)
             IN  r \in Seq(MethodPairs) /\ Distinct(r) /\ ToSet(r) = ToSet(methods[v]) \ {<<c, v>>}
  <2> DEFINE s == methods[v]
             K == ToSet(s) \ {<<c, v>>}
  <2>1. s \in Seq(MethodPairs) /\ Distinct(s) OBVIOUS
  <2>2. delete(s, <<c, v>>) = Filtered(s, K) BY DEF delete
  <2> HIDE DEF s
  <2>3. K = ToSet(s) \cap K OBVIOUS
  <2> HIDE DEF K
  <2>4. Filtered(s, K) \in Seq(MethodPairs) /\ ToSet(Filtered(s, K)) = ToSet(s) \cap K /\ Distinct(Filtered(s, K))
    BY <2>1, FilteredElements, FilteredDistinct
  <2> QED BY <2>2, <2>3, <2>4 DEF K, s
<1> QED BY <1>1 DEF remove

\* Without the methods of c, those of all others.
LEMMA RemoveKeepsMethods ==
  ASSUME NEW R, NEW methods, MethodsOf(methods, R), NEW c
  PROVE  MethodsOf(remove(methods, c), R \ {c})
<1>1. methods \in [PlannerVariables -> Seq(MethodPairs)] /\ \A v \in PlannerVariables : Distinct(methods[v])
  BY DEF MethodsOf
<1>2. \A v \in PlannerVariables : On(v, R \ {c}) = On(v, R) \ {<<c, v>>}
  <2> TAKE v \in PlannerVariables
  <2>1. \A x : x \in On(v, R \ {c}) => x \in On(v, R) \ {<<c, v>>} BY DEF On
  <2>2. \A x : x \in On(v, R) \ {<<c, v>>} => x \in On(v, R \ {c}) BY DEF On
  <2> QED BY <2>1, <2>2
<1> QED BY <1>1, <1>2, RemoveMethods DEF MethodsOf

\* Between two plans: a method on a variable is one of a constraint there is, and
\* what such a constraint writes has not been dropped.
PlannerInv ==
    /\ planner \in [variables : Seq(PlannerVariables), constraints : Seq(Nat), links : Seq(Links),
                    methods : [PlannerVariables -> Seq(MethodPairs)], plans : Nat]
    /\ Distinct(planner.variables) /\ Distinct(planner.constraints)
    /\ \A c \in ToSet(planner.constraints) :
          c \in 1 .. Len(planner.links) /\ \A v \in PlannerVariables : Writes(c, v) => v \in ToSet(planner.variables)
    /\ \A v \in PlannerVariables :
          Distinct(planner.methods[v]) /\ ToSet(planner.methods[v]) \subseteq On(v, ToSet(planner.constraints))

(***************************************************************************)
(* getPlan, one variable after the other.                                  *)
(***************************************************************************)
PlanStates == [methods : [PlannerVariables -> Seq(MethodPairs)], free : Seq(PlannerVariables),
               chosen : Seq(MethodPairs), overconstrained : SUBSET PlannerVariables]

\* The constraints that have no method in the plan yet.
Left(g) == ToSet(planner.constraints) \ {m[1] : m \in ToSet(g.chosen)}

\* What holds between two turns of the loop: the heap has every variable with one
\* method, and whoever has more is overconstrained.  What a chosen method writes is
\* written by no constraint that is chosen after it, or still left.
Planning(g) ==
    /\ g \in PlanStates
    /\ MethodsOf(g.methods, Left(g))
    /\ Distinct(g.free) /\ ToSet(g.free) \subseteq ToSet(planner.variables)
    /\ \A v \in ToSet(g.free) : Alone(v, Left(g))
    /\ \A v \in ToSet(planner.variables) : Met(v, Left(g)) /\ Alone(v, Left(g)) => v \in ToSet(g.free)
    /\ g.overconstrained = {v \in ToSet(planner.variables) : ~ Alone(v, Left(g))}
    /\ \A m \in ToSet(g.chosen) : m[1] \in ToSet(planner.constraints) /\ \A c \in Left(g) : ~ Writes(c, m[2])
    /\ \A j, k \in 1 .. Len(g.chosen) : j < k =>
          g.chosen[j][1] # g.chosen[k][1] /\ ~ Writes(g.chosen[k][1], g.chosen[j][2])

\* What a turn does to the heap: the first is gone and has no method any more, and
\* who comes in has one.
Turned(h, g) ==
    /\ Left(h) \subseteq Left(g) /\ Head(g.free) \in ToSet(g.free) /\ ~ Met(Head(g.free), Left(h))
    /\ \A u \in ToSet(h.free) : u \in ToSet(g.free) \ {Head(g.free)} \/ Met(u, Left(h))

\* The variables not dropped are variables.
LEMMA VariablesInRange ==
  ASSUME PlannerInv
  PROVE  ToSet(planner.variables) \subseteq PlannerVariables
<1>1. planner.variables \in Seq(PlannerVariables) BY DEF PlannerInv
<1> DEFINE vs == planner.variables
<1> HIDE DEF vs
<1>2. vs \in Seq(PlannerVariables) BY <1>1 DEF vs
<1>3. \A x \in ToSet(vs) : x \in PlannerVariables BY <1>2 DEF ToSet
<1> QED BY <1>3 DEF vs

\* A variable that lost its methods meanwhile.
LEMMA SkippedTurn ==
  ASSUME PlannerInv, NEW g, Planning(g), NEW score, g.free # <<>>, g.methods[Head(g.free)] = <<>>
  PROVE  Planning(chooseNext(g, score)) /\ Turned(chooseNext(g, score), g)
<1> DEFINE v == Head(g.free)
           r == heapPop(g.free, score)
           h == [g EXCEPT !.free = r]
<1>1. g \in PlanStates /\ g.free \in Seq(PlannerVariables) /\ Distinct(g.free) BY DEF Planning, PlanStates
<1>2. v \in ToSet(g.free) /\ r \in Seq(PlannerVariables) /\ Distinct(r) /\ ToSet(r) = ToSet(g.free) \ {v}
  BY <1>1, PopTakes
<1>3. chooseNext(g, score) = h BY DEF chooseNext
<1>4. g.methods[v] = <<>> OBVIOUS
<1> HIDE DEF r, v
<1>5. /\ h \in PlanStates /\ h.free = r /\ h.chosen = g.chosen /\ h.methods = g.methods
      /\ h.overconstrained = g.overconstrained
  BY <1>1, <1>2 DEF PlanStates
<1> HIDE DEF h
<1>6. Left(h) = Left(g) BY <1>5 DEF Left
<1>7. v \in PlannerVariables BY <1>2, VariablesInRange DEF Planning
<1>8. ~ Met(v, Left(g)) BY <1>4, <1>7, MethodsCounted DEF Planning
<1>9. Planning(h) BY <1>2, <1>5, <1>6, <1>8 DEF Planning
<1>10. Turned(h, g) BY <1>2, <1>5, <1>6, <1>8 DEF Turned, v
<1> QED BY <1>3, <1>9, <1>10

\* A variable that one method writes: its constraint has its method.
LEMMA TakingTurn ==
  ASSUME PlannerInv, NEW g, Planning(g), NEW score, g.free # <<>>, g.methods[Head(g.free)] # <<>>
  PROVE  Planning(chooseNext(g, score)) /\ Turned(chooseNext(g, score), g)
<1> DEFINE v == Head(g.free)
           r == heapPop(g.free, score)
           m == Head(g.methods[v])
           c == m[1]
           left == Left(g) \ {c}
           link == planner.links[c]
           methods == remove(g.methods, c)
           chosen == Append(g.chosen, m)
           ones == {u \in PlannerVariables : Len(methods[u]) = 1}
           freed == Filtered(link, ones)
           free == pushAll(r, freed, score)
           h == chooseNext(g, score)
<1>1. /\ g \in PlanStates /\ g.free \in Seq(PlannerVariables) /\ Distinct(g.free)
      /\ g.chosen \in Seq(MethodPairs) /\ g.overconstrained \in SUBSET PlannerVariables
  BY DEF Planning, PlanStates
<1>2. v \in ToSet(g.free) /\ r \in Seq(PlannerVariables) /\ Distinct(r) /\ ToSet(r) = ToSet(g.free) \ {v}
  BY <1>1, PopTakes
<1>3. /\ h = [g EXCEPT !.methods = methods, !.chosen = chosen, !.free = free,
                       !.overconstrained = g.overconstrained \ ToSet(freed)]
  BY <1>1 DEF chooseNext, Take, setFree, CountIs, PlanStates
<1>4. g.methods[v] # <<>> OBVIOUS
<1> HIDE DEF h, r, v
<1>5. v \in ToSet(planner.variables) /\ v \in PlannerVariables BY <1>2, VariablesInRange DEF Planning
<1>6. Alone(v, Left(g)) BY <1>2 DEF Planning
<1>7. m \in MethodPairs /\ c \in Left(g) /\ m = <<c, v>> /\ Writes(c, v)
  <2>1. g.methods[v] \in Seq(MethodPairs) /\ ToSet(g.methods[v]) = On(v, Left(g)) BY <1>5 DEF Planning, MethodsOf
  <2>2. m \in ToSet(g.methods[v]) BY <1>4, <2>1, HeadAndTail
  <2> HIDE DEF m
  <2>3. PICK d \in Left(g) : Writes(d, v) /\ m = <<d, v>> BY <2>1, <2>2 DEF On
  <2>4. Left(g) \subseteq Nat
    <3>1. planner.constraints \in Seq(Nat) BY DEF PlannerInv
    <3>2. ToSet(planner.constraints) \subseteq Nat BY <3>1 DEF ToSet
    <3> QED BY <3>2 DEF Left
  <2> QED BY <1>5, <2>3, <2>4 DEF MethodPairs
<1> HIDE DEF m
<1>8. c \in ToSet(planner.constraints) /\ link \in Seq(PlannerVariables) /\ Distinct(link)
  <2>1. c \in ToSet(planner.constraints) BY <1>7 DEF Left
  <2>2. c \in 1 .. Len(planner.links) /\ planner.links \in Seq(Links) BY <2>1 DEF PlannerInv
  <2>3. link \in Links BY <2>2
  <2> HIDE DEF link
  <2>4. link \in Seq(PlannerVariables) /\ IsInjective(link) BY <2>3, PlannerAssumption
  <2> QED BY <2>1, <2>4 DEF IsInjective, Distinct, link
<1>9. MethodsOf(methods, left) BY RemoveKeepsMethods DEF Planning
<1>10. methods \in [PlannerVariables -> Seq(MethodPairs)] BY <1>9 DEF MethodsOf
<1> HIDE DEF methods
<1>11. \A u \in PlannerVariables : u \in ones <=> Met(u, left) /\ Alone(u, left) BY <1>9, MethodsCounted
<1>12. \A u : Writes(c, u) <=> u \in ToSet(link) BY DEF Writes
<1> HIDE DEF link, ones
<1>13. freed \in Seq(PlannerVariables) /\ Distinct(freed) /\ ToSet(freed) = ToSet(link) \cap ones
  BY <1>8, FilteredElements, FilteredDistinct
<1>14. ToSet(link) \subseteq PlannerVariables BY <1>8 DEF ToSet
<1>15. \A u \in PlannerVariables : u \in ToSet(freed) <=> Writes(c, u) /\ Met(u, left) /\ Alone(u, left)
  BY <1>11, <1>12, <1>13
<1> HIDE DEF freed
\* What alone is on a variable before the turn is alone after it, ...
<1>16. \A u : Alone(u, Left(g)) => Alone(u, left) BY DEF Alone
\* ... and if it is the constraint of this turn, nothing is left on it.
<1>17. \A u : Alone(u, Left(g)) /\ Writes(c, u) => ~ Met(u, left) BY <1>7 DEF Alone, Met
\* On what the constraint does not write nothing changes.
<1>18. \A u : ~ Writes(c, u) => (Met(u, left) <=> Met(u, Left(g))) /\ (Alone(u, left) <=> Alone(u, Left(g)))
  BY DEF Alone, Met
<1>19. \A u : Met(u, left) => Met(u, Left(g)) BY DEF Met
\* Who had another one still has it.
<1>20. \A u : ~ Alone(u, Left(g)) => Met(u, left) BY DEF Alone, Met
<1>21. ToSet(r) \cap ToSet(freed) = {}
  <2> SUFFICES ASSUME NEW u \in ToSet(g.free), u \in ToSet(freed) PROVE FALSE BY <1>2
  <2>1. Alone(u, Left(g)) /\ u \in PlannerVariables BY VariablesInRange DEF Planning
  <2> QED BY <1>15, <1>17, <2>1
<1>22. free \in Seq(PlannerVariables) /\ Distinct(free) /\ ToSet(free) = ToSet(r) \cup ToSet(freed)
  BY <1>2, <1>13, <1>21, PushAllAdds
<1> HIDE DEF free
<1>23. chosen \in Seq(MethodPairs) /\ ToSet(chosen) = ToSet(g.chosen) \cup {m}
  BY <1>1, <1>7, AppendElements
<1>24. /\ Len(g.chosen) \in Nat /\ Len(chosen) = Len(g.chosen) + 1 /\ chosen[Len(g.chosen) + 1] = m
       /\ \A k \in 1 .. Len(g.chosen) : chosen[k] = g.chosen[k] /\ g.chosen[k] \in ToSet(g.chosen)
  <2>1. DOMAIN g.chosen = 1 .. Len(g.chosen) BY <1>1
  <2> QED BY <1>1, <1>7, <2>1 DEF ToSet
<1> HIDE DEF chosen
<1>25. /\ h \in PlanStates /\ h.methods = methods /\ h.chosen = chosen /\ h.free = free
       /\ h.overconstrained = g.overconstrained \ ToSet(freed)
  BY <1>1, <1>3, <1>10, <1>22, <1>23 DEF PlanStates
<1>26. Left(h) = left
  <2>1. {x[1] : x \in ToSet(chosen)} = {x[1] : x \in ToSet(g.chosen)} \cup {c} BY <1>23
  <2> QED BY <1>25, <2>1 DEF Left
<1> HIDE DEF left, c
<1>27. ToSet(h.free) \subseteq ToSet(planner.variables)
  <2>1. \A u \in ToSet(link) : u \in ToSet(planner.variables) BY <1>8, <1>12, <1>14 DEF PlannerInv
  <2>2. ToSet(freed) \subseteq ToSet(link) BY <1>13
  <2>3. ToSet(g.free) \subseteq ToSet(planner.variables) BY DEF Planning
  <2> QED BY <1>2, <1>22, <1>25, <2>1, <2>2, <2>3
<1>28. \A u \in ToSet(h.free) : Alone(u, left)
  <2> SUFFICES ASSUME NEW u \in ToSet(g.free) \cup ToSet(freed) PROVE Alone(u, left) BY <1>2, <1>22, <1>25
  <2>1. CASE u \in ToSet(g.free) BY <1>16, <2>1 DEF Planning
  <2>2. CASE u \in ToSet(freed) BY <1>13, <1>14, <1>15, <2>2
  <2> QED BY <2>1, <2>2
<1>29. \A u \in ToSet(planner.variables) : Met(u, left) /\ Alone(u, left) => u \in ToSet(h.free)
  <2> SUFFICES ASSUME NEW u \in ToSet(planner.variables), Met(u, left), Alone(u, left) PROVE u \in ToSet(r) \cup ToSet(freed)
    BY <1>22, <1>25
  <2>1. CASE Writes(c, u) BY <1>15, <2>1, VariablesInRange
  <2>2. CASE ~ Writes(c, u)
    <3>1. Met(u, Left(g)) /\ Alone(u, Left(g)) /\ u # v BY <1>7, <1>18, <2>2
    <3> QED BY <1>2, <3>1 DEF Planning
  <2> QED BY <2>1, <2>2
<1>30. h.overconstrained = {u \in ToSet(planner.variables) : ~ Alone(u, left)}
  <2>1. g.overconstrained = {u \in ToSet(planner.variables) : ~ Alone(u, Left(g))} BY DEF Planning
  <2>2. ASSUME NEW u \in ToSet(planner.variables)
        PROVE  ~ Alone(u, Left(g)) /\ u \notin ToSet(freed) <=> ~ Alone(u, left)
    <3>1. u \in PlannerVariables BY VariablesInRange
    <3>2. CASE Writes(c, u) BY <1>15, <1>16, <1>20, <3>1, <3>2
    <3>3. CASE ~ Writes(c, u) BY <1>15, <1>18, <3>1, <3>3
    <3> QED BY <3>2, <3>3
  <2> QED BY <1>25, <2>1, <2>2
<1>31. \A x \in ToSet(chosen) : x[1] \in ToSet(planner.constraints) /\ \A d \in left : ~ Writes(d, x[2])
  <2>1. \A x \in ToSet(g.chosen) : x[1] \in ToSet(planner.constraints) /\ \A d \in Left(g) : ~ Writes(d, x[2])
    BY DEF Planning
  <2>2. left \subseteq Left(g) BY DEF left
  <2>3. \A d \in left : ~ Writes(d, v) BY <1>6, <1>7, <1>17 DEF Met
  <2>4. m[1] \in ToSet(planner.constraints) /\ m[2] = v BY <1>7, <1>8
  <2> QED BY <1>23, <2>1, <2>2, <2>3, <2>4
<1>32. \A j, k \in 1 .. Len(chosen) : j < k => chosen[j][1] # chosen[k][1] /\ ~ Writes(chosen[k][1], chosen[j][2])
  <2> DEFINE n == Len(g.chosen)
  <2>1. \A j, k \in 1 .. n : j < k => g.chosen[j][1] # g.chosen[k][1] /\ ~ Writes(g.chosen[k][1], g.chosen[j][2])
    BY DEF Planning
  <2>2. \A x \in ToSet(g.chosen) : x[1] # c /\ ~ Writes(c, x[2])
    <3>1. \A x \in ToSet(g.chosen) : ~ Writes(c, x[2]) BY <1>7 DEF Planning
    <3> QED BY <1>7, <3>1 DEF Left
  <2>3. n \in Nat /\ Len(chosen) = n + 1 /\ chosen[n + 1] = m /\ \A k \in 1 .. n : chosen[k] = g.chosen[k] /\ g.chosen[k] \in ToSet(g.chosen)
    BY <1>24
  <2>4. m[1] = c BY DEF c
  <2> HIDE DEF n
  <2>5. SUFFICES ASSUME NEW j \in 1 .. n + 1, NEW k \in 1 .. n + 1, j < k
                 PROVE  chosen[j][1] # chosen[k][1] /\ ~ Writes(chosen[k][1], chosen[j][2])
    BY <2>3
  <2>6. j \in 1 .. n /\ (k = n + 1 \/ k \in 1 .. n) BY <2>3, <2>5
  <2>7. CASE k = n + 1 BY <2>2, <2>3, <2>4, <2>6, <2>7
  <2>8. CASE k \in 1 .. n BY <2>1, <2>3, <2>5, <2>6, <2>8
  <2> QED BY <2>6, <2>7, <2>8
<1>33. Planning(h)
  BY <1>9, <1>22, <1>25, <1>26, <1>27, <1>28, <1>29, <1>30, <1>31, <1>32 DEF Planning
<1>34. left \subseteq Left(g) /\ ~ Met(v, left) BY <1>6, <1>7, <1>17 DEF left
<1>35. \A u \in ToSet(freed) : Met(u, left) BY <1>13, <1>14, <1>15
<1>36. Turned(h, g) BY <1>2, <1>22, <1>25, <1>26, <1>34, <1>35 DEF Turned, v
<1> QED BY <1>33, <1>36 DEF h

\* Every turn but the last ones, of an empty heap, takes another variable.
InTurn(h, k) ==
    /\ Planning(h)
    /\ \/ h.free = <<>>
       \/ \E seen \in SUBSET PlannerVariables :
             Cardinality(seen) = k /\ \A u \in seen : u \notin ToSet(h.free) /\ ~ Met(u, Left(h))

\* Each turn takes one that no turn took before.
LEMMA OneMoreTurn ==
  ASSUME PlannerInv, NEW h, NEW k \in Nat, InTurn(h, k), NEW score
  PROVE  InTurn(chooseNext(h, score), k + 1)
<1>1. Planning(h) BY DEF InTurn
<1>2. CASE h.free = <<>>
  <2>1. chooseNext(h, score) = h BY <1>2 DEF chooseNext
  <2> QED BY <1>2, <2>1 DEF InTurn
<1>3. CASE h.free # <<>>
  <2> DEFINE g == chooseNext(h, score)
             v == Head(h.free)
  <2>1. Planning(g) /\ Turned(g, h)
    <3>1. CASE h.methods[v] = <<>> BY <1>1, <1>3, <3>1, SkippedTurn
    <3>2. CASE h.methods[v] # <<>> BY <1>1, <1>3, <3>2, TakingTurn
    <3> QED BY <3>1, <3>2
  <2> HIDE DEF g
  <2>2. PICK seen \in SUBSET PlannerVariables :
          Cardinality(seen) = k /\ \A u \in seen : u \notin ToSet(h.free) /\ ~ Met(u, Left(h))
    BY <1>3 DEF InTurn
  <2>3. /\ Left(g) \subseteq Left(h) /\ v \in ToSet(h.free) /\ ~ Met(v, Left(g))
        /\ \A u \in ToSet(g.free) : u \in ToSet(h.free) \ {v} \/ Met(u, Left(g))
    BY <2>1 DEF Turned
  <2> HIDE DEF v
  <2>4. v \in PlannerVariables /\ v \notin seen BY <1>1, <2>2, <2>3, VariablesInRange DEF Planning
  <2>5. IsFiniteSet(seen)
    <3>1. NumVariables \in Nat BY PlannerAssumption
    <3>2. IsFiniteSet(PlannerVariables) BY <3>1, FS_Interval DEF PlannerVariables
    <3> QED BY <3>2, FS_Subset
  <2>6. Cardinality(seen \cup {v}) = k + 1 BY <2>2, <2>4, <2>5, FS_AddElement
  <2>7. \A u : Met(u, Left(g)) => Met(u, Left(h)) BY <2>3 DEF Met
  <2>8. \A u \in seen \cup {v} : u \notin ToSet(g.free) /\ ~ Met(u, Left(g)) BY <2>2, <2>3, <2>7
  <2>9. seen \cup {v} \in SUBSET PlannerVariables BY <2>4
  <2>10. InTurn(g, k + 1) BY <2>1, <2>6, <2>8, <2>9 DEF InTurn
  <2> QED BY <2>10 DEF g
<1> QED BY <1>2, <1>3

\* After as many turns as there are variables the heap is empty.
LEMMA ChooseEmpties ==
  ASSUME PlannerInv, NEW g, Planning(g), NEW score
  PROVE  Planning(Choose(g, score)) /\ Choose(g, score).free = <<>>
<1> DEFINE n == NumVariables
           T == [k \in 0 .. n |-> {h \in PlanStates : InTurn(h, k)}]
           U == UNION {T[k] : k \in 0 .. n}
           F == [x \in (1 .. n) \X U |-> chooseNext(x[2], score)]
           After(f) == f = [k \in 0 .. n |-> IF k = 0 THEN g ELSE chooseNext(f[k - 1], score)]
           after == CHOOSE f : After(f)
<1>n. n \in Nat BY PlannerAssumption
<1>1. n \in Nat /\ 0 \in 0 .. n /\ n \in 0 .. n /\ \A k \in 1 .. n : k \in 0 .. n /\ k - 1 \in 0 .. n /\ k # 0 BY <1>n
<1>2. Choose(g, score) = after[n] BY DEF Choose
<1>t. \A k \in 0 .. n : \A h : h \in T[k] <=> InTurn(h, k) BY DEF InTurn, Planning
<1> HIDE DEF T
<1>3. g \in T[0]
  <2>1. Cardinality({}) = 0 BY FS_EmptySet
  <2>2. InTurn(g, 0) BY <2>1 DEF InTurn
  <2> QED BY <1>1, <1>t, <2>2
<1>4. \A k \in 1 .. n : \A x \in T[k - 1] : chooseNext(x, score) \in T[k]
  <2> SUFFICES ASSUME NEW k \in 1 .. n, NEW x \in T[k - 1] PROVE chooseNext(x, score) \in T[k] OBVIOUS
  <2>1. InTurn(x, k - 1) /\ k - 1 \in Nat /\ k - 1 + 1 = k BY <1>1, <1>t
  <2>2. InTurn(chooseNext(x, score), k - 1 + 1) BY <2>1, OneMoreTurn
  <2> QED BY <1>1, <1>t, <2>1, <2>2
<1>6. \A k \in 1 .. n : \A x \in T[k - 1] : F[<<k, x>>] = chooseNext(x, score)
  <2> SUFFICES ASSUME NEW k \in 1 .. n, NEW x \in T[k - 1] PROVE F[<<k, x>>] = chooseNext(x, score) OBVIOUS
  <2>1. x \in U BY <1>1
  <2> QED BY <2>1
<1> HIDE DEF F
<1>7. g \in T[0] /\ \A k \in 1 .. n : \A x \in T[k - 1] : F[<<k, x>>] \in T[k] BY <1>3, <1>4, <1>6
<1>8. PICK f : IsFold(f, n, g, F) /\ \A k \in 0 .. n : f[k] \in T[k] BY ONLY <1>1, <1>7, FoldExists
<1>9. After(f)
  <2>1. \A k \in 0 .. n : (IF k = 0 THEN g ELSE F[<<k, f[k - 1]>>]) = IF k = 0 THEN g ELSE chooseNext(f[k - 1], score)
    <3> SUFFICES ASSUME NEW k \in 0 .. n, k # 0 PROVE F[<<k, f[k - 1]>>] = chooseNext(f[k - 1], score) OBVIOUS
    <3>1. k \in 1 .. n /\ f[k - 1] \in T[k - 1] BY <1>1, <1>8
    <3> QED BY <1>6, <3>1
  <2> QED BY ONLY <1>8, <2>1 DEF IsFold
<1>10. After(after) BY <1>9
<1> HIDE DEF after
<1>11. \A k \in 0 .. n : after[k] = IF k = 0 THEN g ELSE chooseNext(after[k - 1], score) BY ONLY <1>10
<1>12. after[0] \in T[0] /\ \A k \in 1 .. n : after[k - 1] \in T[k - 1] => after[k] \in T[k]
  BY <1>1, <1>3, <1>4, <1>11
<1>13. \A k \in 0 .. n : after[k] \in T[k] BY ONLY <1>1, <1>12, FoldStays
<1>14. InTurn(after[n], n) BY <1>1, <1>13, <1>t
<1> DEFINE h == after[n]
<1> HIDE DEF after, h
<1>15. Planning(h) BY <1>14 DEF InTurn, h
<1>16. h.free = <<>>
  <2> SUFFICES ASSUME h.free # <<>> PROVE FALSE OBVIOUS
  <2>1. PICK seen \in SUBSET PlannerVariables : Cardinality(seen) = n /\ \A u \in seen : u \notin ToSet(h.free)
    BY <1>14 DEF InTurn, h
  <2>2. IsFiniteSet(PlannerVariables) /\ Cardinality(PlannerVariables) = n
    BY <1>1, FS_Interval DEF PlannerVariables, n
  <2>3. seen = PlannerVariables BY <2>1, <2>2, FS_Subset
  <2>4. h.free \in Seq(PlannerVariables) /\ ToSet(h.free) \subseteq PlannerVariables
    BY <1>15, VariablesInRange DEF Planning, PlanStates
  <2>5. Head(h.free) \in ToSet(h.free) BY <2>4, HeadAndTail
  <2> QED BY <2>1, <2>3, <2>4, <2>5
<1> QED BY <1>2, <1>15, <1>16 DEF h

\* When the heap is empty, whatever is left is a constraint that writes nothing but
\* what others write that are left too.
LEMMA NothingAlone ==
  ASSUME PlannerInv, NEW h, Planning(h), h.free = <<>>, NEW c \in Left(h), NEW u \in PlannerVariables, Writes(c, u)
  PROVE  u \in h.overconstrained /\ ~ Alone(u, Left(h))
<1>1. u \in ToSet(planner.variables) BY DEF PlannerInv, Left
<1>2. Met(u, Left(h)) BY DEF Met
<1>3. ToSet(h.free) = {} BY DEF ToSet
<1> QED BY <1>1, <1>2, <1>3 DEF Planning

\* A constraint writes something; Contains and Writes say the same of it.
LEMMA LinksAre ==
  ASSUME PlannerInv, NEW c \in ToSet(planner.constraints)
  PROVE  /\ planner.links[c] \in Seq(PlannerVariables) /\ planner.links[c] # <<>>
         /\ \A v : Contains(planner.links[c], v) <=> Writes(c, v)
<1>1. c \in 1 .. Len(planner.links) /\ planner.links \in Seq(Links) BY DEF PlannerInv
<1> DEFINE link == planner.links[c]
<1>2. link \in Links BY <1>1
<1> HIDE DEF link
<1>3. link \in Seq(PlannerVariables) /\ link # <<>> BY <1>2, PlannerAssumption
<1>4. DOMAIN link = 1 .. Len(link) BY <1>3
<1>5. \A v : Contains(link, v) <=> v \in ToSet(link) BY <1>4 DEF Contains, ToSet
<1> QED BY <1>3, <1>5 DEF link, Writes

\* A plan that getPlan gives is sound.
LEMMA PlanIsSound ==
  ASSUME PlannerInv, NEW h, Planning(h), h.free = <<>>, h.overconstrained = {}
  PROVE  Sound(Reverse(h.chosen))
<1> DEFINE n == Len(h.chosen)
           s == h.chosen
           t == Reverse(h.chosen)
<1>1. s \in Seq(MethodPairs) BY DEF Planning, PlanStates
<1>2. Left(h) = {}
  <2> SUFFICES ASSUME NEW c \in Left(h) PROVE FALSE OBVIOUS
  <2> DEFINE link == planner.links[c]
  <2>1. link \in Seq(PlannerVariables) /\ link # <<>> BY LinksAre DEF Left, Planning
  <2> HIDE DEF link
  <2>2. Head(link) \in ToSet(link) /\ Head(link) \in PlannerVariables BY <2>1, HeadAndTail
  <2>3. Writes(c, Head(link)) BY <2>2 DEF Writes, link
  <2> QED BY <2>2, <2>3, NothingAlone
<1>3. n \in Nat /\ DOMAIN s = 1 .. n BY <1>1
<1>4. DOMAIN t = 1 .. n /\ \A k \in 1 .. n : t[k] = s[n - k + 1] BY <1>3 DEF Reverse
<1>5. /\ \A m \in ToSet(s) : m[1] \in ToSet(planner.constraints)
      /\ \A j, k \in 1 .. n : j < k => s[j][1] # s[k][1] /\ ~ Writes(s[k][1], s[j][2])
  BY DEF Planning
<1>6. ToSet(planner.constraints) \subseteq {m[1] : m \in ToSet(s)} BY <1>2 DEF Left
<1> HIDE DEF n, s, t
<1>7. \A k \in 1 .. n : n - k + 1 \in 1 .. n /\ n - (n - k + 1) + 1 = k BY <1>3
<1>8. ToSet(s) = {s[k] : k \in 1 .. n} BY <1>3 DEF ToSet
<1>9. {t[k][1] : k \in DOMAIN t} = ToSet(planner.constraints)
  <2>1. \A k \in 1 .. n : t[k][1] \in ToSet(planner.constraints) BY <1>4, <1>5, <1>7, <1>8
  <2>2. ASSUME NEW c \in ToSet(planner.constraints) PROVE \E k \in 1 .. n : t[k][1] = c
    <3>1. PICK k \in 1 .. n : c = s[k][1] BY <1>6, <1>8
    <3>2. t[n - k + 1] = s[k] /\ n - k + 1 \in 1 .. n BY <1>4, <1>7
    <3> QED BY <3>1, <3>2
  <2> QED BY <1>4, <2>1, <2>2
<1>10. ASSUME NEW j \in 1 .. n, NEW k \in 1 .. n, j < k
       PROVE  t[j][1] # t[k][1] /\ ~ Contains(planner.links[t[j][1]], t[k][2])
  <2>1. n - k + 1 < n - j + 1 BY <1>3, <1>10
  <2>2. t[j] = s[n - j + 1] /\ t[k] = s[n - k + 1] BY <1>4
  <2>3. t[k][1] # t[j][1] /\ ~ Writes(t[j][1], t[k][2]) BY <1>5, <1>7, <2>1, <2>2
  <2>4. t[j][1] \in ToSet(planner.constraints) BY <1>4, <1>9
  <2> QED BY <2>3, <2>4, LinksAre
<1> QED BY <1>4, <1>9, <1>10 DEF Sound, t

\* When getPlan gives none there is none: in any order, whatever the last of the
\* constraints that are left writes, another one would write before it.
LEMMA NoPlanIsSound ==
  ASSUME PlannerInv, NEW h, Planning(h), h.free = <<>>, h.overconstrained # {}
  PROVE  ~ SomePlan
<1> SUFFICES ASSUME SomePlan PROVE FALSE OBVIOUS
<1> DEFINE n == Len(planner.constraints)
           C == ToSet(planner.constraints)
<1>1. PICK order \in Orders :
        \E written \in [DOMAIN order -> PlannerVariables] :
            /\ \A k \in DOMAIN order : Contains(planner.links[order[k]], written[k])
            /\ Sound([k \in DOMAIN order |-> <<order[k], written[k]>>])
  BY DEF SomePlan
<1>2. order \in [1 .. n -> C] /\ n \in Nat
  <2>1. planner.constraints \in Seq(Nat) BY DEF PlannerInv
  <2> QED BY <2>1 DEF Orders
<1> HIDE DEF n
<1>3. PICK written \in [1 .. n -> PlannerVariables] :
        /\ \A k \in 1 .. n : Contains(planner.links[order[k]], written[k])
        /\ Sound([k \in 1 .. n |-> <<order[k], written[k]>>])
  BY <1>1, <1>2
<1> DEFINE t == [k \in 1 .. n |-> <<order[k], written[k]>>]
<1>4. DOMAIN t = 1 .. n /\ \A k \in 1 .. n : t[k][1] = order[k] /\ t[k][2] = written[k] OBVIOUS
<1> HIDE DEF t
<1>5. /\ {t[k][1] : k \in 1 .. n} = C
      /\ \A j, k \in 1 .. n : j < k => t[j][1] # t[k][1] /\ ~ Contains(planner.links[t[j][1]], t[k][2])
  BY <1>3, <1>4 DEF Sound, t
<1>6. \A c \in C : \E k \in 1 .. n : order[k] = c BY <1>4, <1>5
<1>7. \A k \in 1 .. n : order[k] \in C /\ written[k] \in PlannerVariables /\ Writes(order[k], written[k])
  BY <1>2, <1>3, LinksAre
<1>8. \A j, k \in 1 .. n : j < k => ~ Writes(order[j], written[k]) BY <1>4, <1>5, <1>7, LinksAre
<1>9. Left(h) \subseteq C BY DEF Left
<1> HIDE DEF C
<1> DEFINE S == {k \in 1 .. n : order[k] \in Left(h)}
<1>10. S \subseteq 1 .. n /\ S # {}
  <2>1. PICK u \in h.overconstrained : TRUE OBVIOUS
  <2>2. ~ Alone(u, Left(h)) BY DEF Planning
  <2>3. PICK c \in Left(h) : TRUE BY <2>2 DEF Alone
  <2> QED BY <1>6, <1>9, <2>3
<1> DEFINE k == Max(S)
<1>11. k \in S /\ \A j \in S : j <= k BY <1>2, <1>10, MaxIsGreatest
<1> HIDE DEF k
<1>12. k \in 1 .. n /\ order[k] \in Left(h) BY <1>11
<1>13. ~ Alone(written[k], Left(h)) BY <1>7, <1>12, NothingAlone
<1>14. PICK d \in Left(h) : d # order[k] /\ Writes(d, written[k]) BY <1>13 DEF Alone
<1>15. PICK j \in 1 .. n : order[j] = d BY <1>6, <1>9
<1>16. j <= k /\ j # k BY <1>11, <1>14, <1>15
<1> QED BY <1>2, <1>8, <1>12, <1>14, <1>15, <1>16

\* What getPlan begins with.
LEMMA PlanningBegins ==
  ASSUME PlannerInv, NEW score
  PROVE  LET g == Chosen(score)
         IN  Planning(g) /\ g.free = <<>>
<1> DEFINE methods == reset(planner.methods, planner.constraints)
           C == ToSet(planner.constraints)
           V == ToSet(planner.variables)
           zero == {v \in PlannerVariables : Len(methods[v]) = 0}
           ones == {v \in PlannerVariables : Len(methods[v]) = 1}
           singles == Filtered(planner.variables, ones)
           free == build(singles, score)
           over == V \ (zero \cup ones)
           g == [methods |-> methods, free |-> free, chosen |-> <<>>, overconstrained |-> over]
<1>1. Chosen(score) = Choose(g, score) BY DEF Chosen, CountIs
<1>2. /\ planner.variables \in Seq(PlannerVariables) /\ planner.constraints \in Seq(Nat)
      /\ planner.methods \in [PlannerVariables -> Seq(MethodPairs)]
      /\ Distinct(planner.variables) /\ Distinct(planner.constraints)
      /\ \A v \in PlannerVariables : Distinct(planner.methods[v]) /\ ToSet(planner.methods[v]) \subseteq On(v, C)
  BY DEF PlannerInv
<1>3. MethodsOf(methods, C) BY <1>2, ResetMethods
<1>4. V \subseteq PlannerVariables BY VariablesInRange
<1>5. methods \in [PlannerVariables -> Seq(MethodPairs)] BY <1>3 DEF MethodsOf
<1> HIDE DEF methods
<1>6. \A v \in PlannerVariables : (v \in ones <=> Met(v, C) /\ Alone(v, C)) /\ (v \in zero <=> ~ Met(v, C))
  BY <1>3, MethodsCounted
<1> HIDE DEF zero, ones
<1>7. singles \in Seq(PlannerVariables) /\ ToSet(singles) = V \cap ones /\ Distinct(singles)
  BY <1>2, FilteredElements, FilteredDistinct
<1> HIDE DEF singles
<1>8. Rearranged(free, singles) BY <1>7, BuildRearranges
<1> HIDE DEF free
<1>9. free \in Seq(PlannerVariables) /\ ToSet(free) = V \cap ones /\ Distinct(free) BY <1>7, <1>8 DEF Rearranged
<1> HIDE DEF V
<1>10. over \in SUBSET PlannerVariables BY <1>4
<1>11. \A v : ~ Alone(v, C) => Met(v, C) BY DEF Alone, Met
<1>12. over = {v \in V : ~ Alone(v, C)} BY <1>4, <1>6, <1>11
<1> HIDE DEF over
<1>13. g \in PlanStates /\ g.methods = methods /\ g.free = free /\ g.chosen = <<>> /\ g.overconstrained = over
  BY <1>5, <1>9, <1>10 DEF PlanStates
<1> HIDE DEF g
<1>14. ToSet(g.chosen) = {} /\ Len(g.chosen) = 0 BY <1>13 DEF ToSet
<1>15. Left(g) = C BY <1>14 DEF Left
<1>16. Planning(g)
  <2>1. ToSet(free) \subseteq V /\ \A v \in ToSet(free) : Alone(v, C) BY <1>4, <1>6, <1>9
  <2>2. \A v \in V : Met(v, C) /\ Alone(v, C) => v \in ToSet(free) BY <1>4, <1>6, <1>9
  <2>3. \A j, k \in 1 .. Len(g.chosen) : FALSE BY <1>14
  <2> QED BY <1>3, <1>9, <1>12, <1>13, <1>14, <1>15, <2>1, <2>2, <2>3 DEF Planning, V
<1> QED BY <1>1, <1>16, ChooseEmpties

(***************************************************************************)
(* The steps of the page.                                                  *)
(***************************************************************************)
\* A planner without constraints.
LEMMA PlannerInitInv ==
  ASSUME PlannerInit
  PROVE  PlannerInv /\ PlansAreSound
<1> DEFINE vs == [k \in PlannerVariables |-> k]
           none == [v \in PlannerVariables |-> <<>>]
<1>1. NumVariables \in Nat BY PlannerAssumption
<1>2. PlannerVariables = 1 .. NumVariables BY DEF PlannerVariables
<1>3. vs \in Seq(PlannerVariables)
  <2>1. vs \in [1 .. NumVariables -> PlannerVariables] BY <1>2
  <2> QED BY ONLY <1>1, <2>1, SeqDef
<1>4. Distinct(vs)
  <2>1. Len(vs) = NumVariables BY <1>1, <1>2
  <2> QED BY <1>2, <2>1 DEF Distinct
<1>5. none \in [PlannerVariables -> Seq(MethodPairs)] OBVIOUS
<1>6. <<>> \in Seq(Nat) /\ <<>> \in Seq(Links) /\ ToSet(<<>>) = {} /\ Distinct(<<>>) BY DEF ToSet, Distinct
<1>7. \A v \in PlannerVariables : none[v] = <<>> OBVIOUS
<1> HIDE DEF vs, none
<1>8. planner = [variables |-> vs, constraints |-> <<>>, links |-> <<>>, methods |-> none, plans |-> 0] /\ plan = <<>>
  BY DEF PlannerInit, vs, none
<1>9. PlannerInv
  <2>1. /\ planner.variables = vs /\ planner.constraints = <<>> /\ planner.methods = none
        /\ planner \in [variables : Seq(PlannerVariables), constraints : Seq(Nat), links : Seq(Links),
                        methods : [PlannerVariables -> Seq(MethodPairs)], plans : Nat]
    BY <1>3, <1>5, <1>6, <1>8
  <2>2. \A v \in PlannerVariables : Distinct(planner.methods[v]) /\ ToSet(planner.methods[v]) = {} BY <1>6, <1>7, <2>1
  <2> QED BY <1>4, <1>6, <2>1, <2>2 DEF PlannerInv
<1>10. PlansAreSound BY <1>6, <1>8 DEF PlansAreSound
<1> QED BY <1>9, <1>10

\* A new constraint: nothing is on any variable that was not before, and what it
\* writes is there.
LEMMA AddConstraintStep ==
  ASSUME PlannerInv, NEW link \in Links, AddConstraint(link)
  PROVE  PlannerInv' /\ PlansAreSound'
<1> DEFINE n == Len(planner.links)
           links == Append(planner.links, link)
           cs == Append(planner.constraints, n + 1)
<1>1. /\ planner \in [variables : Seq(PlannerVariables), constraints : Seq(Nat), links : Seq(Links),
                      methods : [PlannerVariables -> Seq(MethodPairs)], plans : Nat]
      /\ Distinct(planner.variables) /\ Distinct(planner.constraints)
      /\ \A c \in ToSet(planner.constraints) :
            c \in 1 .. n /\ \A v \in PlannerVariables : Writes(c, v) => v \in ToSet(planner.variables)
      /\ \A v \in PlannerVariables :
            Distinct(planner.methods[v]) /\ ToSet(planner.methods[v]) \subseteq On(v, ToSet(planner.constraints))
  BY DEF PlannerInv
<1>2. n \in Nat /\ links \in Seq(Links) /\ links[n + 1] = link /\ Len(links) = n + 1 /\ \A c \in 1 .. n : links[c] = planner.links[c]
  BY <1>1
<1>3. n + 1 \notin ToSet(planner.constraints) BY <1>1, <1>2
<1>4. cs \in Seq(Nat) /\ Distinct(cs) /\ ToSet(cs) = ToSet(planner.constraints) \cup {n + 1}
  <2>1. planner.constraints \in Seq(Nat) /\ n + 1 \in Nat BY <1>1, <1>2
  <2> QED BY <1>1, <1>3, <2>1, AppendDistinct, AppendElements
<1> HIDE DEF n, links, cs
<1>5. planner' = [planner EXCEPT !.links = links, !.constraints = cs] /\ plan' = <<>> /\ ToSet(link) \subseteq ToSet(planner.variables)
  BY DEF AddConstraint, links, cs, n
<1>6. /\ planner' \in [variables : Seq(PlannerVariables), constraints : Seq(Nat), links : Seq(Links),
                       methods : [PlannerVariables -> Seq(MethodPairs)], plans : Nat]
      /\ planner'.variables = planner.variables /\ planner'.constraints = cs /\ planner'.links = links
      /\ planner'.methods = planner.methods
  BY <1>1, <1>2, <1>4, <1>5
<1>7. \A c \in ToSet(planner.constraints) : links[c] = planner.links[c] BY <1>1, <1>2
<1>8. ASSUME NEW c \in ToSet(cs)
      PROVE  c \in 1 .. Len(links) /\ \A v \in PlannerVariables : v \in ToSet(links[c]) => v \in ToSet(planner.variables)
  <2>1. CASE c = n + 1 BY <1>2, <1>5, <2>1
  <2>2. CASE c \in ToSet(planner.constraints)
    <3>1. c \in 1 .. n /\ \A v \in PlannerVariables : v \in ToSet(planner.links[c]) => v \in ToSet(planner.variables)
      BY <1>1, <2>2 DEF Writes
    <3>2. links[c] = planner.links[c] BY <1>7, <2>2
    <3> QED BY <1>2, <3>1, <3>2
  <2> QED BY <1>4, <2>1, <2>2
<1>9. ASSUME NEW v \in PlannerVariables
      PROVE  /\ Distinct(planner.methods[v])
             /\ ToSet(planner.methods[v]) \subseteq {<<c, v>> : c \in {d \in ToSet(cs) : v \in ToSet(links[d])}}
  <2>1. ToSet(planner.methods[v]) \subseteq On(v, ToSet(planner.constraints)) BY <1>1
  <2>2. \A c \in ToSet(planner.constraints) : Writes(c, v) => c \in ToSet(cs) /\ v \in ToSet(links[c])
    BY <1>4, <1>7 DEF Writes
  <2> QED BY <1>1, <2>1, <2>2 DEF On
<1>10. PlannerInv'
  <2>1. Distinct(planner'.variables) /\ Distinct(planner'.constraints) BY <1>1, <1>4, <1>6
  <2> QED BY <1>6, <1>8, <1>9, <2>1 DEF PlannerInv, Writes, On
<1>11. PlansAreSound'
  <2>1. ToSet(plan') = {} BY <1>5 DEF ToSet
  <2> QED BY <2>1 DEF PlansAreSound
<1> QED BY <1>10, <1>11

\* One constraint less: a variable that is dropped is written by none that is left.
LEMMA RemoveConstraintStep ==
  ASSUME PlannerInv, NEW c, RemoveConstraint(c)
  PROVE  PlannerInv' /\ PlansAreSound'
<1> DEFINE left == delete(planner.constraints, c)
           removed == remove(planner.methods, c)
           methods == reset(removed, left)
           kept == Filtered(planner.variables, {v \in PlannerVariables : methods[v] # <<>>})
<1>1. /\ planner \in [variables : Seq(PlannerVariables), constraints : Seq(Nat), links : Seq(Links),
                      methods : [PlannerVariables -> Seq(MethodPairs)], plans : Nat]
      /\ Distinct(planner.variables) /\ Distinct(planner.constraints)
      /\ \A d \in ToSet(planner.constraints) :
            d \in 1 .. Len(planner.links) /\ \A v \in PlannerVariables : Writes(d, v) => v \in ToSet(planner.variables)
      /\ \A v \in PlannerVariables :
            Distinct(planner.methods[v]) /\ ToSet(planner.methods[v]) \subseteq On(v, ToSet(planner.constraints))
  BY DEF PlannerInv
<1>2. planner' = [planner EXCEPT !.constraints = left, !.methods = methods, !.variables = kept] /\ plan' = <<>>
  BY DEF RemoveConstraint
<1>3. left \in Seq(Nat) /\ Distinct(left) /\ ToSet(left) = ToSet(planner.constraints) \ {c}
  <2> DEFINE s == planner.constraints
             K == ToSet(s) \ {c}
  <2>1. s \in Seq(Nat) /\ Distinct(s) BY <1>1
  <2>2. left = Filtered(s, K) BY DEF delete
  <2>3. K = ToSet(s) \cap K OBVIOUS
  <2> HIDE DEF s, K, left
  <2>4. Filtered(s, K) \in Seq(Nat) /\ ToSet(Filtered(s, K)) = ToSet(s) \cap K /\ Distinct(Filtered(s, K))
    BY <2>1, FilteredElements, FilteredDistinct
  <2> QED BY <2>2, <2>3, <2>4 DEF K, s
<1> HIDE DEF left
<1>4. /\ removed \in [PlannerVariables -> Seq(MethodPairs)]
      /\ \A v \in PlannerVariables : Distinct(removed[v]) /\ ToSet(removed[v]) = ToSet(planner.methods[v]) \ {<<c, v>>}
  <2>1. planner.methods \in [PlannerVariables -> Seq(MethodPairs)] BY <1>1
  <2> QED BY <1>1, <2>1, RemoveMethods
<1>5. \A v \in PlannerVariables : ToSet(removed[v]) \subseteq On(v, ToSet(left))
  <2> SUFFICES ASSUME NEW v \in PlannerVariables, NEW x \in ToSet(planner.methods[v]), x # <<c, v>>
               PROVE  x \in On(v, ToSet(left))
    BY <1>4
  <2>1. PICK d \in ToSet(planner.constraints) : Writes(d, v) /\ x = <<d, v>> BY <1>1 DEF On
  <2> QED BY <1>3, <2>1 DEF On
<1> HIDE DEF removed
<1>6. MethodsOf(methods, ToSet(left)) BY <1>3, <1>4, <1>5, ResetMethods
<1>7. methods \in [PlannerVariables -> Seq(MethodPairs)] BY <1>6 DEF MethodsOf
<1> HIDE DEF methods
<1>8. /\ kept \in Seq(PlannerVariables) /\ Distinct(kept)
      /\ ToSet(kept) = ToSet(planner.variables) \cap {v \in PlannerVariables : methods[v] # <<>>}
  <2>1. planner.variables \in Seq(PlannerVariables) BY <1>1
  <2> QED BY <1>1, <2>1, FilteredElements, FilteredDistinct
<1> HIDE DEF kept
<1>9. /\ planner' \in [variables : Seq(PlannerVariables), constraints : Seq(Nat), links : Seq(Links),
                       methods : [PlannerVariables -> Seq(MethodPairs)], plans : Nat]
      /\ planner'.variables = kept /\ planner'.constraints = left /\ planner'.links = planner.links
      /\ planner'.methods = methods
  BY <1>1, <1>2, <1>3, <1>7, <1>8
<1>10. ASSUME NEW d \in ToSet(left)
       PROVE  d \in 1 .. Len(planner.links) /\ \A v \in PlannerVariables : v \in ToSet(planner.links[d]) => v \in ToSet(kept)
  <2>1. d \in 1 .. Len(planner.links) BY <1>1, <1>3
  <2>2. ASSUME NEW v \in PlannerVariables, Writes(d, v) PROVE v \in ToSet(kept)
    <3>1. v \in ToSet(planner.variables) BY <1>1, <1>3, <2>2
    <3>2. Met(v, ToSet(left)) BY <2>2 DEF Met
    <3>3. methods[v] # <<>> BY <1>6, <3>2, MethodsCounted
    <3> QED BY <1>8, <3>1, <3>3
  <2> QED BY <2>1, <2>2 DEF Writes
<1>11. \A v \in PlannerVariables :
          /\ Distinct(methods[v])
          /\ ToSet(methods[v]) \subseteq {<<d, v>> : d \in {e \in ToSet(left) : v \in ToSet(planner.links[e])}}
  BY <1>6 DEF MethodsOf, On, Writes
<1>12. PlannerInv'
  <2>1. Distinct(planner'.variables) /\ Distinct(planner'.constraints) BY <1>3, <1>8, <1>9
  <2> QED BY <1>9, <1>10, <1>11, <2>1 DEF PlannerInv, Writes, On
<1>13. PlansAreSound'
  <2>1. ToSet(plan') = {} BY <1>2 DEF ToSet
  <2> QED BY <2>1 DEF PlansAreSound
<1> QED BY <1>12, <1>13

\* A plan leaves the methods that it could not choose.
LEMMA GetPlanStep ==
  ASSUME PlannerInv, NEW score, GetPlan(score)
  PROVE  PlannerInv' /\ PlansAreSound'
<1> DEFINE g == Chosen(score)
           p == [possible |-> g.overconstrained = {}, methods |-> Reverse(g.chosen)]
<1>1. planner' = [planner EXCEPT !.methods = g.methods, !.plans = @ + 1] /\ plan' = <<p>> BY DEF GetPlan
<1>2. Planning(g) /\ g.free = <<>> BY PlanningBegins
<1> HIDE DEF g
<1>3. planner \in [variables : Seq(PlannerVariables), constraints : Seq(Nat), links : Seq(Links),
                   methods : [PlannerVariables -> Seq(MethodPairs)], plans : Nat]
  BY DEF PlannerInv
<1>4. MethodsOf(g.methods, Left(g)) BY <1>2 DEF Planning
<1>5. g.methods \in [PlannerVariables -> Seq(MethodPairs)] BY <1>4 DEF MethodsOf
<1>6. /\ planner' \in [variables : Seq(PlannerVariables), constraints : Seq(Nat), links : Seq(Links),
                       methods : [PlannerVariables -> Seq(MethodPairs)], plans : Nat]
      /\ planner'.variables = planner.variables /\ planner'.constraints = planner.constraints
      /\ planner'.links = planner.links /\ planner'.methods = g.methods
  <2>1. planner.plans + 1 \in Nat BY <1>3
  <2> QED BY <1>1, <1>3, <1>5, <2>1
<1>7. \A v \in PlannerVariables :
         /\ Distinct(g.methods[v])
         /\ ToSet(g.methods[v]) \subseteq {<<d, v>> : d \in {e \in ToSet(planner.constraints) : v \in ToSet(planner.links[e])}}
  <2>1. Left(g) \subseteq ToSet(planner.constraints) BY DEF Left
  <2> QED BY <1>4, <2>1 DEF MethodsOf, On, Writes
<1>8. PlannerInv'
  <2>1. /\ Distinct(planner.variables) /\ Distinct(planner.constraints)
        /\ \A c \in ToSet(planner.constraints) :
              /\ c \in 1 .. Len(planner.links)
              /\ \A v \in PlannerVariables : v \in ToSet(planner.links[c]) => v \in ToSet(planner.variables)
    BY DEF PlannerInv, Writes
  <2> QED BY <1>6, <1>7, <2>1 DEF PlannerInv, Writes, On
<1>9. IF p.possible THEN Sound(p.methods) ELSE ~ SomePlan
  <2>1. CASE g.overconstrained = {} BY <1>2, <2>1, PlanIsSound
  <2>2. CASE g.overconstrained # {} BY <1>2, <2>2, NoPlanIsSound
  <2> QED BY <2>1, <2>2
<1> HIDE DEF p
<1>10. \A methods : Sound(methods)' <=> Sound(methods) BY <1>6 DEF Sound
<1>11. SomePlan' <=> SomePlan
  <2>1. Orders' = Orders BY <1>6 DEF Orders
  <2> QED BY <1>6, <1>10, <2>1 DEF SomePlan
<1>12. ToSet(plan') = {p} BY <1>1 DEF ToSet
<1>13. PlansAreSound' BY <1>9, <1>10, <1>11, <1>12 DEF PlansAreSound
<1> QED BY <1>8, <1>13

\* getPlan answers with a plan in which no method writes what another one needs,
\* and answers that there is none only when no order of the constraints and no
\* choice of their methods is one, whatever was planned, refused and removed before.
THEOREM EveryPlanIsSound == PlannerSpec => []PlansAreSound
<1>1. PlannerInit => PlannerInv /\ PlansAreSound BY PlannerInitInv
<1>2. PlannerInv /\ PlansAreSound /\ [PlannerNext]_plannerVars => (PlannerInv /\ PlansAreSound)'
  <2> SUFFICES ASSUME PlannerInv, PlansAreSound, [PlannerNext]_plannerVars PROVE (PlannerInv /\ PlansAreSound)'
    OBVIOUS
  <2>1. CASE UNCHANGED plannerVars
    <3>1. planner' = planner /\ plan' = plan BY <2>1 DEF plannerVars
    <3>2. PlannerInv' BY <3>1 DEF PlannerInv, Writes, On
    <3>3. PlansAreSound' BY <3>1 DEF PlansAreSound, Sound, SomePlan, Orders
    <3> QED BY <3>2, <3>3
  <2>2. ASSUME NEW link \in Links, AddConstraint(link) PROVE (PlannerInv /\ PlansAreSound)' BY <2>2, AddConstraintStep
  <2>3. ASSUME NEW c \in 1 .. MaxConstraints, RemoveConstraint(c) PROVE (PlannerInv /\ PlansAreSound)'
    BY <2>3, RemoveConstraintStep
  <2>4. ASSUME NEW score \in [PlannerVariables -> Priorities], GetPlan(score) PROVE (PlannerInv /\ PlansAreSound)'
    BY <2>4, GetPlanStep
  <2> QED BY <2>1, <2>2, <2>3, <2>4 DEF PlannerNext
<1> QED BY <1>1, <1>2, PTL DEF PlannerSpec
=================================================================================
