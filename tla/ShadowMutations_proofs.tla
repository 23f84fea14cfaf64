----------------------- MODULE ShadowMutations_proofs ------------------------
(***************************************************************************)
(* Proofs about the mutation observers of the ShadowDOM polyfill (module   *)
(* ShadowMutations).  First the lists: whoever a mutation interests gets   *)
(* its call.  Then the registrations and their tables: a mutation          *)
(* interests those whom it concerns, so that every observer is told of     *)
(* what it is owed.                                                        *)
(***************************************************************************)
EXTENDS ShadowMutations, SequenceLemmas, FiniteSetTheorems, TLAPS

\* The types of what the lists are made of.
QueueTypeOK ==
    /\ records_ \in [MutationObservers -> Seq(Nat)]
    /\ scheduled_ \in [MutationObservers -> BOOLEAN]
    /\ globalMutationObservers \subseteq MutationObservers
    /\ notifyList \subseteq MutationObservers
    /\ isScheduled \in BOOLEAN /\ notifying \in BOOLEAN
    /\ calling \in MutationObservers \cup {None}
    /\ mutations \in Nat

\* Who is in a list: an observer with records is scheduled_, and one that is
\* scheduled_ is in a list, unless a callback that threw ended that list.
Scheduled ==
    \A o \in MutationObservers \ dropped :
        /\ records_[o] # <<>> => scheduled_[o]
        /\ scheduled_[o] => o \in globalMutationObservers \cup notifyList

\* A list waits for a notifyObservers that is to come or has just begun: the one
\* that is calling back does not help it, for the callback may throw.
Awaited ==
    /\ globalMutationObservers # {} =>
          isScheduled \/ (notifying /\ calling = None /\ notifyList = {})
    /\ notifyList # {} \/ calling # None => notifying

QueueInv == QueueTypeOK /\ Scheduled /\ Awaited

-----------------------------------------------------------------------------

LEMMA QueueInit == MutationInit => QueueInv
<1> SUFFICES ASSUME MutationInit PROVE QueueInv
  OBVIOUS
<1>1. QueueTypeOK
  <2>1. <<>> \in Seq(Nat)
    OBVIOUS
  <2>2. records_ = [o \in MutationObservers |-> <<>>] /\ scheduled_ = [o \in MutationObservers |-> FALSE]
    BY DEF MutationInit
  <2>3. records_ \in [MutationObservers -> Seq(Nat)]
    BY <2>1, <2>2
  <2>4. scheduled_ \in [MutationObservers -> BOOLEAN]
    BY <2>2
  <2> QED BY <2>3, <2>4 DEF MutationInit, QueueTypeOK
<1>2. Scheduled
  BY DEF MutationInit, Scheduled
<1>3. Awaited
  BY DEF MutationInit, Awaited
<1> QED BY <1>1, <1>2, <1>3 DEF QueueInv

\* What scheduleCallback leaves: those it is called for, and those scheduled_
\* before, are, and a list that it puts somebody in is to be worked off.
LEMMA ScheduleKeeps ==
  ASSUME QueueInv, NEW os \in SUBSET MutationObservers,
         scheduleCallback(os), UNCHANGED <<loop, dropped>>
  PROVE  /\ scheduled_' \in [MutationObservers -> BOOLEAN]
         /\ \A o \in MutationObservers : scheduled_'[o] <=> scheduled_[o] \/ o \in os
         /\ globalMutationObservers' \subseteq MutationObservers
         /\ isScheduled' \in BOOLEAN
         /\ \A o \in MutationObservers \ dropped :
               scheduled_'[o] => o \in globalMutationObservers' \cup notifyList'
         /\ Awaited'
<1> USE DEF QueueInv, QueueTypeOK, Scheduled, Awaited, loop
<1>1. scheduled_' = [o \in MutationObservers |-> scheduled_[o] \/ o \in os]
  BY Zenon DEF scheduleCallback
<1>2. globalMutationObservers' = globalMutationObservers \cup {o \in os : ~scheduled_[o]}
  BY Zenon DEF scheduleCallback
<1>3. isScheduled' = (isScheduled \/ {o \in os : ~scheduled_[o]} # {})
  BY Zenon DEF scheduleCallback
<1>4. /\ scheduled_' \in [MutationObservers -> BOOLEAN]
      /\ \A o \in MutationObservers : scheduled_'[o] <=> scheduled_[o] \/ o \in os
  BY <1>1
<1>5. \A o \in MutationObservers \ dropped :
         scheduled_'[o] => o \in globalMutationObservers' \cup notifyList'
  BY <1>2, <1>4
<1>6. Awaited'
  BY <1>2, <1>3
<1> QED BY <1>2, <1>3, <1>4, <1>5, <1>6

\* A mutation: those who get its record are among those it schedules.
LEMMA MutationKeeps ==
  ASSUME QueueInv,
         NEW told \in SUBSET MutationObservers, NEW os \in SUBSET MutationObservers,
         told \subseteq os, mutations' = mutations + 1,
         scheduleCallback(os), Enqueued(told), UNCHANGED <<loop, dropped>>
  PROVE  QueueInv'
<1>1. /\ records_' \in [MutationObservers -> Seq(Nat)]
      /\ \A o \in MutationObservers : o \notin told => records_'[o] = records_[o]
  BY DEF Enqueued, QueueInv, QueueTypeOK
<1>2. QueueTypeOK'
  BY <1>1, ScheduleKeeps DEF QueueInv, QueueTypeOK, loop
<1>3. Scheduled'
  BY <1>1, ScheduleKeeps DEF QueueInv, Scheduled
<1>4. Awaited'
  BY ScheduleKeeps
<1> QED BY <1>2, <1>3, <1>4 DEF QueueInv

LEMMA QueueNext == QueueInv /\ [MutationNext]_mutationVars => QueueInv'
<1> SUFFICES ASSUME QueueInv, [MutationNext]_mutationVars PROVE QueueInv'
  OBVIOUS
<1>1. CASE UNCHANGED <<mutations, queue, loop, dropped>>
  BY <1>1 DEF QueueInv, QueueTypeOK, Scheduled, Awaited, queue, loop
<1>2. ASSUME NEW o \in MutationObservers, NEW n \in Nodes, NEW raw \in RawOptions, observe(o, n, raw)
      PROVE  QueueInv'
  <2>1. UNCHANGED <<mutations, queue, loop, dropped>>
    BY <1>2 DEF observe, lightDom
  <2> QED BY <2>1, <1>1
<1>3. ASSUME NEW o \in MutationObservers, NEW n \in Nodes, NEW raw \in RawOptions,
             observeRefused(o, n, raw)
      PROVE  QueueInv'
  BY <1>3, <1>1 DEF observeRefused, lightDom, history
<1>4. ASSUME NEW o \in MutationObservers, disconnect(o) PROVE QueueInv'
  <2>1. /\ records_' = [records_ EXCEPT ![o] = <<>>]
        /\ UNCHANGED <<mutations, scheduled_, globalMutationObservers, isScheduled, loop, dropped>>
    BY <1>4 DEF disconnect, lightDom
  <2> QED BY <2>1 DEF QueueInv, QueueTypeOK, Scheduled, Awaited, loop
<1>5. ASSUME NEW o \in MutationObservers, takeRecords(o) PROVE QueueInv'
  <2>1. /\ records_' = [records_ EXCEPT ![o] = <<>>]
        /\ UNCHANGED <<mutations, scheduled_, globalMutationObservers, isScheduled, loop, dropped>>
    BY <1>5 DEF takeRecords, lightDom
  <2> QED BY <2>1 DEF QueueInv, QueueTypeOK, Scheduled, Awaited, loop
<1>6. ASSUME NEW n \in Nodes, NEW type \in RecordTypes, enqueueMutation(n, type) PROVE QueueInv'
  <2>1. interestedObservers(n, type) \subseteq MutationObservers
    BY DEF interestedObservers
  <2> QED BY <1>6, <2>1, MutationKeeps DEF enqueueMutation
<1>7. ASSUME NEW n \in Nodes, NEW type \in RecordTypes, ChangeNode(n, type) PROVE QueueInv'
  BY <1>6, <1>7 DEF ChangeNode
<1>8. ASSUME NEW n \in Nodes, NEW p \in Nodes, appendLightChild(p, n) PROVE QueueInv'
  BY <1>6, <1>8 DEF appendLightChild, RecordTypes
<1>9. ASSUME NEW n \in Nodes, removeLightChild(n) PROVE QueueInv'
  <2> DEFINE told == interestedObservers(parent[n], "childList")
             following == {o \in MutationObservers :
                 \E r \in ToSet(transientOf(parent[n], n)) : registration[r].observer = o}
  <2>1. told \subseteq MutationObservers
    BY DEF interestedObservers
  <2>2. /\ mutations' = mutations + 1 /\ scheduleCallback(told \cup following) /\ Enqueued(told)
        /\ UNCHANGED <<loop, dropped>>
    BY <1>9 DEF removeLightChild
  <2> QED BY <2>1, <2>2, MutationKeeps
<1>10. CASE StartNotify
  BY <1>10 DEF StartNotify, lightDom, history, QueueInv, QueueTypeOK, Scheduled, Awaited
<1>11. CASE TakeList
  BY <1>11 DEF TakeList, lightDom, history, QueueInv, QueueTypeOK, Scheduled, Awaited
<1>12. CASE NotifyNext
  <2>1. PICK o \in notifyList :
           /\ notifyList' = notifyList \ {o}
           /\ scheduled_' = [scheduled_ EXCEPT ![o] = FALSE]
           /\ records_' = [records_ EXCEPT ![o] = <<>>]
           /\ calling' = IF records_[o] # <<>> THEN o ELSE None
    BY <1>12 DEF NotifyNext
  <2>2. UNCHANGED <<mutations, globalMutationObservers, isScheduled, notifying, dropped>>
    BY <1>12 DEF NotifyNext, lightDom
  <2> QED BY <2>1, <2>2 DEF QueueInv, QueueTypeOK, Scheduled, Awaited
<1>13. CASE CallbackReturns
  BY <1>13 DEF CallbackReturns, lightDom, queue, history, QueueInv, QueueTypeOK, Scheduled, Awaited
<1>14. CASE CallbackThrows
  BY <1>14 DEF CallbackThrows, lightDom, queue, QueueInv, QueueTypeOK, Scheduled, Awaited
<1>15. CASE EndNotify
  BY <1>15 DEF EndNotify, lightDom, queue, history, QueueInv, QueueTypeOK, Scheduled, Awaited
<1>16. CASE UNCHANGED mutationVars
  BY <1>16, <1>1 DEF mutationVars, queue, loop
<1> QED
  BY <1>2, <1>3, <1>4, <1>5, <1>7, <1>8, <1>9, <1>10, <1>11, <1>12, <1>13, <1>14, <1>15, <1>16
     DEF MutationNext

\* For any tree, any registrations, any number of observers and of mutations: an
\* observer that has a record is in a list, and a list has a notifyObservers to
\* come or under way, also when callbacks change the tree in the middle of it
\* (scheduleCallback, notifyObservers).
THEOREM NoRecordStranded == MutationSpec => []NothingStranded
<1>1. QueueInv => NothingStranded
  BY DEF QueueInv, Scheduled, Awaited, NothingStranded
<1> QED BY <1>1, QueueInit, QueueNext, PTL DEF MutationSpec

-----------------------------------------------------------------------------
\* The places of x in s.
Places(x, s) == {i \in 1 .. Len(s) : s[i] = x}

\* It is a number, and 0 of what is not in the sequence.
LEMMA TimesArePlaces ==
  ASSUME NEW A, NEW s \in Seq(A), NEW x
  PROVE  /\ IsFiniteSet(Places(x, s)) /\ TimesIn(x, s) = Cardinality(Places(x, s))
         /\ TimesIn(x, s) \in Nat
         /\ TimesIn(x, s) = 0 <=> x \notin ToSet(s)
<1>1. Len(s) \in Nat /\ DOMAIN s = 1 .. Len(s) OBVIOUS
<1>2. TimesIn(x, s) = Cardinality(Places(x, s)) BY <1>1 DEF TimesIn, Places
<1>3. IsFiniteSet(1 .. Len(s)) BY <1>1, FS_Interval
<1>4. Places(x, s) \subseteq 1 .. Len(s) BY DEF Places
<1>5. IsFiniteSet(Places(x, s)) BY <1>3, <1>4, FS_Subset
<1>6. Cardinality(Places(x, s)) \in Nat BY <1>5, FS_CardinalityType
<1>7. Cardinality(Places(x, s)) = 0 <=> Places(x, s) = {} BY <1>5, FS_EmptySet
<1>8. Places(x, s) = {} <=> x \notin ToSet(s) BY <1>1 DEF Places, ToSet
<1> QED BY <1>2, <1>5, <1>6, <1>7, <1>8

\* What is thinned has nothing more often.
LEMMA ThinnedTimes ==
  ASSUME NEW A, NEW s \in Seq(A), NEW u \in Seq(A), NEW K, Thinned(u, s, K), NEW x
  PROVE  TimesIn(x, u) <= TimesIn(x, s)
<1>1. PICK h \in [1 .. Len(u) -> 1 .. Len(s)] :
        /\ \A i, j \in 1 .. Len(u) : i < j => h[i] < h[j]
        /\ \A i \in 1 .. Len(u) : u[i] = s[h[i]]
  BY DEF Thinned
<1> DEFINE f == [i \in Places(x, u) |-> h[i]]
<1>2. f \in [Places(x, u) -> Places(x, s)] BY <1>1 DEF Places
<1>3. \A i, j \in Places(x, u) : f[i] = f[j] => i = j
  <2> SUFFICES ASSUME NEW i \in Places(x, u), NEW j \in Places(x, u), f[i] = f[j], i # j PROVE FALSE OBVIOUS
  <2>1. i \in 1 .. Len(u) /\ j \in 1 .. Len(u) /\ h[i] = h[j] BY DEF Places
  <2>2. i < j \/ j < i BY <2>1
  <2>3. h[i] \in Int BY <1>1, <2>1
  <2> QED BY <1>1, <2>1, <2>2, <2>3
<1> HIDE DEF f
<1>4. f \in Injection(Places(x, u), Places(x, s)) BY <1>2, <1>3 DEF Injection, IsInjective
<1>5. IsFiniteSet(Places(x, s)) /\ TimesIn(x, s) = Cardinality(Places(x, s))
      /\ TimesIn(x, u) = Cardinality(Places(x, u))
  BY TimesArePlaces
<1>6. Cardinality(Places(x, u)) <= Cardinality(Places(x, s)) BY <1>4, <1>5, FS_Injection
<1> QED BY <1>5, <1>6

\* How often x is in one sequence after another, ...
LEMMA TimesInBoth ==
  ASSUME NEW A, NEW s \in Seq(A), NEW u \in Seq(A), NEW x
  PROVE  TimesIn(x, s \o u) = TimesIn(x, s) + TimesIn(x, u)
<1> DEFINE m == Len(s)
           n == Len(u)
           v == s \o u
           B == {i + m : i \in Places(x, u)}
           f == [i \in Places(x, u) |-> i + m]
<1>1. m \in Nat /\ n \in Nat /\ s \in Seq(A) /\ u \in Seq(A) OBVIOUS
<1>2. v \in Seq(A) /\ Len(v) = m + n
      /\ \A i \in 1 .. m + n : v[i] = IF i <= m THEN s[i] ELSE u[i - m]
  BY ONLY <1>1, SMTT(30)
<1> HIDE DEF v, m, n
<1>3. Places(x, v) = Places(x, s) \cup B
  <2>1. ASSUME NEW i \in Places(x, v) PROVE i \in Places(x, s) \cup B
    <3>1. i \in 1 .. m + n /\ v[i] = x BY <1>2, <2>1 DEF Places
    <3>2. CASE i <= m
      <4>1. i \in 1 .. m /\ s[i] = x BY <1>1, <1>2, <3>1, <3>2
      <4> QED BY <4>1 DEF Places, m
    <3>3. CASE i > m
      <4>1. i - m \in 1 .. n /\ u[i - m] = x /\ i = i - m + m BY <1>1, <1>2, <3>1, <3>3
      <4>2. i - m \in Places(x, u) BY <4>1 DEF Places, n
      <4> QED BY <4>1, <4>2
    <3> QED BY <1>1, <3>1, <3>2, <3>3
  <2>2. ASSUME NEW i \in Places(x, s) PROVE i \in Places(x, v)
    <3>1. i \in 1 .. m /\ s[i] = x BY DEF Places, m
    <3>2. i \in 1 .. m + n /\ v[i] = x BY <1>1, <1>2, <3>1
    <3> QED BY <1>2, <3>2 DEF Places
  <2>3. ASSUME NEW i \in Places(x, u) PROVE i + m \in Places(x, v)
    <3>1. i \in 1 .. n /\ u[i] = x BY DEF Places, n
    <3>2. i + m \in 1 .. m + n /\ ~ (i + m <= m) /\ i + m - m = i BY <1>1, <3>1
    <3>3. PICK j \in 1 .. m + n : j = i + m BY <3>2
    <3>a. ~ (j <= m) /\ j - m = i BY ONLY <1>1, <3>1, <3>2, <3>3
    <3>b. v[j] = u[j - m] BY ONLY <1>2, <3>a
    <3>4. v[i + m] = x BY ONLY <3>1, <3>3, <3>a, <3>b
    <3> QED BY <1>2, <3>2, <3>4 DEF Places
  <2>4. B \subseteq Places(x, v) BY <2>3
  <2> HIDE DEF B
  <2> QED BY <2>1, <2>2, <2>4
<1>4. Places(x, s) \cap B = {}
  <2> SUFFICES ASSUME NEW i \in Places(x, u), i + m \in Places(x, s) PROVE FALSE OBVIOUS
  <2>1. i \in 1 .. n /\ i + m \in 1 .. m BY DEF Places, m, n
  <2> QED BY <1>1, <2>1
<1>5. f \in Bijection(Places(x, u), B)
  <2>1. \A i \in Places(x, u) : i \in Int BY <1>1 DEF Places, n
  <2>2. f \in [Places(x, u) -> B] /\ \A i \in Places(x, u) : f[i] = i + m OBVIOUS
  <2>3. \A b \in B : \E i \in Places(x, u) : i + m = b OBVIOUS
  <2> HIDE DEF f, B
  <2>4. \A i, j \in Places(x, u) : f[i] = f[j] => i = j BY <1>1, <2>1, <2>2
  <2> QED BY <2>2, <2>3, <2>4 DEF Bijection, Injection, Surjection, IsInjective
<1>6. /\ IsFiniteSet(Places(x, s)) /\ IsFiniteSet(Places(x, u))
      /\ TimesIn(x, s) = Cardinality(Places(x, s)) /\ TimesIn(x, s) \in Nat
      /\ TimesIn(x, u) = Cardinality(Places(x, u)) /\ TimesIn(x, u) \in Nat
      /\ TimesIn(x, v) = Cardinality(Places(x, v))
  BY <1>2, TimesArePlaces
<1> HIDE DEF f, B
<1>7. IsFiniteSet(B) /\ Cardinality(B) = Cardinality(Places(x, u))
  <2>1. ExistsBijection(Places(x, u), B) BY <1>5 DEF ExistsBijection
  <2> QED BY ONLY <1>6, <2>1, FS_Bijection
<1>8. Cardinality(Places(x, s) \cup B) = Cardinality(Places(x, s)) + Cardinality(B) - Cardinality(Places(x, s) \cap B)
  BY ONLY <1>6, <1>7, FS_Union
<1>9. Cardinality(Places(x, s) \cap B) = 0 BY <1>4, FS_EmptySet
<1> QED BY <1>3, <1>6, <1>7, <1>8, <1>9 DEF v

\* ... in a sequence of one, ...
LEMMA TimesInOne ==
  ASSUME NEW x, NEW y
  PROVE  TimesIn(x, <<y>>) = IF x = y THEN 1 ELSE 0
<1>1. TimesIn(x, <<y>>) = Cardinality({i \in {1} : y = x})
  <2>1. DOMAIN <<y>> = {1} /\ <<y>>[1] = y OBVIOUS
  <2>2. {i \in DOMAIN <<y>> : <<y>>[i] = x} = {i \in {1} : y = x} BY <2>1
  <2> QED BY <2>2 DEF TimesIn
<1>2. CASE x = y
  <2>1. {i \in {1} : y = x} = {1} BY <1>2
  <2> QED BY <1>1, <1>2, <2>1, FS_Singleton
<1>3. CASE x # y
  <2>1. {i \in {1} : y = x} = {} BY <1>3
  <2> QED BY <1>1, <1>3, <2>1, FS_EmptySet
<1> QED BY <1>2, <1>3

\* ... in one that has got one more, ...
LEMMA TimesInAppended ==
  ASSUME NEW A, NEW s \in Seq(A), NEW x, NEW y \in A
  PROVE  TimesIn(x, Append(s, y)) = TimesIn(x, s) + IF x = y THEN 1 ELSE 0
<1>1. Append(s, y) = s \o <<y>> /\ <<y>> \in Seq(A) OBVIOUS
<1>2. TimesIn(x, s \o <<y>>) = TimesIn(x, s) + TimesIn(x, <<y>>) BY ONLY <1>1, s \in Seq(A), TimesInBoth
<1> QED BY <1>1, <1>2, TimesInOne

\* ... in n copies of x, ...
LEMMA TimesInCopies ==
  ASSUME NEW c \in Nat, NEW x
  PROVE  TimesIn(x, [k \in 1 .. c |-> x]) = c
<1>1. {i \in DOMAIN [k \in 1 .. c |-> x] : [k \in 1 .. c |-> x][i] = x} = 1 .. c OBVIOUS
<1>2. Cardinality(1 .. c) = c
  <2>1. Cardinality(1 .. c) = IF 1 > c THEN 0 ELSE c - 1 + 1 BY FS_Interval
  <2> QED BY <2>1
<1> QED BY <1>1, <1>2 DEF TimesIn

\* ... and in one that x was taken out of.
LEMMA TimesInWithout ==
  ASSUME NEW A, NEW s \in Seq(A), NEW i \in 1 .. Len(s), NEW x
  PROVE  TimesIn(x, s) = TimesIn(x, RemoveAt(s, i)) + IF x = s[i] THEN 1 ELSE 0
<1> DEFINE front == SubSeq(s, 1, i - 1)
           back  == SubSeq(s, i + 1, Len(s))
<1>1. front \in Seq(A) /\ back \in Seq(A) /\ <<s[i]>> \in Seq(A) OBVIOUS
<1>2. s = (front \o <<s[i]>>) \o back
  <2> DEFINE u == front \o <<s[i]>>
             n == Len(s)
             m == n - i
  <2>1. n \in Nat /\ i \in 1 .. n /\ m \in Nat /\ i + m = n OBVIOUS
  <2>2. /\ Len(front) = i - 1 /\ \A k \in 1 .. i - 1 : front[k] = s[k]
        /\ Len(back) = m /\ \A k \in 1 .. m : back[k] = s[k + i]
    OBVIOUS
  <2> HIDE DEF front, back
  <2>3. u \in Seq(A) /\ Len(u) = i /\ \A k \in 1 .. i : u[k] = s[k]
    <3>1. u = Append(front, s[i]) /\ s[i] \in A BY <1>1
    <3>2. u \in Seq(A) /\ Len(u) = i - 1 + 1
          /\ \A k \in 1 .. i - 1 + 1 : u[k] = IF k = i - 1 + 1 THEN s[i] ELSE front[k]
      BY ONLY <1>1, <2>2, <3>1, AppendProperties
    <3>3. i - 1 + 1 = i /\ \A k \in 1 .. i : k = i \/ k \in 1 .. i - 1 BY ONLY <2>1
    <3> HIDE DEF u
    <3> QED BY ONLY <2>2, <3>2, <3>3
  <2> HIDE DEF u, m
  <2>4. u \o back \in Seq(A) /\ Len(u \o back) = i + m
        /\ \A k \in 1 .. i + m : (u \o back)[k] = IF k <= i THEN u[k] ELSE back[k - i]
    <3>1. i \in Nat BY <2>1
    <3> QED BY ONLY <1>1, <2>1, <2>2, <2>3, <3>1, SMTT(30)
  <2> DEFINE v == u \o back
  <2> HIDE DEF v
  <2>5. v \in Seq(A) /\ Len(v) = n /\ \A k \in 1 .. n : v[k] = IF k <= i THEN u[k] ELSE back[k - i]
    BY <2>1, <2>4 DEF v
  <2>6. \A k \in 1 .. n : v[k] = s[k]
    <3> TAKE k \in 1 .. n
    <3>1. CASE k <= i BY <2>1, <2>3, <2>5, <3>1
    <3>2. CASE ~ (k <= i)
      <4>1. k - i \in 1 .. m /\ k - i + i = k BY <2>1, <3>2 DEF m
      <4>2. back[k - i] = s[k] BY <2>2, <4>1
      <4> QED BY <2>5, <3>2, <4>2
    <3> QED BY <3>1, <3>2
  <2>7. v = s BY <2>5, <2>6
  <2> QED BY <2>7 DEF v, u
<1>3. RemoveAt(s, i) = front \o back BY DEF RemoveAt
<1> HIDE DEF front, back
<1>4. front \o <<s[i]>> \in Seq(A) BY <1>1
<1>5. TimesIn(x, s) = TimesIn(x, front \o <<s[i]>>) + TimesIn(x, back) BY ONLY <1>1, <1>2, <1>4, TimesInBoth
<1>6. TimesIn(x, front \o <<s[i]>>) = TimesIn(x, front) + TimesIn(x, <<s[i]>>) BY ONLY <1>1, TimesInBoth
<1>7. TimesIn(x, RemoveAt(s, i)) = TimesIn(x, front) + TimesIn(x, back) BY ONLY <1>1, <1>3, TimesInBoth
<1>8. TimesIn(x, front) \in Nat /\ TimesIn(x, back) \in Nat BY ONLY <1>1, TimesArePlaces
<1>9. TimesIn(x, <<s[i]>>) = IF x = s[i] THEN 1 ELSE 0 BY TimesInOne
<1> QED BY ONLY <1>5, <1>6, <1>7, <1>8, <1>9

(***************************************************************************)
(* The way up the tree, and the registrations that follow a removed node.  *)
(***************************************************************************)
Tree == [Nodes -> Nodes \cup {None}]

\* The way up begins with the node, and is among the nodes of the tree.
LEMMA PathUpProperties ==
  ASSUME parent \in Tree, NEW n \in Nodes
  PROVE  PathUp(n) \in Seq(Nodes) /\ n \in ToSet(PathUp(n))
<1> DEFINE c == Cardinality(Nodes)
           P == {s \in Seq(Nodes) : Len(s) >= 1 /\ s[1] = n}
           up(s) == LET p == parent[Last(s)] IN IF p = None THEN s ELSE Append(s, p)
           T == [k \in 0 .. c |-> P]
           F == [x \in (1 .. c) \X P |-> up(x[2])]
           Way(f) == f = [k \in 0 .. c |-> IF k = 0 THEN <<n>> ELSE up(f[k - 1])]
           path == CHOOSE f : Way(f)
<1>1. c \in Nat BY MutationAssumption, FS_CardinalityType
<1>2. <<n>> \in P OBVIOUS
<1>3. \A s \in P : up(s) \in P
  <2> SUFFICES ASSUME NEW s \in P PROVE up(s) \in P OBVIOUS
  <2>1. s \in Seq(Nodes) /\ Len(s) \in Nat /\ Len(s) >= 1 /\ s[1] = n OBVIOUS
  <2>2. Last(s) \in Nodes BY <2>1 DEF Last
  <2>3. CASE parent[Last(s)] = None BY <2>3
  <2>4. CASE parent[Last(s)] # None
    <3>1. PICK p \in Nodes : parent[Last(s)] = p BY <2>2, <2>4 DEF Tree
    <3>2. Append(s, p) \in Seq(Nodes) /\ Len(Append(s, p)) >= 1 /\ Append(s, p)[1] = n BY <2>1
    <3> QED BY <2>4, <3>1, <3>2
  <2> QED BY <2>3, <2>4
<1> HIDE DEF c, P, up
<1>4. \A k \in 0 .. c : T[k] = P OBVIOUS
<1>5. \A k \in 1 .. c : \A s \in P : F[<<k, s>>] = up(s) OBVIOUS
<1> HIDE DEF T, F
<1>6. 0 \in 0 .. c /\ \A k \in 1 .. c : k \in 0 .. c /\ k - 1 \in 0 .. c /\ k # 0 BY <1>1
<1>7. <<n>> \in T[0] /\ \A k \in 1 .. c : \A s \in T[k - 1] : F[<<k, s>>] \in T[k]
  BY <1>2, <1>3, <1>4, <1>5, <1>6
<1>8. PICK f : IsFold(f, c, <<n>>, F) /\ \A k \in 0 .. c : f[k] \in T[k]
  BY ONLY <1>1, <1>7, FoldExists
<1>9. Way(f)
  <2>1. \A k \in 0 .. c : (IF k = 0 THEN <<n>> ELSE F[<<k, f[k - 1]>>]) = IF k = 0 THEN <<n>> ELSE up(f[k - 1])
    <3> SUFFICES ASSUME NEW k \in 0 .. c, k # 0 PROVE F[<<k, f[k - 1]>>] = up(f[k - 1]) OBVIOUS
    <3>1. k \in 1 .. c BY <1>1
    <3>2. f[k - 1] \in P BY <1>4, <1>6, <1>8, <3>1
    <3> QED BY <1>5, <3>1, <3>2
  <2> QED BY ONLY <1>8, <2>1 DEF IsFold
<1>10. Way(path) BY <1>9
<1>11. path[c] = PathUp(n) BY DEF PathUp, c, up
<1> HIDE DEF path
<1>12. path[0] = <<n>> /\ \A k \in 1 .. c : path[k] = up(path[k - 1])
  <2>1. \A k \in 0 .. c : path[k] = IF k = 0 THEN <<n>> ELSE up(path[k - 1]) BY ONLY <1>10
  <2> QED BY ONLY <1>6, <2>1
<1>13. path[0] \in T[0] /\ \A k \in 1 .. c : path[k - 1] \in T[k - 1] => path[k] \in T[k]
  BY <1>2, <1>3, <1>4, <1>6, <1>12
<1>14. \A k \in 0 .. c : path[k] \in T[k] BY ONLY <1>1, <1>13, FoldStays
<1>15. PathUp(n) \in P BY <1>1, <1>4, <1>11, <1>14
<1>16. \A s \in P : s \in Seq(Nodes) /\ n \in ToSet(s)
  <2> SUFFICES ASSUME NEW s \in P PROVE s \in Seq(Nodes) /\ n \in ToSet(s) OBVIOUS
  <2>1. s \in Seq(Nodes) /\ Len(s) \in Nat /\ Len(s) >= 1 /\ s[1] = n BY DEF P
  <2>2. 1 \in DOMAIN s BY <2>1
  <2> QED BY <2>1, <2>2 DEF ToSet
<1> QED BY <1>15, <1>16

Registration == [observer : MutationObservers, target : Nodes,
                 options : [subtree : BOOLEAN, types : SUBSET RecordTypes],
                 transientObservedNodes : Seq(Nodes)]

\* Registrations, none of which follows its own target.
RegistrationsOK(reg) ==
    /\ reg \in Seq(Registration)
    /\ \A r \in DOMAIN reg : reg[r].target \notin ToSet(reg[r].transientObservedNodes)

Tables(reg) == [Nodes -> Seq(DOMAIN reg)]

\* registerTransientObservers takes the subtree registrations on the way up that
\* have another target than the node.
LEMMA TransientOfProperties ==
  ASSUME parent \in Tree, RegistrationsOK(registration), registrations \in Tables(registration),
         NEW a \in Nodes, NEW n \in Nodes
  PROVE  /\ transientOf(a, n) \in Seq(DOMAIN registration)
         /\ ToSet(transientOf(a, n)) =
               {r \in DOMAIN registration :
                   /\ registration[r].options.subtree /\ registration[r].target # n
                   /\ \E m \in ToSet(PathUp(a)) : r \in ToSet(registrations[m])}
<1> DEFINE R == DOMAIN registration
           path == PathUp(a)
           c == Len(path)
           adding == {r \in R : registration[r].options.subtree /\ registration[r].target # n}
           Here(k) == Filtered(registrations[path[k]], adding)
           Up(k) == {r \in adding : \E j \in 1 .. k : r \in ToSet(registrations[path[j]])}
           T == [k \in 0 .. c |-> {s \in Seq(R) : ToSet(s) = Up(k)}]
           F == [x \in (1 .. c) \X Seq(R) |-> x[2] \o Here(x[1])]
           Adds(f) == f = [k \in 0 .. c |-> IF k = 0 THEN <<>> ELSE f[k - 1] \o Here(k)]
           added == CHOOSE f : Adds(f)
<1>1. path \in Seq(Nodes) /\ c \in Nat /\ DOMAIN path = 1 .. c BY PathUpProperties
<1>2. added[c] = transientOf(a, n) BY DEF transientOf
<1>3. \A k \in 1 .. c : registrations[path[k]] \in Seq(R) BY <1>1 DEF Tables
<1> HIDE DEF path, c
<1>4. \A k \in 1 .. c : Here(k) \in Seq(R) /\ ToSet(Here(k)) = ToSet(registrations[path[k]]) \cap adding
  <2> SUFFICES ASSUME NEW k \in 1 .. c
               PROVE  Here(k) \in Seq(R) /\ ToSet(Here(k)) = ToSet(registrations[path[k]]) \cap adding
    OBVIOUS
  <2>1. registrations[path[k]] \in Seq(R) BY <1>3
  <2> QED BY ONLY <2>1, FilteredElements
<1> HIDE DEF Here, R, adding
<1>5. Up(0) = {} /\ \A k \in 1 .. c : Up(k) = Up(k - 1) \cup (ToSet(registrations[path[k]]) \cap adding)
  <2>1. Up(0) = {} OBVIOUS
  <2>2. ASSUME NEW k \in 1 .. c PROVE Up(k) = Up(k - 1) \cup (ToSet(registrations[path[k]]) \cap adding)
    <3>1. \A j : j \in 1 .. k <=> j \in 1 .. k - 1 \/ j = k BY <1>1
    <3> QED BY <3>1
  <2> QED BY <2>1, <2>2
<1>6. \A s \in Seq(R) : \A k \in 1 .. c : ToSet(s) = Up(k - 1) => s \o Here(k) \in Seq(R) /\ ToSet(s \o Here(k)) = Up(k)
  <2> SUFFICES ASSUME NEW s \in Seq(R), NEW k \in 1 .. c, ToSet(s) = Up(k - 1)
               PROVE  s \o Here(k) \in Seq(R) /\ ToSet(s \o Here(k)) = Up(k)
    OBVIOUS
  <2>1. Here(k) \in Seq(R) BY <1>4
  <2>2. s \o Here(k) \in Seq(R) /\ ToSet(s \o Here(k)) = ToSet(s) \cup ToSet(Here(k))
    BY ONLY <2>1, s \in Seq(R), ElementsOfBoth
  <2> QED BY <1>4, <1>5, <2>2
<1> HIDE DEF Up
<1>7. \A k \in 0 .. c : \A s : s \in T[k] <=> s \in Seq(R) /\ ToSet(s) = Up(k) OBVIOUS
<1>8. \A k \in 1 .. c : \A s \in Seq(R) : F[<<k, s>>] = s \o Here(k) OBVIOUS
<1> HIDE DEF T, F
<1>9. 0 \in 0 .. c /\ \A k \in 1 .. c : k \in 0 .. c /\ k - 1 \in 0 .. c /\ k # 0 BY <1>1
<1>10. <<>> \in T[0] /\ \A k \in 1 .. c : \A s \in T[k - 1] : F[<<k, s>>] \in T[k]
  <2>1. <<>> \in T[0]
    <3>1. <<>> \in Seq(R) /\ ToSet(<<>>) = {} BY DEF ToSet
    <3> QED BY <1>5, <1>7, <1>9, <3>1
  <2>2. ASSUME NEW k \in 1 .. c, NEW s \in T[k - 1] PROVE F[<<k, s>>] \in T[k]
    <3>1. s \in Seq(R) /\ ToSet(s) = Up(k - 1) BY <1>7, <1>9
    <3>2. s \o Here(k) \in Seq(R) /\ ToSet(s \o Here(k)) = Up(k) BY ONLY <1>6, <3>1, k \in 1 .. c
    <3>3. F[<<k, s>>] = s \o Here(k) BY ONLY <1>8, <3>1, k \in 1 .. c
    <3> QED BY ONLY <1>7, <1>9, <3>2, <3>3, k \in 1 .. c
  <2> QED BY <2>1, <2>2
<1>11. PICK f : IsFold(f, c, <<>>, F) /\ \A k \in 0 .. c : f[k] \in T[k]
  BY ONLY <1>1, <1>10, FoldExists
<1>12. Adds(f)
  <2>1. \A k \in 0 .. c : (IF k = 0 THEN <<>> ELSE F[<<k, f[k - 1]>>]) = IF k = 0 THEN <<>> ELSE f[k - 1] \o Here(k)
    <3> SUFFICES ASSUME NEW k \in 0 .. c, k # 0 PROVE F[<<k, f[k - 1]>>] = f[k - 1] \o Here(k) OBVIOUS
    <3>1. k \in 1 .. c BY <1>1
    <3>2. f[k - 1] \in Seq(R) BY <1>7, <1>9, <1>11, <3>1
    <3> QED BY <1>8, <3>1, <3>2
  <2> QED BY ONLY <1>11, <2>1 DEF IsFold
<1>13. Adds(added) BY <1>12
<1> HIDE DEF added
<1>14. added[0] = <<>> /\ \A k \in 1 .. c : added[k] = added[k - 1] \o Here(k)
  <2>1. \A k \in 0 .. c : added[k] = IF k = 0 THEN <<>> ELSE added[k - 1] \o Here(k) BY ONLY <1>13
  <2> QED BY ONLY <1>9, <2>1
<1>15. added[0] \in T[0] /\ \A k \in 1 .. c : added[k - 1] \in T[k - 1] => added[k] \in T[k]
  <2>1. ASSUME NEW k \in 1 .. c, added[k - 1] \in T[k - 1] PROVE added[k] \in T[k]
    <3>1. added[k - 1] \in Seq(R) /\ ToSet(added[k - 1]) = Up(k - 1) BY <1>7, <1>9, <2>1
    <3> QED BY <1>6, <1>7, <1>9, <1>14, <3>1
  <2> QED BY <1>10, <1>14, <2>1
<1>16. \A k \in 0 .. c : added[k] \in T[k] BY ONLY <1>1, <1>15, FoldStays
<1>17. transientOf(a, n) \in Seq(R) /\ ToSet(transientOf(a, n)) = Up(c)
  <2>1. c \in 0 .. c BY <1>1
  <2> QED BY <1>2, <1>7, <1>16, <2>1
<1>18. Up(c) = {r \in adding : \E m \in ToSet(path) : r \in ToSet(registrations[m])}
  <2>1. \A r : (\E j \in 1 .. c : r \in ToSet(registrations[path[j]])) <=> \E m \in ToSet(path) : r \in ToSet(registrations[m])
    BY <1>1 DEF ToSet
  <2> QED BY <2>1 DEF Up
<1> QED BY <1>17, <1>18 DEF R, adding, path

(***************************************************************************)
(* What removals leave of the tables.                                      *)
(***************************************************************************)
\* u is t, but for one of rs that is taken off n if there is one.
OneOff(u, t, rs, n) ==
    /\ \A m \in Nodes \ {n} : u[m] = t[m]
    /\ \/ ToSet(t[n]) \cap rs = {} /\ u = t
       \/ \E i \in 1 .. Len(t[n]) : t[n][i] \in rs /\ u[n] = RemoveAt(t[n], i)

\* Removed takes one registration at most, off one node.
LEMMA RemovedProperties ==
  ASSUME NEW A, NEW t \in [Nodes -> Seq(A)], NEW rs, NEW n \in Nodes
  PROVE  Removed(t, rs, n) \in [Nodes -> Seq(A)] /\ OneOff(Removed(t, rs, n), t, rs, n)
<1> DEFINE I == {i \in 1 .. Len(t[n]) : t[n][i] \in rs}
           first == SelectInSeq(t[n], LAMBDA q : q \in rs)
<1>0. t[n] \in Seq(A) /\ Len(t[n]) \in Nat /\ DOMAIN t[n] = 1 .. Len(t[n]) OBVIOUS
<1>1. first = IF I # {} THEN Min(I) ELSE 0 BY DEF SelectInSeq
<1>2. Removed(t, rs, n) = IF first = 0 THEN t ELSE [t EXCEPT ![n] = RemoveAt(t[n], first)]
  BY DEF Removed
<1> HIDE DEF first
<1>3. CASE I = {}
  <2>1. ToSet(t[n]) \cap rs = {} BY <1>0, <1>3 DEF ToSet
  <2> QED BY <1>1, <1>2, <1>3, <2>1 DEF OneOff
<1>4. CASE I # {}
  <2>1. I \subseteq Nat OBVIOUS
  <2>2. Min(I) \in I
    <3> HIDE DEF I
    <3> QED BY <1>4, <2>1, MinIsLeast
  <2>3. first \in 1 .. Len(t[n]) /\ t[n][first] \in rs /\ first # 0 BY <1>1, <1>4, <2>2
  <2>4. RemoveAt(t[n], first) \in Seq(A) BY <1>0, <2>3, RemoveAtProperties
  <2> QED BY <1>2, <2>3, <2>4 DEF OneOff
<1> QED BY <1>3, <1>4

\* What holds of a table after each removal, when it held before it, holds of the
\* table that RemovedOn leaves.
LEMMA RemovedOnStays ==
  ASSUME NEW t, NEW rs, NEW nodes \in Seq(Nodes), NEW T, t \in T[0],
         \A k \in 1 .. Len(nodes) : \A x \in T[k - 1] : Removed(x, rs, nodes[k]) \in T[k]
  PROVE  RemovedOn(t, rs, nodes) \in T[Len(nodes)]
<1> DEFINE c == Len(nodes)
           U == UNION {T[k] : k \in 0 .. c}
           F == [x \in (1 .. c) \X U |-> Removed(x[2], rs, nodes[x[1]])]
           Leaves(f) == f = [k \in 0 .. c |-> IF k = 0 THEN t ELSE Removed(f[k - 1], rs, nodes[k])]
           left == CHOOSE f : Leaves(f)
<1>1. c \in Nat OBVIOUS
<1>2. left[c] = RemovedOn(t, rs, nodes) BY DEF RemovedOn
<1>3. \A k \in 1 .. c : \A x \in T[k - 1] : Removed(x, rs, nodes[k]) \in T[k] OBVIOUS
<1>4. t \in T[0] OBVIOUS
<1> HIDE DEF c
<1>5. 0 \in 0 .. c /\ \A k \in 1 .. c : k \in 0 .. c /\ k - 1 \in 0 .. c /\ k # 0 BY <1>1
<1>6. \A k \in 1 .. c : \A x \in T[k - 1] : F[<<k, x>>] = Removed(x, rs, nodes[k])
  <2> SUFFICES ASSUME NEW k \in 1 .. c, NEW x \in T[k - 1] PROVE F[<<k, x>>] = Removed(x, rs, nodes[k])
    OBVIOUS
  <2>1. x \in U BY <1>5
  <2> QED BY <2>1
<1> HIDE DEF F
<1>7. t \in T[0] /\ \A k \in 1 .. c : \A x \in T[k - 1] : F[<<k, x>>] \in T[k] BY <1>3, <1>4, <1>6
<1>8. PICK f : IsFold(f, c, t, F) /\ \A k \in 0 .. c : f[k] \in T[k] BY ONLY <1>1, <1>7, FoldExists
<1>9. Leaves(f)
  <2>1. \A k \in 0 .. c : (IF k = 0 THEN t ELSE F[<<k, f[k - 1]>>]) = IF k = 0 THEN t ELSE Removed(f[k - 1], rs, nodes[k])
    <3> SUFFICES ASSUME NEW k \in 0 .. c, k # 0 PROVE F[<<k, f[k - 1]>>] = Removed(f[k - 1], rs, nodes[k]) OBVIOUS
    <3>1. k \in 1 .. c BY <1>1
    <3>2. f[k - 1] \in T[k - 1] BY <1>5, <1>8, <3>1
    <3> QED BY <1>6, <3>1, <3>2
  <2> QED BY ONLY <1>8, <2>1 DEF IsFold
<1>10. Leaves(left) BY <1>9
<1> HIDE DEF left
<1>11. left[0] = t /\ \A k \in 1 .. c : left[k] = Removed(left[k - 1], rs, nodes[k])
  <2>1. \A k \in 0 .. c : left[k] = IF k = 0 THEN t ELSE Removed(left[k - 1], rs, nodes[k]) BY ONLY <1>10
  <2> QED BY ONLY <1>5, <2>1
<1>12. left[0] \in T[0] /\ \A k \in 1 .. c : left[k - 1] \in T[k - 1] => left[k] \in T[k]
  BY <1>3, <1>4, <1>11
<1>13. \A k \in 0 .. c : left[k] \in T[k] BY ONLY <1>1, <1>12, FoldStays
<1>14. c \in 0 .. c BY <1>1
<1> QED BY <1>2, <1>13, <1>14 DEF c

\* A registration taken off the nodes one after the other: only it goes, and only
\* there, and it is gone from where it was no more often than the node is named.
Withdrawn(u, t, r, nodes, A) ==
    \A n \in Nodes :
        /\ Thinned(u[n], t[n], A \ {r})
        /\ n \notin ToSet(nodes) => u[n] = t[n]
        /\ TimesIn(r, t[n]) <= TimesIn(n, nodes) => TimesIn(r, u[n]) = 0

\* That is what RemovedOn does with a single registration.
LEMMA WithdrawnProperties ==
  ASSUME NEW A, NEW t \in [Nodes -> Seq(A)], NEW r, NEW nodes \in Seq(Nodes)
  PROVE  /\ RemovedOn(t, {r}, nodes) \in [Nodes -> Seq(A)]
         /\ Withdrawn(RemovedOn(t, {r}, nodes), t, r, nodes, A)
<1> DEFINE c == Len(nodes)
           Named(k) == SubSeq(nodes, 1, k)
           Fewer(x, n, k) == TimesIn(r, x[n]) = 0 \/ TimesIn(r, x[n]) + TimesIn(n, Named(k)) <= TimesIn(r, t[n])
           Left(x, k) == \A n \in Nodes : /\ Thinned(x[n], t[n], A \ {r})
                                          /\ n \notin ToSet(nodes) => x[n] = t[n]
                                          /\ Fewer(x, n, k)
           T == [k \in 0 .. c |-> {x \in [Nodes -> Seq(A)] : Left(x, k)}]
<1>1. c \in Nat /\ Named(0) = <<>> /\ Named(c) = nodes /\ DOMAIN nodes = 1 .. c OBVIOUS
<1>2. \A k \in 1 .. c : Named(k - 1) \in Seq(Nodes) /\ nodes[k] \in Nodes /\ Named(k) = Append(Named(k - 1), nodes[k])
  BY FrontGrows
<1>3. \A k \in 1 .. c : \A n \in Nodes : /\ TimesIn(n, Named(k)) = TimesIn(n, Named(k - 1)) + IF n = nodes[k] THEN 1 ELSE 0
                                         /\ TimesIn(n, Named(k - 1)) \in Nat
  <2> SUFFICES ASSUME NEW k \in 1 .. c, NEW n \in Nodes
               PROVE  /\ TimesIn(n, Named(k)) = TimesIn(n, Named(k - 1)) + IF n = nodes[k] THEN 1 ELSE 0
                      /\ TimesIn(n, Named(k - 1)) \in Nat
    OBVIOUS
  <2>1. Named(k - 1) \in Seq(Nodes) /\ nodes[k] \in Nodes /\ Named(k) = Append(Named(k - 1), nodes[k]) BY <1>2
  <2> HIDE DEF Named
  <2>2. TimesIn(n, Append(Named(k - 1), nodes[k])) = TimesIn(n, Named(k - 1)) + IF n = nodes[k] THEN 1 ELSE 0
    BY ONLY <2>1, TimesInAppended
  <2>3. TimesIn(n, Named(k - 1)) \in Nat BY ONLY <2>1, TimesArePlaces
  <2> QED BY ONLY <2>1, <2>2, <2>3
<1>4. \A x \in [Nodes -> Seq(A)] : \A n \in Nodes : x[n] \in Seq(A) /\ TimesIn(r, x[n]) \in Nat
  BY TimesArePlaces
<1>5. \A k \in 0 .. c : \A x : x \in T[k] <=> x \in [Nodes -> Seq(A)] /\ Left(x, k) OBVIOUS
<1>6. t \in [Nodes -> Seq(A)] /\ nodes \in Seq(Nodes) OBVIOUS
<1> HIDE DEF c, Named, T
<1>7. t \in T[0]
  <2>1. \A n \in Nodes : Thinned(t[n], t[n], A \ {r}) BY <1>4, <1>6, ThinnedSame
  <2>2. \A n \in Nodes : TimesIn(n, Named(0)) = 0
    <3>1. \A n : TimesIn(n, <<>>) = 0
      <4>1. <<>> \in Seq({}) /\ ToSet(<<>>) = {} BY DEF ToSet
      <4> QED BY ONLY <4>1, TimesArePlaces
    <3> QED BY <1>1, <3>1
  <2>3. \A n \in Nodes : Fewer(t, n, 0)
    <3> SUFFICES ASSUME NEW n \in Nodes PROVE TimesIn(r, t[n]) + TimesIn(n, Named(0)) <= TimesIn(r, t[n]) OBVIOUS
    <3>1. TimesIn(r, t[n]) \in Nat BY <1>4, <1>6
    <3>2. TimesIn(n, Named(0)) = 0 BY <2>2
    <3> QED BY ONLY <3>1, <3>2
  <2>4. Left(t, 0) BY <2>1, <2>3
  <2>5. 0 \in 0 .. c BY <1>1
  <2> QED BY ONLY <1>5, <1>6, <2>4, <2>5
<1>8. ASSUME NEW k \in 1 .. c, NEW x \in T[k - 1] PROVE Removed(x, {r}, nodes[k]) \in T[k]
  <2> DEFINE m == nodes[k]
             y == Removed(x, {r}, m)
  <2>1. k \in 0 .. c /\ k - 1 \in 0 .. c BY <1>1
  <2>2. x \in [Nodes -> Seq(A)] /\ Left(x, k - 1) BY <1>5, <2>1
  <2>3. m \in Nodes /\ m \in ToSet(nodes) BY <1>1, <1>2 DEF ToSet
  <2> HIDE DEF m
  <2>4. /\ y \in [Nodes -> Seq(A)]
        /\ \A n \in Nodes \ {m} : y[n] = x[n]
        /\ \/ ToSet(x[m]) \cap {r} = {} /\ y = x
           \/ \E i \in 1 .. Len(x[m]) : x[m][i] \in {r} /\ y[m] = RemoveAt(x[m], i)
    <3>1. x \in [Nodes -> Seq(A)] BY <2>2
    <3>2. Removed(x, {r}, m) \in [Nodes -> Seq(A)] /\ OneOff(Removed(x, {r}, m), x, {r}, m)
      BY ONLY <2>3, <3>1, RemovedProperties
    <3> QED BY ONLY <3>2 DEF OneOff
  <2> HIDE DEF y, Left
  <2>5. ASSUME NEW n \in Nodes, n # m
        PROVE  Thinned(y[n], t[n], A \ {r}) /\ (n \notin ToSet(nodes) => y[n] = t[n]) /\ Fewer(y, n, k)
    <3>1. y[n] = x[n] BY <2>4, <2>5
    <3>2. TimesIn(n, Named(k)) = TimesIn(n, Named(k - 1))
      <4>1. TimesIn(n, Named(k)) = TimesIn(n, Named(k - 1)) + 0 /\ TimesIn(n, Named(k - 1)) \in Nat BY <1>3, <2>5 DEF m
      <4> QED BY <4>1
    <3> QED BY <2>2, <3>1, <3>2 DEF Left
  <2>6. Thinned(y[m], t[m], A \ {r}) /\ Fewer(y, m, k)
    <3>0. x[m] \in Seq(A) /\ y[m] \in Seq(A) /\ t[m] \in Seq(A) BY <1>6, <2>2, <2>3, <2>4
    <3>a. Thinned(x[m], t[m], A \ {r}) /\ Fewer(x, m, k - 1) BY <2>2, <2>3 DEF Left
    <3>1. CASE ToSet(x[m]) \cap {r} = {} /\ y = x
      <4>1. TimesIn(r, x[m]) = 0
        <5>1. r \notin ToSet(x[m]) BY <3>1
        <5> QED BY ONLY <3>0, <5>1, TimesArePlaces
      <4> QED BY <3>1, <3>a, <4>1
    <3>2. CASE \E i \in 1 .. Len(x[m]) : x[m][i] \in {r} /\ y[m] = RemoveAt(x[m], i)
      <4>1. PICK i \in 1 .. Len(x[m]) : x[m][i] = r /\ y[m] = RemoveAt(x[m], i) BY <3>2
      <4>2. Thinned(y[m], x[m], A \ {r})
        <5>1. x[m][i] \notin A \ {r} BY <4>1
        <5> QED BY ONLY <3>0, <4>1, <5>1, ThinnedRemoval
      <4>3. Thinned(y[m], t[m], (A \ {r}) \cap (A \ {r})) BY ONLY <3>0, <3>a, <4>2, ThinnedTwice
      <4>4. TimesIn(r, x[m]) = TimesIn(r, y[m]) + 1
        <5>1. TimesIn(r, x[m]) = TimesIn(r, RemoveAt(x[m], i)) + IF r = x[m][i] THEN 1 ELSE 0
          BY ONLY <3>0, <4>1, TimesInWithout
        <5> QED BY ONLY <4>1, <5>1
      <4>5. TimesIn(m, Named(k)) = TimesIn(m, Named(k - 1)) + 1 /\ TimesIn(m, Named(k - 1)) \in Nat BY <1>3, <2>3 DEF m
      <4>6. TimesIn(r, x[m]) \in Nat /\ TimesIn(r, y[m]) \in Nat /\ TimesIn(r, t[m]) \in Nat BY <1>4, <1>6, <2>2, <2>3, <2>4
      <4>7. Fewer(y, m, k) BY ONLY <3>a, <4>4, <4>5, <4>6
      <4>8. Thinned(y[m], t[m], A \ {r}) BY <4>3
      <4> QED BY ONLY <4>7, <4>8
    <3> QED BY <2>4, <3>1, <3>2
  <2>7. Left(y, k)
    <3> SUFFICES ASSUME NEW n \in Nodes
                 PROVE  Thinned(y[n], t[n], A \ {r}) /\ (n \notin ToSet(nodes) => y[n] = t[n]) /\ Fewer(y, n, k)
      BY DEF Left
    <3>1. CASE n = m BY <2>3, <2>6, <3>1
    <3> QED BY <2>5, <3>1
  <2>8. y \in T[k] BY ONLY <1>5, <2>1, <2>4, <2>7
  <2> QED BY <2>8 DEF y, m
<1> DEFINE u == RemovedOn(t, {r}, nodes)
<1>9. u \in T[c]
  <2>1. \A k \in 1 .. Len(nodes) : \A x \in T[k - 1] : Removed(x, {r}, nodes[k]) \in T[k] BY <1>8 DEF c
  <2>2. RemovedOn(t, {r}, nodes) \in T[Len(nodes)] BY ONLY <1>6, <1>7, <2>1, RemovedOnStays
  <2> QED BY <2>2 DEF c
<1> HIDE DEF u
<1>10. u \in [Nodes -> Seq(A)] /\ Left(u, c)
  <2>1. c \in 0 .. c BY <1>1
  <2> QED BY <1>5, <1>9, <2>1
<1>11. ASSUME NEW n \in Nodes, TimesIn(r, t[n]) <= TimesIn(n, nodes) PROVE TimesIn(r, u[n]) = 0
  <2>1. Fewer(u, n, c) BY <1>10
  <2>2. TimesIn(r, u[n]) \in Nat /\ TimesIn(r, t[n]) \in Nat BY <1>4, <1>6, <1>10
  <2>3. TimesIn(n, nodes) \in Nat BY <1>6, TimesArePlaces
  <2>4. TimesIn(r, t[n]) <= TimesIn(n, nodes) BY <1>11
  <2> QED BY ONLY <1>1, <2>1, <2>2, <2>3, <2>4
<1>12. Withdrawn(u, t, r, nodes, A) BY <1>10, <1>11 DEF Withdrawn
<1> QED BY <1>10, <1>12 DEF u

(***************************************************************************)
(* Registrations that are left without transient ones.                     *)
(***************************************************************************)
Options == [subtree : BOOLEAN, types : SUBSET RecordTypes]
OptionLists == {<<>>} \cup {<<x>> : x \in Options}

HeapOK(h) ==
    /\ h = [reg |-> h.reg, table |-> h.table]
    /\ RegistrationsOK(h.reg) /\ h.table \in Tables(h.reg)

\* The values that the two variables can have are a set.
LEMMA HeapRecord ==
  ASSUME NEW h, HeapOK(h)
  PROVE  h \in [reg : Seq(Registration), table : [Nodes -> Seq(DOMAIN h.reg)]]
BY DEF HeapOK, RegistrationsOK, Tables

\* No registration of o is on another node than its target more often than its
\* transientObservedNodes names the node.
CountsOf(reg, tables, o) ==
    \A r \in DOMAIN reg : reg[r].observer = o =>
        \A n \in Nodes : n # reg[r].target =>
            TimesIn(r, tables[n]) <= TimesIn(n, reg[r].transientObservedNodes)

\* What must not be taken off n when registrations of o are renewed.
Staying(reg, o, n) == {r \in DOMAIN reg : reg[r].observer # o \/ reg[r].target = n}

\* h is what h0 becomes when some registrations of o are renewed.
Lighter(h, h0, o, options) ==
    /\ HeapOK(h) /\ DOMAIN h.reg = DOMAIN h0.reg
    /\ \A r \in DOMAIN h0.reg :
          /\ h0.reg[r].observer # o => h.reg[r] = h0.reg[r]
          /\ h.reg[r].observer = h0.reg[r].observer /\ h.reg[r].target = h0.reg[r].target
          /\ \/ h.reg[r].options = h0.reg[r].options
             \/ options # <<>> /\ h.reg[r].options = options[1]
          /\ \/ h.reg[r].transientObservedNodes = h0.reg[r].transientObservedNodes
             \/ h.reg[r].transientObservedNodes = <<>>
    /\ \A n \in Nodes : Thinned(h.table[n], h0.table[n], Staying(h0.reg, o, n))
    /\ CountsOf(h0.reg, h0.table, o) => CountsOf(h.reg, h.table, o)

\* Lighter is reflexive and, below, transitive.
LEMMA LighterSame ==
  ASSUME NEW h, HeapOK(h), NEW o, NEW options
  PROVE  Lighter(h, h, o, options)
<1>1. \A n \in Nodes : Thinned(h.table[n], h.table[n], Staying(h.reg, o, n))
  <2> SUFFICES ASSUME NEW n \in Nodes PROVE Thinned(h.table[n], h.table[n], Staying(h.reg, o, n)) OBVIOUS
  <2>1. h.table[n] \in Seq(DOMAIN h.reg) BY DEF HeapOK, Tables
  <2> QED BY ONLY <2>1, ThinnedSame
<1> QED BY <1>1 DEF Lighter

\* The loops of removeTransientObserversFor go from one lighter heap to the next.
LEMMA LighterTwice ==
  ASSUME NEW h, NEW h1, NEW h2, NEW o, NEW options, HeapOK(h),
         Lighter(h1, h, o, options), Lighter(h2, h1, o, options)
  PROVE  Lighter(h2, h, o, options)
<1>1. HeapOK(h2) /\ DOMAIN h2.reg = DOMAIN h.reg /\ HeapOK(h1) /\ DOMAIN h1.reg = DOMAIN h.reg BY DEF Lighter
<1>2. \A r \in DOMAIN h.reg :
          /\ h.reg[r].observer # o => h2.reg[r] = h.reg[r]
          /\ h2.reg[r].observer = h.reg[r].observer /\ h2.reg[r].target = h.reg[r].target
          /\ \/ h2.reg[r].options = h.reg[r].options
             \/ options # <<>> /\ h2.reg[r].options = options[1]
          /\ \/ h2.reg[r].transientObservedNodes = h.reg[r].transientObservedNodes
             \/ h2.reg[r].transientObservedNodes = <<>>
  BY <1>1 DEF Lighter
<1>3. \A n \in Nodes : Thinned(h2.table[n], h.table[n], Staying(h.reg, o, n))
  <2> SUFFICES ASSUME NEW n \in Nodes PROVE Thinned(h2.table[n], h.table[n], Staying(h.reg, o, n)) OBVIOUS
  <2> DEFINE K == Staying(h.reg, o, n)
  <2>1. Staying(h1.reg, o, n) = K
    <3>1. \A r \in DOMAIN h.reg : h1.reg[r].observer = h.reg[r].observer /\ h1.reg[r].target = h.reg[r].target
      BY DEF Lighter
    <3> QED BY <1>1, <3>1 DEF Staying
  <2> HIDE DEF K
  <2>2. Thinned(h1.table[n], h.table[n], K) BY DEF Lighter, K
  <2>3. Thinned(h2.table[n], h1.table[n], K) BY <2>1 DEF Lighter
  <2>4. /\ h.table[n] \in Seq(DOMAIN h.reg) /\ h1.table[n] \in Seq(DOMAIN h.reg)
        /\ h2.table[n] \in Seq(DOMAIN h.reg)
    BY <1>1 DEF HeapOK, Tables
  <2>5. Thinned(h2.table[n], h.table[n], K \cap K) BY ONLY <2>2, <2>3, <2>4, ThinnedTwice
  <2> QED BY <2>5 DEF K
<1>4. CountsOf(h.reg, h.table, o) => CountsOf(h2.reg, h2.table, o) BY DEF Lighter
<1> QED BY <1>1, <1>2, <1>3, <1>4 DEF Lighter

\* What renewed changes, and what it leaves.
Renewal(h1, h, r, options) ==
    /\ h1 = [reg |-> h1.reg, table |-> h1.table]
    /\ h1.reg = [h.reg EXCEPT ![r] =
                    [observer |-> h.reg[r].observer, target |-> h.reg[r].target,
                     options |-> IF options = <<>> THEN h.reg[r].options ELSE options[1],
                     transientObservedNodes |-> <<>>]]
    /\ h1.table = RemovedOn(h.table, {r}, h.reg[r].transientObservedNodes)

\* renewed, field by field.
LEMMA RenewedIsRenewal ==
  ASSUME NEW h, HeapOK(h), NEW r \in DOMAIN h.reg, NEW options \in OptionLists
  PROVE  Renewal(renewed(h, r, options), h, r, options)
<1> DEFINE q == h.reg[r]
           q1 == [q EXCEPT !.transientObservedNodes = <<>>]
           alone == removeTransientObservers(h, r)
<1>1. q \in Registration BY DEF HeapOK, RegistrationsOK
<1>2. q1 = [observer |-> q.observer, target |-> q.target, options |-> q.options, transientObservedNodes |-> <<>>]
  BY <1>1 DEF Registration
<1>3. alone = [reg |-> [h.reg EXCEPT ![r] = q1], table |-> RemovedOn(h.table, {r}, q.transientObservedNodes)]
  BY DEF removeTransientObservers
<1>4. CASE options = <<>>
  <2>1. renewed(h, r, options) = alone BY <1>4 DEF renewed
  <2>2. alone = [reg |-> alone.reg, table |-> alone.table] BY <1>3
  <2> QED BY <1>2, <1>3, <1>4, <2>1, <2>2 DEF Renewal
<1>5. CASE options # <<>>
  <2> DEFINE q2 == [q1 EXCEPT !.options = options[1]]
  <2>1. renewed(h, r, options) = [alone EXCEPT !.reg = [alone.reg EXCEPT ![r] = [alone.reg[r] EXCEPT !.options = options[1]]]]
    BY <1>5 DEF renewed
  <2>2. alone.reg = [h.reg EXCEPT ![r] = q1] /\ alone.reg[r] = q1
        /\ alone.table = RemovedOn(h.table, {r}, q.transientObservedNodes)
    <3> HIDE DEF q1, alone
    <3> QED BY <1>3
  <2>3. q2 = [observer |-> q.observer, target |-> q.target, options |-> options[1], transientObservedNodes |-> <<>>]
    <3> HIDE DEF q1
    <3> QED BY <1>2
  <2>4. [alone.reg EXCEPT ![r] = q2] = [h.reg EXCEPT ![r] = q2]
    <3> HIDE DEF q1, q2, alone
    <3> QED BY <2>2
  <2>5. renewed(h, r, options) = [alone EXCEPT !.reg = [h.reg EXCEPT ![r] = q2]]
    <3> HIDE DEF q1, alone
    <3> QED BY <2>1, <2>2, <2>4
  <2>6. /\ renewed(h, r, options).reg = [h.reg EXCEPT ![r] = q2]
        /\ renewed(h, r, options).table = alone.table
        /\ renewed(h, r, options) = [reg |-> renewed(h, r, options).reg, table |-> renewed(h, r, options).table]
    <3> HIDE DEF q1, q2
    <3> QED BY <1>3, <2>5
  <2> QED BY <1>5, <2>2, <2>3, <2>6 DEF Renewal
<1> QED BY <1>4, <1>5

\* A renewal takes off no other registration, and none where it observes the node itself.
LEMMA RenewalIsLighter ==
  ASSUME NEW h, HeapOK(h), NEW r \in DOMAIN h.reg, NEW options \in OptionLists,
         NEW h1, Renewal(h1, h, r, options)
  PROVE  /\ Lighter(h1, h, h.reg[r].observer, options)
         /\ h1.table[h.reg[r].target] = h.table[h.reg[r].target]
         /\ \A n \in Nodes : Thinned(h1.table[n], h.table[n], DOMAIN h.reg \ {r})
<1> DEFINE D == DOMAIN h.reg
           q == h.reg[r]
           q1 == [observer |-> q.observer, target |-> q.target,
                  options |-> IF options = <<>> THEN q.options ELSE options[1],
                  transientObservedNodes |-> <<>>]
           o == q.observer
<1>1. q \in Registration /\ h.reg \in Seq(Registration) /\ \A p \in D : h.reg[p] \in Registration
  BY DEF HeapOK, RegistrationsOK
<1>2. q.observer \in MutationObservers /\ q.target \in Nodes /\ q.options \in Options
      /\ q.transientObservedNodes \in Seq(Nodes) /\ q.target \notin ToSet(q.transientObservedNodes)
  BY <1>1 DEF Registration, Options, HeapOK, RegistrationsOK
<1>3. options # <<>> => options[1] \in Options BY DEF OptionLists
<1>4. q1 \in Registration /\ q1.transientObservedNodes = <<>> /\ q1.target = q.target /\ q1.observer = o
      /\ (q1.options = q.options \/ (options # <<>> /\ q1.options = options[1]))
  <2> DEFINE v == IF options = <<>> THEN q.options ELSE options[1]
  <2>1. v \in Options /\ (v = q.options \/ (options # <<>> /\ v = options[1]))
    <3>1. CASE options = <<>>
      <4>1. v = q.options BY <3>1
      <4>2. q.options \in Options BY <1>2
      <4> QED BY ONLY <4>1, <4>2
    <3>2. CASE options # <<>> BY <1>3, <3>2
    <3> QED BY <3>1, <3>2
  <2>2. q1 = [observer |-> q.observer, target |-> q.target, options |-> v, transientObservedNodes |-> <<>>]
    OBVIOUS
  <2>3. <<>> \in Seq(Nodes) OBVIOUS
  <2> HIDE DEF v, q1, q
  <2> QED BY <1>2, <2>1, <2>2, <2>3 DEF Registration, Options
<1>5. h1.reg = [h.reg EXCEPT ![r] = q1] /\ h1.table = RemovedOn(h.table, {r}, q.transientObservedNodes)
  BY DEF Renewal
<1>6. h.table \in [Nodes -> Seq(D)] BY DEF HeapOK, Tables
<1>7. r \in D OBVIOUS
<1> HIDE DEF q1, q, D
<1>8. DOMAIN h1.reg = D /\ h1.reg \in Seq(Registration) /\ h1.reg[r] = q1 /\ \A p \in D \ {r} : h1.reg[p] = h.reg[p]
  BY <1>1, <1>4, <1>5, <1>7 DEF D
<1>9. /\ h1.table \in [Nodes -> Seq(D)]
      /\ \A n \in Nodes :
            /\ Thinned(h1.table[n], h.table[n], D \ {r})
            /\ n \notin ToSet(q.transientObservedNodes) => h1.table[n] = h.table[n]
            /\ TimesIn(r, h.table[n]) <= TimesIn(n, q.transientObservedNodes) => TimesIn(r, h1.table[n]) = 0
  <2> DEFINE u == RemovedOn(h.table, {r}, q.transientObservedNodes)
  <2>1. q.transientObservedNodes \in Seq(Nodes) BY <1>2
  <2>2. u \in [Nodes -> Seq(D)] /\ Withdrawn(u, h.table, r, q.transientObservedNodes, D)
    BY ONLY <1>6, <2>1, WithdrawnProperties
  <2> HIDE DEF u
  <2>3. h1.table = u BY <1>5 DEF u
  <2> QED BY ONLY <2>2, <2>3 DEF Withdrawn
<1>10. HeapOK(h1)
  <2>1. \A p \in D : h1.reg[p].target \notin ToSet(h1.reg[p].transientObservedNodes)
    <3> SUFFICES ASSUME NEW p \in D PROVE h1.reg[p].target \notin ToSet(h1.reg[p].transientObservedNodes) OBVIOUS
    <3>1. CASE p = r
      <4>1. ToSet(<<>>) = {} BY DEF ToSet
      <4> QED BY <1>4, <1>8, <3>1, <4>1
    <3>2. CASE p # r BY <1>8, <3>2 DEF HeapOK, RegistrationsOK, D
    <3> QED BY <3>1, <3>2
  <2>2. h1 = [reg |-> h1.reg, table |-> h1.table] BY DEF Renewal
  <2> QED BY <1>8, <1>9, <2>1, <2>2 DEF HeapOK, RegistrationsOK, Tables
<1>11. \A p \in D :
          /\ h.reg[p].observer # o => h1.reg[p] = h.reg[p]
          /\ h1.reg[p].observer = h.reg[p].observer /\ h1.reg[p].target = h.reg[p].target
          /\ \/ h1.reg[p].options = h.reg[p].options
             \/ options # <<>> /\ h1.reg[p].options = options[1]
          /\ \/ h1.reg[p].transientObservedNodes = h.reg[p].transientObservedNodes
             \/ h1.reg[p].transientObservedNodes = <<>>
  <2> SUFFICES ASSUME NEW p \in D
               PROVE  /\ h.reg[p].observer # o => h1.reg[p] = h.reg[p]
                      /\ h1.reg[p].observer = h.reg[p].observer /\ h1.reg[p].target = h.reg[p].target
                      /\ \/ h1.reg[p].options = h.reg[p].options
                         \/ options # <<>> /\ h1.reg[p].options = options[1]
                      /\ \/ h1.reg[p].transientObservedNodes = h.reg[p].transientObservedNodes
                         \/ h1.reg[p].transientObservedNodes = <<>>
    OBVIOUS
  <2>1. CASE p = r BY ONLY <1>4, <1>8, <2>1 DEF q
  <2>2. CASE p # r BY <1>8, <2>2
  <2> QED BY <2>1, <2>2
<1>12. h1.table[q.target] = h.table[q.target] BY <1>2, <1>9
<1>13. \A n \in Nodes : Thinned(h1.table[n], h.table[n], Staying(h.reg, o, n))
  <2> SUFFICES ASSUME NEW n \in Nodes PROVE Thinned(h1.table[n], h.table[n], Staying(h.reg, o, n)) OBVIOUS
  <2>1. CASE n = q.target
    <3>1. h.table[n] \in Seq(D) BY <1>6
    <3>2. Thinned(h.table[n], h.table[n], Staying(h.reg, o, n)) BY ONLY <3>1, ThinnedSame
    <3> QED BY <1>12, <2>1, <3>2
  <2>2. CASE n # q.target
    <3>1. Staying(h.reg, o, n) \subseteq D \ {r} BY <2>2 DEF Staying, D, q
    <3>2. Thinned(h1.table[n], h.table[n], D \ {r}) BY <1>9
    <3> QED BY ONLY <3>1, <3>2, ThinnedFewer
  <2> QED BY <2>1, <2>2
<1>14. ASSUME CountsOf(h.reg, h.table, o) PROVE CountsOf(h1.reg, h1.table, o)
  <2> SUFFICES ASSUME NEW p \in D, h1.reg[p].observer = o, NEW n \in Nodes, n # h1.reg[p].target
               PROVE  TimesIn(p, h1.table[n]) <= TimesIn(n, h1.reg[p].transientObservedNodes)
    BY <1>8 DEF CountsOf
  <2>1. TimesIn(p, h.table[n]) <= TimesIn(n, h.reg[p].transientObservedNodes)
    BY <1>11, <1>14 DEF CountsOf, D
  <2>2. CASE p = r
    <3>1. TimesIn(p, h1.table[n]) = 0 BY <1>9, <2>1, <2>2 DEF q
    <3>2. <<>> \in Seq(Nodes) OBVIOUS
    <3>3. TimesIn(n, <<>>) \in Nat BY ONLY <3>2, TimesArePlaces
    <3> QED BY <1>4, <1>8, <2>2, <3>1, <3>3
  <2>3. CASE p # r
    <3>1. h.table[n] \in Seq(D) /\ h1.table[n] \in Seq(D) BY <1>6, <1>9
    <3>2. Thinned(h1.table[n], h.table[n], D \ {r}) BY <1>9
    <3>3. TimesIn(p, h1.table[n]) <= TimesIn(p, h.table[n]) BY ONLY <3>1, <3>2, ThinnedTimes
    <3>4. h1.reg[p] = h.reg[p] BY <1>8, <2>3
    <3>5. TimesIn(p, h1.table[n]) \in Nat /\ TimesIn(p, h.table[n]) \in Nat BY ONLY <3>1, TimesArePlaces
    <3>6. h.reg[p].transientObservedNodes \in Seq(Nodes) BY <1>1 DEF Registration
    <3>7. TimesIn(n, h.reg[p].transientObservedNodes) \in Nat BY ONLY <3>6, TimesArePlaces
    <3> QED BY ONLY <2>1, <3>3, <3>4, <3>5, <3>7
  <2> QED BY <2>2, <2>3
<1>15. Lighter(h1, h, o, options) BY <1>8, <1>10, <1>11, <1>13, <1>14 DEF Lighter, D
<1> QED BY <1>9, <1>12, <1>15 DEF D, q

\* The turn of the j-th registration on n.
TurnOf(h, o, n, options, j) ==
    IF j > Len(h.table[n]) \/ h.reg[h.table[n][j]].observer # o THEN h
    ELSE renewed(h, h.table[n][j], options)

\* What holds after each turn, when it held before it, holds when all had theirs.
LEMMA ForRegistrationsStays ==
  ASSUME NEW h, NEW o, NEW n, NEW options, Len(h.table[n]) \in Nat,
         NEW T, h \in T[0],
         \A k \in 1 .. Len(h.table[n]) : \A x \in T[k - 1] : TurnOf(x, o, n, options, k) \in T[k]
  PROVE  ForRegistrations(h, o, n, options) \in T[Len(h.table[n])]
<1> DEFINE c == Len(h.table[n])
           U == UNION {T[k] : k \in 0 .. c}
           F == [x \in (1 .. c) \X U |-> TurnOf(x[2], o, n, options, x[1])]
           Turns(f) == f = [k \in 0 .. c |-> IF k = 0 THEN h ELSE TurnOf(f[k - 1], o, n, options, k)]
           turn == CHOOSE f : Turns(f)
<1>1. c \in Nat OBVIOUS
<1>2. turn[c] = ForRegistrations(h, o, n, options) BY DEF ForRegistrations, TurnOf
<1>3. \A k \in 1 .. c : \A x \in T[k - 1] : TurnOf(x, o, n, options, k) \in T[k] OBVIOUS
<1>4. h \in T[0] OBVIOUS
<1> HIDE DEF c
<1>5. 0 \in 0 .. c /\ \A k \in 1 .. c : k \in 0 .. c /\ k - 1 \in 0 .. c /\ k # 0 BY <1>1
<1>6. \A k \in 1 .. c : \A x \in T[k - 1] : F[<<k, x>>] = TurnOf(x, o, n, options, k)
  <2> SUFFICES ASSUME NEW k \in 1 .. c, NEW x \in T[k - 1] PROVE F[<<k, x>>] = TurnOf(x, o, n, options, k)
    OBVIOUS
  <2>1. x \in U BY <1>5
  <2> QED BY <2>1
<1> HIDE DEF F
<1>7. h \in T[0] /\ \A k \in 1 .. c : \A x \in T[k - 1] : F[<<k, x>>] \in T[k] BY <1>3, <1>4, <1>6
<1>8. PICK f : IsFold(f, c, h, F) /\ \A k \in 0 .. c : f[k] \in T[k] BY ONLY <1>1, <1>7, FoldExists
<1>9. Turns(f)
  <2>1. \A k \in 0 .. c : (IF k = 0 THEN h ELSE F[<<k, f[k - 1]>>]) = IF k = 0 THEN h ELSE TurnOf(f[k - 1], o, n, options, k)
    <3> SUFFICES ASSUME NEW k \in 0 .. c, k # 0 PROVE F[<<k, f[k - 1]>>] = TurnOf(f[k - 1], o, n, options, k) OBVIOUS
    <3>1. k \in 1 .. c BY <1>1
    <3>2. f[k - 1] \in T[k - 1] BY <1>5, <1>8, <3>1
    <3> QED BY <1>6, <3>1, <3>2
  <2> QED BY ONLY <1>8, <2>1 DEF IsFold
<1>10. Turns(turn) BY <1>9
<1> HIDE DEF turn
<1>11. turn[0] = h /\ \A k \in 1 .. c : turn[k] = TurnOf(turn[k - 1], o, n, options, k)
  <2>1. \A k \in 0 .. c : turn[k] = IF k = 0 THEN h ELSE TurnOf(turn[k - 1], o, n, options, k) BY ONLY <1>10
  <2> QED BY ONLY <1>5, <2>1
<1>12. turn[0] \in T[0] /\ \A k \in 1 .. c : turn[k - 1] \in T[k - 1] => turn[k] \in T[k]
  BY <1>3, <1>4, <1>11
<1>13. \A k \in 0 .. c : turn[k] \in T[k] BY ONLY <1>1, <1>12, FoldStays
<1>14. c \in 0 .. c BY <1>1
<1> QED BY <1>2, <1>13, <1>14 DEF c

\* The same of removeTransientObserversFor and the nodes of an observer.
LEMMA ForNodesStays ==
  ASSUME NEW o, Len(nodes_[o]) \in Nat,
         NEW T, heap \in T[0],
         \A k \in 1 .. Len(nodes_[o]) : \A x \in T[k - 1] : ForRegistrations(x, o, nodes_[o][k], <<>>) \in T[k]
  PROVE  removeTransientObserversFor(o) \in T[Len(nodes_[o])]
<1> DEFINE c == Len(nodes_[o])
           U == UNION {T[k] : k \in 0 .. c}
           F == [x \in (1 .. c) \X U |-> ForRegistrations(x[2], o, nodes_[o][x[1]], <<>>)]
           Turns(f) == f = [k \in 0 .. c |-> IF k = 0 THEN heap ELSE ForRegistrations(f[k - 1], o, nodes_[o][k], <<>>)]
           turn == CHOOSE f : Turns(f)
<1>1. c \in Nat OBVIOUS
<1>2. turn[c] = removeTransientObserversFor(o) BY DEF removeTransientObserversFor
<1>3. \A k \in 1 .. c : \A x \in T[k - 1] : ForRegistrations(x, o, nodes_[o][k], <<>>) \in T[k] OBVIOUS
<1>4. heap \in T[0] OBVIOUS
<1> HIDE DEF c
<1>5. 0 \in 0 .. c /\ \A k \in 1 .. c : k \in 0 .. c /\ k - 1 \in 0 .. c /\ k # 0 BY <1>1
<1>6. \A k \in 1 .. c : \A x \in T[k - 1] : F[<<k, x>>] = ForRegistrations(x, o, nodes_[o][k], <<>>)
  <2> SUFFICES ASSUME NEW k \in 1 .. c, NEW x \in T[k - 1] PROVE F[<<k, x>>] = ForRegistrations(x, o, nodes_[o][k], <<>>)
    OBVIOUS
  <2>1. x \in U BY <1>5
  <2> QED BY <2>1
<1> HIDE DEF F
<1>7. heap \in T[0] /\ \A k \in 1 .. c : \A x \in T[k - 1] : F[<<k, x>>] \in T[k] BY <1>3, <1>4, <1>6
<1>8. PICK f : IsFold(f, c, heap, F) /\ \A k \in 0 .. c : f[k] \in T[k] BY ONLY <1>1, <1>7, FoldExists
<1>9. Turns(f)
  <2>1. \A k \in 0 .. c : (IF k = 0 THEN heap ELSE F[<<k, f[k - 1]>>]) = IF k = 0 THEN heap ELSE ForRegistrations(f[k - 1], o, nodes_[o][k], <<>>)
    <3> SUFFICES ASSUME NEW k \in 0 .. c, k # 0 PROVE F[<<k, f[k - 1]>>] = ForRegistrations(f[k - 1], o, nodes_[o][k], <<>>) OBVIOUS
    <3>1. k \in 1 .. c BY <1>1
    <3>2. f[k - 1] \in T[k - 1] BY <1>5, <1>8, <3>1
    <3> QED BY <1>6, <3>1, <3>2
  <2> QED BY ONLY <1>8, <2>1 DEF IsFold
<1>10. Turns(turn) BY <1>9
<1> HIDE DEF turn
<1>11. turn[0] = heap /\ \A k \in 1 .. c : turn[k] = ForRegistrations(turn[k - 1], o, nodes_[o][k], <<>>)
  <2>1. \A k \in 0 .. c : turn[k] = IF k = 0 THEN heap ELSE ForRegistrations(turn[k - 1], o, nodes_[o][k], <<>>) BY ONLY <1>10
  <2> QED BY ONLY <1>5, <2>1
<1>12. turn[0] \in T[0] /\ \A k \in 1 .. c : turn[k - 1] \in T[k - 1] => turn[k] \in T[k]
  BY <1>3, <1>4, <1>11
<1>13. \A k \in 0 .. c : turn[k] \in T[k] BY ONLY <1>1, <1>12, FoldStays
<1>14. c \in 0 .. c BY <1>1
<1> QED BY <1>2, <1>13, <1>14 DEF c

\* Each turn of a loop leaves it lighter, ...
LEMMA TurnLighter ==
  ASSUME NEW x, HeapOK(x), NEW o, NEW n \in Nodes, NEW options \in OptionLists, NEW k \in Nat \ {0}
  PROVE  Lighter(TurnOf(x, o, n, options, k), x, o, options)
<1>1. CASE k > Len(x.table[n]) \/ x.reg[x.table[n][k]].observer # o
  <2>1. TurnOf(x, o, n, options, k) = x BY <1>1 DEF TurnOf
  <2> QED BY <2>1, LighterSame
<1>2. CASE ~ (k > Len(x.table[n]) \/ x.reg[x.table[n][k]].observer # o)
  <2> DEFINE r == x.table[n][k]
             y == renewed(x, r, options)
  <2>1. TurnOf(x, o, n, options, k) = y BY <1>2 DEF TurnOf
  <2>2. x.table[n] \in Seq(DOMAIN x.reg) BY DEF HeapOK, Tables
  <2>3. r \in DOMAIN x.reg /\ x.reg[r].observer = o BY <1>2, <2>2
  <2> HIDE DEF r
  <2>4. Renewal(y, x, r, options) BY <2>3, RenewedIsRenewal
  <2> HIDE DEF y
  <2>5. Lighter(y, x, x.reg[r].observer, options) BY <2>3, <2>4, RenewalIsLighter
  <2> QED BY <2>1, <2>3, <2>5
<1> QED BY <1>1, <1>2

\* ... and so does the loop.
LEMMA ForRegistrationsLighter ==
  ASSUME NEW h, HeapOK(h), NEW o, NEW n \in Nodes, NEW options \in OptionLists
  PROVE  Lighter(ForRegistrations(h, o, n, options), h, o, options)
<1> DEFINE H == [reg : Seq(Registration), table : [Nodes -> Seq(DOMAIN h.reg)]]
           L == {x \in H : Lighter(x, h, o, options)}
           c == Len(h.table[n])
           T == [k \in 0 .. c |-> L]
<1>1. \A x : x \in L <=> Lighter(x, h, o, options)
  <2> SUFFICES ASSUME NEW x, Lighter(x, h, o, options) PROVE x \in H OBVIOUS
  <2>1. HeapOK(x) /\ DOMAIN x.reg = DOMAIN h.reg BY DEF Lighter
  <2> QED BY ONLY <2>1, HeapRecord
<1>2. c \in Nat
  <2>1. h.table[n] \in Seq(DOMAIN h.reg) BY DEF HeapOK, Tables
  <2> QED BY <2>1
<1> HIDE DEF c, L
<1>3. 0 \in 0 .. c /\ c \in 0 .. c /\ \A k \in 1 .. c : k \in 0 .. c /\ k - 1 \in 0 .. c /\ k \in Nat \ {0} BY <1>2
<1>4. \A k \in 0 .. c : T[k] = L OBVIOUS
<1> HIDE DEF T
<1>5. h \in T[0]
  <2>1. Lighter(h, h, o, options) BY LighterSame
  <2> QED BY <1>1, <1>3, <1>4, <2>1
<1>6. ASSUME NEW k \in 1 .. c, NEW x \in T[k - 1] PROVE TurnOf(x, o, n, options, k) \in T[k]
  <2>1. Lighter(x, h, o, options) BY <1>1, <1>3, <1>4
  <2>2. HeapOK(x) /\ k \in Nat \ {0} BY <1>3, <2>1 DEF Lighter
  <2> DEFINE y == TurnOf(x, o, n, options, k)
  <2>3. Lighter(y, x, o, options) BY <2>2, TurnLighter
  <2> HIDE DEF y
  <2>4. Lighter(y, h, o, options) BY <2>1, <2>3, LighterTwice
  <2> QED BY <1>1, <1>3, <1>4, <2>4 DEF y
<1>7. ForRegistrations(h, o, n, options) \in T[c]
  <2>1. \A k \in 1 .. Len(h.table[n]) : \A x \in T[k - 1] : TurnOf(x, o, n, options, k) \in T[k] BY <1>6 DEF c
  <2>2. Len(h.table[n]) \in Nat BY <1>2 DEF c
  <2>3. ForRegistrations(h, o, n, options) \in T[Len(h.table[n])] BY ONLY <1>5, <2>1, <2>2, ForRegistrationsStays
  <2> QED BY <2>3 DEF c
<1> QED BY <1>1, <1>3, <1>4, <1>7

(***************************************************************************)
(* What the tables, what an observer watches and what has left agree on.   *)
(***************************************************************************)
\* The i-th registration on n is one of o, or one of o that observes n itself.
OfObserver(reg, tables, o, n, i) == i \in DOMAIN tables[n] /\ reg[tables[n][i]].observer = o
IsOwn(reg, tables, o, n, i) == OfObserver(reg, tables, o, n, i) /\ reg[tables[n][i]].target = n

\* The registrations of o on n.
On(reg, tables, o, n) == {r \in ToSet(tables[n]) : reg[r].observer = o}

\* A node that o watches has one registration of o that observes the node itself,
\* it has the options, the node is in nodes_, and it is the first one of o.
OwnOf(reg, tables, o, w, ns) ==
    \A n \in Nodes :
        /\ w[n] # None => \E i \in DOMAIN tables[n] : IsOwn(reg, tables, o, n, i)
        /\ \A i \in DOMAIN tables[n] : IsOwn(reg, tables, o, n, i) =>
              /\ w[n] # None /\ reg[tables[n][i]].options = w[n] /\ n \in ToSet(ns)
              /\ \A j \in DOMAIN tables[n] : OfObserver(reg, tables, o, n, j) /\ j # i =>
                    j > i /\ reg[tables[n][j]].target # n

\* A transient registration of o is there for what has left, and is on its target.
TransientsOf(reg, tables, o, g) ==
    \A n \in Nodes : \A r \in On(reg, tables, o, n) : reg[r].target # n =>
        <<reg[r].target, n>> \in g /\ r \in ToSet(tables[reg[r].target])

\* What has left a subtree has a transient registration.
GoneOf(reg, tables, o, w, g) ==
    \A left \in g :
        /\ left \in Nodes \X Nodes /\ left[1] # left[2]
        /\ w[left[1]] # None /\ w[left[1]].subtree
        /\ \E r \in On(reg, tables, o, left[2]) : reg[r].target = left[1]

Agrees(reg, tables, o, w, ns, g) ==
    /\ OwnOf(reg, tables, o, w, ns)
    /\ TransientsOf(reg, tables, o, g)
    /\ GoneOf(reg, tables, o, w, g)
    /\ CountsOf(reg, tables, o)

\* A change of the registrations and their tables that keeps those which observe
\* the node they are on, and gives them the options that are now watched.
OwnKept(reg, reg2, D, tables, tables2, o, w, w2) ==
    /\ \A r \in D : /\ reg2[r].observer = reg[r].observer
                    /\ reg[r].observer = o => reg2[r].target = reg[r].target
    /\ \A n \in Nodes :
          /\ w2[n] = None <=> w[n] = None
          /\ \A r \in ToSet(tables2[n]) :
                reg[r].observer = o /\ reg[r].target = n /\ reg[r].options = w[n] => reg2[r].options = w2[n]
          /\ Thinned(tables2[n], tables[n], {r \in D : reg[r].observer = o /\ reg[r].target = n})

\* Then o goes on being told of the nodes it watches.
LEMMA OwnStays ==
  ASSUME NEW reg, NEW reg2, NEW D, NEW tables \in [Nodes -> Seq(D)], NEW tables2 \in [Nodes -> Seq(D)],
         NEW o, NEW w, NEW w2, NEW ns, OwnOf(reg, tables, o, w, ns),
         OwnKept(reg, reg2, D, tables, tables2, o, w, w2)
  PROVE  OwnOf(reg2, tables2, o, w2, ns)
<1> USE DEF OwnKept
<1> SUFFICES ASSUME NEW n \in Nodes
             PROVE  /\ w2[n] # None => \E i \in DOMAIN tables2[n] : IsOwn(reg2, tables2, o, n, i)
                    /\ \A i \in DOMAIN tables2[n] : IsOwn(reg2, tables2, o, n, i) =>
                          /\ w2[n] # None /\ reg2[tables2[n][i]].options = w2[n] /\ n \in ToSet(ns)
                          /\ \A j \in DOMAIN tables2[n] : OfObserver(reg2, tables2, o, n, j) /\ j # i =>
                                j > i /\ reg2[tables2[n][j]].target # n
  BY DEF OwnOf
<1> DEFINE s == tables[n]
           u == tables2[n]
           K == {r \in D : reg[r].observer = o /\ reg[r].target = n}
<1>1. s \in Seq(D) /\ u \in Seq(D) /\ DOMAIN s = 1 .. Len(s) /\ DOMAIN u = 1 .. Len(u)
      /\ Len(s) \in Nat /\ Len(u) \in Nat
  OBVIOUS
<1>2. PICK h \in [1 .. Len(u) -> 1 .. Len(s)] :
        /\ \A i, j \in 1 .. Len(u) : i < j => h[i] < h[j]
        /\ \A i \in 1 .. Len(u) : u[i] = s[h[i]]
        /\ \A k \in 1 .. Len(s) : s[k] \in K => \E i \in 1 .. Len(u) : h[i] = k
  BY DEF Thinned
<1>3. \A i \in 1 .. Len(s) : IsOwn(reg, tables, o, n, i) <=> s[i] \in K
  BY <1>1 DEF IsOwn, OfObserver
<1>4. \A i \in 1 .. Len(u) : /\ h[i] \in 1 .. Len(s) /\ u[i] \in D
                             /\ OfObserver(reg2, tables2, o, n, i) => OfObserver(reg, tables, o, n, h[i])
                             /\ IsOwn(reg2, tables2, o, n, i) <=> s[h[i]] \in K
  <2> SUFFICES ASSUME NEW i \in 1 .. Len(u)
               PROVE  /\ h[i] \in 1 .. Len(s) /\ u[i] \in D
                      /\ OfObserver(reg2, tables2, o, n, i) => OfObserver(reg, tables, o, n, h[i])
                      /\ IsOwn(reg2, tables2, o, n, i) <=> s[h[i]] \in K
    OBVIOUS
  <2>1. h[i] \in 1 .. Len(s) /\ u[i] \in D /\ u[i] = s[h[i]]
    <3>1. u[i] \in D
      <4>1. u \in Seq(D) /\ i \in 1 .. Len(u) BY <1>1
      <4> HIDE DEF u
      <4> QED BY ONLY <4>1
    <3> HIDE DEF u, s, K
    <3> QED BY ONLY <1>2, <3>1, i \in 1 .. Len(u)
  <2>2. OfObserver(reg2, tables2, o, n, i) <=> reg[u[i]].observer = o BY <1>1, <2>1 DEF OfObserver
  <2>3. OfObserver(reg, tables, o, n, h[i]) <=> reg[u[i]].observer = o BY <1>1, <2>1 DEF OfObserver
  <2>4. IsOwn(reg2, tables2, o, n, i) <=> reg[u[i]].observer = o /\ reg[u[i]].target = n
    BY <2>1, <2>2 DEF IsOwn
  <2> QED BY <2>1, <2>2, <2>3, <2>4
<1>5. ASSUME w2[n] # None PROVE \E i \in DOMAIN tables2[n] : IsOwn(reg2, tables2, o, n, i)
  <2>1. PICK k \in 1 .. Len(s) : s[k] \in K BY <1>1, <1>3, <1>5 DEF OwnOf
  <2>2. PICK i \in 1 .. Len(u) : h[i] = k BY <1>2, <2>1
  <2> QED BY <1>1, <1>4, <2>1, <2>2
<1>6. ASSUME NEW i \in DOMAIN tables2[n], IsOwn(reg2, tables2, o, n, i)
      PROVE  /\ w2[n] # None /\ reg2[tables2[n][i]].options = w2[n] /\ n \in ToSet(ns)
             /\ \A j \in DOMAIN tables2[n] : OfObserver(reg2, tables2, o, n, j) /\ j # i =>
                   j > i /\ reg2[tables2[n][j]].target # n
  <2>1. i \in 1 .. Len(u) /\ h[i] \in 1 .. Len(s) /\ IsOwn(reg, tables, o, n, h[i]) /\ u[i] = s[h[i]]
    BY <1>1, <1>2, <1>3, <1>4, <1>6
  <2>2. /\ w[n] # None /\ reg[s[h[i]]].options = w[n] /\ n \in ToSet(ns)
        /\ \A j \in 1 .. Len(s) : OfObserver(reg, tables, o, n, j) /\ j # h[i] =>
              j > h[i] /\ reg[s[j]].target # n
    BY <1>1, <2>1 DEF OwnOf
  <2>3. u[i] \in ToSet(u) BY <1>1, <2>1 DEF ToSet
  <2>4. reg2[u[i]].options = w2[n] /\ w2[n] # None
    <3>1. reg[u[i]].observer = o /\ reg[u[i]].target = n BY <2>1 DEF IsOwn, OfObserver
    <3> QED BY <2>1, <2>2, <2>3, <3>1
  <2>5. ASSUME NEW j \in 1 .. Len(u), OfObserver(reg2, tables2, o, n, j), j # i
        PROVE  j > i /\ reg2[u[j]].target # n
    <3>1. OfObserver(reg, tables, o, n, h[j]) /\ h[j] \in 1 .. Len(s) /\ u[j] \in D BY <1>4, <2>5
    <3>2. h[j] # h[i]
      <4>1. i < j \/ j < i BY <1>1, <2>1, <2>5
      <4>2. h[i] \in Int /\ h[j] \in Int BY <2>1, <3>1
      <4> QED BY <1>2, <2>1, <4>1, <4>2
    <3>3. h[j] > h[i] /\ reg[s[h[j]]].target # n BY <2>2, <3>1, <3>2
    <3>4. j > i
      <4>1. ~ (j < i)
        <5>1. h[i] \in Int /\ h[j] \in Int BY <2>1, <3>1
        <5> QED BY <1>2, <2>1, <3>3, <5>1
      <4> QED BY <1>1, <2>1, <2>5, <4>1
    <3>5. reg2[u[j]].target = reg[s[h[j]]].target
      <4>1. u[j] = s[h[j]] BY <1>2
      <4>2. reg[u[j]].observer = o BY <3>1, <4>1 DEF OfObserver
      <4> QED BY <3>1, <4>1, <4>2
    <3> QED BY <3>3, <3>4, <3>5
  <2> QED BY <1>1, <2>2, <2>4, <2>5
<1> QED BY <1>5, <1>6

\* Whom the changes are not about.
LEMMA AgreesStays ==
  ASSUME NEW reg, NEW reg2, NEW tables \in [Nodes -> Seq(DOMAIN reg)], NEW tables2 \in [Nodes -> Seq(DOMAIN reg)],
         DOMAIN reg2 = DOMAIN reg, RegistrationsOK(reg),
         NEW o, NEW w, NEW ns, NEW g, Agrees(reg, tables, o, w, ns, g),
         \A r \in DOMAIN reg : reg2[r].observer = reg[r].observer,
         \A r \in DOMAIN reg : reg[r].observer = o => reg2[r] = reg[r],
         \A n \in Nodes : Thinned(tables2[n], tables[n], {r \in DOMAIN reg : reg[r].observer = o})
  PROVE  Agrees(reg2, tables2, o, w, ns, g)
<1> DEFINE D == DOMAIN reg
           K == {r \in D : reg[r].observer = o}
<1>1. \A n \in Nodes : tables[n] \in Seq(D) /\ tables2[n] \in Seq(D) OBVIOUS
<1>2. \A n \in Nodes : /\ ToSet(tables2[n]) \subseteq ToSet(tables[n])
                       /\ ToSet(tables[n]) \cap K \subseteq ToSet(tables2[n])
                       /\ ToSet(tables[n]) \subseteq D
  <2> SUFFICES ASSUME NEW n \in Nodes PROVE /\ ToSet(tables2[n]) \subseteq ToSet(tables[n])
                                            /\ ToSet(tables[n]) \cap K \subseteq ToSet(tables2[n])
                                            /\ ToSet(tables[n]) \subseteq D
    OBVIOUS
  <2>1. tables[n] \in Seq(D) /\ tables2[n] \in Seq(D) /\ Thinned(tables2[n], tables[n], K) OBVIOUS
  <2>2. ToSet(tables[n]) \subseteq D BY <2>1 DEF ToSet
  <2> HIDE DEF K, D
  <2> QED BY ONLY <2>1, <2>2, ThinnedElements
<1>3. \A n \in Nodes : On(reg2, tables2, o, n) = On(reg, tables, o, n) /\ On(reg, tables, o, n) \subseteq K
  BY <1>2 DEF On
<1>4. OwnOf(reg2, tables2, o, w, ns)
  <2>1. \A n \in Nodes : Thinned(tables2[n], tables[n], {r \in D : reg[r].observer = o /\ reg[r].target = n})
    <3> SUFFICES ASSUME NEW n \in Nodes
                 PROVE  Thinned(tables2[n], tables[n], {r \in D : reg[r].observer = o /\ reg[r].target = n})
      OBVIOUS
    <3>1. {r \in D : reg[r].observer = o /\ reg[r].target = n} \subseteq K OBVIOUS
    <3>2. Thinned(tables2[n], tables[n], K) OBVIOUS
    <3> HIDE DEF K, D
    <3> QED BY ONLY <3>1, <3>2, ThinnedFewer
  <2>2. OwnOf(reg, tables, o, w, ns) BY DEF Agrees
  <2>3. \A n \in Nodes : \A r \in ToSet(tables2[n]) :
             reg[r].observer = o /\ reg[r].target = n /\ reg[r].options = w[n] => reg2[r].options = w[n]
    BY <1>2
  <2>4. \A r \in D : reg[r].observer = o => reg2[r].target = reg[r].target OBVIOUS
  <2>5. OwnKept(reg, reg2, D, tables, tables2, o, w, w) BY <2>1, <2>3, <2>4 DEF OwnKept
  <2>6. tables \in [Nodes -> Seq(D)] /\ tables2 \in [Nodes -> Seq(D)] OBVIOUS
  <2> HIDE DEF D, K
  <2> QED BY ONLY <2>2, <2>5, <2>6, OwnStays
<1>5. TransientsOf(reg2, tables2, o, g)
  <2> SUFFICES ASSUME NEW n \in Nodes, NEW r \in On(reg2, tables2, o, n), reg2[r].target # n
               PROVE  <<reg2[r].target, n>> \in g /\ r \in ToSet(tables2[reg2[r].target])
    BY DEF TransientsOf
  <2>1. r \in On(reg, tables, o, n) /\ r \in K /\ reg2[r] = reg[r] BY <1>3
  <2>2. <<reg[r].target, n>> \in g /\ r \in ToSet(tables[reg[r].target]) BY <2>1 DEF Agrees, TransientsOf
  <2>3. reg[r].target \in Nodes
    <3>1. reg \in Seq(Registration) BY DEF RegistrationsOK
    <3>2. reg[r] \in Registration BY ONLY <2>1, <3>1
    <3> QED BY ONLY <3>2 DEF Registration
  <2> QED BY <1>2, <2>1, <2>2, <2>3
<1>6. GoneOf(reg2, tables2, o, w, g)
  <2> SUFFICES ASSUME NEW left \in g
               PROVE  /\ left \in Nodes \X Nodes /\ left[1] # left[2]
                      /\ w[left[1]] # None /\ w[left[1]].subtree
                      /\ \E r \in On(reg2, tables2, o, left[2]) : reg2[r].target = left[1]
    BY DEF GoneOf
  <2>1. /\ left \in Nodes \X Nodes /\ left[1] # left[2]
        /\ w[left[1]] # None /\ w[left[1]].subtree
        /\ \E r \in On(reg, tables, o, left[2]) : reg[r].target = left[1]
    BY DEF Agrees, GoneOf
  <2>2. PICK r \in On(reg, tables, o, left[2]) : reg[r].target = left[1] BY <2>1
  <2>3. left[2] \in Nodes BY <2>1
  <2>4. r \in On(reg2, tables2, o, left[2]) /\ reg2[r] = reg[r] BY <1>3, <2>2, <2>3
  <2> QED BY <2>1, <2>2, <2>4
<1>7. CountsOf(reg2, tables2, o)
  <2> SUFFICES ASSUME NEW r \in D, reg2[r].observer = o, NEW n \in Nodes, n # reg2[r].target
               PROVE  TimesIn(r, tables2[n]) <= TimesIn(n, reg2[r].transientObservedNodes)
    BY DEF CountsOf
  <2>1. reg2[r] = reg[r] OBVIOUS
  <2>2. TimesIn(r, tables[n]) <= TimesIn(n, reg[r].transientObservedNodes)
    BY <2>1 DEF Agrees, CountsOf
  <2>3. tables[n] \in Seq(D) /\ tables2[n] \in Seq(D) BY <1>1
  <2>4. Thinned(tables2[n], tables[n], K) OBVIOUS
  <2>5. reg[r].transientObservedNodes \in Seq(Nodes)
    <3>1. reg \in Seq(Registration) /\ r \in DOMAIN reg BY DEF RegistrationsOK
    <3>2. reg[r] \in Registration BY ONLY <3>1
    <3> QED BY ONLY <3>2 DEF Registration
  <2> HIDE DEF D, K
  <2>6. TimesIn(r, tables2[n]) <= TimesIn(r, tables[n]) BY ONLY <2>3, <2>4, ThinnedTimes
  <2>7. TimesIn(r, tables2[n]) \in Nat /\ TimesIn(r, tables[n]) \in Nat BY ONLY <2>3, TimesArePlaces
  <2>8. TimesIn(n, reg[r].transientObservedNodes) \in Nat BY ONLY <2>5, TimesArePlaces
  <2> QED BY ONLY <2>1, <2>2, <2>6, <2>7, <2>8
<1> QED BY <1>4, <1>5, <1>6, <1>7 DEF Agrees

\* What is renewed for o leaves the other observers as they were.
LEMMA LighterLeavesOthers ==
  ASSUME NEW h, NEW h0, NEW o, NEW options, HeapOK(h0), Lighter(h, h0, o, options),
         NEW q, q # o, NEW w, NEW ns, NEW g, Agrees(h0.reg, h0.table, q, w, ns, g)
  PROVE  Agrees(h.reg, h.table, q, w, ns, g)
<1>1. DOMAIN h.reg = DOMAIN h0.reg /\ RegistrationsOK(h0.reg)
      /\ h0.table \in [Nodes -> Seq(DOMAIN h0.reg)] /\ h.table \in [Nodes -> Seq(DOMAIN h0.reg)]
  BY DEF Lighter, HeapOK, Tables
<1>2. /\ \A r \in DOMAIN h0.reg : h.reg[r].observer = h0.reg[r].observer
      /\ \A r \in DOMAIN h0.reg : h0.reg[r].observer = q => h.reg[r] = h0.reg[r]
  BY DEF Lighter
<1>3. \A n \in Nodes : Thinned(h.table[n], h0.table[n], {r \in DOMAIN h0.reg : h0.reg[r].observer = q})
  <2> SUFFICES ASSUME NEW n \in Nodes
               PROVE  Thinned(h.table[n], h0.table[n], {r \in DOMAIN h0.reg : h0.reg[r].observer = q})
    OBVIOUS
  <2>1. {r \in DOMAIN h0.reg : h0.reg[r].observer = q} \subseteq Staying(h0.reg, o, n) BY DEF Staying
  <2>2. Thinned(h.table[n], h0.table[n], Staying(h0.reg, o, n)) BY DEF Lighter
  <2> QED BY ONLY <2>1, <2>2, ThinnedFewer
<1> QED BY ONLY <1>1, <1>2, <1>3, AgreesStays, Agrees(h0.reg, h0.table, q, w, ns, g)

(***************************************************************************)
(* observe, of a node that has a registration of the observer.             *)
(***************************************************************************)
LEMMA OnlyOneRenewed ==
  ASSUME NEW h, HeapOK(h), NEW o, NEW n \in Nodes, NEW options \in OptionLists,
         NEW i \in DOMAIN h.table[n], OfObserver(h.reg, h.table, o, n, i),
         \A j \in DOMAIN h.table[n] : OfObserver(h.reg, h.table, o, n, j) => j = i,
         h.reg[h.table[n][i]].target = n
  PROVE  ForRegistrations(h, o, n, options) = renewed(h, h.table[n][i], options)
<1> DEFINE s == h.table[n]
           c == Len(s)
           r == s[i]
           y == renewed(h, r, options)
           T == [k \in 0 .. c |-> IF k < i THEN {h} ELSE {y}]
<1>1. s \in Seq(DOMAIN h.reg) BY DEF HeapOK, Tables
<1>2. c \in Nat /\ DOMAIN s = 1 .. c /\ i \in 1 .. c /\ \A k \in 1 .. c : s[k] \in DOMAIN h.reg BY <1>1
<1>3. h.reg[r].observer = o /\ r \in DOMAIN h.reg /\ h.reg[r].target = n BY <1>2 DEF OfObserver
<1>4. \A k \in 1 .. c : h.reg[s[k]].observer = o => k = i BY <1>2 DEF OfObserver
<1> HIDE DEF s, c, r
<1>5. Renewal(y, h, r, options) BY <1>3, RenewedIsRenewal
<1> HIDE DEF y
<1>6. Lighter(y, h, h.reg[r].observer, options) /\ y.table[h.reg[r].target] = h.table[h.reg[r].target]
  <2>1. HeapOK(h) /\ options \in OptionLists /\ r \in DOMAIN h.reg BY <1>3
  <2>2. Lighter(y, h, h.reg[r].observer, options) BY ONLY <1>5, <2>1, RenewalIsLighter
  <2>3. y.table[h.reg[r].target] = h.table[h.reg[r].target]
    <3>1. /\ Lighter(y, h, h.reg[r].observer, options)
          /\ y.table[h.reg[r].target] = h.table[h.reg[r].target]
          /\ \A m \in Nodes : Thinned(y.table[m], h.table[m], DOMAIN h.reg \ {r})
      BY ONLY <1>5, <2>1, RenewalIsLighter
    <3> QED BY ONLY <3>1
  <2> QED BY ONLY <2>2, <2>3
<1>7. y.table[n] = s BY <1>3, <1>6 DEF s
<1>8. \A q \in DOMAIN h.reg : y.reg[q].observer = h.reg[q].observer BY <1>6 DEF Lighter
<1>9. \A k \in 0 .. c : T[k] = IF k < i THEN {h} ELSE {y} OBVIOUS
<1> HIDE DEF T
<1>10. h \in T[0]
  <2>1. 0 \in 0 .. c /\ 0 < i BY <1>2
  <2> QED BY <1>9, <2>1
<1>11. ASSUME NEW k \in 1 .. c, NEW x \in T[k - 1] PROVE TurnOf(x, o, n, options, k) \in T[k]
  <2>1. k - 1 \in 0 .. c /\ k \in 0 .. c BY <1>2
  <2>2. CASE k < i
    <3>1. k - 1 < i BY <1>2, <2>2
    <3>2. x = h BY <1>9, <2>1, <3>1
    <3>3. h.reg[s[k]].observer # o BY <1>2, <1>4, <2>2
    <3>4. TurnOf(h, o, n, options, k) = h BY <3>3 DEF TurnOf, s
    <3> QED BY <1>9, <2>1, <2>2, <3>2, <3>4
  <2>3. CASE k = i
    <3>1. k - 1 < i /\ ~ (k < i) BY <1>2, <2>3
    <3>2. x = h BY <1>9, <2>1, <3>1
    <3>3. ~ (k > Len(h.table[n])) BY <1>2 DEF c, s
    <3>4. TurnOf(h, o, n, options, k) = y BY <1>3, <2>3, <3>3 DEF TurnOf, s, r, y
    <3> QED BY <1>9, <2>1, <3>1, <3>2, <3>4
  <2>4. CASE k > i
    <3>1. ~ (k - 1 < i) /\ ~ (k < i) /\ k # i BY <1>2, <2>4
    <3>2. x = y BY <1>9, <2>1, <3>1
    <3>3. y.reg[y.table[n][k]].observer # o BY <1>2, <1>4, <1>7, <1>8, <3>1
    <3>4. TurnOf(y, o, n, options, k) = y BY <3>3 DEF TurnOf
    <3> QED BY <1>9, <2>1, <3>1, <3>2, <3>4
  <2> QED BY <1>2, <2>2, <2>3, <2>4
<1>12. ForRegistrations(h, o, n, options) \in T[c]
  <2>1. \A k \in 1 .. Len(h.table[n]) : \A x \in T[k - 1] : TurnOf(x, o, n, options, k) \in T[k]
    BY <1>11 DEF c, s
  <2>2. Len(h.table[n]) \in Nat BY <1>2 DEF c, s
  <2>3. ForRegistrations(h, o, n, options) \in T[Len(h.table[n])] BY ONLY <1>10, <2>1, <2>2, ForRegistrationsStays
  <2> QED BY <2>3 DEF c, s
<1>13. c \in 0 .. c /\ ~ (c < i) BY <1>2
<1> QED BY <1>9, <1>12, <1>13 DEF y, r, s

\* An observer that observes a node again watches it in the new way, and what had
\* left the subtree is forgotten.
LEMMA ObserveAgainAgrees ==
  ASSUME NEW h, HeapOK(h), NEW o, NEW n \in Nodes, NEW opt \in Options,
         NEW w \in [Nodes -> Options \cup {None}], NEW ns, NEW g, Agrees(h.reg, h.table, o, w, ns, g),
         \E i \in DOMAIN h.table[n] : OfObserver(h.reg, h.table, o, n, i),
         \A i \in DOMAIN h.table[n] : OfObserver(h.reg, h.table, o, n, i) => h.reg[h.table[n][i]].target = n,
         None \notin Options
  PROVE  Agrees(ForRegistrations(h, o, n, <<opt>>).reg, ForRegistrations(h, o, n, <<opt>>).table, o,
                [w EXCEPT ![n] = opt], ns, g \ {left \in g : left[1] = n})
<1> DEFINE D == DOMAIN h.reg
           options == <<opt>>
           h1 == ForRegistrations(h, o, n, options)
           w1 == [w EXCEPT ![n] = opt]
           g1 == g \ {left \in g : left[1] = n}
<1>1. options \in OptionLists /\ options # <<>> /\ options[1] = opt BY DEF OptionLists
<1>2. PICK i \in DOMAIN h.table[n] : OfObserver(h.reg, h.table, o, n, i) OBVIOUS
<1> DEFINE r == h.table[n][i]
<1>3. h.table[n] \in Seq(D) /\ r \in D /\ r \in ToSet(h.table[n]) BY DEF HeapOK, Tables, ToSet
<1>4. h.reg[r].observer = o /\ h.reg[r].target = n BY <1>2 DEF OfObserver
<1>5. \A j \in DOMAIN h.table[n] : OfObserver(h.reg, h.table, o, n, j) => j = i
  BY <1>2 DEF Agrees, OwnOf, IsOwn
<1>6. h1 = renewed(h, r, options) BY <1>1, <1>2, <1>5, OnlyOneRenewed
<1>7. Renewal(h1, h, r, options) BY <1>1, <1>3, <1>6, RenewedIsRenewal
<1> HIDE DEF h1, r, options, w1, g1
<1>8. Lighter(h1, h, o, options)
  <2>1. Lighter(h1, h, h.reg[r].observer, options)
    BY ONLY <1>1, <1>3, <1>7, HeapOK(h), RenewalIsLighter
  <2> QED BY <1>4, <2>1
<1>9. \A m \in Nodes : Thinned(h1.table[m], h.table[m], D \ {r})
  BY ONLY <1>1, <1>3, <1>7, HeapOK(h), RenewalIsLighter
<1>10. h1.reg[r].options = opt /\ h1.reg[r].transientObservedNodes = <<>>
       /\ \A p \in D : h1.reg[p].observer = h.reg[p].observer /\ h1.reg[p].target = h.reg[p].target
                       /\ (p # r => h1.reg[p] = h.reg[p])
  BY <1>1, <1>3, <1>7, <1>8 DEF Renewal, Lighter
<1>11. w1 \in [Nodes -> Options \cup {None}] /\ w1[n] = opt /\ opt # None
       /\ \A m \in Nodes \ {n} : w1[m] = w[m]
  BY DEF w1
<1>12. /\ h.table \in [Nodes -> Seq(D)] /\ h1.table \in [Nodes -> Seq(D)] /\ DOMAIN h1.reg = D
       /\ h.reg \in Seq(Registration) /\ HeapOK(h1)
  BY <1>8 DEF HeapOK, Tables, Lighter, RegistrationsOK
<1>13. \A p \in ToSet(h.table[n]) : h.reg[p].observer = o => p = r
  <2> SUFFICES ASSUME NEW j \in DOMAIN h.table[n], h.reg[h.table[n][j]].observer = o PROVE h.table[n][j] = r
    BY DEF ToSet
  <2>1. OfObserver(h.reg, h.table, o, n, j) BY DEF OfObserver
  <2> QED BY <1>5, <2>1 DEF r
<1>14. \A m \in Nodes : /\ ToSet(h1.table[m]) \subseteq ToSet(h.table[m])
                        /\ ToSet(h.table[m]) \ {r} \subseteq ToSet(h1.table[m])
                        /\ ToSet(h.table[m]) \subseteq D
  <2> SUFFICES ASSUME NEW m \in Nodes PROVE /\ ToSet(h1.table[m]) \subseteq ToSet(h.table[m])
                                            /\ ToSet(h.table[m]) \ {r} \subseteq ToSet(h1.table[m])
                                            /\ ToSet(h.table[m]) \subseteq D
    OBVIOUS
  <2>1. h.table[m] \in Seq(D) /\ h1.table[m] \in Seq(D) /\ Thinned(h1.table[m], h.table[m], D \ {r})
    BY <1>9, <1>12
  <2>2. ToSet(h.table[m]) \subseteq D BY <2>1 DEF ToSet
  <2> HIDE DEF D
  <2>3. ToSet(h1.table[m]) \subseteq ToSet(h.table[m]) /\ ToSet(h.table[m]) \cap (D \ {r}) \subseteq ToSet(h1.table[m])
    BY ONLY <2>1, ThinnedElements
  <2> QED BY <2>2, <2>3
<1>15. \A p \in D : h.reg[p].target \in Nodes
  <2>1. \A p \in D : h.reg[p] \in Registration BY ONLY <1>12
  <2> QED BY <2>1 DEF Registration
<1> HIDE DEF D
<1>16. OwnOf(h1.reg, h1.table, o, w1, ns)
  <2>1. ASSUME NEW m \in Nodes
        PROVE  /\ w1[m] = None <=> w[m] = None
               /\ \A p \in ToSet(h1.table[m]) :
                    h.reg[p].observer = o /\ h.reg[p].target = m /\ h.reg[p].options = w[m] => h1.reg[p].options = w1[m]
               /\ Thinned(h1.table[m], h.table[m], {p \in D : h.reg[p].observer = o /\ h.reg[p].target = m})
    <3>1. w1[m] = None <=> w[m] = None
      <4>1. CASE m = n
        <5>1. IsOwn(h.reg, h.table, o, n, i) BY <1>2, <1>4 DEF IsOwn, r
        <5>2. w[n] # None BY <5>1 DEF Agrees, OwnOf
        <5> QED BY <1>11, <4>1, <5>2
      <4> QED BY <1>11, <4>1
    <3>2. ASSUME NEW p \in ToSet(h1.table[m]), h.reg[p].observer = o, h.reg[p].target = m, h.reg[p].options = w[m]
          PROVE  h1.reg[p].options = w1[m]
      <4>1. p \in ToSet(h.table[m]) /\ p \in D BY <1>14
      <4>2. CASE m = n
        <5>1. p = r BY <1>13, <3>2, <4>1, <4>2
        <5> QED BY <1>10, <1>11, <4>2, <5>1
      <4>3. CASE m # n
        <5>1. p # r BY <1>4, <3>2, <4>3
        <5> QED BY <1>10, <1>11, <3>2, <4>1, <4>3, <5>1
      <4> QED BY <4>2, <4>3
    <3>3. Thinned(h1.table[m], h.table[m], {p \in D : h.reg[p].observer = o /\ h.reg[p].target = m})
      <4>1. {p \in D : h.reg[p].observer = o /\ h.reg[p].target = m} \subseteq Staying(h.reg, o, m)
        BY DEF Staying, D
      <4>2. Thinned(h1.table[m], h.table[m], Staying(h.reg, o, m)) BY <1>8 DEF Lighter
      <4> QED BY ONLY <4>1, <4>2, ThinnedFewer
    <3> QED BY <3>1, <3>2, <3>3
  <2>2. OwnKept(h.reg, h1.reg, D, h.table, h1.table, o, w, w1) BY <1>10, <2>1 DEF OwnKept
  <2>3. OwnOf(h.reg, h.table, o, w, ns) BY DEF Agrees
  <2> QED BY ONLY <1>12, <2>2, <2>3, OwnStays
<1>17. ASSUME NEW m \in Nodes, NEW p \in On(h1.reg, h1.table, o, m), h1.reg[p].target # m
       PROVE  p # r /\ p \in On(h.reg, h.table, o, m) /\ h1.reg[p] = h.reg[p]
              /\ h.reg[p].target # n /\ <<h.reg[p].target, m>> \in g /\ p \in ToSet(h.table[h.reg[p].target])
  <2>1. p \in ToSet(h1.table[m]) /\ p \in ToSet(h.table[m]) /\ p \in D /\ h.reg[p].observer = o
        /\ h.reg[p].target # m
    BY <1>10, <1>14, <1>17 DEF On
  <2>2. p # r
    <3> SUFFICES ASSUME p = r PROVE FALSE OBVIOUS
    <3>1. CountsOf(h1.reg, h1.table, o) BY <1>8 DEF Lighter, Agrees
    <3>2. TimesIn(p, h1.table[m]) <= TimesIn(m, h1.reg[p].transientObservedNodes)
      BY <1>10, <1>12, <1>17, <2>1, <3>1 DEF CountsOf
    <3>3. <<>> \in Seq(Nodes) /\ m \notin ToSet(<<>>) BY DEF ToSet
    <3>4. TimesIn(m, <<>>) = 0 BY ONLY <3>3, TimesArePlaces
    <3>5. h1.table[m] \in Seq(D) BY <1>12
    <3>6. TimesIn(p, h1.table[m]) \in Nat /\ (TimesIn(p, h1.table[m]) = 0 <=> p \notin ToSet(h1.table[m]))
      BY ONLY <3>5, TimesArePlaces
    <3> QED BY <1>10, <2>1, <3>2, <3>4, <3>6
  <2>3. p \in On(h.reg, h.table, o, m) BY <2>1 DEF On
  <2>4. <<h.reg[p].target, m>> \in g /\ p \in ToSet(h.table[h.reg[p].target])
    BY <2>1, <2>3 DEF Agrees, TransientsOf
  <2>5. h.reg[p].target # n BY <1>13, <2>1, <2>2, <2>4
  <2> QED BY <1>10, <2>1, <2>2, <2>3, <2>4, <2>5
<1>18. TransientsOf(h1.reg, h1.table, o, g1)
  <2> SUFFICES ASSUME NEW m \in Nodes, NEW p \in On(h1.reg, h1.table, o, m), h1.reg[p].target # m
               PROVE  <<h1.reg[p].target, m>> \in g1 /\ p \in ToSet(h1.table[h1.reg[p].target])
    BY DEF TransientsOf
  <2>1. p # r /\ h1.reg[p] = h.reg[p]
              /\ h.reg[p].target # n /\ <<h.reg[p].target, m>> \in g /\ p \in ToSet(h.table[h.reg[p].target])
    BY <1>17
  <2>2. <<h.reg[p].target, m>> \in g1 BY <2>1 DEF g1
  <2>3. p \in D BY <1>14 DEF On
  <2> QED BY <1>14, <1>15, <2>1, <2>2, <2>3
<1>19. GoneOf(h1.reg, h1.table, o, w1, g1)
  <2> SUFFICES ASSUME NEW left \in g1
               PROVE  /\ left \in Nodes \X Nodes /\ left[1] # left[2]
                      /\ w1[left[1]] # None /\ w1[left[1]].subtree
                      /\ \E p \in On(h1.reg, h1.table, o, left[2]) : h1.reg[p].target = left[1]
    BY DEF GoneOf
  <2>1. left \in g /\ left[1] # n BY DEF g1
  <2>2. /\ left \in Nodes \X Nodes /\ left[1] # left[2]
        /\ w[left[1]] # None /\ w[left[1]].subtree
        /\ \E p \in On(h.reg, h.table, o, left[2]) : h.reg[p].target = left[1]
    BY <2>1 DEF Agrees, GoneOf
  <2>3. PICK p \in On(h.reg, h.table, o, left[2]) : h.reg[p].target = left[1] BY <2>2
  <2>4. left[1] \in Nodes \ {n} /\ left[2] \in Nodes BY <2>1, <2>2
  <2>5. p # r BY <1>4, <2>1, <2>3
  <2>6. p \in ToSet(h.table[left[2]]) /\ h.reg[p].observer = o BY <2>3 DEF On
  <2>7. p \in D /\ p \in ToSet(h1.table[left[2]]) BY <1>14, <2>4, <2>5, <2>6
  <2>8. p \in On(h1.reg, h1.table, o, left[2]) /\ h1.reg[p].target = left[1]
    BY <1>10, <2>3, <2>6, <2>7 DEF On
  <2> QED BY <1>11, <2>2, <2>4, <2>8
<1>20. CountsOf(h1.reg, h1.table, o) BY <1>8 DEF Lighter, Agrees
<1> QED BY <1>16, <1>18, <1>19, <1>20 DEF Agrees, h1, w1, g1, options

(***************************************************************************)
(* observe, of a node that has no registration of the observer.            *)
(***************************************************************************)
NewRegistration(o, n, opt) ==
    [observer |-> o, target |-> n, options |-> opt, transientObservedNodes |-> <<>>]

\* The new registration is one, and the tables are still about those there are.
LEMMA AddedTypes ==
  ASSUME NEW reg, RegistrationsOK(reg), NEW tables \in Tables(reg),
         NEW o \in MutationObservers, NEW n \in Nodes, NEW opt \in Options
  PROVE  /\ RegistrationsOK(Append(reg, NewRegistration(o, n, opt)))
         /\ [tables EXCEPT ![n] = Append(@, Len(reg) + 1)] \in Tables(Append(reg, NewRegistration(o, n, opt)))
<1> DEFINE new == NewRegistration(o, n, opt)
           reg2 == Append(reg, new)
           tables2 == [tables EXCEPT ![n] = Append(@, Len(reg) + 1)]
           L == Len(reg)
<1>1. reg \in Seq(Registration) /\ L \in Nat /\ DOMAIN reg = 1 .. L BY DEF RegistrationsOK
<1>2. <<>> \in Seq(Nodes) /\ ToSet(<<>>) = {} BY DEF ToSet
<1>3. new \in Registration /\ new.target \notin ToSet(new.transientObservedNodes)
  BY <1>2 DEF NewRegistration, Registration, Options
<1> HIDE DEF new
<1>4. reg2 \in Seq(Registration) /\ DOMAIN reg2 = 1 .. L + 1 /\ reg2[L + 1] = new
      /\ \A p \in 1 .. L : reg2[p] = reg[p]
  BY <1>1, <1>3
<1> HIDE DEF reg2, L
<1>5. \A p \in DOMAIN reg2 : reg2[p].target \notin ToSet(reg2[p].transientObservedNodes)
  <2>1. \A p \in 1 .. L + 1 : p \in 1 .. L \/ p = L + 1 BY <1>1
  <2> QED BY <1>1, <1>3, <1>4, <2>1 DEF RegistrationsOK
<1>6. tables2 \in [Nodes -> Seq(DOMAIN reg2)]
  <2>1. \A m \in Nodes : tables[m] \in Seq(1 .. L + 1)
    <3>1. 1 .. L \subseteq 1 .. L + 1 BY <1>1
    <3>2. \A m \in Nodes : tables[m] \in Seq(1 .. L) BY <1>1 DEF Tables
    <3> QED BY ONLY <3>1, <3>2, WiderSeq
  <2>2. Append(tables[n], L + 1) \in Seq(1 .. L + 1)
    <3>1. L + 1 \in 1 .. L + 1 BY <1>1
    <3> QED BY <2>1, <3>1
  <2>3. tables2 = [tables EXCEPT ![n] = Append(tables[n], L + 1)] BY DEF L
  <2> QED BY <1>4, <2>1, <2>2, <2>3 DEF Tables
<1> QED BY <1>4, <1>5, <1>6 DEF RegistrationsOK, Tables, reg2, new

\* It is the only one of o on n: what o watches now includes n, and others are as before.
LEMMA ObserveNewAgrees ==
  ASSUME NEW reg, RegistrationsOK(reg), NEW tables \in Tables(reg),
         NEW o \in MutationObservers, NEW n \in Nodes, NEW opt \in Options, None \notin Options,
         \A i \in DOMAIN tables[n] : ~ OfObserver(reg, tables, o, n, i),
         NEW q, NEW w \in [Nodes -> Options \cup {None}], NEW ns \in Seq(Nodes), NEW g,
         Agrees(reg, tables, q, w, ns, g)
  PROVE  Agrees(Append(reg, NewRegistration(o, n, opt)), [tables EXCEPT ![n] = Append(@, Len(reg) + 1)], q,
                IF q = o THEN [w EXCEPT ![n] = opt] ELSE w, IF q = o THEN Append(ns, n) ELSE ns,
                IF q = o THEN g \ {left \in g : left[1] = n} ELSE g)
<1> DEFINE new == NewRegistration(o, n, opt)
           reg2 == Append(reg, new)
           tables2 == [tables EXCEPT ![n] = Append(@, Len(reg) + 1)]
           L == Len(reg)
           w2 == IF q = o THEN [w EXCEPT ![n] = opt] ELSE w
           ns2 == IF q = o THEN Append(ns, n) ELSE ns
           g2 == IF q = o THEN g \ {left \in g : left[1] = n} ELSE g
           t == tables[n]
           c == Len(t)
<1>1. reg \in Seq(Registration) /\ L \in Nat /\ DOMAIN reg = 1 .. L BY DEF RegistrationsOK
<1>2. reg2 \in Seq(Registration \cup {new}) /\ DOMAIN reg2 = 1 .. L + 1 /\ reg2[L + 1] = new
      /\ \A p \in 1 .. L : reg2[p] = reg[p]
  BY <1>1
<1>3. new.observer = o /\ new.target = n /\ new.options = opt /\ new.transientObservedNodes = <<>>
  BY DEF NewRegistration
<1>4. \A m \in Nodes : tables[m] \in Seq(1 .. L) BY <1>1 DEF Tables
<1>5. t \in Seq(1 .. L) /\ c \in Nat /\ DOMAIN t = 1 .. c BY <1>4
<1>6. /\ tables2[n] = Append(t, L + 1) /\ \A m \in Nodes \ {n} : tables2[m] = tables[m]
  BY DEF Tables
<1>7. /\ DOMAIN tables2[n] = 1 .. c + 1 /\ tables2[n][c + 1] = L + 1
      /\ \A i \in 1 .. c : tables2[n][i] = t[i]
  <2>1. t \in Seq(Nat) /\ L + 1 \in Nat BY <1>1, <1>5
  <2> HIDE DEF t, L, tables2
  <2> QED BY <1>6, <2>1 DEF c
<1> HIDE DEF new, reg2, tables2, w2, ns2, g2
<1>8. ToSet(tables2[n]) = ToSet(t) \cup {L + 1} /\ ToSet(t) \subseteq 1 .. L
  <2>1. \A i : i \in 1 .. c + 1 <=> i \in 1 .. c \/ i = c + 1 BY <1>5
  <2>2. ToSet(t) \subseteq 1 .. L BY <1>5 DEF ToSet
  <2> HIDE DEF c, t, L
  <2> QED BY <1>5, <1>7, <2>1, <2>2 DEF ToSet
<1>9. \A m \in Nodes : ToSet(tables[m]) \subseteq 1 .. L BY <1>4 DEF ToSet
<1>10. \A p \in 1 .. L : p # L + 1 BY <1>1
<1> HIDE DEF L
<1>11. \A m \in Nodes : \A r : r \in On(reg2, tables2, q, m) <=>
            r \in On(reg, tables, q, m) \/ (m = n /\ q = o /\ r = L + 1)
  <2> SUFFICES ASSUME NEW m \in Nodes, NEW r
               PROVE  r \in On(reg2, tables2, q, m) <=> r \in On(reg, tables, q, m) \/ (m = n /\ q = o /\ r = L + 1)
    OBVIOUS
  <2>1. CASE m = n
    <3>1. r \in On(reg2, tables2, q, m) <=> (r \in ToSet(t) \/ r = L + 1) /\ reg2[r].observer = q
      BY <1>8, <2>1 DEF On
    <3>2. r \in ToSet(t) => reg2[r] = reg[r] BY <1>2, <1>8
    <3>3. reg2[L + 1].observer = o BY <1>2, <1>3
    <3>4. r \in On(reg, tables, q, m) <=> r \in ToSet(t) /\ reg[r].observer = q BY <2>1 DEF On
    <3> QED BY <2>1, <3>1, <3>2, <3>3, <3>4
  <2>2. CASE m # n
    <3>1. tables2[m] = tables[m] /\ \A p \in ToSet(tables[m]) : reg2[p] = reg[p] BY <1>2, <1>6, <1>9, <2>2
    <3> QED BY <2>2, <3>1 DEF On
  <2> QED BY <2>1, <2>2
<1>12. On(reg, tables, o, n) = {}
  <2> SUFFICES ASSUME NEW i \in DOMAIN t, reg[t[i]].observer = o PROVE FALSE BY DEF On, ToSet
  <2> QED BY DEF OfObserver
<1>13. q = o => w[n] = None /\ {left \in g : left[1] = n} = {}
  <2> SUFFICES ASSUME q = o PROVE w[n] = None /\ {left \in g : left[1] = n} = {} OBVIOUS
  <2>1. w[n] = None
    <3>1. w[n] # None => \E i \in DOMAIN tables[n] : IsOwn(reg, tables, q, n, i) BY DEF Agrees, OwnOf
    <3> QED BY <3>1 DEF IsOwn
  <2>2. \A left \in g : left[1] # n BY <2>1 DEF Agrees, GoneOf
  <2> QED BY <2>1, <2>2
<1>14. g2 = g BY <1>13 DEF g2
<1>15. /\ \A m \in Nodes : w2[m] = IF q = o /\ m = n THEN opt ELSE w[m]
       /\ opt # None
  BY DEF w2
<1>16. ToSet(ns) \subseteq ToSet(ns2) /\ (q = o => n \in ToSet(ns2))
  <2>1. CASE q = o
    <3>1. Len(ns) \in Nat /\ DOMAIN ns = 1 .. Len(ns) /\ DOMAIN Append(ns, n) = 1 .. Len(ns) + 1
          /\ Append(ns, n)[Len(ns) + 1] = n /\ \A i \in 1 .. Len(ns) : Append(ns, n)[i] = ns[i]
      OBVIOUS
    <3>2. ToSet(ns) \subseteq ToSet(Append(ns, n)) /\ n \in ToSet(Append(ns, n)) BY ONLY <3>1 DEF ToSet
    <3> QED BY <2>1, <3>2 DEF ns2
  <2>2. CASE q # o BY <2>2 DEF ns2
  <2> QED BY <2>1, <2>2
<1>17. OwnOf(reg2, tables2, q, w2, ns2)
  <2> SUFFICES ASSUME NEW m \in Nodes
               PROVE  /\ w2[m] # None => \E i \in DOMAIN tables2[m] : IsOwn(reg2, tables2, q, m, i)
                      /\ \A i \in DOMAIN tables2[m] : IsOwn(reg2, tables2, q, m, i) =>
                            /\ w2[m] # None /\ reg2[tables2[m][i]].options = w2[m] /\ m \in ToSet(ns2)
                            /\ \A j \in DOMAIN tables2[m] : OfObserver(reg2, tables2, q, m, j) /\ j # i =>
                                  j > i /\ reg2[tables2[m][j]].target # m
    BY DEF OwnOf
  <2>0. /\ w[m] # None => \E i \in DOMAIN tables[m] : IsOwn(reg, tables, q, m, i)
        /\ \A i \in DOMAIN tables[m] : IsOwn(reg, tables, q, m, i) =>
              /\ w[m] # None /\ reg[tables[m][i]].options = w[m] /\ m \in ToSet(ns)
              /\ \A j \in DOMAIN tables[m] : OfObserver(reg, tables, q, m, j) /\ j # i =>
                    j > i /\ reg[tables[m][j]].target # m
    BY DEF Agrees, OwnOf
  <2>a. \A i \in DOMAIN tables[m] : tables[m][i] \in 1 .. L BY <1>9 DEF ToSet
  <2>1. CASE m = n /\ q = o
    <3>1. \A i \in 1 .. c + 1 : OfObserver(reg2, tables2, q, m, i) <=> i = c + 1
      <4> SUFFICES ASSUME NEW i \in 1 .. c + 1 PROVE OfObserver(reg2, tables2, q, m, i) <=> i = c + 1 OBVIOUS
      <4>1. CASE i = c + 1
        <5>1. reg2[tables2[m][i]].observer = o BY <1>2, <1>3, <1>7, <2>1, <4>1
        <5> QED BY <1>7, <2>1, <4>1, <5>1 DEF OfObserver
      <4>2. CASE i \in 1 .. c
        <5>1. tables2[m][i] = t[i] /\ t[i] \in 1 .. L BY <1>5, <1>7, <2>1, <2>a, <4>2
        <5>2. reg2[tables2[m][i]] = reg[t[i]] BY <1>2, <5>1
        <5>3. reg[t[i]].observer # o BY <1>5, <4>2 DEF OfObserver
        <5>4. i # c + 1 BY <1>5, <4>2
        <5> QED BY <2>1, <5>2, <5>3, <5>4 DEF OfObserver
      <4> QED BY <1>5, <4>1, <4>2
    <3>2. c + 1 \in 1 .. c + 1 BY <1>5
    <3>3. IsOwn(reg2, tables2, q, m, c + 1) BY <1>2, <1>3, <1>7, <2>1, <3>1, <3>2 DEF IsOwn
    <3>4. reg2[tables2[m][c + 1]].options = w2[m] BY <1>2, <1>3, <1>7, <1>15, <2>1
    <3>5. DOMAIN tables2[m] = 1 .. c + 1 /\ w2[m] # None /\ m \in ToSet(ns2) BY <1>7, <1>15, <1>16, <2>1
    <3>6. \A i \in DOMAIN tables2[m] : IsOwn(reg2, tables2, q, m, i) => i = c + 1 BY <3>1, <3>5 DEF IsOwn
    <3>7. \A j \in DOMAIN tables2[m] : OfObserver(reg2, tables2, q, m, j) => j = c + 1 BY <3>1, <3>5
    <3> HIDE DEF reg2, tables2, w2, ns2, c
    <3> QED BY ONLY <3>2, <3>3, <3>4, <3>5, <3>6, <3>7
  <2>2. CASE m # n
    <3>1. tables2[m] = tables[m] /\ w2[m] = w[m] BY <1>6, <1>15, <2>2
    <3>2. \A i \in DOMAIN tables[m] : reg2[tables2[m][i]] = reg[tables[m][i]] BY <1>2, <2>a, <3>1
    <3>3. \A i : /\ OfObserver(reg2, tables2, q, m, i) <=> OfObserver(reg, tables, q, m, i)
                 /\ IsOwn(reg2, tables2, q, m, i) <=> IsOwn(reg, tables, q, m, i)
      BY <3>1, <3>2 DEF OfObserver, IsOwn
    <3> QED BY <1>16, <2>0, <3>1, <3>2, <3>3
  <2>3. CASE m = n /\ q # o
    <3>1. w2[m] = w[m] BY <1>15, <2>3
    <3>2. \A i \in DOMAIN tables[m] : i \in DOMAIN tables2[m] /\ tables2[m][i] = tables[m][i]
                                      /\ reg2[tables2[m][i]] = reg[tables[m][i]]
      <4> SUFFICES ASSUME NEW i \in DOMAIN tables[m]
                   PROVE  i \in DOMAIN tables2[m] /\ tables2[m][i] = tables[m][i]
                          /\ reg2[tables2[m][i]] = reg[tables[m][i]]
        OBVIOUS
      <4>1. i \in 1 .. c BY <1>5, <2>3
      <4>2. i \in 1 .. c + 1 BY <1>5, <4>1
      <4>3. i \in DOMAIN tables2[m] /\ tables2[m][i] = tables[m][i] BY <1>7, <2>3, <4>1, <4>2
      <4> QED BY <1>2, <2>a, <4>3
    <3>3. \A i \in DOMAIN tables2[m] : OfObserver(reg2, tables2, q, m, i) => i \in DOMAIN tables[m]
      <4> SUFFICES ASSUME NEW i \in DOMAIN tables2[m], OfObserver(reg2, tables2, q, m, i), i \notin 1 .. c PROVE FALSE
        BY <1>5, <2>3
      <4>1. i = c + 1 BY <1>5, <1>7, <2>3
      <4> QED BY <1>2, <1>3, <1>7, <2>3, <4>1 DEF OfObserver
    <3>4. \A i \in DOMAIN tables2[m] :
                 /\ OfObserver(reg2, tables2, q, m, i) <=> OfObserver(reg, tables, q, m, i)
                 /\ IsOwn(reg2, tables2, q, m, i) <=> IsOwn(reg, tables, q, m, i)
      <4> SUFFICES ASSUME NEW i \in DOMAIN tables2[m]
                   PROVE  /\ OfObserver(reg2, tables2, q, m, i) <=> OfObserver(reg, tables, q, m, i)
                          /\ IsOwn(reg2, tables2, q, m, i) <=> IsOwn(reg, tables, q, m, i)
        OBVIOUS
      <4>1. OfObserver(reg2, tables2, q, m, i) => OfObserver(reg, tables, q, m, i) BY <3>2, <3>3 DEF OfObserver
      <4>2. OfObserver(reg, tables, q, m, i) => OfObserver(reg2, tables2, q, m, i) BY <3>2 DEF OfObserver
      <4>3. i \in DOMAIN tables[m] => reg2[tables2[m][i]] = reg[tables[m][i]] BY <3>2
      <4> QED BY <4>1, <4>2, <4>3, <3>3 DEF IsOwn, OfObserver
    <3> QED BY <1>16, <2>0, <3>1, <3>2, <3>3, <3>4 DEF IsOwn
  <2> QED BY <2>1, <2>2, <2>3
<1>18. TransientsOf(reg2, tables2, q, g2)
  <2> SUFFICES ASSUME NEW m \in Nodes, NEW r \in On(reg2, tables2, q, m), reg2[r].target # m
               PROVE  <<reg2[r].target, m>> \in g /\ r \in ToSet(tables2[reg2[r].target])
    BY <1>14 DEF TransientsOf
  <2>1. r \in On(reg, tables, q, m) BY <1>2, <1>3, <1>11
  <2>2. r \in 1 .. L /\ reg2[r] = reg[r] BY <1>2, <1>9, <2>1 DEF On
  <2>3. <<reg[r].target, m>> \in g /\ r \in ToSet(tables[reg[r].target]) BY <2>1, <2>2 DEF Agrees, TransientsOf
  <2>4. reg[r].target \in Nodes
    <3>1. reg[r] \in Registration BY ONLY <1>1, <2>2
    <3> QED BY <3>1 DEF Registration
  <2>5. ToSet(tables[reg[r].target]) \subseteq ToSet(tables2[reg[r].target]) BY <1>6, <1>8, <2>4
  <2> QED BY <2>2, <2>3, <2>5
<1>19. GoneOf(reg2, tables2, q, w2, g2)
  <2> SUFFICES ASSUME NEW left \in g
               PROVE  /\ left \in Nodes \X Nodes /\ left[1] # left[2]
                      /\ w2[left[1]] # None /\ w2[left[1]].subtree
                      /\ \E r \in On(reg2, tables2, q, left[2]) : reg2[r].target = left[1]
    BY <1>14 DEF GoneOf
  <2>1. /\ left \in Nodes \X Nodes /\ left[1] # left[2]
        /\ w[left[1]] # None /\ w[left[1]].subtree
        /\ \E r \in On(reg, tables, q, left[2]) : reg[r].target = left[1]
    BY DEF Agrees, GoneOf
  <2>2. PICK r \in On(reg, tables, q, left[2]) : reg[r].target = left[1] BY <2>1
  <2>3. left[1] \in Nodes /\ left[2] \in Nodes BY <2>1
  <2>4. r \in 1 .. L /\ reg2[r] = reg[r] BY <1>2, <1>9, <2>3 DEF On
  <2>5. w2[left[1]] = w[left[1]] BY <1>13, <1>15, <2>1, <2>3
  <2> QED BY <1>11, <2>1, <2>2, <2>3, <2>4, <2>5
<1>20. CountsOf(reg2, tables2, q)
  <2> SUFFICES ASSUME NEW r \in 1 .. L + 1, reg2[r].observer = q, NEW m \in Nodes, m # reg2[r].target
               PROVE  TimesIn(r, tables2[m]) <= TimesIn(m, reg2[r].transientObservedNodes)
    BY <1>2 DEF CountsOf
  <2>1. CASE r = L + 1
    <3>1. m # n /\ reg2[r].transientObservedNodes = <<>> BY <1>2, <1>3, <2>1
    <3>2. tables2[m] = tables[m] /\ tables[m] \in Seq(1 .. L) /\ r \notin ToSet(tables[m])
      BY <1>4, <1>6, <1>9, <1>10, <2>1, <3>1
    <3>3. TimesIn(r, tables[m]) = 0 BY ONLY <3>2, TimesArePlaces
    <3>4. <<>> \in Seq(Nodes) OBVIOUS
    <3>5. TimesIn(m, <<>>) \in Nat BY ONLY <3>4, TimesArePlaces
    <3> QED BY <3>1, <3>2, <3>3, <3>5
  <2>2. CASE r \in 1 .. L
    <3>1. reg2[r] = reg[r] /\ r \in DOMAIN reg BY <1>1, <1>2, <2>2
    <3>2. TimesIn(r, tables[m]) <= TimesIn(m, reg[r].transientObservedNodes)
      BY <3>1 DEF Agrees, CountsOf
    <3>3. TimesIn(r, tables2[m]) = TimesIn(r, tables[m])
      <4>1. CASE m = n
        <5>1. t \in Seq(1 .. L + 1) /\ L + 1 \in 1 .. L + 1 /\ r # L + 1
          <6>1. 1 .. L \subseteq 1 .. L + 1 /\ L + 1 \in 1 .. L + 1 BY <1>1 DEF L
          <6>2. t \in Seq(1 .. L + 1)
            <7> HIDE DEF t
            <7> QED BY ONLY <1>5, <6>1, WiderSeq
          <6> QED BY <1>10, <2>2, <6>1, <6>2
        <5> HIDE DEF t
        <5>2. TimesIn(r, Append(t, L + 1)) = TimesIn(r, t) + IF r = L + 1 THEN 1 ELSE 0
          BY ONLY <5>1, TimesInAppended
        <5>3. TimesIn(r, t) \in Nat BY ONLY <5>1, TimesArePlaces
        <5>4. TimesIn(r, Append(t, L + 1)) = TimesIn(r, t) BY ONLY <5>1, <5>2, <5>3
        <5> QED BY <1>6, <4>1, <5>4 DEF t
      <4>2. CASE m # n BY <1>6, <4>2
      <4> QED BY <4>1, <4>2
    <3> QED BY <3>1, <3>2, <3>3
  <2> QED BY <1>1, <2>1, <2>2 DEF L
<1> QED BY <1>17, <1>18, <1>19, <1>20 DEF Agrees, reg2, new, tables2, w2, ns2, g2

(***************************************************************************)
(* disconnect.                                                             *)
(***************************************************************************)
AtMostOne(s, rs) == \A i, j \in 1 .. Len(s) : s[i] \in rs /\ s[j] \in rs => i = j

\* What is thinned has at most as many of rs.
LEMMA ThinnedOnce ==
  ASSUME NEW A, NEW s \in Seq(A), NEW u \in Seq(A), NEW K, NEW rs, Thinned(u, s, K), AtMostOne(s, rs)
  PROVE  AtMostOne(u, rs)
<1>1. PICK h \in [1 .. Len(u) -> 1 .. Len(s)] :
        /\ \A i, j \in 1 .. Len(u) : i < j => h[i] < h[j]
        /\ \A i \in 1 .. Len(u) : u[i] = s[h[i]]
  BY DEF Thinned
<1> SUFFICES ASSUME NEW i \in 1 .. Len(u), NEW j \in 1 .. Len(u), u[i] \in rs, u[j] \in rs PROVE i = j
  BY DEF AtMostOne
<1>2. h[i] \in 1 .. Len(s) /\ h[j] \in 1 .. Len(s) /\ s[h[i]] \in rs /\ s[h[j]] \in rs BY <1>1
<1>3. h[i] = h[j] BY <1>2 DEF AtMostOne
<1>4. i < j \/ j < i \/ i = j OBVIOUS
<1>5. h[i] \in Int BY <1>2
<1> QED BY <1>1, <1>3, <1>4, <1>5

\* One of rs is taken off each of the nodes: nothing else goes, and a node that had
\* no more than one has none.
Cleared(u, t, rs, nodes, A) ==
    \A n \in Nodes :
        /\ Thinned(u[n], t[n], A \ rs)
        /\ n \in ToSet(nodes) /\ AtMostOne(t[n], rs) => ToSet(u[n]) \cap rs = {}

\* RemovedOn takes all of rs off the nodes where there is one at most.
LEMMA RemovedOnClears ==
  ASSUME NEW A, NEW t \in [Nodes -> Seq(A)], NEW rs, NEW nodes \in Seq(Nodes)
  PROVE  RemovedOn(t, rs, nodes) \in [Nodes -> Seq(A)] /\ Cleared(RemovedOn(t, rs, nodes), t, rs, nodes, A)
<1> DEFINE c == Len(nodes)
           Done(k, n) == \E j \in 1 .. k : nodes[j] = n
           Left(x, k) == \A n \in Nodes : /\ Thinned(x[n], t[n], A \ rs)
                                          /\ Done(k, n) /\ AtMostOne(t[n], rs) => ToSet(x[n]) \cap rs = {}
           T == [k \in 0 .. c |-> {x \in [Nodes -> Seq(A)] : Left(x, k)}]
<1>1. c \in Nat /\ DOMAIN nodes = 1 .. c /\ \A k \in 1 .. c : nodes[k] \in Nodes OBVIOUS
<1>2. t \in [Nodes -> Seq(A)] /\ nodes \in Seq(Nodes) OBVIOUS
<1>3. \A k \in 0 .. c : \A x : x \in T[k] <=> x \in [Nodes -> Seq(A)] /\ Left(x, k) OBVIOUS
<1> HIDE DEF c, T
<1>4. t \in T[0]
  <2>1. \A n \in Nodes : Thinned(t[n], t[n], A \ rs)
    <3> SUFFICES ASSUME NEW n \in Nodes PROVE Thinned(t[n], t[n], A \ rs) OBVIOUS
    <3>1. t[n] \in Seq(A) OBVIOUS
    <3> QED BY ONLY <3>1, ThinnedSame
  <2>2. Left(t, 0)
    <3>1. \A n : ~ Done(0, n) OBVIOUS
    <3> HIDE DEF Done
    <3> QED BY <2>1, <3>1
  <2>3. 0 \in 0 .. c BY <1>1
  <2> QED BY ONLY <1>2, <1>3, <2>2, <2>3
<1>5. ASSUME NEW k \in 1 .. c, NEW x \in T[k - 1] PROVE Removed(x, rs, nodes[k]) \in T[k]
  <2> DEFINE m == nodes[k]
             y == Removed(x, rs, m)
  <2>1. k \in 0 .. c /\ k - 1 \in 0 .. c /\ m \in Nodes BY <1>1
  <2>2. x \in [Nodes -> Seq(A)] /\ Left(x, k - 1) BY <1>3, <2>1
  <2>3. \A n : Done(k, n) => n = m \/ Done(k - 1, n)
    <3>1. \A j \in 1 .. k : j = k \/ j \in 1 .. k - 1 BY <1>1
    <3> QED BY <3>1
  <2> HIDE DEF m, Done
  <2>4. y \in [Nodes -> Seq(A)] /\ OneOff(y, x, rs, m)
    <3>1. x \in [Nodes -> Seq(A)] BY <2>2
    <3> QED BY ONLY <2>1, <3>1, RemovedProperties
  <2> HIDE DEF y, Left
  <2>5. ASSUME NEW n \in Nodes, n # m
        PROVE  Thinned(y[n], t[n], A \ rs) /\ (Done(k, n) /\ AtMostOne(t[n], rs) => ToSet(y[n]) \cap rs = {})
    <3>1. y[n] = x[n] BY <2>4, <2>5 DEF OneOff
    <3> QED BY <2>2, <2>3, <2>5, <3>1 DEF Left
  <2>6. Thinned(y[m], t[m], A \ rs) /\ (AtMostOne(t[m], rs) => ToSet(y[m]) \cap rs = {})
    <3>0. x[m] \in Seq(A) /\ y[m] \in Seq(A) /\ t[m] \in Seq(A) BY <1>2, <2>1, <2>2, <2>4
    <3>1. Thinned(x[m], t[m], A \ rs) BY <2>1, <2>2 DEF Left
    <3>2. CASE ToSet(x[m]) \cap rs = {} /\ y = x BY <3>1, <3>2
    <3>3. CASE \E i \in 1 .. Len(x[m]) : x[m][i] \in rs /\ y[m] = RemoveAt(x[m], i)
      <4>1. PICK i \in 1 .. Len(x[m]) : x[m][i] \in rs /\ y[m] = RemoveAt(x[m], i) BY <3>3
      <4>2. Thinned(y[m], x[m], A \ rs)
        <5>1. x[m][i] \notin A \ rs BY <4>1
        <5> QED BY ONLY <3>0, <4>1, <5>1, ThinnedRemoval
      <4>3. Thinned(y[m], t[m], (A \ rs) \cap (A \ rs)) BY ONLY <3>0, <3>1, <4>2, ThinnedTwice
      <4>4. ASSUME AtMostOne(t[m], rs) PROVE ToSet(y[m]) \cap rs = {}
        <5>1. AtMostOne(x[m], rs) BY ONLY <3>0, <3>1, <4>4, ThinnedOnce
        <5>2. /\ Len(x[m]) \in Nat /\ Len(y[m]) = Len(x[m]) - 1
              /\ \A j \in 1 .. Len(x[m]) - 1 : y[m][j] = IF j < i THEN x[m][j] ELSE x[m][j + 1]
          BY ONLY <3>0, <4>1, RemoveAtProperties
        <5>3. \A j \in 1 .. Len(x[m]) : j # i => x[m][j] \notin rs BY <4>1, <5>1 DEF AtMostOne
        <5>4. ASSUME NEW j \in 1 .. Len(x[m]) - 1 PROVE y[m][j] \notin rs
          <6>1. CASE j < i
            <7>1. j \in 1 .. Len(x[m]) /\ j # i BY <5>2, <6>1
            <7> QED BY <5>2, <5>3, <6>1, <7>1
          <6>2. CASE ~ (j < i)
            <7>1. j + 1 \in 1 .. Len(x[m]) /\ j + 1 # i BY <4>1, <5>2, <6>2
            <7> QED BY <5>2, <5>3, <6>2, <7>1
          <6> QED BY <6>1, <6>2
        <5>5. DOMAIN y[m] = 1 .. Len(x[m]) - 1 BY <3>0, <5>2
        <5> QED BY <5>4, <5>5 DEF ToSet
      <4>5. Thinned(y[m], t[m], A \ rs) BY <4>3
      <4> QED BY ONLY <4>4, <4>5
    <3> QED BY <2>4, <3>2, <3>3 DEF OneOff
  <2>7. Left(y, k)
    <3> SUFFICES ASSUME NEW n \in Nodes
                 PROVE  Thinned(y[n], t[n], A \ rs) /\ (Done(k, n) /\ AtMostOne(t[n], rs) => ToSet(y[n]) \cap rs = {})
      BY DEF Left
    <3>1. CASE n = m BY <2>6, <3>1
    <3> QED BY <2>5, <3>1
  <2>8. y \in T[k] BY ONLY <1>3, <2>1, <2>4, <2>7
  <2> QED BY <2>8 DEF y, m
<1> DEFINE u == RemovedOn(t, rs, nodes)
<1>6. u \in T[c]
  <2>1. \A k \in 1 .. Len(nodes) : \A x \in T[k - 1] : Removed(x, rs, nodes[k]) \in T[k] BY <1>5 DEF c
  <2>2. RemovedOn(t, rs, nodes) \in T[Len(nodes)] BY ONLY <1>2, <1>4, <2>1, RemovedOnStays
  <2> QED BY <2>2 DEF c
<1> HIDE DEF u
<1>7. u \in [Nodes -> Seq(A)] /\ Left(u, c)
  <2>1. c \in 0 .. c BY <1>1
  <2> QED BY <1>3, <1>6, <2>1
<1>8. Cleared(u, t, rs, nodes, A)
  <2>1. \A n : n \in ToSet(nodes) => Done(c, n) BY <1>1 DEF ToSet
  <2> HIDE DEF Done
  <2> QED BY <1>7, <2>1 DEF Cleared
<1> QED BY <1>7, <1>8 DEF u

\* With nothing gone, each node has one registration of o at most, and disconnect leaves none.
LEMMA DisconnectAgrees ==
  ASSUME NEW reg, RegistrationsOK(reg), NEW tables \in Tables(reg), NEW o, NEW ns \in Seq(Nodes),
         NEW w, Agrees(reg, tables, o, w, ns, {}), NEW own, own = {r \in DOMAIN reg : reg[r].observer = o}
  PROVE  Agrees(reg, RemovedOn(tables, own, ns), o, [n \in Nodes |-> None], ns, {})
<1> DEFINE D == DOMAIN reg
           u == RemovedOn(tables, own, ns)
           w1 == [n \in Nodes |-> None]
<1>1. tables \in [Nodes -> Seq(D)] BY DEF Tables
<1>2. u \in [Nodes -> Seq(D)] /\ Cleared(u, tables, own, ns, D) BY <1>1, RemovedOnClears
<1> HIDE DEF u
<1>3. ASSUME NEW n \in Nodes PROVE On(reg, u, o, n) = {}
  <2> SUFFICES ASSUME NEW r \in ToSet(u[n]), r \in own PROVE FALSE
    <3>1. u[n] \in Seq(D) BY <1>2
    <3>2. ToSet(u[n]) \subseteq D BY <3>1 DEF ToSet
    <3> QED BY <3>2 DEF On
  <2>1. Thinned(u[n], tables[n], D \ own) BY <1>2 DEF Cleared
  <2>2. u[n] \in Seq(D) /\ tables[n] \in Seq(D) BY <1>1, <1>2
  <2> HIDE DEF D
  <2>3. ToSet(u[n]) \subseteq ToSet(tables[n]) BY ONLY <2>1, <2>2, ThinnedElements
  <2>4. DOMAIN tables[n] = 1 .. Len(tables[n]) BY <2>2
  <2>5. \A p \in On(reg, tables, o, n) : reg[p].target = n BY DEF Agrees, TransientsOf
  <2>6. \A i \in DOMAIN tables[n] : tables[n][i] \in own => IsOwn(reg, tables, o, n, i)
    BY <2>5 DEF On, IsOwn, OfObserver, ToSet
  <2>7. PICK i \in DOMAIN tables[n] : tables[n][i] = r BY <2>3 DEF ToSet
  <2>8. n \in ToSet(ns) BY <2>6, <2>7 DEF Agrees, OwnOf
  <2>9. AtMostOne(tables[n], own)
    <3> SUFFICES ASSUME NEW j \in DOMAIN tables[n], NEW k \in DOMAIN tables[n],
                        tables[n][j] \in own, tables[n][k] \in own, j # k
                 PROVE  FALSE
      BY <2>4 DEF AtMostOne
    <3>1. IsOwn(reg, tables, o, n, j) /\ IsOwn(reg, tables, o, n, k) BY <2>6
    <3>2. reg[tables[n][k]].target # n BY <3>1 DEF Agrees, OwnOf, IsOwn
    <3> QED BY <3>1, <3>2 DEF IsOwn
  <2> QED BY <1>2, <2>8, <2>9 DEF Cleared
<1>4. \A n \in Nodes : \A i \in DOMAIN u[n] : ~ OfObserver(reg, u, o, n, i)
  BY <1>3 DEF On, OfObserver, ToSet
<1>5. OwnOf(reg, u, o, w1, ns) BY <1>4 DEF OwnOf, IsOwn
<1>6. TransientsOf(reg, u, o, {}) BY <1>3 DEF TransientsOf
<1>7. GoneOf(reg, u, o, w1, {}) BY DEF GoneOf
<1>8. CountsOf(reg, u, o)
  <2> SUFFICES ASSUME NEW r \in D, reg[r].observer = o, NEW n \in Nodes
               PROVE  TimesIn(r, u[n]) <= TimesIn(n, reg[r].transientObservedNodes)
    BY DEF CountsOf
  <2>1. r \notin ToSet(u[n]) BY <1>3 DEF On
  <2>2. u[n] \in Seq(D) BY <1>2
  <2>3. reg[r].transientObservedNodes \in Seq(Nodes)
    <3>1. reg \in Seq(Registration) /\ r \in DOMAIN reg BY DEF RegistrationsOK
    <3>2. reg[r] \in Registration BY ONLY <3>1
    <3> QED BY ONLY <3>2 DEF Registration
  <2> HIDE DEF D
  <2>4. TimesIn(r, u[n]) = 0 BY ONLY <2>1, <2>2, TimesArePlaces
  <2>5. TimesIn(n, reg[r].transientObservedNodes) \in Nat BY ONLY <2>3, TimesArePlaces
  <2> QED BY ONLY <2>4, <2>5
<1> QED BY <1>5, <1>6, <1>7, <1>8 DEF Agrees, u

(***************************************************************************)
(* removeChild: the registrations that follow the node.                    *)
(***************************************************************************)
\* What registerTransientObservers makes of the registrations and of the tables.
Followed(reg, rs, n) ==
    [r \in DOMAIN reg |-> [reg[r] EXCEPT !.transientObservedNodes = @ \o [k \in 1 .. TimesIn(r, rs) |-> n]]]

\* A registration that follows n names it once more for each time it is put on n.
LEMMA FollowedValues ==
  ASSUME NEW reg, RegistrationsOK(reg), NEW n \in Nodes, NEW rs \in Seq(DOMAIN reg),
         NEW r \in DOMAIN reg
  PROVE  /\ reg[r] \in Registration /\ Followed(reg, rs, n)[r] \in Registration
         /\ Followed(reg, rs, n)[r].observer = reg[r].observer
         /\ Followed(reg, rs, n)[r].target = reg[r].target
         /\ Followed(reg, rs, n)[r].options = reg[r].options
         /\ \A m \in Nodes : TimesIn(m, Followed(reg, rs, n)[r].transientObservedNodes) =
                TimesIn(m, reg[r].transientObservedNodes) + IF m = n THEN TimesIn(r, rs) ELSE 0
<1> DEFINE q == reg[r]
           s == q.transientObservedNodes
           c == TimesIn(r, rs)
           copies == [k \in 1 .. c |-> n]
           f == Followed(reg, rs, n)[r]
<1>1. q \in Registration
  <2>1. reg \in Seq(Registration) /\ r \in DOMAIN reg BY DEF RegistrationsOK
  <2> QED BY ONLY <2>1
<1>2. s \in Seq(Nodes) BY <1>1 DEF Registration
<1>3. rs \in Seq(DOMAIN reg) OBVIOUS
<1>4. c \in Nat BY ONLY <1>3, TimesArePlaces
<1> HIDE DEF c
<1>5. copies \in Seq(Nodes) /\ DOMAIN copies = 1 .. c /\ \A k \in 1 .. c : copies[k] = n BY <1>4
<1>6. f = [q EXCEPT !.transientObservedNodes = s \o copies] BY DEF Followed, c
<1> HIDE DEF f, copies, s
<1>7. s \o copies \in Seq(Nodes) BY <1>2, <1>5
<1> DEFINE v == s \o copies
<1> HIDE DEF v, q
<1>8. f = [observer |-> q.observer, target |-> q.target, options |-> q.options, transientObservedNodes |-> v]
  BY <1>1, <1>6 DEF Registration, v
<1>9. f \in Registration
  <2>1. v \in Seq(Nodes) BY <1>7 DEF v
  <2> QED BY <1>1, <1>8, <2>1 DEF Registration
<1>10. ASSUME NEW m \in Nodes PROVE TimesIn(m, v) = TimesIn(m, s) + IF m = n THEN c ELSE 0
  <2>1. TimesIn(m, v) = TimesIn(m, s) + TimesIn(m, copies) BY ONLY <1>2, <1>5, TimesInBoth DEF v
  <2>2. CASE m = n
    <3>1. TimesIn(m, copies) = c BY ONLY <1>4, <2>2, TimesInCopies DEF copies
    <3> QED BY <2>1, <2>2, <3>1
  <2>3. CASE m # n
    <3>1. m \notin ToSet(copies) BY <1>5, <2>3 DEF ToSet
    <3>2. TimesIn(m, copies) = 0 BY ONLY <1>5, <3>1, TimesArePlaces
    <3> QED BY <2>1, <2>3, <3>2
  <2> QED BY <2>2, <2>3
<1> QED BY <1>1, <1>8, <1>9, <1>10 DEF f, q, c, s

\* They do not follow their own targets.
LEMMA FollowedTypes ==
  ASSUME NEW reg, RegistrationsOK(reg), NEW tables \in Tables(reg), NEW n \in Nodes,
         NEW rs \in Seq(DOMAIN reg), \A r \in ToSet(rs) : reg[r].target # n
  PROVE  RegistrationsOK(Followed(reg, rs, n)) /\ [tables EXCEPT ![n] = @ \o rs] \in Tables(Followed(reg, rs, n))
<1> DEFINE reg2 == Followed(reg, rs, n)
           L == Len(reg)
<1>1. reg \in Seq(Registration) /\ L \in Nat /\ DOMAIN reg = 1 .. L BY DEF RegistrationsOK
<1>2. DOMAIN reg2 = 1 .. L BY <1>1 DEF Followed
<1>3. \A r \in 1 .. L :
         /\ reg[r] \in Registration /\ reg2[r] \in Registration /\ reg2[r].target = reg[r].target
         /\ \A m \in Nodes : TimesIn(m, reg2[r].transientObservedNodes) =
                TimesIn(m, reg[r].transientObservedNodes) + IF m = n THEN TimesIn(r, rs) ELSE 0
  <2> SUFFICES ASSUME NEW r \in 1 .. L
               PROVE  /\ reg[r] \in Registration /\ reg2[r] \in Registration /\ reg2[r].target = reg[r].target
                      /\ \A m \in Nodes : TimesIn(m, reg2[r].transientObservedNodes) =
                             TimesIn(m, reg[r].transientObservedNodes) + IF m = n THEN TimesIn(r, rs) ELSE 0
    OBVIOUS
  <2>1. r \in DOMAIN reg /\ RegistrationsOK(reg) /\ n \in Nodes /\ rs \in Seq(DOMAIN reg) BY <1>1
  <2> QED BY ONLY <2>1, FollowedValues
<1>4. reg2 \in Seq(Registration)
  <2>1. reg2 = [r \in 1 .. L |-> reg2[r]] BY <1>1, <1>2 DEF Followed
  <2> HIDE DEF reg2, L
  <2> QED BY <1>1, <1>3, <2>1
<1> HIDE DEF reg2, L
<1>5. \A r \in 1 .. L : reg2[r].target \notin ToSet(reg2[r].transientObservedNodes)
  <2> SUFFICES ASSUME NEW r \in 1 .. L PROVE reg2[r].target \notin ToSet(reg2[r].transientObservedNodes) OBVIOUS
  <2> DEFINE m == reg[r].target
             s == reg[r].transientObservedNodes
             v == reg2[r].transientObservedNodes
  <2>1. m \in Nodes /\ s \in Seq(Nodes) /\ v \in Seq(Nodes) BY <1>3 DEF Registration
  <2>2. m \notin ToSet(s) BY <1>1 DEF RegistrationsOK
  <2>3. TimesIn(m, v) = TimesIn(m, s) + IF m = n THEN TimesIn(r, rs) ELSE 0 BY <1>3, <2>1
  <2>4. m = n => r \notin ToSet(rs) OBVIOUS
  <2>5. rs \in Seq(DOMAIN reg) OBVIOUS
  <2> HIDE DEF m, s, v
  <2>6. TimesIn(m, s) = 0 BY ONLY <2>1, <2>2, TimesArePlaces
  <2>7. m = n => TimesIn(r, rs) = 0 BY ONLY <2>4, <2>5, TimesArePlaces
  <2>8. TimesIn(m, v) = 0 BY <2>3, <2>6, <2>7
  <2>9. m \notin ToSet(v) BY ONLY <2>1, <2>8, TimesArePlaces
  <2> QED BY <1>3, <2>9 DEF m, v
<1>6. [tables EXCEPT ![n] = @ \o rs] \in [Nodes -> Seq(1 .. L)] BY <1>1 DEF Tables
<1> QED BY <1>2, <1>4, <1>5, <1>6 DEF RegistrationsOK, Tables, reg2

\* What leaves the subtrees that an observer watches, when n leaves a node whose
\* ancestors, and itself, are P.
Leaving(w, g, n, P) ==
    {<<m, n>> : m \in {k \in Nodes :
        /\ w[k] # None /\ w[k].subtree
        /\ k # n
        /\ (k \in P \/ \E left \in g : left[1] = k /\ left[2] \in P)}}

\* What leaves the subtrees that o watches, and that is all, gets the registrations of o.
LEMMA FollowedAgrees ==
  ASSUME NEW reg, RegistrationsOK(reg), NEW tables \in Tables(reg), NEW n \in Nodes,
         NEW rs \in Seq(DOMAIN reg), NEW P, P \subseteq Nodes,
         ToSet(rs) = {r \in DOMAIN reg : /\ reg[r].options.subtree /\ reg[r].target # n
                                         /\ \E m \in P : r \in ToSet(tables[m])},
         NEW o, NEW w, NEW ns, NEW g, Agrees(reg, tables, o, w, ns, g)
  PROVE  Agrees(Followed(reg, rs, n), [tables EXCEPT ![n] = @ \o rs], o, w, ns, g \cup Leaving(w, g, n, P))
<1> DEFINE D == DOMAIN reg
           reg2 == Followed(reg, rs, n)
           tables2 == [tables EXCEPT ![n] = @ \o rs]
           t == tables[n]
           c == Len(t)
           d == Len(rs)
           g2 == g \cup Leaving(w, g, n, P)
<1>1. \A m \in Nodes : tables[m] \in Seq(D) /\ ToSet(tables[m]) \subseteq D
  <2>1. \A m \in Nodes : tables[m] \in Seq(D) BY DEF Tables
  <2> QED BY <2>1 DEF ToSet
<1>2. t \in Seq(D) /\ rs \in Seq(D) /\ c \in Nat /\ d \in Nat /\ DOMAIN t = 1 .. c /\ DOMAIN rs = 1 .. d
  BY <1>1
<1>3. tables2[n] = t \o rs /\ \A m \in Nodes \ {n} : tables2[m] = tables[m] BY DEF Tables
<1> HIDE DEF tables2, reg2, g2
<1>4. /\ DOMAIN tables2[n] = 1 .. c + d
      /\ \A i \in 1 .. c + d : tables2[n][i] = IF i <= c THEN t[i] ELSE rs[i - c]
  <2> HIDE DEF t, D
  <2>1. /\ Len(t \o rs) = c + d /\ t \o rs \in Seq(D)
        /\ \A i \in 1 .. c + d : (t \o rs)[i] = IF i <= c THEN t[i] ELSE rs[i - c]
    BY ONLY <1>2, SMTT(30)
  <2> QED BY <1>2, <1>3, <2>1
<1>5. ToSet(tables2[n]) = ToSet(t) \cup ToSet(rs) /\ tables2[n] \in Seq(D)
  <2> HIDE DEF t, D
  <2>1. t \o rs \in Seq(D) /\ ToSet(t \o rs) = ToSet(t) \cup ToSet(rs) BY ONLY <1>2, ElementsOfBoth
  <2> QED BY ONLY <1>3, <2>1
<1>6. DOMAIN reg2 = D /\ \A r \in D :
         /\ reg[r] \in Registration
         /\ reg2[r].observer = reg[r].observer /\ reg2[r].target = reg[r].target
         /\ reg2[r].options = reg[r].options
         /\ \A m \in Nodes : TimesIn(m, reg2[r].transientObservedNodes) =
                TimesIn(m, reg[r].transientObservedNodes) + IF m = n THEN TimesIn(r, rs) ELSE 0
  <2>1. DOMAIN reg2 = D BY DEF Followed, reg2
  <2>2. ASSUME NEW r \in D
        PROVE  /\ reg[r] \in Registration
               /\ reg2[r].observer = reg[r].observer /\ reg2[r].target = reg[r].target
               /\ reg2[r].options = reg[r].options
               /\ \A m \in Nodes : TimesIn(m, reg2[r].transientObservedNodes) =
                     TimesIn(m, reg[r].transientObservedNodes) + IF m = n THEN TimesIn(r, rs) ELSE 0
    <3>1. r \in DOMAIN reg /\ RegistrationsOK(reg) /\ n \in Nodes /\ rs \in Seq(DOMAIN reg) OBVIOUS
    <3> QED BY ONLY <3>1, FollowedValues DEF reg2
  <2> QED BY <2>1, <2>2
<1>7. \A r \in ToSet(rs) : r \in D /\ reg[r].options.subtree /\ reg[r].target # n
                           /\ \E m \in P : r \in ToSet(tables[m])
  OBVIOUS
<1>8. \A m \in Nodes : ToSet(tables[m]) \subseteq ToSet(tables2[m]) BY <1>3, <1>5
<1>9. \A m \in Nodes : \A r : r \in On(reg2, tables2, o, m) <=>
            r \in On(reg, tables, o, m) \/ (m = n /\ r \in ToSet(rs) /\ reg[r].observer = o)
  <2> SUFFICES ASSUME NEW m \in Nodes, NEW r
               PROVE  r \in On(reg2, tables2, o, m) <=>
                         r \in On(reg, tables, o, m) \/ (m = n /\ r \in ToSet(rs) /\ reg[r].observer = o)
    OBVIOUS
  <2>1. r \in ToSet(tables2[m]) <=> r \in ToSet(tables[m]) \/ (m = n /\ r \in ToSet(rs)) BY <1>3, <1>5
  <2>2. r \in ToSet(tables2[m]) => reg2[r].observer = reg[r].observer BY <1>1, <1>6, <1>7, <2>1
  <2> QED BY <2>1, <2>2 DEF On
\* A subtree registration is one of a subtree that is watched, and is on its target.
<1>10. ASSUME NEW m \in Nodes, NEW r \in On(reg, tables, o, m)
       PROVE  /\ w[reg[r].target] # None /\ reg[r].options = w[reg[r].target]
              /\ r \in ToSet(tables[reg[r].target]) /\ reg[r].target \in Nodes
              /\ reg[r].target # m => <<reg[r].target, m>> \in g
  <2> DEFINE k == reg[r].target
  <2>1. r \in ToSet(tables[m]) /\ reg[r].observer = o /\ r \in D BY <1>1 DEF On
  <2>2. k \in Nodes BY <1>6, <2>1 DEF Registration
  <2>3. r \in ToSet(tables[k]) /\ (k # m => <<k, m>> \in g) BY <2>1 DEF Agrees, TransientsOf
  <2>4. PICK i \in DOMAIN tables[k] : tables[k][i] = r BY <2>3 DEF ToSet
  <2>5. IsOwn(reg, tables, o, k, i) BY <2>1, <2>4 DEF IsOwn, OfObserver
  <2>6. w[k] # None /\ reg[r].options = w[k] BY <2>2, <2>4, <2>5 DEF Agrees, OwnOf
  <2> QED BY <2>2, <2>3, <2>6
<1>11. OwnOf(reg2, tables2, o, w, ns)
  <2> SUFFICES ASSUME NEW m \in Nodes
               PROVE  /\ w[m] # None => \E i \in DOMAIN tables2[m] : IsOwn(reg2, tables2, o, m, i)
                      /\ \A i \in DOMAIN tables2[m] : IsOwn(reg2, tables2, o, m, i) =>
                            /\ w[m] # None /\ reg2[tables2[m][i]].options = w[m] /\ m \in ToSet(ns)
                            /\ \A j \in DOMAIN tables2[m] : OfObserver(reg2, tables2, o, m, j) /\ j # i =>
                                  j > i /\ reg2[tables2[m][j]].target # m
    BY DEF OwnOf
  <2>0. /\ w[m] # None => \E i \in DOMAIN tables[m] : IsOwn(reg, tables, o, m, i)
        /\ \A i \in DOMAIN tables[m] : IsOwn(reg, tables, o, m, i) =>
              /\ w[m] # None /\ reg[tables[m][i]].options = w[m] /\ m \in ToSet(ns)
              /\ \A j \in DOMAIN tables[m] : OfObserver(reg, tables, o, m, j) /\ j # i =>
                    j > i /\ reg[tables[m][j]].target # m
    BY DEF Agrees, OwnOf
  <2>a. \A i \in DOMAIN tables[m] : tables[m][i] \in D BY <1>1 DEF ToSet
  <2>1. CASE m # n
    <3>1. tables2[m] = tables[m] BY <1>3, <2>1
    <3>2. \A i \in DOMAIN tables[m] :
             /\ OfObserver(reg2, tables2, o, m, i) <=> OfObserver(reg, tables, o, m, i)
             /\ IsOwn(reg2, tables2, o, m, i) <=> IsOwn(reg, tables, o, m, i)
      BY <1>6, <2>a, <3>1 DEF OfObserver, IsOwn
    <3> QED BY <1>6, <2>0, <2>a, <3>1, <3>2
  <2>2. CASE m = n
    <3>1. \A i \in 1 .. c : i \in DOMAIN tables[m] /\ i \in DOMAIN tables2[m] /\ tables2[m][i] = tables[m][i]
      <4> SUFFICES ASSUME NEW i \in 1 .. c
                   PROVE  i \in DOMAIN tables[m] /\ i \in DOMAIN tables2[m] /\ tables2[m][i] = tables[m][i]
        OBVIOUS
      <4>1. i \in 1 .. c + d /\ i <= c BY <1>2
      <4> QED BY <1>2, <1>4, <2>2, <4>1
    <3>2. \A i \in 1 .. c : /\ OfObserver(reg2, tables2, o, m, i) <=> OfObserver(reg, tables, o, m, i)
                            /\ IsOwn(reg2, tables2, o, m, i) <=> IsOwn(reg, tables, o, m, i)
                            /\ reg2[tables2[m][i]].options = reg[tables[m][i]].options
                            /\ reg2[tables2[m][i]].target = reg[tables[m][i]].target
      <4> SUFFICES ASSUME NEW i \in 1 .. c
                   PROVE  /\ OfObserver(reg2, tables2, o, m, i) <=> OfObserver(reg, tables, o, m, i)
                          /\ IsOwn(reg2, tables2, o, m, i) <=> IsOwn(reg, tables, o, m, i)
                          /\ reg2[tables2[m][i]].options = reg[tables[m][i]].options
                          /\ reg2[tables2[m][i]].target = reg[tables[m][i]].target
        OBVIOUS
      <4>1. i \in DOMAIN tables[m] /\ i \in DOMAIN tables2[m] /\ tables2[m][i] = tables[m][i] /\ tables[m][i] \in D
        BY <2>a, <3>1
      <4> QED BY <1>6, <4>1 DEF OfObserver, IsOwn
    <3>3. \A i \in DOMAIN tables2[m] : i \notin 1 .. c => reg2[tables2[m][i]].target # m /\ i > c
      <4> SUFFICES ASSUME NEW i \in 1 .. c + d, i \notin 1 .. c PROVE reg2[tables2[m][i]].target # m /\ i > c
        BY <1>4, <2>2
      <4>1. i - c \in 1 .. d /\ i > c /\ ~ (i <= c) BY <1>2
      <4>2. tables2[m][i] = rs[i - c] BY <1>4, <2>2, <4>1
      <4>3. rs[i - c] \in ToSet(rs) BY <1>2, <4>1 DEF ToSet
      <4> QED BY <1>6, <1>7, <2>2, <4>1, <4>2, <4>3
    <3>4. DOMAIN tables[m] = 1 .. c BY <1>2, <2>2
    <3>5. ASSUME w[m] # None PROVE \E i \in DOMAIN tables2[m] : IsOwn(reg2, tables2, o, m, i)
      BY <2>0, <3>1, <3>2, <3>4, <3>5
    <3>6. ASSUME NEW i \in DOMAIN tables2[m], IsOwn(reg2, tables2, o, m, i)
          PROVE  /\ w[m] # None /\ reg2[tables2[m][i]].options = w[m] /\ m \in ToSet(ns)
                 /\ \A j \in DOMAIN tables2[m] : OfObserver(reg2, tables2, o, m, j) /\ j # i =>
                       j > i /\ reg2[tables2[m][j]].target # m
      <4>1. i \in 1 .. c BY <3>3, <3>6 DEF IsOwn
      <4>2. IsOwn(reg, tables, o, m, i) BY <3>2, <3>6, <4>1
      <4>3. /\ w[m] # None /\ reg[tables[m][i]].options = w[m] /\ m \in ToSet(ns)
            /\ \A j \in DOMAIN tables[m] : OfObserver(reg, tables, o, m, j) /\ j # i =>
                  j > i /\ reg[tables[m][j]].target # m
        BY <2>0, <3>4, <4>1, <4>2
      <4>4. ASSUME NEW j \in DOMAIN tables2[m], OfObserver(reg2, tables2, o, m, j), j # i
            PROVE  j > i /\ reg2[tables2[m][j]].target # m
        <5>1. CASE j \in 1 .. c
          <6>1. OfObserver(reg, tables, o, m, j) BY <3>2, <4>4, <5>1
          <6> QED BY <3>2, <3>4, <4>3, <4>4, <5>1, <6>1
        <5>2. CASE j \notin 1 .. c
          <6>1. reg2[tables2[m][j]].target # m /\ j > c BY <3>3, <5>2
          <6>2. j \in Int BY <1>2, <1>4, <2>2
          <6> QED BY <1>2, <4>1, <6>1, <6>2
        <5> QED BY <5>1, <5>2
      <4>5. reg2[tables2[m][i]].options = w[m] BY <3>2, <4>1, <4>3
      <4> QED BY <4>3, <4>4, <4>5
    <3> QED BY <3>5, <3>6
  <2> QED BY <2>1, <2>2
<1>12. TransientsOf(reg2, tables2, o, g2)
  <2> SUFFICES ASSUME NEW m \in Nodes, NEW r \in On(reg2, tables2, o, m), reg2[r].target # m
               PROVE  <<reg2[r].target, m>> \in g2 /\ r \in ToSet(tables2[reg2[r].target])
    BY DEF TransientsOf
  <2>1. CASE r \in On(reg, tables, o, m)
    <3>1. r \in D BY <1>1, <2>1 DEF On
    <3>2. reg2[r].target = reg[r].target BY <1>6, <3>1
    <3>3. reg[r].target \in Nodes /\ r \in ToSet(tables[reg[r].target]) /\ <<reg[r].target, m>> \in g
      BY <1>10, <2>1, <3>2
    <3> QED BY <1>8, <3>2, <3>3 DEF g2
  <2>2. CASE m = n /\ r \in ToSet(rs) /\ reg[r].observer = o
    <3>1. r \in D /\ reg[r].options.subtree /\ reg[r].target # n BY <1>7, <2>2
    <3>2. PICK k \in P : r \in ToSet(tables[k]) BY <1>7, <2>2
    <3>3. k \in Nodes /\ r \in On(reg, tables, o, k) BY <2>2, <3>2 DEF On
    <3> DEFINE q == reg[r].target
    <3>4. /\ w[q] # None /\ reg[r].options = w[q] /\ r \in ToSet(tables[q]) /\ q \in Nodes
          /\ q # k => <<q, k>> \in g
      BY <1>10, <3>3
    <3>5. reg2[r].target = q BY <1>6, <3>1
    <3>6. <<q, n>> \in Leaving(w, g, n, P)
      <4>1. w[q].subtree /\ q # n BY <3>1, <3>4
      <4>2. q \in P \/ \E left \in g : left[1] = q /\ left[2] \in P
        <5>1. CASE q = k BY <5>1
        <5>2. CASE q # k
          <6>1. <<q, k>> \in g /\ <<q, k>>[1] = q /\ <<q, k>>[2] = k BY <3>4, <5>2
          <6> QED BY ONLY <6>1, k \in P
        <5> QED BY <5>1, <5>2
      <4> QED BY <3>4, <4>1, <4>2 DEF Leaving
    <3> QED BY <1>8, <2>2, <3>4, <3>5, <3>6 DEF g2
  <2> QED BY <1>9, <2>1, <2>2
<1>13. GoneOf(reg2, tables2, o, w, g2)
  <2> SUFFICES ASSUME NEW left \in g2
               PROVE  /\ left \in Nodes \X Nodes /\ left[1] # left[2]
                      /\ w[left[1]] # None /\ w[left[1]].subtree
                      /\ \E r \in On(reg2, tables2, o, left[2]) : reg2[r].target = left[1]
    BY DEF GoneOf
  <2>0. \A l \in g : /\ l \in Nodes \X Nodes /\ l[1] # l[2]
                     /\ w[l[1]] # None /\ w[l[1]].subtree
                     /\ \E r \in On(reg, tables, o, l[2]) : reg[r].target = l[1]
    BY DEF Agrees, GoneOf
  <2>1. CASE left \in g
    <3>1. PICK r \in On(reg, tables, o, left[2]) : reg[r].target = left[1] BY <2>0, <2>1
    <3>2. left[2] \in Nodes BY <2>0, <2>1
    <3>3. r \in D BY <1>1, <3>1, <3>2 DEF On
    <3>4. r \in On(reg2, tables2, o, left[2]) /\ reg2[r].target = left[1] BY <1>6, <1>9, <3>1, <3>2, <3>3
    <3> QED BY <2>0, <2>1, <3>4
  <2>2. CASE left \in Leaving(w, g, n, P)
    <3>1. PICK q \in Nodes : /\ left = <<q, n>> /\ w[q] # None /\ w[q].subtree /\ q # n
                             /\ (q \in P \/ \E l \in g : l[1] = q /\ l[2] \in P)
      BY <2>2 DEF Leaving
    <3>2. PICK k \in P : \E r \in On(reg, tables, o, k) : reg[r].target = q
      <4>1. CASE q \in P
        <5>1. PICK i \in DOMAIN tables[q] : IsOwn(reg, tables, o, q, i) BY <3>1 DEF Agrees, OwnOf
        <5>2. tables[q][i] \in On(reg, tables, o, q) /\ reg[tables[q][i]].target = q
          BY <5>1 DEF On, ToSet, IsOwn, OfObserver
        <5> QED BY <4>1, <5>2
      <4>2. CASE \E l \in g : l[1] = q /\ l[2] \in P BY <2>0, <4>2
      <4> QED BY <3>1, <4>1, <4>2
    <3>3. PICK r \in On(reg, tables, o, k) : reg[r].target = q BY <3>2
    <3>4. k \in Nodes BY <3>2
    <3>5. r \in ToSet(tables[k]) /\ r \in D /\ reg[r].observer = o BY <1>1, <3>3, <3>4 DEF On
    <3>6. reg[r].options.subtree BY <1>10, <3>1, <3>3, <3>4
    <3>7. r \in ToSet(rs) BY <3>1, <3>2, <3>3, <3>5, <3>6
    <3>8. r \in On(reg2, tables2, o, n) /\ reg2[r].target = q BY <1>6, <1>9, <3>3, <3>5, <3>7
    <3> QED BY <3>1, <3>8
  <2> QED BY <2>1, <2>2 DEF g2
<1>14. CountsOf(reg2, tables2, o)
  <2> SUFFICES ASSUME NEW r \in D, reg[r].observer = o, NEW m \in Nodes, m # reg[r].target
               PROVE  TimesIn(r, tables2[m]) <= TimesIn(m, reg2[r].transientObservedNodes)
    BY <1>6 DEF CountsOf
  <2> DEFINE s == reg[r].transientObservedNodes
  <2>1. TimesIn(r, tables[m]) <= TimesIn(m, s) BY DEF Agrees, CountsOf
  <2>2. TimesIn(m, reg2[r].transientObservedNodes) = TimesIn(m, s) + IF m = n THEN TimesIn(r, rs) ELSE 0
    BY <1>6
  <2>3. CASE m # n
    <3>1. tables2[m] = tables[m] BY <1>3, <2>3
    <3>2. s \in Seq(Nodes) BY <1>6 DEF Registration
    <3>3. TimesIn(m, s) \in Nat BY ONLY <3>2, TimesArePlaces
    <3>4. TimesIn(m, reg2[r].transientObservedNodes) = TimesIn(m, s) BY <2>2, <2>3, <3>3
    <3> QED BY <2>1, <3>1, <3>4
  <2>4. CASE m = n
    <3> HIDE DEF t, D
    <3>1. TimesIn(r, t \o rs) = TimesIn(r, t) + TimesIn(r, rs) BY ONLY <1>2, TimesInBoth
    <3>2. TimesIn(r, t) \in Nat /\ TimesIn(r, rs) \in Nat BY ONLY <1>2, TimesArePlaces
    <3>3. s \in Seq(Nodes) BY <1>6 DEF Registration
    <3> HIDE DEF s
    <3>4. TimesIn(m, s) \in Nat BY ONLY <3>3, TimesArePlaces
    <3>5. TimesIn(r, t) <= TimesIn(m, s) BY <2>1, <2>4 DEF t
    <3>6. TimesIn(r, tables2[m]) = TimesIn(r, t) + TimesIn(r, rs) BY <1>3, <2>4, <3>1
    <3>7. TimesIn(m, reg2[r].transientObservedNodes) = TimesIn(m, s) + TimesIn(r, rs) BY <2>2, <2>4
    <3> QED BY ONLY <3>2, <3>4, <3>5, <3>6, <3>7
  <2> QED BY <2>3, <2>4
<1> QED BY <1>11, <1>12, <1>13, <1>14 DEF Agrees, reg2, tables2, g2

(***************************************************************************)
(* notifyObservers: an observer is left without transient registrations.   *)
(***************************************************************************)
LEMMA OwnRenewed ==
  ASSUME NEW h, HeapOK(h), NEW o, NEW w, NEW ns, OwnOf(h.reg, h.table, o, w, ns),
         NEW n \in Nodes, NEW i \in DOMAIN h.table[n], IsOwn(h.reg, h.table, o, n, i)
  PROVE  ForRegistrations(h, o, n, <<>>).reg[h.table[n][i]].transientObservedNodes = <<>>
<1> DEFINE H == [reg : Seq(Registration), table : [Nodes -> Seq(DOMAIN h.reg)]]
           s == h.table[n]
           c == Len(s)
           r == s[i]
           Renewed(x) == x.reg[r].transientObservedNodes = <<>>
           In(x, k) == Lighter(x, h, o, <<>>) /\ (k < i => x = h) /\ (k >= i => Renewed(x))
           T == [k \in 0 .. c |-> {x \in H : In(x, k)}]
<1>0. <<>> \in OptionLists BY DEF OptionLists
<1>1. s \in Seq(DOMAIN h.reg) BY DEF HeapOK, Tables
<1>2. c \in Nat /\ DOMAIN s = 1 .. c /\ i \in 1 .. c /\ \A k \in 1 .. c : s[k] \in DOMAIN h.reg BY <1>1
<1>3. h.reg[r].observer = o /\ r \in DOMAIN h.reg BY <1>2 DEF IsOwn, OfObserver
<1>4. \A k \in 1 .. c : k < i => h.reg[s[k]].observer # o
  <2> SUFFICES ASSUME NEW k \in 1 .. c, k < i, h.reg[s[k]].observer = o PROVE FALSE OBVIOUS
  <2>1. OfObserver(h.reg, h.table, o, n, k) BY <1>2 DEF OfObserver
  <2>2. k # i BY <1>2
  <2>3. k > i BY <2>1, <2>2 DEF OwnOf, OfObserver
  <2> QED BY <1>2, <2>3
<1>5. \A k \in 0 .. c : \A x : x \in T[k] <=> In(x, k)
  <2>1. \A x : Lighter(x, h, o, <<>>) => x \in H
    <3> SUFFICES ASSUME NEW x, Lighter(x, h, o, <<>>) PROVE x \in H OBVIOUS
    <3>1. HeapOK(x) /\ DOMAIN x.reg = DOMAIN h.reg BY DEF Lighter
    <3> QED BY ONLY <3>1, HeapRecord
  <2> HIDE DEF H, Renewed
  <2> QED BY <2>1
<1> HIDE DEF c, T, In
<1>6. 0 \in 0 .. c /\ c \in 0 .. c
      /\ \A k \in 1 .. c : k \in 0 .. c /\ k - 1 \in 0 .. c /\ k \in Nat \ {0}
  BY <1>2
<1>7. h \in T[0]
  <2>1. Lighter(h, h, o, <<>>) BY LighterSame
  <2>2. 0 < i /\ ~ (0 >= i) BY <1>2
  <2>3. In(h, 0) BY <2>1, <2>2 DEF In
  <2> QED BY <1>5, <1>6, <2>3
<1>8. ASSUME NEW k \in 1 .. c, NEW x \in T[k - 1] PROVE TurnOf(x, o, n, <<>>, k) \in T[k]
  <2> DEFINE y == TurnOf(x, o, n, <<>>, k)
  <2>1. In(x, k - 1) BY <1>5, <1>6
  <2>2. Lighter(x, h, o, <<>>) /\ HeapOK(x) BY <2>1 DEF In, Lighter
  <2>3. Lighter(y, x, o, <<>>) BY <1>0, <1>6, <2>2, TurnLighter
  <2>4. Lighter(y, h, o, <<>>)
    <3> HIDE DEF y
    <3> QED BY <2>2, <2>3, LighterTwice
  <2>5. CASE k < i
    <3>1. x = h
      <4>1. k - 1 < i BY <1>2, <2>5
      <4> QED BY <2>1, <4>1 DEF In
    <3>2. h.reg[s[k]].observer # o BY <1>4, <2>5
    <3>3. y = h BY <3>1, <3>2 DEF TurnOf
    <3>4. In(y, k)
      <4>1. ~ (k >= i) BY <1>2, <2>5
      <4> QED BY <2>4, <3>3, <4>1 DEF In
    <3> QED BY <1>5, <1>6, <3>4
  <2>6. CASE k = i
    <3>1. x = h
      <4>1. k - 1 < i BY <1>2, <2>6
      <4> QED BY <2>1, <4>1 DEF In
    <3>2. ~ (k > Len(h.table[n])) BY <1>2 DEF c
    <3>3. y = renewed(h, r, <<>>) BY <1>3, <2>6, <3>1, <3>2 DEF TurnOf
    <3> HIDE DEF r
    <3>4. Renewal(y, h, r, <<>>) BY <1>0, <1>3, <3>3, RenewedIsRenewal
    <3> HIDE DEF y
    <3>5. y.reg[r].transientObservedNodes = <<>>
      <4>1. y.reg[r] = [observer |-> h.reg[r].observer, target |-> h.reg[r].target,
                        options |-> h.reg[r].options, transientObservedNodes |-> <<>>]
        BY <1>3, <3>4 DEF Renewal
      <4> QED BY ONLY <4>1
    <3>6. In(y, k)
      <4>1. ~ (k < i) BY <1>2, <2>6
      <4> QED BY <2>4, <3>5, <4>1 DEF In, r
    <3> QED BY <1>5, <1>6, <3>6 DEF y
  <2>7. CASE k > i
    <3>1. k - 1 >= i /\ ~ (k < i) BY <1>2, <2>7
    <3>2. Renewed(x) BY <2>1, <3>1 DEF In
    <3>3. r \in DOMAIN x.reg BY <1>3, <2>2 DEF Lighter
    <3>4. Renewed(y) BY <2>3, <3>2, <3>3 DEF Lighter
    <3>5. In(y, k) BY <2>4, <3>1, <3>4 DEF In
    <3> QED BY <1>5, <1>6, <3>5
  <2> QED BY <1>2, <2>5, <2>6, <2>7
<1>9. ForRegistrations(h, o, n, <<>>) \in T[c]
  <2>1. \A k \in 1 .. Len(h.table[n]) : \A x \in T[k - 1] : TurnOf(x, o, n, <<>>, k) \in T[k] BY <1>8 DEF c
  <2>2. Len(h.table[n]) \in Nat BY <1>2 DEF c
  <2>3. ForRegistrations(h, o, n, <<>>) \in T[Len(h.table[n])] BY ONLY <1>7, <2>1, <2>2, ForRegistrationsStays
  <2> QED BY <2>3 DEF c
<1>10. In(ForRegistrations(h, o, n, <<>>), c) BY <1>5, <1>6, <1>9
<1>11. c >= i BY <1>2
<1> QED BY <1>10, <1>11 DEF In

\* removeTransientObserversFor renews registrations of the observer, ...
LEMMA NotifiedLighter ==
  ASSUME HeapOK(heap), NEW o, nodes_[o] \in Seq(Nodes)
  PROVE  Lighter(removeTransientObserversFor(o), heap, o, <<>>)
<1> DEFINE H == [reg : Seq(Registration), table : [Nodes -> Seq(DOMAIN heap.reg)]]
           L == {x \in H : Lighter(x, heap, o, <<>>)}
           c == Len(nodes_[o])
           T == [k \in 0 .. c |-> L]
<1>0. <<>> \in OptionLists BY DEF OptionLists
<1>1. \A x : x \in L <=> Lighter(x, heap, o, <<>>)
  <2> SUFFICES ASSUME NEW x, Lighter(x, heap, o, <<>>) PROVE x \in H OBVIOUS
  <2>1. HeapOK(x) /\ DOMAIN x.reg = DOMAIN heap.reg BY DEF Lighter
  <2> QED BY ONLY <2>1, HeapRecord
<1>2. c \in Nat /\ \A k \in 1 .. c : nodes_[o][k] \in Nodes OBVIOUS
<1> HIDE DEF c, L
<1>3. 0 \in 0 .. c /\ c \in 0 .. c /\ \A k \in 1 .. c : k \in 0 .. c /\ k - 1 \in 0 .. c BY <1>2
<1>4. \A k \in 0 .. c : T[k] = L OBVIOUS
<1> HIDE DEF T
<1>5. heap \in T[0] BY <1>1, <1>3, <1>4, LighterSame
<1>6. ASSUME NEW k \in 1 .. c, NEW x \in T[k - 1] PROVE ForRegistrations(x, o, nodes_[o][k], <<>>) \in T[k]
  <2> DEFINE y == ForRegistrations(x, o, nodes_[o][k], <<>>)
  <2>1. Lighter(x, heap, o, <<>>) BY <1>1, <1>3, <1>4
  <2>2. HeapOK(x) BY <2>1 DEF Lighter
  <2>3. Lighter(y, x, o, <<>>) BY <1>0, <1>2, <2>2, ForRegistrationsLighter
  <2> HIDE DEF y
  <2>4. Lighter(y, heap, o, <<>>) BY <2>1, <2>3, LighterTwice
  <2> QED BY <1>1, <1>3, <1>4, <2>4 DEF y
<1>7. removeTransientObserversFor(o) \in T[c]
  <2>1. \A k \in 1 .. Len(nodes_[o]) : \A x \in T[k - 1] : ForRegistrations(x, o, nodes_[o][k], <<>>) \in T[k]
    BY <1>6 DEF c
  <2>2. Len(nodes_[o]) \in Nat BY <1>2 DEF c
  <2>3. removeTransientObserversFor(o) \in T[Len(nodes_[o])] BY ONLY <1>5, <2>1, <2>2, ForNodesStays
  <2> QED BY <2>3 DEF c
<1> QED BY <1>1, <1>3, <1>4, <1>7

\* ... keeps those that observe the node they are on, ...
LEMMA LighterKeepsOwn ==
  ASSUME NEW h0, HeapOK(h0), NEW h, NEW o, Lighter(h, h0, o, <<>>),
         NEW w, NEW ns, OwnOf(h0.reg, h0.table, o, w, ns)
  PROVE  OwnOf(h.reg, h.table, o, w, ns)
<1> DEFINE D == DOMAIN h0.reg
<1>1. h0.table \in [Nodes -> Seq(D)] /\ h.table \in [Nodes -> Seq(D)]
  BY DEF Lighter, HeapOK, Tables
<1>2. \A r \in D : h.reg[r].observer = h0.reg[r].observer /\ h.reg[r].target = h0.reg[r].target
                   /\ h.reg[r].options = h0.reg[r].options
  BY DEF Lighter
<1>3. \A n \in Nodes : Thinned(h.table[n], h0.table[n], {r \in D : h0.reg[r].observer = o /\ h0.reg[r].target = n})
  <2> SUFFICES ASSUME NEW n \in Nodes
               PROVE  Thinned(h.table[n], h0.table[n], {r \in D : h0.reg[r].observer = o /\ h0.reg[r].target = n})
    OBVIOUS
  <2>1. {r \in D : h0.reg[r].observer = o /\ h0.reg[r].target = n} \subseteq Staying(h0.reg, o, n) BY DEF Staying
  <2>2. Thinned(h.table[n], h0.table[n], Staying(h0.reg, o, n)) BY DEF Lighter
  <2> QED BY ONLY <2>1, <2>2, ThinnedFewer
<1>4. \A n \in Nodes : \A r \in ToSet(h.table[n]) : r \in D
  <2> SUFFICES ASSUME NEW n \in Nodes PROVE ToSet(h.table[n]) \subseteq D OBVIOUS
  <2>1. h.table[n] \in Seq(D) BY <1>1
  <2> QED BY ONLY <2>1 DEF ToSet
<1>5. OwnKept(h0.reg, h.reg, D, h0.table, h.table, o, w, w) BY <1>2, <1>3, <1>4 DEF OwnKept
<1> HIDE DEF D
<1> QED BY ONLY <1>1, <1>5, OwnOf(h0.reg, h0.table, o, w, ns), OwnStays

\* The registrations of o that observe the node they are on, on the nodes up to
\* the k-th of ns, have no transient ones in x.
RenewedUpTo(x, h, o, ns, k) ==
    \A j \in 1 .. k : \A i \in DOMAIN h.table[ns[j]] : IsOwn(h.reg, h.table, o, ns[j], i) =>
        x.reg[h.table[ns[j]][i]].transientObservedNodes = <<>>

\* ... and gets to each of them, for the node is in nodes_.
LEMMA OneMoreRenewed ==
  ASSUME NEW h, HeapOK(h), NEW o, NEW w, NEW ns \in Seq(Nodes), OwnOf(h.reg, h.table, o, w, ns),
         NEW k \in 1 .. Len(ns), NEW x, Lighter(x, h, o, <<>>), RenewedUpTo(x, h, o, ns, k - 1)
  PROVE  RenewedUpTo(ForRegistrations(x, o, ns[k], <<>>), h, o, ns, k)
<1> DEFINE n == ns[k]
           y == ForRegistrations(x, o, n, <<>>)
           D == DOMAIN h.reg
<1>0. <<>> \in OptionLists BY DEF OptionLists
<1>1. n \in Nodes /\ HeapOK(x) BY DEF Lighter
<1>2. Lighter(y, x, o, <<>>) BY <1>0, <1>1, ForRegistrationsLighter
<1>3. h.table \in [Nodes -> Seq(D)] /\ x.table \in [Nodes -> Seq(D)] /\ DOMAIN x.reg = D
  BY DEF Lighter, HeapOK, Tables
<1>4. SUFFICES ASSUME NEW j \in 1 .. k, NEW i \in DOMAIN h.table[ns[j]], IsOwn(h.reg, h.table, o, ns[j], i)
               PROVE  y.reg[h.table[ns[j]][i]].transientObservedNodes = <<>>
  BY DEF RenewedUpTo
<1> DEFINE r == h.table[ns[j]][i]
<1>5. r \in D /\ r \in ToSet(h.table[ns[j]]) /\ h.reg[r].observer = o /\ h.reg[r].target = ns[j]
  <2>1. ns[j] \in Nodes OBVIOUS
  <2>2. h.table[ns[j]] \in Seq(D) BY <1>3, <2>1
  <2>3. r \in D BY ONLY <2>2, i \in DOMAIN h.table[ns[j]]
  <2> QED BY <1>4, <2>3 DEF IsOwn, OfObserver, ToSet
<1> HIDE DEF y
<1>6. CASE j # k
  <2>1. j \in 1 .. k - 1 BY <1>6
  <2>2. x.reg[r].transientObservedNodes = <<>> BY <1>4, <2>1 DEF RenewedUpTo
  <2> QED BY <1>2, <1>3, <1>5, <2>2 DEF Lighter
<1>7. CASE j = k
  <2>1. OwnOf(x.reg, x.table, o, w, ns) BY LighterKeepsOwn
  <2>2. r \in Staying(h.reg, o, n) BY <1>5, <1>7 DEF Staying
  <2>3. Thinned(x.table[n], h.table[n], Staying(h.reg, o, n)) BY <1>1 DEF Lighter
  <2>4. h.table[n] \in Seq(D) /\ x.table[n] \in Seq(D) BY <1>1, <1>3
  <2>5. r \in ToSet(h.table[n]) BY <1>5, <1>7
  <2> HIDE DEF r, n, D
  <2>6. ToSet(h.table[n]) \cap Staying(h.reg, o, n) \subseteq ToSet(x.table[n]) BY ONLY <2>3, <2>4, ThinnedElements
  <2>7. PICK i2 \in DOMAIN x.table[n] : x.table[n][i2] = r BY <2>2, <2>5, <2>6 DEF ToSet
  <2>8. IsOwn(x.reg, x.table, o, n, i2)
    <3>1. x.reg[r].observer = o /\ x.reg[r].target = n BY <1>5, <1>7 DEF Lighter, D, n
    <3> QED BY <2>7, <3>1 DEF IsOwn, OfObserver
  <2>9. ForRegistrations(x, o, n, <<>>).reg[x.table[n][i2]].transientObservedNodes = <<>>
    BY ONLY <1>1, <2>1, <2>8, OwnRenewed
  <2> QED BY <2>7, <2>9 DEF y, r
<1> QED BY <1>6, <1>7

\* So in the end it has been to all of them.
LEMMA NotifiedRenewed ==
  ASSUME HeapOK(heap), NEW o, nodes_[o] \in Seq(Nodes), NEW w,
         OwnOf(heap.reg, heap.table, o, w, nodes_[o])
  PROVE  RenewedUpTo(removeTransientObserversFor(o), heap, o, nodes_[o], Len(nodes_[o]))
<1> DEFINE H == [reg : Seq(Registration), table : [Nodes -> Seq(DOMAIN heap.reg)]]
           ns == nodes_[o]
           c == Len(ns)
           In(x, k) == Lighter(x, heap, o, <<>>) /\ RenewedUpTo(x, heap, o, ns, k)
           T == [k \in 0 .. c |-> {x \in H : In(x, k)}]
<1>0. <<>> \in OptionLists BY DEF OptionLists
<1>1. ns \in Seq(Nodes) /\ c \in Nat /\ OwnOf(heap.reg, heap.table, o, w, ns) /\ HeapOK(heap) OBVIOUS
<1>2. \A k \in 0 .. c : \A x : x \in T[k] <=> In(x, k)
  <2>1. \A x : Lighter(x, heap, o, <<>>) => x \in H
    <3> SUFFICES ASSUME NEW x, Lighter(x, heap, o, <<>>) PROVE x \in H OBVIOUS
    <3>1. HeapOK(x) /\ DOMAIN x.reg = DOMAIN heap.reg BY DEF Lighter
    <3> QED BY ONLY <3>1, HeapRecord
  <2> HIDE DEF H, c, ns
  <2> QED BY <2>1
<1> HIDE DEF ns, c, T
<1>3. 0 \in 0 .. c /\ c \in 0 .. c /\ \A k \in 1 .. c : k \in 0 .. c /\ k - 1 \in 0 .. c BY <1>1
<1>4. heap \in T[0]
  <2>1. Lighter(heap, heap, o, <<>>) BY <1>1, LighterSame
  <2>2. RenewedUpTo(heap, heap, o, ns, 0) BY DEF RenewedUpTo
  <2> QED BY <1>2, <1>3, <2>1, <2>2
<1>5. ASSUME NEW k \in 1 .. c, NEW x \in T[k - 1] PROVE ForRegistrations(x, o, ns[k], <<>>) \in T[k]
  <2> DEFINE y == ForRegistrations(x, o, ns[k], <<>>)
  <2>1. Lighter(x, heap, o, <<>>) /\ RenewedUpTo(x, heap, o, ns, k - 1) BY <1>2, <1>3
  <2>2. HeapOK(x) /\ ns[k] \in Nodes
    <3>1. HeapOK(x) BY <2>1 DEF Lighter
    <3>2. ns[k] \in Nodes BY <1>1 DEF c
    <3> QED BY <3>1, <3>2
  <2>3. Lighter(y, x, o, <<>>) BY <1>0, <2>2, ForRegistrationsLighter
  <2>4. RenewedUpTo(y, heap, o, ns, k)
    <3>1. k \in 1 .. Len(ns) BY DEF c
    <3> QED BY ONLY <1>1, <2>1, <3>1, OneMoreRenewed
  <2> HIDE DEF y
  <2>5. Lighter(y, heap, o, <<>>) BY <1>1, <2>1, <2>3, LighterTwice
  <2> QED BY <1>2, <1>3, <2>4, <2>5 DEF y
<1>6. removeTransientObserversFor(o) \in T[c]
  <2>1. \A k \in 1 .. Len(nodes_[o]) : \A x \in T[k - 1] : ForRegistrations(x, o, nodes_[o][k], <<>>) \in T[k]
    BY <1>5 DEF c, ns
  <2>2. Len(nodes_[o]) \in Nat BY <1>1 DEF c, ns
  <2>3. removeTransientObserversFor(o) \in T[Len(nodes_[o])] BY ONLY <1>4, <2>1, <2>2, ForNodesStays
  <2> QED BY <2>3 DEF c, ns
<1> QED BY <1>2, <1>3, <1>6 DEF c, ns

\* After its call an observer has no transient registration, and nothing is gone.
LEMMA NotifiedAgrees ==
  ASSUME HeapOK(heap), NEW o, nodes_[o] \in Seq(Nodes), NEW w, NEW g,
         Agrees(heap.reg, heap.table, o, w, nodes_[o], g)
  PROVE  LET h == removeTransientObserversFor(o)
         IN  Agrees(h.reg, h.table, o, w, nodes_[o], {})
<1> DEFINE h == removeTransientObserversFor(o)
           D == DOMAIN heap.reg
           ns == nodes_[o]
<1>1. Lighter(h, heap, o, <<>>) BY NotifiedLighter
<1>2. OwnOf(heap.reg, heap.table, o, w, ns) /\ CountsOf(heap.reg, heap.table, o)
      /\ TransientsOf(heap.reg, heap.table, o, g)
  BY DEF Agrees
<1>3. RenewedUpTo(h, heap, o, ns, Len(ns)) BY <1>2, NotifiedRenewed
<1> HIDE DEF h, ns
<1>4. OwnOf(h.reg, h.table, o, w, ns) BY <1>1, <1>2, LighterKeepsOwn
<1>5. CountsOf(h.reg, h.table, o) BY <1>1, <1>2 DEF Lighter
<1>6. GoneOf(h.reg, h.table, o, w, {}) BY DEF GoneOf
<1>7. TransientsOf(h.reg, h.table, o, {})
  <2> SUFFICES ASSUME NEW n \in Nodes, NEW r \in On(h.reg, h.table, o, n), h.reg[r].target # n
               PROVE  FALSE
    BY DEF TransientsOf
  <2>1. heap.table \in [Nodes -> Seq(D)] /\ h.table \in [Nodes -> Seq(D)] /\ DOMAIN h.reg = D
    BY <1>1 DEF Lighter, HeapOK, Tables
  <2>2. heap.table[n] \in Seq(D) /\ h.table[n] \in Seq(D) BY <2>1
  <2>3. ToSet(h.table[n]) \subseteq ToSet(heap.table[n]) /\ ToSet(heap.table[n]) \subseteq D
    <3>1. Thinned(h.table[n], heap.table[n], Staying(heap.reg, o, n)) BY <1>1 DEF Lighter
    <3>2. ToSet(heap.table[n]) \subseteq D BY ONLY <2>2 DEF ToSet
    <3> HIDE DEF D
    <3> QED BY ONLY <2>2, <3>1, <3>2, ThinnedElements
  <2>4. r \in D /\ r \in ToSet(h.table[n]) /\ h.reg[r].observer = o BY <2>3 DEF On
  <2>5. heap.reg[r].observer = o /\ heap.reg[r].target = h.reg[r].target BY <1>1, <2>4 DEF Lighter
  <2>6. r \in ToSet(heap.table[heap.reg[r].target])
    <3>1. r \in On(heap.reg, heap.table, o, n) BY <2>3, <2>4, <2>5 DEF On
    <3> QED BY <1>2, <2>5, <3>1 DEF TransientsOf
  <2> DEFINE t == heap.reg[r].target
  <2>7. t \in Nodes
    <3>1. heap.reg \in Seq(Registration) BY DEF HeapOK, RegistrationsOK
    <3>2. heap.reg[r] \in Registration BY ONLY <2>4, <3>1
    <3> QED BY ONLY <3>2 DEF Registration
  <2>8. PICK i \in DOMAIN heap.table[t] : heap.table[t][i] = r BY <2>6 DEF ToSet
  <2>9. IsOwn(heap.reg, heap.table, o, t, i) BY <2>5, <2>8 DEF IsOwn, OfObserver
  <2>10. t \in ToSet(ns) BY <1>2, <2>7, <2>9 DEF OwnOf
  <2>11. PICK j \in 1 .. Len(ns) : ns[j] = t
    <3>1. ns \in Seq(Nodes) BY DEF ns
    <3> QED BY ONLY <2>10, <3>1 DEF ToSet
  <2>12. h.reg[r].transientObservedNodes = <<>> BY <1>3, <2>8, <2>9, <2>11 DEF RenewedUpTo
  <2>13. TimesIn(r, h.table[n]) <= TimesIn(n, <<>>) BY <1>5, <2>1, <2>4, <2>12 DEF CountsOf
  <2>14. TimesIn(n, <<>>) = 0
    <3>1. <<>> \in Seq(Nodes) /\ n \notin ToSet(<<>>) BY DEF ToSet
    <3> QED BY ONLY <3>1, TimesArePlaces
  <2>15. TimesIn(r, h.table[n]) \in Nat /\ (TimesIn(r, h.table[n]) = 0 => r \notin ToSet(h.table[n]))
    BY ONLY <2>2, TimesArePlaces
  <2> QED BY <2>4, <2>13, <2>14, <2>15
<1> QED BY <1>4, <1>5, <1>6, <1>7 DEF Agrees, h, ns

(***************************************************************************)
(* Whom a mutation interests, and whom it concerns.                        *)
(***************************************************************************)
TablesOK ==
    /\ parent \in Tree
    /\ RegistrationsOK(registration) /\ registrations \in Tables(registration)
    /\ nodes_ \in [MutationObservers -> Seq(Nodes)]
    /\ watched \in [MutationObservers -> [Nodes -> Options \cup {None}]]

Tells(o) == Agrees(registration, registrations, o, watched[o], nodes_[o], gone[o])

\* IsAncestor looks for the node on the way up.
LEMMA Ancestors ==
  ASSUME parent \in Tree, NEW m, NEW n \in Nodes
  PROVE  IsAncestor(m, n) <=> m \in ToSet(PathUp(n))
<1>1. PathUp(n) \in Seq(Nodes) BY PathUpProperties
<1>2. DOMAIN PathUp(n) = 1 .. Len(PathUp(n)) BY <1>1
<1> QED BY <1>2 DEF IsAncestor, Contains, ToSet

\* The registration that observes the node it is on has the options watched.
LEMMA OwnOptions ==
  ASSUME NEW reg, NEW tables, NEW o, NEW w, NEW ns, OwnOf(reg, tables, o, w, ns),
         NEW n \in Nodes, NEW r \in ToSet(tables[n]), reg[r].observer = o, reg[r].target = n
  PROVE  w[n] # None /\ reg[r].options = w[n] /\ n \in ToSet(ns)
<1>1. PICK i \in DOMAIN tables[n] : tables[n][i] = r BY DEF ToSet
<1>2. IsOwn(reg, tables, o, n, i) BY <1>1 DEF IsOwn, OfObserver
<1> QED BY <1>1, <1>2 DEF OwnOf

\* A registration that makes o interested is there because o watches its target, and
\* where it is transient the node has left it.
LEMMA InterestedAreConcerned ==
  ASSUME TablesOK, NEW o \in MutationObservers, Tells(o), NEW target \in Nodes, NEW type,
         o \in interestedObservers(target, type)
  PROVE  o \in Concerned(target, type)
<1> DEFINE w == watched[o]
           D == DOMAIN registration
<1>1. OwnOf(registration, registrations, o, w, nodes_[o]) /\ TransientsOf(registration, registrations, o, gone[o])
  BY DEF Tells, Agrees
<1>2a. PICK n \in ToSet(PathUp(target)) : \E i \in DOMAIN registrations[n] :
         /\ registration[registrations[n][i]].observer = o
         /\ n = target \/ registration[registrations[n][i]].options.subtree
         /\ type \in registration[registrations[n][i]].options.types
  BY DEF interestedObservers
<1>2. PICK i \in DOMAIN registrations[n] :
         /\ registration[registrations[n][i]].observer = o
         /\ n = target \/ registration[registrations[n][i]].options.subtree
         /\ type \in registration[registrations[n][i]].options.types
  BY <1>2a
<1> DEFINE r == registrations[n][i]
<1>3. PathUp(target) \in Seq(Nodes) BY PathUpProperties DEF TablesOK
<1>4. n \in Nodes /\ IsAncestor(n, target)
  <2>1. n \in Nodes BY ONLY <1>3, n \in ToSet(PathUp(target)) DEF ToSet
  <2> QED BY <2>1, Ancestors DEF TablesOK
<1>5. r \in ToSet(registrations[n]) /\ r \in D
  <2>1. registrations[n] \in Seq(D) BY <1>4 DEF TablesOK, Tables
  <2>2. r \in D BY ONLY <2>1, i \in DOMAIN registrations[n]
  <2> QED BY <2>2 DEF ToSet
<1>6. registration[r] \in Registration
  <2>1. registration \in Seq(Registration) BY DEF TablesOK, RegistrationsOK
  <2> QED BY ONLY <1>5, <2>1
<1>7. registration[r].target \in Nodes BY ONLY <1>6 DEF Registration
<1> DEFINE t == registration[r].target
<1>8. CASE t = n
  <2>1. w[n] # None /\ registration[r].options = w[n] BY <1>1, <1>2, <1>4, <1>5, <1>8, OwnOptions
  <2> QED BY <1>2, <1>4, <2>1 DEF Concerned
<1>9. CASE t # n
  <2>1. r \in On(registration, registrations, o, n) BY <1>2, <1>5 DEF On
  <2>2. <<t, n>> \in gone[o] /\ r \in ToSet(registrations[t]) BY <1>1, <1>4, <1>9, <2>1 DEF TransientsOf
  <2>3. w[t] # None /\ registration[r].options = w[t] BY <1>1, <1>2, <1>7, <2>2, OwnOptions
  <2>4. \E left \in gone[o] : left[1] = t /\ IsAncestor(left[2], target)
    <3>1. <<t, n>>[1] = t /\ <<t, n>>[2] = n OBVIOUS
    <3> QED BY <1>4, <2>2, <3>1
  <2> HIDE DEF r
  <2>5. w[t] # None /\ type \in w[t].types BY <1>2, <2>3 DEF r
  <2> QED BY <1>7, <2>4, <2>5 DEF Concerned
<1> QED BY <1>8, <1>9

\* What o watches has its registration, and what has left it a transient one with
\* the same options.
LEMMA ConcernedAreInterested ==
  ASSUME TablesOK, NEW o \in MutationObservers, Tells(o), NEW target \in Nodes, NEW type,
         o \in Concerned(target, type)
  PROVE  o \in interestedObservers(target, type)
<1> DEFINE w == watched[o]
           D == DOMAIN registration
<1>1. OwnOf(registration, registrations, o, w, nodes_[o]) /\ TransientsOf(registration, registrations, o, gone[o])
      /\ GoneOf(registration, registrations, o, w, gone[o])
  BY DEF Tells, Agrees
<1>2. PICK n \in Nodes :
            /\ w[n] # None
            /\ type \in w[n].types
            /\ \/ n = target
               \/ w[n].subtree /\ IsAncestor(n, target)
               \/ \E left \in gone[o] : left[1] = n /\ IsAncestor(left[2], target)
  BY DEF Concerned
<1>3. target \in ToSet(PathUp(target)) BY PathUpProperties DEF TablesOK
<1>4. ASSUME NEW m \in ToSet(PathUp(target)), NEW r \in ToSet(registrations[m]),
             registration[r].observer = o, m = target \/ registration[r].options.subtree,
             type \in registration[r].options.types
      PROVE  o \in interestedObservers(target, type)
  <2>1. PICK i \in DOMAIN registrations[m] : registrations[m][i] = r BY DEF ToSet
  <2> QED BY <1>4, <2>1 DEF interestedObservers
<1>5. PICK i \in DOMAIN registrations[n] : IsOwn(registration, registrations, o, n, i)
  BY <1>1, <1>2 DEF OwnOf
<1> DEFINE q == registrations[n][i]
<1>6. q \in ToSet(registrations[n]) /\ registration[q].observer = o /\ registration[q].target = n
  BY <1>5 DEF IsOwn, OfObserver, ToSet
<1>7. registration[q].options = w[n] BY <1>1, <1>6, OwnOptions
<1>8. CASE n = target
  BY <1>2, <1>3, <1>4, <1>6, <1>7, <1>8
<1>9. CASE w[n].subtree /\ IsAncestor(n, target)
  <2>1. n \in ToSet(PathUp(target)) BY <1>9, Ancestors DEF TablesOK
  <2> QED BY <1>2, <1>4, <1>6, <1>7, <1>9, <2>1
<1>10. ASSUME NEW left \in gone[o], left[1] = n, IsAncestor(left[2], target)
       PROVE  o \in interestedObservers(target, type)
  <2>1. /\ left \in Nodes \X Nodes /\ left[1] # left[2]
        /\ w[left[1]] # None /\ w[left[1]].subtree
    BY <1>1 DEF GoneOf
  <2>2. PICK r \in On(registration, registrations, o, left[2]) : registration[r].target = n
    BY <1>1, <1>10 DEF GoneOf
  <2>3. left[2] \in Nodes /\ left[2] # n BY <1>10, <2>1
  <2>4. r \in ToSet(registrations[n]) BY <1>1, <2>2, <2>3 DEF TransientsOf
  <2>5. registration[r].observer = o /\ r \in ToSet(registrations[left[2]]) BY <2>2 DEF On
  <2>6. registration[r].options = w[n] BY <1>1, <2>2, <2>4, <2>5, OwnOptions
  <2>7. left[2] \in ToSet(PathUp(target)) BY <1>10, Ancestors DEF TablesOK
  <2>8. registration[r].options.subtree /\ type \in registration[r].options.types
    BY <1>2, <1>10, <2>1, <2>6
  <2> QED BY <1>4, <2>5, <2>7, <2>8
<1> QED BY <1>2, <1>8, <1>9, <1>10

(***************************************************************************)
(* The invariant: the tables agree with what is watched, and what was told *)
(* and is to be told is what is owed.                                      *)
(***************************************************************************)
HistoryOK ==
    /\ heard \in [MutationObservers -> Seq(Nat)] /\ records_ \in [MutationObservers -> Seq(Nat)]
    /\ owed \in [MutationObservers -> Seq(Nat)] /\ mutations \in Nat
    /\ gone \in [MutationObservers -> SUBSET (Nodes \X Nodes)]

Told(o) == heard[o] \o records_[o] = owed[o]

HeardInv ==
    /\ TablesOK /\ HistoryOK
    /\ \A o \in MutationObservers \ misheard : Tells(o) /\ Told(o)

\* None tells a node that is not watched from one that is.
LEMMA NoneIsNoOption == None \notin Options BY MutationAssumption DEF Options

\* The constructor throws or makes options, whatever it is given.
LEMMA OptionsAreLists ==
  ASSUME NEW raw
  PROVE  MutationObserverOptions(raw) \in OptionLists
<1> DEFINE attributes == IF ~IsGiven(raw.attributes)
                         THEN IsGiven(raw.attributeOldValue) \/ IsGiven(raw.attributeFilter)
                         ELSE IsTrue(raw.attributes)
           x == [subtree |-> IsTrue(raw.subtree),
                 types |-> {t \in RecordTypes : CASE t = "attributes" -> attributes
                                            [] t = "characterData" -> IsTrue(raw.characterData)
                                            [] t = "childList" -> IsTrue(raw.childList)}]
<1>1. x \in Options
  <2>1. IsTrue(raw.subtree) \in BOOLEAN BY DEF IsTrue
  <2>2. x.types \subseteq RecordTypes OBVIOUS
  <2> QED BY <2>1, <2>2 DEF Options
<1>2. MutationObserverOptions(raw) = <<>> \/ MutationObserverOptions(raw) = <<x>>
  BY DEF MutationObserverOptions
<1> HIDE DEF x
<1> QED BY <1>1, <1>2 DEF OptionLists

\* At the start nothing is watched and nothing owed.
LEMMA HeardInit == MutationInit => HeardInv
<1> SUFFICES ASSUME MutationInit PROVE HeardInv OBVIOUS
<1> USE DEF MutationInit
<1>1. TablesOK
  <2>1. parent \in Tree BY MutationAssumption DEF Tree
  <2>2. RegistrationsOK(registration) BY DEF RegistrationsOK
  <2>3. registrations \in Tables(registration) BY DEF Tables
  <2>4. nodes_ \in [MutationObservers -> Seq(Nodes)] OBVIOUS
  <2>5. watched \in [MutationObservers -> [Nodes -> Options \cup {None}]] OBVIOUS
  <2> QED BY <2>1, <2>2, <2>3, <2>4, <2>5 DEF TablesOK
<1>2. HistoryOK
  <2>1. <<>> \in Seq(Nat) OBVIOUS
  <2> QED BY <2>1 DEF HistoryOK
<1>3. ASSUME NEW o \in MutationObservers PROVE Tells(o) /\ Told(o)
  <2>1. \A n \in Nodes : registrations[n] = <<>> /\ watched[o][n] = None OBVIOUS
  <2>2. gone[o] = {} /\ DOMAIN registration = {} OBVIOUS
  <2>3. OwnOf(registration, registrations, o, watched[o], nodes_[o]) BY <2>1 DEF OwnOf, IsOwn, OfObserver
  <2>4. TransientsOf(registration, registrations, o, gone[o]) BY <2>1 DEF TransientsOf, On, ToSet
  <2>5. GoneOf(registration, registrations, o, watched[o], gone[o]) BY <2>2 DEF GoneOf
  <2>6. CountsOf(registration, registrations, o) BY <2>2 DEF CountsOf
  <2>7. Told(o) BY DEF Told
  <2> QED BY <2>3, <2>4, <2>5, <2>6, <2>7 DEF Tells, Agrees
<1> QED BY <1>1, <1>2, <1>3 DEF HeardInv

\* What an observer is told when its records are taken.
LEMMA RecordsTaken ==
  ASSUME HistoryOK, NEW o \in MutationObservers,
         records_' = [records_ EXCEPT ![o] = <<>>],
         heard' = [heard EXCEPT ![o] = @ \o records_[o]], owed' = owed
  PROVE  /\ heard' \in [MutationObservers -> Seq(Nat)] /\ records_' \in [MutationObservers -> Seq(Nat)]
         /\ \A q \in MutationObservers : Told(q) => Told(q)'
<1> USE DEF HistoryOK
<1>1. heard[o] \in Seq(Nat) /\ records_[o] \in Seq(Nat) OBVIOUS
<1>2. heard[o] \o records_[o] \in Seq(Nat) /\ <<>> \in Seq(Nat) BY ONLY <1>1
<1>3. \A q \in MutationObservers : q # o => heard'[q] = heard[q] /\ records_'[q] = records_[q] OBVIOUS
<1>4. heard'[o] = heard[o] \o records_[o] /\ records_'[o] = <<>> OBVIOUS
<1>5. heard'[o] \o records_'[o] = heard[o] \o records_[o] BY ONLY <1>2, <1>4
<1>6. \A q \in MutationObservers : Told(q) => Told(q)' BY <1>3, <1>5 DEF Told
<1> QED BY <1>2, <1>6

\* What a mutation enqueues is what it owes.
LEMMA RecordsEnqueued ==
  ASSUME TablesOK, HistoryOK, NEW target \in Nodes, NEW type,
         Enqueued(interestedObservers(target, type)), Owes(Concerned(target, type)), heard' = heard
  PROVE  /\ records_' \in [MutationObservers -> Seq(Nat)] /\ owed' \in [MutationObservers -> Seq(Nat)]
         /\ \A o \in MutationObservers : Tells(o) /\ Told(o) => Told(o)'
<1> USE DEF HistoryOK, Enqueued, Owes
<1>1. \A s \in Seq(Nat) : Append(s, mutations + 1) \in Seq(Nat) OBVIOUS
<1>2. records_' \in [MutationObservers -> Seq(Nat)] /\ owed' \in [MutationObservers -> Seq(Nat)]
  BY <1>1
<1>3. ASSUME NEW o \in MutationObservers, Tells(o), Told(o) PROVE Told(o)'
  <2>1. o \in interestedObservers(target, type) <=> o \in Concerned(target, type)
    BY <1>3, InterestedAreConcerned, ConcernedAreInterested
  <2> DEFINE x == mutations + 1
             s == heard[o]
             u == records_[o]
  <2>2. s \in Seq(Nat) /\ u \in Seq(Nat) /\ x \in Nat OBVIOUS
  <2>3. CASE o \in Concerned(target, type)
    <3>1. records_'[o] = Append(records_[o], x) /\ owed'[o] = Append(owed[o], x)
      BY <2>1, <2>3
    <3> HIDE DEF x, s, u
    <3>2. s \o Append(u, x) = Append(s \o u, x)
      BY ONLY <2>2, AppendToBoth
    <3> QED BY <1>3, <3>1, <3>2 DEF Told, s, u
  <2>4. CASE o \notin Concerned(target, type)
    BY <1>3, <2>1, <2>4 DEF Told
  <2> QED BY <2>3, <2>4
<1> QED BY <1>2, <1>3

\* disconnect.
LEMMA DisconnectHeard ==
  ASSUME HeardInv, NEW o \in MutationObservers, disconnect(o)
  PROVE  HeardInv'
<1> DEFINE own == {r \in DOMAIN registration : registration[r].observer = o}
           D == DOMAIN registration
           t2 == RemovedOn(registrations, own, nodes_[o])
<1>1. /\ registrations' = t2
      /\ records_' = [records_ EXCEPT ![o] = <<>>]
      /\ watched' = [watched EXCEPT ![o] = [n \in Nodes |-> None]]
      /\ owed' = [owed EXCEPT ![o] = heard[o]]
      /\ gone' = [gone EXCEPT ![o] = {}]
      /\ misheard' = IF gone[o] = {} THEN misheard ELSE misheard \cup {o}
      /\ UNCHANGED <<parent, mutations, registration, nodes_, heard>>
  BY DEF disconnect, lightDom
<1>2. TablesOK /\ HistoryOK BY DEF HeardInv
<1>3. registrations \in [Nodes -> Seq(D)] /\ nodes_[o] \in Seq(Nodes) BY <1>2 DEF TablesOK, Tables
<1> HIDE DEF own
<1>4. t2 \in [Nodes -> Seq(D)] /\ Cleared(t2, registrations, own, nodes_[o], D)
  <2> HIDE DEF D
  <2> QED BY ONLY <1>3, RemovedOnClears
<1> HIDE DEF t2
<1>5. TablesOK'
  <2>1. watched' \in [MutationObservers -> [Nodes -> Options \cup {None}]] BY <1>1, <1>2 DEF TablesOK
  <2> QED BY <1>1, <1>2, <1>4, <2>1 DEF TablesOK, Tables
<1>6. HistoryOK'
  <2>1. <<>> \in Seq(Nat) OBVIOUS
  <2> QED BY <1>1, <1>2, <2>1 DEF HistoryOK
<1>7. ASSUME NEW q \in MutationObservers \ misheard' PROVE Tells(q)' /\ Told(q)'
  <2>1. Tells(q) /\ Told(q) BY <1>1 DEF HeardInv
  <2>2. CASE q = o
    <3>1. gone[o] = {} BY <1>1, <2>2
    <3>2. Agrees(registration, registrations, o, watched[o], nodes_[o], {}) BY <2>1, <2>2, <3>1 DEF Tells
    <3>3. Agrees(registration, t2, o, [n \in Nodes |-> None], nodes_[o], {})
      <4>1. RegistrationsOK(registration) /\ registrations \in Tables(registration) BY <1>2 DEF TablesOK
      <4>2. own = {r \in DOMAIN registration : registration[r].observer = o} BY DEF own
      <4> QED BY ONLY <1>3, <3>2, <4>1, <4>2, DisconnectAgrees DEF t2
    <3>4. watched'[o] = [n \in Nodes |-> None] /\ gone'[o] = {} /\ nodes_'[o] = nodes_[o]
      BY <1>1, <1>2 DEF TablesOK, HistoryOK
    <3>5. Tells(o)' BY <1>1, <3>3, <3>4 DEF Tells
    <3>6. heard'[o] = heard[o] /\ records_'[o] = <<>> /\ owed'[o] = heard[o] /\ heard[o] \in Seq(Nat)
      BY <1>1, <1>2 DEF HistoryOK
    <3>7. Told(o)' BY <3>6 DEF Told
    <3> QED BY <2>2, <3>5, <3>7
  <2>3. CASE q # o
    <3>1. \A n \in Nodes : Thinned(t2[n], registrations[n], {r \in D : registration[r].observer = q})
      <4> SUFFICES ASSUME NEW n \in Nodes
                   PROVE  Thinned(t2[n], registrations[n], {r \in D : registration[r].observer = q})
        OBVIOUS
      <4>1. Thinned(t2[n], registrations[n], D \ own) BY <1>4 DEF Cleared
      <4>2. {r \in D : registration[r].observer = q} \subseteq D \ own BY <2>3 DEF own
      <4> QED BY ONLY <4>1, <4>2, ThinnedFewer
    <3>2. Agrees(registration, t2, q, watched[q], nodes_[q], gone[q])
      <4>1. Agrees(registration, registrations, q, watched[q], nodes_[q], gone[q]) BY <2>1 DEF Tells
      <4>2. RegistrationsOK(registration) BY <1>2 DEF TablesOK
      <4> QED BY ONLY <1>3, <1>4, <3>1, <4>1, <4>2, AgreesStays
    <3>3. watched'[q] = watched[q] /\ gone'[q] = gone[q] /\ nodes_'[q] = nodes_[q]
          /\ heard'[q] = heard[q] /\ records_'[q] = records_[q] /\ owed'[q] = owed[q]
      BY <1>1, <1>2, <2>3 DEF TablesOK, HistoryOK
    <3> QED BY <1>1, <2>1, <3>2, <3>3 DEF Tells, Told
  <2> QED BY <2>2, <2>3
<1> QED BY <1>5, <1>6, <1>7 DEF HeardInv

\* observe.
LEMMA ObserveHeard ==
  ASSUME HeardInv, NEW o \in MutationObservers, NEW n \in Nodes, NEW raw, observe(o, n, raw)
  PROVE  HeardInv'
<1> DEFINE options == MutationObserverOptions(raw)
           opt == options[1]
           mine == {i \in DOMAIN registrations[n] : registration[registrations[n][i]].observer = o}
           left1 == {left \in gone[o] : left[1] = n}
           g2(q) == IF q = o THEN gone[o] \ left1 ELSE gone[q]
           w2(q) == IF q = o THEN [watched[o] EXCEPT ![n] = opt] ELSE watched[q]
<1>1. /\ options # <<>>
      /\ IF mine = {}
         THEN /\ registration' = Append(registration, NewRegistration(o, n, opt))
              /\ registrations' = [registrations EXCEPT ![n] = Append(@, Len(registration) + 1)]
              /\ nodes_' = [nodes_ EXCEPT ![o] = Append(@, n)]
         ELSE SetHeap(ForRegistrations(heap, o, n, options)) /\ UNCHANGED nodes_
      /\ watched' = [watched EXCEPT ![o][n] = opt]
      /\ gone' = [gone EXCEPT ![o] = @ \ left1]
      /\ misheard' = IF \E i \in mine : registration[registrations[n][i]].target # n
                     THEN misheard \cup {o} ELSE misheard
      /\ UNCHANGED <<parent, mutations, records_, heard, owed>>
  BY DEF observe, lightDom, queue, heap, NewRegistration
<1>2. TablesOK /\ HistoryOK BY DEF HeardInv
<1>3. options = <<opt>> /\ opt \in Options /\ <<opt>> \in OptionLists
  <2>1. options \in OptionLists BY OptionsAreLists
  <2> HIDE DEF options
  <2>2. PICK x \in Options : options = <<x>> BY <1>1, <2>1 DEF OptionLists
  <2>3. opt = x BY <2>2
  <2> QED BY <2>2, <2>3 DEF OptionLists
<1> HIDE DEF options, opt, mine, left1
<1>4. \A q \in MutationObservers : watched'[q] = w2(q) /\ gone'[q] = g2(q) /\ heard'[q] = heard[q]
                                   /\ records_'[q] = records_[q] /\ owed'[q] = owed[q]
  BY <1>1, <1>2 DEF TablesOK, HistoryOK
<1>5. watched' \in [MutationObservers -> [Nodes -> Options \cup {None}]]
  BY <1>1, <1>2, <1>3 DEF TablesOK
<1>6. HistoryOK' BY <1>1, <1>2 DEF HistoryOK
<1>7. \A q \in MutationObservers : watched[q] \in [Nodes -> Options \cup {None}] /\ nodes_[q] \in Seq(Nodes)
  BY <1>2 DEF TablesOK
<1>8. \A q \in MutationObservers \ misheard : Agrees(registration, registrations, q, watched[q], nodes_[q], gone[q])
  BY DEF HeardInv, Tells
<1>9. RegistrationsOK(registration) /\ registrations \in Tables(registration) BY <1>2 DEF TablesOK
<1>10. misheard \subseteq misheard' BY <1>1
<1>11. SUFFICES TablesOK' /\ \A q \in MutationObservers \ misheard' : Tells(q)'
  BY <1>4, <1>6, <1>10 DEF HeardInv, Told
<1>12. None \notin Options BY NoneIsNoOption
<1>13. CASE mine = {}
  <2> DEFINE reg2 == Append(registration, NewRegistration(o, n, opt))
             t2 == [registrations EXCEPT ![n] = Append(@, Len(registration) + 1)]
  <2>1. registration' = reg2 /\ registrations' = t2 /\ nodes_' = [nodes_ EXCEPT ![o] = Append(@, n)]
    BY <1>1, <1>13
  <2>2. RegistrationsOK(reg2) /\ t2 \in Tables(reg2) BY ONLY <1>3, <1>9, AddedTypes, o \in MutationObservers, n \in Nodes
  <2>3. nodes_' \in [MutationObservers -> Seq(Nodes)] /\ nodes_'[o] = Append(nodes_[o], n)
        /\ \A q \in MutationObservers : q # o => nodes_'[q] = nodes_[q]
    BY <1>2, <2>1 DEF TablesOK
  <2>4. TablesOK'
    <3> HIDE DEF reg2, t2
    <3> QED BY <1>1, <1>2, <1>5, <2>1, <2>2, <2>3 DEF TablesOK
  <2>5. \A i \in DOMAIN registrations[n] : ~ OfObserver(registration, registrations, o, n, i)
    BY <1>13 DEF OfObserver, mine
  <2>6. ASSUME NEW q \in MutationObservers \ misheard' PROVE Tells(q)'
    <3>1. Agrees(registration, registrations, q, watched[q], nodes_[q], gone[q]) BY <1>8, <1>10
    <3>2. watched[q] \in [Nodes -> Options \cup {None}] /\ nodes_[q] \in Seq(Nodes) BY <1>7
    <3>3. Agrees(reg2, t2, q,
                 IF q = o THEN [watched[q] EXCEPT ![n] = opt] ELSE watched[q], IF q = o THEN Append(nodes_[q], n) ELSE nodes_[q],
                 IF q = o THEN gone[q] \ {left \in gone[q] : left[1] = n} ELSE gone[q])
      BY ONLY <1>3, <1>9, <1>12, <2>5, <3>1, <3>2, ObserveNewAgrees, o \in MutationObservers, n \in Nodes
    <3> HIDE DEF reg2, t2
    <3>4. CASE q = o
      <4>1. Agrees(reg2, t2, o, [watched[o] EXCEPT ![n] = opt], Append(nodes_[o], n), gone[o] \ left1)
        BY <3>3, <3>4 DEF left1
      <4> QED BY <1>4, <2>1, <2>3, <3>4, <4>1 DEF Tells
    <3>5. CASE q # o
      <4>1. Agrees(reg2, t2, q, watched[q], nodes_[q], gone[q]) BY <3>3, <3>5
      <4> QED BY <1>4, <2>1, <2>3, <3>5, <4>1 DEF Tells
    <3> QED BY <3>4, <3>5
  <2> QED BY <2>4, <2>6
<1>14. CASE mine # {}
  <2> DEFINE h == ForRegistrations(heap, o, n, <<opt>>)
  <2>1. registration' = h.reg /\ registrations' = h.table /\ nodes_' = nodes_
    BY <1>1, <1>3, <1>14 DEF SetHeap
  <2>2. HeapOK(heap) /\ heap.reg = registration /\ heap.table = registrations BY <1>9 DEF HeapOK, heap
  <2>3. Lighter(h, heap, o, <<opt>>) BY <1>3, <2>2, ForRegistrationsLighter
  <2>4. TablesOK'
    <3> HIDE DEF h
    <3>1. RegistrationsOK(h.reg) /\ h.table \in Tables(h.reg) BY <2>3 DEF Lighter, HeapOK
    <3> QED BY <1>1, <1>2, <1>5, <2>1, <3>1 DEF TablesOK
  <2>5. ASSUME NEW q \in MutationObservers \ misheard' PROVE Tells(q)'
    <3>1. Agrees(heap.reg, heap.table, q, watched[q], nodes_[q], gone[q]) BY <1>8, <1>10, <2>2
    <3>2. CASE q # o
      <4> HIDE DEF h
      <4>1. Agrees(h.reg, h.table, q, watched[q], nodes_[q], gone[q])
        BY ONLY <2>2, <2>3, <3>1, <3>2, LighterLeavesOthers
      <4> QED BY <1>4, <2>1, <3>2, <4>1 DEF Tells
    <3>3. CASE q = o
      <4>1. \E i \in DOMAIN heap.table[n] : OfObserver(heap.reg, heap.table, o, n, i)
        BY <1>14, <2>2 DEF OfObserver, mine
      <4>2. \A i \in DOMAIN heap.table[n] : OfObserver(heap.reg, heap.table, o, n, i) => heap.reg[heap.table[n][i]].target = n
        BY <1>1, <2>2, <3>3 DEF OfObserver, mine
      <4> DEFINE w == watched[o]
                 ns == nodes_[o]
                 g == gone[o]
      <4>3. w \in [Nodes -> Options \cup {None}] BY <1>7
      <4>4. Agrees(heap.reg, heap.table, o, w, ns, g) BY <3>1, <3>3
      <4>5. Agrees(h.reg, h.table, o, [w EXCEPT ![n] = opt], ns, g \ {left \in g : left[1] = n})
        <5>1. HeapOK(heap) /\ opt \in Options BY <1>3, <2>2
        <5> HIDE DEF w, ns, g
        <5> QED BY ONLY <1>12, <4>1, <4>2, <4>3, <4>4, <5>1, ObserveAgainAgrees, n \in Nodes
      <4> HIDE DEF h
      <4>6. Agrees(h.reg, h.table, o, [watched[o] EXCEPT ![n] = opt], nodes_[o], gone[o] \ left1)
        BY <4>5 DEF left1
      <4> QED BY <1>4, <2>1, <3>3, <4>6 DEF Tells
    <3> QED BY <3>2, <3>3
  <2> QED BY <2>4, <2>5
<1> QED BY <1>13, <1>14

\* removeChild.
LEMMA RemoveHeard ==
  ASSUME HeardInv, NEW n \in Nodes, removeLightChild(n)
  PROVE  HeardInv'
<1> DEFINE p == parent[n]
           rs == transientOf(p, n)
           P == ToSet(PathUp(p))
           reg2 == Followed(registration, rs, n)
           t2 == [registrations EXCEPT ![n] = @ \o rs]
           left(o) == {<<t, n>> : t \in {m \in Nodes :
                        /\ watched[o][m] # None /\ watched[o][m].subtree
                        /\ m # n
                        /\ \/ IsAncestor(m, p)
                           \/ \E g \in gone[o] : g[1] = m /\ IsAncestor(g[2], p)}}
<1>1. /\ p # None
      /\ mutations' = mutations + 1
      /\ parent' = [parent EXCEPT ![n] = None]
      /\ Enqueued(interestedObservers(p, "childList"))
      /\ Owes(Concerned(p, "childList"))
      /\ registerTransientObservers(p, n)
      /\ gone' = [o \in MutationObservers |-> gone[o] \cup left(o)]
      /\ UNCHANGED <<nodes_, heard, watched, misheard>>
  BY DEF removeLightChild
<1>2. TablesOK /\ HistoryOK BY DEF HeardInv
<1>3. p \in Nodes BY <1>1, <1>2 DEF TablesOK, Tree
<1>4. registration' = reg2 /\ registrations' = t2 BY <1>1 DEF registerTransientObservers, Followed
<1>5. RegistrationsOK(registration) /\ registrations \in Tables(registration) /\ parent \in Tree
  BY <1>2 DEF TablesOK
<1> HIDE DEF p, rs, P, left
<1>6. /\ rs \in Seq(DOMAIN registration)
      /\ ToSet(rs) = {r \in DOMAIN registration : /\ registration[r].options.subtree /\ registration[r].target # n
                                                  /\ \E m \in P : r \in ToSet(registrations[m])}
  BY ONLY <1>3, <1>5, TransientOfProperties, n \in Nodes DEF rs, P
<1>7. RegistrationsOK(reg2) /\ t2 \in Tables(reg2)
  <2>1. \A r \in ToSet(rs) : registration[r].target # n BY <1>6
  <2> QED BY ONLY <1>5, <1>6, <2>1, FollowedTypes, n \in Nodes
<1>8. P \subseteq Nodes
  <2>1. PathUp(p) \in Seq(Nodes) BY <1>3, <1>5, PathUpProperties
  <2> QED BY ONLY <2>1 DEF ToSet, P
<1>9. \A o : left(o) = Leaving(watched[o], gone[o], n, P)
  BY <1>3, <1>5, Ancestors DEF left, Leaving, P
<1>10. TablesOK'
  <2>1. parent' \in Tree BY <1>1, <1>5 DEF Tree
  <2> HIDE DEF reg2, t2
  <2> QED BY <1>1, <1>2, <1>4, <1>7, <2>1 DEF TablesOK
<1>11. /\ records_' \in [MutationObservers -> Seq(Nat)] /\ owed' \in [MutationObservers -> Seq(Nat)]
       /\ \A o \in MutationObservers : Tells(o) /\ Told(o) => Told(o)'
  BY <1>1, <1>2, <1>3, RecordsEnqueued
<1>12. HistoryOK'
  <2>1. \A o \in MutationObservers : gone[o] \subseteq Nodes \X Nodes /\ left(o) \subseteq Nodes \X Nodes
    BY <1>2 DEF HistoryOK, left
  <2>2. gone' \in [MutationObservers -> SUBSET (Nodes \X Nodes)] BY <1>1, <2>1
  <2> QED BY <1>1, <1>2, <1>11, <2>2 DEF HistoryOK
<1>13. ASSUME NEW o \in MutationObservers \ misheard PROVE Tells(o)' /\ Told(o)'
  <2>1. Tells(o) /\ Told(o) BY DEF HeardInv
  <2>2. Agrees(registration, registrations, o, watched[o], nodes_[o], gone[o]) BY <2>1 DEF Tells
  <2>3. Agrees(reg2, t2, o, watched[o], nodes_[o], gone[o] \cup Leaving(watched[o], gone[o], n, P))
    BY ONLY <1>5, <1>6, <1>8, <2>2, FollowedAgrees, n \in Nodes
  <2> HIDE DEF reg2, t2
  <2>4. gone'[o] = gone[o] \cup Leaving(watched[o], gone[o], n, P) BY <1>1, <1>9
  <2> QED BY <1>1, <1>4, <1>11, <2>1, <2>3, <2>4 DEF Tells
<1> QED BY <1>1, <1>10, <1>12, <1>13 DEF HeardInv

\* A change of a node, and appendChild.
LEMMA ChangeHeard ==
  ASSUME HeardInv, NEW target \in Nodes, NEW type, parent' \in Tree, enqueueMutation(target, type),
         UNCHANGED <<registration, registrations, gone>>
  PROVE  HeardInv'
<1>1. /\ mutations' = mutations + 1
      /\ Enqueued(interestedObservers(target, type)) /\ Owes(Concerned(target, type))
      /\ UNCHANGED <<nodes_, heard, watched, misheard>>
  BY DEF enqueueMutation
<1>2. TablesOK /\ HistoryOK BY DEF HeardInv
<1>3. TablesOK' BY <1>1, <1>2 DEF TablesOK
<1>4. /\ records_' \in [MutationObservers -> Seq(Nat)] /\ owed' \in [MutationObservers -> Seq(Nat)]
      /\ \A o \in MutationObservers : Tells(o) /\ Told(o) => Told(o)'
  BY <1>1, <1>2, RecordsEnqueued
<1>5. HistoryOK' BY <1>1, <1>2, <1>4 DEF HistoryOK
<1>6. \A o \in MutationObservers \ misheard : Tells(o)' /\ Told(o)'
  BY <1>1, <1>4 DEF HeardInv, Tells
<1> QED BY <1>1, <1>3, <1>5, <1>6 DEF HeardInv

\* takeRecords.
LEMMA TakeHeard ==
  ASSUME HeardInv, NEW o \in MutationObservers, takeRecords(o)
  PROVE  HeardInv'
<1>1. /\ records_' = [records_ EXCEPT ![o] = <<>>] /\ heard' = [heard EXCEPT ![o] = @ \o records_[o]]
      /\ UNCHANGED <<parent, mutations, registration, registrations, nodes_, owed, watched, gone, misheard>>
  BY DEF takeRecords, lightDom, table
<1>2. TablesOK /\ HistoryOK BY DEF HeardInv
<1>3. TablesOK' BY <1>1, <1>2 DEF TablesOK
<1>4. /\ heard' \in [MutationObservers -> Seq(Nat)] /\ records_' \in [MutationObservers -> Seq(Nat)]
      /\ \A q \in MutationObservers : Told(q) => Told(q)'
  BY <1>1, <1>2, RecordsTaken
<1>5. HistoryOK' BY <1>1, <1>2, <1>4 DEF HistoryOK
<1>6. \A q \in MutationObservers \ misheard : Tells(q)' /\ Told(q)'
  BY <1>1, <1>4 DEF HeardInv, Tells
<1> QED BY <1>1, <1>3, <1>5, <1>6 DEF HeardInv

\* notifyObservers takes its next observer.
LEMMA NotifyHeard ==
  ASSUME HeardInv, notifyList \subseteq MutationObservers, NotifyNext
  PROVE  HeardInv'
<1>1. PICK o \in notifyList :
         /\ records_' = [records_ EXCEPT ![o] = <<>>]
         /\ heard' = [heard EXCEPT ![o] = @ \o records_[o]]
         /\ SetHeap(removeTransientObserversFor(o))
         /\ gone' = [gone EXCEPT ![o] = {}]
  BY DEF NotifyNext
<1>2. UNCHANGED <<parent, mutations, nodes_, owed, watched, misheard>> BY DEF NotifyNext, lightDom
<1>3. TablesOK /\ HistoryOK /\ o \in MutationObservers BY DEF HeardInv
<1> DEFINE h == removeTransientObserversFor(o)
<1>4. registration' = h.reg /\ registrations' = h.table BY <1>1 DEF SetHeap
<1>5. HeapOK(heap) /\ heap.reg = registration /\ heap.table = registrations /\ nodes_[o] \in Seq(Nodes)
  BY <1>3 DEF HeapOK, heap, TablesOK
<1>6. Lighter(h, heap, o, <<>>) BY <1>5, NotifiedLighter
<1>7. TablesOK'
  <2> HIDE DEF h
  <2>1. RegistrationsOK(h.reg) /\ h.table \in Tables(h.reg) BY <1>6 DEF Lighter, HeapOK
  <2> QED BY <1>2, <1>3, <1>4, <2>1 DEF TablesOK
<1>8. /\ heard' \in [MutationObservers -> Seq(Nat)] /\ records_' \in [MutationObservers -> Seq(Nat)]
      /\ \A q \in MutationObservers : Told(q) => Told(q)'
  BY <1>1, <1>2, <1>3, RecordsTaken
<1>9. HistoryOK' BY <1>1, <1>2, <1>3, <1>8 DEF HistoryOK
<1>10. ASSUME NEW q \in MutationObservers \ misheard PROVE Tells(q)'
  <2>1. Agrees(heap.reg, heap.table, q, watched[q], nodes_[q], gone[q]) BY <1>5 DEF HeardInv, Tells
  <2>2. CASE q = o
    <3>1. Agrees(heap.reg, heap.table, o, watched[o], nodes_[o], gone[o]) BY <2>1, <2>2
    <3>2. Agrees(h.reg, h.table, o, watched[o], nodes_[o], {}) BY ONLY <1>5, <3>1, NotifiedAgrees
    <3> HIDE DEF h
    <3>3. gone'[o] = {} BY <1>1, <1>3 DEF HistoryOK
    <3> QED BY <1>2, <1>4, <2>2, <3>2, <3>3 DEF Tells
  <2>3. CASE q # o
    <3> HIDE DEF h
    <3>1. Agrees(h.reg, h.table, q, watched[q], nodes_[q], gone[q])
      BY ONLY <1>5, <1>6, <2>1, <2>3, LighterLeavesOthers
    <3>2. gone'[q] = gone[q] BY <1>1, <1>3, <2>3 DEF HistoryOK
    <3> QED BY <1>2, <1>4, <3>1, <3>2 DEF Tells
  <2> QED BY <2>2, <2>3
<1>11. \A q \in MutationObservers \ misheard : Told(q)' BY <1>8 DEF HeardInv
<1> QED BY <1>2, <1>7, <1>9, <1>10, <1>11 DEF HeardInv

\* Every step keeps the invariant.
LEMMA HeardNext == HeardInv /\ notifyList \subseteq MutationObservers /\ [MutationNext]_mutationVars => HeardInv'
<1> SUFFICES ASSUME HeardInv, notifyList \subseteq MutationObservers, [MutationNext]_mutationVars PROVE HeardInv'
  OBVIOUS
<1>1. CASE UNCHANGED <<lightDom, table, records_, history>>
  BY <1>1 DEF HeardInv, TablesOK, HistoryOK, Tells, Told, lightDom, table, history
<1>2. ASSUME NEW o \in MutationObservers, NEW n \in Nodes, NEW raw \in RawOptions, observe(o, n, raw)
      PROVE  HeardInv'
  BY <1>2, ObserveHeard
<1>3. ASSUME NEW o \in MutationObservers, NEW n \in Nodes, NEW raw \in RawOptions,
             observeRefused(o, n, raw)
      PROVE  HeardInv'
  BY <1>3, <1>1 DEF observeRefused, queue
<1>4. ASSUME NEW o \in MutationObservers, disconnect(o) PROVE HeardInv'
  BY <1>4, DisconnectHeard
<1>5. ASSUME NEW o \in MutationObservers, takeRecords(o) PROVE HeardInv'
  BY <1>5, TakeHeard
<1>6. parent \in Tree BY DEF HeardInv, TablesOK
<1>7. ASSUME NEW n \in Nodes, NEW type \in RecordTypes, ChangeNode(n, type) PROVE HeardInv'
  BY <1>6, <1>7, ChangeHeard DEF ChangeNode
<1>8. ASSUME NEW n \in Nodes, NEW p \in Nodes, appendLightChild(p, n) PROVE HeardInv'
  <2>1. parent' \in Tree BY <1>6, <1>8 DEF appendLightChild, Tree
  <2> QED BY <1>8, <2>1, ChangeHeard DEF appendLightChild
<1>9. ASSUME NEW n \in Nodes, removeLightChild(n) PROVE HeardInv'
  BY <1>9, RemoveHeard
<1>10. CASE StartNotify BY <1>10, <1>1 DEF StartNotify
<1>11. CASE TakeList BY <1>11, <1>1 DEF TakeList
<1>12. CASE NotifyNext BY <1>12, NotifyHeard
<1>13. CASE CallbackReturns BY <1>13, <1>1 DEF CallbackReturns, queue
<1>14. CASE CallbackThrows
  BY <1>14 DEF CallbackThrows, HeardInv, TablesOK, HistoryOK, Tells, Told, lightDom, table, queue
<1>15. CASE EndNotify BY <1>15, <1>1 DEF EndNotify, queue
<1>16. CASE UNCHANGED mutationVars
  BY <1>16, <1>1 DEF mutationVars, lightDom, table, history
<1> QED
  BY <1>2, <1>3, <1>4, <1>5, <1>7, <1>8, <1>9, <1>10, <1>11, <1>12, <1>13, <1>14, <1>15, <1>16
     DEF MutationNext

\* For any tree, any number of nodes, observers, calls and mutations, and whatever
\* callbacks do: the records that an observer was given, and those it is about to
\* be given, are those of the mutations that concern it, each once and in order,
\* also of those in a subtree that has left what it observes (enqueueMutation,
\* registerTransientObservers, removeTransientObserversFor, observe, disconnect).
THEOREM EveryMutationIsHeard == MutationSpec => []MutationsHeard
<1>1. MutationSpec => []QueueInv
  BY QueueInit, QueueNext, PTL DEF MutationSpec
<1>2. QueueInv => notifyList \subseteq MutationObservers
  BY DEF QueueInv, QueueTypeOK
<1>3. HeardInv => MutationsHeard
  BY DEF HeardInv, Told, MutationsHeard
<1> QED BY <1>1, <1>2, <1>3, HeardInit, HeardNext, PTL DEF MutationSpec
=============================================================================
