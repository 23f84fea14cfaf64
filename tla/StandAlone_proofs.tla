--------------------------- MODULE StandAlone_proofs ---------------------------
(***************************************************************************)
(* Proofs about parts of the system that stand alone, each for any value   *)
(* of its constants: the history of statistics (that young statistics are  *)
(* kept, and that stopping at the first young one leaves nothing behind    *)
(* that was recorded before the throw out time), the tabbed panel (that    *)
(* one tab is active and shown) and Polymer's queue of definitions (that   *)
(* they are registered in their order, and that none waits for ever that   *)
(* could go on).                                                           *)
(***************************************************************************)
EXTENDS Statistics, TabbedPanel, PolymerQueue, SequenceLemmas, FiniteSetTheorems

(***************************************************************************)
(* Statistics                                                              *)
(***************************************************************************)
USE StatisticsAssumption

\* The list is ordered by when its statistics were added, and each one started
\* before that. No cleanup throws out what is younger than MaxHistory, now.
StatsInv ==
  /\ \A a \in Actions : startTime[a] <= now /\ addedAt[a] <= now
  /\ \A i, j \in DOMAIN statistics :
       i <= j => addedAt[statistics[i]] <= addedAt[statistics[j]]
  /\ \A i \in DOMAIN statistics : startTime[statistics[i]] <= addedAt[statistics[i]]
  /\ \A c \in Cleanups : throwOut[c] # Null => throwOut[c] <= now - MaxHistory
  /\ RecentCallsKept

\* What Cleanup does to the list: the first n statistics are gone, all of them
\* old, and those left are the others in the same order.
LEMMA CleanupCuts ==
  ASSUME TypeOK, NEW c \in Cleanups, Cleanup(c)
  PROVE  \E n \in Nat :
           /\ \A i \in 1 .. n : i \in DOMAIN statistics /\ Old(statistics[i], c)
           /\ \A i \in DOMAIN statistics : i = n + 1 => ~Old(statistics[i], c)
           /\ statistics' \in Seq(Actions)
           /\ \A i \in DOMAIN statistics' :
                /\ i \in Nat \ {0}
                /\ i + n \in DOMAIN statistics
                /\ statistics'[i] = statistics[i + n]
           /\ \A i \in DOMAIN statistics : i \in 1 .. n \/ i - n \in DOMAIN statistics'
<1>1. Len(statistics) \in Nat /\ DOMAIN statistics = 1 .. Len(statistics)
  BY DEF TypeOK
<1>2. PICK n \in 0 .. Len(statistics) :
        /\ \A i \in 1 .. n : Old(statistics[i], c)
        /\ n < Len(statistics) => ~Old(statistics[n + 1], c)
        /\ statistics' = SubSeq(statistics, n + 1, Len(statistics))
  BY DEF Cleanup
<1>3. statistics' \in Seq(Actions)
  BY <1>1, <1>2 DEF TypeOK
<1>4. /\ DOMAIN statistics' = 1 .. Len(statistics) - n
      /\ \A i \in 1 .. Len(statistics) - n : statistics'[i] = statistics[i + n]
  BY <1>1, <1>2 DEF TypeOK
<1> HIDE DEF Old
<1>5. \A i \in DOMAIN statistics' :
         /\ i \in Nat \ {0}
         /\ i + n \in DOMAIN statistics
         /\ statistics'[i] = statistics[i + n]
  BY <1>1, <1>4
<1>6. \A i \in DOMAIN statistics : i \in 1 .. n \/ i - n \in DOMAIN statistics'
  BY <1>1, <1>4
<1>7. /\ \A i \in 1 .. n : i \in DOMAIN statistics /\ Old(statistics[i], c)
      /\ \A i \in DOMAIN statistics : i = n + 1 => ~Old(statistics[i], c)
  BY <1>1, <1>2
<1>8. n \in Nat
  BY <1>1
<1> WITNESS n \in Nat
<1> QED
  BY <1>3, <1>5, <1>6, <1>7

LEMMA TypeInit == Init => TypeOK
  BY DEF Init, TypeOK, CallStates, IsInjective

\* What is appended is the last element, and the others stay where they were.
LEMMA Appended ==
  ASSUME TypeOK, NEW a \in Actions, AddStatistic(a)
  PROVE  /\ statistics' \in Seq(Actions)
         /\ Len(statistics) \in Nat
         /\ DOMAIN statistics = 1 .. Len(statistics)
         /\ DOMAIN statistics' = 1 .. Len(statistics) + 1
         /\ \A i \in DOMAIN statistics : statistics'[i] = statistics[i] /\ statistics[i] # a
         /\ statistics'[Len(statistics) + 1] = a
  BY DEF AddStatistic, Recorded, TypeOK

LEMMA TypeNext == TypeOK /\ [Next]_vars => TypeOK'
<1> SUFFICES ASSUME TypeOK, [Next]_vars
             PROVE  TypeOK'
  OBVIOUS
<1>1. ASSUME NEW a \in Actions, OpenStatistic(a)
      PROVE  TypeOK'
  BY <1>1 DEF OpenStatistic, TypeOK, CallStates, IsInjective
<1>2. ASSUME NEW a \in Actions, Close(a)
      PROVE  TypeOK'
  BY <1>2 DEF Close, TypeOK, CallStates, IsInjective
<1>3. ASSUME NEW a \in Actions, AddStatistic(a)
      PROVE  TypeOK'
  <2> DEFINE last == Len(statistics) + 1
  <2>1. /\ statistics' \in Seq(Actions)
        /\ \A i \in DOMAIN statistics' : i = last \/ i \in DOMAIN statistics
        /\ \A i \in DOMAIN statistics : statistics'[i] = statistics[i] /\ statistics[i] # a
        /\ statistics'[last] = a
    <3> HIDE DEF last
    <3>1. \A m \in Nat : \A i \in 1 .. m + 1 : i = m + 1 \/ i \in 1 .. m
      OBVIOUS
    <3> QED
      BY <1>3, <3>1, Appended DEF last
  <2> HIDE DEF last
  <2>2. IsInjective(statistics')
    BY <2>1 DEF TypeOK, IsInjective
  <2>3. /\ call' \in [Actions -> CallStates]
        /\ \A b \in Actions : call[b] = "recorded" \/ b = a => call'[b] = "recorded"
    BY <1>3 DEF AddStatistic, TypeOK, CallStates
  <2>4. \A i \in DOMAIN statistics : statistics[i] \in Actions
    BY DEF TypeOK
  <2>5. \A i \in DOMAIN statistics' : call'[statistics'[i]] = "recorded"
    BY <2>1, <2>3, <2>4 DEF TypeOK
  <2> QED
    BY <1>3, <2>1, <2>2, <2>3, <2>5 DEF AddStatistic, TypeOK
<1>4. ASSUME NEW c \in Cleanups, ReadThrowOutTime(c)
      PROVE  TypeOK'
  BY <1>4 DEF ReadThrowOutTime, ThrowOutTime, TypeOK, IsInjective
<1>5. ASSUME NEW c \in Cleanups, Cleanup(c)
      PROVE  TypeOK'
  <2>1. PICK n \in Nat :
          /\ statistics' \in Seq(Actions)
          /\ \A i \in DOMAIN statistics' :
               /\ i \in Nat \ {0}
               /\ i + n \in DOMAIN statistics
               /\ statistics'[i] = statistics[i + n]
    BY <1>5, CleanupCuts
  <2>2. IsInjective(statistics')
    BY <2>1 DEF TypeOK, IsInjective
  <2>3. \A i \in DOMAIN statistics' : call[statistics'[i]] = "recorded"
    BY <2>1 DEF TypeOK
  <2> QED
    BY <1>5, <2>1, <2>2, <2>3 DEF Cleanup, TypeOK
<1>6. CASE Tick
  BY <1>6 DEF Tick, TypeOK, IsInjective
<1>7. CASE UNCHANGED vars
  BY <1>7 DEF vars, TypeOK, IsInjective
<1> QED
  BY <1>1, <1>2, <1>3, <1>4, <1>5, <1>6, <1>7 DEF Next

\* Every variable keeps its type, and no call is ever in the list twice.
THEOREM StatisticsTypes == Spec => []TypeOK
<1> QED
  BY TypeInit, TypeNext, PTL DEF Spec


-----------------------------------------------------------------------------
(* The order of the list *)

LEMMA StatsInit == Init => StatsInv
  BY DEF Init, StatsInv, RecentCallsKept

LEMMA ContainsInDomain ==
  ASSUME NEW S, NEW s \in Seq(S), NEW e
  PROVE  Contains(s, e) <=> \E i \in DOMAIN s : s[i] = e
  BY DEF Contains

\* Opening, closing and the clock leave the list alone.
LEMMA StatsQuiet ==
  ASSUME TypeOK, StatsInv, UNCHANGED <<statistics, throwOut, addedAt>>,
         now' \in Nat, now' >= now,
         startTime' \in [Actions -> Nat],
         \A a \in Actions : startTime'[a] = startTime[a]
                              \/ (startTime'[a] = now /\ call[a] = "idle"),
         \A a \in Actions : call'[a] = "recorded" <=> call[a] = "recorded"
  PROVE  StatsInv'
<1>1. \A i \in DOMAIN statistics :
        /\ statistics[i] \in Actions
        /\ startTime'[statistics[i]] = startTime[statistics[i]]
  BY DEF TypeOK
<1>2. \A a \in Actions : startTime'[a] <= now' /\ addedAt'[a] <= now'
  <2> SUFFICES ASSUME NEW a \in Actions
               PROVE  startTime'[a] <= now' /\ addedAt[a] <= now'
    OBVIOUS
  <2>1. /\ startTime[a] \in Nat /\ startTime[a] <= now
        /\ addedAt[a] \in Nat /\ addedAt[a] <= now
        /\ now \in Nat
    BY DEF StatsInv, TypeOK
  <2>2. startTime'[a] = startTime[a] \/ startTime'[a] = now
    OBVIOUS
  <2> QED
    BY <2>1, <2>2
<1>3. \A c \in Cleanups : throwOut'[c] # Null => throwOut'[c] <= now' - MaxHistory
  <2> SUFFICES ASSUME NEW c \in Cleanups, throwOut[c] # Null
               PROVE  throwOut[c] <= now' - MaxHistory
    OBVIOUS
  <2>1. throwOut[c] \in Int /\ throwOut[c] <= now - MaxHistory
    BY DEF StatsInv, TypeOK
  <2> QED
    BY <2>1 DEF TypeOK
<1>4. RecentCallsKept'
  <2> SUFFICES ASSUME NEW a \in Actions, call'[a] = "recorded",
                      now' - startTime'[a] < MaxHistory
               PROVE  Contains(statistics, a)
    BY DEF RecentCallsKept
  <2>1. call[a] = "recorded" /\ startTime'[a] = startTime[a]
    OBVIOUS
  <2>2. now - startTime[a] < MaxHistory
    BY <2>1 DEF TypeOK
  <2> QED
    BY <2>1, <2>2 DEF StatsInv, RecentCallsKept
<1> QED
  BY <1>1, <1>2, <1>3, <1>4 DEF StatsInv

LEMMA StatsAdd ==
  ASSUME TypeOK, StatsInv, NEW a \in Actions, AddStatistic(a)
  PROVE  StatsInv'
<1> DEFINE last == Len(statistics) + 1
<1>1. /\ statistics' \in Seq(Actions)
      /\ \A i \in DOMAIN statistics : statistics'[i] = statistics[i] /\ statistics[i] # a
      /\ statistics'[last] = a
      /\ last \in DOMAIN statistics' /\ DOMAIN statistics \subseteq DOMAIN statistics'
  BY Appended
<1>2. \A i \in DOMAIN statistics' : i = last \/ i \in DOMAIN statistics
  BY Appended
<1>3. \A i \in DOMAIN statistics : i < last
  BY Appended
<1>4. DOMAIN statistics' \subseteq Nat /\ last \in Nat
  BY Appended
<1> HIDE DEF last
<1>5. /\ addedAt' \in [Actions -> Nat] /\ addedAt'[a] = now
      /\ \A b \in Actions : b # a => addedAt'[b] = addedAt[b]
      /\ UNCHANGED <<now, startTime, throwOut>>
  BY DEF AddStatistic, TypeOK
<1>6. \A i \in DOMAIN statistics : statistics[i] \in Actions
  BY DEF TypeOK
<1>7. \A i, j \in DOMAIN statistics' :
        i <= j => addedAt'[statistics'[i]] <= addedAt'[statistics'[j]]
  <2> SUFFICES ASSUME NEW i \in DOMAIN statistics', NEW j \in DOMAIN statistics', i <= j
               PROVE  addedAt'[statistics'[i]] <= addedAt'[statistics'[j]]
    OBVIOUS
  <2>1. CASE j = last /\ i = last
    BY <2>1, <1>1, <1>5 DEF TypeOK
  <2>2. CASE j = last /\ i \in DOMAIN statistics
    BY <2>2, <1>1, <1>5, <1>6 DEF StatsInv, TypeOK
  <2>3. CASE j \in DOMAIN statistics
    <3>1. i \in DOMAIN statistics
      BY <2>3, <1>2, <1>3, <1>4
    <3> QED
      BY <2>3, <3>1, <1>1, <1>5, <1>6 DEF StatsInv
  <2> QED
    BY <1>2, <2>1, <2>2, <2>3
<1>8. \A i \in DOMAIN statistics' : startTime'[statistics'[i]] <= addedAt'[statistics'[i]]
  BY <1>1, <1>2, <1>5, <1>6 DEF StatsInv
<1>9. RecentCallsKept'
  <2> SUFFICES ASSUME NEW b \in Actions, call'[b] = "recorded",
                      now - startTime[b] < MaxHistory
               PROVE  \E i \in DOMAIN statistics' : statistics'[i] = b
    BY <1>1, <1>5, ContainsInDomain DEF RecentCallsKept
  <2>1. CASE b = a
    BY <2>1, <1>1
  <2>2. CASE b # a
    <3>1. call[b] = "recorded"
      BY <2>2 DEF AddStatistic, TypeOK
    <3>2. \E i \in DOMAIN statistics : statistics[i] = b
      BY <3>1, ContainsInDomain DEF StatsInv, RecentCallsKept, TypeOK
    <3> QED
      BY <3>2, <1>1
  <2> QED
    BY <2>1, <2>2
<1>10. \A b \in Actions : startTime'[b] <= now' /\ addedAt'[b] <= now'
  <2> SUFFICES ASSUME NEW b \in Actions
               PROVE  startTime[b] <= now /\ addedAt'[b] <= now
    BY <1>5
  <2>1. addedAt'[b] = addedAt[b] \/ addedAt'[b] = now
    BY <1>5
  <2> QED
    BY <2>1 DEF StatsInv, TypeOK
<1> QED
  BY <1>5, <1>7, <1>8, <1>9, <1>10 DEF StatsInv

\* After a cleanup each statistic that is left comes with the first young one,
\* which was added no later than it, and started no later than it was added.
LEMMA CleanupKeepsLater ==
  ASSUME TypeOK, StatsInv, NEW c \in Cleanups, Cleanup(c)
  PROVE  \A i \in DOMAIN statistics' : addedAt[statistics'[i]] > throwOut[c]
<1>1. PICK n \in Nat :
        /\ \A i \in DOMAIN statistics : i = n + 1 => ~Old(statistics[i], c)
        /\ \A i \in DOMAIN statistics' :
             /\ i \in Nat \ {0}
             /\ i + n \in DOMAIN statistics
             /\ statistics'[i] = statistics[i + n]
  BY CleanupCuts
<1> SUFFICES ASSUME NEW i \in DOMAIN statistics'
             PROVE  addedAt[statistics'[i]] > throwOut[c]
  OBVIOUS
<1>2. i \in Nat \ {0} /\ i + n \in DOMAIN statistics /\ statistics'[i] = statistics[i + n]
  BY <1>1
<1>3. n + 1 \in DOMAIN statistics /\ n + 1 <= i + n
  BY <1>2 DEF TypeOK
<1>4. startTime[statistics[n + 1]] > throwOut[c]
  <2>1. ~Old(statistics[n + 1], c)
    BY <1>1, <1>3
  <2>2. startTime[statistics[n + 1]] \in Nat /\ throwOut[c] \in Int
    BY <1>3 DEF TypeOK, Cleanup
  <2> QED
    BY <2>1, <2>2 DEF Old
<1>5. /\ startTime[statistics[n + 1]] <= addedAt[statistics[n + 1]]
      /\ addedAt[statistics[n + 1]] <= addedAt[statistics[i + n]]
  BY <1>2, <1>3 DEF StatsInv
<1>6. /\ startTime[statistics[n + 1]] \in Nat
      /\ addedAt[statistics[n + 1]] \in Nat
      /\ addedAt[statistics[i + n]] \in Nat
      /\ throwOut[c] \in Int
  BY <1>2, <1>3 DEF TypeOK, Cleanup
<1> QED
  BY <1>2, <1>4, <1>5, <1>6

LEMMA StatsCleanup ==
  ASSUME TypeOK, StatsInv, NEW c \in Cleanups, Cleanup(c)
  PROVE  StatsInv'
<1>1. PICK n \in Nat :
        /\ \A i \in 1 .. n : i \in DOMAIN statistics /\ Old(statistics[i], c)
        /\ statistics' \in Seq(Actions)
        /\ \A i \in DOMAIN statistics' :
             /\ i \in Nat \ {0}
             /\ i + n \in DOMAIN statistics
             /\ statistics'[i] = statistics[i + n]
        /\ \A i \in DOMAIN statistics : i \in 1 .. n \/ i - n \in DOMAIN statistics'
  BY CleanupCuts
<1>2. UNCHANGED <<now, call, startTime, addedAt>>
  BY DEF Cleanup
<1>3. \A i, j \in DOMAIN statistics' :
        i <= j => addedAt[statistics'[i]] <= addedAt[statistics'[j]]
  BY <1>1 DEF StatsInv
<1>4. \A i \in DOMAIN statistics' : startTime[statistics'[i]] <= addedAt[statistics'[i]]
  BY <1>1 DEF StatsInv
<1>5. \A d \in Cleanups : throwOut'[d] # Null => throwOut'[d] <= now - MaxHistory
  BY DEF Cleanup, StatsInv, TypeOK
<1>6. RecentCallsKept'
  <2> SUFFICES ASSUME NEW a \in Actions, call[a] = "recorded",
                      now - startTime[a] < MaxHistory
               PROVE  \E i \in DOMAIN statistics' : statistics'[i] = a
    BY <1>1, <1>2, ContainsInDomain DEF RecentCallsKept
  <2>1. PICK i \in DOMAIN statistics : statistics[i] = a
    BY ContainsInDomain DEF StatsInv, RecentCallsKept, TypeOK
  <2>2. ~Old(a, c)
    <3>1. throwOut[c] \in Int /\ throwOut[c] <= now - MaxHistory
      BY DEF Cleanup, StatsInv, TypeOK
    <3> QED
      BY <3>1 DEF Old, TypeOK
  <2>3. i - n \in DOMAIN statistics'
    BY <1>1, <2>1, <2>2
  <2>4. statistics'[i - n] = statistics[(i - n) + n] /\ (i - n) + n = i
    BY <1>1, <2>1, <2>3 DEF TypeOK
  <2> QED
    BY <2>1, <2>3, <2>4
<1> QED
  BY <1>2, <1>3, <1>4, <1>5, <1>6 DEF StatsInv

LEMMA StatsNext == TypeOK /\ StatsInv /\ [Next]_vars => StatsInv'
<1> SUFFICES ASSUME TypeOK, StatsInv, [Next]_vars
             PROVE  StatsInv'
  OBVIOUS
<1>1. ASSUME NEW a \in Actions, OpenStatistic(a)
      PROVE  StatsInv'
  BY <1>1, StatsQuiet DEF OpenStatistic, TypeOK, CallStates
<1>2. ASSUME NEW a \in Actions, Close(a)
      PROVE  StatsInv'
  BY <1>2, StatsQuiet DEF Close, TypeOK, CallStates
<1>3. ASSUME NEW a \in Actions, AddStatistic(a)
      PROVE  StatsInv'
  BY <1>3, StatsAdd
<1>4. ASSUME NEW c \in Cleanups, ReadThrowOutTime(c)
      PROVE  StatsInv'
  BY <1>4 DEF ReadThrowOutTime, ThrowOutTime, StatsInv, TypeOK, RecentCallsKept
<1>5. ASSUME NEW c \in Cleanups, Cleanup(c)
      PROVE  StatsInv'
  BY <1>5, StatsCleanup
<1>6. CASE Tick
  BY <1>6, StatsQuiet DEF Tick, TypeOK
<1>7. CASE UNCHANGED vars
  BY <1>7 DEF vars, StatsInv, RecentCallsKept
<1> QED
  BY <1>1, <1>2, <1>3, <1>4, <1>5, <1>6, <1>7 DEF Next

LEMMA StatisticsInvariant == Spec => [](TypeOK /\ StatsInv)
<1>1. TypeOK /\ StatsInv /\ [Next]_vars => (TypeOK /\ StatsInv)'
  BY TypeNext, StatsNext
<1> QED
  BY <1>1, TypeInit, StatsInit, PTL DEF Spec

-----------------------------------------------------------------------------
(* What it is for *)

\* No cleanup, and no two of them at once, throw out what is young.
THEOREM YoungStatisticsStay == Spec => []RecentCallsKept
<1>1. StatsInv => RecentCallsKept
  BY DEF StatsInv
<1> QED
  BY <1>1, StatisticsInvariant, PTL

\* Although the list is only nearly ordered by start time, a cleanup leaves
\* nothing in it that was recorded before its throw out time.
THEOREM CleanupIsThorough == Spec => NothingLeftBehind
<1> DEFINE Thorough == \A c \in Cleanups : Cleanup(c) =>
                         \A i \in DOMAIN statistics' : addedAt[statistics'[i]] > throwOut[c]
<1>1. TypeOK /\ StatsInv /\ [Next]_vars => [Thorough]_vars
  BY CleanupKeepsLater
<1> HIDE DEF Thorough
<1>2. Spec => [][Thorough]_vars
  BY <1>1, StatisticsInvariant, PTL DEF Spec
<1> QED
  BY <1>2 DEF NothingLeftBehind, Thorough

HIDE StatisticsAssumption

-----------------------------------------------------------------------------
(***************************************************************************)
(* The tabbed panel                                                        *)
(***************************************************************************)
\* Tabs are numbered as they are created, and only those have been styled.
CreatedInOrder == \E k \in 0 .. MaxTabs : Created = 1 .. k

TabInv ==
  /\ TabTypeOK /\ CreatedInOrder /\ styled \subseteq Created
  /\ SomeTabActive /\ ShowsActiveTab

LEMMA NoTabIsNone == NoTab \notin Tabs /\ NoTab \notin Names /\ NoTab \notin Contents
BY TabsAssumption DEF Tabs

LEMMA TabStarts == TabInit => TabInv
<1> SUFFICES ASSUME TabInit PROVE TabInv OBVIOUS
<1>1. Created = {} BY DEF TabInit, Created
<1>2. tabs = <<>> /\ DOMAIN tabs = {} /\ ToSet(tabs) = {} BY DEF TabInit, ToSet
<1>3. CreatedInOrder
  <2>1. 1 .. 0 = {} /\ 0 \in 0 .. MaxTabs BY TabsAssumption
  <2> QED BY <1>1, <2>1 DEF CreatedInOrder
<1>4. TabTypeOK
  <2>1. <<>> \in Seq(Created) OBVIOUS
  <2> QED BY <1>2, <2>1 DEF TabInit, TabTypeOK
<1>5. SomeTabActive /\ ShowsActiveTab BY <1>2 DEF TabInit, SomeTabActive, ShowsActiveTab
<1> QED BY <1>1, <1>3, <1>4, <1>5 DEF TabInv, TabInit

\* A tab becomes active: those with the style are the others that had it, and it.
LEMMA Activated ==
  ASSUME NEW t \in Tabs, NEW from \in Tabs \cup {NoTab}, NEW strip \in SUBSET Tabs,
         t \in strip, styled \cap (strip \ {t}) \subseteq {from}, from = t => t \in styled,
         ActivateTab(t, styled, from)
  PROVE  /\ activeTab' = t
         /\ styled' \cap strip = {t}
         /\ styled' \subseteq styled \cup {t}
         /\ IF t = from THEN shown' = shown ELSE shown' = content'[t]
BY DEF ActivateTab

LEMMA FirstEnabledIs ==
  ASSUME NEW e
  PROVE  IF \E k \in 1 .. Len(tabs) : tabs[k] \in e
         THEN FirstEnabled(e) \in 1 .. Len(tabs) /\ tabs[FirstEnabled(e)] \in e
         ELSE FirstEnabled(e) = 0
<1> DEFINE I == {i \in 1 .. Len(tabs) : tabs[i] \in e}
<1>1. FirstEnabled(e) = IF I # {} THEN Min(I) ELSE 0 BY DEF FirstEnabled, SelectInSeq
<1>2. I \subseteq Nat OBVIOUS
<1>3. I # {} => Min(I) \in I
  <2> HIDE DEF I
  <2> QED BY <1>2, MinIsLeast
<1> QED BY <1>1, <1>3

LEMMA InStrip ==
  ASSUME TabInv
  PROVE  /\ Len(tabs) \in Nat /\ DOMAIN tabs = 1 .. Len(tabs)
         /\ \A t : Contains(tabs, t) <=> t \in ToSet(tabs)
         /\ ToSet(tabs) \subseteq Created /\ Created \subseteq Tabs
         /\ tabs # <<>> <=> ToSet(tabs) # {}
         /\ activeTab \in Tabs \cup {NoTab}
<1>1. tabs \in Seq(Created) /\ activeTab \in Created \cup {NoTab} BY DEF TabInv, TabTypeOK
<1>2. Len(tabs) \in Nat /\ DOMAIN tabs = 1 .. Len(tabs) /\ \A i \in 1 .. Len(tabs) : tabs[i] \in Created
  BY <1>1
<1>3. tabs # <<>> <=> Len(tabs) # 0 BY <1>1
<1>4. Created \subseteq Tabs BY DEF Created
<1>5. tabs # <<>> <=> ToSet(tabs) # {}
  <2>1. Len(tabs) # 0 => 1 \in DOMAIN tabs BY <1>2
  <2>2. Len(tabs) = 0 => DOMAIN tabs = {} BY <1>2
  <2> QED BY <1>3, <2>1, <2>2 DEF ToSet
<1> QED BY <1>1, <1>2, <1>4, <1>5 DEF ToSet, Contains

LEMMA CreateKeeps ==
  ASSUME TabInv, NEW n \in Names, NEW index, CreateAndInsertTab(n, index)
  PROVE  TabInv'
<1> DEFINE t == Cardinality(Created) + 1
<1>0. TabTypeOK /\ SomeTabActive /\ ShowsActiveTab BY DEF TabInv
<1>1. /\ t \in Tabs /\ index \in 0 .. Len(tabs) /\ NameIsNew(n)
      /\ tabs' = InsertAt(tabs, index + 1, t)
      /\ name' = [name EXCEPT ![t] = n]
      /\ enabled' = enabled \union {t}
      /\ UNCHANGED content
      /\ \/ Yields(t) /\ UNCHANGED <<activeTab, styled, shown>>
         \/ ~Yields(t) /\ ActivateTab(t, styled, activeTab)
  BY DEF CreateAndInsertTab
<1>2. PICK k \in 0 .. MaxTabs : Created = 1 .. k BY DEF TabInv, CreatedInOrder
<1>3. t = k + 1
  <2>1. k \in Nat BY TabsAssumption
  <2>2. Cardinality(1 .. k) = k BY ONLY <2>1, FS_Interval
  <2> QED BY <1>2, <2>2
<1> HIDE DEF t
<1>4. t \notin Created BY <1>2, <1>3
<1>5. Created' = Created \cup {t} BY <1>0, <1>1, NoTabIsNone DEF Created, TabTypeOK
<1>6. CreatedInOrder'
  <2>1. k + 1 \in 0 .. MaxTabs BY <1>1, <1>3, TabsAssumption DEF Tabs
  <2>2. 1 .. k + 1 = (1 .. k) \cup {k + 1} BY <1>2, TabsAssumption
  <2>3. Created' = 1 .. k + 1 BY <1>2, <1>3, <1>5, <2>2
  <2> QED BY <2>1, <2>3 DEF CreatedInOrder, Tabs
<1>7. tabs \in Seq(Created') /\ t \in Created'
  <2>1. tabs \in Seq(Created) BY <1>0 DEF TabTypeOK
  <2>2. \A i \in 1 .. Len(tabs) : tabs[i] \in Created' BY <1>5, <2>1
  <2> QED BY <1>5, <2>1, <2>2
<1>8. index + 1 \in 1 .. Len(tabs) + 1 BY <1>1, <1>7
<1>9. /\ tabs' \in Seq(Created') /\ Len(tabs) \in Nat /\ Len(tabs') = Len(tabs) + 1
      /\ \A i \in 1 .. Len(tabs) + 1 : tabs'[i] = IF i < index + 1 THEN tabs[i]
                                                  ELSE IF i = index + 1 THEN t ELSE tabs[i - 1]
      /\ ToSet(tabs') = ToSet(tabs) \cup {t}
  BY <1>1, <1>7, <1>8, InsertAtProperties
<1>10. \A u \in Created : name'[u] = name[u] BY <1>0, <1>1, <1>4 DEF TabTypeOK, Created
<1>11. name'[t] = n BY <1>0, <1>1 DEF TabTypeOK
<1>12. \A i, j \in DOMAIN tabs' : name'[tabs'[i]] = name'[tabs'[j]] => i = j
  <2>1. /\ \A i \in 1 .. Len(tabs) : tabs[i] \in Created /\ tabs[i] \in ToSet(tabs)
        /\ DOMAIN tabs = 1 .. Len(tabs)
      BY <1>0 DEF TabTypeOK, ToSet
  <2>2. \A i \in 1 .. Len(tabs) : name'[tabs[i]] # n BY <1>1, <1>10, <2>1 DEF NameIsNew
  <2>3. \A i, j \in 1 .. Len(tabs) : name'[tabs[i]] = name'[tabs[j]] => i = j
      BY <1>0, <1>10, <2>1 DEF TabTypeOK
  <2> DEFINE old(i) == IF i < index + 1 THEN i ELSE i - 1
  <2>4. \A i \in 1 .. Len(tabs) + 1 :
           IF i = index + 1 THEN name'[tabs'[i]] = n
           ELSE old(i) \in 1 .. Len(tabs) /\ tabs'[i] = tabs[old(i)]
    <3> TAKE i \in 1 .. Len(tabs) + 1
    <3>1. CASE i = index + 1 BY <1>8, <1>9, <1>11, <3>1
    <3>2. CASE i < index + 1 BY <1>8, <1>9, <3>2
    <3>3. CASE i > index + 1 BY <1>8, <1>9, <3>3
    <3> QED BY <1>8, <3>1, <3>2, <3>3
  <2>5. \A i, j \in 1 .. Len(tabs) + 1 :
           i # index + 1 /\ j # index + 1 /\ old(i) = old(j) => i = j
      BY <1>8, <1>9
  <2>6. DOMAIN tabs' = 1 .. Len(tabs) + 1 BY <1>9
  <2> HIDE DEF old
  <2>7. \A i \in 1 .. Len(tabs) + 1 : i # index + 1 => name'[tabs'[i]] # n BY <2>2, <2>4
  <2>8. \A i, j \in 1 .. Len(tabs) + 1 :
           i # index + 1 /\ j # index + 1 /\ name'[tabs'[i]] = name'[tabs'[j]] => i = j
      BY <2>3, <2>4, <2>5
  <2>9. \A i, j \in 1 .. Len(tabs) + 1 : name'[tabs'[i]] = name'[tabs'[j]] => i = j
      BY ONLY <2>4, <2>7, <2>8
  <2> QED BY ONLY <2>6, <2>9
<1>13. t \notin ToSet(tabs) /\ t # activeTab BY <1>4, <1>0, <1>1, InStrip, NoTabIsNone DEF TabTypeOK
<1>14. /\ activeTab' \in Created' \cup {NoTab} /\ styled' \subseteq Created'
       /\ shown' \in Contents \cup {NoTab}
       /\ SomeTabActive' /\ ShowsActiveTab'
  <2>1. tabs' # <<>> /\ \A u \in ToSet(tabs') : Contains(tabs', u)
    <3>1. DOMAIN tabs' = 1 .. Len(tabs') /\ Len(tabs') # 0 BY <1>9
    <3> QED BY <1>9, <3>1 DEF ToSet, Contains
  <2>2. CASE Yields(t) /\ UNCHANGED <<activeTab, styled, shown>>
    <3>1. tabs # <<>> /\ activeTab \in ToSet(tabs) BY <1>0, <2>2, InStrip DEF Yields, SomeTabActive
    <3>2. SomeTabActive' BY <1>9, <2>1, <2>2, <3>1 DEF SomeTabActive
    <3>3. t \notin styled BY <1>4 DEF TabInv
    <3>4. ShowsActiveTab' BY <1>0, <1>1, <1>9, <2>2, <3>3 DEF ShowsActiveTab
    <3> QED BY <1>0, <1>5, <2>2, <3>2, <3>4 DEF TabTypeOK, TabInv
  <2>3. CASE ActivateTab(t, styled, activeTab)
    <3>1. ToSet(tabs') \subseteq Tabs /\ t \in ToSet(tabs') BY <1>1, <1>9, InStrip
    <3>2. styled \cap (ToSet(tabs') \ {t}) \subseteq {activeTab} BY <1>0, <1>9 DEF ShowsActiveTab
    <3>3. /\ activeTab' = t /\ styled' \cap ToSet(tabs') = {t} /\ styled' \subseteq styled \cup {t}
          /\ shown' = content'[t]
      BY <1>1, <1>13, <2>3, <3>1, <3>2, InStrip, Activated
    <3>4. SomeTabActive' BY <2>1, <3>1, <3>3 DEF SomeTabActive
    <3>5. ShowsActiveTab' BY <1>1, <3>3, NoTabIsNone DEF ShowsActiveTab
    <3>6. styled' \subseteq Created' BY <1>5, <3>3 DEF TabInv
    <3>7. content'[t] \in Contents \cup {NoTab} BY <1>0, <1>1 DEF TabTypeOK
    <3> QED BY <1>5, <3>3, <3>4, <3>5, <3>6, <3>7
  <2> QED BY <1>1, <2>2, <2>3
<1>15. name' \in [Tabs -> Names \cup {NoTab}] BY <1>0, <1>1 DEF TabTypeOK
<1>16. styled' \subseteq Tabs /\ enabled' \subseteq Tabs
  BY <1>0, <1>1, <1>5, <1>14, InStrip DEF TabTypeOK
<1>17. TabTypeOK' BY <1>0, <1>1, <1>9, <1>12, <1>14, <1>15, <1>16 DEF TabTypeOK
<1> QED BY <1>6, <1>14, <1>17 DEF TabInv

\* A tab of the strip becomes active, by whatever call.
LEMMA ActivatingKeeps ==
  ASSUME TabInv, NEW t \in ToSet(tabs), ActivateTab(t, styled, activeTab),
         enabled' \subseteq Tabs, UNCHANGED <<tabs, name, content>>
  PROVE  TabInv'
<1>0. TabTypeOK /\ SomeTabActive /\ ShowsActiveTab BY DEF TabInv
<1>1. t \in Tabs /\ ToSet(tabs) \in SUBSET Tabs /\ activeTab \in Tabs \cup {NoTab} /\ Contains(tabs, t)
      /\ tabs # <<>> /\ t \in Created /\ t # NoTab
  BY InStrip, NoTabIsNone
<1>2. styled \cap (ToSet(tabs) \ {t}) \subseteq {activeTab} /\ (activeTab = t => t \in styled)
  BY <1>0, <1>1 DEF ShowsActiveTab
<1>3. /\ activeTab' = t /\ styled' \cap ToSet(tabs) = {t} /\ styled' \subseteq styled \cup {t}
      /\ IF t = activeTab THEN shown' = shown ELSE shown' = content'[t]
  BY <1>1, <1>2, Activated
<1>4. shown' = content[t] BY <1>0, <1>1, <1>3 DEF ShowsActiveTab
<1>5. Created' = Created BY DEF Created
<1>6. CreatedInOrder' BY <1>5 DEF TabInv, CreatedInOrder
<1>7. styled' \subseteq Created' /\ styled' \subseteq Tabs BY <1>1, <1>3, <1>5, InStrip DEF TabInv
<1>8. SomeTabActive' BY <1>1, <1>3 DEF SomeTabActive
<1>9. ShowsActiveTab' BY <1>1, <1>3, <1>4 DEF ShowsActiveTab
<1>10. shown' \in Contents \cup {NoTab} BY <1>0, <1>1, <1>4 DEF TabTypeOK
<1>11. TabTypeOK' BY <1>0, <1>1, <1>3, <1>5, <1>7, <1>10 DEF TabTypeOK
<1> QED BY <1>6, <1>7, <1>8, <1>9, <1>11 DEF TabInv

LEMMA SetWidgetKeeps ==
  ASSUME TabInv, NEW t \in Tabs, NEW w \in Contents, SetWidget(t, w)
  PROVE  TabInv'
<1>0. TabTypeOK /\ SomeTabActive /\ ShowsActiveTab BY DEF TabInv
<1>1. /\ content' = [content EXCEPT ![t] = w]
      /\ shown' = IF t = activeTab THEN w ELSE shown
      /\ UNCHANGED <<tabs, activeTab, name, enabled, styled>>
  BY NoTabIsNone DEF SetWidget
<1>2. Created' = Created BY <1>1 DEF Created
<1>3. CreatedInOrder' /\ styled' \subseteq Created' BY <1>1, <1>2 DEF TabInv, CreatedInOrder
<1>4. SomeTabActive' BY <1>0, <1>1 DEF SomeTabActive
<1>5. ShowsActiveTab' BY <1>0, <1>1, InStrip DEF ShowsActiveTab, TabTypeOK
<1>6. TabTypeOK' BY <1>0, <1>1, <1>2 DEF TabTypeOK
<1> QED BY <1>3, <1>4, <1>5, <1>6 DEF TabInv

\* Steps that change no more than which views are enabled.
LEMMA EnablingKeeps ==
  ASSUME TabInv, enabled' \subseteq Tabs, UNCHANGED <<tabs, activeTab, name, content, styled, shown>>
  PROVE  TabInv'
<1>1. Created' = Created BY DEF Created
<1>2. TabTypeOK' BY <1>1 DEF TabInv, TabTypeOK
<1> QED BY <1>1, <1>2 DEF TabInv, CreatedInOrder, SomeTabActive, ShowsActiveTab

LEMMA DisableKeeps ==
  ASSUME TabInv, NEW t \in Tabs, Disable(t)
  PROVE  TabInv'
<1> DEFINE i == FirstEnabled(enabled \ {t})
<1>0. enabled \subseteq Tabs BY DEF TabInv, TabTypeOK
<1>1. enabled' = enabled \ {t} /\ UNCHANGED <<tabs, name, content>> /\ enabled' \subseteq Tabs
  BY <1>0 DEF Disable
<1>2. CASE i # 0 /\ ActivateTab(tabs[i], styled, activeTab)
  <2>1. i \in 1 .. Len(tabs) BY <1>2, FirstEnabledIs
  <2>2. tabs[i] \in ToSet(tabs) BY <2>1, InStrip DEF ToSet
  <2> QED BY <1>1, <1>2, <2>2, ActivatingKeeps
<1>3. CASE UNCHANGED <<activeTab, styled, shown>> BY <1>1, <1>3, EnablingKeeps
<1> QED BY <1>2, <1>3 DEF Disable

LEMMA RemoveKeeps ==
  ASSUME TabInv, NEW t \in Tabs, RemoveTab(t)
  PROVE  TabInv'
<1>0. TabTypeOK /\ SomeTabActive /\ ShowsActiveTab BY DEF TabInv
<1>1. /\ tabs' = RemoveFirst(tabs, t)
      /\ UNCHANGED <<name, content, enabled>>
      /\ \/ /\ t = activeTab /\ tabs' # <<>>
            /\ ActivateTab(Head(tabs'), styled, NoTab)
         \/ /\ t = activeTab /\ tabs' = <<>>
            /\ activeTab' = NoTab
            /\ UNCHANGED <<styled, shown>>
         \/ /\ t # activeTab
            /\ UNCHANGED <<activeTab, styled, shown>>
  BY DEF RemoveTab, NoTabActive
<1>2. Created' = Created BY <1>1 DEF Created
<1>3. CreatedInOrder' BY <1>2 DEF TabInv, CreatedInOrder
<1>4. /\ tabs' \in Seq(Created) /\ DOMAIN tabs' = 1 .. Len(tabs')
      /\ \A i, j \in DOMAIN tabs' : name[tabs'[i]] = name[tabs'[j]] => i = j
      /\ ToSet(tabs') = ToSet(tabs) \ {t}
  <2>0. tabs \in Seq(Created) BY <1>0 DEF TabTypeOK
  <2>1. CASE t \notin ToSet(tabs) /\ tabs' = tabs BY <1>0, <2>0, <2>1 DEF TabTypeOK
  <2>2. CASE \E p \in 1 .. Len(tabs) : tabs[p] = t /\ tabs' = RemoveAt(tabs, p)
    <3>1. PICK p \in 1 .. Len(tabs) : tabs[p] = t /\ tabs' = RemoveAt(tabs, p) BY <2>2
    <3> DEFINE n == Len(tabs)
               old(i) == IF i < p THEN i ELSE i + 1
    <3>2. /\ tabs' \in Seq(Created) /\ n \in Nat /\ Len(tabs') = n - 1
          /\ \A k \in 1 .. n - 1 : tabs'[k] = IF k < p THEN tabs[k] ELSE tabs[k + 1]
      BY <2>0, <3>1, RemoveAtProperties
    <3>3. DOMAIN tabs' = 1 .. n - 1 /\ DOMAIN tabs = 1 .. n BY <2>0, <3>2
    <3>p. p \in 1 .. n OBVIOUS
    <3> HIDE DEF n
    <3>4. \A i \in 1 .. n - 1 : old(i) \in 1 .. n /\ old(i) # p /\ tabs'[i] = tabs[old(i)]
      BY <3>2, <3>p
    <3>5. \A i, j \in 1 .. n - 1 : old(i) = old(j) => i = j BY <3>2, <3>p
    <3>6. \A k \in 1 .. n : k # p => \E i \in 1 .. n - 1 : old(i) = k
      <4> SUFFICES ASSUME NEW k \in 1 .. n, k # p PROVE \E i \in 1 .. n - 1 : old(i) = k OBVIOUS
      <4>1. CASE k < p
        <5>1. k \in 1 .. n - 1 /\ old(k) = k BY <3>2, <3>p, <4>1
        <5> QED BY <5>1
      <4>2. CASE k > p
        <5>1. k - 1 \in 1 .. n - 1 /\ old(k - 1) = k BY <3>2, <3>p, <4>2
        <5> QED BY <5>1
      <4> QED BY <3>2, <3>p, <4>1, <4>2
    <3> HIDE DEF old
    <3>7. \A i, j \in 1 .. n : name[tabs[i]] = name[tabs[j]] => i = j BY <1>0, <3>3 DEF TabTypeOK
    <3>8. \A i, j \in 1 .. n - 1 : name[tabs'[i]] = name[tabs'[j]] => i = j BY <3>4, <3>5, <3>7
    <3>9. ToSet(tabs') = ToSet(tabs) \ {t}
      <4>1. \A i \in 1 .. n - 1 : tabs'[i] \in ToSet(tabs) \ {t}
          BY <3>1, <3>3, <3>4, <3>7, <3>p DEF ToSet
      <4>2. \A k \in 1 .. n : tabs[k] # t => tabs[k] \in ToSet(tabs') BY <3>1, <3>3, <3>4, <3>6 DEF ToSet
      <4>3. ToSet(tabs') = {tabs'[i] : i \in 1 .. n - 1} /\ ToSet(tabs) = {tabs[i] : i \in 1 .. n}
          BY <3>3 DEF ToSet
      <4> QED BY <4>1, <4>2, <4>3
    <3> QED BY <3>2, <3>3, <3>8, <3>9 DEF n
  <2> QED BY <1>1, <2>0, <2>1, <2>2, RemoveFirstProperties
<1>5. Contains(tabs, activeTab) => activeTab # NoTab /\ activeTab \in ToSet(tabs)
  BY InStrip, NoTabIsNone
<1>6. /\ \A u : u \in ToSet(tabs') => Contains(tabs', u)
      /\ tabs' = <<>> <=> ToSet(tabs') = {}
  <2>1. tabs' = <<>> <=> Len(tabs') = 0 BY <1>4
  <2>2. Len(tabs') # 0 => 1 \in DOMAIN tabs' BY <1>4
  <2>3. Len(tabs') = 0 => DOMAIN tabs' = {} BY <1>4
  <2>4. \A u : u \in ToSet(tabs') => Contains(tabs', u) BY DEF ToSet, Contains
  <2>5. ToSet(tabs') = {} <=> DOMAIN tabs' = {} BY DEF ToSet
  <2> QED BY <2>1, <2>2, <2>3, <2>4, <2>5
<1>7. CASE t = activeTab /\ tabs' # <<>> /\ ActivateTab(Head(tabs'), styled, NoTab)
  <2> DEFINE h == Head(tabs')
  <2>1. h \in ToSet(tabs')
    <3>1. 1 \in DOMAIN tabs' /\ h = tabs'[1] BY <1>4, <1>7
    <3> QED BY <3>1 DEF ToSet
  <2> HIDE DEF h
  <2>2. h \in Tabs /\ h \in Created /\ ToSet(tabs') \in SUBSET Tabs /\ h # t /\ h # NoTab
      BY <1>4, <2>1, InStrip, NoTabIsNone
  <2>3. styled \cap (ToSet(tabs') \ {h}) \subseteq {NoTab} BY <1>0, <1>4, <1>7 DEF ShowsActiveTab
  <2>4. /\ activeTab' = h /\ styled' \cap ToSet(tabs') = {h} /\ styled' \subseteq styled \cup {h}
        /\ shown' = content'[h]
    <3>1. NoTab \in Tabs \cup {NoTab} OBVIOUS
    <3>2. ActivateTab(h, styled, NoTab) BY <1>7 DEF h
    <3> QED BY <2>1, <2>2, <2>3, <3>1, <3>2, Activated
  <2>5. SomeTabActive' BY <1>6, <1>7, <2>1, <2>4 DEF SomeTabActive
  <2>6. ShowsActiveTab' BY <1>1, <2>2, <2>4 DEF ShowsActiveTab
  <2>7. styled' \subseteq Created' /\ styled' \subseteq Tabs BY <1>2, <2>2, <2>4, InStrip DEF TabInv
  <2>8. shown' \in Contents \cup {NoTab} BY <1>0, <1>1, <2>2, <2>4 DEF TabTypeOK
  <2>9. TabTypeOK' BY <1>0, <1>1, <1>2, <1>4, <2>2, <2>4, <2>7, <2>8 DEF TabTypeOK
  <2> QED BY <1>3, <2>5, <2>6, <2>7, <2>9 DEF TabInv
<1>8. CASE t = activeTab /\ tabs' = <<>> /\ activeTab' = NoTab /\ UNCHANGED <<styled, shown>>
  <2>1. SomeTabActive' BY <1>8 DEF SomeTabActive
  <2>2. ShowsActiveTab' BY <1>6, <1>8 DEF ShowsActiveTab
  <2>3. TabTypeOK' BY <1>0, <1>1, <1>2, <1>4, <1>8 DEF TabTypeOK
  <2> QED BY <1>2, <1>3, <1>8, <2>1, <2>2, <2>3 DEF TabInv
<1>9. CASE t # activeTab /\ UNCHANGED <<activeTab, styled, shown>>
  <2>1. SomeTabActive' BY <1>0, <1>4, <1>5, <1>6, <1>9, InStrip DEF SomeTabActive
  <2>2. ShowsActiveTab' BY <1>0, <1>1, <1>4, <1>9 DEF ShowsActiveTab
  <2>3. TabTypeOK' BY <1>0, <1>1, <1>2, <1>4, <1>9 DEF TabTypeOK
  <2> QED BY <1>2, <1>3, <1>9, <2>1, <2>2, <2>3 DEF TabInv
<1> QED BY <1>1, <1>7, <1>8, <1>9

LEMMA ClearKeeps ==
  ASSUME TabInv, Clear
  PROVE  TabInv'
<1>1. /\ tabs' = <<>> /\ activeTab' = NoTab /\ shown' = NoTab
      /\ UNCHANGED <<name, content, enabled, styled>>
  BY DEF Clear, NoTabActive
<1>2. Created' = Created /\ ToSet(tabs') = {} /\ DOMAIN tabs' = {} BY <1>1 DEF Created, ToSet
<1>3. TabTypeOK'
  <2>1. <<>> \in Seq(Created) OBVIOUS
  <2> QED BY <1>1, <1>2, <2>1 DEF TabInv, TabTypeOK
<1> QED BY <1>1, <1>2, <1>3 DEF TabInv, CreatedInOrder, SomeTabActive, ShowsActiveTab

\* Callers that let go of the handles of removed tabs, and set no null widget.
LEMMA TabInvariant == ~StaleHandles /\ ~NullWidgets => (TabSpec => []TabInv)
<1> SUFFICES ASSUME ~StaleHandles, ~NullWidgets PROVE TabSpec => []TabInv OBVIOUS
<1>1. TabInv /\ [TabNext]_tabVars => TabInv'
  <2> SUFFICES ASSUME TabInv, [TabNext]_tabVars PROVE TabInv' OBVIOUS
  <2>0. Handles = ToSet(tabs) /\ Widgets = Contents /\ Handles \subseteq Tabs
      BY InStrip DEF Handles, Widgets
  <2>e. enabled \subseteq Tabs BY DEF TabInv, TabTypeOK
  <2>1. ASSUME NEW n \in Names, NEW index \in 0 .. MaxTabs, CreateAndInsertTab(n, index) PROVE TabInv'
      BY <2>1, CreateKeeps
  <2>2. ASSUME NEW t \in Handles, NEW w \in Widgets, SetWidget(t, w) PROVE TabInv'
      BY <2>0, <2>2, SetWidgetKeeps
  <2>3. ASSUME NEW t \in ToSet(tabs), Activate(t) PROVE TabInv'
      BY <2>e, <2>3, ActivatingKeeps DEF Activate
  <2>4. ASSUME NEW t \in Handles, Enable(t) PROVE TabInv'
      BY <2>0, <2>e, <2>4, EnablingKeeps DEF Enable
  <2>5. ASSUME NEW t \in Handles, Disable(t) PROVE TabInv' BY <2>0, <2>5, DisableKeeps
  <2>6. ASSUME NEW t \in Handles, RemoveTab(t) PROVE TabInv' BY <2>0, <2>6, RemoveKeeps
  <2>7. ASSUME NEW t \in Tabs, Select(t) PROVE TabInv'
      BY <2>3, <2>7, InStrip DEF Select
  <2>8. CASE Clear BY <2>8, ClearKeeps
  <2>9. CASE UNCHANGED tabVars
      BY <2>e, <2>9, EnablingKeeps DEF tabVars
  <2> QED BY <2>0, <2>1, <2>2, <2>3, <2>4, <2>5, <2>6, <2>7, <2>8, <2>9 DEF TabNext
<1> QED BY <1>1, TabStarts, PTL DEF TabSpec

\* A disabled tab becomes active only when nothing is enabled, or when a caller
\* activates it or removes the tab that was; a new tab takes its place.
Excused ==
  \/ activeTab' = activeTab /\ activeTab \notin enabled
  \/ enabled' \intersect ToSet(tabs') = {}
  \/ \E t \in Handles : Activate(t)
  \/ RemoveTab(activeTab)

GivesWay ==
  /\ activeTab' \notin enabled' \union {NoTab} => Excused
  /\ (\E n \in Names, i \in 0 .. MaxTabs : CreateAndInsertTab(n, i)) => activeTab' \in enabled'

\* What disabling does to an active tab that stays disabled.
LEMMA DisableIsExcused ==
  ASSUME TabInv, NEW t \in Tabs, Disable(t), activeTab' \notin enabled'
  PROVE  Excused
<1> DEFINE e == enabled \ {t}
           i == FirstEnabled(e)
<1>1. enabled' = e /\ tabs' = tabs BY DEF Disable
<1>2. CASE t = activeTab /\ i # 0 /\ ActivateTab(tabs[i], styled, activeTab)
  <2>1. tabs[i] \in e
    <3> HIDE DEF e
    <3> QED BY <1>2, FirstEnabledIs
  <2> QED BY <1>1, <1>2, <2>1 DEF ActivateTab
<1>3. CASE t # activeTab /\ UNCHANGED activeTab BY <1>1, <1>3 DEF Excused
<1>4. CASE i = 0
  <2>1. \A k \in 1 .. Len(tabs) : tabs[k] \notin e
    <3> HIDE DEF e
    <3> QED BY <1>4, FirstEnabledIs
  <2> QED BY <1>1, <2>1, InStrip DEF ToSet, Excused
<1> QED BY <1>2, <1>3, <1>4 DEF Disable

LEMMA StepGivesWay ==
  ASSUME TabInv, ~StaleHandles, [TabNext]_tabVars
  PROVE  GivesWay
<1>1. ASSUME activeTab' \notin enabled' \union {NoTab} PROVE Excused
  <2>0. Handles = ToSet(tabs) /\ Handles \subseteq Tabs BY InStrip DEF Handles
  <2>1. ASSUME NEW n \in Names, NEW index \in 0 .. MaxTabs, CreateAndInsertTab(n, index) PROVE Excused
      BY <1>1, <2>1 DEF CreateAndInsertTab, Yields, ActivateTab
  <2>2. ASSUME NEW t \in Handles, NEW w \in Widgets, SetWidget(t, w) PROVE Excused
      BY <1>1, <2>2 DEF SetWidget, Excused
  <2>3. ASSUME NEW t \in Handles, Activate(t) PROVE Excused BY <2>3 DEF Excused
  <2>4. ASSUME NEW t \in Handles, Enable(t) PROVE Excused BY <1>1, <2>4 DEF Enable, Excused
  <2>5. ASSUME NEW t \in Handles, Disable(t) PROVE Excused BY <1>1, <2>0, <2>5, DisableIsExcused
  <2>6. ASSUME NEW t \in Handles, RemoveTab(t) PROVE Excused
    <3>1. CASE t = activeTab BY <2>6, <3>1 DEF Excused
    <3>2. CASE t # activeTab
      <4>1. UNCHANGED <<activeTab, enabled>> BY <2>6, <3>2 DEF RemoveTab
      <4> QED BY <1>1, <4>1 DEF Excused
    <3> QED BY <3>1, <3>2
  <2>7. ASSUME NEW t \in Tabs, Select(t) PROVE Excused BY <2>0, <2>3, <2>7, InStrip DEF Select
  <2>8. CASE Clear BY <1>1, <2>8 DEF Clear, NoTabActive
  <2>9. CASE UNCHANGED tabVars BY <1>1, <2>9 DEF tabVars, Excused
  <2> QED BY <2>1, <2>2, <2>3, <2>4, <2>5, <2>6, <2>7, <2>8, <2>9 DEF TabNext
<1>2. ASSUME NEW n \in Names, NEW i \in 0 .. MaxTabs, CreateAndInsertTab(n, i) PROVE activeTab' \in enabled'
  BY <1>2 DEF CreateAndInsertTab, Yields, ActivateTab
<1> QED BY <1>1, <1>2 DEF GivesWay

\* One tab of the strip is active as long as there is one, its view alone has the
\* style and its content is on the page; a disabled tab is active only if nothing
\* else is enabled, or if activate or remove made it so (OneTabShown): for any
\* tabs and any order of the calls, of callers that use no handle of a removed tab
\* and set no null widget.
THEOREM OneTabIsShown == ~StaleHandles /\ ~NullWidgets => (TabSpec => OneTabShown)
<1> SUFFICES ASSUME ~StaleHandles, ~NullWidgets PROVE TabSpec => OneTabShown OBVIOUS
<1>1. TabInv => SomeTabActive /\ ShowsActiveTab BY DEF TabInv
<1>2. TabSpec => []TabInv BY TabInvariant
<1>3. TabInv /\ [TabNext]_tabVars => [GivesWay]_tabVars BY StepGivesWay
<1>4. TabSpec => [][GivesWay]_tabVars BY <1>2, <1>3, PTL DEF TabSpec
<1>5. TabSpec => DisabledGivesWay BY <1>4 DEF DisabledGivesWay, GivesWay, Excused
<1>6. TabSpec => []SomeTabActive /\ []ShowsActiveTab BY <1>1, <1>2, PTL
<1> QED BY <1>5, <1>6 DEF OneTabShown

(***************************************************************************)
(* The queue of definitions                                                *)
(*                                                                         *)
(* All that was queued stands in one line: the registered, those about to  *)
(* be flushed, the queue of the imports and that of the main document.     *)
(* Steps move definitions along it and new ones come in where the order    *)
(* allows it.  Of the calls on the stack the invariant says who is to go   *)
(* on.                                                                     *)
(***************************************************************************)
HIDE StatisticsAssumption

\* All that was queued, in the order in which it is registered.
Line(s) == s.registered \o s.flushQueue \o s.importQueue \o s.mainQueue

\* The calls that are kept on the stack: checks and rounds of callbacks, the init
\* of a definition, and calls of ready, which flush first and then upgrade.
Frames == [kind : {"check", "callbacks"}] \cup [kind : {"init"}, definition : Definitions]
              \cup [kind : {"flush", "upgrade"}, was : BOOLEAN]

\* What a definition can inherit from.
Bases == Definitions \cup {Native}

\* What type pq has.
QueueStates ==
    [elements : Seq(Definitions), prototypes : SUBSET Definitions, clients : SUBSET Definitions,
     queued : Seq(Definitions), importQueue : Seq(Definitions), mainQueue : Seq(Definitions),
     flushQueue : Seq(Definitions), flushable : SUBSET Definitions, needs : SUBSET Definitions,
     registered : Seq(Definitions), bases : UNION {[X -> Bases] : X \in SUBSET Bases},
     base : UNION {[X -> Bases] : X \in SUBSET Definitions}, waitToReady : BOOLEAN,
     flushing : BOOLEAN, ceReady : BOOLEAN, callbacks : Seq(1 .. MaxWhenReady), stack : Seq(Frames)]

\* The line holds what was queued, each once, and in an order that is allowed.
Follows(line, queued) ==
    /\ Distinct(queued) /\ Distinct(line) /\ ToSet(line) = ToSet(queued)
    /\ \A i, j \in 1 .. Len(queued) :
          i < j /\ (queued[i] \in Imported \/ queued[j] \notin Imported) => InOrder(line, queued[i], queued[j])

\* The line is kept, and each queue holds its own.
LineKept(s) ==
    /\ Follows(Line(s), s.queued)
    /\ ToSet(s.importQueue) \subseteq Imported /\ ToSet(s.mainQueue) \cap Imported = {}

\* Each registered definition inherits from what is known by the name it extends;
\* that is the definition of the name unless another extended it too early.
BasesKept(s) ==
    /\ DOMAIN s.base = ToSet(s.registered) /\ DOMAIN s.bases = {Extends[e] : e \in ToSet(s.registered)}
    /\ \A e \in ToSet(s.registered) : s.base[e] = s.bases[Extends[e]]
    /\ \A d \in Definitions \cap DOMAIN s.bases :
          s.bases[d] = d \/ \E e \in ToSet(s.registered) : Extends[e] = d /\ ~ InOrder(s.registered, d, e)

\* What is ready to be registered is what was taken out of the queues; who was
\* queued has a prototype, who waits for one has none.
SetsKept(s) ==
    /\ s.flushable = ToSet(s.registered) \cup ToSet(s.flushQueue)
    /\ ToSet(s.queued) \subseteq ToSet(s.elements) \cap s.prototypes
    /\ s.clients \subseteq ToSet(s.elements) \ s.prototypes
    /\ s.needs \subseteq ToSet(s.elements)

\* The definition whose init runs.
Fresh(s, d) == s.stack # <<>> /\ Last(s.stack).kind = "init" /\ Last(s.stack).definition = d

\* Each definition was queued or waits for its prototype, but the one whose init runs.
Found(s) == \A d \in ToSet(s.elements) : d \in ToSet(s.queued) \cup s.clients \/ Fresh(s, d)

\* While no call of whenReady holds up the imports, the head of the queue lacks something.
HeadLacks(s, ids) ==
    nextQueued(s) # <<>> /\ 1 \notin ids => Head(nextQueued(s)) \notin s.prototypes \ s.needs

\* A call of one of these kinds is on the stack.
Some(stack, kinds) == \E i \in 1 .. Len(stack) : stack[i].kind \in kinds

\* When all is ready, somebody on the stack or an animation frame does what is left.
GoesOn(s, raf, ids) ==
    /\ canReady(s) /\ s.flushQueue # <<>> => Some(s.stack, {"check", "flush"})
    /\ canReady(s) /\ s.callbacks # <<>> => raf \/ Some(s.stack, {"check", "flush", "upgrade", "callbacks"})
    /\ s.waitToReady => ids # {}

\* The calls of ready.
Prepares(frame) == frame.kind \in {"flush", "upgrade"}

\* A frame of ready is below one of the first k frames.
PreparesWithin(stack, k) == \E i \in 1 .. k : Prepares(stack[i])

\* The outermost call of ready flushes, none below it, and each knows whether
\* custom elements were ready when it began.
StackKept(s) ==
    /\ s.flushing <=> \E i \in 1 .. Len(s.stack) : s.stack[i].kind = "flush"
    /\ \A i, j \in 1 .. Len(s.stack) : s.stack[i].kind = "flush" /\ s.stack[j].kind = "flush" => i = j
    /\ s.ceReady <=> ~ PreparesWithin(s.stack, Len(s.stack))
    /\ \A i \in 1 .. Len(s.stack) : Prepares(s.stack[i]) => (s.stack[i].was <=> ~ PreparesWithin(s.stack, i - 1))

\* Calls of init are about definitions there are.
InitsKept(s) ==
    \A i \in 1 .. Len(s.stack) : s.stack[i].kind = "init" => s.stack[i].definition \in ToSet(s.elements)

\* The fields of pq.
Fields == {"elements", "prototypes", "clients", "queued", "importQueue", "mainQueue", "flushQueue", "flushable",
           "needs", "registered", "bases", "base", "waitToReady", "flushing", "ceReady", "callbacks", "stack"}

\* Two states that differ in some fields only, or agree in some.
SameBut(t, s, changed) == \A f \in Fields \ changed : t[f] = s[f]

\* The types of base and bases.
BaseMaps == UNION {[X -> Bases] : X \in SUBSET Definitions}
NameMaps == UNION {[X -> Bases] : X \in SUBSET Bases}

\* A state of the queue is a record of these fields.
LEMMA StateFields ==
  ASSUME NEW t, DOMAIN t = Fields, t = [f \in Fields |-> t[f]],
         {t.elements, t.queued, t.importQueue, t.mainQueue, t.flushQueue, t.registered} \subseteq Seq(Definitions),
         {t.prototypes, t.clients, t.flushable, t.needs} \subseteq SUBSET Definitions,
         t.bases \in NameMaps, t.base \in BaseMaps,
         {t.waitToReady, t.flushing, t.ceReady} \subseteq BOOLEAN,
         t.callbacks \in Seq(1 .. MaxWhenReady), t.stack \in Seq(Frames)
  PROVE  t \in QueueStates
<1> DEFINE u == [elements |-> t.elements, prototypes |-> t.prototypes, clients |-> t.clients,
     queued |-> t.queued, importQueue |-> t.importQueue, mainQueue |-> t.mainQueue,
     flushQueue |-> t.flushQueue, flushable |-> t.flushable, needs |-> t.needs,
     registered |-> t.registered, bases |-> t.bases,
     base |-> t.base, waitToReady |-> t.waitToReady,
     flushing |-> t.flushing, ceReady |-> t.ceReady, callbacks |-> t.callbacks, stack |-> t.stack]
<1>1. u \in QueueStates BY DEF QueueStates, NameMaps, BaseMaps
<1>2. t = u BY DEF Fields
<1> QED BY <1>1, <1>2

Same(t, s, fields) == \A f \in fields : t[f] = s[f]

\* Where only some fields changed, the others are the same.
LEMMA SameOthers ==
  ASSUME NEW t, NEW s, NEW C, SameBut(t, s, C), NEW F, F \subseteq Fields, F \cap C = {}
  PROVE  Same(t, s, F)
BY DEF SameBut, Same

\* What the functions of the queue change, field by field.
LEMMA CalledIs ==
  ASSUME NEW s \in QueueStates, NEW frame \in Frames
  PROVE  /\ Called(s, frame) \in QueueStates
         /\ SameBut(Called(s, frame), s, {"stack"})
         /\ Called(s, frame).stack = Append(s.stack, frame)
<1> DEFINE v == Append(s.stack, frame)
<1>1. v \in Seq(Frames)
  <2>1. s.stack \in Seq(Frames) BY DEF QueueStates
  <2> QED BY <2>1
<1> HIDE DEF v
<1> DEFINE t == [s EXCEPT !.stack = v]
<1>2. Called(s, frame) = t BY DEF Called, v
<1>3. SameBut(t, s, {"stack"}) /\ t.stack = v BY DEF SameBut, Fields, QueueStates
<1>4. t \in QueueStates BY <1>1, Zenon DEF QueueStates
<1> QED BY <1>2, <1>3, <1>4 DEF v

LEMMA EnqueueIs ==
  ASSUME NEW s \in QueueStates, NEW d \in Definitions, d \notin ToSet(s.queued)
  PROVE  /\ enqueue(s, d) \in QueueStates
         /\ SameBut(enqueue(s, d), s, {"queued", "importQueue", "mainQueue"})
         /\ enqueue(s, d).queued = Append(s.queued, d)
         /\ enqueue(s, d).importQueue = IF d \in Imported THEN Append(s.importQueue, d) ELSE s.importQueue
         /\ enqueue(s, d).mainQueue = IF d \in Imported THEN s.mainQueue ELSE Append(s.mainQueue, d)
<1> DEFINE q == Append(s.queued, d)
           i == Append(s.importQueue, d)
           m == Append(s.mainQueue, d)
<1>1. q \in Seq(Definitions) /\ i \in Seq(Definitions) /\ m \in Seq(Definitions)
  <2>1. {s.queued, s.importQueue, s.mainQueue} \subseteq Seq(Definitions) BY DEF QueueStates
  <2> QED BY <2>1
<1> HIDE DEF q, i, m
<1> DEFINE t == [s EXCEPT !.queued = q, !.importQueue = i]
           u == [s EXCEPT !.queued = q, !.mainQueue = m]
<1>2. enqueue(s, d) = IF d \in Imported THEN t ELSE u BY DEF enqueue, q, i, m
<1>3. SameBut(t, s, {"queued", "importQueue"}) /\ t.queued = q /\ t.importQueue = i
  BY DEF SameBut, Fields, QueueStates
<1>4. SameBut(u, s, {"queued", "mainQueue"}) /\ u.queued = q /\ u.mainQueue = m
  BY DEF SameBut, Fields, QueueStates
<1>5. t \in QueueStates BY <1>1, Zenon DEF QueueStates
<1>6. u \in QueueStates BY <1>1, Zenon DEF QueueStates
<1> HIDE DEF t, u
<1> QED BY <1>2, <1>3, <1>4, <1>5, <1>6 DEF q, i, m, SameBut, Fields

\* What go does before it calls check.
Taken(s, d) ==
    [s EXCEPT !.importQueue = IF d \in Imported THEN Tail(@) ELSE @,
              !.mainQueue = IF d \in Imported THEN @ ELSE Tail(@),
              !.flushable = @ \cup {d}, !.flushQueue = Append(@, d)]

LEMMA TakenIs ==
  ASSUME NEW s \in QueueStates, NEW d \in Definitions, queueForElement(s, d) # <<>>
  PROVE  /\ Taken(s, d) \in QueueStates
         /\ SameBut(Taken(s, d), s, {"importQueue", "mainQueue", "flushable", "flushQueue"})
         /\ Taken(s, d).importQueue = IF d \in Imported THEN Tail(s.importQueue) ELSE s.importQueue
         /\ Taken(s, d).mainQueue = IF d \in Imported THEN s.mainQueue ELSE Tail(s.mainQueue)
         /\ Taken(s, d).flushable = s.flushable \cup {d}
         /\ Taken(s, d).flushQueue = Append(s.flushQueue, d)
<1> DEFINE i == IF d \in Imported THEN Tail(s.importQueue) ELSE s.importQueue
           m == IF d \in Imported THEN s.mainQueue ELSE Tail(s.mainQueue)
           g == s.flushable \cup {d}
           q == Append(s.flushQueue, d)
<1>1. i \in Seq(Definitions) /\ m \in Seq(Definitions) /\ q \in Seq(Definitions) /\ g \in SUBSET Definitions
  <2>1. {s.flushQueue, s.importQueue, s.mainQueue} \subseteq Seq(Definitions) /\ s.flushable \in SUBSET Definitions
    BY DEF QueueStates
  <2> QED BY <2>1 DEF queueForElement
<1> HIDE DEF i, m, g, q
<1> DEFINE t == [s EXCEPT !.importQueue = i, !.mainQueue = m, !.flushable = g, !.flushQueue = q]
<1>2. Taken(s, d) = t BY DEF Taken, i, m, g, q
<1>3. /\ SameBut(t, s, {"importQueue", "mainQueue", "flushable", "flushQueue"})
      /\ t.importQueue = i /\ t.mainQueue = m /\ t.flushable = g /\ t.flushQueue = q
  BY DEF SameBut, Fields, QueueStates
<1>4. t \in QueueStates BY <1>1, Zenon DEF QueueStates
<1> QED BY <1>2, <1>3, <1>4 DEF i, m, g, q

LEMMA PolymerCalledIs ==
  ASSUME NEW s \in QueueStates, NEW d \in Definitions
  PROVE  /\ PolymerCalled(s, d) \in QueueStates
         /\ SameBut(PolymerCalled(s, d), s, {"prototypes", "clients"})
         /\ PolymerCalled(s, d).prototypes = s.prototypes \cup {d}
         /\ PolymerCalled(s, d).clients = s.clients \ {d}
<1> DEFINE p == s.prototypes \cup {d}
           c == s.clients \ {d}
<1>1. p \in SUBSET Definitions /\ c \in SUBSET Definitions
  <2>1. s.prototypes \in SUBSET Definitions /\ s.clients \in SUBSET Definitions BY DEF QueueStates
  <2> QED BY <2>1
<1> HIDE DEF p, c
<1> DEFINE t == [s EXCEPT !.prototypes = p, !.clients = c]
<1>2. PolymerCalled(s, d) = t BY DEF PolymerCalled, p, c
<1>3. SameBut(t, s, {"prototypes", "clients"}) /\ t.prototypes = p /\ t.clients = c
  BY DEF SameBut, Fields, QueueStates
<1>4. t \in QueueStates BY <1>1, Zenon DEF QueueStates
<1> QED BY <1>2, <1>3, <1>4 DEF p, c

LEMMA WaitsIs ==
  ASSUME NEW s \in QueueStates, NEW d \in Definitions
  PROVE  LET w == waitingForPrototype(s, d)
         IN  /\ w \in QueueStates
             /\ SameBut(w, s, {"prototypes", "clients"})
             /\ \/ d \in s.prototypes /\ w = s
                \/ d \notin s.prototypes /\ w.prototypes = s.prototypes \cup {d} /\ w.clients = s.clients \ {d}
                \/ d \notin s.prototypes /\ w.prototypes = s.prototypes /\ w.clients = s.clients \cup {d}
<1> DEFINE c == s.clients \cup {d}
<1>1. c \in SUBSET Definitions
  <2>1. s.clients \in SUBSET Definitions BY DEF QueueStates
  <2> QED BY <2>1
<1> HIDE DEF c
<1> DEFINE t == [s EXCEPT !.clients = c]
           p == PolymerCalled(s, d)
           w == waitingForPrototype(s, d)
<1>2. w = IF d \in s.prototypes THEN s ELSE IF d \in NoScripts THEN p ELSE t
  BY DEF waitingForPrototype, c
<1>3. SameBut(t, s, {"clients"}) /\ t.clients = c /\ t.prototypes = s.prototypes
  BY DEF SameBut, Fields, QueueStates
<1>4. t \in QueueStates BY <1>1, Zenon DEF QueueStates
<1>5. SameBut(s, s, {"prototypes", "clients"}) BY DEF SameBut
<1>6. SameBut(t, s, {"prototypes", "clients"}) BY <1>3 DEF SameBut
<1> HIDE DEF t, w
<1> QED BY <1>2, <1>3, <1>4, <1>5, <1>6, PolymerCalledIs DEF c, w

LEMMA ReadyIs ==
  ASSUME NEW s \in QueueStates
  PROVE  /\ ready(s) \in QueueStates
         /\ SameBut(ready(s), s, {"ceReady", "flushing", "stack"})
         /\ ready(s).ceReady = FALSE /\ ready(s).flushing = TRUE
         /\ ready(s).stack = Append(s.stack, [kind |-> IF s.flushing THEN "upgrade" ELSE "flush", was |-> s.ceReady])
<1> DEFINE v == Append(s.stack, [kind |-> IF s.flushing THEN "upgrade" ELSE "flush", was |-> s.ceReady])
<1>1. v \in Seq(Frames)
  <2>1. s.stack \in Seq(Frames) /\ s.ceReady \in BOOLEAN BY DEF QueueStates
  <2>2. [kind |-> IF s.flushing THEN "upgrade" ELSE "flush", was |-> s.ceReady] \in Frames BY <2>1 DEF Frames
  <2> QED BY <2>1, <2>2
<1> HIDE DEF v
<1> DEFINE t == [s EXCEPT !.ceReady = FALSE, !.flushing = TRUE, !.stack = v]
<1>2. ready(s) = t BY DEF ready, v
<1>3. SameBut(t, s, {"ceReady", "flushing", "stack"}) /\ t.ceReady = FALSE /\ t.flushing = TRUE /\ t.stack = v
  BY DEF SameBut, Fields, QueueStates
<1>4. t \in QueueStates BY <1>1, Zenon DEF QueueStates
<1> QED BY <1>2, <1>3, <1>4 DEF v

LEMMA ReturnedIs ==
  ASSUME NEW s \in QueueStates, s.stack # <<>>
  PROVE  /\ Returned(s) \in QueueStates
         /\ SameBut(Returned(s), s, {"stack"})
         /\ Returned(s).stack = Front(s.stack)
<1> DEFINE v == Front(s.stack)
<1>1. v \in Seq(Frames)
  <2>1. s.stack \in Seq(Frames) BY DEF QueueStates
  <2> QED BY <2>1 DEF Front
<1> HIDE DEF v
<1> DEFINE t == [s EXCEPT !.stack = v]
<1>2. Returned(s) = t BY DEF Returned, v
<1>3. SameBut(t, s, {"stack"}) /\ t.stack = v BY DEF SameBut, Fields, QueueStates
<1>4. t \in QueueStates BY <1>1, Zenon DEF QueueStates
<1> QED BY <1>2, <1>3, <1>4 DEF v

\* What FlushNext does.
Flushed(s) == _register([s EXCEPT !.flushQueue = Tail(@)], Head(s.flushQueue))

LEMMA FlushedIs ==
  ASSUME NEW s \in QueueStates, s.flushQueue # <<>>
  PROVE  LET d == Head(s.flushQueue)
             e == generateBasePrototype(s, Extends[d])
             t == Flushed(s)
         IN  /\ d \in Definitions /\ e \in Bases
             /\ t \in QueueStates
             /\ SameBut(t, s, {"flushQueue", "registered", "bases", "base"})
             /\ t.flushQueue = Tail(s.flushQueue)
             /\ t.registered = Append(s.registered, d)
             /\ t.base = [x \in DOMAIN s.base \cup {d} |-> IF x = d THEN e ELSE s.base[x]]
             /\ t.bases = [x \in DOMAIN s.bases \cup {Extends[d]} |-> IF x = Extends[d] THEN e ELSE s.bases[x]]
<1> DEFINE d == Head(s.flushQueue)
           n == Extends[d]
           e == generateBasePrototype(s, n)
           q == Tail(s.flushQueue)
           r == Append(s.registered, d)
           b == [x \in DOMAIN s.base \cup {d} |-> IF x = d THEN e ELSE s.base[x]]
           c == [x \in DOMAIN s.bases \cup {n} |-> IF x = n THEN e ELSE s.bases[x]]
           s1 == [s EXCEPT !.flushQueue = q]
<1>0. /\ s.flushQueue \in Seq(Definitions) /\ s.registered \in Seq(Definitions)
      /\ s.bases \in NameMaps /\ s.base \in BaseMaps
  BY DEF QueueStates, NameMaps, BaseMaps
<1>1. d \in Definitions /\ q \in Seq(Definitions) BY <1>0
<1>2. n \in Bases BY <1>1, PolymerQueueAssumption DEF Bases
<1>3. e \in Bases
  <2>1. n \in DOMAIN s.bases => s.bases[n] \in Bases BY <1>0 DEF NameMaps
  <2> HIDE DEF n
  <2> QED BY <1>2, <2>1 DEF generateBasePrototype, Bases
<1>4. r \in Seq(Definitions) BY <1>0, <1>1
<1> HIDE DEF d, n, e
<1>5. b \in BaseMaps
  <2>1. PICK X \in SUBSET Definitions : s.base \in [X -> Bases] BY <1>0 DEF BaseMaps
  <2>2. b \in [X \cup {d} -> Bases] BY <1>3, <2>1
  <2> QED BY <1>1, <2>2 DEF BaseMaps
<1>6. c \in NameMaps
  <2>1. PICK X \in SUBSET Bases : s.bases \in [X -> Bases] BY <1>0 DEF NameMaps
  <2>2. c \in [X \cup {n} -> Bases] BY <1>3, <2>1
  <2> QED BY <1>2, <2>2 DEF NameMaps
<1> HIDE DEF q
<1>7. s1.registered = s.registered /\ s1.bases = s.bases /\ s1.base = s.base BY DEF QueueStates
<1>8. generateBasePrototype(s1, n) = e BY <1>7 DEF e, generateBasePrototype
<1> HIDE DEF r, b, c
<1> DEFINE t == [s EXCEPT !.flushQueue = q, !.registered = r, !.base = b, !.bases = c]
           t1 == [s1 EXCEPT !.registered = r, !.base = b, !.bases = c]
<1>9. Flushed(s) = t1
  BY <1>7, <1>8 DEF Flushed, _register, d, n, q, r, b, c
<1>10. t1 = t
  <2>1. DOMAIN s = Fields BY DEF QueueStates, Fields
  <2> HIDE DEF Fields
  <2> QED BY <2>1
<1>11. /\ SameBut(t, s, {"flushQueue", "registered", "bases", "base"})
       /\ t.flushQueue = q /\ t.registered = r /\ t.base = b /\ t.bases = c
  BY DEF SameBut, Fields, QueueStates
<1>12. t \in QueueStates BY <1>1, <1>4, <1>5, <1>6, Zenon DEF QueueStates, BaseMaps, NameMaps
<1> HIDE DEF s1, t, t1
<1> QED BY <1>1, <1>3, <1>9, <1>10, <1>11, <1>12 DEF d, n, e, q, r, b, c

\* The types of the fields.
LEMMA QueueTypes ==
  ASSUME NEW s \in QueueStates
  PROVE  /\ {s.elements, s.queued, s.importQueue, s.mainQueue, s.flushQueue, s.registered} \subseteq Seq(Definitions)
         /\ {s.prototypes, s.clients, s.flushable, s.needs} \subseteq SUBSET Definitions
         /\ s.stack \in Seq(Frames) /\ s.callbacks \in Seq(1 .. MaxWhenReady)
         /\ {s.waitToReady, s.flushing, s.ceReady} \subseteq BOOLEAN
         /\ Line(s) \in Seq(Definitions)
<1>1. /\ {s.elements, s.queued, s.importQueue, s.mainQueue, s.flushQueue, s.registered} \subseteq Seq(Definitions)
      /\ {s.prototypes, s.clients, s.flushable, s.needs} \subseteq SUBSET Definitions
      /\ s.stack \in Seq(Frames) /\ s.callbacks \in Seq(1 .. MaxWhenReady)
      /\ {s.waitToReady, s.flushing, s.ceReady} \subseteq BOOLEAN
  BY DEF QueueStates
<1>2. Line(s) \in Seq(Definitions) BY <1>1 DEF Line
<1> QED BY <1>1, <1>2

\* In the line are those registered, then those to be, then those that wait.
LEMMA LineElements ==
  ASSUME NEW s \in QueueStates
  PROVE  ToSet(Line(s)) = ToSet(s.registered) \cup ToSet(s.flushQueue) \cup ToSet(s.importQueue) \cup ToSet(s.mainQueue)
<1>1. {s.importQueue, s.mainQueue, s.flushQueue, s.registered} \subseteq Seq(Definitions) BY QueueTypes
<1>2. s.registered \o s.flushQueue \in Seq(Definitions) /\ s.registered \o s.flushQueue \o s.importQueue \in Seq(Definitions)
  BY <1>1
<1>3. ToSet(s.registered \o s.flushQueue) = ToSet(s.registered) \cup ToSet(s.flushQueue) BY <1>1, ElementsOfBoth
<1>4. ToSet(s.registered \o s.flushQueue \o s.importQueue) = ToSet(s.registered \o s.flushQueue) \cup ToSet(s.importQueue)
  <2> DEFINE f == s.registered \o s.flushQueue
             q == s.importQueue
  <2>1. f \in Seq(Definitions) /\ q \in Seq(Definitions) BY <1>1, <1>2
  <2> HIDE DEF f, q
  <2>2. ToSet(f \o q) = ToSet(f) \cup ToSet(q) BY ONLY <2>1, ElementsOfBoth
  <2> QED BY <2>2 DEF f, q
<1>5. ToSet(Line(s)) = ToSet(s.registered \o s.flushQueue \o s.importQueue) \cup ToSet(s.mainQueue)
  <2> DEFINE g == s.registered \o s.flushQueue \o s.importQueue
  <2>1. Line(s) = g \o s.mainQueue BY DEF Line
  <2>2. g \in Seq(Definitions) /\ s.mainQueue \in Seq(Definitions) BY <1>1, <1>2
  <2> HIDE DEF g
  <2>3. ToSet(g \o s.mainQueue) = ToSet(g) \cup ToSet(s.mainQueue) BY <2>2, ElementsOfBoth
  <2> QED BY <2>1, <2>3 DEF g
<1> QED BY <1>3, <1>4, <1>5

\* What the line depends on.
LineFields == {"queued", "importQueue", "mainQueue", "flushQueue", "registered"}

LEMMA LineSame ==
  ASSUME NEW s, NEW t, Same(t, s, LineFields), LineKept(s)
  PROVE  LineKept(t)
<1>1. /\ t.queued = s.queued /\ t.importQueue = s.importQueue /\ t.mainQueue = s.mainQueue
      /\ t.flushQueue = s.flushQueue /\ t.registered = s.registered
  BY DEF Same, LineFields
<1> QED BY <1>1 DEF LineKept, Line

\* What comes into the line comes behind all that it has to follow.
LEMMA LineInserted ==
  ASSUME NEW q \in Seq(Definitions), NEW f \in Seq(Definitions), NEW r \in Seq(Definitions), NEW d \in Definitions,
         Follows(f \o r, q), d \notin ToSet(q), \A a \in ToSet(q) : a \in Imported \/ d \notin Imported => a \in ToSet(f)
  PROVE  Follows(Append(f, d) \o r, Append(q, d))
<1> DEFINE l == Append(f, d) \o r
           p == Append(q, d)
           n == Len(q)
<1>1. /\ l \in Seq(Definitions) /\ ToSet(l) = ToSet(f \o r) \cup {d}
      /\ \A a, b : InOrder(f \o r, a, b) => InOrder(l, a, b)
      /\ \A a \in ToSet(f) : InOrder(l, a, d)
      /\ Distinct(l)
  BY Inserted DEF Follows
<1>2. ToSet(p) = ToSet(q) \cup {d} BY AppendElements
<1>3. n \in Nat /\ Len(p) = n + 1 /\ p[n + 1] = d /\ DOMAIN q = 1 .. n /\ \A i \in 1 .. n : p[i] = q[i] OBVIOUS
<1> HIDE DEF l, p, n
<1>4. \A i \in 1 .. n : q[i] # d BY <1>3 DEF ToSet
<1>5. \A i \in 1 .. n + 1 : i = n + 1 \/ i \in 1 .. n BY <1>3
<1>6. Distinct(p)
  <2>1. \A i, j \in 1 .. n : q[i] = q[j] => i = j BY DEF Distinct, n, Follows
  <2> SUFFICES ASSUME NEW i \in 1 .. n + 1, NEW j \in 1 .. n + 1, p[i] = p[j] PROVE i = j BY <1>3 DEF Distinct
  <2> QED BY <1>3, <1>4, <1>5, <2>1
<1>7. ASSUME NEW i \in 1 .. n + 1, NEW j \in 1 .. n + 1, i < j, p[i] \in Imported \/ p[j] \notin Imported
      PROVE  InOrder(l, p[i], p[j])
  <2>1. i \in 1 .. n BY <1>3, <1>7
  <2>2. CASE j = n + 1
    <3>1. p[i] \in ToSet(q) BY <1>3, <2>1 DEF ToSet
    <3>2. p[i] \in ToSet(f) BY <1>3, <1>7, <2>2, <3>1
    <3> QED BY <1>1, <1>3, <2>2, <3>2
  <2>3. CASE j \in 1 .. n
    <3>1. InOrder(f \o r, q[i], q[j]) BY <1>3, <1>7, <2>1, <2>3 DEF n, Follows
    <3> QED BY <1>1, <1>3, <2>1, <2>3, <3>1
  <2> QED BY <1>5, <2>2, <2>3
<1>8. ToSet(l) = ToSet(p) BY <1>1, <1>2 DEF Follows
<1>9. Follows(l, p) BY <1>1, <1>3, <1>6, <1>7, <1>8 DEF Follows
<1> QED BY <1>9 DEF l, p

\* Enqueuing, taking out of a queue and registering keep the line.
LEMMA LineEnqueued ==
  ASSUME NEW s \in QueueStates, NEW d \in Definitions, LineKept(s)
  PROVE  LineKept(enqueue(s, d)) /\ ToSet(enqueue(s, d).queued) = ToSet(s.queued) \cup {d}
<1>1. CASE d \in ToSet(s.queued)
  <2>1. enqueue(s, d) = s BY <1>1 DEF enqueue
  <2> QED BY <1>1, <2>1
<1>2. CASE d \notin ToSet(s.queued)
  <2> DEFINE t == enqueue(s, d)
             f == s.registered \o s.flushQueue
             g == f \o s.importQueue
  <2>1. {s.queued, s.importQueue, s.mainQueue, s.flushQueue, s.registered} \subseteq Seq(Definitions)
    BY QueueTypes
  <2>2. /\ t \in QueueStates
        /\ SameBut(t, s, {"queued", "importQueue", "mainQueue"})
        /\ t.queued = Append(s.queued, d)
        /\ t.importQueue = IF d \in Imported THEN Append(s.importQueue, d) ELSE s.importQueue
        /\ t.mainQueue = IF d \in Imported THEN s.mainQueue ELSE Append(s.mainQueue, d)
    BY <1>2, EnqueueIs
  <2>3. t.registered = s.registered /\ t.flushQueue = s.flushQueue BY <2>2 DEF SameBut, Fields
  <2>4. ToSet(t.queued) = ToSet(s.queued) \cup {d} BY <2>1, <2>2, AppendElements
  <2>5. Line(s) = g \o s.mainQueue /\ f \in Seq(Definitions) /\ g \in Seq(Definitions) BY <2>1 DEF Line
  <2>6. g = f \o s.importQueue OBVIOUS
  <2>8. Line(t) = f \o t.importQueue \o t.mainQueue BY <2>3 DEF Line
  <2> HIDE DEF t, f, g
  <2>7. ToSet(Line(s)) = ToSet(g) \cup ToSet(s.mainQueue) BY <2>1, <2>5, ElementsOfBoth
  <2>9. CASE d \in Imported
    <3>1. t.importQueue = Append(s.importQueue, d) /\ t.mainQueue = s.mainQueue BY <2>2, <2>9
    <3>2. f \o Append(s.importQueue, d) = Append(g, d) BY <2>1, <2>5, <2>6, AppendToBoth
    <3>3. Line(t) = Append(g, d) \o s.mainQueue BY <2>8, <3>1, <3>2
    <3>4. \A a \in ToSet(s.queued) : a \in Imported \/ d \notin Imported => a \in ToSet(g)
      BY <2>7, <2>9 DEF LineKept, Follows
    <3>5. Follows(Line(t), t.queued)
      <4>1. Follows(g \o s.mainQueue, s.queued) BY <2>5 DEF LineKept
      <4>2. s.queued \in Seq(Definitions) /\ s.mainQueue \in Seq(Definitions) /\ g \in Seq(Definitions) BY <2>1, <2>5
      <4> DEFINE q == s.queued
                 r == s.mainQueue
      <4> HIDE DEF q, r
      <4>3. Follows(Append(g, d) \o r, Append(q, d))
        BY ONLY <1>2, <3>4, <4>1, <4>2, LineInserted, d \in Definitions DEF q, r
      <4> QED BY <2>2, <3>3, <4>3 DEF q, r
    <3>6. ToSet(t.importQueue) \subseteq Imported
      <4>1. ToSet(Append(s.importQueue, d)) = ToSet(s.importQueue) \cup {d} BY <2>1, AppendElements
      <4> QED BY <2>9, <3>1, <4>1 DEF LineKept
    <3>7. LineKept(t) BY <3>1, <3>5, <3>6 DEF LineKept
    <3> QED BY <2>4, <3>7 DEF t
  <2>10. CASE d \notin Imported
    <3> DEFINE l == Line(s)
    <3> HIDE DEF l
    <3>l. l = g \o s.mainQueue BY <2>5 DEF l
    <3>1. t.importQueue = s.importQueue /\ t.mainQueue = Append(s.mainQueue, d) BY <2>2, <2>10
    <3>2. g \o Append(s.mainQueue, d) = Append(l, d)
      <4> DEFINE q == s.mainQueue
      <4>1. g \in Seq(Definitions) /\ q \in Seq(Definitions) /\ d \in Definitions BY <2>1, <2>5
      <4> HIDE DEF q
      <4>2. g \o Append(q, d) = Append(g \o q, d) BY ONLY <4>1, AppendToBoth
      <4> QED BY <3>l, <4>2 DEF q
    <3>0. l \in Seq(Definitions) BY QueueTypes DEF l
    <3>e. <<>> \in Seq(Definitions) OBVIOUS
    <3>3. Line(t) = Append(l, d)
      <4>1. Line(t) = f \o s.importQueue \o Append(s.mainQueue, d) BY <2>8, <3>1
      <4>2. f \o s.importQueue = g BY <2>6
      <4> QED BY <3>2, <4>1, <4>2
    <3>4. l \o <<>> = l /\ Append(l, d) \o <<>> = Append(l, d) BY <3>0, ConcatEmptySeq
    <3>5. Follows(Line(t), t.queued)
      <4> DEFINE q == s.queued
                 r == <<>>
      <4>1. Follows(l \o r, q) BY <3>4 DEF LineKept, l
      <4>2. \A a \in ToSet(q) : a \in Imported \/ d \notin Imported => a \in ToSet(l) BY DEF LineKept, Follows, l
      <4>3. q \in Seq(Definitions) /\ r \in Seq(Definitions) BY <2>1
      <4>4. d \notin ToSet(q) BY <1>2
      <4> HIDE DEF q, r
      <4>5. Follows(Append(l, d) \o r, Append(q, d))
        BY ONLY <3>0, <4>1, <4>2, <4>3, <4>4, LineInserted, d \in Definitions
      <4>6. Follows(Append(l, d) \o <<>>, Append(s.queued, d)) BY <4>5 DEF q, r
      <4>7. t.queued = Append(s.queued, d) BY <2>2
      <4> QED BY ONLY <3>3, <3>4, <4>6, <4>7
    <3>6. ToSet(t.mainQueue) \cap Imported = {}
      <4>1. ToSet(Append(s.mainQueue, d)) = ToSet(s.mainQueue) \cup {d} BY <2>1, AppendElements
      <4> QED BY <2>10, <3>1, <4>1 DEF LineKept
    <3>7. LineKept(t) BY <3>1, <3>5, <3>6 DEF LineKept
    <3> QED BY <2>4, <3>7 DEF t
  <2> QED BY <2>9, <2>10
<1> QED BY <1>1, <1>2

LEMMA LineTaken ==
  ASSUME NEW s \in QueueStates, NEW d \in Definitions, LineKept(s),
         queueForElement(s, d) # <<>>, d = Head(queueForElement(s, d)), d \notin Imported => s.importQueue = <<>>
  PROVE  LineKept(Taken(s, d))
<1> DEFINE t == Taken(s, d)
           f == s.registered \o s.flushQueue
<1>1. {s.importQueue, s.mainQueue, s.flushQueue, s.registered} \subseteq Seq(Definitions) BY QueueTypes
<1>2. /\ t \in QueueStates
      /\ SameBut(t, s, {"importQueue", "mainQueue", "flushable", "flushQueue"})
      /\ t.importQueue = IF d \in Imported THEN Tail(s.importQueue) ELSE s.importQueue
      /\ t.mainQueue = IF d \in Imported THEN s.mainQueue ELSE Tail(s.mainQueue)
      /\ t.flushQueue = Append(s.flushQueue, d)
  BY TakenIs
<1>3. t.registered = s.registered /\ t.queued = s.queued BY <1>2 DEF SameBut, Fields
<1>4. f \in Seq(Definitions) BY <1>1
<1>5. s.registered \o Append(s.flushQueue, d) = Append(f, d)
  <2> DEFINE r == s.registered
             q == s.flushQueue
  <2>1. r \in Seq(Definitions) /\ q \in Seq(Definitions) BY <1>1
  <2> HIDE DEF r, q
  <2>2. r \o Append(q, d) = Append(r \o q, d) BY <2>1, AppendToBoth
  <2> QED BY <2>2 DEF r, q
<1> HIDE DEF t
<1>6. Line(t) = Append(f, d) \o t.importQueue \o t.mainQueue BY <1>2, <1>3, <1>5 DEF Line
<1>7. Line(s) = f \o s.importQueue \o s.mainQueue BY DEF Line
<1> HIDE DEF f
<1>8. CASE d \in Imported
  <2>1. s.importQueue # <<>> /\ d = Head(s.importQueue) BY <1>8 DEF queueForElement
  <2>2. Append(f, d) \o Tail(s.importQueue) = f \o s.importQueue BY <1>1, <1>4, <2>1, MovedOver
  <2>3. Line(t) = Line(s) BY <1>2, <1>6, <1>7, <1>8, <2>2
  <2>4. ToSet(t.importQueue) \subseteq ToSet(s.importQueue) BY <1>1, <1>2, <1>8, <2>1, HeadAndTail
  <2> QED BY <1>2, <1>3, <1>8, <2>3, <2>4 DEF LineKept, t
<1>9. CASE d \notin Imported
  <2>1. s.mainQueue # <<>> /\ d = Head(s.mainQueue) /\ s.importQueue = <<>> BY <1>9 DEF queueForElement
  <2>2. Append(f, d) \o Tail(s.mainQueue) = f \o s.mainQueue BY <1>1, <1>4, <2>1, MovedOver
  <2>3. Append(f, d) \o <<>> = Append(f, d) /\ f \o <<>> = f BY <1>4, ConcatEmptySeq
  <2>4. Line(t) = Line(s) BY <1>2, <1>6, <1>7, <1>9, <2>1, <2>2, <2>3
  <2>5. ToSet(t.mainQueue) \subseteq ToSet(s.mainQueue) BY <1>1, <1>2, <1>9, <2>1, HeadAndTail
  <2> QED BY <1>2, <1>3, <1>9, <2>4, <2>5 DEF LineKept, t
<1> QED BY <1>8, <1>9

LEMMA LineFlushed ==
  ASSUME NEW s \in QueueStates, LineKept(s), s.flushQueue # <<>>
  PROVE  LineKept(Flushed(s))
<1> DEFINE t == Flushed(s)
<1>1. {s.importQueue, s.mainQueue, s.flushQueue, s.registered} \subseteq Seq(Definitions) BY QueueTypes
<1>2. /\ SameBut(t, s, {"flushQueue", "registered", "bases", "base"})
      /\ t.flushQueue = Tail(s.flushQueue) /\ t.registered = Append(s.registered, Head(s.flushQueue))
  BY FlushedIs
<1>3. t.queued = s.queued /\ t.importQueue = s.importQueue /\ t.mainQueue = s.mainQueue BY <1>2 DEF SameBut, Fields
<1> HIDE DEF t
<1>4. t.registered \o t.flushQueue = s.registered \o s.flushQueue BY <1>1, <1>2, MovedOver
<1>5. Line(t) = Line(s) BY <1>3, <1>4 DEF Line
<1> QED BY <1>3, <1>5 DEF LineKept, t

\* In a sequence of distinct elements each has one place.
LEMMA PlaceIs ==
  ASSUME NEW seq, Distinct(seq), NEW i \in 1 .. Len(seq)
  PROVE  Place(seq, seq[i]) = i
BY DEF Place, Distinct

\* The registered ones come first in the line.
LEMMA RegisteredFirst ==
  ASSUME NEW s \in QueueStates, LineKept(s)
  PROVE  /\ Distinct(s.registered) /\ ToSet(s.registered) \cap ToSet(s.flushQueue) = {}
         /\ ToSet(s.registered) \cap ToSet(s.importQueue) = {} /\ ToSet(s.registered) \cap ToSet(s.mainQueue) = {}
         /\ \A a, b : InOrder(Line(s), a, b) /\ b \in ToSet(s.registered) => InOrder(s.registered, a, b)
<1> DEFINE r == s.registered
           q == s.flushQueue
           i == s.importQueue
           m == s.mainQueue
<1>1. r \in Seq(Definitions) /\ q \in Seq(Definitions) /\ i \in Seq(Definitions) /\ m \in Seq(Definitions)
  BY QueueTypes
<1>0. Line(s) = r \o q \o i \o m /\ Distinct(Line(s)) BY DEF Line, LineKept, Follows
<1> HIDE DEF r, q, i, m
<1> DEFINE f == r \o q
           g == f \o i
<1>2. f \in Seq(Definitions) /\ ToSet(f) = ToSet(r) \cup ToSet(q) BY <1>1, ElementsOfBoth
<1> HIDE DEF f
<1>3. g \in Seq(Definitions) /\ ToSet(g) = ToSet(f) \cup ToSet(i) BY <1>1, <1>2, ElementsOfBoth
<1>4. Line(s) = g \o m BY <1>0 DEF f
<1> HIDE DEF g
<1>5. /\ Distinct(g) /\ ToSet(g) \cap ToSet(m) = {}
      /\ \A a, b : InOrder(Line(s), a, b) /\ b \in ToSet(g) => InOrder(g, a, b)
  BY <1>0, <1>1, <1>3, <1>4, FrontOrder
<1>6. /\ Distinct(f) /\ ToSet(f) \cap ToSet(i) = {}
      /\ \A a, b : InOrder(g, a, b) /\ b \in ToSet(f) => InOrder(f, a, b)
  BY <1>1, <1>2, <1>5, FrontOrder DEF g
<1>7. /\ Distinct(r) /\ ToSet(r) \cap ToSet(q) = {}
      /\ \A a, b : InOrder(f, a, b) /\ b \in ToSet(r) => InOrder(r, a, b)
  BY <1>1, <1>6, FrontOrder DEF f
<1> QED BY <1>2, <1>3, <1>5, <1>6, <1>7 DEF r, q, i, m

\* What inheriting depends on.
BasesFields == {"registered", "base", "bases"}

LEMMA BasesSame ==
  ASSUME NEW s, NEW t, Same(t, s, BasesFields), BasesKept(s)
  PROVE  BasesKept(t)
<1>1. t.registered = s.registered /\ t.base = s.base /\ t.bases = s.bases BY DEF Same, BasesFields
<1> QED BY <1>1 DEF BasesKept

\* Registering a definition keeps it.
LEMMA BasesFlushed ==
  ASSUME NEW s \in QueueStates, LineKept(s), BasesKept(s), s.flushQueue # <<>>
  PROVE  BasesKept(Flushed(s))
<1> DEFINE t == Flushed(s)
           d == Head(s.flushQueue)
           n == Extends[d]
           e == generateBasePrototype(s, n)
           R == ToSet(s.registered)
<1>1. s.flushQueue \in Seq(Definitions) /\ s.registered \in Seq(Definitions) BY QueueTypes
<1>2. /\ d \in Definitions /\ e \in Bases
      /\ t.registered = Append(s.registered, d)
      /\ t.base = [x \in DOMAIN s.base \cup {d} |-> IF x = d THEN e ELSE s.base[x]]
      /\ t.bases = [x \in DOMAIN s.bases \cup {n} |-> IF x = n THEN e ELSE s.bases[x]]
  BY FlushedIs
<1>3. d \notin R /\ Distinct(s.registered)
  <2>1. d \in ToSet(s.flushQueue) BY <1>1, HeadAndTail
  <2> QED BY <2>1, RegisteredFirst
<1>4. ToSet(t.registered) = R \cup {d} BY <1>1, <1>2, AppendElements
<1>5. R \subseteq Definitions BY <1>1 DEF ToSet
<1>6. Native \notin Definitions BY PolymerQueueAssumption
\* the order of those that were registered is not changed
<1>7. \A a : \A b \in R : InOrder(t.registered, a, b) => InOrder(s.registered, a, b)
  <2> DEFINE r == s.registered
  <2>2. r \in Seq(Definitions) /\ d \in Definitions /\ t.registered = Append(r, d) BY <1>1, <1>2
  <2>1. t.registered = r \o <<d>> /\ <<d>> \in Seq(Definitions)
    <3> HIDE DEF r, d, t
    <3> QED BY <2>2, AppendIsConcat
  <2>3. Distinct(r \o <<d>>)
    <3> DEFINE l == r \o <<d>>
    <3>1. Len(r) \in Nat /\ Len(l) = Len(r) + 1 /\ l[Len(r) + 1] = d /\ \A i \in 1 .. Len(r) : l[i] = r[i] /\ r[i] \in R
      BY <2>2 DEF ToSet
    <3>2. \A i, j \in 1 .. Len(r) : r[i] = r[j] => i = j BY <1>3 DEF Distinct
    <3> HIDE DEF l, r, R
    <3>3. \A i \in 1 .. Len(r) + 1 : i = Len(r) + 1 \/ i \in 1 .. Len(r) BY <3>1
    <3>4. \A i, j \in 1 .. Len(r) + 1 : l[i] = l[j] => i = j BY <1>3, <3>1, <3>2, <3>3
    <3> QED BY <3>1, <3>4 DEF Distinct, l
  <2> DEFINE u == <<d>>
  <2>4. u \in Seq(Definitions) /\ r \in Seq(Definitions) /\ Distinct(r \o u) BY <2>1, <2>2, <2>3
  <2>5. t.registered = r \o u BY <2>1
  <2> HIDE DEF r, u
  <2>6. \A a, b : InOrder(r \o u, a, b) /\ b \in ToSet(r) => InOrder(r, a, b) BY ONLY <2>4, FrontOrder
  <2> QED BY <2>5, <2>6 DEF r
<1>8. ~ \E a : InOrder(t.registered, a, d) /\ a \notin R
  <2> SUFFICES ASSUME NEW a, a \notin R, InOrder(t.registered, a, d) PROVE FALSE OBVIOUS
  <2> DEFINE r == s.registered
             l == Append(r, d)
  <2>1. Len(r) \in Nat /\ Len(l) = Len(r) + 1 /\ \A i \in 1 .. Len(r) : l[i] = r[i] /\ r[i] \in R
    BY <1>1 DEF ToSet
  <2>2. PICK i \in 1 .. Len(l) : \E j \in 1 .. Len(l) : i < j /\ l[i] = a BY <1>2 DEF InOrder
  <2> HIDE DEF l, r, R
  <2>3. i \in 1 .. Len(r) BY <2>1, <2>2
  <2> QED BY <2>1, <2>2, <2>3
<1> HIDE DEF t, e, n, d, R
<1>9. DOMAIN s.base = R /\ DOMAIN s.bases = {Extends[x] : x \in R} BY DEF BasesKept, R
<1>10. DOMAIN t.base = R \cup {d} /\ DOMAIN t.bases = {Extends[x] : x \in R \cup {d}} BY <1>2, <1>9 DEF n
<1>11. n \in DOMAIN s.bases => e = s.bases[n] BY DEF e, generateBasePrototype
<1>12. \A x \in DOMAIN s.bases : t.bases[x] = s.bases[x] BY <1>2, <1>11
<1>13. \A x \in R \cup {d} : t.base[x] = t.bases[Extends[x]]
  <2> TAKE x \in R \cup {d}
  <2>1. CASE x = d BY <1>2, <1>9, <2>1 DEF n
  <2>2. CASE x \in R
    <3>1. t.base[x] = s.base[x] BY <1>2, <1>3, <1>9, <2>2
    <3>2. s.base[x] = s.bases[Extends[x]] BY <2>2 DEF BasesKept, R
    <3>3. Extends[x] \in DOMAIN s.bases BY <1>9, <2>2
    <3> QED BY <1>12, <3>1, <3>2, <3>3
  <2> QED BY <2>1, <2>2
<1>14. ASSUME NEW x \in Definitions \cap DOMAIN t.bases
       PROVE  t.bases[x] = x \/ \E y \in R \cup {d} : Extends[y] = x /\ ~ InOrder(t.registered, x, y)
  <2>1. CASE x \in DOMAIN s.bases
    <3>1. t.bases[x] = s.bases[x] BY <1>12, <2>1
    <3>2. s.bases[x] = x \/ \E y \in R : Extends[y] = x /\ ~ InOrder(s.registered, x, y)
      BY <2>1 DEF BasesKept, R
    <3> QED BY <1>7, <3>1, <3>2
  <2>2. CASE x \notin DOMAIN s.bases
    <3>1. x = n /\ t.bases[x] = e BY <1>2, <2>2
    <3>2. e = IF n \in R THEN n ELSE Native BY <2>2, <3>1 DEF e, generateBasePrototype, R
    <3>3. n \notin R => Extends[d] = x /\ ~ InOrder(t.registered, x, d) BY <1>8, <3>1 DEF n
    <3> QED BY <3>1, <3>2, <3>3
  <2> QED BY <2>1, <2>2
<1> QED BY <1>4, <1>10, <1>13, <1>14 DEF BasesKept, t, R

\* The order of the line and what bases stand for give the order of registration.
LEMMA RegistersInOrder ==
  ASSUME pq \in QueueStates, LineKept(pq), BasesKept(pq)
  PROVE  RegisteredInOrder
<1> DEFINE R == ToSet(pq.registered)
<1>0. pq.registered \in Seq(Definitions) /\ pq.queued \in Seq(Definitions) BY QueueTypes
<1>1. /\ Distinct(pq.registered) /\ Distinct(pq.queued)
      /\ \A a, b : InOrder(Line(pq), a, b) /\ b \in R => InOrder(pq.registered, a, b)
  BY RegisteredFirst DEF LineKept, Follows
<1>2. ASSUME NEW f \in R, NEW d \in Definitions, Before(d, f) PROVE InOrder(pq.registered, d, f)
  <2>1. PICK i \in 1 .. Len(pq.queued) : pq.queued[i] = d BY <1>0, <1>2 DEF Before, ToSet
  <2>2. PICK j \in 1 .. Len(pq.queued) : pq.queued[j] = f BY <1>0, <1>2 DEF Before, ToSet
  <2>3. Place(pq.queued, d) = i /\ Place(pq.queued, f) = j BY <1>1, <2>1, <2>2, PlaceIs
  <2>4. i < j /\ (d \in Imported \/ f \notin Imported) BY <1>2, <2>3 DEF Before
  <2>5. InOrder(Line(pq), d, f) BY <2>1, <2>2, <2>4 DEF LineKept, Follows
  <2> QED BY <1>1, <2>5
<1>3. ASSUME NEW d, NEW f, InOrder(pq.registered, d, f)
      PROVE  d \in R /\ Place(pq.registered, d) < Place(pq.registered, f)
  <2>1. PICK i \in 1 .. Len(pq.registered) :
          \E j \in 1 .. Len(pq.registered) : i < j /\ pq.registered[i] = d /\ pq.registered[j] = f
    BY <1>3 DEF InOrder
  <2>2. PICK j \in 1 .. Len(pq.registered) : i < j /\ pq.registered[i] = d /\ pq.registered[j] = f BY <2>1
  <2>3. Place(pq.registered, d) = i /\ Place(pq.registered, f) = j BY <1>1, <2>2, PlaceIs
  <2>4. d \in R BY <1>0, <2>2 DEF ToSet
  <2> QED BY <2>2, <2>3, <2>4
<1>4. ASSUME NEW f \in R, NEW d \in Definitions, Before(d, f), Extends[f] = d,
             \A e \in R : Extends[e] = d => Before(d, e)
      PROVE  pq.base[f] = d
  <2>1. pq.base[f] = pq.bases[d] /\ d \in DOMAIN pq.bases BY <1>4 DEF BasesKept
  <2>2. \A e \in R : Extends[e] = d => InOrder(pq.registered, d, e) BY <1>2, <1>4
  <2>3. pq.bases[d] = d BY <2>1, <2>2 DEF BasesKept
  <2> QED BY <2>1, <2>3
<1> QED BY <1>2, <1>3, <1>4 DEF RegisteredInOrder

\* What the stack of calls is about.
StackFields == {"flushing", "ceReady", "stack"}

LEMMA StackSame ==
  ASSUME NEW s, NEW t, Same(t, s, StackFields), StackKept(s)
  PROVE  StackKept(t)
<1>1. t.flushing = s.flushing /\ t.ceReady = s.ceReady /\ t.stack = s.stack BY DEF Same, StackFields
<1> QED BY <1>1 DEF StackKept

\* One call more on the stack.
LEMMA StackAppended ==
  ASSUME NEW s \in QueueStates, NEW f \in Frames
  PROVE  LET n == Len(s.stack)
             u == Append(s.stack, f)
         IN  /\ n \in Nat /\ Len(u) = n + 1 /\ u[n + 1] = f /\ \A i \in 1 .. n : u[i] = s.stack[i]
             /\ \A k \in 0 .. n : PreparesWithin(u, k) <=> PreparesWithin(s.stack, k)
             /\ PreparesWithin(u, n + 1) <=> Prepares(f) \/ PreparesWithin(s.stack, n)
<1> DEFINE n == Len(s.stack)
           u == Append(s.stack, f)
<1>1. n \in Nat /\ Len(u) = n + 1 /\ u[n + 1] = f /\ \A i \in 1 .. n : u[i] = s.stack[i]
  <2>1. s.stack \in Seq(Frames) BY QueueTypes
  <2> QED BY <2>1
<1> HIDE DEF n, u
<1>2. ASSUME NEW k \in 0 .. n PROVE PreparesWithin(u, k) <=> PreparesWithin(s.stack, k)
  <2>1. \A i \in 1 .. k : u[i] = s.stack[i] BY <1>1
  <2> QED BY <2>1 DEF PreparesWithin
<1>3. PreparesWithin(u, n + 1) <=> Prepares(f) \/ PreparesWithin(s.stack, n)
  <2>1. \A i \in 1 .. n + 1 : i = n + 1 \/ i \in 1 .. n BY <1>1
  <2>2. n + 1 \in 1 .. n + 1 /\ \A i \in 1 .. n : i \in 1 .. n + 1 BY <1>1
  <2> QED BY <1>1, <2>1, <2>2 DEF PreparesWithin
<1> QED BY <1>1, <1>2, <1>3 DEF n, u

\* Calls that are not of ready.
LEMMA StackCalled ==
  ASSUME NEW s \in QueueStates, StackKept(s), NEW f \in Frames, ~ Prepares(f),
         NEW t \in QueueStates, t.flushing = s.flushing, t.ceReady = s.ceReady, t.stack = Append(s.stack, f)
  PROVE  StackKept(t)
<1> DEFINE n == Len(s.stack)
           u == t.stack
<1>1. /\ n \in Nat /\ Len(u) = n + 1 /\ u[n + 1] = f /\ \A i \in 1 .. n : u[i] = s.stack[i]
      /\ \A k \in 0 .. n : PreparesWithin(u, k) <=> PreparesWithin(s.stack, k)
      /\ PreparesWithin(u, n + 1) <=> PreparesWithin(s.stack, n)
  BY StackAppended
<1>2. f.kind # "flush" BY DEF Prepares
<1> HIDE DEF n, u
<1>3. \A i \in 1 .. n + 1 : i = n + 1 \/ i \in 1 .. n BY <1>1
<1>4. \A i \in 1 .. n : i \in 1 .. n + 1 /\ i - 1 \in 0 .. n BY <1>1
<1>5. t.flushing <=> \E i \in 1 .. n + 1 : u[i].kind = "flush"
  <2>1. s.flushing <=> \E i \in 1 .. n : s.stack[i].kind = "flush" BY DEF StackKept, n
  <2> QED BY <1>1, <1>2, <1>3, <1>4, <2>1
<1>6. \A i, j \in 1 .. n + 1 : u[i].kind = "flush" /\ u[j].kind = "flush" => i = j
  <2>1. \A i, j \in 1 .. n : s.stack[i].kind = "flush" /\ s.stack[j].kind = "flush" => i = j BY DEF StackKept, n
  <2> QED BY <1>1, <1>2, <1>3, <2>1
<1>7. t.ceReady <=> ~ PreparesWithin(u, n + 1) BY <1>1 DEF StackKept, n
<1>8. \A i \in 1 .. n + 1 : Prepares(u[i]) => (u[i].was <=> ~ PreparesWithin(u, i - 1))
  <2> SUFFICES ASSUME NEW i \in 1 .. n + 1, Prepares(u[i]) PROVE u[i].was <=> ~ PreparesWithin(u, i - 1) OBVIOUS
  <2>1. i \in 1 .. n BY <1>1, <1>3
  <2>2. s.stack[i].was <=> ~ PreparesWithin(s.stack, i - 1) BY <1>1, <2>1 DEF StackKept, n
  <2>3. PreparesWithin(u, i - 1) <=> PreparesWithin(s.stack, i - 1) BY <1>1, <1>4, <2>1
  <2>4. u[i] = s.stack[i] BY <1>1, <2>1
  <2> QED BY <2>2, <2>3, <2>4
<1> QED BY <1>1, <1>5, <1>6, <1>7, <1>8 DEF StackKept, u

\* Calls of ready.
LEMMA StackReady ==
  ASSUME NEW s \in QueueStates, StackKept(s)
  PROVE  StackKept(ready(s))
<1> DEFINE t == ready(s)
           n == Len(s.stack)
           u == t.stack
           f == [kind |-> IF s.flushing THEN "upgrade" ELSE "flush", was |-> s.ceReady]
<1>0. t.ceReady = FALSE /\ t.flushing = TRUE /\ u = Append(s.stack, f) BY ReadyIs
<1>f. f \in Frames /\ Prepares(f) /\ f.was = s.ceReady /\ (f.kind = "flush" <=> ~ s.flushing)
  <2>1. s.ceReady \in BOOLEAN /\ s.flushing \in BOOLEAN BY QueueTypes
  <2> QED BY <2>1 DEF Frames, Prepares
<1> HIDE DEF f, t
<1>1. /\ n \in Nat /\ Len(u) = n + 1 /\ u[n + 1] = f /\ \A i \in 1 .. n : u[i] = s.stack[i]
      /\ \A k \in 0 .. n : PreparesWithin(u, k) <=> PreparesWithin(s.stack, k)
      /\ PreparesWithin(u, n + 1)
  BY <1>0, <1>f, StackAppended
<1> HIDE DEF n, u
<1>3. \A i \in 1 .. n + 1 : i = n + 1 \/ i \in 1 .. n BY <1>1
<1>4. n + 1 \in 1 .. n + 1 /\ n \in 0 .. n /\ \A i \in 1 .. n : i \in 1 .. n + 1 /\ i - 1 \in 0 .. n BY <1>1
<1>2. s.flushing <=> \E i \in 1 .. n : s.stack[i].kind = "flush" BY DEF StackKept, n
<1>5. \E i \in 1 .. n + 1 : u[i].kind = "flush"
  <2>1. CASE f.kind = "flush" BY <1>1, <1>4, <2>1
  <2>2. CASE f.kind # "flush" BY <1>f, <1>1, <1>2, <1>4, <2>2
  <2> QED BY <2>1, <2>2
<1>6. \A i, j \in 1 .. n + 1 : u[i].kind = "flush" /\ u[j].kind = "flush" => i = j
  <2>1. \A i, j \in 1 .. n : s.stack[i].kind = "flush" /\ s.stack[j].kind = "flush" => i = j BY DEF StackKept, n
  <2>2. f.kind = "flush" => \A i \in 1 .. n : s.stack[i].kind # "flush" BY <1>f, <1>2
  <2> QED BY <1>1, <1>3, <2>1, <2>2
<1>8. \A i \in 1 .. n + 1 : Prepares(u[i]) => (u[i].was <=> ~ PreparesWithin(u, i - 1))
  <2> SUFFICES ASSUME NEW i \in 1 .. n + 1, Prepares(u[i]) PROVE u[i].was <=> ~ PreparesWithin(u, i - 1) OBVIOUS
  <2>1. CASE i \in 1 .. n
    <3>2. s.stack[i].was <=> ~ PreparesWithin(s.stack, i - 1) BY <1>1, <2>1 DEF StackKept, n
    <3>3. PreparesWithin(u, i - 1) <=> PreparesWithin(s.stack, i - 1) BY <1>1, <1>4, <2>1
    <3>4. u[i] = s.stack[i] BY <1>1, <2>1
    <3> QED BY <3>2, <3>3, <3>4
  <2>2. CASE i = n + 1
    <3>1. i - 1 = n BY <1>1, <2>2
    <3>2. PreparesWithin(u, i - 1) <=> PreparesWithin(s.stack, n) BY <1>1, <1>4, <3>1
    <3>3. s.ceReady <=> ~ PreparesWithin(s.stack, n) BY DEF StackKept, n
    <3>4. u[i].was = s.ceReady BY <1>1, <1>f, <2>2
    <3> QED BY <3>2, <3>3, <3>4
  <2> QED BY <1>3, <2>1, <2>2
<1>9. /\ t.flushing <=> \E i \in 1 .. Len(t.stack) : t.stack[i].kind = "flush"
      /\ t.ceReady <=> ~ PreparesWithin(t.stack, Len(t.stack))
  BY <1>0, <1>1, <1>5 DEF u
<1> QED BY <1>1, <1>6, <1>8, <1>9 DEF StackKept, u, t

\* One call less on the stack.
LEMMA StackFront ==
  ASSUME NEW s \in QueueStates, s.stack # <<>>
  PROVE  LET n == Len(s.stack) - 1
             u == Front(s.stack)
         IN  /\ n \in Nat /\ Len(s.stack) = n + 1 /\ Len(u) = n /\ Last(s.stack) = s.stack[n + 1]
             /\ \A i \in 1 .. n : u[i] = s.stack[i]
             /\ \A k \in 0 .. n : PreparesWithin(u, k) <=> PreparesWithin(s.stack, k)
             /\ PreparesWithin(s.stack, n + 1) <=> Prepares(Last(s.stack)) \/ PreparesWithin(s.stack, n)
<1> DEFINE n == Len(s.stack) - 1
           u == Front(s.stack)
<1>1. /\ n \in Nat /\ Len(s.stack) = n + 1 /\ Len(u) = n /\ Last(s.stack) = s.stack[n + 1]
      /\ \A i \in 1 .. n : u[i] = s.stack[i]
  <2>1. s.stack \in Seq(Frames) BY QueueTypes
  <2> QED BY <2>1 DEF Front, Last
<1> HIDE DEF n, u
<1>2. ASSUME NEW k \in 0 .. n PROVE PreparesWithin(u, k) <=> PreparesWithin(s.stack, k)
  <2>1. \A i \in 1 .. k : u[i] = s.stack[i] BY <1>1
  <2> QED BY <2>1 DEF PreparesWithin
<1>3. PreparesWithin(s.stack, n + 1) <=> Prepares(s.stack[n + 1]) \/ PreparesWithin(s.stack, n)
  <2>1. \A i \in 1 .. n + 1 : i = n + 1 \/ i \in 1 .. n BY <1>1
  <2>2. n + 1 \in 1 .. n + 1 /\ \A i \in 1 .. n : i \in 1 .. n + 1 BY <1>1
  <2> QED BY <2>1, <2>2 DEF PreparesWithin
<1> QED BY <1>1, <1>2, <1>3 DEF n, u

\* A call comes back: one of ready leaves ceReady as it was.
LEMMA StackReturned ==
  ASSUME NEW s \in QueueStates, StackKept(s), s.stack # <<>>, Last(s.stack).kind # "flush",
         NEW t \in QueueStates, t.flushing = s.flushing, t.stack = Front(s.stack),
         t.ceReady = IF Prepares(Last(s.stack)) THEN Last(s.stack).was ELSE s.ceReady
  PROVE  StackKept(t)
<1> DEFINE n == Len(s.stack) - 1
           u == t.stack
<1>1. /\ n \in Nat /\ Len(s.stack) = n + 1 /\ Len(u) = n /\ Last(s.stack) = s.stack[n + 1]
      /\ \A i \in 1 .. n : u[i] = s.stack[i]
      /\ \A k \in 0 .. n : PreparesWithin(u, k) <=> PreparesWithin(s.stack, k)
      /\ PreparesWithin(s.stack, n + 1) <=> Prepares(Last(s.stack)) \/ PreparesWithin(s.stack, n)
  BY StackFront
<1> HIDE DEF n, u
<1>3. \A i \in 1 .. n + 1 : i = n + 1 \/ i \in 1 .. n BY <1>1
<1>4. n + 1 \in 1 .. n + 1 /\ n \in 0 .. n /\ n + 1 - 1 = n /\ \A i \in 1 .. n : i \in 1 .. n + 1 /\ i - 1 \in 0 .. n BY <1>1
<1>5. t.flushing <=> \E i \in 1 .. n : u[i].kind = "flush"
  <2>1. s.flushing <=> \E i \in 1 .. n + 1 : s.stack[i].kind = "flush" BY <1>1 DEF StackKept
  <2> QED BY <1>1, <1>3, <1>4, <2>1
<1>6. \A i, j \in 1 .. n : u[i].kind = "flush" /\ u[j].kind = "flush" => i = j
  <2>1. \A i, j \in 1 .. n + 1 : s.stack[i].kind = "flush" /\ s.stack[j].kind = "flush" => i = j BY <1>1 DEF StackKept
  <2> QED BY <1>1, <1>4, <2>1
<1>9. \A i \in 1 .. n + 1 : Prepares(s.stack[i]) => (s.stack[i].was <=> ~ PreparesWithin(s.stack, i - 1))
  BY <1>1 DEF StackKept
<1>7. t.ceReady <=> ~ PreparesWithin(u, n)
  <2>0. PreparesWithin(u, n) <=> PreparesWithin(s.stack, n) BY <1>1, <1>4
  <2>1. CASE Prepares(Last(s.stack))
    <3>1. s.stack[n + 1].was <=> ~ PreparesWithin(s.stack, n + 1 - 1) BY <1>1, <1>4, <1>9, <2>1
    <3>2. t.ceReady = s.stack[n + 1].was BY <1>1, <2>1
    <3> QED BY <1>4, <2>0, <3>1, <3>2
  <2>2. CASE ~ Prepares(Last(s.stack))
    <3>1. s.ceReady <=> ~ PreparesWithin(s.stack, n + 1) BY <1>1 DEF StackKept
    <3> QED BY <1>1, <2>0, <2>2, <3>1
  <2> QED BY <2>1, <2>2
<1>8. \A i \in 1 .. n : Prepares(u[i]) => (u[i].was <=> ~ PreparesWithin(u, i - 1))
  <2> SUFFICES ASSUME NEW i \in 1 .. n, Prepares(u[i]) PROVE u[i].was <=> ~ PreparesWithin(u, i - 1) OBVIOUS
  <2>1. u[i] = s.stack[i] BY <1>1
  <2>2. s.stack[i].was <=> ~ PreparesWithin(s.stack, i - 1) BY <1>4, <1>9, <2>1
  <2>3. PreparesWithin(u, i - 1) <=> PreparesWithin(s.stack, i - 1) BY <1>1, <1>4
  <2> QED BY <2>1, <2>2, <2>3
<1> QED BY <1>1, <1>5, <1>6, <1>7, <1>8 DEF StackKept, u

\* A call of ready that has flushed goes on to upgrade.
LEMMA StackFlushed ==
  ASSUME NEW s \in QueueStates, StackKept(s), s.stack # <<>>, Last(s.stack).kind = "flush",
         NEW t \in QueueStates, t.flushing = FALSE, t.ceReady = s.ceReady,
         t.stack = [s.stack EXCEPT ![Len(s.stack)].kind = "upgrade"]
  PROVE  StackKept(t)
<1> DEFINE n == Len(s.stack)
           u == t.stack
<1>0. s.stack \in Seq(Frames) BY QueueTypes
<1>1. /\ n \in Nat \ {0} /\ Len(u) = n /\ s.stack[n].kind = "flush"
      /\ u[n] = [s.stack[n] EXCEPT !.kind = "upgrade"] /\ \A i \in 1 .. n - 1 : u[i] = s.stack[i]
  BY <1>0 DEF Last
<1>2. u[n].kind = "upgrade" /\ u[n].was = s.stack[n].was
  <2>1. s.stack[n] \in Frames BY <1>0, <1>1
  <2>2. s.stack[n] \in [kind : {"flush", "upgrade"}, was : BOOLEAN] BY <1>1, <2>1 DEF Frames
  <2> QED BY <1>1, <2>2
<1> HIDE DEF n, u
<1>3. \A i \in 1 .. n : i = n \/ i \in 1 .. n - 1 BY <1>1
<1>4. \A i \in 1 .. n : Prepares(u[i]) <=> Prepares(s.stack[i]) BY <1>1, <1>2, <1>3 DEF Prepares
<1>5. \A k \in 0 .. n : PreparesWithin(u, k) <=> PreparesWithin(s.stack, k)
  <2> TAKE k \in 0 .. n
  <2>1. \A i \in 1 .. k : Prepares(u[i]) <=> Prepares(s.stack[i]) BY <1>1, <1>4
  <2> QED BY <2>1 DEF PreparesWithin
<1>6. \A i \in 1 .. n : u[i].kind # "flush"
  <2>1. \A i, j \in 1 .. n : s.stack[i].kind = "flush" /\ s.stack[j].kind = "flush" => i = j BY DEF StackKept, n
  <2>2. \A i \in 1 .. n - 1 : i \in 1 .. n /\ i # n /\ n \in 1 .. n BY <1>1
  <2> QED BY <1>1, <1>2, <1>3, <2>1, <2>2
<1>7. t.ceReady <=> ~ PreparesWithin(u, n)
  <2>1. n \in 0 .. n BY <1>1
  <2> QED BY <1>5, <2>1 DEF StackKept, n
<1>8. \A i \in 1 .. n : Prepares(u[i]) => (u[i].was <=> ~ PreparesWithin(u, i - 1))
  <2> SUFFICES ASSUME NEW i \in 1 .. n, Prepares(u[i]) PROVE u[i].was <=> ~ PreparesWithin(u, i - 1) OBVIOUS
  <2>1. u[i].was = s.stack[i].was BY <1>1, <1>2, <1>3
  <2>2. s.stack[i].was <=> ~ PreparesWithin(s.stack, i - 1) BY <1>4 DEF StackKept, n
  <2>3. i - 1 \in 0 .. n BY <1>1
  <2> QED BY <1>5, <2>1, <2>2, <2>3
<1>9. ~ t.flushing /\ Len(t.stack) = n BY <1>1 DEF u
<1> QED BY <1>6, <1>7, <1>8, <1>9 DEF StackKept, u

\* What the other parts of the invariant depend on.
SetsFields == {"flushable", "registered", "flushQueue", "queued", "elements", "prototypes", "clients", "needs"}
GoesFields == {"waitToReady", "elements", "flushable", "flushQueue", "callbacks", "stack"}
HeadFields == {"importQueue", "mainQueue", "prototypes", "needs"}

LEMMA SetsSame ==
  ASSUME NEW s, NEW t, Same(t, s, SetsFields), SetsKept(s)
  PROVE  SetsKept(t)
<1>1. /\ t.flushable = s.flushable /\ t.registered = s.registered /\ t.flushQueue = s.flushQueue
      /\ t.queued = s.queued /\ t.elements = s.elements /\ t.prototypes = s.prototypes
      /\ t.clients = s.clients /\ t.needs = s.needs
  BY DEF Same, SetsFields
<1> QED BY <1>1 DEF SetsKept

LEMMA GoesSame ==
  ASSUME NEW s, NEW t, NEW raf, NEW ids, Same(t, s, GoesFields), GoesOn(s, raf, ids)
  PROVE  GoesOn(t, raf, ids)
<1>1. /\ t.waitToReady = s.waitToReady /\ t.elements = s.elements /\ t.flushable = s.flushable
      /\ t.flushQueue = s.flushQueue /\ t.callbacks = s.callbacks /\ t.stack = s.stack
  BY DEF Same, GoesFields
<1>2. canReady(t) <=> canReady(s) BY <1>1 DEF canReady, isEmpty
<1> QED BY <1>1, <1>2 DEF GoesOn

LEMMA HeadSame ==
  ASSUME NEW s, NEW t, NEW ids, Same(t, s, HeadFields), HeadLacks(s, ids)
  PROVE  HeadLacks(t, ids)
<1>1. /\ t.importQueue = s.importQueue /\ t.mainQueue = s.mainQueue /\ t.prototypes = s.prototypes /\ t.needs = s.needs
  BY DEF Same, HeadFields
<1>2. nextQueued(t) = nextQueued(s) BY <1>1 DEF nextQueued
<1> QED BY <1>1, <1>2 DEF HeadLacks

InitsFields == {"elements", "stack"}

LEMMA InitsSame ==
  ASSUME NEW s, NEW t, Same(t, s, InitsFields), InitsKept(s)
  PROVE  InitsKept(t)
<1>1. t.elements = s.elements /\ t.stack = s.stack BY DEF Same, InitsFields
<1> QED BY <1>1 DEF InitsKept

\* All that is kept whatever goes on at the end of the queue.
QueueKeeps(s) ==
    s \in QueueStates /\ LineKept(s) /\ BasesKept(s) /\ SetsKept(s) /\ StackKept(s) /\ InitsKept(s)

Kept(s, raf, ids) == QueueKeeps(s) /\ GoesOn(s, raf, ids)

\* What is first in a queue was queued, and is one of the elements.
LEMMA HeadIsQueued ==
  ASSUME NEW s \in QueueStates, LineKept(s), SetsKept(s), nextQueued(s) # <<>>
  PROVE  /\ Head(nextQueued(s)) \in ToSet(s.queued) /\ Head(nextQueued(s)) \in ToSet(s.elements)
         /\ Head(nextQueued(s)) \in Definitions /\ Head(nextQueued(s)) \notin ToSet(s.registered)
         /\ Head(nextQueued(s)) \in s.prototypes
         /\ (Head(nextQueued(s)) \in Imported <=> s.importQueue # <<>>)
<1> DEFINE h == Head(nextQueued(s))
<1>1. {s.importQueue, s.mainQueue} \subseteq Seq(Definitions) BY QueueTypes
<1>2. h \in ToSet(nextQueued(s)) BY <1>1, HeadAndTail DEF nextQueued
<1>3. ToSet(s.importQueue) \cup ToSet(s.mainQueue) \subseteq ToSet(s.queued) BY LineElements DEF LineKept, Follows
<1>4. ToSet(s.queued) \subseteq ToSet(s.elements) /\ ToSet(s.queued) \subseteq s.prototypes BY DEF SetsKept
<1>5. s.prototypes \subseteq Definitions BY QueueTypes
<1>6. h \in ToSet(s.importQueue) \cup ToSet(s.mainQueue) BY <1>2 DEF nextQueued
<1>7. h \notin ToSet(s.registered) BY <1>6, RegisteredFirst
<1>8. h \in Imported <=> s.importQueue # <<>> BY <1>2 DEF nextQueued, LineKept
<1> HIDE DEF h
<1> QED BY <1>3, <1>4, <1>5, <1>6, <1>7, <1>8 DEF h

\* What was queued is in one part of the line.
LEMMA Queued ==
  ASSUME NEW s \in QueueStates, LineKept(s)
  PROVE  ToSet(s.queued) = ToSet(s.registered) \cup ToSet(s.flushQueue) \cup ToSet(s.importQueue) \cup ToSet(s.mainQueue)
BY LineElements DEF LineKept, Follows

\* A definition that has its turn and lacks nothing goes when it is asked.
Turn(s, d) == nextQueued(s) # <<>> /\ Head(nextQueued(s)) = d

\* A definition gets its prototype, or waits for it.
LEMMA WaitsKeeps ==
  ASSUME NEW s, NEW raf, NEW ids, Kept(s, raf, ids), NEW d \in Definitions, d \in ToSet(s.elements),
         HeadLacks(s, ids) \/ Turn(s, d)
  PROVE  LET w == waitingForPrototype(s, d)
         IN  /\ Kept(w, raf, ids) /\ (HeadLacks(w, ids) \/ Turn(w, d))
             /\ d \in w.prototypes \/ d \in w.clients
             /\ s.clients \subseteq w.clients \cup {d}
             /\ SameBut(w, s, {"prototypes", "clients"})
<1> DEFINE w == waitingForPrototype(s, d)
<1>0. /\ s \in QueueStates /\ LineKept(s) /\ BasesKept(s) /\ SetsKept(s) /\ StackKept(s) /\ InitsKept(s)
      /\ GoesOn(s, raf, ids)
  BY DEF Kept, QueueKeeps
<1>1. /\ w \in QueueStates
      /\ SameBut(w, s, {"prototypes", "clients"})
      /\ \/ d \in s.prototypes /\ w = s
         \/ d \notin s.prototypes /\ w.prototypes = s.prototypes \cup {d} /\ w.clients = s.clients \ {d}
         \/ d \notin s.prototypes /\ w.prototypes = s.prototypes /\ w.clients = s.clients \cup {d}
  BY <1>0, WaitsIs
<1> HIDE DEF w
<1>2. /\ Same(w, s, LineFields) /\ Same(w, s, BasesFields) /\ Same(w, s, StackFields) /\ Same(w, s, GoesFields)
      /\ Same(w, s, InitsFields)
  BY <1>1, SameOthers DEF Fields, LineFields, BasesFields, StackFields, GoesFields, InitsFields
<1>3. LineKept(w) /\ BasesKept(w) /\ StackKept(w) /\ GoesOn(w, raf, ids) /\ InitsKept(w)
  BY <1>0, <1>2, LineSame, BasesSame, StackSame, GoesSame, InitsSame
<1>4. /\ w.flushable = s.flushable /\ w.registered = s.registered /\ w.flushQueue = s.flushQueue
      /\ w.queued = s.queued /\ w.elements = s.elements /\ w.needs = s.needs
      /\ w.importQueue = s.importQueue /\ w.mainQueue = s.mainQueue
  BY <1>1 DEF SameBut, Fields
<1>5. SetsKept(w)
  BY <1>0, <1>1, <1>4 DEF SetsKept
<1>6. nextQueued(w) = nextQueued(s) BY <1>4 DEF nextQueued
<1>7. HeadLacks(w, ids) \/ Turn(w, d)
  <2>1. CASE Turn(s, d) BY <1>6, <2>1 DEF Turn
  <2>2. CASE HeadLacks(s, ids) /\ ~ Turn(s, d) /\ nextQueued(s) # <<>>
    <3>1. Head(nextQueued(s)) # d BY <2>2 DEF Turn
    <3> QED BY <1>1, <1>4, <1>6, <2>2, <3>1 DEF HeadLacks
  <2>3. CASE nextQueued(s) = <<>> BY <1>6, <2>3 DEF HeadLacks
  <2> QED BY <2>1, <2>2, <2>3
<1>8. Kept(w, raf, ids) BY <1>1, <1>3, <1>5 DEF Kept, QueueKeeps
<1>9. (d \in w.prototypes \/ d \in w.clients) /\ s.clients \subseteq w.clients \cup {d} BY <1>1
<1> QED BY <1>1, <1>7, <1>8, <1>9 DEF w

\* A definition that has one is queued.
LEMMA EnqueueKeeps ==
  ASSUME NEW s, NEW raf, NEW ids, Kept(s, raf, ids), NEW d \in Definitions, d \in ToSet(s.elements), d \in s.prototypes,
         HeadLacks(s, ids) \/ Turn(s, d)
  PROVE  LET e == enqueue(s, d)
         IN  /\ Kept(e, raf, ids) /\ (HeadLacks(e, ids) \/ Turn(e, d))
             /\ ToSet(e.queued) = ToSet(s.queued) \cup {d}
             /\ SameBut(e, s, {"queued", "importQueue", "mainQueue"})
<1> DEFINE e == enqueue(s, d)
<1>0. /\ s \in QueueStates /\ LineKept(s) /\ BasesKept(s) /\ SetsKept(s) /\ StackKept(s) /\ InitsKept(s)
      /\ GoesOn(s, raf, ids)
  BY DEF Kept, QueueKeeps
<1>1. LineKept(e) /\ ToSet(e.queued) = ToSet(s.queued) \cup {d} BY <1>0, LineEnqueued
<1>2. CASE d \in ToSet(s.queued)
  <2>1. e = s BY <1>2 DEF enqueue
  <2>2. SameBut(s, s, {"queued", "importQueue", "mainQueue"}) BY DEF SameBut
  <2> QED BY <1>1, <2>1, <2>2
<1>3. CASE d \notin ToSet(s.queued)
  <2>1. /\ e \in QueueStates
        /\ SameBut(e, s, {"queued", "importQueue", "mainQueue"})
        /\ e.importQueue = IF d \in Imported THEN Append(s.importQueue, d) ELSE s.importQueue
        /\ e.mainQueue = IF d \in Imported THEN s.mainQueue ELSE Append(s.mainQueue, d)
    BY <1>0, <1>3, EnqueueIs
  <2> HIDE DEF e
  <2>2. Same(e, s, BasesFields) /\ Same(e, s, StackFields) /\ Same(e, s, GoesFields) /\ Same(e, s, InitsFields)
    BY <2>1, SameOthers DEF Fields, BasesFields, StackFields, GoesFields, InitsFields
  <2>3. BasesKept(e) /\ StackKept(e) /\ GoesOn(e, raf, ids) /\ InitsKept(e)
    BY <1>0, <2>2, BasesSame, StackSame, GoesSame, InitsSame
  <2>4. /\ e.flushable = s.flushable /\ e.registered = s.registered /\ e.flushQueue = s.flushQueue
        /\ e.elements = s.elements /\ e.needs = s.needs /\ e.prototypes = s.prototypes /\ e.clients = s.clients
    BY <2>1 DEF SameBut, Fields
  <2>5. SetsKept(e) BY <1>0, <1>1, <2>4 DEF SetsKept
  <2>6. Kept(e, raf, ids) BY <1>1, <2>1, <2>3, <2>5 DEF Kept, QueueKeeps
  <2>7. {s.importQueue, s.mainQueue} \subseteq Seq(Definitions) BY <1>0, QueueTypes
  <2>8. \A q \in Seq(Definitions) : Append(q, d) # <<>> /\ Head(Append(q, d)) = IF q = <<>> THEN d ELSE Head(q)
    <3> SUFFICES ASSUME NEW q \in Seq(Definitions)
                 PROVE  Append(q, d) # <<>> /\ Head(Append(q, d)) = IF q = <<>> THEN d ELSE Head(q)
      OBVIOUS
    <3> DEFINE u == Append(q, d)
    <3>1. Len(q) \in Nat /\ Len(u) = Len(q) + 1 /\ u \in Seq(Definitions) /\ u[Len(q) + 1] = d
          /\ \A i \in 1 .. Len(q) : u[i] = q[i]
      OBVIOUS
    <3> HIDE DEF u
    <3>2. u # <<>> /\ Head(u) = u[1] BY <3>1
    <3>3. CASE q = <<>> BY <3>1, <3>2, <3>3 DEF u
    <3>4. CASE q # <<>>
      <4>1. 1 \in 1 .. Len(q) /\ Head(q) = q[1] BY <3>4
      <4> QED BY <3>1, <3>2, <3>4, <4>1 DEF u
    <3> QED BY <3>3, <3>4 DEF u
  <2>9. nextQueued(e) # <<>> /\ Head(nextQueued(e)) = IF nextQueued(s) = <<>> \/ (d \in Imported /\ s.importQueue = <<>>)
                                                      THEN d ELSE Head(nextQueued(s))
    <3>1. CASE d \in Imported BY <2>1, <2>7, <2>8, <3>1 DEF nextQueued
    <3>2. CASE d \notin Imported BY <2>1, <2>7, <2>8, <3>2 DEF nextQueued
    <3> QED BY <3>1, <3>2
  <2>10. HeadLacks(e, ids) \/ Turn(e, d)
    <3>1. CASE Turn(s, d) BY <2>9, <3>1 DEF Turn
    <3>2. CASE HeadLacks(s, ids) BY <2>4, <2>9, <3>2 DEF HeadLacks, Turn
    <3> QED BY <3>1, <3>2
  <2> QED BY <1>1, <2>1, <2>6, <2>10 DEF e
<1> QED BY <1>2, <1>3

\* Some call is on the stack, or is the one that is added.
LEMMA ChecksOnStack ==
  ASSUME NEW s \in QueueStates, NEW f \in Frames, NEW kinds
  PROVE  Some(Append(s.stack, f), kinds) <=> f.kind \in kinds \/ Some(s.stack, kinds)
<1> DEFINE n == Len(s.stack)
           u == Append(s.stack, f)
<1>1. n \in Nat /\ Len(u) = n + 1 /\ u[n + 1] = f /\ \A i \in 1 .. n : u[i] = s.stack[i]
  <2>1. s.stack \in Seq(Frames) BY QueueTypes
  <2> QED BY <2>1
<1> HIDE DEF n, u
<1>2. n + 1 \in 1 .. n + 1 /\ \A i \in 1 .. n + 1 : i = n + 1 \/ i \in 1 .. n BY <1>1
<1>3. \A i \in 1 .. n : i \in 1 .. n + 1 BY <1>1
<1> QED BY <1>1, <1>2, <1>3 DEF Some, n, u

\* A call is added that is about a definition there is.
LEMMA InitsAppended ==
  ASSUME NEW s \in QueueStates, NEW f \in Frames, InitsKept(s), NEW t, t.stack = Append(s.stack, f),
         ToSet(s.elements) \subseteq ToSet(t.elements), f.kind = "init" => f.definition \in ToSet(t.elements)
  PROVE  InitsKept(t)
<1> DEFINE n == Len(s.stack)
           u == t.stack
<1>1. n \in Nat /\ Len(u) = n + 1 /\ u[n + 1] = f /\ \A i \in 1 .. n : u[i] = s.stack[i]
  <2>1. s.stack \in Seq(Frames) BY QueueTypes
  <2> QED BY <2>1
<1> HIDE DEF n, u
<1>2. \A i \in 1 .. n + 1 : i = n + 1 \/ i \in 1 .. n BY <1>1
<1>3. \A i \in 1 .. n : s.stack[i].kind = "init" => s.stack[i].definition \in ToSet(s.elements)
  BY DEF InitsKept, n
<1>4. \A i \in 1 .. n + 1 : u[i].kind = "init" => u[i].definition \in ToSet(t.elements)
  BY <1>1, <1>2, <1>3
<1> QED BY <1>1, <1>4 DEF InitsKept, u

\* check begins: while it is on the stack, what is left will be done.
CheckFrame == [kind |-> "check"]

LEMMA CheckBegins ==
  ASSUME NEW s, NEW raf, NEW ids, QueueKeeps(s), s.waitToReady => ids # {}
  PROVE  LET b == Called(s, CheckFrame)
         IN  Kept(b, raf, ids) /\ SameBut(b, s, {"stack"})
<1> DEFINE b == Called(s, CheckFrame)
<1>0. CheckFrame \in Frames /\ CheckFrame.kind = "check" /\ ~ Prepares(CheckFrame) BY DEF CheckFrame, Frames, Prepares
<1>k. s \in QueueStates /\ LineKept(s) /\ BasesKept(s) /\ SetsKept(s) /\ StackKept(s) /\ InitsKept(s) BY DEF QueueKeeps
<1>1. b \in QueueStates /\ SameBut(b, s, {"stack"}) /\ b.stack = Append(s.stack, CheckFrame)
  BY <1>0, <1>k, CalledIs
<1> HIDE DEF b
<1>2. Same(b, s, LineFields) /\ Same(b, s, BasesFields) /\ Same(b, s, SetsFields)
  BY <1>1, SameOthers DEF Fields, BasesFields, LineFields, SetsFields
<1>3. LineKept(b) /\ BasesKept(b) /\ SetsKept(b) BY <1>k, <1>2, LineSame, BasesSame, SetsSame
<1>4. b.flushing = s.flushing /\ b.ceReady = s.ceReady /\ b.waitToReady = s.waitToReady /\ b.elements = s.elements
  BY <1>1 DEF SameBut, Fields
<1>5. StackKept(b) BY <1>0, <1>k, <1>1, <1>4, StackCalled
<1>7. InitsKept(b) BY <1>0, <1>k, <1>1, <1>4, InitsAppended
<1>6. GoesOn(b, raf, ids)
  <2>1. Some(b.stack, {"check", "flush"}) /\ Some(b.stack, {"check", "flush", "upgrade", "callbacks"})
    BY <1>0, <1>k, <1>1, ChecksOnStack
  <2> QED BY <1>4, <2>1 DEF GoesOn
<1> QED BY <1>1, <1>3, <1>5, <1>6, <1>7 DEF Kept, QueueKeeps, b

\* The definition at the head goes.
LEMMA TakenKeeps ==
  ASSUME NEW s, NEW raf, NEW ids, Kept(s, raf, ids), NEW d \in Definitions, Turn(s, d)
  PROVE  LET t == Taken(s, d)
         IN  /\ QueueKeeps(t)
             /\ SameBut(t, s, {"importQueue", "mainQueue", "flushable", "flushQueue"})
             /\ Len(t.importQueue) + Len(t.mainQueue) = Len(s.importQueue) + Len(s.mainQueue) - 1
<1> DEFINE t == Taken(s, d)
<1>0. s \in QueueStates /\ LineKept(s) /\ BasesKept(s) /\ SetsKept(s) /\ StackKept(s) /\ InitsKept(s)
  BY DEF Kept, QueueKeeps
<1>1. queueForElement(s, d) # <<>> /\ d = Head(queueForElement(s, d)) /\ (d \notin Imported => s.importQueue = <<>>)
  BY <1>0, HeadIsQueued DEF Turn, queueForElement, nextQueued
<1>2. /\ t \in QueueStates
      /\ SameBut(t, s, {"importQueue", "mainQueue", "flushable", "flushQueue"})
      /\ t.importQueue = IF d \in Imported THEN Tail(s.importQueue) ELSE s.importQueue
      /\ t.mainQueue = IF d \in Imported THEN s.mainQueue ELSE Tail(s.mainQueue)
      /\ t.flushable = s.flushable \cup {d}
      /\ t.flushQueue = Append(s.flushQueue, d)
  BY <1>0, <1>1, TakenIs
<1>3. LineKept(t) BY <1>0, <1>1, LineTaken
<1> HIDE DEF t
<1>4. Same(t, s, BasesFields) /\ Same(t, s, StackFields) /\ Same(t, s, InitsFields)
  BY <1>2, SameOthers DEF Fields, BasesFields, StackFields, InitsFields
<1>5. BasesKept(t) /\ StackKept(t) /\ InitsKept(t) BY <1>0, <1>4, BasesSame, StackSame, InitsSame
<1>6. {s.importQueue, s.mainQueue, s.flushQueue} \subseteq Seq(Definitions) BY <1>0, QueueTypes
<1>7. SetsKept(t)
  <2>1. /\ t.registered = s.registered /\ t.queued = s.queued
        /\ t.elements = s.elements /\ t.needs = s.needs /\ t.prototypes = s.prototypes /\ t.clients = s.clients
    BY <1>2 DEF SameBut, Fields
  <2>2. ToSet(t.flushQueue) = ToSet(s.flushQueue) \cup {d} BY <1>2, <1>6, AppendElements
  <2> QED BY <1>0, <1>2, <2>1, <2>2 DEF SetsKept
<1>8. Len(t.importQueue) + Len(t.mainQueue) = Len(s.importQueue) + Len(s.mainQueue) - 1
  <2>1. Len(s.importQueue) \in Nat /\ Len(s.mainQueue) \in Nat BY <1>6
  <2>2. CASE d \in Imported
    <3>1. Len(t.importQueue) = Len(s.importQueue) - 1 BY <1>1, <1>2, <1>6, <2>2, HeadAndTail DEF queueForElement
    <3>2. t.mainQueue = s.mainQueue BY <1>2, <2>2
    <3> QED BY <2>1, <3>1, <3>2
  <2>3. CASE d \notin Imported
    <3>1. Len(t.mainQueue) = Len(s.mainQueue) - 1 BY <1>1, <1>2, <1>6, <2>3, HeadAndTail DEF queueForElement
    <3>2. t.importQueue = s.importQueue BY <1>2, <2>3
    <3> QED BY <2>1, <3>1, <3>2
  <2> QED BY <2>2, <2>3
<1> QED BY <1>2, <1>3, <1>5, <1>7, <1>8 DEF t, QueueKeeps

\* While definitions are asked one after the other: all have been found but the one
\* that is asked now, and so has the head of the queue what it waits for.
Asking(x, raf, ids) ==
    /\ x \in [pq : QueueStates, asked : Seq(Definitions)] /\ Kept(x.pq, raf, ids)
    /\ x.asked = <<>> \/ \E d \in ToSet(x.pq.elements) : x.asked = <<d>>
    /\ \A d \in ToSet(x.pq.elements) : d \in ToSet(x.pq.queued) \cup x.pq.clients \/ x.asked = <<d>>
    /\ HeadLacks(x.pq, ids) \/ \E d \in Definitions : x.asked = <<d>> /\ Turn(x.pq, d)

\* How many wait in the queues.
Left(s) == Len(s.importQueue) + Len(s.mainQueue)

\* When another is asked next, it has been queued.
Goes(x, left) == x.asked # <<>> => Head(x.asked) \in ToSet(x.pq.queued) /\ Left(x.pq) <= left

LEMMA LeftIsNatural ==
  ASSUME NEW s \in QueueStates
  PROVE  Len(s.importQueue) \in Nat /\ Len(s.mainQueue) \in Nat /\ Left(s) \in Nat
<1>1. s.importQueue \in Seq(Definitions) /\ s.mainQueue \in Seq(Definitions) BY QueueTypes
<1>2. Len(s.importQueue) \in Nat /\ Len(s.mainQueue) \in Nat BY <1>1
<1> DEFINE q == Len(s.importQueue)
           r == Len(s.mainQueue)
<1>3. Left(s) = q + r BY DEF Left
<1> HIDE DEF q, r
<1>4. q \in Nat /\ r \in Nat BY <1>2 DEF q, r
<1>5. Left(s) \in Nat BY <1>3, <1>4
<1> QED BY <1>2, <1>5

\* Nobody is asked next, or one is.
LEMMA AsksNoneIs ==
  ASSUME NEW s, NEW raf, NEW ids, Kept(s, raf, ids), HeadLacks(s, ids),
         \A d \in ToSet(s.elements) : d \in ToSet(s.queued) \cup s.clients, NEW left
  PROVE  Asking(AsksNone(s), raf, ids) /\ Goes(AsksNone(s), left)
<1>1. s \in QueueStates BY DEF Kept, QueueKeeps
<1>2. AsksNone(s) \in [pq : QueueStates, asked : Seq(Definitions)] /\ AsksNone(s).pq = s /\ AsksNone(s).asked = <<>>
  BY <1>1 DEF AsksNone
<1> QED BY <1>2 DEF Asking, Goes

LEMMA AsksIs ==
  ASSUME NEW s, NEW raf, NEW ids, Kept(s, raf, ids), NEW d \in Definitions, d \in ToSet(s.elements),
         HeadLacks(s, ids) \/ Turn(s, d),
         \A e \in ToSet(s.elements) : e \in ToSet(s.queued) \cup s.clients \/ e = d
  PROVE  /\ Asking(Asks(s, d), raf, ids) /\ Asks(s, d).pq = s /\ Asks(s, d).asked = <<d>>
         /\ d \in ToSet(s.queued) => Goes(Asks(s, d), Left(s))
<1>1. s \in QueueStates BY DEF Kept, QueueKeeps
<1>2. <<d>> \in Seq(Definitions) /\ <<d>> # <<>> /\ Head(<<d>>) = d OBVIOUS
<1>3. Asks(s, d) \in [pq : QueueStates, asked : Seq(Definitions)] /\ Asks(s, d).pq = s /\ Asks(s, d).asked = <<d>>
  BY <1>1, <1>2 DEF Asks
<1>4. Goes(Asks(s, d), Left(s)) <=> d \in ToSet(s.queued)
  <2> HIDE DEF Asks
  <2> QED BY <1>1, <1>2, <1>3, LeftIsNatural DEF Goes
<1>5. \A e : e = d => <<e>> = <<d>> OBVIOUS
<1>6. \A e \in ToSet(s.elements) : e \in ToSet(s.queued) \cup s.clients \/ <<d>> = <<e>> BY <1>5
<1> HIDE DEF Asks
<1>7. Asking(Asks(s, d), raf, ids) BY <1>3, <1>6 DEF Asking
<1> QED BY <1>3, <1>4, <1>7

\* check asks the head of the queue, if there is one.
LEMMA CheckAsks ==
  ASSUME NEW s, NEW raf, NEW ids, QueueKeeps(s), s.waitToReady => ids # {}, \A d \in ToSet(s.elements) : d \in ToSet(s.queued) \cup s.clients
  PROVE  Asking(check(s), raf, ids) /\ Goes(check(s), Left(s))
<1> DEFINE b == Called(s, CheckFrame)
<1>1. Kept(b, raf, ids) /\ SameBut(b, s, {"stack"}) BY CheckBegins
<1> HIDE DEF b
<1>2. /\ b.elements = s.elements /\ b.queued = s.queued /\ b.clients = s.clients
      /\ b.importQueue = s.importQueue /\ b.mainQueue = s.mainQueue
  BY <1>1 DEF SameBut, Fields
<1>3. nextQueued(b) = nextQueued(s) /\ Left(b) = Left(s) BY <1>2 DEF nextQueued, Left
<1>4. check(s) = IF nextQueued(s) = <<>> THEN AsksNone(b) ELSE Asks(b, Head(nextQueued(s)))
  BY DEF check, b, CheckFrame
<1>5. CASE nextQueued(s) = <<>>
  <2>1. HeadLacks(b, ids) BY <1>3, <1>5 DEF HeadLacks
  <2> QED BY <1>1, <1>2, <1>4, <1>5, <2>1, AsksNoneIs
<1>6. CASE nextQueued(s) # <<>>
  <2> DEFINE h == Head(nextQueued(b))
  <2>1. b \in QueueStates /\ LineKept(b) /\ SetsKept(b) BY <1>1 DEF Kept, QueueKeeps
  <2>2. h \in ToSet(b.queued) /\ h \in ToSet(b.elements) /\ h \in Definitions BY <1>3, <1>6, <2>1, HeadIsQueued
  <2>3. Turn(b, h) BY <1>3, <1>6 DEF Turn
  <2>4. check(s) = Asks(b, h) BY <1>3, <1>4, <1>6
  <2> HIDE DEF h
  <2> QED BY <1>1, <1>2, <1>3, <2>2, <2>3, <2>4, AsksIs
<1> QED BY <1>5, <1>6

\* One definition is asked to register.
LEMMA AskedIs ==
  ASSUME NEW s, NEW raf, NEW ids, Kept(s, raf, ids), NEW d \in Definitions, d \in ToSet(s.elements),
         HeadLacks(s, ids) \/ Turn(s, d), ~ importsReady => 1 \in ids,
         \A e \in ToSet(s.elements) : e \in ToSet(s.queued) \cup s.clients \/ e = d
  PROVE  /\ Asking(Asked(s, d), raf, ids) /\ Goes(Asked(s, d), Left(s))
         /\ d \in ToSet(s.queued) => Goes(Asked(s, d), Left(s) - 1)
<1> DEFINE w == waitingForPrototype(s, d)
           i == enqueue(w, d)
           t == Taken(i, d)
<1>1. s \in QueueStates /\ LineKept(s) /\ SetsKept(s) BY DEF Kept, QueueKeeps
<1>2. /\ Kept(w, raf, ids) /\ (HeadLacks(w, ids) \/ Turn(w, d))
      /\ d \in w.prototypes \/ d \in w.clients
      /\ s.clients \subseteq w.clients \cup {d}
      /\ SameBut(w, s, {"prototypes", "clients"})
  BY WaitsKeeps
<1>a. Asked(s, d) = IF d \in ToSet(s.registered) THEN AsksNone(s)
                    ELSE IF d \notin w.prototypes THEN AsksNone(w)
                    ELSE IF FirstInLine(i, d) /\ d \notin i.needs THEN go(i, d) ELSE AsksNone(i)
  BY DEF Asked
<1> HIDE DEF w, i, t
<1>3. /\ w.elements = s.elements /\ w.queued = s.queued /\ w.importQueue = s.importQueue /\ w.mainQueue = s.mainQueue
      /\ w.registered = s.registered
  BY <1>2 DEF SameBut, Fields
<1>4. CASE d \in ToSet(s.registered)
  <2>1. Asked(s, d) = AsksNone(s) BY <1>4, <1>a
  <2>2. ~ Turn(s, d) BY <1>1, <1>4, HeadIsQueued DEF Turn
  <2>3. d \in ToSet(s.queued) BY <1>1, <1>4, Queued
  <2> QED BY <2>1, <2>2, <2>3, AsksNoneIs
<1>5. CASE d \notin ToSet(s.registered) /\ d \notin w.prototypes
  <2>1. Asked(s, d) = AsksNone(w) BY <1>5, <1>a
  <2>2. w \in QueueStates /\ LineKept(w) /\ SetsKept(w) BY <1>2 DEF Kept, QueueKeeps
  <2>3. ~ Turn(w, d) BY <1>5, <2>2, HeadIsQueued DEF Turn
  <2>4. \A e \in ToSet(w.elements) : e \in ToSet(w.queued) \cup w.clients BY <1>2, <1>3, <1>5
  <2> QED BY <1>2, <2>1, <2>3, <2>4, AsksNoneIs
<1>6. CASE d \notin ToSet(s.registered) /\ d \in w.prototypes
  <2>1. w \in QueueStates /\ LineKept(w) BY <1>2 DEF Kept, QueueKeeps
  <2>2. /\ Kept(i, raf, ids) /\ (HeadLacks(i, ids) \/ Turn(i, d))
        /\ ToSet(i.queued) = ToSet(w.queued) \cup {d}
        /\ SameBut(i, w, {"queued", "importQueue", "mainQueue"})
    BY <1>2, <1>3, <1>6, EnqueueKeeps DEF i
  <2>3. i.elements = w.elements /\ i.clients = w.clients /\ i.waitToReady = w.waitToReady BY <2>2 DEF SameBut, Fields
  <2>4. \A e \in ToSet(i.elements) : e \in ToSet(i.queued) \cup i.clients BY <1>2, <1>3, <2>2, <2>3
  <2>5. i \in QueueStates /\ LineKept(i) /\ SetsKept(i) BY <2>2 DEF Kept, QueueKeeps
  <2>6. CASE ~ (FirstInLine(i, d) /\ d \notin i.needs)
    <3>1. Asked(s, d) = AsksNone(i) BY <1>6, <1>a, <2>6
    <3>2. HeadLacks(i, ids)
      <4> SUFFICES ASSUME Turn(i, d) PROVE HeadLacks(i, ids) BY <2>2
      <4>1. nextQueued(i) # <<>> /\ Head(nextQueued(i)) = d /\ (d \in Imported <=> i.importQueue # <<>>)
        BY <2>5, HeadIsQueued DEF Turn
      <4>2. nextQueued(i) = queueForElement(i, d) BY <4>1 DEF nextQueued, queueForElement
      <4>3. d \in ToSet(queueForElement(i, d)) /\ Head(queueForElement(i, d)) = d
        <5>1. queueForElement(i, d) \in Seq(Definitions) BY <2>5, QueueTypes DEF queueForElement
        <5> QED BY <4>1, <4>2, <5>1, HeadAndTail
      <4>4. FirstInLine(i, d) \/ ~ importsReady BY <4>1, <4>3 DEF FirstInLine
      <4> QED BY <2>6, <4>1, <4>4 DEF HeadLacks
    <3> QED BY <2>2, <2>4, <3>1, <3>2, AsksNoneIs
  <2>7. CASE FirstInLine(i, d) /\ d \notin i.needs
    <3>1. Asked(s, d) = check(t) BY <1>6, <1>a, <2>7 DEF go, t, Taken
    <3>2. Turn(i, d)
      <4>0. i.importQueue \in Seq(Definitions) /\ i.mainQueue \in Seq(Definitions) BY <2>5, QueueTypes
      <4>1. queueForElement(i, d) # <<>> BY <2>7 DEF FirstInLine, ToSet
      <4>2. nextQueued(i) = queueForElement(i, d) BY <2>7, <4>1 DEF nextQueued, FirstInLine, queueForElement
      <4> QED BY <2>7, <4>1, <4>2 DEF Turn, FirstInLine
    <3>3. /\ QueueKeeps(t)
          /\ SameBut(t, i, {"importQueue", "mainQueue", "flushable", "flushQueue"})
          /\ Left(t) = Left(i) - 1
      <4>1. /\ QueueKeeps(t)
            /\ SameBut(t, i, {"importQueue", "mainQueue", "flushable", "flushQueue"})
            /\ Len(t.importQueue) + Len(t.mainQueue) = Len(i.importQueue) + Len(i.mainQueue) - 1
        BY <2>2, <3>2, TakenKeeps DEF t
      <4>2. Left(t) = Len(t.importQueue) + Len(t.mainQueue) /\ Left(i) = Len(i.importQueue) + Len(i.mainQueue)
        BY DEF Left
      <4>3. /\ Len(t.importQueue) \in Nat /\ Len(t.mainQueue) \in Nat
            /\ Len(i.importQueue) \in Nat /\ Len(i.mainQueue) \in Nat
        BY <2>5, <4>1, LeftIsNatural DEF QueueKeeps
      <4>4. Left(t) = Left(i) - 1
        <5> DEFINE a == Len(t.importQueue)
                   b == Len(t.mainQueue)
                   c == Len(i.importQueue)
                   e == Len(i.mainQueue)
        <5>1. a + b = c + e - 1 BY <4>1
        <5> HIDE DEF a, b, c, e
        <5>2. Left(t) = a + b /\ Left(i) = c + e BY <4>2 DEF a, b, c, e
        <5>3. a \in Nat /\ b \in Nat /\ c \in Nat /\ e \in Nat BY <4>3 DEF a, b, c, e
        <5> QED BY <5>1, <5>2, <5>3
      <4> QED BY <4>1, <4>4
    <3>4. t.elements = i.elements /\ t.queued = i.queued /\ t.clients = i.clients /\ t.waitToReady = i.waitToReady
      BY <3>3 DEF SameBut, Fields
    <3>5. t.waitToReady => ids # {} BY <2>2, <3>4 DEF Kept, GoesOn
    <3>6. Asking(check(t), raf, ids) /\ Goes(check(t), Left(t)) BY <2>4, <3>3, <3>4, <3>5, CheckAsks
    <3>7. Left(i) \in Nat /\ Left(s) = Left(w) /\ Left(w) \in Nat
      BY <1>1, <1>3, <2>1, <2>5, LeftIsNatural DEF Left
    <3>8. CASE d \in ToSet(s.queued)
      <4>1. i = w BY <1>3, <3>8 DEF i, enqueue
      <4>2. Left(t) = Left(s) - 1 /\ Left(t) <= Left(s) BY <3>3, <3>7, <4>1
      <4>3. Left(check(t).pq) <= Left(t) => Left(check(t).pq) <= Left(s)
        <5>1. check(t).pq \in QueueStates BY <3>6 DEF Asking
        <5>3. Left(check(t).pq) \in Nat BY <5>1, LeftIsNatural
        <5> QED BY <3>7, <4>2, <5>3
      <4>4. Goes(check(t), Left(s)) BY <3>6, <4>3 DEF Goes
      <4> QED BY <3>1, <3>6, <4>2, <4>4
    <3>9. CASE d \notin ToSet(s.queued)
      <4>1. Left(i) = Left(w) + 1
        <5>1. /\ i.importQueue = IF d \in Imported THEN Append(w.importQueue, d) ELSE w.importQueue
              /\ i.mainQueue = IF d \in Imported THEN w.mainQueue ELSE Append(w.mainQueue, d)
          BY <1>3, <2>1, <3>9, EnqueueIs DEF i
        <5>2. w.importQueue \in Seq(Definitions) /\ w.mainQueue \in Seq(Definitions) BY <2>1, QueueTypes
        <5>3. \A q \in Seq(Definitions) : Len(q) \in Nat /\ Len(Append(q, d)) = Len(q) + 1 OBVIOUS
        <5> DEFINE q == w.importQueue
                   r == w.mainQueue
        <5>6. q \in Seq(Definitions) /\ r \in Seq(Definitions) /\ Left(w) = Len(q) + Len(r) BY <5>2 DEF Left
        <5>7. Left(i) = Len(i.importQueue) + Len(i.mainQueue) BY DEF Left
        <5> HIDE DEF q, r
        <5>8. Len(q) \in Nat /\ Len(Append(q, d)) = Len(q) + 1 /\ Len(r) \in Nat /\ Len(Append(r, d)) = Len(r) + 1
          BY ONLY <5>3, <5>6
        <5>4. CASE d \in Imported
          <6>1. i.importQueue = Append(q, d) /\ i.mainQueue = r BY <5>1, <5>4 DEF q, r
          <6> QED BY ONLY <5>6, <5>7, <5>8, <6>1
        <5>5. CASE d \notin Imported
          <6>1. i.importQueue = q /\ i.mainQueue = Append(r, d) BY <5>1, <5>5 DEF q, r
          <6> QED BY ONLY <5>6, <5>7, <5>8, <6>1
        <5> QED BY <5>4, <5>5
      <4>2. Left(t) = Left(s) BY <3>3, <3>7, <4>1
      <4> QED BY <3>1, <3>6, <3>9, <4>2
    <3> QED BY <3>8, <3>9
  <2> QED BY <2>6, <2>7
<1> QED BY <1>4, <1>5, <1>6

\* One after the other, until nobody is asked.
LEMMA AllAskedIs ==
  ASSUME NEW x, NEW raf, NEW ids, Asking(x, raf, ids), ~ importsReady => 1 \in ids
  PROVE  LET s == AllAsked(x)
         IN  /\ Kept(s, raf, ids) /\ HeadLacks(s, ids)
             /\ \A d \in ToSet(s.elements) : d \in ToSet(s.queued) \cup s.clients
<1> DEFINE X == [pq : QueueStates, asked : Seq(Definitions)]
           m == Left(x.pq)
           most == Len(x.pq.importQueue) + Len(x.pq.mainQueue) + 2
           next(y) == IF y.asked = <<>> THEN y ELSE Asked(y.pq, Head(y.asked))
           T == [k \in 0 .. most |-> IF k = 0 THEN {x} ELSE {y \in X : Asking(y, raf, ids) /\ Goes(y, m + 1 - k)}]
           F == [p \in (1 .. most) \X X |-> next(p[2])]
           After(f) == f = [k \in 0 .. most |-> IF k = 0 THEN x ELSE next(f[k - 1])]
           after == CHOOSE f : After(f)
<1>1. x \in X /\ x.pq \in QueueStates BY DEF Asking
<1>2. m \in Nat /\ most = m + 2 BY <1>1, LeftIsNatural DEF Left
<1>3. AllAsked(x) = after[most].pq BY DEF AllAsked
\* what the next call leaves
<1>4. ASSUME NEW y \in X, Asking(y, raf, ids)
      PROVE  /\ Asking(next(y), raf, ids)
             /\ Goes(next(y), Left(y.pq))
             /\ Goes(y, Left(y.pq)) => Goes(next(y), Left(y.pq) - 1)
  <2>1. CASE y.asked = <<>> BY <1>4, <2>1 DEF Goes
  <2>2. CASE y.asked # <<>>
    <3>1. PICK d \in ToSet(y.pq.elements) : y.asked = <<d>> BY <1>4, <2>2 DEF Asking
    <3>2. y.pq \in QueueStates /\ Kept(y.pq, raf, ids) BY <1>4 DEF Asking
    <3>3. d \in Definitions
      <4>1. y.pq.elements \in Seq(Definitions) BY <3>2, QueueTypes
      <4> QED BY <4>1 DEF ToSet
    <3>4. Head(y.asked) = d BY <3>1
    <3>d. \A e : <<d>> = <<e>> => d = e OBVIOUS
    <3>5. HeadLacks(y.pq, ids) \/ Turn(y.pq, d) BY <1>4, <3>1, <3>d DEF Asking
    <3>6. \A e \in ToSet(y.pq.elements) : e \in ToSet(y.pq.queued) \cup y.pq.clients \/ e = d
      BY <1>4, <3>1, <3>d DEF Asking
    <3>7. next(y) = Asked(y.pq, d) BY <2>2, <3>4
    <3>8. Goes(y, Left(y.pq)) => d \in ToSet(y.pq.queued) BY <2>2, <3>4 DEF Goes
    <3> HIDE DEF next
    <3> QED BY <3>2, <3>3, <3>5, <3>6, <3>7, <3>8, AskedIs
  <2> QED BY <2>1, <2>2
<1>5. \A y \in X : Asking(y, raf, ids) => next(y) \in X BY <1>4 DEF Asking
<1>6. \A k \in 1 .. most : \A y \in X : F[<<k, y>>] = next(y) OBVIOUS
<1>7. T[0] = {x} /\ \A k \in 1 .. most : T[k] = {y \in X : Asking(y, raf, ids) /\ Goes(y, m + 1 - k)} 
  <2> HIDE DEF next, F, m, most
  <2>1. 0 \in 0 .. most /\ \A k \in 1 .. most : k \in 0 .. most /\ k # 0 BY <1>2
  <2> QED BY <2>1
<1> HIDE DEF next, F, T, m, most
<1>8. \A k \in 0 .. most : T[k] \subseteq X /\ \A y \in T[k] : Asking(y, raf, ids) BY <1>1, <1>2, <1>7
<1>9. ASSUME NEW k \in 1 .. most, NEW y \in T[k - 1] PROVE next(y) \in T[k]
  <2>0. k - 1 \in 0 .. most BY <1>2
  <2>1. y \in X /\ Asking(y, raf, ids) /\ next(y) \in X /\ Asking(next(y), raf, ids) BY <1>4, <1>5, <1>8, <2>0
  <2>2. y.pq \in QueueStates /\ next(y).pq \in QueueStates BY <2>1
  <2>3. Left(y.pq) \in Nat /\ Left(next(y).pq) \in Nat BY <2>2, LeftIsNatural
  <2>4. Goes(next(y), m + 1 - k)
    <3>1. CASE k = 1
      <4>1. y = x BY <1>7, <3>1
      <4>2. Goes(next(y), m) BY <1>4, <2>1, <4>1 DEF m
      <4>3. m + 1 - k = m BY <1>2, <3>1
      <4> QED BY <4>2, <4>3
    <3>2. CASE k > 1
      <4>1. k - 1 \in 1 .. most /\ m + 1 - (k - 1) = m + 2 - k BY <1>2, <3>2
      <4>2. Goes(y, m + 2 - k) BY <1>7, <4>1
      <4>3. CASE y.asked = <<>>
        <5>1. next(y) = y BY <4>3 DEF next
        <5> QED BY <4>3, <5>1 DEF Goes
      <4>4. CASE y.asked # <<>>
        <5>1. Head(y.asked) \in ToSet(y.pq.queued) /\ Left(y.pq) <= m + 2 - k BY <4>2, <4>4 DEF Goes
        <5>2. Goes(y, Left(y.pq)) BY <2>3, <5>1 DEF Goes
        <5>3. Goes(next(y), Left(y.pq) - 1) BY <1>4, <2>1, <5>2
        <5>4. \A n \in Nat : n <= Left(y.pq) - 1 => n <= m + 1 - k BY <1>2, <2>3, <5>1
        <5> QED BY <2>3, <5>3, <5>4 DEF Goes
      <4> QED BY <4>3, <4>4
    <3> QED BY <3>1, <3>2
  <2> QED BY <1>7, <2>1, <2>4
<1>10. x \in T[0] /\ \A k \in 1 .. most : \A y \in T[k - 1] : F[<<k, y>>] \in T[k]
  <2>1. \A k \in 1 .. most : k - 1 \in 0 .. most BY <1>2
  <2> QED BY <1>6, <1>7, <1>8, <1>9, <2>1
<1>11. most \in Nat BY <1>2
<1>12. PICK f : IsFold(f, most, x, F) /\ \A k \in 0 .. most : f[k] \in T[k]
  BY ONLY <1>10, <1>11, FoldExists
<1>13. After(f)
  <2>1. \A k \in 1 .. most : k - 1 \in 0 .. most /\ f[k - 1] \in X BY <1>8, <1>11, <1>12
  <2>2. \A k \in 1 .. most : F[<<k, f[k - 1]>>] = next(f[k - 1]) BY <1>6, <2>1
  <2>3. \A k \in 0 .. most : k = 0 \/ k \in 1 .. most BY <1>11
  <2>4. f = [k \in 0 .. most |-> IF k = 0 THEN x ELSE F[<<k, f[k - 1]>>]] BY <1>12 DEF IsFold
  <2>5. \A k \in 0 .. most : (IF k = 0 THEN x ELSE F[<<k, f[k - 1]>>]) = IF k = 0 THEN x ELSE next(f[k - 1])
    BY <2>2, <2>3
  <2> QED BY <2>4, <2>5
<1>14. After(after) BY <1>13
<1> HIDE DEF after
<1>15. after[0] = x /\ \A k \in 1 .. most : after[k] = next(after[k - 1])
  <2>1. \A k \in 0 .. most : after[k] = IF k = 0 THEN x ELSE next(after[k - 1]) BY <1>14
  <2>2. 0 \in 0 .. most /\ \A k \in 1 .. most : k \in 0 .. most /\ k # 0 BY <1>11
  <2> QED BY <2>1, <2>2
<1>16. after[0] \in T[0] /\ \A k \in 1 .. most : after[k - 1] \in T[k - 1] => after[k] \in T[k]
  BY <1>9, <1>10, <1>15
<1>17. \A k \in 0 .. most : after[k] \in T[k] BY ONLY <1>11, <1>16, FoldStays
<1> DEFINE z == after[most]
<1>18. z \in X /\ Asking(z, raf, ids) /\ Goes(z, m + 1 - most)
  <2>1. most \in 1 .. most /\ most \in 0 .. most BY <1>2
  <2> QED BY <1>7, <1>17, <2>1
<1> HIDE DEF z
<1>19. z.asked = <<>>
  <2>1. z.pq \in QueueStates BY <1>18
  <2>2. Left(z.pq) \in Nat BY <2>1, LeftIsNatural
  <2>3. m + 1 - most = -1 BY <1>2
  <2> QED BY <1>18, <2>2, <2>3 DEF Goes
<1>20. \A d : <<>> # <<d>> OBVIOUS
<1>21. /\ Kept(z.pq, raf, ids) /\ HeadLacks(z.pq, ids)
       /\ \A d \in ToSet(z.pq.elements) : d \in ToSet(z.pq.queued) \cup z.pq.clients
  BY <1>18, <1>19, <1>20 DEF Asking
<1>22. AllAsked(x) = z.pq BY <1>3 DEF z
<1> QED BY <1>21, <1>22

\* Every definition there is waits for its prototype or was queued.
AllFound(s) == \A d \in ToSet(s.elements) : d \in ToSet(s.queued) \cup s.clients

\* Only while init runs, the definition that it is about may not have been found.
LEMMA NoneFresh ==
  ASSUME NEW s, Found(s), s.stack # <<>> => Last(s.stack).kind # "init"
  PROVE  AllFound(s)
BY DEF Found, Fresh, AllFound

LEMMA FoundSame ==
  ASSUME NEW s, NEW t, Same(t, s, {"elements", "queued", "clients"}), AllFound(s)
  PROVE  AllFound(t)
<1>1. t.elements = s.elements /\ t.queued = s.queued /\ t.clients = s.clients BY DEF Same
<1> QED BY <1>1 DEF AllFound

LEMMA AllFoundIsFound ==
  ASSUME NEW s, AllFound(s)
  PROVE  Found(s)
BY DEF Found, AllFound

\* The top of the stack and what is below it.
LEMMA TopAndBelow ==
  ASSUME NEW s \in QueueStates, s.stack # <<>>, NEW kinds
  PROVE  /\ Last(s.stack) \in Frames
         /\ Some(s.stack, kinds) <=> Last(s.stack).kind \in kinds \/ Some(Front(s.stack), kinds)
<1> DEFINE n == Len(s.stack) - 1
           u == Front(s.stack)
           v == s.stack
<1>1. /\ n \in Nat /\ Len(s.stack) = n + 1 /\ Len(u) = n /\ Last(s.stack) = s.stack[n + 1]
      /\ \A i \in 1 .. n : u[i] = s.stack[i]
  BY StackFront
<1>2. s.stack \in Seq(Frames) BY QueueTypes
<1> HIDE DEF n, u
<1>3. n + 1 \in 1 .. n + 1 /\ (\A i \in 1 .. n + 1 : i = n + 1 \/ i \in 1 .. n) /\ \A i \in 1 .. n : i \in 1 .. n + 1
  BY <1>1
<1>4. Last(s.stack) \in Frames
  <2>1. \A i \in 1 .. Len(v) : v[i] \in Frames BY <1>2
  <2> QED BY <1>1, <1>3, <2>1
<1>5. Some(s.stack, kinds) <=> Last(s.stack).kind \in kinds \/ Some(u, kinds)
  BY <1>1, <1>3 DEF Some
<1> QED BY <1>4, <1>5 DEF u

LEMMA TopAppended ==
  ASSUME NEW s \in QueueStates, NEW f \in Frames
  PROVE  Append(s.stack, f) # <<>> /\ Last(Append(s.stack, f)) = f
<1> DEFINE n == Len(s.stack)
           u == Append(s.stack, f)
<1>1. n \in Nat /\ Len(u) = n + 1 /\ u[n + 1] = f /\ u # <<>> 
  <2>1. s.stack \in Seq(Frames) BY QueueTypes
  <2> QED BY <2>1
<1> HIDE DEF n, u
<1> QED BY <1>1 DEF Last, u

LEMMA InitsBelow ==
  ASSUME NEW s \in QueueStates, InitsKept(s), s.stack # <<>>
  PROVE  /\ Last(s.stack).kind = "init" => Last(s.stack).definition \in ToSet(s.elements)
         /\ \A t : t.stack = Front(s.stack) /\ t.elements = s.elements => InitsKept(t)
<1> DEFINE n == Len(s.stack) - 1
           u == Front(s.stack)
<1>1. /\ n \in Nat /\ Len(s.stack) = n + 1 /\ Len(u) = n /\ Last(s.stack) = s.stack[n + 1]
      /\ \A i \in 1 .. n : u[i] = s.stack[i]
  BY StackFront
<1> HIDE DEF n, u
<1>3. n + 1 \in 1 .. n + 1 /\ \A i \in 1 .. n : i \in 1 .. n + 1 BY <1>1
<1>4. \A i \in 1 .. n + 1 : s.stack[i].kind = "init" => s.stack[i].definition \in ToSet(s.elements)
  BY <1>1 DEF InitsKept
<1>5. ASSUME NEW t, t.stack = u, t.elements = s.elements PROVE InitsKept(t)
  <2>1. \A i \in 1 .. n : u[i].kind = "init" => u[i].definition \in ToSet(s.elements) BY <1>1, <1>3, <1>4
  <2> QED BY <1>1, <1>5, <2>1 DEF InitsKept
<1> QED BY <1>1, <1>3, <1>4, <1>5 DEF u

\* A call that is not one of ready comes back.
LEMMA ReturnKeeps ==
  ASSUME NEW s, QueueKeeps(s), s.stack # <<>>, ~ Prepares(Last(s.stack))
  PROVE  QueueKeeps(Returned(s)) /\ SameBut(Returned(s), s, {"stack"}) /\ Returned(s).stack = Front(s.stack)
<1> DEFINE t == Returned(s)
<1>0. s \in QueueStates /\ LineKept(s) /\ BasesKept(s) /\ SetsKept(s) /\ StackKept(s) /\ InitsKept(s)
  BY DEF QueueKeeps
<1>1. t \in QueueStates /\ SameBut(t, s, {"stack"}) /\ t.stack = Front(s.stack) BY <1>0, ReturnedIs
<1> HIDE DEF t
<1>2. Same(t, s, LineFields) /\ Same(t, s, BasesFields) /\ Same(t, s, SetsFields)
  BY <1>1, SameOthers DEF Fields, BasesFields, LineFields, SetsFields
<1>3. LineKept(t) /\ BasesKept(t) /\ SetsKept(t) BY <1>0, <1>2, LineSame, BasesSame, SetsSame
<1>4. t.flushing = s.flushing /\ t.ceReady = s.ceReady /\ t.elements = s.elements BY <1>1 DEF SameBut, Fields
<1>5. Last(s.stack).kind # "flush" BY DEF Prepares
<1>6. StackKept(t) BY <1>0, <1>1, <1>4, <1>5, StackReturned
<1>7. InitsKept(t) BY <1>0, <1>1, <1>4, InitsBelow
<1> QED BY <1>1, <1>3, <1>6, <1>7 DEF QueueKeeps, t

\* After ready is called, the call that flushes is on the stack.
LEMMA ReadyKeeps ==
  ASSUME NEW s, NEW raf, NEW ids, QueueKeeps(s), s.waitToReady => ids # {}
  PROVE  /\ Kept(ready(s), raf, ids) /\ SameBut(ready(s), s, {"ceReady", "flushing", "stack"})
         /\ ready(s).stack # <<>> /\ Last(ready(s).stack).kind \in {"flush", "upgrade"}
<1> DEFINE t == ready(s)
           f == [kind |-> IF s.flushing THEN "upgrade" ELSE "flush", was |-> s.ceReady]
<1>0. s \in QueueStates /\ LineKept(s) /\ BasesKept(s) /\ SetsKept(s) /\ StackKept(s) /\ InitsKept(s)
  BY DEF QueueKeeps
<1>1. /\ t \in QueueStates
      /\ SameBut(t, s, {"ceReady", "flushing", "stack"})
      /\ t.stack = Append(s.stack, f)
  BY <1>0, ReadyIs
<1>2. StackKept(t) BY <1>0, StackReady
<1>3. f \in Frames /\ f.kind \in {"flush", "upgrade"} /\ f.kind # "init" /\ (~ s.flushing => f.kind = "flush")
  <2>1. s.ceReady \in BOOLEAN BY <1>0, QueueTypes
  <2> QED BY <2>1 DEF Frames
<1> HIDE DEF f, t
<1>4. Same(t, s, LineFields) /\ Same(t, s, BasesFields) /\ Same(t, s, SetsFields)
  BY <1>1, SameOthers DEF Fields, BasesFields, LineFields, SetsFields
<1>5. LineKept(t) /\ BasesKept(t) /\ SetsKept(t) BY <1>0, <1>4, LineSame, BasesSame, SetsSame
<1>6. t.waitToReady = s.waitToReady /\ t.elements = s.elements BY <1>1 DEF SameBut, Fields
<1>7. InitsKept(t) BY <1>0, <1>1, <1>3, <1>6, InitsAppended
<1>8. Some(t.stack, {"check", "flush"})
  <2>1. s.flushing => Some(s.stack, {"check", "flush"}) BY <1>0 DEF StackKept, Some
  <2> QED BY <1>0, <1>1, <1>3, <2>1, ChecksOnStack
<1>9. Some(t.stack, {"check", "flush", "upgrade", "callbacks"}) BY <1>8 DEF Some
<1>10. GoesOn(t, raf, ids) BY <1>6, <1>8, <1>9 DEF GoesOn
<1>11. t.stack # <<>> /\ Last(t.stack) = f BY <1>0, <1>1, <1>3, TopAppended
<1> QED BY <1>1, <1>2, <1>3, <1>5, <1>7, <1>10, <1>11 DEF Kept, QueueKeeps, t

\* What holds between two steps of the queue.
QueueStands(s, raf, ids) == Kept(s, raf, ids) /\ Found(s) /\ HeadLacks(s, ids)

\* What the other variables are: until the imports are there, polymer-ready is waited for.
OthersFit ==
    /\ readying \subseteq 1 .. MaxWhenReady /\ rafs \in BOOLEAN /\ importsReady \in BOOLEAN
    /\ ~ importsReady => 1 \in readying

\* The inductive invariant of the queue.
QueueInv == QueueStands(pq, rafs, readying) /\ OthersFit

\* Its parts.
LEMMA QueueParts ==
  ASSUME NEW s, NEW raf, NEW ids, QueueStands(s, raf, ids)
  PROVE  /\ s \in QueueStates /\ LineKept(s) /\ BasesKept(s) /\ SetsKept(s) /\ StackKept(s) /\ InitsKept(s)
         /\ QueueKeeps(s) /\ GoesOn(s, raf, ids) /\ Found(s) /\ HeadLacks(s, ids)
         /\ s.waitToReady => ids # {}
BY DEF QueueStands, Kept, QueueKeeps, GoesOn

\* Every step keeps the invariant.
LEMMA CheckReturnsKeeps ==
  ASSUME QueueInv, CheckReturns
  PROVE  QueueInv'
<1> DEFINE r == Returned(pq)
           t == ready(r)
<1>0. /\ pq \in QueueStates /\ QueueKeeps(pq) /\ GoesOn(pq, rafs, readying) /\ Found(pq) /\ HeadLacks(pq, readying)
      /\ pq.waitToReady => readying # {}
      /\ OthersFit
  BY QueueParts DEF QueueInv
<1>1. pq.stack # <<>> /\ Last(pq.stack).kind = "check" /\ pq' = (IF canReady(pq) THEN t ELSE r)
      /\ readying' = readying /\ importsReady' = importsReady /\ rafs' = rafs
  BY DEF CheckReturns
<1>2. ~ Prepares(Last(pq.stack)) BY <1>1 DEF Prepares
<1>3. QueueKeeps(r) /\ SameBut(r, pq, {"stack"}) BY <1>0, <1>1, <1>2, ReturnKeeps
<1>4. AllFound(pq) BY <1>0, <1>1, NoneFresh
<1> HIDE DEF r
<1>5. /\ r.waitToReady = pq.waitToReady /\ r.elements = pq.elements /\ r.flushable = pq.flushable
  BY <1>3 DEF SameBut, Fields
<1>6. canReady(r) <=> canReady(pq) BY <1>5 DEF canReady, isEmpty
<1>7. Same(r, pq, {"elements", "queued", "clients"}) /\ Same(r, pq, HeadFields)
  BY <1>3, SameOthers DEF Fields, HeadFields
<1>8. Found(r) /\ AllFound(r) /\ HeadLacks(r, readying) BY <1>0, <1>4, <1>7, FoundSame, AllFoundIsFound, HeadSame
<1>9. CASE canReady(pq)
  <2>1. Kept(t, rafs, readying) /\ SameBut(t, r, {"ceReady", "flushing", "stack"}) BY <1>0, <1>3, <1>5, ReadyKeeps
  <2> HIDE DEF t
  <2>2. Same(t, r, {"elements", "queued", "clients"}) /\ Same(t, r, HeadFields)
    BY <2>1, SameOthers DEF Fields, HeadFields
  <2>3. Found(t) /\ HeadLacks(t, readying) BY <1>8, <2>2, FoundSame, AllFoundIsFound, HeadSame
  <2> QED BY <1>0, <1>1, <1>9, <2>1, <2>3 DEF QueueInv, QueueStands, OthersFit
<1>10. CASE ~ canReady(pq)
  <2>1. GoesOn(r, rafs, readying) BY <1>0, <1>5, <1>6, <1>10 DEF GoesOn
  <2>2. QueueStands(r, rafs, readying) BY <1>3, <1>8, <2>1 DEF QueueStands, Kept
  <2> HIDE DEF t
  <2> QED BY <1>0, <1>1, <1>10, <2>2 DEF QueueInv, OthersFit
<1> QED BY <1>9, <1>10

\* Where a step ends with definitions being asked, all is as it should be.
LEMMA AskingKeeps ==
  ASSUME NEW x, NEW ids, Asking(x, rafs, ids), OthersFit, importsReady => ids \subseteq 1 .. MaxWhenReady,
         ~ importsReady => ids = readying,
         pq' = AllAsked(x), readying' = ids, UNCHANGED <<importsReady, rafs>>
  PROVE  QueueInv'
<1>1. ~ importsReady => 1 \in ids BY DEF OthersFit
<1> DEFINE s == AllAsked(x)
<1>2. /\ Kept(s, rafs, ids) /\ HeadLacks(s, ids)
      /\ \A d \in ToSet(s.elements) : d \in ToSet(s.queued) \cup s.clients
  BY <1>1, AllAskedIs
<1> HIDE DEF s
<1>3. Found(s) BY <1>2 DEF Found
<1>4. pq' = s BY DEF s
<1> QED BY <1>2, <1>3, <1>4 DEF QueueInv, QueueStands, OthersFit

\* A definition is asked to register that is there.
LEMMA RegisterKeeps ==
  ASSUME NEW s, Kept(s, rafs, readying), OthersFit, NEW d \in Definitions, d \in ToSet(s.elements),
         HeadLacks(s, readying) \/ Turn(s, d),
         \A e \in ToSet(s.elements) : e \in ToSet(s.queued) \cup s.clients \/ e = d,
         pq' = registerWhenReady(s, d), UNCHANGED <<readying, importsReady, rafs>>
  PROVE  QueueInv'
<1> DEFINE x == Asks(s, d)
<1>1. Asking(x, rafs, readying) BY AsksIs
<1>2. pq' = AllAsked(x) BY DEF registerWhenReady
<1> HIDE DEF x
<1>3. (importsReady => readying \subseteq 1 .. MaxWhenReady) /\ readying' = readying /\ UNCHANGED <<importsReady, rafs>>
  BY DEF OthersFit
<1> QED BY <1>1, <1>2, <1>3, AskingKeeps

LEMMA InitReturnsKeeps ==
  ASSUME QueueInv, InitReturns
  PROVE  QueueInv'
<1> DEFINE r == Returned(pq)
           d == Last(pq.stack).definition
<1>0. /\ pq \in QueueStates /\ QueueKeeps(pq) /\ GoesOn(pq, rafs, readying) /\ Found(pq) /\ HeadLacks(pq, readying)
      /\ pq.waitToReady => readying # {}
      /\ InitsKept(pq) /\ OthersFit
  BY QueueParts DEF QueueInv
<1>1. pq.stack # <<>> /\ Last(pq.stack).kind = "init" /\ pq' = registerWhenReady(r, d)
      /\ UNCHANGED <<readying, importsReady, rafs>>
  BY DEF InitReturns
<1>2. ~ Prepares(Last(pq.stack)) BY <1>1 DEF Prepares
<1>3. QueueKeeps(r) /\ SameBut(r, pq, {"stack"}) /\ r.stack = Front(pq.stack) BY <1>0, <1>1, <1>2, ReturnKeeps
<1>4. d \in ToSet(pq.elements) BY <1>0, <1>1, InitsBelow
<1>5. d \in Definitions
  <2>1. pq.elements \in Seq(Definitions) BY <1>0, QueueTypes
  <2> HIDE DEF d
  <2> QED BY <1>4, <2>1 DEF ToSet
<1>6. \A e \in ToSet(pq.elements) : e \in ToSet(pq.queued) \cup pq.clients \/ e = d
  BY <1>0 DEF Found, Fresh
<1> HIDE DEF r, d
<1>7. /\ r.waitToReady = pq.waitToReady /\ r.elements = pq.elements /\ r.flushable = pq.flushable
      /\ r.queued = pq.queued /\ r.clients = pq.clients /\ r.flushQueue = pq.flushQueue /\ r.callbacks = pq.callbacks
  BY <1>3 DEF SameBut, Fields
<1>8. canReady(r) <=> canReady(pq) BY <1>7 DEF canReady, isEmpty
<1>9. Same(r, pq, HeadFields) BY <1>3, SameOthers DEF Fields, HeadFields
<1>10. HeadLacks(r, readying) BY <1>0, <1>9, HeadSame
<1>11. GoesOn(r, rafs, readying)
  <2>1. /\ Some(r.stack, {"check", "flush"}) <=> Some(pq.stack, {"check", "flush"})
        /\ Some(r.stack, {"check", "flush", "upgrade", "callbacks"})
               <=> Some(pq.stack, {"check", "flush", "upgrade", "callbacks"})
    BY <1>0, <1>1, <1>3, TopAndBelow
  <2> QED BY <1>0, <1>7, <1>8, <2>1 DEF GoesOn
<1>12. Kept(r, rafs, readying) BY <1>3, <1>11 DEF Kept
<1> QED BY <1>0, <1>1, <1>4, <1>5, <1>6, <1>7, <1>10, <1>12, RegisterKeeps

LEMMA FlushNextKeeps ==
  ASSUME QueueInv, FlushNext
  PROVE  QueueInv'
<1> DEFINE t == Flushed(pq)
           d == Head(pq.flushQueue)
<1>0. /\ pq \in QueueStates /\ LineKept(pq) /\ BasesKept(pq) /\ SetsKept(pq) /\ StackKept(pq) /\ InitsKept(pq)
      /\ GoesOn(pq, rafs, readying) /\ Found(pq) /\ HeadLacks(pq, readying)
      /\ OthersFit
  BY QueueParts DEF QueueInv
<1>1. pq.stack # <<>> /\ Last(pq.stack).kind = "flush" /\ pq.flushQueue # <<>> /\ pq' = t
      /\ UNCHANGED <<readying, importsReady, rafs>>
  BY DEF FlushNext, Flushed
<1>2. /\ t \in QueueStates
      /\ SameBut(t, pq, {"flushQueue", "registered", "bases", "base"})
      /\ t.flushQueue = Tail(pq.flushQueue) /\ t.registered = Append(pq.registered, d)
  BY <1>0, <1>1, FlushedIs
<1>3. LineKept(t) /\ BasesKept(t) BY <1>0, <1>1, LineFlushed, BasesFlushed
<1> HIDE DEF t
<1>4. /\ Same(t, pq, StackFields) /\ Same(t, pq, InitsFields) /\ Same(t, pq, HeadFields)
      /\ Same(t, pq, {"elements", "queued", "clients"})
  BY <1>2, SameOthers DEF Fields, StackFields, InitsFields, HeadFields
<1>5. StackKept(t) /\ InitsKept(t) /\ HeadLacks(t, readying) BY <1>0, <1>4, StackSame, InitsSame, HeadSame
<1>6. Found(t) BY <1>0, <1>1, <1>4, NoneFresh, FoundSame, AllFoundIsFound
<1>7. /\ t.flushable = pq.flushable /\ t.queued = pq.queued /\ t.elements = pq.elements /\ t.needs = pq.needs
      /\ t.prototypes = pq.prototypes /\ t.clients = pq.clients /\ t.stack = pq.stack /\ t.waitToReady = pq.waitToReady
  BY <1>2 DEF SameBut, Fields
<1>8. SetsKept(t)
  <2>1. pq.registered \in Seq(Definitions) /\ pq.flushQueue \in Seq(Definitions) BY <1>0, QueueTypes
  <2>2. ToSet(pq.flushQueue) = {d} \cup ToSet(t.flushQueue) BY <1>1, <1>2, <2>1, HeadAndTail
  <2>3. ToSet(t.registered) = ToSet(pq.registered) \cup {d} BY <1>2, <2>1, AppendElements
  <2> HIDE DEF d
  <2> QED BY <1>0, <1>7, <2>2, <2>3 DEF SetsKept
<1>9. GoesOn(t, rafs, readying)
  <2>1. Some(pq.stack, {"check", "flush"}) /\ Some(pq.stack, {"check", "flush", "upgrade", "callbacks"})
    BY <1>0, <1>1, TopAndBelow
  <2> QED BY <1>0, <1>7, <2>1 DEF GoesOn
<1> QED BY <1>0, <1>1, <1>2, <1>3, <1>5, <1>6, <1>8, <1>9 DEF QueueInv, QueueStands, Kept, QueueKeeps, OthersFit

LEMMA FlushEndsKeeps ==
  ASSUME QueueInv, FlushEnds
  PROVE  QueueInv'
<1> DEFINE n == Len(pq.stack)
           v == [pq.stack EXCEPT ![n].kind = "upgrade"]
           f == [pq.stack[n] EXCEPT !.kind = "upgrade"]
<1>0. /\ pq \in QueueStates /\ LineKept(pq) /\ BasesKept(pq) /\ SetsKept(pq) /\ StackKept(pq) /\ InitsKept(pq)
      /\ GoesOn(pq, rafs, readying) /\ Found(pq) /\ HeadLacks(pq, readying)
      /\ OthersFit
  BY QueueParts DEF QueueInv
<1>1. pq.stack # <<>> /\ Last(pq.stack).kind = "flush" /\ pq.flushQueue = <<>>
      /\ pq' = [pq EXCEPT !.flushing = FALSE, !.stack = v]
      /\ UNCHANGED <<readying, importsReady, rafs>>
  BY DEF FlushEnds
<1>2. pq.stack \in Seq(Frames) BY <1>0, QueueTypes
<1>3. n \in Nat \ {0} /\ pq.stack \in [1 .. n -> Frames] /\ pq.stack[n] = Last(pq.stack) /\ n \in 1 .. n
  BY <1>1, <1>2 DEF Last
<1>4. f \in Frames /\ f.kind = "upgrade"
  <2>1. pq.stack[n] \in Frames /\ pq.stack[n].kind = "flush" BY <1>1, <1>3
  <2>2. PICK was \in BOOLEAN : pq.stack[n] = [kind |-> "flush", was |-> was] BY <2>1 DEF Frames
  <2> QED BY <2>2 DEF Frames
<1>5. v \in [1 .. n -> Frames] /\ v[n] = f /\ \A i \in 1 .. n : i # n => v[i] = pq.stack[i]
  <2> DEFINE stack == pq.stack
  <2>1. stack \in [1 .. n -> Frames] /\ n \in 1 .. n /\ f = [stack[n] EXCEPT !.kind = "upgrade"] BY <1>3
  <2>2. v = [stack EXCEPT ![n] = f] BY <2>1
  <2> HIDE DEF stack, n, f, v
  <2>3. v \in [1 .. n -> Frames] /\ v[n] = f /\ \A i \in 1 .. n : i # n => v[i] = stack[i] BY <1>4, <2>1, <2>2
  <2> QED BY <2>3 DEF stack
<1>6. v \in Seq(Frames) /\ Len(v) = n
  <2> HIDE DEF n, v
  <2> QED BY <1>3, <1>5
<1>v. v = [pq.stack EXCEPT ![Len(pq.stack)].kind = "upgrade"] OBVIOUS
<1> HIDE DEF v, f, n
<1> DEFINE t == [pq EXCEPT !.flushing = FALSE, !.stack = v]
<1>7. SameBut(t, pq, {"flushing", "stack"}) /\ t.flushing = FALSE /\ t.stack = v
  BY <1>0 DEF SameBut, Fields, QueueStates
<1>8. t \in QueueStates BY <1>0, <1>6, Zenon DEF QueueStates
<1>9. pq' = t BY <1>1
<1> HIDE DEF t
<1>10. /\ Same(t, pq, LineFields) /\ Same(t, pq, BasesFields) /\ Same(t, pq, SetsFields)  /\ Same(t, pq, HeadFields)
       /\ Same(t, pq, {"elements", "queued", "clients"})
  BY <1>7, SameOthers DEF Fields, BasesFields, LineFields, SetsFields, HeadFields
<1>11. LineKept(t) /\ BasesKept(t) /\ SetsKept(t) /\ HeadLacks(t, readying)
  BY <1>0, <1>10, LineSame, BasesSame, SetsSame, HeadSame
<1>12. Found(t) BY <1>0, <1>1, <1>10, NoneFresh, FoundSame, AllFoundIsFound
<1>13. t.ceReady = pq.ceReady /\ t.elements = pq.elements /\ t.flushQueue = <<>> /\ t.waitToReady = pq.waitToReady
  BY <1>1, <1>7 DEF SameBut, Fields
<1>14. StackKept(t) BY <1>0, <1>1, <1>7, <1>8, <1>13, <1>v, StackFlushed
<1>15. InitsKept(t)
  <2>1. \A i \in 1 .. n : pq.stack[i].kind = "init" => pq.stack[i].definition \in ToSet(pq.elements)
    BY <1>0 DEF InitsKept, n
  <2>2. \A i \in 1 .. n : v[i].kind = "init" => v[i].definition \in ToSet(pq.elements) BY <1>4, <1>5, <2>1
  <2> QED BY <1>6, <1>7, <1>13, <2>2 DEF InitsKept
<1>16. GoesOn(t, rafs, readying)
  <2>1. Some(t.stack, {"check", "flush", "upgrade", "callbacks"}) BY <1>3, <1>4, <1>5, <1>6, <1>7 DEF Some
  <2> QED BY <1>0, <1>13, <2>1 DEF GoesOn
<1> QED BY <1>0, <1>1, <1>8, <1>9, <1>11, <1>12, <1>14, <1>15, <1>16 DEF QueueInv, QueueStands, Kept, QueueKeeps, OthersFit

LEMMA ReadyEndsKeeps ==
  ASSUME QueueInv, ReadyEnds
  PROVE  QueueInv'
<1> DEFINE r == Returned(pq)
           was == Last(pq.stack).was
<1>0. /\ pq \in QueueStates /\ LineKept(pq) /\ BasesKept(pq) /\ SetsKept(pq) /\ StackKept(pq) /\ InitsKept(pq)
      /\ GoesOn(pq, rafs, readying) /\ Found(pq) /\ HeadLacks(pq, readying)
      /\ OthersFit
  BY QueueParts DEF QueueInv
<1>1. pq.stack # <<>> /\ Last(pq.stack).kind = "upgrade" /\ pq' = [r EXCEPT !.ceReady = was]
      /\ rafs' = TRUE /\ UNCHANGED <<readying, importsReady>>
  BY DEF ReadyEnds
<1>2. r \in QueueStates /\ SameBut(r, pq, {"stack"}) /\ r.stack = Front(pq.stack) BY <1>0, <1>1, ReturnedIs
<1>3. was \in BOOLEAN
  <2>1. Last(pq.stack) \in Frames BY <1>0, <1>1, TopAndBelow
  <2> QED BY <1>1, <2>1 DEF Frames
<1>p. Prepares(Last(pq.stack)) /\ Last(pq.stack).kind # "flush" BY <1>1 DEF Prepares
<1>w. was = Last(pq.stack).was OBVIOUS
<1> HIDE DEF r, was
<1> DEFINE t == [r EXCEPT !.ceReady = was]
<1>4. SameBut(t, r, {"ceReady"}) /\ t.ceReady = was BY <1>2 DEF SameBut, Fields, QueueStates
<1>5. t \in QueueStates BY <1>2, <1>3, Zenon DEF QueueStates
<1>6. pq' = t BY <1>1
<1> HIDE DEF t
<1>7. SameBut(t, pq, {"ceReady", "stack"}) /\ t.stack = Front(pq.stack) BY <1>2, <1>4 DEF SameBut, Fields
<1>8. /\ Same(t, pq, LineFields) /\ Same(t, pq, BasesFields) /\ Same(t, pq, SetsFields)  /\ Same(t, pq, HeadFields)
      /\ Same(t, pq, {"elements", "queued", "clients"})
  BY <1>7, SameOthers DEF Fields, BasesFields, LineFields, SetsFields, HeadFields
<1>9. LineKept(t) /\ BasesKept(t) /\ SetsKept(t) /\ HeadLacks(t, readying)
  BY <1>0, <1>8, LineSame, BasesSame, SetsSame, HeadSame
<1>10. Found(t) BY <1>0, <1>1, <1>8, NoneFresh, FoundSame, AllFoundIsFound
<1>11. /\ t.flushing = pq.flushing /\ t.elements = pq.elements /\ t.flushQueue = pq.flushQueue
       /\ t.waitToReady = pq.waitToReady /\ t.flushable = pq.flushable
  BY <1>7 DEF SameBut, Fields
<1>12. t.ceReady = IF Prepares(Last(pq.stack)) THEN Last(pq.stack).was ELSE pq.ceReady BY <1>4, <1>p, <1>w
<1>13. StackKept(t) BY <1>0, <1>1, <1>5, <1>7, <1>11, <1>12, <1>p, StackReturned
<1>14. InitsKept(t) BY <1>0, <1>1, <1>7, <1>11, InitsBelow
<1>15. GoesOn(t, TRUE, readying)
  <2>1. Some(t.stack, {"check", "flush"}) <=> Some(pq.stack, {"check", "flush"})
    BY <1>0, <1>1, <1>7, TopAndBelow
  <2>2. canReady(t) <=> canReady(pq) BY <1>11 DEF canReady, isEmpty
  <2> QED BY <1>0, <1>11, <2>1, <2>2 DEF GoesOn
<1>16. rafs' = TRUE /\ readying' = readying BY <1>1
<1> QED BY <1>0, <1>1, <1>5, <1>6, <1>9, <1>10, <1>13, <1>14, <1>15, <1>16 DEF QueueInv, QueueStands, Kept, QueueKeeps, OthersFit

LEMMA FlushReadyCallbacksKeeps ==
  ASSUME QueueInv, FlushReadyCallbacks
  PROVE  QueueInv'
<1> DEFINE f == [kind |-> "callbacks"]
           t == Called(pq, f)
<1>0. /\ pq \in QueueStates /\ LineKept(pq) /\ BasesKept(pq) /\ SetsKept(pq) /\ StackKept(pq) /\ InitsKept(pq)
      /\ GoesOn(pq, rafs, readying) /\ Found(pq) /\ HeadLacks(pq, readying)
      /\ OthersFit
  BY QueueParts DEF QueueInv
<1>1. pq.stack = <<>> /\ pq' = t /\ rafs' = FALSE /\ UNCHANGED <<readying, importsReady>>
  BY DEF FlushReadyCallbacks
<1>2. f \in Frames /\ f.kind = "callbacks" /\ ~ Prepares(f) BY DEF Frames, Prepares
<1> HIDE DEF f
<1>3. t \in QueueStates /\ SameBut(t, pq, {"stack"}) /\ t.stack = Append(pq.stack, f) BY <1>0, <1>2, CalledIs
<1> HIDE DEF t
<1>4. /\ Same(t, pq, LineFields) /\ Same(t, pq, BasesFields) /\ Same(t, pq, SetsFields)  /\ Same(t, pq, HeadFields)
      /\ Same(t, pq, {"elements", "queued", "clients"})
  BY <1>3, SameOthers DEF Fields, BasesFields, LineFields, SetsFields, HeadFields
<1>5. LineKept(t) /\ BasesKept(t) /\ SetsKept(t) /\ HeadLacks(t, readying)
  BY <1>0, <1>4, LineSame, BasesSame, SetsSame, HeadSame
<1>6. Found(t) BY <1>0, <1>1, <1>4, NoneFresh, FoundSame, AllFoundIsFound
<1>7. /\ t.flushing = pq.flushing /\ t.ceReady = pq.ceReady /\ t.elements = pq.elements /\ t.flushQueue = pq.flushQueue
       /\ t.waitToReady = pq.waitToReady /\ t.flushable = pq.flushable
  BY <1>3 DEF SameBut, Fields
<1>8. StackKept(t) BY <1>0, <1>2, <1>3, <1>7, StackCalled
<1>9. InitsKept(t) BY <1>0, <1>2, <1>3, <1>7, InitsAppended
<1>10. GoesOn(t, FALSE, readying)
  <2>1. Some(t.stack, {"check", "flush"}) <=> Some(pq.stack, {"check", "flush"})
    <3>1. f.kind \notin {"check", "flush"} BY <1>2
    <3>2. \A kinds : Some(Append(pq.stack, f), kinds) <=> f.kind \in kinds \/ Some(pq.stack, kinds)
      BY ONLY <1>0, <1>2, ChecksOnStack
    <3> QED BY <1>3, <3>1, <3>2
  <2>3. Some(t.stack, {"check", "flush", "upgrade", "callbacks"}) BY <1>0, <1>2, <1>3, ChecksOnStack
  <2>2. canReady(t) <=> canReady(pq) BY <1>7 DEF canReady, isEmpty
  <2> QED BY <1>0, <1>7, <2>1, <2>2, <2>3 DEF GoesOn
<1> QED BY <1>0, <1>1, <1>3, <1>5, <1>6, <1>8, <1>9, <1>10 DEF QueueInv, QueueStands, Kept, QueueKeeps, OthersFit

LEMMA NextCallbackKeeps ==
  ASSUME QueueInv, NextCallback
  PROVE  QueueInv'
<1>0. /\ pq \in QueueStates /\ QueueKeeps(pq)
      /\ LineKept(pq) /\ BasesKept(pq) /\ SetsKept(pq) /\ StackKept(pq) /\ InitsKept(pq)
      /\ GoesOn(pq, rafs, readying) /\ Found(pq) /\ HeadLacks(pq, readying)
      /\ OthersFit
  BY QueueParts DEF QueueInv
<1>1. pq.stack # <<>> /\ Last(pq.stack).kind = "callbacks" /\ UNCHANGED <<readying, importsReady, rafs>>
  BY DEF NextCallback
<1>2. AllFound(pq) BY <1>0, <1>1, NoneFresh
<1>3. CASE pq.callbacks = <<>>
  <2> DEFINE t == Returned(pq)
  <2>1. pq' = t BY <1>3 DEF NextCallback
  <2>2. ~ Prepares(Last(pq.stack)) BY <1>1 DEF Prepares
  <2>3. QueueKeeps(t) /\ SameBut(t, pq, {"stack"}) /\ t.stack = Front(pq.stack) BY <1>0, <1>1, <2>2, ReturnKeeps
  <2> HIDE DEF t
  <2>4. Same(t, pq, HeadFields) /\ Same(t, pq, {"elements", "queued", "clients"})
    BY <2>3, SameOthers DEF Fields, HeadFields
  <2>5. HeadLacks(t, readying) /\ Found(t) BY <1>0, <1>2, <2>4, HeadSame, FoundSame, AllFoundIsFound
  <2>6. /\ t.elements = pq.elements /\ t.flushQueue = pq.flushQueue /\ t.callbacks = <<>>
        /\ t.waitToReady = pq.waitToReady /\ t.flushable = pq.flushable
    BY <1>3, <2>3 DEF SameBut, Fields
  <2>7. GoesOn(t, rafs, readying)
    <3>1. Some(t.stack, {"check", "flush"}) <=> Some(pq.stack, {"check", "flush"})
      BY <1>0, <1>1, <2>3, TopAndBelow
    <3>2. canReady(t) <=> canReady(pq) BY <2>6 DEF canReady, isEmpty
    <3> QED BY <1>0, <2>6, <3>1, <3>2 DEF GoesOn
  <2> QED BY <1>0, <1>1, <2>1, <2>3, <2>5, <2>7 DEF QueueInv, QueueStands, Kept, OthersFit
<1>4. CASE pq.callbacks # <<>>
  <2> DEFINE v == Tail(pq.callbacks)
  <2>1. v \in Seq(1 .. MaxWhenReady)
    <3>1. pq.callbacks \in Seq(1 .. MaxWhenReady) BY <1>0, QueueTypes
    <3> QED BY <1>4, <3>1, HeadAndTail
  <2>2. pq' = [pq EXCEPT !.callbacks = v] BY <1>4 DEF NextCallback
  <2> HIDE DEF v
  <2> DEFINE t == [pq EXCEPT !.callbacks = v]
  <2>3. SameBut(t, pq, {"callbacks"}) BY <1>0 DEF SameBut, Fields, QueueStates
  <2>4. t \in QueueStates BY <1>0, <2>1, Zenon DEF QueueStates
  <2> HIDE DEF t
  <2>5. /\ Same(t, pq, LineFields) /\ Same(t, pq, BasesFields) /\ Same(t, pq, SetsFields)  /\ Same(t, pq, HeadFields)
        /\ Same(t, pq, {"elements", "queued", "clients"}) /\ Same(t, pq, StackFields) /\ Same(t, pq, InitsFields)
    BY <2>3, SameOthers DEF Fields, BasesFields, LineFields, SetsFields, HeadFields, StackFields, InitsFields
  <2>6. /\ LineKept(t) /\ BasesKept(t) /\ SetsKept(t) /\ HeadLacks(t, readying) /\ StackKept(t) /\ InitsKept(t)
        /\ Found(t)
    BY <1>0, <1>2, <2>5, LineSame, BasesSame, SetsSame, HeadSame, StackSame, InitsSame, FoundSame, AllFoundIsFound
  <2>7. /\ t.elements = pq.elements /\ t.flushQueue = pq.flushQueue
        /\ t.waitToReady = pq.waitToReady /\ t.flushable = pq.flushable /\ t.stack = pq.stack
    BY <2>3 DEF SameBut, Fields
  <2>8. GoesOn(t, rafs, readying)
    <3>1. Some(pq.stack, {"check", "flush", "upgrade", "callbacks"}) BY <1>0, <1>1, TopAndBelow
    <3>2. canReady(t) <=> canReady(pq) BY <2>7 DEF canReady, isEmpty
    <3> QED BY <1>0, <2>7, <3>1, <3>2 DEF GoesOn
  <2>9. pq' = t BY <2>2 DEF t
  <2> QED BY <1>0, <1>1, <2>4, <2>6, <2>8, <2>9 DEF QueueInv, QueueStands, Kept, QueueKeeps, OthersFit
<1> QED BY <1>3, <1>4

LEMMA ForceReadyKeeps ==
  ASSUME QueueInv, forceReady
  PROVE  QueueInv'
<1> DEFINE t == ready(pq)
<1>0. /\ QueueKeeps(pq) /\ Found(pq) /\ HeadLacks(pq, readying)
      /\ pq.waitToReady => readying # {}
  BY QueueParts DEF QueueInv
<1>o. OthersFit BY DEF QueueInv
<1>1. PageRuns /\ pq' = t /\ UNCHANGED <<readying, importsReady, rafs>> BY DEF forceReady
<1>2. AllFound(pq) BY <1>0, <1>1, NoneFresh DEF PageRuns
<1>3. Kept(t, rafs, readying) /\ SameBut(t, pq, {"ceReady", "flushing", "stack"}) BY <1>0, ReadyKeeps
<1> HIDE DEF t
<1>4. Same(t, pq, HeadFields) /\ Same(t, pq, {"elements", "queued", "clients"})
  BY <1>3, SameOthers DEF Fields, HeadFields
<1>5. HeadLacks(t, readying) /\ Found(t) BY <1>0, <1>2, <1>4, HeadSame, FoundSame, AllFoundIsFound
<1> QED BY <1>o, <1>1, <1>3, <1>5 DEF QueueInv, QueueStands, OthersFit

LEMMA BecomeReadyKeeps ==
  ASSUME QueueInv, BecomeReady
  PROVE  QueueInv'
BY DEF QueueInv, BecomeReady, OthersFit, QueueStands, Kept, QueueKeeps, HeadLacks

\* All were found but one, who is asked next.
AllFoundBut(s, d) == \A e \in ToSet(s.elements) : e \in ToSet(s.queued) \cup s.clients \/ e = d

\* A new definition, with or without stylesheets to wait for.
LEMMA MadeKeeps ==
  ASSUME NEW s, NEW raf, NEW ids, QueueStands(s, raf, ids), AllFound(s), NEW d \in Definitions, d \notin ToSet(s.elements),
         NEW N, s.needs \subseteq N, N \subseteq s.needs \cup {d}
  PROVE  LET m == [s EXCEPT !.elements = Append(@, d), !.needs = N,
                            !.stack = Append(@, [kind |-> "init", definition |-> d])]
         IN  /\ Kept(m, raf, ids) /\ HeadLacks(m, ids) /\ Found(m) /\ d \in ToSet(m.elements)
             /\ AllFoundBut(m, d)
<1> DEFINE f == [kind |-> "init", definition |-> d]
           l == Append(s.elements, d)
           v == Append(s.stack, f)
<1>0. /\ s \in QueueStates /\ LineKept(s) /\ BasesKept(s) /\ SetsKept(s) /\ StackKept(s) /\ InitsKept(s)
      /\ HeadLacks(s, ids)
      /\ s.waitToReady => ids # {}
  BY QueueParts
<1>1. s.elements \in Seq(Definitions) /\ s.needs \subseteq Definitions /\ s.stack \in Seq(Frames) BY <1>0, QueueTypes
<1>2. f \in Frames /\ f.kind = "init" /\ f.definition = d /\ ~ Prepares(f) BY DEF Frames, Prepares
<1> HIDE DEF f
<1>3. l \in Seq(Definitions) /\ ToSet(l) = ToSet(s.elements) \cup {d} /\ v \in Seq(Frames) /\ N \in SUBSET Definitions
  BY <1>1, <1>2, AppendElements
<1>4. v # <<>> /\ Last(v) = f BY <1>0, <1>2, TopAppended
<1>v. v = Append(s.stack, f) OBVIOUS
<1> HIDE DEF l, v
<1> DEFINE m == [s EXCEPT !.elements = l, !.needs = N, !.stack = v]
<1>5. SameBut(m, s, {"elements", "needs", "stack"}) /\ m.elements = l /\ m.needs = N /\ m.stack = v
  BY <1>0 DEF SameBut, Fields, QueueStates
<1>6. m \in QueueStates BY <1>0, <1>3, Zenon DEF QueueStates
<1>7. m = [s EXCEPT !.elements = Append(@, d), !.needs = N,
                            !.stack = Append(@, [kind |-> "init", definition |-> d])]
  BY DEF l, v, f
<1> HIDE DEF m
<1>8. Same(m, s, LineFields) /\ Same(m, s, BasesFields)
  BY <1>5, SameOthers DEF Fields, BasesFields, LineFields
<1>9. LineKept(m) /\ BasesKept(m) BY <1>0, <1>8, LineSame, BasesSame
<1>10. /\ m.flushable = s.flushable /\ m.registered = s.registered /\ m.flushQueue = s.flushQueue
       /\ m.queued = s.queued /\ m.prototypes = s.prototypes /\ m.clients = s.clients
       /\ m.importQueue = s.importQueue /\ m.mainQueue = s.mainQueue
       /\ m.flushing = s.flushing /\ m.ceReady = s.ceReady /\ m.waitToReady = s.waitToReady
  BY <1>5 DEF SameBut, Fields
<1>11. SetsKept(m) BY <1>0, <1>3, <1>5, <1>10 DEF SetsKept
<1>12. StackKept(m) BY <1>0, <1>2, <1>5, <1>6, <1>10, <1>v, StackCalled
<1>13. InitsKept(m) BY <1>0, <1>2, <1>3, <1>5, <1>v, InitsAppended
<1>14. ~ canReady(m)
  <2>1. s.flushable \subseteq ToSet(s.elements) BY <1>0, Queued DEF SetsKept
  <2> QED BY <1>3, <1>5, <1>10, <2>1 DEF canReady, isEmpty
<1>15. GoesOn(m, raf, ids) BY <1>0, <1>10, <1>14 DEF GoesOn
<1>16. HeadLacks(m, ids)
  <2>1. nextQueued(m) = nextQueued(s) BY <1>10 DEF nextQueued
  <2> QED BY <1>0, <1>5, <1>10, <2>1 DEF HeadLacks
<1>17. Fresh(m, d) BY <1>2, <1>4, <1>5 DEF Fresh
<1>18. \A e \in ToSet(m.elements) : e \in ToSet(m.queued) \cup m.clients \/ e = d
  BY <1>3, <1>5, <1>10 DEF AllFound
<1>19. Found(m) BY <1>17, <1>18 DEF Found
<1>20. Kept(m, raf, ids) BY <1>6, <1>9, <1>11, <1>12, <1>13, <1>15 DEF Kept, QueueKeeps
<1>21. d \in ToSet(m.elements) BY <1>3, <1>5
<1> QED BY <1>7, <1>16, <1>18, <1>19, <1>20, <1>21 DEF AllFoundBut

\* A definition is made.
LEMMA DefinitionKeeps ==
  ASSUME QueueInv, NEW d \in Definitions, CreateDefinition(d)
  PROVE  QueueInv'
<1>0. QueueStands(pq, rafs, readying) /\ OthersFit BY DEF QueueInv
<1>1. pq \in QueueStates /\ SetsKept(pq) /\ Found(pq) BY <1>0, QueueParts
<1>2. PageRuns /\ d \notin ToSet(pq.elements) /\ UNCHANGED <<readying, importsReady, rafs>> BY DEF CreateDefinition
<1>3. AllFound(pq) BY <1>1, <1>2, NoneFresh DEF PageRuns
<1>4. CASE d \in Styled
  <2> DEFINE N == pq.needs \cup {d}
             m == [pq EXCEPT !.elements = Append(@, d), !.needs = N,
                             !.stack = Append(@, [kind |-> "init", definition |-> d])]
  <2>1. pq' = m BY <1>4 DEF CreateDefinition
  <2>2. pq.needs \subseteq N /\ N \subseteq pq.needs \cup {d} OBVIOUS
  <2> HIDE DEF N
  <2>3. Kept(m, rafs, readying) /\ HeadLacks(m, readying) /\ Found(m) BY <1>0, <1>2, <1>3, <2>2, MadeKeeps
  <2> HIDE DEF m
  <2> QED BY <1>0, <1>2, <2>1, <2>3 DEF QueueInv, QueueStands, OthersFit
<1>5. CASE d \notin Styled
  <2> DEFINE N == pq.needs
             made == [pq EXCEPT !.elements = Append(@, d), !.needs = @ \cup {d},
                                !.stack = Append(@, [kind |-> "init", definition |-> d])]
             m == [pq EXCEPT !.elements = Append(@, d), !.needs = N,
                             !.stack = Append(@, [kind |-> "init", definition |-> d])]
  <2>1. pq' = registerWhenReady([made EXCEPT !.needs = @ \ {d}], d) BY <1>5 DEF CreateDefinition
  <2>2. (pq.needs \cup {d}) \ {d} = pq.needs BY <1>1, <1>2 DEF SetsKept
  <2>3. [made EXCEPT !.needs = @ \ {d}] = m
    <3> DEFINE a == Append(pq.elements, d)
               b == pq.needs \cup {d}
               c == Append(pq.stack, [kind |-> "init", definition |-> d])
               g == b \ {d}
    <3>1. made = [pq EXCEPT !.elements = a, !.needs = b, !.stack = c] OBVIOUS
    <3>2. m = [pq EXCEPT !.elements = a, !.needs = g, !.stack = c] BY <2>2
    <3>3. "needs" \in DOMAIN pq BY <1>1 DEF QueueStates
    <3> HIDE DEF a, b, c, made, m
    <3>4. [made EXCEPT !.needs = @ \ {d}] = [pq EXCEPT !.elements = a, !.needs = g, !.stack = c] BY <3>1, <3>3
    <3> QED BY <3>2, <3>4
  <2>4. pq' = registerWhenReady(m, d) BY <2>1, <2>3
  <2>5. pq.needs \subseteq N /\ N \subseteq pq.needs \cup {d} OBVIOUS
  <2> HIDE DEF N, made
  <2>6. /\ Kept(m, rafs, readying) /\ HeadLacks(m, readying) /\ d \in ToSet(m.elements)
        /\ AllFoundBut(m, d)
    BY <1>0, <1>2, <1>3, <2>5, MadeKeeps
  <2> HIDE DEF m
  <2> QED BY <1>0, <1>2, <2>4, <2>6, RegisterKeeps DEF AllFoundBut
<1> QED BY <1>4, <1>5

\* Polymer is called for a name.
LEMMA CallPolymerKeeps ==
  ASSUME QueueInv, NEW d \in Definitions, CallPolymer(d)
  PROVE  QueueInv'
<1> DEFINE p == PolymerCalled(pq, d)
<1>0. /\ pq \in QueueStates /\ LineKept(pq) /\ BasesKept(pq) /\ SetsKept(pq) /\ StackKept(pq) /\ InitsKept(pq)
      /\ GoesOn(pq, rafs, readying) /\ Found(pq) /\ HeadLacks(pq, readying)
      /\ OthersFit
  BY QueueParts DEF QueueInv
<1>1. /\ PageRuns /\ d \notin pq.prototypes /\ UNCHANGED <<readying, importsReady, rafs>>
      /\ pq' = IF d \in pq.clients THEN registerWhenReady(p, d) ELSE p
  BY DEF CallPolymer, element
<1>2. AllFound(pq) BY <1>0, <1>1, NoneFresh DEF PageRuns
<1>3. /\ p \in QueueStates
      /\ SameBut(p, pq, {"prototypes", "clients"})
      /\ p.prototypes = pq.prototypes \cup {d}
      /\ p.clients = pq.clients \ {d}
  BY <1>0, PolymerCalledIs
<1> HIDE DEF p
<1>4. /\ Same(p, pq, LineFields) /\ Same(p, pq, BasesFields) /\ Same(p, pq, StackFields) /\ Same(p, pq, GoesFields)
      /\ Same(p, pq, InitsFields)
  BY <1>3, SameOthers DEF Fields, LineFields, BasesFields, StackFields, GoesFields, InitsFields
<1>5. LineKept(p) /\ BasesKept(p) /\ StackKept(p) /\ GoesOn(p, rafs, readying) /\ InitsKept(p)
  BY <1>0, <1>4, LineSame, BasesSame, StackSame, GoesSame, InitsSame
<1>6. /\ p.flushable = pq.flushable /\ p.registered = pq.registered /\ p.flushQueue = pq.flushQueue
      /\ p.queued = pq.queued /\ p.elements = pq.elements /\ p.needs = pq.needs
      /\ p.importQueue = pq.importQueue /\ p.mainQueue = pq.mainQueue
  BY <1>3 DEF SameBut, Fields
<1>7. SetsKept(p) BY <1>0, <1>3, <1>6 DEF SetsKept
<1>8. HeadLacks(p, readying)
  <2>1. nextQueued(p) = nextQueued(pq) BY <1>6 DEF nextQueued
  <2>2. nextQueued(pq) # <<>> => Head(nextQueued(pq)) \in pq.prototypes BY <1>0, HeadIsQueued
  <2> QED BY <1>0, <1>1, <1>3, <1>6, <2>1, <2>2 DEF HeadLacks
<1>9. Kept(p, rafs, readying) BY <1>3, <1>5, <1>7 DEF Kept, QueueKeeps
<1>10. \A e \in ToSet(p.elements) : e \in ToSet(p.queued) \cup p.clients \/ e = d
  BY <1>2, <1>3, <1>6 DEF AllFound
<1>11. CASE d \in pq.clients
  <2>1. d \in ToSet(p.elements) BY <1>0, <1>6, <1>11 DEF SetsKept
  <2>2. pq' = registerWhenReady(p, d) BY <1>1, <1>11
  <2> QED BY <1>0, <1>1, <1>8, <1>9, <1>10, <2>1, <2>2, RegisterKeeps
<1>12. CASE d \notin pq.clients
  <2>1. Found(p) BY <1>2, <1>3, <1>6, <1>12 DEF Found, AllFound
  <2>2. pq' = p BY <1>1, <1>12
  <2> QED BY <1>0, <1>1, <1>8, <1>9, <2>1, <2>2 DEF QueueInv, QueueStands, OthersFit
<1> QED BY <1>11, <1>12

\* The stylesheets of a definition are there.
LEMMA StylesLoadedKeeps ==
  ASSUME QueueInv, NEW d \in Definitions, StylesLoaded(d)
  PROVE  QueueInv'
<1> DEFINE N == pq.needs \ {d}
           t == [pq EXCEPT !.needs = N]
<1>0. /\ pq \in QueueStates /\ LineKept(pq) /\ BasesKept(pq) /\ SetsKept(pq) /\ StackKept(pq) /\ InitsKept(pq)
      /\ GoesOn(pq, rafs, readying) /\ Found(pq) /\ HeadLacks(pq, readying)
      /\ OthersFit
  BY QueueParts DEF QueueInv
<1>1. /\ pq.stack = <<>> /\ d \in pq.needs /\ UNCHANGED <<readying, importsReady, rafs>>
      /\ pq' = registerWhenReady(t, d)
  BY DEF StylesLoaded
<1>2. N \in SUBSET Definitions
  <2>1. pq.needs \in SUBSET Definitions BY <1>0, QueueTypes
  <2> QED BY <2>1
<1>3. \A e : e # d => (e \in N <=> e \in pq.needs) OBVIOUS
<1>n. N \subseteq pq.needs OBVIOUS
<1> HIDE DEF N
<1>4. SameBut(t, pq, {"needs"}) /\ t.needs = N BY <1>0 DEF SameBut, Fields, QueueStates
<1>5. t \in QueueStates BY <1>0, <1>2, Zenon DEF QueueStates
<1> HIDE DEF t
<1>6. /\ Same(t, pq, LineFields) /\ Same(t, pq, BasesFields) /\ Same(t, pq, StackFields) /\ Same(t, pq, GoesFields)
      /\ Same(t, pq, InitsFields)
  BY <1>4, SameOthers DEF Fields, LineFields, BasesFields, StackFields, GoesFields, InitsFields
<1>7. LineKept(t) /\ BasesKept(t) /\ StackKept(t) /\ GoesOn(t, rafs, readying) /\ InitsKept(t)
  BY <1>0, <1>6, LineSame, BasesSame, StackSame, GoesSame, InitsSame
<1>8. /\ t.flushable = pq.flushable /\ t.registered = pq.registered /\ t.flushQueue = pq.flushQueue
      /\ t.queued = pq.queued /\ t.elements = pq.elements /\ t.prototypes = pq.prototypes /\ t.clients = pq.clients
      /\ t.importQueue = pq.importQueue /\ t.mainQueue = pq.mainQueue
  BY <1>4 DEF SameBut, Fields
<1>9. SetsKept(t) BY <1>0, <1>4, <1>8, <1>n DEF SetsKept
<1>10. HeadLacks(t, readying) \/ Turn(t, d)
  <2>1. nextQueued(t) = nextQueued(pq) BY <1>8 DEF nextQueued
  <2> QED BY <1>0, <1>3, <1>4, <1>8, <2>1 DEF HeadLacks, Turn
<1>11. Kept(t, rafs, readying) BY <1>5, <1>7, <1>9 DEF Kept, QueueKeeps
<1>12. \A e \in ToSet(t.elements) : e \in ToSet(t.queued) \cup t.clients \/ e = d
  <2>1. AllFound(pq) BY <1>0, <1>1, NoneFresh
  <2> QED BY <1>8, <2>1 DEF AllFound
<1>13. d \in ToSet(t.elements) BY <1>0, <1>1, <1>8 DEF SetsKept
<1> QED BY <1>0, <1>1, <1>10, <1>11, <1>12, <1>13, RegisterKeeps

\* whenReady is called, and comes back.
LEMMA WhenReadyKeeps ==
  ASSUME QueueInv, NEW n \in 1 .. MaxWhenReady, whenReady(n)
  PROVE  QueueInv'
<1> DEFINE t == [pq EXCEPT !.waitToReady = TRUE]
           ids == readying \cup {n}
<1>0. /\ pq \in QueueStates /\ LineKept(pq) /\ BasesKept(pq) /\ SetsKept(pq) /\ StackKept(pq) /\ InitsKept(pq)
      /\ Found(pq) /\ HeadLacks(pq, readying)
      /\ OthersFit
  BY QueueParts DEF QueueInv
<1>1. PageRuns /\ readying' = ids /\ pq' = t /\ UNCHANGED <<importsReady, rafs>> BY DEF whenReady
<1>2. AllFound(pq) BY <1>0, <1>1, NoneFresh DEF PageRuns
<1>3. SameBut(t, pq, {"waitToReady"}) /\ t.waitToReady = TRUE BY <1>0 DEF SameBut, Fields, QueueStates
<1>4. t \in QueueStates BY <1>0, Zenon DEF QueueStates
<1> HIDE DEF t
<1>5. /\ Same(t, pq, LineFields) /\ Same(t, pq, BasesFields) /\ Same(t, pq, SetsFields)  /\ Same(t, pq, HeadFields)
      /\ Same(t, pq, {"elements", "queued", "clients"}) /\ Same(t, pq, StackFields) /\ Same(t, pq, InitsFields)
  BY <1>3, SameOthers DEF Fields, BasesFields, LineFields, SetsFields, HeadFields, StackFields, InitsFields
<1>6. /\ LineKept(t) /\ BasesKept(t) /\ SetsKept(t) /\ HeadLacks(t, readying) /\ StackKept(t) /\ InitsKept(t)
      /\ Found(t)
  BY <1>0, <1>2, <1>5, LineSame, BasesSame, SetsSame, HeadSame, StackSame, InitsSame, FoundSame, AllFoundIsFound
<1>7. HeadLacks(t, ids) BY <1>6 DEF HeadLacks
<1>8. GoesOn(t, rafs, ids) BY <1>3 DEF GoesOn, canReady
<1>9. Kept(t, rafs, ids) BY <1>4, <1>6, <1>8 DEF Kept, QueueKeeps
<1>10. ids \subseteq 1 .. MaxWhenReady /\ (1 \in readying => 1 \in ids) BY <1>0 DEF OthersFit
<1> HIDE DEF ids
<1> QED BY <1>0, <1>1, <1>6, <1>7, <1>9, <1>10 DEF QueueInv, QueueStands, OthersFit

LEMMA WhenReadyReturnsKeeps ==
  ASSUME QueueInv, NEW n \in 1 .. MaxWhenReady, WhenReadyReturns(n)
  PROVE  QueueInv'
<1> DEFINE c == Append(pq.callbacks, n)
           t == [pq EXCEPT !.callbacks = c, !.waitToReady = FALSE]
           ids == readying \ {n}
           x == check(t)
<1>0. /\ pq \in QueueStates /\ LineKept(pq) /\ BasesKept(pq) /\ SetsKept(pq) /\ StackKept(pq) /\ InitsKept(pq)
      /\ Found(pq)
      /\ OthersFit
  BY QueueParts DEF QueueInv
<1>1. pq.stack = <<>> /\ importsReady /\ readying' = ids /\ pq' = AllAsked(x) /\ UNCHANGED <<importsReady, rafs>>
  BY DEF WhenReadyReturns
<1>2. AllFound(pq) BY <1>0, <1>1, NoneFresh
<1>3. c \in Seq(1 .. MaxWhenReady)
  <2>1. pq.callbacks \in Seq(1 .. MaxWhenReady) BY <1>0, QueueTypes
  <2> QED BY <2>1
<1> HIDE DEF c
<1>4. SameBut(t, pq, {"callbacks", "waitToReady"}) /\ t.waitToReady = FALSE BY <1>0 DEF SameBut, Fields, QueueStates
<1>5. t \in QueueStates BY <1>0, <1>3, Zenon DEF QueueStates
<1> HIDE DEF t
<1>6. /\ Same(t, pq, LineFields) /\ Same(t, pq, BasesFields) /\ Same(t, pq, SetsFields)
      /\ Same(t, pq, {"elements", "queued", "clients"}) /\ Same(t, pq, StackFields) /\ Same(t, pq, InitsFields)
  BY <1>4, SameOthers DEF Fields, BasesFields, LineFields, SetsFields, StackFields, InitsFields
<1>7. /\ LineKept(t) /\ BasesKept(t) /\ SetsKept(t) /\ StackKept(t) /\ InitsKept(t)
      /\ AllFound(t)
  BY <1>0, <1>2, <1>6, LineSame, BasesSame, SetsSame, StackSame, InitsSame, FoundSame
<1>8. QueueKeeps(t) BY <1>5, <1>7 DEF QueueKeeps
<1>9. Asking(x, rafs, ids) BY <1>4, <1>7, <1>8, CheckAsks DEF AllFound
<1>10. ids \subseteq 1 .. MaxWhenReady BY <1>0 DEF OthersFit
<1> HIDE DEF x, ids
<1> QED BY <1>0, <1>1, <1>9, <1>10, AskingKeeps

\* The queue is empty at first.
LEMMA QueueStarts ==
  ASSUME QueueInit
  PROVE  QueueInv
<1>1. /\ pq.elements = <<>> /\ pq.prototypes = {} /\ pq.clients = {} /\ pq.queued = <<>>
      /\ pq.importQueue = <<>> /\ pq.mainQueue = <<>> /\ pq.flushQueue = <<>> /\ pq.flushable = {}
      /\ pq.needs = {} /\ pq.registered = <<>> /\ pq.waitToReady = TRUE /\ pq.flushing = FALSE
      /\ pq.ceReady = TRUE /\ pq.callbacks = <<>> /\ pq.stack = <<>>
      /\ DOMAIN pq.bases = {} /\ DOMAIN pq.base = {}
      /\ pq.bases = [d \in {} |-> d] /\ pq.base = [d \in {} |-> d]
  BY DEF QueueInit
<1>2. DOMAIN pq = Fields /\ pq = [f \in Fields |-> pq[f]] BY DEF QueueInit, Fields
<1>3. readying = {1} /\ importsReady = FALSE /\ rafs = FALSE BY DEF QueueInit
<1>4. pq \in QueueStates
  <2>1. \A S : <<>> \in Seq(S) OBVIOUS
  <2>2. [d \in {} |-> d] \in [{} -> Bases] OBVIOUS
  <2>3. pq.bases \in NameMaps /\ pq.base \in BaseMaps BY <1>1, <2>2 DEF NameMaps, BaseMaps
  <2>4. {pq.elements, pq.queued, pq.importQueue, pq.mainQueue, pq.flushQueue, pq.registered} \subseteq Seq(Definitions)
    BY <1>1, <2>1
  <2>5. {pq.prototypes, pq.clients, pq.flushable, pq.needs} \subseteq SUBSET Definitions BY <1>1
  <2>6. {pq.waitToReady, pq.flushing, pq.ceReady} \subseteq BOOLEAN BY <1>1
  <2>7. pq.callbacks \in Seq(1 .. MaxWhenReady) /\ pq.stack \in Seq(Frames) BY <1>1, <2>1
  <2> QED BY <1>2, <2>3, <2>4, <2>5, <2>6, <2>7, StateFields
<1>5. ToSet(<<>>) = {} /\ Len(<<>>) = 0 /\ \A i : i \notin 1 .. 0
  <2>1. Len(<<>>) = 0 /\ DOMAIN <<>> = 1 .. 0 /\ \A i : i \notin 1 .. 0 OBVIOUS
  <2> QED BY <2>1 DEF ToSet
<1>6. Line(pq) = <<>> BY <1>1 DEF Line
<1>7. LineKept(pq) BY <1>1, <1>5, <1>6 DEF LineKept, Follows, Distinct
<1>8. BasesKept(pq) BY <1>1, <1>5 DEF BasesKept
<1>9. SetsKept(pq) BY <1>1, <1>5 DEF SetsKept
<1>10. StackKept(pq) /\ InitsKept(pq) BY <1>1, <1>5 DEF StackKept, InitsKept, PreparesWithin
<1>11. GoesOn(pq, rafs, readying) BY <1>1, <1>3 DEF GoesOn, canReady
<1>12. Found(pq) /\ HeadLacks(pq, readying) BY <1>1, <1>3, <1>5 DEF Found, HeadLacks
<1>13. OthersFit
  <2>1. 1 \in 1 .. MaxWhenReady BY PolymerQueueAssumption
  <2>2. rafs \in BOOLEAN /\ importsReady \in BOOLEAN BY <1>3
  <2> QED BY <1>3, <2>1, <2>2 DEF OthersFit
<1> QED BY <1>4, <1>7, <1>8, <1>9, <1>10, <1>11, <1>12, <1>13 DEF QueueInv, QueueStands, Kept, QueueKeeps

\* An invariant queue at rest lets nobody wait who could go on.
LEMMA QueueRests ==
  ASSUME QueueInv
  PROVE  NothingWaits
<1>0. /\ pq \in QueueStates /\ LineKept(pq) /\ SetsKept(pq) /\ StackKept(pq)
      /\ GoesOn(pq, rafs, readying) /\ Found(pq) /\ HeadLacks(pq, readying)
  BY QueueParts DEF QueueInv
<1> SUFFICES ASSUME pq.stack = <<>>, readying = {}
             PROVE  /\ pq.ceReady /\ ~ pq.flushing
                    /\ \A d \in ToSet(pq.elements) : d \in ToSet(pq.queued) \/ d \notin pq.prototypes
                    /\ nextQueued(pq) # <<>> => Lacking(Head(nextQueued(pq)))
                    /\ \/ \E d \in ToSet(pq.elements) : Lacking(d)
                       \/ /\ ToSet(pq.elements) = ToSet(pq.registered)
                          /\ pq.callbacks # <<>> => rafs
  BY DEF NothingWaits
<1>1. Len(pq.stack) = 0 /\ \A i : i \notin 1 .. 0 OBVIOUS
<1>2. ~ pq.waitToReady /\ \A kinds : ~ Some(pq.stack, kinds) BY <1>0, <1>1 DEF GoesOn, Some
<1>3. pq.ceReady /\ ~ pq.flushing BY <1>0, <1>1 DEF StackKept, PreparesWithin
<1>4. AllFound(pq) BY <1>0, NoneFresh
<1>5. \A d \in ToSet(pq.elements) : d \in ToSet(pq.queued) \/ d \notin pq.prototypes BY <1>0, <1>4 DEF AllFound, SetsKept
<1>6. nextQueued(pq) # <<>> => Lacking(Head(nextQueued(pq))) BY <1>0 DEF HeadLacks, Lacking
<1>7. ASSUME \A d \in ToSet(pq.elements) : ~ Lacking(d)
      PROVE  ToSet(pq.elements) = ToSet(pq.registered) /\ (pq.callbacks # <<>> => rafs)
  <2>1. nextQueued(pq) = <<>> BY <1>0, <1>6, <1>7, HeadIsQueued
  <2>2. pq.importQueue = <<>> /\ pq.mainQueue = <<>> BY <2>1 DEF nextQueued
  <2>3. ToSet(pq.queued) = pq.flushable
    <3>1. ToSet(<<>>) = {} BY DEF ToSet
    <3> QED BY <1>0, <2>2, <3>1, Queued DEF SetsKept
  <2>4. ToSet(pq.elements) = ToSet(pq.queued) BY <1>0, <1>5, <1>7 DEF Lacking, SetsKept
  <2>5. canReady(pq) BY <1>2, <2>3, <2>4 DEF canReady, isEmpty
  <2>6. pq.flushQueue = <<>> /\ (pq.callbacks # <<>> => rafs) BY <1>0, <1>2, <2>5 DEF GoesOn
  <2>7. ToSet(pq.flushQueue) = {} BY <2>6 DEF ToSet
  <2> QED BY <1>0, <2>3, <2>4, <2>6, <2>7 DEF SetsKept
<1> QED BY <1>3, <1>5, <1>6, <1>7

\* The invariant holds throughout.
LEMMA QueueInvariant == QueueSpec => []QueueInv
<1>1. QueueInit => QueueInv BY QueueStarts
<1>2. QueueInv /\ [QueueNext]_queueVars => QueueInv'
  <2> SUFFICES ASSUME QueueInv, [QueueNext]_queueVars PROVE QueueInv' OBVIOUS
  <2>1. CASE CheckReturns BY <2>1, CheckReturnsKeeps
  <2>2. CASE InitReturns BY <2>2, InitReturnsKeeps
  <2>3. CASE FlushNext BY <2>3, FlushNextKeeps
  <2>4. CASE FlushEnds BY <2>4, FlushEndsKeeps
  <2>5. CASE ReadyEnds BY <2>5, ReadyEndsKeeps
  <2>6. CASE FlushReadyCallbacks BY <2>6, FlushReadyCallbacksKeeps
  <2>7. CASE NextCallback BY <2>7, NextCallbackKeeps
  <2>8. CASE forceReady BY <2>8, ForceReadyKeeps
  <2>9. CASE BecomeReady BY <2>9, BecomeReadyKeeps
  <2>10. ASSUME NEW d \in Definitions, CreateDefinition(d) PROVE QueueInv' BY <2>10, DefinitionKeeps
  <2>11. ASSUME NEW d \in Definitions, CallPolymer(d) PROVE QueueInv' BY <2>11, CallPolymerKeeps
  <2>12. ASSUME NEW d \in Definitions, StylesLoaded(d) PROVE QueueInv' BY <2>12, StylesLoadedKeeps
  <2>13. ASSUME NEW n \in 1 .. MaxWhenReady, whenReady(n) PROVE QueueInv' BY <2>13, WhenReadyKeeps
  <2>14. ASSUME NEW n \in 1 .. MaxWhenReady, WhenReadyReturns(n) PROVE QueueInv' BY <2>14, WhenReadyReturnsKeeps
  <2>15. CASE UNCHANGED queueVars
    BY <2>15 DEF queueVars, QueueInv, QueueStands, Kept, QueueKeeps, OthersFit, HeadLacks
  <2> QED
    BY <2>1, <2>2, <2>3, <2>4, <2>5, <2>6, <2>7, <2>8, <2>9, <2>10, <2>11, <2>12, <2>13, <2>14, <2>15 DEF QueueNext
<1> QED BY <1>1, <1>2, PTL DEF QueueSpec

\* Definitions are registered in the order of the queue and inherit from what was
\* queued before them, and the queue only rests when all are registered or the one
\* at its head lacks a prototype or stylesheets, whatever order scripts, imports and
\* stylesheets come in and whatever the page calls while others are registered
\* (queue.js, polymer-element.js, polymer.js).
THEOREM DefinitionsAreRegistered == QueueSpec => []QueueKept
<1>1. QueueInv => QueueKept
  <2> SUFFICES ASSUME QueueInv PROVE QueueKept OBVIOUS
  <2>1. pq \in QueueStates /\ LineKept(pq) /\ BasesKept(pq) BY QueueParts DEF QueueInv
  <2> QED BY <2>1, RegistersInOrder, QueueRests DEF QueueKept
<1> QED BY <1>1, QueueInvariant, PTL
=============================================================================
