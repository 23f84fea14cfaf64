----------------------------- MODULE Statistics -----------------------------
(***************************************************************************)
(* The history of measured actions (DefaultStatisticsManager): calls of    *)
(* methods with @MeasureStatistics, on any threads, append what they       *)
(* measured when they end, and a repeating alarm throws out what started   *)
(* too long ago. The list is only approximately ordered by start time, yet *)
(* the cleanup stops at the first statistic that is young enough.          *)
(***************************************************************************)
EXTENDS Integers, Sequences, SequencesExt

CONSTANTS
  Actions,     \* measured calls; each is made once
  Cleanups,    \* threads on which the cleanup alarm may go off, overlapping
  MaxHistory,  \* the flag max-stat-history-duration
  MaxTime,     \* bound: the clock stops here
  Null

ASSUME StatisticsAssumption ==
  /\ MaxHistory \in Nat /\ MaxTime \in Nat
  /\ Null \notin Int

VARIABLES
  now,         \* the clock
  call,        \* where each measured call is
  startTime,   \* the clock when its handle was opened
  statistics,  \* the calls whose Statistic is in the list, first to last
  throwOut,    \* cleanup -> its throw out time while it waits for the lock
  addedAt      \* history: when the Statistic of a call got into the list

vars == <<now, call, startTime, statistics, throwOut, addedAt>>

CallStates == {"idle", "open", "closing", "recorded"}

Init ==
  /\ now = 0
  /\ call = [a \in Actions |-> "idle"]
  /\ startTime = [a \in Actions |-> 0]
  /\ statistics = <<>>
  /\ throwOut = [c \in Cleanups |-> Null]
  /\ addedAt = [a \in Actions |-> 0]

-----------------------------------------------------------------------------
(* A measured call *)

OpenStatistic(a) ==
  /\ call[a] = "idle"
  /\ call' = [call EXCEPT ![a] = "open"]
  /\ startTime' = [startTime EXCEPT ![a] = now]
  /\ UNCHANGED <<now, statistics, throwOut, addedAt>>

\* The call returns or throws; either way its handle is closed. The list is not
\* locked yet.
Close(a) ==
  /\ call[a] = "open"
  /\ call' = [call EXCEPT ![a] = "closing"]
  /\ UNCHANGED <<now, startTime, statistics, throwOut, addedAt>>

\* Mutant: the newest statistic is the first in the list.
RecordedFirst(a) == <<a>> \o statistics

Recorded(a) == Append(statistics, a)

AddStatistic(a) ==
  /\ call[a] = "closing"
  /\ call' = [call EXCEPT ![a] = "recorded"]
  /\ statistics' = Recorded(a)
  /\ addedAt' = [addedAt EXCEPT ![a] = now]
  /\ UNCHANGED <<now, startTime, throwOut>>

-----------------------------------------------------------------------------
(* The cleanup alarm *)

ThrowOutTime == now - MaxHistory

\* The clock is read before the list is locked.
ReadThrowOutTime(c) ==
  /\ throwOut[c] = Null
  /\ throwOut' = [throwOut EXCEPT ![c] = ThrowOutTime]
  /\ UNCHANGED <<now, call, startTime, statistics, addedAt>>

\* Mutant: what started in the future of the throw out time goes too.
OldAnyway(a, c) == startTime[a] <= throwOut[c] + 1

Old(a, c) == startTime[a] <= throwOut[c]

\* What is left once the first n statistics, all old, are removed and the
\* iteration stops at a young one or at the end.
Cleanup(c) ==
  /\ throwOut[c] # Null
  /\ \E n \in 0 .. Len(statistics) :
     /\ \A i \in 1 .. n : Old(statistics[i], c)
     /\ n < Len(statistics) => ~Old(statistics[n + 1], c)
     /\ statistics' = SubSeq(statistics, n + 1, Len(statistics))
  /\ throwOut' = [throwOut EXCEPT ![c] = Null]
  /\ UNCHANGED <<now, call, startTime, addedAt>>

Tick ==
  /\ now < MaxTime
  /\ now' = now + 1
  /\ UNCHANGED <<call, startTime, statistics, throwOut, addedAt>>

Next ==
  \/ \E a \in Actions : OpenStatistic(a) \/ Close(a) \/ AddStatistic(a)
  \/ \E c \in Cleanups : ReadThrowOutTime(c) \/ Cleanup(c)
  \/ Tick

Spec == Init /\ [][Next]_vars

-----------------------------------------------------------------------------
(* Properties *)

\* Every variable holds a value of its type, and the list has exactly one
\* Statistic of each call in it, all of calls that were recorded.
TypeOK ==
  /\ now \in Nat
  /\ call \in [Actions -> CallStates]
  /\ startTime \in [Actions -> Nat]
  /\ statistics \in Seq(Actions)
  /\ \A i \in DOMAIN statistics : call[statistics[i]] = "recorded"
  /\ IsInjective(statistics)
  /\ throwOut \in [Cleanups -> Int \union {Null}]
  /\ addedAt \in [Actions -> Nat]

\* A recorded call stays in the history until it started too long ago, whatever
\* cleanups run meanwhile (handleCleanupAlarm removes nothing that is young).
RecentCallsKept ==
  \A a \in Actions :
    call[a] = "recorded" /\ now - startTime[a] < MaxHistory => Contains(statistics, a)

\* The list need not be ordered by start time, but "close enough": what a cleanup
\* leaves behind a young statistic got into the list after the throw out time, so
\* that nothing stays longer than MaxHistory after it was recorded.
NothingLeftBehind ==
  [][\A c \in Cleanups : Cleanup(c) =>
       \A i \in DOMAIN statistics' : addedAt[statistics'[i]] > throwOut[c]]_vars

\* StatFlags: MaxHistory is the "Maximum duration of time that the server will
\* keep a statistic around": after a cleanup none is left that is older.
HistoryBounded ==
  [][\A c \in Cleanups : Cleanup(c) =>
       \A i \in DOMAIN statistics' : ~Old(statistics'[i], c)]_vars
=============================================================================
