------------------------- MODULE TestHarness_proofs --------------------------
(***************************************************************************)
(* Proofs about testharness.js, for any number of tests, callbacks, frames *)
(* and calls of the page: what callbacks are told is what became of the    *)
(* tests (HarnessTells).                                                   *)
(*                                                                         *)
(* HarnessInv holds whatever the callbacks do: a test has a result if and  *)
(* only if it is done, num_pending counts the others until the completion, *)
(* and the frames on the stack are those of tests and callbacks there are. *)
(* That the harness completes in time follows from it.                     *)
(*                                                                         *)
(* Calm holds as long as no callback throws or finishes a test: only one   *)
(* callback runs at a time; before the completion each has been told of    *)
(* the tests that are done, but for the one being told; then complete()    *)
(* tells the missing ones in order; then the completion is told.           *)
(*                                                                         *)
(* Most steps hand a state of the harness to its functions and what they   *)
(* return to the page. The first two parts say what the functions return;  *)
(* HarnessStep is what a step may do at all, and the last part needs only  *)
(* that.                                                                   *)
(***************************************************************************)
EXTENDS TestHarness, SequenceLemmas, FiniteSetTheorems

(***************************************************************************)
(* What the harness's functions return                                     *)
(***************************************************************************)
Outcomes == {"NOTRUN", "PASS", "FAIL", "TIMEOUT"}
TestRecord == [status : Outcomes, is_done : BOOLEAN, timer : {"none", "set", "cleared"}]
FrameRecord == [kind : {"step", "setup", "result", "allDone", "complete"},
                test : Nat, k : Nat, fresh : BOOLEAN]
HarnessState ==
  [tests : Seq(TestRecord), num_pending : Int, phase : {INITIAL, SETUP, HAVE_TESTS, HAVE_RESULTS, COMPLETE},
   all_loaded : BOOLEAN, wait_for_finish : BOOLEAN, processing_callbacks : BOOLEAN,
   allow_uncaught_exception : BOOLEAN, timed : BOOLEAN, timer : BOOLEAN,
   status : {"null", "OK", "ERROR", "TIMEOUT"},
   output : {"INITIAL", "STARTED", "HAVE_RESULTS", "COMPLETE"}, table : Seq(Outcomes),
   stack : Seq(FrameRecord), calls : Nat]
HarnessHistory ==
  [results : [1..NumCallbacks -> Seq(Nat \X Outcomes)], completed : [1..NumCallbacks -> Nat],
   due : Nat, nested : BOOLEAN, thrown : BOOLEAN]

\* What does not change where only the stack, and whether the page shows a
\* status, does.
OnlyStack(s, o) ==
  /\ o \in HarnessState
  /\ o.tests = s.tests /\ o.num_pending = s.num_pending /\ o.phase = s.phase
  /\ o.status = s.status /\ o.table = s.table
  /\ o.output = "COMPLETE" <=> s.output = "COMPLETE"

LEMMA FrameTypes ==
  ASSUME NEW t \in Nat, NEW k \in Nat, NEW kind \in {"step", "setup", "result", "allDone", "complete"}
  PROVE  RunFrame(kind, t, k) \in FrameRecord
BY DEF RunFrame, FrameRecord

\* A call of the page's code changes the stack only.
LEMMA PushKeeps ==
  ASSUME NEW s \in HarnessState, NEW f \in FrameRecord
  PROVE  OnlyStack(s, Push(s, f)) /\ Push(s, f).stack = Append(s.stack, f)
<1> DEFINE st == Append(s.stack, f)
<1>1. st \in Seq(FrameRecord) BY DEF HarnessState
<1> HIDE DEF st
<1>2. Push(s, f) = [s EXCEPT !.stack = st] BY DEF Push, st
<1>3. [s EXCEPT !.stack = st] \in HarnessState BY <1>1 DEF HarnessState
<1> QED BY <1>2, <1>3 DEF OnlyStack, HarnessState, st

LEMMA NotifyResultKeeps ==
  ASSUME NEW s \in HarnessState, NEW t \in Nat
  PROVE  /\ OnlyStack(s, notify_result(s, t))
         /\ notify_result(s, t).stack = Append(s.stack, RunFrame("result", t, 1))
<1>1. RunFrame("result", t, 1) \in FrameRecord BY FrameTypes
<1>2. show_status(s) \in HarnessState /\ OnlyStack(s, show_status(s)) /\ show_status(s).stack = s.stack
  BY DEF show_status, OnlyStack, HarnessState
<1> DEFINE u == show_status(s)
           v == [u EXCEPT !.processing_callbacks = TRUE]
<1> HIDE DEF u
<1>3. u \in HarnessState /\ OnlyStack(s, u) /\ u.stack = s.stack BY <1>2 DEF u
<1>4. v \in HarnessState /\ OnlyStack(u, v) /\ v.stack = u.stack BY <1>3 DEF OnlyStack, HarnessState
<1>5. notify_result(s, t) = Push(v, RunFrame("result", t, 1)) BY DEF notify_result, u
<1> HIDE DEF v
<1>6. /\ OnlyStack(v, Push(v, RunFrame("result", t, 1)))
      /\ Push(v, RunFrame("result", t, 1)).stack = Append(v.stack, RunFrame("result", t, 1))
  BY <1>1, <1>4, PushKeeps
<1> QED BY <1>3, <1>4, <1>5, <1>6 DEF OnlyStack

\* Completion: all is told, or the next test without a result is.  The frame of
\* the loop is on top of base, at the test from.
AllIsTold(s, o, base, from, n) ==
  /\ \A t \in from + 1 .. n : s.tests[t].status # "NOTRUN"
  /\ o.stack = Append(base, RunFrame("allDone", 0, 1))
  /\ o.status = IF s.status = "null" THEN "OK" ELSE s.status
  /\ o.output = "COMPLETE"
  /\ s.output # "COMPLETE" =>
        DOMAIN o.table = DOMAIN s.tests /\ \A t \in DOMAIN s.tests : o.table[t] = s.tests[t].status

NextIsTold(s, o, base, from, n, t) ==
  /\ t \in from + 1 .. n /\ s.tests[t].status = "NOTRUN"
  /\ \A u \in from + 1 .. t - 1 : s.tests[u].status # "NOTRUN"
  /\ \E fresh \in BOOLEAN :
        o.stack = Append(Append(base, [kind |-> "complete", test |-> t, k |-> n, fresh |-> fresh]),
                         RunFrame("result", t, 1))
  /\ o.status = s.status
  /\ o.output = "COMPLETE" <=> s.output = "COMPLETE"

LoopsOn(s, o, base, from, n) ==
  /\ o \in HarnessState
  /\ o.tests = s.tests /\ o.num_pending = s.num_pending /\ o.phase = COMPLETE
  /\ \/ AllIsTold(s, o, base, from, n)
     \/ \E t \in Nat : NextIsTold(s, o, base, from, n, t)

LEMMA TestsAreRecords ==
  ASSUME NEW ts \in Seq(TestRecord)
  PROVE  /\ Len(ts) \in Nat /\ DOMAIN ts = 1 .. Len(ts)
         /\ \A t \in 1 .. Len(ts) : /\ ts[t] \in TestRecord /\ ts[t].status \in Outcomes
                                   /\ ts[t].is_done \in BOOLEAN
<1>1. Len(ts) \in Nat /\ DOMAIN ts = 1 .. Len(ts) /\ \A t \in 1 .. Len(ts) : ts[t] \in TestRecord
  OBVIOUS
<1>2. \A r \in TestRecord : r.status \in Outcomes /\ r.is_done \in BOOLEAN BY DEF TestRecord
<1> QED BY ONLY <1>1, <1>2

\* notify_complete: the table is that of the tests, and the first callback is called.
LEMMA NotifyCompleteTells ==
  ASSUME NEW s \in HarnessState
  PROVE  LET o == notify_complete(s) IN
         /\ o \in HarnessState
         /\ o.tests = s.tests /\ o.num_pending = s.num_pending /\ o.phase = s.phase
         /\ o.stack = Append(s.stack, RunFrame("allDone", 0, 1))
         /\ o.status = IF s.status = "null" THEN "OK" ELSE s.status
         /\ o.output = "COMPLETE"
         /\ s.output # "COMPLETE" =>
               DOMAIN o.table = DOMAIN s.tests /\ \A t \in DOMAIN s.tests : o.table[t] = s.tests[t].status
<1> DEFINE u == [s EXCEPT !.timer = FALSE, !.status = IF @ = "null" THEN "OK" ELSE @]
           f == RunFrame("allDone", 0, 1)
           table == [t \in DOMAIN u.tests |-> u.tests[t].status]
<1>1. /\ u \in HarnessState /\ u.tests = s.tests /\ u.num_pending = s.num_pending /\ u.phase = s.phase
      /\ u.stack = s.stack /\ u.output = s.output /\ u.table = s.table
      /\ u.status = IF s.status = "null" THEN "OK" ELSE s.status
  BY DEF HarnessState
<1> HIDE DEF u
<1>2. table \in Seq(Outcomes)
  <2>1. Len(u.tests) \in Nat /\ DOMAIN u.tests = 1 .. Len(u.tests)
        /\ \A t \in 1 .. Len(u.tests) : u.tests[t].status \in Outcomes
    <3>1. u.tests \in Seq(TestRecord) BY <1>1 DEF HarnessState
    <3> QED BY ONLY <3>1, TestsAreRecords
  <2>2. table = [t \in 1 .. Len(u.tests) |-> u.tests[t].status] BY <2>1
  <2> QED BY <2>1, <2>2
<1>3. DOMAIN table = DOMAIN s.tests /\ \A t \in DOMAIN s.tests : table[t] = s.tests[t].status BY <1>1
<1>4. f \in FrameRecord BY FrameTypes
<1> HIDE DEF table, f
<1>5. show_results(u) = IF u.output = "COMPLETE" THEN u
                        ELSE [u EXCEPT !.output = "COMPLETE", !.table = table]
  BY DEF show_results, table
<1>6. /\ show_results(u) \in HarnessState
      /\ show_results(u).tests = u.tests /\ show_results(u).num_pending = u.num_pending
      /\ show_results(u).phase = u.phase /\ show_results(u).stack = u.stack
      /\ show_results(u).status = u.status /\ show_results(u).output = "COMPLETE"
      /\ u.output # "COMPLETE" => show_results(u).table = table
  BY <1>1, <1>2, <1>5 DEF HarnessState
<1>7. notify_complete(s) = Push(show_results(u), f) BY DEF notify_complete, u, f
<1>8. /\ OnlyStack(show_results(u), Push(show_results(u), f))
      /\ Push(show_results(u), f).stack = Append(show_results(u).stack, f)
  BY <1>4, <1>6, PushKeeps
<1> HIDE DEF notify_complete
<1> QED BY <1>1, <1>3, <1>6, <1>7, <1>8 DEF OnlyStack, f

\* What the stack is without its last frame.
LEMMA FrontOfStack ==
  ASSUME NEW A, NEW s \in Seq(A), s # <<>>
  PROVE  /\ Front(s) \in Seq(A) /\ Len(s) \in Nat \ {0} /\ Len(Front(s)) = Len(s) - 1
         /\ \A i \in 1 .. Len(s) - 1 : Front(s)[i] = s[i]
         /\ Last(s) = s[Len(s)] /\ Last(s) \in A
<1>1. Len(s) \in Nat \ {0} BY EmptySeq
<1>2. \A i \in 1 .. Len(s) - 1 : s[i] \in A OBVIOUS
<1>3. Last(s) = s[Len(s)] /\ s[Len(s)] \in A BY <1>1 DEF Last
<1>4. /\ SubSeq(s, 1, Len(s) - 1) \in Seq(A)
      /\ Len(SubSeq(s, 1, Len(s) - 1)) = IF 1 <= Len(s) - 1 THEN Len(s) - 1 - 1 + 1 ELSE 0
      /\ \A i \in 1 .. Len(s) - 1 - 1 + 1 : SubSeq(s, 1, Len(s) - 1)[i] = s[1 + i - 1]
  <2>1. 1 \in Int /\ Len(s) - 1 \in Int BY <1>1
  <2> QED BY ONLY <1>2, <2>1, SubSeqProperties
<1>5. Front(s) = SubSeq(s, 1, Len(s) - 1) BY DEF Front
<1> DEFINE n == Len(s)
           u == SubSeq(s, 1, n - 1)
<1> HIDE DEF n, u
<1>6. n \in Nat \ {0} BY <1>1 DEF n
<1>7. u \in Seq(A) /\ Len(u) = n - 1 /\ \A i \in 1 .. n - 1 : u[i] = s[i]
  <2>1. Len(u) = IF 1 <= n - 1 THEN n - 1 - 1 + 1 ELSE 0 BY <1>4 DEF u, n
  <2>2. Len(u) = n - 1 BY <2>1, <1>6
  <2>3. \A i \in 1 .. n - 1 - 1 + 1 : u[i] = s[1 + i - 1] BY <1>4 DEF u, n
  <2>4. \A i \in 1 .. n - 1 : i \in 1 .. n - 1 - 1 + 1 /\ 1 + i - 1 = i BY <1>6
  <2>5. \A i \in 1 .. n - 1 : u[i] = s[i] BY ONLY <2>3, <2>4
  <2>6. u \in Seq(A) BY <1>4 DEF u, n
  <2> QED BY ONLY <2>2, <2>5, <2>6
<1> QED BY ONLY <1>1, <1>3, <1>5, <1>7 DEF n, u

LEMMA PopFrameKeeps ==
  ASSUME NEW s \in HarnessState, s.stack # <<>>
  PROVE  OnlyStack(s, PopFrame(s)) /\ PopFrame(s).stack = Front(s.stack) /\ PopFrame(s).output = s.output
<1> DEFINE st == Front(s.stack)
<1>1. st \in Seq(FrameRecord) BY FrontOfStack DEF HarnessState
<1> HIDE DEF st
<1>2. PopFrame(s) = [s EXCEPT !.stack = st] BY DEF PopFrame, st
<1>3. [s EXCEPT !.stack = st] \in HarnessState BY <1>1 DEF HarnessState
<1> QED BY <1>2, <1>3 DEF OnlyStack, HarnessState, st

LEMMA CompleteOnLoops ==
  ASSUME NEW s \in HarnessState, s.stack # <<>>,
         Last(s.stack).kind = "complete", Last(s.stack).k <= Len(s.tests), s.phase = COMPLETE
  PROVE  LoopsOn(s, CompleteOn(s), Front(s.stack), Last(s.stack).test, Last(s.stack).k)
<1> DEFINE frame == Last(s.stack)
           base == Front(s.stack)
           left == {t \in frame.test + 1 .. frame.k : s.tests[t].status = "NOTRUN"}
           first == CHOOSE u \in left : \A v \in left : u <= v
           next == [frame EXCEPT !.test = first]
           p == PopFrame(s)
           o == CompleteOn(s)
<1>1. frame \in FrameRecord BY FrontOfStack DEF HarnessState
<1>2. OnlyStack(s, p) /\ p.stack = base /\ p.output = s.output BY PopFrameKeeps
<1>3. o = IF left = {} THEN notify_complete(p) ELSE notify_result(Push(p, next), first)
  BY DEF CompleteOn, TopFrame
<1> HIDE DEF o, p, base
<1>4. CASE left = {}
  <2>1. p \in HarnessState BY <1>2 DEF OnlyStack
  <2>2. \A t \in frame.test + 1 .. frame.k : s.tests[t].status # "NOTRUN" BY <1>4
  <2>3. /\ o \in HarnessState
        /\ o.tests = p.tests /\ o.num_pending = p.num_pending /\ o.phase = p.phase
        /\ o.stack = Append(p.stack, RunFrame("allDone", 0, 1))
        /\ o.status = IF p.status = "null" THEN "OK" ELSE p.status
        /\ o.output = "COMPLETE"
        /\ p.output # "COMPLETE" =>
               DOMAIN o.table = DOMAIN p.tests /\ \A t \in DOMAIN p.tests : o.table[t] = p.tests[t].status
    BY <1>3, <1>4, <2>1, NotifyCompleteTells
  <2> HIDE DEF frame
  <2>4. AllIsTold(s, o, base, frame.test, frame.k) BY <1>2, <2>2, <2>3 DEF AllIsTold, OnlyStack
  <2> QED BY <1>2, <2>3, <2>4 DEF LoopsOn, OnlyStack, o, base, frame
<1>5. CASE left # {}
  <2>1. left \subseteq Nat BY <1>1 DEF FrameRecord
  <2>2. \E u \in left : \A v \in left : u <= v BY <1>5, <2>1, LeastNatural
  <2>3. first \in left /\ \A v \in left : first <= v BY <2>2
  <2> HIDE DEF first
  <2>4. first \in Nat /\ first \in frame.test + 1 .. frame.k /\ s.tests[first].status = "NOTRUN"
        /\ \A u \in frame.test + 1 .. first - 1 : s.tests[u].status # "NOTRUN"
    <3>1. frame.test \in Nat /\ frame.k \in Nat BY <1>1 DEF FrameRecord
    <3>2. first \in Nat /\ first \in frame.test + 1 .. frame.k /\ s.tests[first].status = "NOTRUN"
      BY <2>1, <2>3
    <3>3. ASSUME NEW u \in frame.test + 1 .. first - 1 PROVE s.tests[u].status # "NOTRUN"
      <4>1. u \in frame.test + 1 .. frame.k /\ ~ (first <= u) BY <3>1, <3>2
      <4> QED BY <2>3, <4>1
    <3> QED BY <3>2, <3>3
  <2>5. next = [kind |-> "complete", test |-> first, k |-> frame.k, fresh |-> frame.fresh]
        /\ next \in FrameRecord /\ frame.fresh \in BOOLEAN
    BY <1>1, <2>4 DEF FrameRecord
  <2> HIDE DEF next, left, frame
  <2>6. OnlyStack(p, Push(p, next)) /\ Push(p, next).stack = Append(p.stack, next)
    BY <1>2, <2>5, PushKeeps DEF OnlyStack
  <2>7. /\ OnlyStack(Push(p, next), o)
        /\ o.stack = Append(Push(p, next).stack, RunFrame("result", first, 1))
    BY <1>3, <1>5, <2>4, <2>6, NotifyResultKeeps DEF OnlyStack
  <2>8. NextIsTold(s, o, base, frame.test, frame.k, first)
    BY <1>2, <2>4, <2>5, <2>6, <2>7 DEF NextIsTold, OnlyStack
  <2>9. OnlyStack(s, o) BY <1>2, <2>6, <2>7 DEF OnlyStack
  <2> QED BY <2>4, <2>8, <2>9 DEF LoopsOn, OnlyStack, o, base, frame
<1> QED BY <1>4, <1>5

\* What complete makes of a state: it goes on waiting, or completes, or goes on
\* with the loop it was called from.
Finished(s, o) ==
  \/ o = s /\ ~ OnTop(s, "complete")
  \/ s.phase # COMPLETE /\ LoopsOn(s, o, s.stack, 0, Len(s.tests))
  \/ OnTop(s, "complete") /\ LoopsOn(s, o, Front(s.stack), Last(s.stack).test, Last(s.stack).k)

LEMMA AppendedStack ==
  ASSUME NEW A, NEW s \in Seq(A), NEW f \in A
  PROVE  /\ Append(s, f) \in Seq(A) /\ Append(s, f) # <<>>
         /\ Len(s) \in Nat /\ Len(Append(s, f)) = Len(s) + 1
         /\ \A i \in 1 .. Len(s) : Append(s, f)[i] = s[i]
         /\ Append(s, f)[Len(s) + 1] = f
         /\ Front(Append(s, f)) = s /\ Last(Append(s, f)) = f
<1> DEFINE u == Append(s, f)
<1>1. /\ u \in Seq(A) /\ u # <<>> /\ Len(s) \in Nat /\ Len(u) = Len(s) + 1
      /\ \A i \in 1 .. Len(s) : u[i] = s[i]
      /\ u[Len(s) + 1] = f
  OBVIOUS
<1> HIDE DEF u
<1>2. Last(u) = f BY <1>1 DEF Last
<1>3. Front(u) \in Seq(A) /\ Len(Front(u)) = Len(s) /\ \A i \in 1 .. Len(s) : Front(u)[i] = s[i]
  <2>1. Front(u) \in Seq(A) /\ Len(Front(u)) = Len(u) - 1 /\ \A i \in 1 .. Len(u) - 1 : Front(u)[i] = u[i]
    BY ONLY <1>1, FrontOfStack
  <2> QED BY ONLY <1>1, <2>1
<1>4. Front(u) = s BY ONLY <1>3, SeqEqual, s \in Seq(A)
<1> QED BY <1>1, <1>2, <1>4 DEF u

\* complete(), from the first test on, loops or tells the completion.
LEMMA CompleteFinishes ==
  ASSUME NEW s \in HarnessState,
         OnTop(s, "complete") => s.phase = COMPLETE /\ Last(s.stack).k <= Len(s.tests)
  PROVE  Finished(s, complete(s))
<1>1. CASE s.phase = COMPLETE /\ ~ OnTop(s, "complete")
  <2>1. complete(s) = s BY <1>1 DEF complete, Resume
  <2> QED BY <1>1, <2>1 DEF Finished
<1>2. CASE s.phase = COMPLETE /\ OnTop(s, "complete")
  <2>1. complete(s) = CompleteOn(s) BY <1>2 DEF complete, Resume
  <2>2. s.stack # <<>> /\ Last(s.stack).kind = "complete" BY <1>2 DEF OnTop, TopFrame
  <2>3. LoopsOn(s, CompleteOn(s), Front(s.stack), Last(s.stack).test, Last(s.stack).k)
    BY <1>2, <2>2, CompleteOnLoops
  <2> QED BY <1>2, <2>1, <2>3 DEF Finished
<1>3. CASE s.phase # COMPLETE
  <2> DEFINE u == [s EXCEPT !.phase = COMPLETE]
             f == RunFrame("complete", 0, Len(s.tests))
             v == Push(u, f)
  <2>1. /\ u \in HarnessState /\ u.tests = s.tests /\ u.num_pending = s.num_pending /\ u.status = s.status
        /\ u.output = s.output /\ u.table = s.table /\ u.stack = s.stack /\ u.phase = COMPLETE
    BY DEF HarnessState
  <2>2. Len(s.tests) \in Nat
    <3>1. s.tests \in Seq(TestRecord) BY DEF HarnessState
    <3> QED BY ONLY <3>1
  <2>3. f \in FrameRecord /\ f.kind = "complete" /\ f.test = 0 /\ f.k = Len(s.tests)
    BY <2>2, FrameTypes DEF RunFrame
  <2> HIDE DEF u, f
  <2>4. OnlyStack(u, v) /\ v.stack = Append(u.stack, f) BY <2>1, <2>3, PushKeeps
  <2>5. complete(s) = CompleteOn(v) BY <1>3 DEF complete, u, f
  <2> HIDE DEF v
  <2>6. v.stack # <<>> /\ Front(v.stack) = s.stack /\ Last(v.stack) = f
    <3>1. s.stack \in Seq(FrameRecord) BY DEF HarnessState
    <3> QED BY ONLY <2>1, <2>3, <2>4, <3>1, AppendedStack
  <2>7. LoopsOn(v, CompleteOn(v), s.stack, 0, Len(s.tests))
    <3>1. v \in HarnessState /\ v.phase = COMPLETE /\ v.tests = s.tests BY <2>1, <2>4 DEF OnlyStack
    <3>2. Last(v.stack).k <= Len(v.tests) BY ONLY <2>2, <2>3, <2>6, <3>1
    <3> QED BY ONLY <2>3, <2>6, <3>1, <3>2, CompleteOnLoops
  <2>8. LoopsOn(s, complete(s), s.stack, 0, Len(s.tests))
    <3> DEFINE o == complete(s)
    <3> HIDE DEF o
    <3>1. LoopsOn(v, o, s.stack, 0, Len(s.tests)) BY <2>5, <2>7 DEF o
    <3>2. /\ v.tests = s.tests /\ v.num_pending = s.num_pending /\ v.status = s.status
          /\ v.output = "COMPLETE" <=> s.output = "COMPLETE"
      BY <2>1, <2>4 DEF OnlyStack
    <3>3. LoopsOn(s, o, s.stack, 0, Len(s.tests))
      BY ONLY <3>1, <3>2 DEF LoopsOn, AllIsTold, NextIsTold
    <3> QED BY <3>3 DEF o
  <2> QED BY <1>3, <2>8 DEF Finished
<1> QED BY <1>1, <1>2, <1>3

\* What notify_result's last callback is followed by.
LEMMA CompleteIfDoneFinishes ==
  ASSUME NEW s \in HarnessState,
         OnTop(s, "complete") => s.phase = COMPLETE /\ Last(s.stack).k <= Len(s.tests)
  PROVE  /\ Finished(s, completeIfDone(s))
         /\ s.phase # COMPLETE /\ completeIfDone(s) # s => s.num_pending = 0
<1>1. Finished(s, complete(s)) BY CompleteFinishes
<1>2. CASE all_done(s) BY <1>1, <1>2 DEF completeIfDone, all_done
<1>3. CASE ~ all_done(s) /\ ~ OnTop(s, "complete")
  BY <1>3 DEF completeIfDone, Resume, Finished
<1>4. CASE ~ all_done(s) /\ OnTop(s, "complete")
  <2>1. completeIfDone(s) = complete(s) BY <1>4 DEF completeIfDone, complete, Resume
  <2> QED BY <1>1, <1>4, <2>1
<1> QED BY <1>2, <1>3, <1>4

(***************************************************************************)
(* A test is done, made, stepped.                                          *)
(***************************************************************************)
SetDone(ts, us, t) ==
  /\ us \in Seq(TestRecord) /\ Len(us) = Len(ts)
  /\ \A u \in 1 .. Len(ts) : u # t => us[u] = ts[u]
  /\ us[t].is_done /\ us[t].timer # "set"
  /\ us[t].status = IF ts[t].status = "NOTRUN" THEN "PASS" ELSE ts[t].status

IsDone(s, o, t) ==
  /\ o \in HarnessState /\ SetDone(s.tests, o.tests, t)
  /\ o.status = s.status /\ o.table = s.table /\ (o.output = "COMPLETE" <=> s.output = "COMPLETE")
  /\ IF s.phase = COMPLETE
     THEN o.phase = COMPLETE /\ o.stack = s.stack /\ o.num_pending = s.num_pending
     ELSE /\ o.phase = HAVE_RESULTS /\ o.num_pending = s.num_pending - 1
          /\ o.stack = Append(s.stack, RunFrame("result", t, 1))

\* A test that was not done is, and a callback is called unless all is complete.
LEMMA DoneIsDone ==
  ASSUME NEW s \in HarnessState, NEW t \in DOMAIN s.tests
  PROVE  IsDone(s, doneAgain(s, t), t)
<1> DEFINE ts == s.tests
           r == [ts[t] EXCEPT !.timer = IF @ = "set" THEN "cleared" ELSE @,
                              !.status = IF @ = "NOTRUN" THEN "PASS" ELSE @, !.is_done = TRUE]
           us == [ts EXCEPT ![t] = r]
           v == [s EXCEPT !.tests = us]
           w == [v EXCEPT !.phase = HAVE_RESULTS, !.num_pending = @ - 1]
           o == doneAgain(s, t)
<1>0. ts \in Seq(TestRecord) /\ t \in DOMAIN ts BY DEF HarnessState
<1>1. t \in 1 .. Len(ts) /\ ts[t] \in TestRecord /\ Len(ts) \in Nat BY ONLY <1>0, TestsAreRecords
<1>2. /\ r \in TestRecord /\ r.is_done /\ r.timer # "set"
      /\ r.status = IF ts[t].status = "NOTRUN" THEN "PASS" ELSE ts[t].status
  <2> DEFINE q == ts[t]
  <2> HIDE DEF q
  <2>1. q \in TestRecord BY <1>1 DEF q
  <2>2. r = [q EXCEPT !.timer = IF @ = "set" THEN "cleared" ELSE @,
                      !.status = IF @ = "NOTRUN" THEN "PASS" ELSE @, !.is_done = TRUE] BY DEF q
  <2> HIDE DEF r, ts
  <2>3. /\ r \in TestRecord /\ r.is_done /\ r.timer # "set"
        /\ r.status = IF q.status = "NOTRUN" THEN "PASS" ELSE q.status
    BY ONLY <2>1, <2>2 DEF TestRecord, Outcomes
  <2> QED BY <2>3 DEF q
<1> HIDE DEF r
<1>3. SetDone(ts, us, t)
  <2>1. /\ us \in Seq(TestRecord) /\ Len(us) = Len(ts)
        /\ \A u \in 1 .. Len(ts) : us[u] = IF u = t THEN r ELSE ts[u]
    BY ONLY <1>0, <1>1, <1>2, ExceptSeq
  <2> HIDE DEF us, ts
  <2> QED BY ONLY <1>1, <1>2, <2>1 DEF SetDone
<1>4. o = result(v, t)
  <2>1. [s EXCEPT !.tests[t] = r] = v BY <1>1 DEF HarnessState
  <2> QED BY <2>1 DEF doneAgain, r
<1>5. us \in Seq(TestRecord) BY <1>3 DEF SetDone
<1> HIDE DEF us
<1>6. /\ v \in HarnessState /\ v.tests = us /\ v.status = s.status /\ v.table = s.table /\ v.output = s.output
      /\ v.phase = s.phase /\ v.stack = s.stack /\ v.num_pending = s.num_pending
  BY <1>5 DEF HarnessState
<1> HIDE DEF v
<1> DEFINE np == v.num_pending - 1
<1>12. np \in Int /\ HAVE_RESULTS \in {INITIAL, SETUP, HAVE_TESTS, HAVE_RESULTS, COMPLETE}
  BY <1>6 DEF HarnessState
<1>13. w = [v EXCEPT !.phase = HAVE_RESULTS, !.num_pending = np] OBVIOUS
<1> HIDE DEF np, w
<1>14. /\ w \in HarnessState /\ w.tests = us /\ w.status = s.status /\ w.table = s.table /\ w.output = s.output
      /\ w.phase = HAVE_RESULTS /\ w.stack = s.stack /\ w.num_pending = np
  BY ONLY <1>6, <1>12, <1>13 DEF HarnessState
<1>7. /\ w \in HarnessState /\ w.tests = us /\ w.status = s.status /\ w.table = s.table /\ w.output = s.output
      /\ w.phase = HAVE_RESULTS /\ w.stack = s.stack /\ w.num_pending = s.num_pending - 1
  BY <1>6, <1>14 DEF np
<1>8. result(v, t) = IF v.phase = COMPLETE THEN v ELSE notify_result(w, t)
  BY <1>6 DEF result, w, HarnessState, INITIAL, SETUP, HAVE_TESTS, HAVE_RESULTS, COMPLETE
<1> HIDE DEF o
<1>9. OnlyStack(w, notify_result(w, t)) /\ notify_result(w, t).stack = Append(w.stack, RunFrame("result", t, 1))
  BY <1>1, <1>7, NotifyResultKeeps
<1>10. SetDone(s.tests, us, t) BY <1>3
<1>11. IsDone(s, o, t)
  <2>1. CASE s.phase = COMPLETE
    <3>1. o = v BY <1>4, <1>6, <1>8, <2>1
    <3> QED BY ONLY <1>6, <1>10, <2>1, <3>1 DEF IsDone
  <2>2. CASE s.phase # COMPLETE
    <3>1. o = notify_result(w, t) BY <1>4, <1>6, <1>8, <2>2
    <3> QED BY ONLY <1>7, <1>9, <1>10, <2>2, <3>1 DEF IsDone, OnlyStack
  <2> QED BY <2>1, <2>2
<1> QED BY <1>11 DEF o

\* A test that is made waits to be run.
LEMMA PushedTest ==
  ASSUME NEW s \in HarnessState
  PROVE  /\ push(s) \in HarnessState
         /\ push(s).tests = Append(s.tests, [status |-> "NOTRUN", is_done |-> FALSE, timer |-> "none"])
         /\ push(s).num_pending = s.num_pending + 1
         /\ push(s).phase = COMPLETE <=> s.phase = COMPLETE
         /\ push(s).status = s.status /\ push(s).table = s.table /\ push(s).stack = s.stack
         /\ push(s).output = "COMPLETE" <=> s.output = "COMPLETE"
<1> DEFINE r == [status |-> "NOTRUN", is_done |-> FALSE, timer |-> "none"]
           ts == Append(s.tests, r)
<1>1. s.tests \in Seq(TestRecord) /\ r \in TestRecord BY DEF HarnessState, TestRecord, Outcomes
<1> HIDE DEF r
<1>2. ts \in Seq(TestRecord) BY ONLY <1>1
<1> HIDE DEF ts
<1>3. push(s) = [s EXCEPT !.tests = ts, !.num_pending = @ + 1,
                          !.phase = IF @ < HAVE_TESTS THEN HAVE_TESTS ELSE @,
                          !.output = IF @ = "INITIAL" /\ s.phase < HAVE_TESTS THEN "STARTED" ELSE @]
  BY DEF push, ts, r
<1>4. (IF s.phase < HAVE_TESTS THEN HAVE_TESTS ELSE s.phase) = COMPLETE <=> s.phase = COMPLETE
  BY DEF HarnessState, INITIAL, SETUP, HAVE_TESTS, HAVE_RESULTS, COMPLETE
<1>5. (IF s.phase < HAVE_TESTS THEN HAVE_TESTS ELSE s.phase) \in {INITIAL, SETUP, HAVE_TESTS, HAVE_RESULTS, COMPLETE}
  BY DEF HarnessState
<1> DEFINE ph == IF s.phase < HAVE_TESTS THEN HAVE_TESTS ELSE s.phase
           out == IF s.output = "INITIAL" /\ s.phase < HAVE_TESTS THEN "STARTED" ELSE s.output
<1>6. out \in {"INITIAL", "STARTED", "HAVE_RESULTS", "COMPLETE"} /\ (out = "COMPLETE" <=> s.output = "COMPLETE")
  BY DEF HarnessState
<1> DEFINE np == s.num_pending + 1
           u == [s EXCEPT !.tests = ts, !.num_pending = np]
<1>7. push(s) = [u EXCEPT !.phase = ph, !.output = out] BY <1>3 DEF HarnessState
<1>8. np \in Int BY DEF HarnessState
<1> HIDE DEF np
<1>9. /\ u \in HarnessState /\ u.tests = ts /\ u.num_pending = np /\ u.phase = s.phase
      /\ u.status = s.status /\ u.table = s.table /\ u.stack = s.stack /\ u.output = s.output
  BY ONLY s \in HarnessState, <1>2, <1>8 DEF HarnessState
<1>10. ph \in {INITIAL, SETUP, HAVE_TESTS, HAVE_RESULTS, COMPLETE} BY <1>5
<1> HIDE DEF ph, out, push, u
<1>11. /\ push(s) \in HarnessState /\ push(s).tests = u.tests /\ push(s).num_pending = u.num_pending
       /\ push(s).phase = ph /\ push(s).status = u.status /\ push(s).table = u.table
       /\ push(s).stack = u.stack /\ push(s).output = out
  BY ONLY <1>6, <1>7, <1>9, <1>10 DEF HarnessState
<1> QED BY <1>4, <1>6, <1>9, <1>11 DEF ts, r, ph, np

\* A step of a test runs unless the test has a result.
SetTimer(ts, us, t) ==
  /\ us \in Seq(TestRecord) /\ Len(us) = Len(ts)
  /\ \A u \in 1 .. Len(ts) : u # t => us[u] = ts[u]
  /\ us[t].is_done = ts[t].is_done /\ us[t].status = ts[t].status

\* test.step: the page's function runs, or the test that is done already is left alone.
LEMMA StepRuns ==
  ASSUME NEW s \in HarnessState, NEW t \in DOMAIN s.tests, NEW then
  PROVE  \/ step(s, t, then) = s
         \/ /\ s.tests[t].status = "NOTRUN"
            /\ step(s, t, then) \in HarnessState
            /\ SetTimer(s.tests, step(s, t, then).tests, t)
            /\ step(s, t, then).num_pending = s.num_pending /\ step(s, t, then).phase = s.phase
            /\ step(s, t, then).status = s.status /\ step(s, t, then).table = s.table
            /\ step(s, t, then).output = s.output
            /\ \E k \in {0, 1} : step(s, t, then).stack = Append(s.stack, RunFrame("step", t, k))
<1> SUFFICES ASSUME s.tests[t].status = "NOTRUN"
             PROVE  /\ step(s, t, then) \in HarnessState
                    /\ SetTimer(s.tests, step(s, t, then).tests, t)
                    /\ step(s, t, then).num_pending = s.num_pending /\ step(s, t, then).phase = s.phase
                    /\ step(s, t, then).status = s.status /\ step(s, t, then).table = s.table
                    /\ step(s, t, then).output = s.output
                    /\ \E k \in {0, 1} : step(s, t, then).stack = Append(s.stack, RunFrame("step", t, k))
  BY DEF step
<1> DEFINE ts == s.tests
           r == [ts[t] EXCEPT !.timer = IF @ = "none" THEN "set" ELSE @]
           us == [ts EXCEPT ![t] = r]
           v == [s EXCEPT !.tests = us]
           k == IF then = "done" THEN 1 ELSE 0
           f == RunFrame("step", t, k)
<1>0. ts \in Seq(TestRecord) /\ t \in DOMAIN ts BY DEF HarnessState
<1>1. t \in 1 .. Len(ts) /\ ts[t] \in TestRecord /\ Len(ts) \in Nat BY ONLY <1>0, TestsAreRecords
<1>2. r \in TestRecord /\ r.is_done = ts[t].is_done /\ r.status = ts[t].status
  <2> DEFINE q == ts[t]
  <2> HIDE DEF q
  <2>1. q \in TestRecord BY <1>1 DEF q
  <2>2. r = [q EXCEPT !.timer = IF @ = "none" THEN "set" ELSE @] BY DEF q
  <2> HIDE DEF r, ts
  <2>3. r \in TestRecord /\ r.is_done = q.is_done /\ r.status = q.status BY ONLY <2>1, <2>2 DEF TestRecord
  <2> QED BY <2>3 DEF q
<1> HIDE DEF r
<1>3. SetTimer(ts, us, t) /\ us \in Seq(TestRecord)
  <2>1. /\ us \in Seq(TestRecord) /\ Len(us) = Len(ts)
        /\ \A u \in 1 .. Len(ts) : us[u] = IF u = t THEN r ELSE ts[u]
    BY ONLY <1>0, <1>1, <1>2, ExceptSeq
  <2> HIDE DEF us, ts
  <2> QED BY ONLY <1>1, <1>2, <2>1 DEF SetTimer
<1>4. step(s, t, then) = Push(v, f)
  <2>1. [s EXCEPT !.tests[t].timer = IF @ = "none" THEN "set" ELSE @] = v BY <1>1 DEF r, HarnessState
  <2> QED BY <2>1 DEF step
<1> HIDE DEF us
<1>5. /\ v \in HarnessState /\ v.tests = us /\ v.status = s.status /\ v.table = s.table /\ v.output = s.output
      /\ v.phase = s.phase /\ v.stack = s.stack /\ v.num_pending = s.num_pending
  BY <1>3 DEF HarnessState
<1>6. k \in {0, 1} /\ f \in FrameRecord BY <1>1, FrameTypes
<1> HIDE DEF v, k
<1>7. OnlyStack(v, Push(v, f)) /\ Push(v, f).stack = Append(v.stack, f) /\ Push(v, f).output = v.output
  <2>1. Push(v, f).output = v.output BY <1>5 DEF Push, HarnessState
  <2> QED BY <1>5, <1>6, <2>1, PushKeeps
<1> HIDE DEF step
<1> QED BY <1>3, <1>4, <1>5, <1>6, <1>7 DEF OnlyStack

(***************************************************************************)
(* What always holds of the harness, whatever the callbacks do.            *)
(***************************************************************************)
CallbackKinds == {"result", "allDone"}

Undone(ts) == {t \in DOMAIN ts : ~ ts[t].is_done}

\* A test has a result if and only if it is done, and then its timer is off.
DoneAgrees(ts) == \A t \in 1 .. Len(ts) :
  /\ ts[t].is_done <=> ts[t].status # "NOTRUN"
  /\ ts[t].is_done => ts[t].timer # "set"

\* The loop of complete() is on the stack only below the result it is telling.
FramesAgree(st, n, due, completes) == \A i \in 1 .. Len(st) :
  /\ st[i].kind \in {"step", "result"} => st[i].test \in 1 .. n
  /\ st[i].kind \in CallbackKinds => st[i].k \in 1 .. NumCallbacks
  /\ st[i].kind = "complete" => /\ completes /\ st[i].k = due /\ st[i].test \in 0 .. due
                                /\ i < Len(st) => st[i + 1].kind = "result"

NoneFresh(st)     == \A i \in 1 .. Len(st) : st[i].kind \in CallbackKinds => ~ st[i].fresh
OnlyLastFresh(st) == \A i \in 1 .. Len(st) : i < Len(st) /\ st[i].kind \in CallbackKinds => ~ st[i].fresh
NoneEnds(st)      == \A i \in 1 .. Len(st) : st[i].kind = "complete" => i < Len(st)

SaneCore(s, due) ==
  /\ s \in HarnessState /\ due \in Nat /\ due <= Len(s.tests)
  /\ s.phase # COMPLETE => s.num_pending = Cardinality(Undone(s.tests))
  /\ s.phase = COMPLETE /\ s.status \in {"null", "OK"} => \A t \in 1 .. due : s.tests[t].is_done
  /\ FramesAgree(s.stack, Len(s.tests), due, s.phase = COMPLETE)

Sane(s, due) == SaneCore(s, due) /\ DoneAgrees(s.tests)

HarnessInv ==
  /\ Sane(th, said.due) /\ said \in HarnessHistory
  /\ NoneFresh(th.stack) /\ NoneEnds(th.stack)

\* The state a step leaves before the next piece of the page's code begins.
Leaves(o, due) == Sane(o, due) /\ OnlyLastFresh(o.stack) /\ NoneEnds(o.stack)

LEMMA StateParts ==
  ASSUME NEW s \in HarnessState
  PROVE  /\ s.tests \in Seq(TestRecord) /\ Len(s.tests) \in Nat /\ DOMAIN s.tests = 1 .. Len(s.tests)
         /\ s.stack \in Seq(FrameRecord) /\ Len(s.stack) \in Nat /\ DOMAIN s.stack = 1 .. Len(s.stack)
         /\ \A i \in 1 .. Len(s.stack) : s.stack[i] \in FrameRecord
         /\ s.num_pending \in Int
         /\ s.status \in {"null", "OK", "ERROR", "TIMEOUT"}
         /\ s.phase # COMPLETE => s.phase <= HAVE_RESULTS
<1>1. s.tests \in Seq(TestRecord) /\ s.stack \in Seq(FrameRecord) BY DEF HarnessState
<1>2. s.num_pending \in Int /\ s.status \in {"null", "OK", "ERROR", "TIMEOUT"} BY DEF HarnessState
<1>3. s.phase # COMPLETE => s.phase <= HAVE_RESULTS
  BY DEF HarnessState, INITIAL, SETUP, HAVE_TESTS, HAVE_RESULTS, COMPLETE
<1>4. \A A : \A u \in Seq(A) : Len(u) \in Nat /\ DOMAIN u = 1 .. Len(u) /\ \A i \in 1 .. Len(u) : u[i] \in A
  OBVIOUS
<1> QED BY ONLY <1>1, <1>2, <1>3, <1>4

LEMMA AppendedFrame ==
  ASSUME NEW st \in Seq(FrameRecord), NEW f \in FrameRecord, NEW n, NEW due, NEW c,
         FramesAgree(st, n, due, c), NoneFresh(st), f.kind # "complete",
         f.kind = "result" \/ NoneEnds(st),
         f.kind \in {"step", "result"} => f.test \in 1 .. n,
         f.kind \in CallbackKinds => f.k \in 1 .. NumCallbacks
  PROVE  /\ FramesAgree(Append(st, f), n, due, c)
         /\ OnlyLastFresh(Append(st, f)) /\ NoneEnds(Append(st, f))
<1> DEFINE u == Append(st, f)
           m == Len(st)
<1>1. m \in Nat /\ Len(u) = m + 1 /\ (\A i \in 1 .. m : u[i] = st[i]) /\ u[m + 1] = f
  BY AppendedStack
<1> HIDE DEF u, m
<1>2. OnlyLastFresh(u) BY <1>1 DEF OnlyLastFresh, NoneFresh, m
<1>3. NoneEnds(u) BY <1>1 DEF NoneEnds, m
<1>4. ASSUME NEW i \in 1 .. Len(u)
      PROVE  /\ u[i].kind \in {"step", "result"} => u[i].test \in 1 .. n
             /\ u[i].kind \in CallbackKinds => u[i].k \in 1 .. NumCallbacks
             /\ u[i].kind = "complete" => /\ c /\ u[i].k = due /\ u[i].test \in 0 .. due
                                          /\ i < Len(u) => u[i + 1].kind = "result"
  <2>1. CASE i = m + 1 BY <1>1, <2>1
  <2>2. CASE i \in 1 .. m
    <3>1. u[i] = st[i] BY <1>1, <2>2
    <3>2. /\ st[i].kind \in {"step", "result"} => st[i].test \in 1 .. n
          /\ st[i].kind \in CallbackKinds => st[i].k \in 1 .. NumCallbacks
          /\ st[i].kind = "complete" => c /\ st[i].k = due /\ st[i].test \in 0 .. due
      BY <2>2 DEF FramesAgree, m
    <3>3. ASSUME st[i].kind = "complete" PROVE u[i + 1].kind = "result"
      <4>1. CASE i < m
        <5>1. st[i + 1].kind = "result" BY <2>2, <3>3, <4>1 DEF FramesAgree, m
        <5>2. i + 1 \in 1 .. m BY <1>1, <2>2, <4>1
        <5> QED BY <1>1, <5>1, <5>2
      <4>2. CASE i = m
        <5>1. ~ NoneEnds(st) BY <1>1, <2>2, <3>3, <4>2 DEF NoneEnds, m
        <5> QED BY <1>1, <4>2, <5>1
      <4> QED BY <1>1, <2>2, <4>1, <4>2
    <3> QED BY <3>1, <3>2, <3>3
  <2> QED BY <1>1, <2>1, <2>2
<1>5. FramesAgree(u, n, due, c) BY <1>4 DEF FramesAgree
<1> QED BY <1>2, <1>3, <1>5 DEF u

LEMMA TestSetDone ==
  ASSUME NEW ts \in Seq(TestRecord), NEW t \in 1 .. Len(ts), NEW us, SetDone(ts, us, t), ~ ts[t].is_done,
         \A u \in 1 .. Len(ts) : u # t => /\ ts[u].is_done <=> ts[u].status # "NOTRUN"
                                          /\ ts[u].is_done => ts[u].timer # "set"
  PROVE  /\ DoneAgrees(us)
         /\ Undone(us) = Undone(ts) \ {t} /\ t \in Undone(ts)
         /\ Cardinality(Undone(us)) = Cardinality(Undone(ts)) - 1
<1>1. /\ Len(ts) \in Nat /\ DOMAIN ts = 1 .. Len(ts) /\ us \in Seq(TestRecord) /\ Len(us) = Len(ts)
      /\ DOMAIN us = 1 .. Len(ts)
  BY DEF SetDone
<1>2. DoneAgrees(us) BY <1>1 DEF DoneAgrees, SetDone
<1>3. Undone(us) = Undone(ts) \ {t} /\ t \in Undone(ts) BY <1>1 DEF Undone, SetDone
<1>4. IsFiniteSet(Undone(ts))
  <2>1. IsFiniteSet(1 .. Len(ts)) BY <1>1, FS_Interval
  <2>2. Undone(ts) \in SUBSET (1 .. Len(ts)) BY <1>1 DEF Undone
  <2> QED BY ONLY <2>1, <2>2, FS_Subset
<1>5. Cardinality(Undone(ts) \ {t}) = Cardinality(Undone(ts)) - 1
  BY ONLY <1>3, <1>4, FS_RemoveElement
<1> QED BY <1>2, <1>3, <1>5

\* A test that gets its result is one less to wait for.
LEMMA SaneDone ==
  ASSUME NEW s, NEW due, SaneCore(s, due), NoneFresh(s.stack), NoneEnds(s.stack),
         NEW t \in 1 .. Len(s.tests), ~ s.tests[t].is_done,
         \A u \in 1 .. Len(s.tests) : u # t => /\ s.tests[u].is_done <=> s.tests[u].status # "NOTRUN"
                                               /\ s.tests[u].is_done => s.tests[u].timer # "set"
  PROVE  /\ Leaves(doneAgain(s, t), due)
         /\ doneAgain(s, t).phase = COMPLETE <=> s.phase = COMPLETE
<1> DEFINE o == doneAgain(s, t)
           f == RunFrame("result", t, 1)
<1>1. s \in HarnessState /\ t \in DOMAIN s.tests BY StateParts DEF SaneCore
<1>2. IsDone(s, o, t) BY <1>1, DoneIsDone
<1> HIDE DEF o
<1>3. s.tests \in Seq(TestRecord) /\ s.stack \in Seq(FrameRecord) /\ Len(s.tests) \in Nat /\ s.num_pending \in Int
  BY ONLY <1>1, StateParts
<1>4. SetDone(s.tests, o.tests, t) BY <1>2 DEF IsDone
<1>5. /\ DoneAgrees(o.tests)
      /\ Cardinality(Undone(o.tests)) = Cardinality(Undone(s.tests)) - 1
  BY <1>3, <1>4, TestSetDone
<1>6. Len(o.tests) = Len(s.tests) /\ \A u \in 1 .. Len(s.tests) : s.tests[u].is_done => o.tests[u].is_done
  BY <1>4 DEF SetDone
<1>7. f \in FrameRecord /\ f.kind = "result" /\ f.test = t /\ f.k = 1 /\ 1 \in 1 .. NumCallbacks
  <2>1. t \in Nat /\ NumCallbacks \in Nat \ {0} BY <1>3, HarnessAssumption
  <2>2. f \in FrameRecord BY <2>1, FrameTypes
  <2>3. f.kind = "result" /\ f.test = t /\ f.k = 1 BY DEF RunFrame
  <2> QED BY <2>1, <2>2, <2>3
<1> HIDE DEF f
<1>8. FramesAgree(s.stack, Len(s.tests), due, s.phase = COMPLETE) BY DEF SaneCore
<1>9. due \in Nat /\ due <= Len(s.tests) /\ o \in HarnessState /\ o.status = s.status BY <1>2 DEF SaneCore, IsDone
<1>10. o.phase = COMPLETE /\ o.status \in {"null", "OK"} /\ s.phase = COMPLETE
         => \A u \in 1 .. due : o.tests[u].is_done
  BY <1>3, <1>6, <1>9 DEF SaneCore
<1>11. CASE s.phase = COMPLETE
  <2>1. o.phase = COMPLETE /\ o.stack = s.stack BY <1>2, <1>11 DEF IsDone
  <2>2. OnlyLastFresh(o.stack) /\ NoneEnds(o.stack) BY <2>1 DEF NoneFresh, OnlyLastFresh
  <2>3. FramesAgree(o.stack, Len(o.tests), due, o.phase = COMPLETE) BY <1>6, <1>8, <1>11, <2>1
  <2> QED BY <1>5, <1>6, <1>9, <1>10, <1>11, <2>1, <2>2, <2>3 DEF Leaves, Sane, SaneCore, o
<1>12. CASE s.phase # COMPLETE
  <2>1. o.phase = HAVE_RESULTS /\ o.num_pending = s.num_pending - 1 /\ o.stack = Append(s.stack, f)
    BY <1>2, <1>12 DEF IsDone, f
  <2>2. o.phase # COMPLETE BY <2>1 DEF HAVE_RESULTS, COMPLETE
  <2>3. FramesAgree(s.stack, Len(s.tests), due, FALSE) BY <1>8, <1>12
  <2>4. /\ FramesAgree(Append(s.stack, f), Len(s.tests), due, FALSE)
        /\ OnlyLastFresh(Append(s.stack, f)) /\ NoneEnds(Append(s.stack, f))
    BY ONLY <1>3, <1>7, <2>3, NoneFresh(s.stack), t \in 1 .. Len(s.tests), AppendedFrame DEF CallbackKinds
  <2>5. s.num_pending = Cardinality(Undone(s.tests)) BY <1>12 DEF SaneCore
  <2>6. o.num_pending = Cardinality(Undone(o.tests)) BY <1>5, <2>1, <2>5
  <2>7. FramesAgree(o.stack, Len(o.tests), due, o.phase = COMPLETE) BY <1>6, <2>1, <2>2, <2>4
  <2> QED BY <1>5, <1>6, <1>9, <1>12, <2>1, <2>2, <2>4, <2>6, <2>7 DEF Leaves, Sane, SaneCore, o
<1> QED BY <1>11, <1>12

\* A test that runs a step keeps the harness sane.
LEMMA SaneStep ==
  ASSUME NEW s, NEW due, Sane(s, due), NoneFresh(s.stack), NoneEnds(s.stack),
         NEW t \in 1 .. Len(s.tests), NEW then
  PROVE  /\ Leaves(step(s, t, then), due)
         /\ step(s, t, then).phase = s.phase
<1> DEFINE o == step(s, t, then)
<1>1. s \in HarnessState /\ t \in DOMAIN s.tests BY StateParts DEF Sane, SaneCore
<1>2. \/ o = s
      \/ /\ s.tests[t].status = "NOTRUN"
         /\ o \in HarnessState
         /\ SetTimer(s.tests, o.tests, t)
         /\ o.num_pending = s.num_pending /\ o.phase = s.phase
         /\ o.status = s.status /\ o.table = s.table
         /\ o.output = s.output
         /\ \E k \in {0, 1} : o.stack = Append(s.stack, RunFrame("step", t, k))
  BY <1>1, StepRuns
<1> HIDE DEF o
<1>3. CASE o = s
  <2>1. OnlyLastFresh(s.stack) BY DEF NoneFresh, OnlyLastFresh
  <2> QED BY <1>3, <2>1 DEF Leaves, o
<1>4. CASE o # s
  <2>1. s.tests \in Seq(TestRecord) /\ s.stack \in Seq(FrameRecord) /\ Len(s.tests) \in Nat /\ s.num_pending \in Int
    BY ONLY <1>1, StateParts
  <2>2. SetTimer(s.tests, o.tests, t) /\ s.tests[t].status = "NOTRUN" BY <1>2, <1>4
  <2>3. PICK k \in {0, 1} : o.stack = Append(s.stack, RunFrame("step", t, k)) BY <1>2, <1>4
  <2> DEFINE f == RunFrame("step", t, k)
  <2>4. f \in FrameRecord /\ f.kind = "step" /\ f.test = t
    <3>1. t \in Nat /\ k \in Nat BY <2>1
    <3> QED BY <3>1, FrameTypes DEF RunFrame
  <2> HIDE DEF f
  <2>5. /\ Len(o.tests) = Len(s.tests) /\ DOMAIN o.tests = DOMAIN s.tests
        /\ \A u \in 1 .. Len(s.tests) : o.tests[u].is_done = s.tests[u].is_done /\ o.tests[u].status = s.tests[u].status
    BY <2>1, <2>2 DEF SetTimer
  <2>6. DoneAgrees(o.tests)
    <3>1. DoneAgrees(s.tests) BY DEF Sane
    <3> QED BY <2>2, <2>5, <3>1 DEF DoneAgrees, SetTimer
  <2>7. Undone(o.tests) = Undone(s.tests) BY <1>1, <2>5, StateParts DEF Undone
  <2>8. FramesAgree(s.stack, Len(s.tests), due, s.phase = COMPLETE) BY DEF Sane, SaneCore
  <2>9. /\ FramesAgree(Append(s.stack, f), Len(s.tests), due, s.phase = COMPLETE)
        /\ OnlyLastFresh(Append(s.stack, f)) /\ NoneEnds(Append(s.stack, f))
    BY ONLY <2>1, <2>4, <2>8, NoneFresh(s.stack), NoneEnds(s.stack), t \in 1 .. Len(s.tests), AppendedFrame
       DEF CallbackKinds
  <2>10. o.stack = Append(s.stack, f) BY <2>3 DEF f
  <2>11. /\ o \in HarnessState /\ o.num_pending = s.num_pending /\ o.phase = s.phase /\ o.status = s.status
    BY <1>2, <1>4
  <2>12. \A u \in 1 .. due : u \in 1 .. Len(s.tests) BY <2>1 DEF Sane, SaneCore
  <2>13. Sane(o, due)
    BY <2>5, <2>6, <2>7, <2>9, <2>10, <2>11, <2>12 DEF Sane, SaneCore
  <2> QED BY <2>9, <2>10, <2>11, <2>13 DEF Leaves, o
<1> QED BY <1>3, <1>4

\* A new test is one more to wait for.
LEMMA SaneMade ==
  ASSUME NEW s, NEW due, Sane(s, due)
  PROVE  /\ Sane(push(s), due) /\ push(s).stack = s.stack
         /\ push(s).phase = COMPLETE <=> s.phase = COMPLETE
         /\ Len(push(s).tests) = Len(s.tests) + 1
<1> DEFINE o == push(s)
           r == [status |-> "NOTRUN", is_done |-> FALSE, timer |-> "none"]
           m == Len(s.tests)
           us == o.tests
<1>1. s \in HarnessState BY DEF Sane, SaneCore
<1>2. /\ o \in HarnessState /\ us = Append(s.tests, r) /\ o.num_pending = s.num_pending + 1
      /\ o.phase = COMPLETE <=> s.phase = COMPLETE
      /\ o.status = s.status /\ o.stack = s.stack
  BY <1>1, PushedTest
<1> HIDE DEF o
<1>3. s.tests \in Seq(TestRecord) /\ m \in Nat /\ s.num_pending \in Int /\ DOMAIN s.tests = 1 .. m
  BY ONLY <1>1, StateParts
<1>4. r \in TestRecord /\ ~ r.is_done /\ r.status = "NOTRUN" BY DEF TestRecord, Outcomes
<1> HIDE DEF r
<1>5. /\ us \in Seq(TestRecord) /\ Len(us) = m + 1 /\ DOMAIN us = 1 .. m + 1
      /\ \A i \in 1 .. m : us[i] = s.tests[i]
      /\ us[m + 1] = r
  <2>1. /\ us \in Seq(TestRecord) /\ Len(us) = m + 1 /\ (\A i \in 1 .. m : us[i] = s.tests[i]) /\ us[m + 1] = r
    BY ONLY <1>2, <1>3, <1>4, AppendedStack
  <2>2. DOMAIN us = 1 .. Len(us) BY ONLY <2>1, LenProperties
  <2> QED BY <2>1, <2>2
<1> HIDE DEF us
<1>6. DoneAgrees(us)
  <2>1. DoneAgrees(s.tests) BY DEF Sane
  <2> HIDE DEF m
  <2>2. ASSUME NEW i \in 1 .. m + 1 PROVE i = m + 1 \/ i \in 1 .. m BY <1>3
  <2> QED BY <1>4, <1>5, <2>1, <2>2 DEF DoneAgrees, m
<1>7. Undone(us) = Undone(s.tests) \cup {m + 1} /\ m + 1 \notin Undone(s.tests)
  <2> HIDE DEF m
  <2>1. \A i \in 1 .. m + 1 : i = m + 1 \/ i \in 1 .. m BY <1>3
  <2>2. \A i \in 1 .. m : i \in 1 .. m + 1 /\ i # m + 1 BY <1>3
  <2>3. m + 1 \in 1 .. m + 1 /\ m + 1 \notin 1 .. m BY <1>3
  <2> QED BY <1>3, <1>4, <1>5, <2>1, <2>2, <2>3 DEF Undone
<1>8. Cardinality(Undone(us)) = Cardinality(Undone(s.tests)) + 1
  <2>1. IsFiniteSet(1 .. m) BY <1>3, FS_Interval
  <2>2. Undone(s.tests) \in SUBSET (1 .. m) BY <1>3 DEF Undone
  <2>3. IsFiniteSet(Undone(s.tests)) BY ONLY <2>1, <2>2, FS_Subset
  <2> QED BY ONLY <1>7, <2>3, FS_AddElement
<1>9. FramesAgree(o.stack, m + 1, due, o.phase = COMPLETE)
  <2>1. FramesAgree(s.stack, m, due, s.phase = COMPLETE) BY DEF Sane, SaneCore
  <2>2. \A i \in 1 .. m : i \in 1 .. m + 1 BY <1>3
  <2> HIDE DEF m
  <2> QED BY <1>2, <2>1, <2>2 DEF FramesAgree
<1>10. due \in Nat /\ due <= m /\ due <= m + 1 /\ \A u \in 1 .. due : u \in 1 .. m BY <1>3 DEF Sane, SaneCore
<1>11. o.phase = COMPLETE /\ o.status \in {"null", "OK"} => \A u \in 1 .. due : us[u].is_done
  BY <1>2, <1>5, <1>10 DEF Sane, SaneCore
<1>12. o.phase # COMPLETE => o.num_pending = Cardinality(Undone(us))
  BY <1>2, <1>8 DEF Sane, SaneCore
<1>13. Sane(o, due)
  BY <1>2, <1>5, <1>6, <1>9, <1>10, <1>11, <1>12 DEF Sane, SaneCore, us
<1> QED BY <1>2, <1>5, <1>13 DEF o, us

\* Completing, and going on with it.
LEMMA SaneLoop ==
  ASSUME NEW s, NEW o, NEW base \in Seq(FrameRecord), NEW from, NEW n \in Nat,
         s \in HarnessState, DoneAgrees(s.tests), n <= Len(s.tests),
         s.status \in {"null", "OK"} => \A t \in 1 .. n : s.tests[t].is_done,
         FramesAgree(base, Len(s.tests), n, TRUE), NoneFresh(base), NoneEnds(base),
         from \in Nat, LoopsOn(s, o, base, from, n)
  PROVE  Leaves(o, n)
<1>1. Len(s.tests) \in Nat /\ s.status \in {"null", "OK", "ERROR", "TIMEOUT"} BY StateParts
<1>2. /\ o \in HarnessState /\ o.tests = s.tests /\ o.phase = COMPLETE
      /\ AllIsTold(s, o, base, from, n) \/ \E t \in Nat : NextIsTold(s, o, base, from, n, t)
  BY DEF LoopsOn
<1>3. o.status \in {"null", "OK"} => s.status \in {"null", "OK"}
  BY <1>2 DEF AllIsTold, NextIsTold
<1>4. NumCallbacks \in Nat \ {0} BY HarnessAssumption
<1>5. FramesAgree(o.stack, Len(o.tests), n, TRUE) /\ OnlyLastFresh(o.stack) /\ NoneEnds(o.stack)
  <2>1. CASE AllIsTold(s, o, base, from, n)
    <3> DEFINE f == RunFrame("allDone", 0, 1)
    <3>1. o.stack = Append(base, f) BY <2>1 DEF AllIsTold
    <3>2. f \in FrameRecord BY FrameTypes
    <3>3. f.kind = "allDone" /\ f.k = 1 BY DEF RunFrame
    <3> HIDE DEF f
    <3>4. /\ FramesAgree(Append(base, f), Len(s.tests), n, TRUE)
          /\ OnlyLastFresh(Append(base, f)) /\ NoneEnds(Append(base, f))
      <4>1. 1 \in 1 .. NumCallbacks BY <1>4
      <4> QED BY ONLY <3>2, <3>3, <4>1, base \in Seq(FrameRecord), FramesAgree(base, Len(s.tests), n, TRUE),
                NoneFresh(base), NoneEnds(base), AppendedFrame DEF CallbackKinds
    <3> QED BY <1>2, <3>1, <3>4
  <2>2. ASSUME NEW t \in Nat, NextIsTold(s, o, base, from, n, t)
        PROVE  FramesAgree(o.stack, Len(s.tests), n, TRUE) /\ OnlyLastFresh(o.stack) /\ NoneEnds(o.stack)
    <3>1. PICK fresh \in BOOLEAN :
            o.stack = Append(Append(base, [kind |-> "complete", test |-> t, k |-> n, fresh |-> fresh]),
                             RunFrame("result", t, 1))
      BY <2>2 DEF NextIsTold
    <3> DEFINE c == [kind |-> "complete", test |-> t, k |-> n, fresh |-> fresh]
               f == RunFrame("result", t, 1)
               st == Append(base, c)
               m == Len(base)
    <3>2. t \in from + 1 .. n BY <2>2 DEF NextIsTold
    <3>3. c \in FrameRecord /\ c.kind = "complete" /\ c.test = t /\ c.k = n BY DEF FrameRecord
    <3>4. f \in FrameRecord BY FrameTypes
    <3>5. f.kind = "result" /\ f.k = 1 /\ f.test = t BY DEF RunFrame
    <3>6. o.stack = Append(st, f) BY <3>1
    <3> HIDE DEF c, f
    <3>7. m \in Nat /\ st \in Seq(FrameRecord) /\ Len(st) = m + 1 /\ (\A i \in 1 .. m : st[i] = base[i]) /\ st[m + 1] = c
      BY <3>3, AppendedStack
    <3> HIDE DEF st
    <3>8. NoneFresh(st)
      <4> HIDE DEF m
      <4>1. \A i \in 1 .. m + 1 : i = m + 1 \/ i \in 1 .. m BY <3>7
      <4> QED BY <3>3, <3>7, <4>1 DEF NoneFresh, CallbackKinds, m
    <3>9. FramesAgree(st, Len(s.tests), n, TRUE)
      <4> SUFFICES ASSUME NEW i \in 1 .. m + 1
                   PROVE  /\ st[i].kind \in {"step", "result"} => st[i].test \in 1 .. Len(s.tests)
                          /\ st[i].kind \in CallbackKinds => st[i].k \in 1 .. NumCallbacks
                          /\ st[i].kind = "complete" => /\ TRUE /\ st[i].k = n /\ st[i].test \in 0 .. n
                                                        /\ i < m + 1 => st[i + 1].kind = "result"
        BY <3>7 DEF FramesAgree
      <4>1. CASE i = m + 1
        <5>1. t \in 0 .. n BY <3>2
        <5> QED BY <3>3, <3>7, <4>1, <5>1 DEF CallbackKinds
      <4>2. CASE i \in 1 .. m
        <5>1. st[i] = base[i] BY <3>7, <4>2
        <5>2. /\ base[i].kind \in {"step", "result"} => base[i].test \in 1 .. Len(s.tests)
              /\ base[i].kind \in CallbackKinds => base[i].k \in 1 .. NumCallbacks
              /\ base[i].kind = "complete" => base[i].k = n /\ base[i].test \in 0 .. n
          BY <4>2 DEF FramesAgree
        <5>3. ASSUME base[i].kind = "complete" PROVE st[i + 1].kind = "result"
          <6>1. i < m /\ base[i + 1].kind = "result" BY <4>2, <5>3 DEF NoneEnds, FramesAgree
          <6>2. i + 1 \in 1 .. m BY <3>7, <4>2, <6>1
          <6> QED BY <3>7, <6>1, <6>2
        <5> QED BY <5>1, <5>2, <5>3
      <4> QED BY <3>7, <4>1, <4>2
    <3>10. t \in 1 .. Len(s.tests) /\ 1 \in 1 .. NumCallbacks BY <1>1, <1>4, <3>2
    <3>11. /\ FramesAgree(Append(st, f), Len(s.tests), n, TRUE)
           /\ OnlyLastFresh(Append(st, f)) /\ NoneEnds(Append(st, f))
      BY ONLY <3>4, <3>5, <3>7, <3>8, <3>9, <3>10, AppendedFrame DEF CallbackKinds
    <3> QED BY <3>6, <3>11
  <2> QED BY <1>2, <2>1, <2>2
<1>6. Sane(o, n) BY <1>1, <1>2, <1>3, <1>5 DEF Sane, SaneCore
<1> QED BY <1>5, <1>6 DEF Leaves

\* The number of tests whose results are due, from when it completes.
DueAfter(s, o, due) == IF s.phase # COMPLETE /\ o.phase = COMPLETE THEN Len(s.tests) ELSE due

\* A stack without its last frame.
LEMMA PoppedFrames ==
  ASSUME NEW st \in Seq(FrameRecord), st # <<>>, NEW n, NEW due, NEW c, FramesAgree(st, n, due, c)
  PROVE  /\ Front(st) \in Seq(FrameRecord) /\ FramesAgree(Front(st), n, due, c)
         /\ OnlyLastFresh(st) => NoneFresh(Front(st))
         /\ Last(st).kind # "result" => NoneEnds(Front(st))
<1> DEFINE u == Front(st)
           m == Len(st)
<1>1. u \in Seq(FrameRecord) /\ m \in Nat \ {0} /\ Len(u) = m - 1 /\ (\A i \in 1 .. m - 1 : u[i] = st[i]) /\ Last(st) = st[m]
  BY ONLY FrontOfStack, st \in Seq(FrameRecord), st # <<>>
<1> HIDE DEF u, m
<1>2. OnlyLastFresh(st) => NoneFresh(u)
  <2>1. \A i \in 1 .. m - 1 : i \in 1 .. m /\ i < m BY <1>1
  <2> QED BY <1>1, <2>1 DEF OnlyLastFresh, NoneFresh, m
<1>3. ASSUME Last(st).kind # "result", NEW i \in 1 .. m - 1, u[i].kind = "complete" PROVE i < m - 1
  <2>1. i \in 1 .. m /\ i < m /\ st[i].kind = "complete" BY <1>1, <1>3
  <2>2. st[i + 1].kind = "result" BY <2>1 DEF FramesAgree, m
  <2>3. i + 1 # m BY <1>1, <1>3, <2>2
  <2> QED BY <1>1, <2>1, <2>3
<1>4. ASSUME NEW i \in 1 .. m - 1
      PROVE  /\ u[i].kind \in {"step", "result"} => u[i].test \in 1 .. n
             /\ u[i].kind \in CallbackKinds => u[i].k \in 1 .. NumCallbacks
             /\ u[i].kind = "complete" => /\ c /\ u[i].k = due /\ u[i].test \in 0 .. due
                                          /\ i < m - 1 => u[i + 1].kind = "result"
  <2>1. i \in 1 .. m /\ i < m /\ u[i] = st[i] BY <1>1
  <2>2. i < m - 1 => i + 1 \in 1 .. m - 1 /\ u[i + 1] = st[i + 1] BY <1>1
  <2> QED BY <2>1, <2>2 DEF FramesAgree, m
<1>5. FramesAgree(u, n, due, c) BY <1>1, <1>4 DEF FramesAgree
<1>6. Last(st).kind # "result" => NoneEnds(u) BY <1>1, <1>3 DEF NoneEnds
<1> QED BY <1>1, <1>2, <1>5, <1>6 DEF u

\* The harness that completes does so only when its tests are done, or says otherwise.
LEMMA SaneFinished ==
  ASSUME NEW s, NEW due, Sane(s, due), NoneFresh(s.stack), NEW o, Finished(s, o),
         s.phase # COMPLETE /\ s.status \in {"null", "OK"} /\ o # s => s.num_pending = 0
  PROVE  Leaves(o, DueAfter(s, o, due))
<1>0. /\ s \in HarnessState /\ due \in Nat /\ due <= Len(s.tests) /\ DoneAgrees(s.tests)
      /\ FramesAgree(s.stack, Len(s.tests), due, s.phase = COMPLETE)
  BY DEF Sane, SaneCore
<1>1. /\ s.stack \in Seq(FrameRecord) /\ Len(s.stack) \in Nat /\ s.tests \in Seq(TestRecord) /\ Len(s.tests) \in Nat
      /\ DOMAIN s.tests = 1 .. Len(s.tests)
  BY ONLY <1>0, StateParts
<1>2. CASE o = s /\ ~ OnTop(s, "complete")
  <2>1. NoneEnds(s.stack)
    <3> SUFFICES ASSUME NEW i \in 1 .. Len(s.stack), s.stack[i].kind = "complete", i >= Len(s.stack) PROVE FALSE
      BY <1>1 DEF NoneEnds
    <3>1. i = Len(s.stack) /\ s.stack # <<>> BY <1>1
    <3>2. OnTop(s, "complete") BY <3>1 DEF OnTop, TopFrame, Last
    <3> QED BY <1>2, <3>2
  <2>2. OnlyLastFresh(s.stack) BY DEF NoneFresh, OnlyLastFresh
  <2> QED BY <1>2, <2>1, <2>2 DEF Leaves, DueAfter
<1>3. CASE s.phase # COMPLETE /\ o # s /\ LoopsOn(s, o, s.stack, 0, Len(s.tests))
  <2>1. o.phase = COMPLETE BY <1>3 DEF LoopsOn
  <2>2. DueAfter(s, o, due) = Len(s.tests) BY <1>3, <2>1 DEF DueAfter
  <2>3. \A i \in 1 .. Len(s.stack) : s.stack[i].kind # "complete" BY <1>0, <1>3 DEF FramesAgree
  <2>4. NoneEnds(s.stack) BY <2>3 DEF NoneEnds
  <2>5. FramesAgree(s.stack, Len(s.tests), Len(s.tests), TRUE) BY <1>0, <2>3 DEF FramesAgree
  <2>6. s.status \in {"null", "OK"} => \A t \in 1 .. Len(s.tests) : s.tests[t].is_done
    <3> SUFFICES ASSUME s.num_pending = 0 PROVE \A t \in 1 .. Len(s.tests) : s.tests[t].is_done
      BY <1>3
    <3>1. Cardinality(Undone(s.tests)) = 0 BY <1>3 DEF Sane, SaneCore
    <3>2. IsFiniteSet(Undone(s.tests))
      <4>1. IsFiniteSet(1 .. Len(s.tests)) BY <1>1, FS_Interval
      <4>2. Undone(s.tests) \in SUBSET (1 .. Len(s.tests)) BY <1>1 DEF Undone
      <4> QED BY ONLY <4>1, <4>2, FS_Subset
    <3>3. Undone(s.tests) = {} BY ONLY <3>1, <3>2, FS_EmptySet
    <3> QED BY <1>1, <3>3 DEF Undone
  <2>7. Leaves(o, Len(s.tests))
    <3>1. Len(s.tests) <= Len(s.tests) /\ 0 \in Nat BY <1>1
    <3> QED BY ONLY <1>0, <1>1, <1>3, <2>4, <2>5, <2>6, <3>1, NoneFresh(s.stack), SaneLoop
  <2> QED BY <2>2, <2>7
<1>4. CASE OnTop(s, "complete") /\ LoopsOn(s, o, Front(s.stack), Last(s.stack).test, Last(s.stack).k)
  <2> DEFINE frame == Last(s.stack)
             base == Front(s.stack)
  <2>1. s.stack # <<>> /\ frame.kind = "complete" BY <1>4 DEF OnTop, TopFrame
  <2>2. Len(s.stack) \in 1 .. Len(s.stack) /\ frame = s.stack[Len(s.stack)]
    <3>1. Len(s.stack) \in Nat \ {0} /\ Last(s.stack) = s.stack[Len(s.stack)]
      BY ONLY <1>1, <2>1, FrontOfStack
    <3> QED BY ONLY <3>1 DEF frame
  <2>3. s.phase = COMPLETE /\ frame.k = due /\ frame.test \in 0 .. due
    BY <1>0, <2>1, <2>2 DEF FramesAgree
  <2>4. base \in Seq(FrameRecord) /\ FramesAgree(base, Len(s.tests), due, TRUE) /\ NoneFresh(base) /\ NoneEnds(base)
    <3>1. OnlyLastFresh(s.stack) BY DEF NoneFresh, OnlyLastFresh
    <3>2. FramesAgree(s.stack, Len(s.tests), due, TRUE) /\ frame.kind # "result" BY <1>0, <2>1, <2>3
    <3> QED BY ONLY <1>1, <2>1, <3>1, <3>2, PoppedFrames
  <2>5. s.status \in {"null", "OK"} => \A t \in 1 .. due : s.tests[t].is_done BY <2>3 DEF Sane, SaneCore
  <2> HIDE DEF base, frame
  <2>6. LoopsOn(s, o, base, frame.test, due) /\ frame.test \in Nat BY <1>4, <2>3 DEF base, frame
  <2>7. Leaves(o, due) BY ONLY <1>0, <2>4, <2>5, <2>6, SaneLoop
  <2>8. DueAfter(s, o, due) = due BY <2>3 DEF DueAfter
  <2> QED BY <2>7, <2>8
<1>5. CASE s.phase # COMPLETE /\ o = s /\ LoopsOn(s, o, s.stack, 0, Len(s.tests))
  BY <1>5 DEF LoopsOn
<1> QED BY <1>2, <1>3, <1>4, <1>5 DEF Finished

(***************************************************************************)
(* The steps of the harness.                                               *)
(***************************************************************************)
\* What the calls of a step count, and the flags they set, is not told.
Flags(s, o) ==
  /\ o \in HarnessState
  /\ o.tests = s.tests /\ o.num_pending = s.num_pending /\ o.table = s.table /\ o.stack = s.stack
  /\ o.output = s.output
  /\ o.phase = COMPLETE <=> s.phase = COMPLETE
  /\ o.status = s.status \/ o.status \in {"ERROR", "TIMEOUT"}

LEMMA FlagsSane ==
  ASSUME NEW s, NEW o, NEW due, Flags(s, o)
  PROVE  /\ Sane(s, due) => Sane(o, due)
         /\ Leaves(s, due) => Leaves(o, due)
<1>1. Sane(s, due) => Sane(o, due) BY DEF Sane, SaneCore, Flags
<1> QED BY <1>1 DEF Leaves, Flags

LEMMA CalledFlags ==
  ASSUME NEW s \in HarnessState
  PROVE  Flags(s, Called(s)) /\ Called(s).phase = s.phase /\ Called(s).status = s.status
<1> DEFINE n == s.calls + 1
<1>1. n \in Nat BY DEF HarnessState
<1>2. Called(s) = [s EXCEPT !.calls = n] BY DEF Called, HarnessState
<1> HIDE DEF n
<1>3. /\ Called(s) \in HarnessState /\ Called(s).tests = s.tests /\ Called(s).num_pending = s.num_pending
      /\ Called(s).table = s.table /\ Called(s).stack = s.stack /\ Called(s).output = s.output
      /\ Called(s).phase = s.phase /\ Called(s).status = s.status
  BY ONLY s \in HarnessState, <1>1, <1>2 DEF HarnessState
<1> QED BY ONLY <1>3 DEF Flags

LEMMA SetTest ==
  ASSUME NEW s, NEW due, Sane(s, due), NEW t \in 1 .. Len(s.tests), ~ s.tests[t].is_done,
         NEW r \in TestRecord, ~ r.is_done,
         NEW v, v = [s EXCEPT !.tests[t] = r]
  PROVE  /\ SaneCore(v, due) /\ v.stack = s.stack /\ v.phase = s.phase /\ v.table = s.table /\ v.output = s.output
         /\ v.num_pending = s.num_pending
         /\ v.status = s.status /\ Len(v.tests) = Len(s.tests) /\ v.tests[t] = r
         /\ \A u \in 1 .. Len(s.tests) : u # t => v.tests[u] = s.tests[u]
         /\ \A u \in 1 .. Len(v.tests) : u # t => /\ v.tests[u].is_done <=> v.tests[u].status # "NOTRUN"
                                                  /\ v.tests[u].is_done => v.tests[u].timer # "set"
<1> DEFINE ts == s.tests
           us == [ts EXCEPT ![t] = r]
<1>1. s \in HarnessState BY DEF Sane, SaneCore
<1>2. ts \in Seq(TestRecord) /\ Len(ts) \in Nat /\ DOMAIN ts = 1 .. Len(ts) BY ONLY <1>1, StateParts
<1>3. /\ us \in Seq(TestRecord) /\ Len(us) = Len(ts)
      /\ \A u \in 1 .. Len(ts) : us[u] = IF u = t THEN r ELSE ts[u]
  BY ONLY <1>2, t \in 1 .. Len(s.tests), r \in TestRecord, ExceptSeq
<1>4. v = [s EXCEPT !.tests = us] BY <1>1, <1>2 DEF HarnessState
<1> HIDE DEF us
<1>5. /\ v \in HarnessState /\ v.tests = us /\ v.status = s.status /\ v.table = s.table /\ v.output = s.output
      /\ v.phase = s.phase /\ v.stack = s.stack /\ v.num_pending = s.num_pending
  BY ONLY <1>1, <1>3, <1>4 DEF HarnessState
<1>6. DOMAIN us = 1 .. Len(ts) BY ONLY <1>3, LenProperties
<1>7. Undone(us) = Undone(ts) BY <1>2, <1>3, <1>6 DEF Undone
<1>8. \A u \in 1 .. due : u \in 1 .. Len(ts) BY <1>2 DEF Sane, SaneCore
<1>9. \A u \in 1 .. due : ts[u].is_done => us[u].is_done BY <1>3, <1>8
<1>10. SaneCore(v, due)
  <2> HIDE DEF ts
  <2>1. s.tests = ts BY DEF ts
  <2> QED BY <1>3, <1>5, <1>7, <1>9, <2>1 DEF Sane, SaneCore
<1>11. \A u \in 1 .. Len(us) : u # t => /\ us[u].is_done <=> us[u].status # "NOTRUN"
                                        /\ us[u].is_done => us[u].timer # "set"
  BY <1>2, <1>3 DEF Sane, DoneAgrees
<1> QED BY <1>3, <1>5, <1>10, <1>11

\* What follows a step: the frame on top of the stack begins.
LEMMA BegunState ==
  ASSUME NEW o \in HarnessState
  PROVE  LET b == Begun(o) IN
         /\ b \in HarnessState
         /\ b.tests = o.tests /\ b.num_pending = o.num_pending /\ b.phase = o.phase /\ b.status = o.status
         /\ b.output = o.output /\ b.table = o.table
         /\ Len(b.stack) = Len(o.stack)
         /\ \A i \in 1 .. Len(o.stack) : /\ b.stack[i].kind = o.stack[i].kind
                                         /\ b.stack[i].test = o.stack[i].test
                                         /\ b.stack[i].k = o.stack[i].k
                                         /\ ~ b.stack[i].fresh <=> i = Len(o.stack) \/ ~ o.stack[i].fresh
<1> DEFINE b == Begun(o)
           n == Len(o.stack)
<1>1. o.stack \in Seq(FrameRecord) /\ n \in Nat BY StateParts
<1>2. CASE o.stack = <<>>
  <2>1. b = o BY <1>2 DEF Begun
  <2>2. n = 0 BY <1>2
  <2> QED BY <1>1, <2>1, <2>2
<1>3. CASE o.stack # <<>>
  <2> DEFINE q == o.stack[n]
             r == [q EXCEPT !.fresh = FALSE]
             st == [o.stack EXCEPT ![n] = r]
  <2>1. n \in 1 .. n /\ q \in FrameRecord
    <3>1. n \in Nat \ {0} BY ONLY <1>1, <1>3, EmptySeq
    <3> QED BY <1>1, <3>1
  <2>2. r \in FrameRecord /\ r.kind = q.kind /\ r.test = q.test /\ r.k = q.k /\ ~ r.fresh
    <3> HIDE DEF q
    <3> QED BY <2>1 DEF FrameRecord
  <2>3. b = [o EXCEPT !.stack[n] = r]
    <3>1. b = [o EXCEPT !.stack[n].fresh = FALSE] BY <1>3 DEF Begun
    <3> QED BY <2>1, <3>1 DEF HarnessState
  <2> HIDE DEF r, q
  <2>4. /\ st \in Seq(FrameRecord) /\ Len(st) = n
        /\ \A i \in 1 .. n : st[i] = IF i = n THEN r ELSE o.stack[i]
    BY ONLY <1>1, <2>1, <2>2, ExceptSeq
  <2>5. b = [o EXCEPT !.stack = st] BY <2>1, <2>3 DEF HarnessState
  <2> HIDE DEF st, b
  <2>6. /\ b \in HarnessState /\ b.stack = st
        /\ b.tests = o.tests /\ b.num_pending = o.num_pending /\ b.phase = o.phase /\ b.status = o.status
        /\ b.output = o.output /\ b.table = o.table
    BY ONLY o \in HarnessState, <2>4, <2>5 DEF HarnessState
  <2>7. \A i \in 1 .. n : /\ st[i].kind = o.stack[i].kind /\ st[i].test = o.stack[i].test /\ st[i].k = o.stack[i].k
                          /\ ~ st[i].fresh <=> i = n \/ ~ o.stack[i].fresh
    BY <2>1, <2>2, <2>4 DEF q
  <2> QED BY <2>4, <2>6, <2>7 DEF b
<1> QED BY <1>2, <1>3

\* What the steps do to the history: results, the completion, and how many were due.
Tells(o) ==
  /\ said' \in HarnessHistory
  /\ said'.results = Told(o).results /\ said'.completed = Told(o).completed /\ said'.due = Told(o).due

GoesOn(o) == th' = Begun(o) /\ Leaves(o, DueAfter(th, o, said.due)) /\ Tells(o)

ToldResult(o)     == OnTop(o, "result") /\ Last(o.stack).fresh
ToldCompletion(o) == OnTop(o, "allDone") /\ Last(o.stack).fresh

\* Told records the callback that is called, if one is.
LEMMA ToldHistory ==
  ASSUME HarnessInv, NEW o, Leaves(o, DueAfter(th, o, said.due))
  PROVE  /\ Told(o) \in HarnessHistory
         /\ Told(o).due = DueAfter(th, o, said.due)
         /\ Told(o).nested = said.nested /\ Told(o).thrown = said.thrown
         /\ IF ToldResult(o)
            THEN LET f == Last(o.stack) IN
                 /\ f.k \in 1 .. NumCallbacks /\ f.test \in 1 .. Len(o.tests)
                 /\ <<f.test, o.tests[f.test].status>> \in Nat \X Outcomes
                 /\ Told(o).results[f.k] = Append(said.results[f.k], <<f.test, o.tests[f.test].status>>)
                 /\ \A k \in 1 .. NumCallbacks : k # f.k => Told(o).results[k] = said.results[k]
            ELSE Told(o).results = said.results
         /\ IF ToldCompletion(o)
            THEN LET f == Last(o.stack) IN
                 /\ f.k \in 1 .. NumCallbacks
                 /\ Told(o).completed[f.k] = Len(said.results[f.k]) + 1
                 /\ \A k \in 1 .. NumCallbacks : k # f.k => Told(o).completed[k] = said.completed[k]
            ELSE Told(o).completed = said.completed
<1> DEFINE f == Last(o.stack)
           due == DueAfter(th, o, said.due)
           now == [said EXCEPT !.due = due]
           pair == <<f.test, o.tests[f.test].status>>
<1>1. o \in HarnessState /\ due \in Nat /\ FramesAgree(o.stack, Len(o.tests), due, o.phase = COMPLETE)
  BY DEF Leaves, Sane, SaneCore
<1>2. said \in HarnessHistory BY DEF HarnessInv
<1> HIDE DEF due
<1>3. /\ now \in HarnessHistory /\ now.due = due /\ now.nested = said.nested /\ now.thrown = said.thrown
      /\ now.results = said.results /\ now.completed = said.completed
  BY <1>1, <1>2 DEF HarnessHistory
<1>4. Told(o) = IF OnTop(o, "result") /\ f.fresh THEN [now EXCEPT !.results[f.k] = Append(@, pair)]
                ELSE IF OnTop(o, "allDone") /\ f.fresh THEN [now EXCEPT !.completed[f.k] = Len(said.results[f.k]) + 1]
                ELSE now
  <2>1. ~ (OnTop(o, "result") /\ OnTop(o, "allDone")) BY DEF OnTop
  <2> QED BY <2>1 DEF Told, TopFrame, DueAfter, due
<1> HIDE DEF now
<1>5. ASSUME o.stack # <<>>
      PROVE  /\ f.kind = "result" => f.test \in 1 .. Len(o.tests)
             /\ f.kind \in CallbackKinds => f.k \in 1 .. NumCallbacks
  <2>1. o.stack \in Seq(FrameRecord) BY ONLY <1>1, StateParts
  <2>2. f = o.stack[Len(o.stack)] /\ Len(o.stack) \in Nat \ {0} BY ONLY <1>5, <2>1, FrontOfStack
  <2>3. Len(o.stack) \in 1 .. Len(o.stack) BY <2>2
  <2> HIDE DEF f
  <2> QED BY <1>1, <2>2, <2>3 DEF FramesAgree
<1>6. CASE ToldResult(o)
  <2>1. f.k \in 1 .. NumCallbacks /\ f.test \in 1 .. Len(o.tests)
    BY <1>5, <1>6 DEF ToldResult, OnTop, TopFrame, CallbackKinds
  <2>2. pair \in Nat \X Outcomes
    <3>1. o.tests \in Seq(TestRecord) BY ONLY <1>1, StateParts
    <3>2. \A t \in 1 .. Len(o.tests) : o.tests[t].status \in Outcomes /\ t \in Nat BY ONLY <3>1, TestsAreRecords
    <3> HIDE DEF f
    <3> QED BY <2>1, <3>2
  <2>3. Told(o) = [now EXCEPT !.results[f.k] = Append(@, pair)] BY <1>4, <1>6 DEF ToldResult
  <2> DEFINE k == f.k
             res == Append(said.results[k], pair)
  <2> HIDE DEF pair, f
  <2>4. said.results[k] \in Seq(Nat \X Outcomes) /\ now.results \in [1 .. NumCallbacks -> Seq(Nat \X Outcomes)]
    BY <1>3, <2>1 DEF HarnessHistory
  <2>5. res \in Seq(Nat \X Outcomes) BY ONLY <2>2, <2>4, AppendedStack
  <2>6. now.results[k] = said.results[k] BY <1>3
  <2>7. Told(o) = [now EXCEPT !.results[k] = res] BY <2>3, <2>6
  <2> HIDE DEF k, res
  <2> DEFINE rs == [now.results EXCEPT ![k] = res]
  <2>8. k \in 1 .. NumCallbacks BY <2>1 DEF k
  <2>9. Told(o) = [now EXCEPT !.results = rs] BY <1>3, <2>7 DEF HarnessHistory
  <2>10. rs \in [1 .. NumCallbacks -> Seq(Nat \X Outcomes)] /\ rs[k] = res
         /\ \A j \in 1 .. NumCallbacks : j # k => rs[j] = now.results[j]
    BY <2>4, <2>5, <2>8
  <2> HIDE DEF rs
  <2>11. /\ Told(o) \in HarnessHistory /\ Told(o).results = rs /\ Told(o).due = now.due
         /\ Told(o).nested = now.nested /\ Told(o).thrown = now.thrown /\ Told(o).completed = now.completed
    BY <1>3, <2>9, <2>10 DEF HarnessHistory
  <2>12. ~ ToldCompletion(o) BY <1>6 DEF ToldResult, ToldCompletion, OnTop
  <2> QED BY <1>3, <1>6, <2>1, <2>2, <2>10, <2>11, <2>12 DEF k, res, pair, f, due
<1>7. CASE ToldCompletion(o)
  <2>1. f.k \in 1 .. NumCallbacks BY <1>5, <1>7 DEF ToldCompletion, OnTop, TopFrame, CallbackKinds
  <2>2. ~ ToldResult(o) BY <1>7 DEF ToldResult, ToldCompletion, OnTop
  <2> DEFINE k == f.k
             c == Len(said.results[k]) + 1
             cs == [now.completed EXCEPT ![k] = c]
  <2>3. Told(o) = [now EXCEPT !.completed[k] = c] BY <1>4, <1>7, <2>2 DEF ToldResult, ToldCompletion
  <2> HIDE DEF f
  <2>4. c \in Nat
    <3>1. said.results[k] \in Seq(Nat \X Outcomes) BY <1>2, <2>1 DEF HarnessHistory
    <3> QED BY <3>1
  <2>5. k \in 1 .. NumCallbacks BY <2>1
  <2> HIDE DEF c, k
  <2>6. now.completed \in [1 .. NumCallbacks -> Nat] BY <1>3 DEF HarnessHistory
  <2>7. cs \in [1 .. NumCallbacks -> Nat] /\ cs[k] = c /\ \A j \in 1 .. NumCallbacks : j # k => cs[j] = now.completed[j]
    BY <2>4, <2>5, <2>6
  <2>8. Told(o) = [now EXCEPT !.completed = cs] BY <1>3, <2>3 DEF HarnessHistory
  <2> HIDE DEF cs
  <2>9. /\ Told(o) \in HarnessHistory /\ Told(o).results = now.results /\ Told(o).due = now.due
        /\ Told(o).nested = now.nested /\ Told(o).thrown = now.thrown /\ Told(o).completed = cs
    BY <1>3, <2>7, <2>8 DEF HarnessHistory
  <2> QED BY <1>3, <1>7, <2>2, <2>5, <2>7, <2>9 DEF c, k, f, due
<1>8. CASE ~ ToldResult(o) /\ ~ ToldCompletion(o)
  <2>1. Told(o) = now BY <1>4, <1>8 DEF ToldResult, ToldCompletion
  <2> QED BY <1>3, <1>8, <2>1 DEF due
<1> QED BY <1>6, <1>7, <1>8

\* A state the harness is in when one of its functions is called or comes back:
\* perhaps a test was made, perhaps the frame on top of the stack has ended.
Base(s) ==
  /\ s \in HarnessState
  /\ Len(th.tests) <= Len(s.tests)
  /\ \A t \in 1 .. Len(th.tests) : s.tests[t] = th.tests[t]
  /\ \A t \in 1 .. Len(s.tests) : t > Len(th.tests) => ~ s.tests[t].is_done
  /\ s.phase = COMPLETE <=> th.phase = COMPLETE
  /\ s.output = "COMPLETE" <=> th.output = "COMPLETE"
  /\ s.table = th.table
  /\ \/ s.stack = th.stack
     \/ /\ th.stack # <<>> /\ s.stack = Front(th.stack)
        /\ Last(th.stack).kind \in CallbackKinds => Last(th.stack).k = NumCallbacks

SameResults(s, o) ==
  /\ o \in HarnessState /\ Len(o.tests) = Len(s.tests)
  /\ \A t \in 1 .. Len(s.tests) : o.tests[t].status = s.tests[t].status /\ o.tests[t].is_done = s.tests[t].is_done
  /\ o.phase = COMPLETE <=> s.phase = COMPLETE
  /\ o.output = "COMPLETE" <=> s.output = "COMPLETE"
  /\ o.table = s.table

\* No test gets a result and no callback is called.
Quietly(s, o) ==
  /\ SameResults(s, o)
  /\ \/ o.stack = s.stack /\ NoneFresh(s.stack)
     \/ \E f \in FrameRecord : f.kind \in {"step", "setup"} /\ o.stack = Append(s.stack, f)

\* A test gets its result, and unless all is complete the first callback is told.
WithResult(s, o, t) ==
  /\ t \in 1 .. Len(s.tests) /\ ~ s.tests[t].is_done
  /\ o \in HarnessState /\ Len(o.tests) = Len(s.tests) /\ o.tests[t].is_done
  /\ \A u \in 1 .. Len(s.tests) : u # t => o.tests[u].status = s.tests[u].status /\ o.tests[u].is_done = s.tests[u].is_done
  /\ o.phase = COMPLETE <=> s.phase = COMPLETE
  /\ o.output = "COMPLETE" <=> s.output = "COMPLETE"
  /\ o.table = s.table
  /\ o.stack = IF s.phase = COMPLETE THEN s.stack ELSE Append(s.stack, RunFrame("result", t, 1))

\* The harness completes, or goes on with the loop of complete().
Completing(s, o) ==
  /\ Len(s.tests) = Len(th.tests)
  /\ \/ s.phase # COMPLETE /\ LoopsOn(s, o, s.stack, 0, Len(s.tests))
     \/ OnTop(s, "complete") /\ LoopsOn(s, o, Front(s.stack), Last(s.stack).test, Last(s.stack).k)

\* The next callback is called.
Continuing(o) ==
  /\ th.stack # <<>> /\ Last(th.stack).kind \in CallbackKinds /\ Last(th.stack).k < NumCallbacks
  /\ SameResults(th, o)
  /\ o.stack = Append(Front(th.stack), [Last(th.stack) EXCEPT !.k = @ + 1, !.fresh = TRUE])

HarnessStep(s, o) ==
  /\ th' = Begun(o) /\ Leaves(o, DueAfter(th, o, said.due)) /\ Tells(o)
  /\ said.nested => said'.nested
  /\ said.thrown => said'.thrown
  /\ \/ said'.thrown
     \/ /\ Base(s) /\ (InCallback(s) /\ Finishes(o) => said'.nested)
        /\ Quietly(s, o) \/ (\E t \in 1 .. Len(th.tests) : WithResult(s, o, t)) \/ Completing(s, o) \/ Continuing(o)

\* A step that ends in ToFrom changes the history as it should.
LEMMA ToTells ==
  ASSUME HarnessInv, NEW outer, NEW o, ToFrom(outer, o), Leaves(o, DueAfter(th, o, said.due))
  PROVE  /\ th' = Begun(o) /\ Tells(o)
         /\ said.nested => said'.nested
         /\ said.thrown => said'.thrown
         /\ InCallback(outer) /\ Finishes(o) => said'.nested
<1>1. Told(o) \in HarnessHistory /\ Told(o).nested = said.nested /\ Told(o).thrown = said.thrown BY ToldHistory
<1> DEFINE n == said.nested \/ (InCallback(outer) /\ Finishes(o))
<1>2. th' = Begun(o) /\ said' = [Told(o) EXCEPT !.nested = n] BY <1>1 DEF ToFrom
<1>3. n \in BOOLEAN /\ (said.nested => n) /\ (InCallback(outer) /\ Finishes(o) => n)
  <2>1. said.nested \in BOOLEAN BY DEF HarnessInv, HarnessHistory
  <2>2. InCallback(outer) \in BOOLEAN BY DEF InCallback
  <2>3. Finishes(o) \in BOOLEAN BY DEF Finishes
  <2> QED BY <2>1, <2>2, <2>3
<1> HIDE DEF n
<1>4. /\ said' \in HarnessHistory /\ said'.nested = n /\ said'.thrown = Told(o).thrown
      /\ said'.results = Told(o).results /\ said'.completed = Told(o).completed /\ said'.due = Told(o).due
  BY ONLY <1>1, <1>2, <1>3 DEF HarnessHistory
<1> QED BY <1>1, <1>2, <1>3, <1>4 DEF Tells

LEMMA InvParts ==
  ASSUME HarnessInv
  PROVE  /\ th \in HarnessState /\ Sane(th, said.due) /\ NoneFresh(th.stack) /\ NoneEnds(th.stack)
         /\ OnlyLastFresh(th.stack) /\ Leaves(th, said.due)
         /\ ~ OnTop(th, "complete")
         /\ DOMAIN th.tests = 1 .. Len(th.tests) /\ Len(th.tests) \in Nat
         /\ said \in HarnessHistory
<1>1. /\ th \in HarnessState /\ Sane(th, said.due) /\ NoneFresh(th.stack) /\ NoneEnds(th.stack)
      /\ said \in HarnessHistory
  BY DEF HarnessInv, Sane, SaneCore
<1>2. OnlyLastFresh(th.stack) BY <1>1 DEF NoneFresh, OnlyLastFresh
<1>3. ~ OnTop(th, "complete")
  <2> SUFFICES ASSUME OnTop(th, "complete") PROVE FALSE OBVIOUS
  <2>1. th.stack # <<>> /\ Last(th.stack).kind = "complete" BY DEF OnTop, TopFrame
  <2>2. th.stack \in Seq(FrameRecord) BY ONLY <1>1, StateParts
  <2>3. Last(th.stack) = th.stack[Len(th.stack)] /\ Len(th.stack) \in Nat \ {0} BY ONLY <2>1, <2>2, FrontOfStack
  <2>4. Len(th.stack) \in 1 .. Len(th.stack) /\ ~ (Len(th.stack) < Len(th.stack)) BY <2>3
  <2> QED BY <1>1, <2>1, <2>3, <2>4 DEF NoneEnds
<1>4. DOMAIN th.tests = 1 .. Len(th.tests) /\ Len(th.tests) \in Nat BY ONLY <1>1, StateParts
<1> QED BY <1>1, <1>2, <1>3, <1>4 DEF Leaves

LEMMA FlagsBase ==
  ASSUME HarnessInv, NEW s, Flags(th, s)
  PROVE  Base(s)
<1>1. Len(th.tests) \in Nat BY InvParts
<1> QED BY <1>1 DEF Flags, Base

LEMMA ThisBase ==
  ASSUME HarnessInv
  PROVE  Base(th) /\ Flags(th, th)
<1>1. Flags(th, th) BY InvParts DEF Flags
<1> QED BY <1>1, FlagsBase

\* What a step, a result, makes of a state, in the terms of HarnessStep.
LEMMA StepIsQuiet ==
  ASSUME NEW s, NEW due, Sane(s, due), NoneFresh(s.stack), NEW t \in 1 .. Len(s.tests), NEW then,
         NEW o, o \in HarnessState, Flags(step(s, t, then), o) \/ o = step(s, t, then)
  PROVE  Quietly(s, o)
<1> DEFINE p == step(s, t, then)
<1>1. s \in HarnessState /\ t \in DOMAIN s.tests BY StateParts DEF Sane, SaneCore
<1>2. \/ p = s
      \/ /\ p \in HarnessState
         /\ SetTimer(s.tests, p.tests, t)
         /\ p.phase = s.phase /\ p.table = s.table /\ p.output = s.output
         /\ \E k \in {0, 1} : p.stack = Append(s.stack, RunFrame("step", t, k))
  BY <1>1, StepRuns
<1> HIDE DEF p
<1>3. /\ o.tests = p.tests /\ o.table = p.table /\ o.stack = p.stack /\ o.output = p.output
      /\ o.phase = COMPLETE <=> p.phase = COMPLETE
  BY DEF Flags, p
<1>4. CASE p = s BY <1>3, <1>4 DEF Quietly, SameResults
<1>5. CASE p # s
  <2>1. SetTimer(s.tests, p.tests, t) BY <1>2, <1>5
  <2>2. SameResults(s, o) BY <1>2, <1>3, <1>5, <2>1 DEF SameResults, SetTimer
  <2>3. PICK k \in {0, 1} : p.stack = Append(s.stack, RunFrame("step", t, k)) BY <1>2, <1>5
  <2>4. t \in Nat /\ k \in Nat BY <1>1
  <2>5. RunFrame("step", t, k) \in FrameRecord BY <2>4, FrameTypes
  <2>6. RunFrame("step", t, k).kind = "step" BY DEF RunFrame
  <2> QED BY <1>3, <2>2, <2>3, <2>5, <2>6 DEF Quietly
<1> QED BY <1>4, <1>5

LEMMA DoneHasResult ==
  ASSUME NEW s \in HarnessState, NEW t \in 1 .. Len(s.tests), ~ s.tests[t].is_done,
         NEW v \in HarnessState, Len(v.tests) = Len(s.tests),
         \A u \in 1 .. Len(s.tests) : u # t => v.tests[u] = s.tests[u],
         v.phase = s.phase, v.output = s.output, v.table = s.table, v.stack = s.stack,
         NEW o, o \in HarnessState, Flags(doneAgain(v, t), o) \/ o = doneAgain(v, t)
  PROVE  WithResult(s, o, t)
<1> DEFINE p == doneAgain(v, t)
<1>1. t \in DOMAIN v.tests BY StateParts
<1>2. IsDone(v, p, t) BY <1>1, DoneIsDone
<1> HIDE DEF p
<1>3. /\ o.tests = p.tests /\ o.table = p.table /\ o.stack = p.stack /\ o.output = p.output
      /\ o.phase = COMPLETE <=> p.phase = COMPLETE
  BY DEF Flags, p
<1>4. SetDone(v.tests, p.tests, t) BY <1>2 DEF IsDone
<1>5. Len(p.tests) = Len(s.tests) /\ p.tests[t].is_done /\ \A u \in 1 .. Len(s.tests) : u # t => p.tests[u] = s.tests[u]
  BY <1>4 DEF SetDone
<1>6. p.phase = COMPLETE <=> s.phase = COMPLETE BY <1>2 DEF IsDone, HAVE_RESULTS, COMPLETE
<1>7. p.stack = IF s.phase = COMPLETE THEN s.stack ELSE Append(s.stack, RunFrame("result", t, 1))
  BY <1>2 DEF IsDone
<1>8. p.table = s.table /\ (p.output = "COMPLETE" <=> s.output = "COMPLETE") BY <1>2 DEF IsDone
<1> QED BY <1>3, <1>5, <1>6, <1>7, <1>8 DEF WithResult

LEMMA CalledKeeps ==
  ASSUME NEW s \in HarnessState
  PROVE  OnlyStack(s, Called(s)) /\ Called(s).stack = s.stack
BY CalledFlags DEF OnlyStack, Flags

LEMMA SameKeeps ==
  ASSUME NEW s \in HarnessState
  PROVE  OnlyStack(s, s)
BY DEF OnlyStack

LEMMA CompletingStep ==
  ASSUME HarnessInv, NEW s, Base(s), Sane(s, said.due), NoneFresh(s.stack), s.tests = th.tests,
         NEW q, Finished(s, q),
         s.phase # COMPLETE /\ s.status \in {"null", "OK"} /\ q # s => s.num_pending = 0,
         NEW o, OnlyStack(q, o), o.stack = q.stack
  PROVE  /\ Leaves(o, DueAfter(th, o, said.due))
         /\ Quietly(s, o) \/ Completing(s, o)
<1>1. Leaves(q, DueAfter(s, q, said.due)) BY SaneFinished
<1>2. o.tests = q.tests /\ o.num_pending = q.num_pending /\ o.phase = q.phase /\ o.status = q.status /\ o.table = q.table
      /\ (o.output = "COMPLETE" <=> q.output = "COMPLETE") /\ o \in HarnessState
  BY DEF OnlyStack
<1>3. DueAfter(th, o, said.due) = DueAfter(s, q, said.due) BY <1>2 DEF DueAfter, Base
<1>4. Leaves(o, DueAfter(s, q, said.due)) BY <1>1, <1>2 DEF Leaves, Sane, SaneCore
<1>5. CASE q = s
  <2>1. SameResults(s, o) BY <1>2, <1>5 DEF SameResults
  <2> QED BY <1>3, <1>4, <1>5, <2>1 DEF Quietly
<1>6. CASE q # s
  <2>1. ASSUME NEW base, NEW from, NEW n, LoopsOn(s, q, base, from, n) PROVE LoopsOn(s, o, base, from, n)
    BY <1>2, <2>1 DEF LoopsOn, AllIsTold, NextIsTold
  <2>2. Completing(s, o) BY <1>6, <2>1 DEF Finished, Completing
  <2> QED BY <1>3, <1>4, <2>2
<1> QED BY <1>5, <1>6

\* A loop of complete() on top of a stack is one of the harness's.
LEMMA TopLoop ==
  ASSUME NEW s, NEW due, Sane(s, due), OnTop(s, "complete")
  PROVE  s.phase = COMPLETE /\ Last(s.stack).k <= Len(s.tests)
<1>1. s.stack # <<>> /\ Last(s.stack).kind = "complete" BY DEF OnTop, TopFrame
<1>2. s.stack \in Seq(FrameRecord)
  <2>1. s \in HarnessState BY DEF Sane, SaneCore
  <2> QED BY ONLY <2>1, StateParts
<1>3. Last(s.stack) = s.stack[Len(s.stack)] /\ Len(s.stack) \in Nat \ {0} BY ONLY <1>1, <1>2, FrontOfStack
<1>4. Len(s.stack) \in 1 .. Len(s.stack) BY <1>3
<1> QED BY <1>1, <1>3, <1>4 DEF Sane, SaneCore, FramesAgree

LEMMA MakeTestStep ==
  ASSUME HarnessInv, NEW kind \in {"test", "async", "asyncWithStep"}, MakeTest(kind)
  PROVE  \E s, o : HarnessStep(s, o)
<1> DEFINE s == push(th)
           t == Len(th.tests) + 1
<1>1. /\ th \in HarnessState /\ Sane(th, said.due) /\ NoneFresh(th.stack) /\ NoneEnds(th.stack)
      /\ OnlyLastFresh(th.stack) /\ Len(th.tests) \in Nat /\ th.tests \in Seq(TestRecord)
  BY InvParts, StateParts
<1>2. /\ Sane(s, said.due) /\ s.stack = th.stack /\ (s.phase = COMPLETE <=> th.phase = COMPLETE)
      /\ Len(s.tests) = Len(th.tests) + 1
  BY ONLY <1>1, SaneMade
<1>3. /\ s \in HarnessState /\ s.table = th.table /\ (s.output = "COMPLETE" <=> th.output = "COMPLETE")
      /\ s.tests = Append(th.tests, [status |-> "NOTRUN", is_done |-> FALSE, timer |-> "none"])
  BY ONLY <1>1, PushedTest
<1> DEFINE r == [status |-> "NOTRUN", is_done |-> FALSE, timer |-> "none"]
<1>4. r \in TestRecord /\ ~ r.is_done BY DEF TestRecord, Outcomes
<1> HIDE DEF s
<1>5. (\A i \in 1 .. Len(th.tests) : s.tests[i] = th.tests[i]) /\ ~ s.tests[t].is_done
  <2> HIDE DEF r
  <2>1. s.tests = Append(th.tests, r) BY <1>3 DEF r
  <2> QED BY <1>1, <1>4, <2>1, AppendedStack
<1>6. Base(s)
  <2>1. \A i \in 1 .. Len(s.tests) : i > Len(th.tests) => i = t BY <1>1, <1>2
  <2>2. Len(th.tests) <= Len(s.tests) BY <1>1, <1>2
  <2> QED BY <1>2, <1>3, <1>5, <2>1, <2>2 DEF Base
<1>7. t \in 1 .. Len(s.tests) BY <1>1, <1>2
<1>8. ASSUME NEW o, To(o), Leaves(o, said.due), Quietly(s, o)
      PROVE  HarnessStep(s, o)
  <2>1. o.phase = COMPLETE <=> th.phase = COMPLETE BY <1>2, <1>8 DEF Quietly, SameResults
  <2>2. DueAfter(th, o, said.due) = said.due BY <2>1 DEF DueAfter
  <2>3. /\ th' = Begun(o) /\ Tells(o)
        /\ said.nested => said'.nested
        /\ said.thrown => said'.thrown
        /\ InCallback(th) /\ Finishes(o) => said'.nested
    BY <1>8, <2>2, ToTells DEF To
  <2>4. InCallback(s) = InCallback(th) BY <1>2 DEF InCallback
  <2> QED BY <1>6, <1>8, <2>2, <2>3, <2>4 DEF HarnessStep
<1>9. CASE kind \in {"test", "asyncWithStep"}
  <2>1. PICK then \in {"done", "nothing"} : To(step(s, t, then)) BY <1>9 DEF MakeTest, s
  <2>2. Leaves(step(s, t, then), said.due) BY <1>1, <1>2, <1>7, SaneStep
  <2>3. step(s, t, then) \in HarnessState BY <2>2 DEF Leaves, Sane, SaneCore
  <2>4. Quietly(s, step(s, t, then)) BY <1>1, <1>2, <1>7, <2>3, StepIsQuiet
  <2> QED BY <1>8, <2>1, <2>2, <2>4
<1>10. CASE kind = "async"
  <2>1. To(s) BY <1>10 DEF MakeTest, s
  <2>2. Leaves(s, said.due) BY <1>1, <1>2 DEF Leaves
  <2>3. Quietly(s, s) BY <1>1, <1>2, <1>3 DEF Quietly, SameResults
  <2> QED BY <1>8, <2>1, <2>2, <2>3
<1> QED BY <1>9, <1>10

LEMMA StepTestStep ==
  ASSUME HarnessInv, NEW t \in DOMAIN th.tests, NEW then, StepTest(t, then)
  PROVE  \E s, o : HarnessStep(s, o)
<1> DEFINE p == step(th, t, then)
           o == Called(p)
<1>1. /\ th \in HarnessState /\ Sane(th, said.due) /\ NoneFresh(th.stack) /\ NoneEnds(th.stack) /\ t \in 1 .. Len(th.tests)
  BY InvParts
<1>2. Leaves(p, said.due) /\ p.phase = th.phase BY ONLY <1>1, SaneStep
<1>3. p \in HarnessState BY <1>2 DEF Leaves, Sane, SaneCore
<1>4. Flags(p, o) BY <1>3, CalledFlags
<1>5. Leaves(o, said.due) /\ o \in HarnessState /\ (o.phase = COMPLETE <=> th.phase = COMPLETE)
  BY <1>2, <1>4, FlagsSane DEF Flags
<1>6. Quietly(th, o) BY <1>1, <1>4, <1>5, StepIsQuiet
<1>7. DueAfter(th, o, said.due) = said.due BY <1>5 DEF DueAfter
<1>8. ToFrom(th, o) BY DEF StepTest, To
<1> HIDE DEF o
<1>9. HarnessStep(th, o)
  <2>1. Leaves(o, DueAfter(th, o, said.due)) BY <1>5, <1>7
  <2> QED BY <1>6, <1>8, <2>1, ThisBase, ToTells DEF HarnessStep
<1> QED BY <1>9

LEMMA DoneTestStep ==
  ASSUME HarnessInv, NEW t \in DOMAIN th.tests, DoneTest(t)
  PROVE  \E s, o : HarnessStep(s, o)
<1> DEFINE p == doneAgain(th, t)
           o == Called(p)
<1>1. /\ th \in HarnessState /\ Sane(th, said.due) /\ NoneFresh(th.stack) /\ NoneEnds(th.stack) /\ t \in 1 .. Len(th.tests)
  BY InvParts
<1>2. ~ th.tests[t].is_done /\ ToFrom(th, o) BY DEF DoneTest, done, To
<1>3. Leaves(p, said.due) /\ (p.phase = COMPLETE <=> th.phase = COMPLETE)
  <2>1. SaneCore(th, said.due)
        /\ \A u \in 1 .. Len(th.tests) : /\ th.tests[u].is_done <=> th.tests[u].status # "NOTRUN"
                                         /\ th.tests[u].is_done => th.tests[u].timer # "set"
    BY <1>1 DEF Sane, DoneAgrees
  <2> QED BY ONLY <1>1, <1>2, <2>1, SaneDone
<1>4. p \in HarnessState BY <1>3 DEF Leaves, Sane, SaneCore
<1>5. Flags(p, o) BY <1>4, CalledFlags
<1>6. Leaves(o, said.due) /\ o \in HarnessState /\ (o.phase = COMPLETE <=> th.phase = COMPLETE)
  BY <1>3, <1>5, FlagsSane DEF Flags
<1>7. WithResult(th, o, t) BY ONLY <1>1, <1>2, <1>5, <1>6, DoneHasResult
<1>8. DueAfter(th, o, said.due) = said.due BY <1>6 DEF DueAfter
<1>9. t \in Nat BY <1>1
<1> HIDE DEF o
<1>10. HarnessStep(th, o)
  <2>1. Leaves(o, DueAfter(th, o, said.due)) BY <1>6, <1>8
  <2> QED BY <1>2, <1>7, <1>9, <2>1, ThisBase, ToTells DEF HarnessStep
<1> QED BY <1>10

\* A step told of as it is.
LEMMA PlainStep ==
  ASSUME HarnessInv, NEW s, NEW o, NEW outer, Base(s), ToFrom(outer, o),
         InCallback(s) /\ Finishes(o) => InCallback(outer),
         Leaves(o, DueAfter(th, o, said.due)),
         Quietly(s, o) \/ (\E t \in 1 .. Len(th.tests) : WithResult(s, o, t)) \/ Completing(s, o) \/ Continuing(o)
  PROVE  \E p, r : HarnessStep(p, r)
<1>1. /\ th' = Begun(o) /\ Tells(o)
      /\ said.nested => said'.nested
      /\ said.thrown => said'.thrown
      /\ InCallback(outer) /\ Finishes(o) => said'.nested
  BY ToTells
<1>2. HarnessStep(s, o) BY <1>1 DEF HarnessStep
<1> QED BY <1>2

\* A step that ends where complete() ends.
LEMMA FinishStep ==
  ASSUME HarnessInv, NEW s, NEW q, NEW o, NEW outer,
         Base(s), Sane(s, said.due), NoneFresh(s.stack), s.tests = th.tests, Finished(s, q),
         s.phase # COMPLETE /\ s.status \in {"null", "OK"} /\ q # s => s.num_pending = 0,
         OnlyStack(q, o), o.stack = q.stack, ToFrom(outer, o), InCallback(s) => InCallback(outer)
  PROVE  \E p, r : HarnessStep(p, r)
<1>1. /\ Leaves(o, DueAfter(th, o, said.due))
      /\ Quietly(s, o) \/ Completing(s, o)
  BY CompletingStep
<1> QED BY <1>1, PlainStep

LEMMA FinishedState ==
  ASSUME NEW s \in HarnessState, NEW q, Finished(s, q)
  PROVE  q \in HarnessState
BY DEF Finished, LoopsOn

\* What completeIfDone() and complete() make of a state that only flags distinguish from th.
LEMMA FlagsFinish ==
  ASSUME HarnessInv, NEW s, Flags(th, s)
  PROVE  /\ Base(s) /\ Sane(s, said.due) /\ NoneFresh(s.stack) /\ s.tests = th.tests /\ s \in HarnessState
         /\ InCallback(s) = InCallback(th)
         /\ Finished(s, complete(s)) /\ complete(s) \in HarnessState
         /\ Finished(s, completeIfDone(s)) /\ completeIfDone(s) \in HarnessState
         /\ s.phase # COMPLETE /\ completeIfDone(s) # s => s.num_pending = 0
<1>1. s \in HarnessState /\ s.tests = th.tests /\ s.stack = th.stack BY DEF Flags
<1>2. Sane(s, said.due) /\ NoneFresh(s.stack) BY <1>1, InvParts, FlagsSane
<1>3. ~ OnTop(s, "complete")
  <2>1. OnTop(s, "complete") <=> OnTop(th, "complete") BY <1>1 DEF OnTop, TopFrame
  <2> QED BY <2>1, InvParts
<1>4. Finished(s, complete(s)) BY <1>1, <1>3, CompleteFinishes
<1>5. /\ Finished(s, completeIfDone(s))
      /\ s.phase # COMPLETE /\ completeIfDone(s) # s => s.num_pending = 0
  BY <1>1, <1>3, CompleteIfDoneFinishes
<1>6. InCallback(s) = InCallback(th) BY <1>1 DEF InCallback
<1> QED BY <1>1, <1>2, <1>4, <1>5, <1>6, FlagsBase, FinishedState

LEMMA DoneAllStep ==
  ASSUME HarnessInv, DoneAll
  PROVE  \E p, r : HarnessStep(p, r)
<1> DEFINE s == [th EXCEPT !.wait_for_finish = FALSE]
           q == completeIfDone(s)
           o == Called(q)
<1>1. th \in HarnessState BY InvParts
<1>2. Flags(th, s) BY <1>1 DEF Flags, HarnessState
<1>3. ToFrom(th, o) BY DEF DoneAll, To
<1> HIDE DEF s
<1>4. /\ Base(s) /\ Sane(s, said.due) /\ NoneFresh(s.stack) /\ s.tests = th.tests /\ s \in HarnessState
      /\ InCallback(s) = InCallback(th)
      /\ Finished(s, q) /\ q \in HarnessState
      /\ s.phase # COMPLETE /\ q # s => s.num_pending = 0
  BY <1>2, FlagsFinish
<1> HIDE DEF q
<1>5. OnlyStack(q, o) /\ o.stack = q.stack BY <1>4, CalledKeeps
<1> HIDE DEF o
<1> QED BY <1>3, <1>4, <1>5, FinishStep

LEMMA TimeoutAllStep ==
  ASSUME HarnessInv, TimeoutAll
  PROVE  \E p, r : HarnessStep(p, r)
<1> DEFINE s == [th EXCEPT !.status = "TIMEOUT"]
           q == complete(s)
           o == Called(q)
<1>1. th \in HarnessState BY InvParts
<1>2. Flags(th, s) /\ s.status = "TIMEOUT" BY <1>1 DEF Flags, HarnessState
<1>3. ToFrom(th, o) BY DEF TimeoutAll, To, timeoutTests
<1> HIDE DEF s
<1>4. /\ Base(s) /\ Sane(s, said.due) /\ NoneFresh(s.stack) /\ s.tests = th.tests /\ s \in HarnessState
      /\ InCallback(s) = InCallback(th)
      /\ Finished(s, q) /\ q \in HarnessState
  BY <1>2, FlagsFinish
<1> HIDE DEF q
<1>5. OnlyStack(q, o) /\ o.stack = q.stack BY <1>4, CalledKeeps
<1> HIDE DEF o
<1> QED BY <1>2, <1>3, <1>4, <1>5, FinishStep

LEMMA LoadStep ==
  ASSUME HarnessInv, Load
  PROVE  \E p, r : HarnessStep(p, r)
<1> DEFINE s == [th EXCEPT !.all_loaded = TRUE]
           q == completeIfDone(s)
<1>1. th \in HarnessState BY InvParts
<1>2. Flags(th, s) BY <1>1 DEF Flags, HarnessState
<1>3. ToFrom(th, q) BY DEF Load, To
<1> HIDE DEF s
<1>4. /\ Base(s) /\ Sane(s, said.due) /\ NoneFresh(s.stack) /\ s.tests = th.tests /\ s \in HarnessState
      /\ InCallback(s) = InCallback(th)
      /\ Finished(s, q) /\ q \in HarnessState
      /\ s.phase # COMPLETE /\ q # s => s.num_pending = 0
  BY <1>2, FlagsFinish
<1> HIDE DEF q
<1>5. OnlyStack(q, q) BY <1>4, SameKeeps
<1> QED BY <1>3, <1>4, <1>5, FinishStep

LEMMA HarnessTimerStep ==
  ASSUME HarnessInv, HarnessTimer
  PROVE  \E p, r : HarnessStep(p, r)
<1> DEFINE s == [[th EXCEPT !.timer = FALSE] EXCEPT !.status = "TIMEOUT"]
           q == complete(s)
<1>1. th \in HarnessState BY InvParts
<1>2. Flags(th, s) /\ s.status = "TIMEOUT" BY <1>1 DEF Flags, HarnessState
<1>3. ToFrom(th, q) BY DEF HarnessTimer, To, timeoutTests
<1> HIDE DEF s
<1>4. /\ Base(s) /\ Sane(s, said.due) /\ NoneFresh(s.stack) /\ s.tests = th.tests /\ s \in HarnessState
      /\ InCallback(s) = InCallback(th)
      /\ Finished(s, q) /\ q \in HarnessState
  BY <1>2, FlagsFinish
<1> HIDE DEF q
<1>5. OnlyStack(q, q) BY <1>4, SameKeeps
<1> QED BY <1>2, <1>3, <1>4, <1>5, FinishStep

LEMMA SanePush ==
  ASSUME NEW s, NEW due, Sane(s, due), NoneFresh(s.stack), NEW f \in FrameRecord, f.kind # "complete",
         f.kind = "result" \/ NoneEnds(s.stack),
         f.kind \in {"step", "result"} => f.test \in 1 .. Len(s.tests),
         f.kind \in CallbackKinds => f.k \in 1 .. NumCallbacks
  PROVE  /\ Leaves(Push(s, f), due) /\ OnlyStack(s, Push(s, f)) /\ Push(s, f).stack = Append(s.stack, f)
<1> DEFINE o == Push(s, f)
<1>1. s \in HarnessState /\ FramesAgree(s.stack, Len(s.tests), due, s.phase = COMPLETE) BY DEF Sane, SaneCore
<1>2. s.stack \in Seq(FrameRecord) BY ONLY <1>1, StateParts
<1>3. OnlyStack(s, o) /\ o.stack = Append(s.stack, f) BY <1>1, PushKeeps
<1> HIDE DEF o
<1> DEFINE c == s.phase = COMPLETE
           n == Len(s.tests)
<1>4. /\ FramesAgree(Append(s.stack, f), n, due, c)
      /\ OnlyLastFresh(Append(s.stack, f)) /\ NoneEnds(Append(s.stack, f))
  <2>1. FramesAgree(s.stack, n, due, c) BY <1>1
  <2> HIDE DEF c, n
  <2>2. /\ f.kind \in {"step", "result"} => f.test \in 1 .. n
        /\ f.kind \in CallbackKinds => f.k \in 1 .. NumCallbacks
    BY DEF n
  <2> QED BY ONLY <1>2, <2>1, <2>2, f \in FrameRecord, NoneFresh(s.stack), f.kind # "complete",
              f.kind = "result" \/ NoneEnds(s.stack), AppendedFrame
<1>5. FramesAgree(o.stack, Len(o.tests), due, o.phase = COMPLETE) BY <1>3, <1>4 DEF OnlyStack
<1>6. Sane(o, due) BY <1>3, <1>5 DEF OnlyStack, Sane, SaneCore
<1> QED BY <1>3, <1>4, <1>6 DEF Leaves, o

LEMMA SetupStep ==
  ASSUME HarnessInv, NEW property, NEW hasFunction \in BOOLEAN, Setup(property, hasFunction)
  PROVE  \E p, r : HarnessStep(p, r)
<1> DEFINE phase == IF th.phase < SETUP THEN SETUP ELSE th.phase
           waits == th.wait_for_finish \/ property = "explicit_done"
           timed == th.timed /\ property # "explicit_timeout"
           allows == th.allow_uncaught_exception \/ property = "allow_uncaught_exception"
           u == [th EXCEPT !.phase = phase, !.wait_for_finish = waits, !.timed = timed, !.allow_uncaught_exception = allows]
           s == Called(u)
           f == RunFrame("setup", 0, 0)
           o == IF hasFunction THEN Push(s, f) ELSE set_timeout(s)
<1>1. th \in HarnessState BY InvParts
<1>2. ToFrom(th, o) BY DEF Setup, To
<1>3. /\ phase \in {INITIAL, SETUP, HAVE_TESTS, HAVE_RESULTS, COMPLETE} /\ phase # COMPLETE /\ th.phase # COMPLETE
      /\ waits \in BOOLEAN /\ timed \in BOOLEAN /\ allows \in BOOLEAN
  <2>1. th.phase < HAVE_RESULTS BY DEF Setup
  <2> QED BY <1>1, <2>1 DEF HarnessState, INITIAL, SETUP, HAVE_TESTS, HAVE_RESULTS, COMPLETE
<1> HIDE DEF phase, waits, timed, allows
<1>4. /\ u \in HarnessState /\ u.tests = th.tests /\ u.num_pending = th.num_pending /\ u.table = th.table
      /\ u.stack = th.stack /\ u.output = th.output /\ u.phase = phase /\ u.status = th.status
  BY ONLY <1>1, <1>3 DEF HarnessState
<1> HIDE DEF u
<1>5. Flags(u, s) /\ s.phase = u.phase BY <1>4, CalledFlags
<1> HIDE DEF s
<1>6. Flags(th, s) BY <1>3, <1>4, <1>5 DEF Flags
<1>7. /\ Base(s) /\ Sane(s, said.due) /\ NoneFresh(s.stack) /\ s \in HarnessState /\ s.stack = th.stack
      /\ InCallback(s) = InCallback(th) /\ s.phase # COMPLETE
  BY <1>3, <1>4, <1>5, <1>6, FlagsFinish DEF Flags
<1>8. /\ Leaves(o, said.due) /\ Quietly(s, o) /\ o.phase # COMPLETE
  <2>1. NoneEnds(s.stack) BY <1>7, InvParts
  <2>2. CASE hasFunction
    <3>1. f \in FrameRecord BY FrameTypes
    <3>2. f.kind = "setup" BY DEF RunFrame
    <3> HIDE DEF f
    <3>3. Leaves(Push(s, f), said.due) /\ OnlyStack(s, Push(s, f)) /\ Push(s, f).stack = Append(s.stack, f)
      <4>1. f.kind # "complete" /\ f.kind \notin {"step", "result"} /\ f.kind \notin CallbackKinds
        BY <3>2 DEF CallbackKinds
      <4> QED BY <1>7, <2>1, <3>1, <4>1, SanePush
    <3>4. SameResults(s, Push(s, f)) BY <3>3 DEF OnlyStack, SameResults
    <3> QED BY <1>7, <2>2, <3>1, <3>2, <3>3, <3>4 DEF Quietly, OnlyStack
  <2>3. CASE ~ hasFunction
    <3>1. Flags(s, o) /\ o.phase = s.phase BY <1>7, <2>3 DEF set_timeout, Flags, HarnessState
    <3> HIDE DEF o
    <3>2. OnlyLastFresh(s.stack) BY <1>7 DEF NoneFresh, OnlyLastFresh
    <3>3. Leaves(o, said.due) BY <1>7, <2>1, <3>1, <3>2, FlagsSane DEF Leaves
    <3> QED BY <1>7, <3>1, <3>3 DEF Quietly, SameResults, Flags
  <2> QED BY <2>2, <2>3
<1>9. DueAfter(th, o, said.due) = said.due BY <1>8 DEF DueAfter
<1> HIDE DEF o
<1> QED BY <1>2, <1>7, <1>8, <1>9, PlainStep

\* The frame on top of the stack returns.
LEMMA PoppedState ==
  ASSUME HarnessInv, th.stack # <<>>
  PROVE  LET s == PopFrame(th)
             f == Last(th.stack)
         IN /\ f \in FrameRecord /\ f.kind # "complete"
            /\ f.kind \in {"step", "result"} => f.test \in 1 .. Len(th.tests)
            /\ f.kind \in CallbackKinds => f.k \in 1 .. NumCallbacks
            /\ s \in HarnessState /\ Sane(s, said.due) /\ NoneFresh(s.stack) /\ s.stack = Front(th.stack)
            /\ f.kind # "result" => NoneEnds(s.stack)
            /\ OnlyStack(th, s) /\ s.output = th.output
            /\ (f.kind \in CallbackKinds => f.k = NumCallbacks) => Base(s)
<1> DEFINE s == PopFrame(th)
           f == Last(th.stack)
           st == Front(th.stack)
<1>1. /\ th \in HarnessState /\ Sane(th, said.due) /\ OnlyLastFresh(th.stack) /\ NoneEnds(th.stack)
      /\ Len(th.tests) \in Nat /\ ~ OnTop(th, "complete")
  BY InvParts
<1>2. th.stack \in Seq(FrameRecord) BY ONLY <1>1, StateParts
<1>3. FramesAgree(th.stack, Len(th.tests), said.due, th.phase = COMPLETE) BY <1>1 DEF Sane, SaneCore
<1>4. /\ f = th.stack[Len(th.stack)] /\ Len(th.stack) \in 1 .. Len(th.stack) /\ f \in FrameRecord
  <2>1. f = th.stack[Len(th.stack)] /\ Len(th.stack) \in Nat \ {0} /\ f \in FrameRecord
    BY ONLY <1>2, th.stack # <<>>, FrontOfStack
  <2> QED BY ONLY <2>1
<1>5. /\ f.kind \in {"step", "result"} => f.test \in 1 .. Len(th.tests)
      /\ f.kind \in CallbackKinds => f.k \in 1 .. NumCallbacks
  <2> HIDE DEF f
  <2> QED BY <1>3, <1>4 DEF FramesAgree
<1>6. f.kind # "complete" BY <1>1 DEF OnTop, TopFrame
<1>7. /\ st \in Seq(FrameRecord) /\ FramesAgree(st, Len(th.tests), said.due, th.phase = COMPLETE)
      /\ NoneFresh(st) /\ (f.kind # "result" => NoneEnds(st))
  <2> DEFINE c == th.phase = COMPLETE
             n == Len(th.tests)
             due == said.due
  <2>1. FramesAgree(th.stack, n, due, c) BY <1>3
  <2> HIDE DEF c, n, due
  <2>2. /\ st \in Seq(FrameRecord) /\ FramesAgree(st, n, due, c)
        /\ NoneFresh(st) /\ (f.kind # "result" => NoneEnds(st))
    BY ONLY <1>1, <1>2, <2>1, th.stack # <<>>, PoppedFrames
  <2> QED BY <2>2 DEF c, n, due
<1>8. OnlyStack(th, s) /\ s.stack = st /\ s.output = th.output BY <1>1, PopFrameKeeps
<1> HIDE DEF s, st, f
<1>9. Sane(s, said.due) BY <1>1, <1>7, <1>8 DEF Sane, SaneCore, OnlyStack
<1>10. (f.kind \in CallbackKinds => f.k = NumCallbacks) => Base(s)
  BY <1>1, <1>8 DEF Base, OnlyStack, f, st
<1> QED BY <1>4, <1>5, <1>6, <1>7, <1>8, <1>9, <1>10 DEF OnlyStack, s, st, f

\* What done() makes of a state, and of one in which the test was given a status.
LEMMA DoneLeaves ==
  ASSUME NEW s, NEW due, Sane(s, due), NoneFresh(s.stack), NoneEnds(s.stack), NEW t \in 1 .. Len(s.tests)
  PROVE  /\ Leaves(done(s, t), due) /\ (done(s, t).phase = COMPLETE <=> s.phase = COMPLETE)
         /\ done(s, t) = s \/ WithResult(s, done(s, t), t)
<1>1. CASE s.tests[t].is_done
  <2>1. done(s, t) = s BY <1>1 DEF done
  <2>2. OnlyLastFresh(s.stack) BY DEF NoneFresh, OnlyLastFresh
  <2> QED BY <2>1, <2>2 DEF Leaves
<1>2. CASE ~ s.tests[t].is_done
  <2> DEFINE o == doneAgain(s, t)
  <2>1. done(s, t) = o BY <1>2 DEF done
  <2>2. s \in HarnessState BY DEF Sane, SaneCore
  <2>3. Leaves(o, due) /\ (o.phase = COMPLETE <=> s.phase = COMPLETE)
    <3>1. SaneCore(s, due)
          /\ \A u \in 1 .. Len(s.tests) : /\ s.tests[u].is_done <=> s.tests[u].status # "NOTRUN"
                                          /\ s.tests[u].is_done => s.tests[u].timer # "set"
      BY DEF Sane, DoneAgrees
    <3> QED BY ONLY <1>2, <3>1, NoneFresh(s.stack), NoneEnds(s.stack), t \in 1 .. Len(s.tests), SaneDone
  <2>4. o \in HarnessState BY <2>3 DEF Leaves, Sane, SaneCore
  <2>5. WithResult(s, o, t) BY ONLY <1>2, <2>2, <2>4, t \in 1 .. Len(s.tests), DoneHasResult
  <2> QED BY <2>1, <2>3, <2>5
<1> QED BY <1>1, <1>2

LEMMA SetAndDone ==
  ASSUME NEW s, NEW due, Sane(s, due), NoneFresh(s.stack), NoneEnds(s.stack), NEW t \in 1 .. Len(s.tests),
         ~ s.tests[t].is_done, NEW r \in TestRecord, ~ r.is_done, NEW v, v = [s EXCEPT !.tests[t] = r]
  PROVE  /\ Leaves(done(v, t), due) /\ (done(v, t).phase = COMPLETE <=> s.phase = COMPLETE)
         /\ WithResult(s, done(v, t), t)
<1>1. /\ SaneCore(v, due) /\ v.stack = s.stack /\ v.phase = s.phase /\ v.table = s.table /\ v.output = s.output
      /\ Len(v.tests) = Len(s.tests) /\ v.tests[t] = r
      /\ \A u \in 1 .. Len(s.tests) : u # t => v.tests[u] = s.tests[u]
      /\ \A u \in 1 .. Len(v.tests) : u # t => /\ v.tests[u].is_done <=> v.tests[u].status # "NOTRUN"
                                               /\ v.tests[u].is_done => v.tests[u].timer # "set"
  BY SetTest
<1> DEFINE o == doneAgain(v, t)
<1>2. done(v, t) = o BY <1>1 DEF done
<1>3. Leaves(o, due) /\ (o.phase = COMPLETE <=> v.phase = COMPLETE)
  <2>1. t \in 1 .. Len(v.tests) /\ ~ v.tests[t].is_done /\ NoneFresh(v.stack) /\ NoneEnds(v.stack) BY <1>1
  <2> QED BY ONLY <1>1, <2>1, SaneDone
<1>4. o \in HarnessState BY <1>3 DEF Leaves, Sane, SaneCore
<1>5. s \in HarnessState /\ v \in HarnessState BY <1>1 DEF Sane, SaneCore
<1>6. WithResult(s, o, t)
  BY ONLY <1>1, <1>4, <1>5, ~ s.tests[t].is_done, t \in 1 .. Len(s.tests), DoneHasResult
<1> QED BY <1>1, <1>2, <1>3, <1>6

LEMMA TestTimerStep ==
  ASSUME HarnessInv, NEW t \in DOMAIN th.tests, TestTimer(t)
  PROVE  \E p, r : HarnessStep(p, r)
<1> DEFINE q == th.tests[t]
           r == [q EXCEPT !.status = "TIMEOUT", !.timer = "none"]
           v == [th EXCEPT !.tests[t] = r]
           o == done(v, t)
<1>1. /\ th \in HarnessState /\ Sane(th, said.due) /\ NoneFresh(th.stack) /\ NoneEnds(th.stack) /\ t \in 1 .. Len(th.tests)
  BY InvParts
<1>2. q \in TestRecord
  <2>1. th.tests \in Seq(TestRecord) BY ONLY <1>1, StateParts
  <2> QED BY ONLY <1>1, <2>1
<1>3. ~ q.is_done
  <2>1. DoneAgrees(th.tests) /\ q.timer = "set" BY <1>1 DEF Sane, TestTimer
  <2> QED BY <1>1, <2>1 DEF DoneAgrees
<1>4. ToFrom(th, o)
  <2>1. v = [th EXCEPT !.tests[t] = [@ EXCEPT !.status = "TIMEOUT", !.timer = "none"]] OBVIOUS
  <2> QED BY <2>1 DEF TestTimer, To
<1>5. r \in TestRecord /\ ~ r.is_done
  <2> HIDE DEF q
  <2> QED BY <1>2, <1>3 DEF TestRecord, Outcomes
<1> HIDE DEF r, o
<1>6. Leaves(o, said.due) /\ (o.phase = COMPLETE <=> th.phase = COMPLETE) /\ WithResult(th, o, t)
  BY <1>1, <1>3, <1>5, SetAndDone DEF o
<1>7. DueAfter(th, o, said.due) = said.due BY <1>6 DEF DueAfter
<1> QED BY <1>1, <1>4, <1>6, <1>7, ThisBase, PlainStep

\* A function of the page returns.
LEMMA ReturnsStep ==
  ASSUME HarnessInv, Returns
  PROVE  \E p, r : HarnessStep(p, r)
<1> DEFINE s == PopFrame(th)
           f == Last(th.stack)
           next == [f EXCEPT !.k = @ + 1, !.fresh = TRUE]
<1>1. th.stack # <<>> BY DEF Returns
<1>2. /\ f \in FrameRecord /\ f.kind # "complete"
      /\ f.kind \in {"step", "result"} => f.test \in 1 .. Len(th.tests)
      /\ f.kind \in CallbackKinds => f.k \in 1 .. NumCallbacks
      /\ s \in HarnessState /\ Sane(s, said.due) /\ NoneFresh(s.stack) /\ s.stack = Front(th.stack)
      /\ f.kind # "result" => NoneEnds(s.stack)
      /\ OnlyStack(th, s) /\ s.output = th.output
      /\ (f.kind \in CallbackKinds => f.k = NumCallbacks) => Base(s)
  BY <1>1, PoppedState
<1>3. PICK o : /\ ToFrom(s, o)
               /\ o = CASE f.kind = "step"  -> IF f.k = 1 THEN done(s, f.test) ELSE s
                        [] f.kind = "setup" -> set_timeout(s)
                        [] f.kind = "result"  /\ f.k < NumCallbacks -> Push(s, next)
                        [] f.kind = "result"  /\ f.k = NumCallbacks -> completeIfDone([s EXCEPT !.processing_callbacks = FALSE])
                        [] f.kind = "allDone" /\ f.k < NumCallbacks -> Push(s, next)
                        [] f.kind = "allDone" /\ f.k = NumCallbacks -> Resume(s)
  BY DEF Returns, TopFrame
<1>4. NumCallbacks \in Nat \ {0} BY HarnessAssumption
<1> HIDE DEF s, f
<1>5. s.tests = th.tests /\ s.phase = th.phase BY <1>2 DEF OnlyStack
<1>6. OnlyLastFresh(s.stack) BY <1>2 DEF NoneFresh, OnlyLastFresh
<1>7. f.kind \in {"step", "setup", "result", "allDone"} /\ f.k \in Nat /\ f.test \in Nat
  BY <1>2 DEF FrameRecord
<1>8. CASE f.kind = "step"
  <2>1. o = IF f.k = 1 THEN done(s, f.test) ELSE s BY <1>3, <1>8
  <2>2. Base(s) /\ NoneEnds(s.stack) /\ f.test \in 1 .. Len(s.tests) BY <1>2, <1>5, <1>8 DEF CallbackKinds
  <2>3. /\ Leaves(o, said.due) /\ (o.phase = COMPLETE <=> s.phase = COMPLETE)
        /\ o = s \/ WithResult(s, o, f.test)
    <3>1. /\ Leaves(done(s, f.test), said.due) /\ (done(s, f.test).phase = COMPLETE <=> s.phase = COMPLETE)
          /\ done(s, f.test) = s \/ WithResult(s, done(s, f.test), f.test)
      BY <1>2, <2>2, DoneLeaves
    <3>2. Leaves(s, said.due) BY <1>2, <1>6, <2>2 DEF Leaves
    <3> QED BY <2>1, <3>1, <3>2
  <2>4. Quietly(s, s) BY <1>2 DEF Quietly, SameResults
  <2>5. DueAfter(th, o, said.due) = said.due BY <1>5, <2>3 DEF DueAfter
  <2> QED BY <1>3, <1>5, <2>2, <2>3, <2>4, <2>5, PlainStep
<1>9. CASE f.kind = "setup"
  <2>1. o = set_timeout(s) BY <1>3, <1>9
  <2>2. Base(s) /\ NoneEnds(s.stack) BY <1>2, <1>9 DEF CallbackKinds
  <2>3. Flags(s, o) /\ o.phase = s.phase BY <1>2, <2>1 DEF set_timeout, Flags, HarnessState
  <2>4. Leaves(o, said.due) BY <1>2, <1>6, <2>2, <2>3, FlagsSane DEF Leaves
  <2>5. Quietly(s, o) BY <1>2, <2>3 DEF Quietly, SameResults, Flags
  <2>6. DueAfter(th, o, said.due) = said.due BY <1>5, <2>3 DEF DueAfter
  <2> QED BY <1>3, <2>2, <2>4, <2>5, <2>6, PlainStep
<1>10. CASE f.kind \in CallbackKinds /\ f.k < NumCallbacks
  <2>1. o = Push(s, next)
    <3>1. f.kind = "result" \/ f.kind = "allDone" BY <1>10 DEF CallbackKinds
    <3>2. f.k # NumCallbacks BY <1>4, <1>7, <1>10
    <3> QED BY <1>3, <1>10, <3>1, <3>2
  <2>2. next \in FrameRecord /\ next.kind = f.kind /\ next.test = f.test /\ next.k = f.k + 1
    <3> DEFINE k == f.k + 1
    <3>1. k \in Nat BY <1>7
    <3>2. next = [f EXCEPT !.k = k, !.fresh = TRUE] OBVIOUS
    <3> HIDE DEF k, next
    <3>3. next \in FrameRecord /\ next.kind = f.kind /\ next.test = f.test /\ next.k = k
      BY ONLY <1>2, <3>1, <3>2 DEF FrameRecord
    <3> QED BY <3>3 DEF k
  <2> HIDE DEF next
  <2>3. f.k + 1 \in 1 .. NumCallbacks BY <1>4, <1>7, <1>10
  <2>4. Leaves(o, said.due) /\ OnlyStack(s, o) /\ o.stack = Append(s.stack, next)
    <3>1. /\ next.kind # "complete" /\ (next.kind = "result" \/ NoneEnds(s.stack))
          /\ next.kind \in {"step", "result"} => next.test \in 1 .. Len(s.tests)
          /\ next.kind \in CallbackKinds => next.k \in 1 .. NumCallbacks
      BY <1>2, <1>5, <2>2, <2>3
    <3> QED BY <1>2, <2>1, <2>2, <3>1, SanePush
  <2>5. Continuing(o)
    <3>1. SameResults(th, o) BY <1>2, <2>4 DEF OnlyStack, SameResults
    <3> QED BY <1>1, <1>2, <1>10, <2>4, <3>1 DEF Continuing, f, next
  <2>6. DueAfter(th, o, said.due) = said.due BY <1>5, <2>4 DEF DueAfter, OnlyStack
  <2>7. ~ Finishes(o)
    <3>1. SameResults(th, o) BY <2>5 DEF Continuing
    <3>2. DOMAIN th.tests = 1 .. Len(th.tests) BY InvParts
    <3> QED BY ONLY <3>1, <3>2 DEF SameResults, Finishes
  <2> QED BY <1>3, <2>4, <2>5, <2>6, <2>7, ThisBase, PlainStep
<1>11. CASE f.kind = "result" /\ f.k = NumCallbacks
  <2> DEFINE u == [s EXCEPT !.processing_callbacks = FALSE]
             q == completeIfDone(u)
  <2>1. o = q
    <3>1. ~ (f.k < NumCallbacks) BY <1>4, <1>11
    <3> QED BY <1>3, <1>11, <3>1
  <2>2. Flags(s, u) /\ u.status = s.status /\ u.phase = s.phase BY <1>2 DEF Flags, HarnessState
  <2> HIDE DEF u
  <2>3. Base(s) BY <1>2, <1>11
  <2>4. u \in HarnessState /\ u.tests = s.tests /\ u.table = s.table /\ u.stack = s.stack /\ u.output = s.output
    BY <2>2 DEF Flags
  <2>5. Base(u) BY <2>2, <2>3, <2>4 DEF Base
  <2>6. Sane(u, said.due) BY <1>2, <2>2, FlagsSane
  <2>7. OnTop(u, "complete") => u.phase = COMPLETE /\ Last(u.stack).k <= Len(u.tests) BY ONLY <2>6, TopLoop
  <2>8. Finished(u, q) /\ (u.phase # COMPLETE /\ q # u => u.num_pending = 0) BY <2>4, <2>7, CompleteIfDoneFinishes
  <2> HIDE DEF q
  <2>9. OnlyStack(q, q) BY <2>4, <2>8, FinishedState, SameKeeps
  <2>10. InCallback(u) = InCallback(s) BY <2>4 DEF InCallback
  <2>11. NoneFresh(u.stack) /\ u.tests = th.tests BY <1>2, <1>5, <2>4
  <2> QED BY ONLY <1>3, <2>1, <2>5, <2>6, <2>8, <2>9, <2>10, <2>11, HarnessInv, FinishStep
<1>12. CASE f.kind = "allDone" /\ f.k = NumCallbacks
  <2>1. o = Resume(s)
    <3>1. ~ (f.k < NumCallbacks) BY <1>4, <1>12
    <3> QED BY <1>3, <1>12, <3>1
  <2>2. Base(s) /\ NoneEnds(s.stack) BY <1>2, <1>12
  <2>3. o = s
    <3> SUFFICES ASSUME OnTop(s, "complete") PROVE FALSE BY <2>1 DEF Resume
    <3>1. s.stack # <<>> /\ Last(s.stack).kind = "complete" BY DEF OnTop, TopFrame
    <3>2. s.stack \in Seq(FrameRecord) BY ONLY <1>2, StateParts
    <3>3. Last(s.stack) = s.stack[Len(s.stack)] /\ Len(s.stack) \in Nat \ {0} BY ONLY <3>1, <3>2, FrontOfStack
    <3>4. Len(s.stack) \in 1 .. Len(s.stack) /\ ~ (Len(s.stack) < Len(s.stack)) BY <3>3
    <3> QED BY <2>2, <3>1, <3>3, <3>4 DEF NoneEnds
  <2>4. Leaves(s, said.due) BY <1>2, <1>6, <2>2 DEF Leaves
  <2>5. Quietly(s, s) BY <1>2 DEF Quietly, SameResults
  <2>6. DueAfter(th, s, said.due) = said.due BY <1>5 DEF DueAfter
  <2> QED BY <1>3, <2>2, <2>3, <2>4, <2>5, <2>6, PlainStep
<1> QED BY <1>2, <1>4, <1>7, <1>8, <1>9, <1>10, <1>11, <1>12 DEF CallbackKinds

\* The frame that catches: the last of a step or of setup.
LEMMA LastCatches ==
  ASSUME NEW st \in Seq(FrameRecord)
  PROVE  LET k == SelectLastInSeq(st, LAMBDA f : f.kind \in {"step", "setup"}) IN
         /\ k \in 0 .. Len(st)
         /\ k # 0 => st[k].kind \in {"step", "setup"}
         /\ \A i \in 1 .. Len(st) : st[i].kind \in {"step", "setup"} => i <= k
<1> DEFINE I == {i \in 1 .. Len(st) : st[i].kind \in {"step", "setup"}}
           k == SelectLastInSeq(st, LAMBDA f : f.kind \in {"step", "setup"})
<1>1. k = IF I # {} THEN Max(I) ELSE 0 BY DEF SelectLastInSeq
<1>2. Len(st) \in Nat OBVIOUS
<1> HIDE DEF k
<1>3. I # {} => Max(I) \in I /\ \A i \in I : i <= Max(I)
  <2> HIDE DEF I
  <2>1. I \subseteq 1 .. Len(st) BY DEF I
  <2> QED BY ONLY <1>2, <2>1, MaxIsGreatest
<1>4. /\ k \in 0 .. Len(st)
      /\ k # 0 => st[k].kind \in {"step", "setup"}
      /\ \A i \in 1 .. Len(st) : st[i].kind \in {"step", "setup"} => i <= k
  <2>1. CASE I = {} BY <1>1, <1>2, <2>1
  <2>2. CASE I # {} BY <1>1, <1>2, <1>3, <2>2
  <2> QED BY <2>1, <2>2
<1> QED BY <1>4 DEF k

\* The stack up to a frame that is no result.
LEMMA TruncatedFrames ==
  ASSUME NEW st \in Seq(FrameRecord), NEW k \in 1 .. Len(st), st[k].kind # "result",
         NEW n, NEW due, NEW c, FramesAgree(st, n, due, c), NoneFresh(st)
  PROVE  LET u == SubSeq(st, 1, k - 1) IN
         /\ u \in Seq(FrameRecord) /\ FramesAgree(u, n, due, c) /\ NoneFresh(u) /\ NoneEnds(u)
         /\ k = Len(st) => u = Front(st)
<1> DEFINE u == SubSeq(st, 1, k - 1)
           m == Len(st)
<1>1. m \in Nat /\ k \in 1 .. m /\ \A i \in 1 .. m : st[i] \in FrameRecord OBVIOUS
<1>2. u \in Seq(FrameRecord) /\ Len(u) = k - 1 /\ \A i \in 1 .. k - 1 : u[i] = st[i]
  <2>1. 1 \in Int /\ k - 1 \in Int /\ \A i \in 1 .. k - 1 : st[i] \in FrameRecord BY <1>1
  <2>2. /\ u \in Seq(FrameRecord)
        /\ Len(u) = IF 1 <= k - 1 THEN k - 1 - 1 + 1 ELSE 0
        /\ \A i \in 1 .. k - 1 - 1 + 1 : u[i] = st[1 + i - 1]
    BY ONLY <2>1, SubSeqProperties
  <2> HIDE DEF u
  <2>3. Len(u) = k - 1 BY <1>1, <2>2
  <2>4. \A i \in 1 .. k - 1 : i \in 1 .. k - 1 - 1 + 1 /\ 1 + i - 1 = i BY <1>1
  <2>5. \A i \in 1 .. k - 1 : u[i] = st[i] BY ONLY <2>2, <2>4
  <2> QED BY <2>2, <2>3, <2>5
<1>3. k = m => u = Front(st) BY DEF Front
<1> HIDE DEF u, m
<1>4. \A i \in 1 .. k - 1 : i \in 1 .. m /\ i < m BY <1>1
<1>5. NoneFresh(u) BY <1>2, <1>4 DEF NoneFresh, m
<1>6. ASSUME NEW i \in 1 .. k - 1, u[i].kind = "complete" PROVE i < k - 1 /\ u[i + 1].kind = "result"
  <2>1. i \in 1 .. m /\ i < m /\ st[i].kind = "complete" BY <1>2, <1>4, <1>6
  <2>2. st[i + 1].kind = "result" BY <2>1 DEF FramesAgree, m
  <2>3. i + 1 # k BY <2>2
  <2>4. i < k - 1 /\ i + 1 \in 1 .. k - 1 BY <1>1, <2>3
  <2> QED BY <1>2, <2>2, <2>4
<1>7. NoneEnds(u) BY <1>2, <1>6 DEF NoneEnds
<1>8. ASSUME NEW i \in 1 .. k - 1
      PROVE  /\ u[i].kind \in {"step", "result"} => u[i].test \in 1 .. n
             /\ u[i].kind \in CallbackKinds => u[i].k \in 1 .. NumCallbacks
             /\ u[i].kind = "complete" => c /\ u[i].k = due /\ u[i].test \in 0 .. due
  BY <1>2, <1>4 DEF FramesAgree, m
<1>9. FramesAgree(u, n, due, c) BY <1>2, <1>6, <1>8 DEF FramesAgree
<1> QED BY <1>2, <1>3, <1>5, <1>7, <1>9 DEF u, m

\* The state in which an exception that is caught arrives.
LEMMA TruncatedState ==
  ASSUME NEW s, NEW due, Sane(s, due), NEW st \in Seq(FrameRecord),
         FramesAgree(st, Len(s.tests), due, s.phase = COMPLETE), NEW u, u = [s EXCEPT !.stack = st]
  PROVE  Sane(u, due) /\ OnlyStack(s, u) /\ u.stack = st /\ u.output = s.output
<1>1. s \in HarnessState BY DEF Sane, SaneCore
<1>2. /\ u \in HarnessState /\ u.tests = s.tests /\ u.num_pending = s.num_pending /\ u.phase = s.phase
      /\ u.status = s.status /\ u.table = s.table /\ u.output = s.output /\ u.stack = st
  BY ONLY <1>1, st \in Seq(FrameRecord), u = [s EXCEPT !.stack = st] DEF HarnessState
<1> QED BY <1>2 DEF Sane, SaneCore, OnlyStack

\* The step or the setup around it catches an exception.
CaughtBy(s, f) == IF f.kind = "setup" THEN set_timeout([s EXCEPT !.status = "ERROR"]) ELSE Caught(s, f.test)

LEMMA CaughtLeaves ==
  ASSUME NEW s, NEW due, Sane(s, due), NoneFresh(s.stack), NoneEnds(s.stack),
         NEW f \in FrameRecord, f.kind \in {"step", "setup"}, f.kind = "step" => f.test \in 1 .. Len(s.tests)
  PROVE  LET o == CaughtBy(s, f) IN
         /\ Leaves(o, due) /\ (o.phase = COMPLETE <=> s.phase = COMPLETE)
         /\ Quietly(s, o) \/ \E t \in 1 .. Len(s.tests) : WithResult(s, o, t)
<1> DEFINE o == CaughtBy(s, f)
           t == f.test
<1>1. s \in HarnessState BY DEF Sane, SaneCore
<1>2. OnlyLastFresh(s.stack) BY DEF NoneFresh, OnlyLastFresh
<1>3. CASE f.kind = "setup"
  <2> DEFINE u == [s EXCEPT !.status = "ERROR"]
  <2>1. o = set_timeout(u) BY <1>3 DEF CaughtBy
  <2>2. Flags(s, u) /\ u.phase = s.phase BY <1>1 DEF Flags, HarnessState
  <2> HIDE DEF u
  <2>3. Flags(u, o) /\ o.phase = u.phase
    <3>1. u \in HarnessState BY <2>2 DEF Flags
    <3> QED BY <2>1, <3>1 DEF set_timeout, Flags, HarnessState
  <2> HIDE DEF o
  <2>4. Flags(s, o) BY <2>2, <2>3 DEF Flags
  <2>5. Leaves(s, due) BY <1>2 DEF Leaves
  <2>6. Leaves(o, due) BY <2>4, <2>5, FlagsSane
  <2>7. Quietly(s, o) BY <2>4 DEF Quietly, SameResults, Flags
  <2> QED BY <2>2, <2>3, <2>6, <2>7 DEF o
<1>4. CASE f.kind = "step"
  <2> DEFINE q == s.tests[t]
             r == [q EXCEPT !.status = "FAIL"]
             v == [s EXCEPT !.tests[t] = r]
  <2>1. t \in 1 .. Len(s.tests) /\ t \in Nat BY <1>4 DEF FrameRecord
  <2>2. o = IF q.status # "NOTRUN" THEN s ELSE done(v, t)
    <3>1. v = [s EXCEPT !.tests[t].status = "FAIL"] OBVIOUS
    <3>2. o = Caught(s, t) BY <1>4 DEF CaughtBy
    <3> QED BY <3>1, <3>2 DEF Caught
  <2> HIDE DEF o, t
  <2>3. CASE q.status # "NOTRUN"
    <3>1. o = s BY <2>2, <2>3
    <3>2. Quietly(s, s) BY <1>1 DEF Quietly, SameResults
    <3> QED BY <1>2, <3>1, <3>2 DEF Leaves, o
  <2>4. CASE q.status = "NOTRUN"
    <3>1. ~ q.is_done
      <4>1. DoneAgrees(s.tests) BY DEF Sane
      <4> QED BY <2>1, <2>4, <4>1 DEF DoneAgrees
    <3>2. q \in TestRecord
      <4>1. s.tests \in Seq(TestRecord) BY ONLY <1>1, StateParts
      <4> QED BY ONLY <2>1, <4>1
    <3>3. r \in TestRecord /\ ~ r.is_done
      <4> HIDE DEF q
      <4> QED BY <3>1, <3>2 DEF TestRecord, Outcomes
    <3> HIDE DEF r
    <3>4. /\ Leaves(done(v, t), due) /\ (done(v, t).phase = COMPLETE <=> s.phase = COMPLETE)
          /\ WithResult(s, done(v, t), t)
      BY <2>1, <3>1, <3>3, SetAndDone
    <3>5. o = done(v, t) BY <2>2, <2>4
    <3> HIDE DEF v
    <3> QED BY <2>1, <3>4, <3>5 DEF o
  <2> QED BY <2>3, <2>4
<1> QED BY <1>3, <1>4

\* Nothing catches it: the stack is gone, and the harness may complete.
LEMMA UncaughtLeaves ==
  ASSUME NEW s, NEW due, Sane(s, due), s.stack = <<>>
  PROVE  Leaves(uncaught(s), DueAfter(s, uncaught(s), due))
<1> DEFINE o == uncaught(s)
           u == [s EXCEPT !.status = "ERROR"]
<1>1. s \in HarnessState BY DEF Sane, SaneCore
<1>2. NoneFresh(s.stack) /\ OnlyLastFresh(s.stack) /\ NoneEnds(s.stack)
  <2>1. Len(s.stack) = 0 BY DEF Sane
  <2> QED BY <2>1 DEF NoneFresh, OnlyLastFresh, NoneEnds
<1>3. CASE o = s
  <2>1. DueAfter(s, s, due) = due BY DEF DueAfter
  <2> QED BY <1>2, <1>3, <2>1 DEF Leaves
<1>4. CASE o # s
  <2>1. o = complete(u) BY <1>4 DEF uncaught
  <2>2. Flags(s, u) /\ u.status = "ERROR" BY <1>1 DEF Flags, HarnessState
  <2> HIDE DEF u, o
  <2>3. u \in HarnessState /\ u.stack = s.stack /\ u.tests = s.tests /\ (u.phase = COMPLETE <=> s.phase = COMPLETE)
    BY <2>2 DEF Flags
  <2>4. Sane(u, due) /\ NoneFresh(u.stack) BY <1>2, <2>2, <2>3, FlagsSane
  <2>5. ~ OnTop(u, "complete") BY <2>3 DEF OnTop
  <2>6. Finished(u, o) BY <2>1, <2>3, <2>5, CompleteFinishes
  <2>7. Leaves(o, DueAfter(u, o, due)) BY <2>2, <2>4, <2>6, SaneFinished
  <2>8. DueAfter(u, o, due) = DueAfter(s, o, due) BY <2>3 DEF DueAfter
  <2> QED BY <2>7, <2>8 DEF o
<1> QED BY <1>3, <1>4

\* A function of the page throws.
LEMMA ThrowsStep ==
  ASSUME HarnessInv, Throws
  PROVE  \E p, r : HarnessStep(p, r)
<1> DEFINE k == SelectLastInSeq(th.stack, LAMBDA f : f.kind \in {"step", "setup"})
           st == IF k = 0 THEN <<>> ELSE SubSeq(th.stack, 1, k - 1)
           s == [th EXCEPT !.stack = st]
           f == th.stack[k]
           top == Last(th.stack)
           o == IF k = 0 THEN uncaught(s) ELSE CaughtBy(s, f)
           thrown == Told(o).thrown \/ top.kind \in {"result", "allDone"}
           nested == Told(o).nested \/ (k # 0 /\ InCallback(s) /\ Finishes(o))
<1>1. /\ th \in HarnessState /\ Sane(th, said.due) /\ NoneFresh(th.stack) /\ NoneEnds(th.stack)
      /\ ~ OnTop(th, "complete") /\ said \in HarnessHistory
  BY InvParts
<1>2. th.stack # <<>> BY DEF Throws
<1>3. th' = Begun(o) /\ said' = [Told(o) EXCEPT !.thrown = thrown, !.nested = nested]
  <2>1. o = IF k = 0 THEN uncaught(s)
            ELSE IF f.kind = "setup" THEN set_timeout([s EXCEPT !.status = "ERROR"])
            ELSE Caught(s, f.test)
    BY DEF CaughtBy
  <2> HIDE DEF k
  <2>2. s = [th EXCEPT !.stack = IF k = 0 THEN <<>> ELSE SubSeq(@, 1, k - 1)] OBVIOUS
  <2> HIDE DEF s
  <2>3. /\ th' = Begun(o)
        /\ said' = [Told(o) EXCEPT !.thrown = @ \/ TopFrame(th).kind \in {"result", "allDone"},
                                   !.nested = @ \/ (k # 0 /\ InCallback(s) /\ Finishes(o))]
    BY <2>1, <2>2 DEF Throws, k
  <2> HIDE DEF o
  <2> QED BY <2>3 DEF TopFrame
<1>4. th.stack \in Seq(FrameRecord) BY ONLY <1>1, StateParts
<1>5. FramesAgree(th.stack, Len(th.tests), said.due, th.phase = COMPLETE) BY <1>1 DEF Sane, SaneCore
<1>6. /\ k \in 0 .. Len(th.stack)
      /\ k # 0 => f.kind \in {"step", "setup"}
      /\ \A i \in 1 .. Len(th.stack) : th.stack[i].kind \in {"step", "setup"} => i <= k
  BY <1>4, LastCatches
<1>7. top = th.stack[Len(th.stack)] /\ Len(th.stack) \in Nat \ {0} BY ONLY <1>2, <1>4, FrontOfStack
<1> HIDE DEF k, top
<1>8. /\ st \in Seq(FrameRecord) /\ FramesAgree(st, Len(th.tests), said.due, th.phase = COMPLETE)
      /\ NoneFresh(st) /\ NoneEnds(st)
      /\ k # 0 /\ k = Len(th.stack) => st = Front(th.stack)
  <2>1. CASE k = 0
    <3>1. st = <<>> BY <2>1
    <3> HIDE DEF st
    <3>2. Len(st) = 0 /\ st \in Seq(FrameRecord) BY ONLY <3>1, EmptySeq
    <3> QED BY <2>1, <3>2 DEF FramesAgree, NoneFresh, NoneEnds
  <2>2. CASE k # 0
    <3> DEFINE c == th.phase = COMPLETE
               n == Len(th.tests)
               due == said.due
               u == SubSeq(th.stack, 1, k - 1)
    <3>1. FramesAgree(th.stack, n, due, c) BY <1>5
    <3>2. k \in 1 .. Len(th.stack) /\ f.kind # "result" BY <1>6, <1>7, <2>2
    <3> HIDE DEF c, n, due
    <3>3. /\ u \in Seq(FrameRecord) /\ FramesAgree(u, n, due, c) /\ NoneFresh(u) /\ NoneEnds(u)
          /\ k = Len(th.stack) => u = Front(th.stack)
      BY ONLY <1>1, <1>4, <3>1, <3>2, TruncatedFrames
    <3>4. st = u BY <2>2
    <3> QED BY <3>3, <3>4 DEF c, n, due
  <2> QED BY <2>1, <2>2
<1>9. Sane(s, said.due) /\ OnlyStack(th, s) /\ s.stack = st /\ s.output = th.output
  <2> HIDE DEF st
  <2> QED BY <1>1, <1>8, TruncatedState
<1>10. s.tests = th.tests /\ s.phase = th.phase BY <1>9 DEF OnlyStack
<1> HIDE DEF s
<1>11. k # 0 => /\ Leaves(o, said.due) /\ (o.phase = COMPLETE <=> s.phase = COMPLETE)
                /\ Quietly(s, o) \/ \E t \in 1 .. Len(th.tests) : WithResult(s, o, t)
  <2> SUFFICES ASSUME k # 0
               PROVE  /\ Leaves(o, said.due) /\ (o.phase = COMPLETE <=> s.phase = COMPLETE)
                      /\ Quietly(s, o) \/ \E t \in 1 .. Len(th.tests) : WithResult(s, o, t)
    OBVIOUS
  <2>1. f \in FrameRecord /\ k \in 1 .. Len(th.stack) BY <1>4, <1>6, <1>7
  <2>2. f.kind \in {"step", "setup"} /\ (f.kind = "step" => f.test \in 1 .. Len(s.tests))
    BY <1>5, <1>6, <1>10, <2>1 DEF FramesAgree
  <2>3. NoneFresh(s.stack) /\ NoneEnds(s.stack) BY <1>8, <1>9
  <2>4. o = CaughtBy(s, f) OBVIOUS
  <2> HIDE DEF f, o
  <2> QED BY <1>9, <1>10, <2>1, <2>2, <2>3, <2>4, CaughtLeaves
<1>12. k = 0 => Leaves(o, DueAfter(s, o, said.due))
  <2>1. k = 0 => s.stack = <<>> BY <1>9
  <2> QED BY <1>9, <2>1, UncaughtLeaves
<1> HIDE DEF o, f
<1>13. Leaves(o, DueAfter(th, o, said.due))
  <2>1. DueAfter(th, o, said.due) = DueAfter(s, o, said.due) BY <1>10 DEF DueAfter
  <2>2. k # 0 => DueAfter(s, o, said.due) = said.due BY <1>11 DEF DueAfter
  <2> QED BY <1>11, <1>12, <2>1, <2>2
<1>14. Told(o) \in HarnessHistory /\ Told(o).nested = said.nested /\ Told(o).thrown = said.thrown
  BY <1>13, ToldHistory
<1>15. thrown \in BOOLEAN /\ nested \in BOOLEAN
  <2>1. Told(o).thrown \in BOOLEAN /\ Told(o).nested \in BOOLEAN BY <1>14 DEF HarnessHistory
  <2>2. InCallback(s) \in BOOLEAN BY DEF InCallback
  <2>3. Finishes(o) \in BOOLEAN BY DEF Finishes
  <2> QED BY <2>1, <2>2, <2>3
<1>16. /\ said.thrown => thrown
       /\ said.nested => nested
       /\ k # 0 /\ InCallback(s) /\ Finishes(o) => nested
       /\ top.kind \in {"result", "allDone"} => thrown
  BY <1>14
<1> HIDE DEF thrown, nested
<1>17. /\ said' \in HarnessHistory /\ said'.nested = nested /\ said'.thrown = thrown
       /\ said'.results = Told(o).results /\ said'.completed = Told(o).completed /\ said'.due = Told(o).due
  BY ONLY <1>3, <1>14, <1>15 DEF HarnessHistory
<1>18. Tells(o) BY <1>17 DEF Tells
<1>19. CASE thrown
  <2>1. HarnessStep(s, o) BY <1>3, <1>13, <1>16, <1>17, <1>18, <1>19 DEF HarnessStep
  <2> QED BY <2>1
<1>20. CASE ~ thrown
  <2>1. top.kind \in {"step", "setup"}
    <3>1. top \in FrameRecord
      <4>1. Len(th.stack) \in 1 .. Len(th.stack) BY <1>7
      <4> QED BY <1>4, <1>7, <4>1
    <3>2. top.kind # "complete" BY <1>1, <1>2 DEF OnTop, TopFrame, top
    <3> QED BY <1>16, <1>20, <3>1, <3>2 DEF FrameRecord
  <2>2. k # 0 /\ k = Len(th.stack) BY <1>6, <1>7, <2>1
  <2>3. s.stack = Front(th.stack) BY <1>8, <1>9, <2>2
  <2>4. Base(s)
    <3>1. Len(th.tests) \in Nat BY InvParts
    <3>2. top.kind \notin CallbackKinds BY <2>1 DEF CallbackKinds
    <3> QED BY <1>2, <1>9, <2>3, <3>1, <3>2 DEF Base, OnlyStack, top
  <2>5. HarnessStep(s, o) BY <1>3, <1>11, <1>13, <1>16, <1>17, <1>18, <2>2, <2>4 DEF HarnessStep
  <2> QED BY <2>5
<1> QED BY <1>19, <1>20

\* Every step is a HarnessStep or leaves all as it is.
LEMMA HarnessNextSteps ==
  ASSUME HarnessInv, HarnessNext
  PROVE  \E p, r : HarnessStep(p, r)
<1>1. CASE PageCalls
  BY <1>1, MakeTestStep, DoneTestStep, StepTestStep, SetupStep, DoneAllStep, TimeoutAllStep DEF PageCalls
<1> QED BY <1>1, ReturnsStep, ThrowsStep, LoadStep, HarnessTimerStep, TestTimerStep DEF HarnessNext

\* The inductive invariant of every harness holds at first,
LEMMA HarnessInvInit == HarnessInit => HarnessInv
<1> SUFFICES ASSUME HarnessInit PROVE HarnessInv OBVIOUS
<1> DEFINE no == <<>>
<1>1. no \in Seq(TestRecord) /\ no \in Seq(FrameRecord) /\ no \in Seq(Outcomes) /\ Len(no) = 0 /\ DOMAIN no = {}
  BY EmptySeq
<1> HIDE DEF no
<1>2. /\ th \in HarnessState /\ th.tests = no /\ th.stack = no /\ th.phase # COMPLETE /\ th.num_pending = 0
  <2>1. th = [tests |-> no, num_pending |-> 0, phase |-> INITIAL,
              all_loaded |-> FALSE, wait_for_finish |-> FALSE, processing_callbacks |-> FALSE,
              allow_uncaught_exception |-> FALSE, timed |-> TRUE, timer |-> TRUE, status |-> "null",
              output |-> "INITIAL", table |-> no, stack |-> no, calls |-> 0]
    BY DEF HarnessInit, no
  <2> QED BY ONLY <1>1, <2>1 DEF HarnessState, INITIAL, COMPLETE
<1>3. said \in HarnessHistory /\ said.due = 0
  <2> DEFINE rs == [k \in 1 .. NumCallbacks |-> <<>>]
             cs == [k \in 1 .. NumCallbacks |-> 0]
  <2>1. rs \in [1 .. NumCallbacks -> Seq(Nat \X Outcomes)] /\ cs \in [1 .. NumCallbacks -> Nat] BY EmptySeq
  <2>2. said = [results |-> rs, completed |-> cs, due |-> 0, nested |-> FALSE, thrown |-> FALSE] BY DEF HarnessInit
  <2> HIDE DEF rs, cs
  <2> QED BY ONLY <2>1, <2>2 DEF HarnessHistory
<1>4. Cardinality(Undone(th.tests)) = 0
  <2>1. Undone(th.tests) = {} BY <1>1, <1>2 DEF Undone
  <2> QED BY ONLY <2>1, FS_EmptySet
<1>5. FramesAgree(th.stack, Len(th.tests), said.due, th.phase = COMPLETE) BY <1>1, <1>2 DEF FramesAgree
<1>6. Sane(th, said.due) BY <1>1, <1>2, <1>3, <1>4, <1>5 DEF Sane, SaneCore, DoneAgrees
<1>7. NoneFresh(th.stack) /\ NoneEnds(th.stack) BY <1>1, <1>2 DEF NoneFresh, NoneEnds
<1> QED BY <1>3, <1>6, <1>7 DEF HarnessInv

\* What a step leaves, when the frame on top of the stack has begun.
LEMMA BegunLeaves ==
  ASSUME NEW o, NEW due, Leaves(o, due)
  PROVE  Sane(Begun(o), due) /\ NoneFresh(Begun(o).stack) /\ NoneEnds(Begun(o).stack)
<1> DEFINE b == Begun(o)
           n == Len(o.stack)
<1>1. o \in HarnessState /\ Sane(o, due) /\ OnlyLastFresh(o.stack) /\ NoneEnds(o.stack) BY DEF Leaves, Sane, SaneCore
<1>2. /\ b \in HarnessState
      /\ b.tests = o.tests /\ b.num_pending = o.num_pending /\ b.phase = o.phase /\ b.status = o.status
      /\ Len(b.stack) = n
      /\ \A i \in 1 .. n : /\ b.stack[i].kind = o.stack[i].kind
                           /\ b.stack[i].test = o.stack[i].test
                           /\ b.stack[i].k = o.stack[i].k
                           /\ ~ b.stack[i].fresh <=> i = n \/ ~ o.stack[i].fresh
  BY ONLY <1>1, BegunState
<1>3. n \in Nat BY ONLY <1>1, StateParts
<1> HIDE DEF b, n
<1>4. \A i \in 1 .. n : i < n => i + 1 \in 1 .. n BY <1>3
<1>5. FramesAgree(b.stack, Len(b.tests), due, b.phase = COMPLETE)
  <2>1. FramesAgree(o.stack, Len(o.tests), due, o.phase = COMPLETE) BY <1>1 DEF Sane, SaneCore
  <2> QED BY <1>2, <1>4, <2>1 DEF FramesAgree, n
<1>6. Sane(b, due) BY <1>1, <1>2, <1>5 DEF Sane, SaneCore
<1>7. \A i \in 1 .. n : i = n \/ i < n BY <1>3
<1>8. NoneFresh(b.stack) BY <1>1, <1>2, <1>7 DEF NoneFresh, OnlyLastFresh, n
<1>9. NoneEnds(b.stack) BY <1>1, <1>2 DEF NoneEnds, n
<1> QED BY <1>6, <1>8, <1>9 DEF b

\* and is kept by every step.
LEMMA HarnessInvStep ==
  ASSUME HarnessInv, NEW s, NEW o, HarnessStep(s, o)
  PROVE  HarnessInv' /\ said'.due = DueAfter(th, o, said.due)
<1>1. th' = Begun(o) /\ Leaves(o, DueAfter(th, o, said.due)) /\ Tells(o) BY DEF HarnessStep
<1>2. said' \in HarnessHistory /\ said'.due = DueAfter(th, o, said.due) BY <1>1, ToldHistory DEF Tells
<1>3. Sane(th', said'.due) /\ NoneFresh(th'.stack) /\ NoneEnds(th'.stack) BY <1>1, <1>2, BegunLeaves
<1> QED BY <1>2, <1>3 DEF HarnessInv

\* The harness does not complete too early.
LEMMA InTime == HarnessInv => CompletesInTime
<1> SUFFICES ASSUME HarnessInv PROVE CompletesInTime OBVIOUS
<1>1. {t \in DOMAIN th.tests : ~ th.tests[t].is_done} = Undone(th.tests) BY DEF Undone
<1> QED BY <1>1 DEF CompletesInTime, HarnessInv, Sane, SaneCore

(***************************************************************************)
(* What the callbacks are told, as long as none throws and none finishes a *)
(* test or the harness.                                                    *)
(***************************************************************************)
NoCallbacks(st) == \A i \in 1 .. Len(st) : st[i].kind \notin CallbackKinds
OneCallback(st) == \A i, j \in 1 .. Len(st) :
  st[i].kind \in CallbackKinds /\ st[j].kind \in CallbackKinds => i = j
Has(st, kind)   == \E i \in 1 .. Len(st) : st[i].kind = kind

DoneTests(ts) == {t \in 1 .. Len(ts) : ts[t].is_done}
ToldTests(rs) == {rs[i][1] : i \in 1 .. Len(rs)}
Once(rs)      == \A i, j \in 1 .. Len(rs) : rs[i][1] = rs[j][1] => i = j
AsTests(rs, ts)    == \A i \in 1 .. Len(rs) : ts[rs[i][1]].status = rs[i][2]
AsTable(rs, table) == \A i \in 1 .. Len(rs) : table[rs[i][1]] = rs[i][2]

\* The tests whose result callback k is told next.
Coming(st, k) == {st[i].test : i \in {j \in 1 .. Len(st) : st[j].kind = "result" /\ st[j].k < k}}

\* The tests of reached have been told of, or are.
Telling(s, h, reached) ==
  /\ s.output # "COMPLETE" /\ ~ Has(s.stack, "allDone")
  /\ DoneTests(s.tests) \subseteq reached /\ reached \subseteq 1 .. Len(s.tests)
  /\ \A i \in 1 .. Len(s.stack) : s.stack[i].kind = "result" => s.stack[i].test \in reached
  /\ \A k \in 1 .. NumCallbacks :
        /\ h.completed[k] = 0
        /\ ToldTests(h.results[k]) = reached \ Coming(s.stack, k)
        /\ AsTests(h.results[k], s.tests)

AllTold(s, h) ==
  /\ s.phase = COMPLETE /\ ~ Has(s.stack, "complete") /\ ~ Has(s.stack, "result")
  /\ \A k \in 1 .. NumCallbacks :
        /\ ToldTests(h.results[k]) = 1 .. h.due
        /\ h.completed[k] \in {0, Len(h.results[k]) + 1}
        /\ AsTable(h.results[k], s.table)

Looping(s, h, i) ==
  /\ s.stack[i].kind = "complete" /\ DoneTests(s.tests) \subseteq 1 .. h.due
  /\ Telling(s, h, DoneTests(s.tests) \cup 1 .. s.stack[i].test)

\* Results are told as they come; from the completion on complete() tells those
\* that are missing; then the completion.
Calm(s, h) ==
  /\ OneCallback(s.stack)
  /\ \A k \in 1 .. NumCallbacks : Once(h.results[k])
  /\ s.phase # COMPLETE => Telling(s, h, DoneTests(s.tests))
  /\ s.phase = COMPLETE /\ s.output # "COMPLETE" => \E i \in 1 .. Len(s.stack) : Looping(s, h, i)
  /\ s.output = "COMPLETE" => AllTold(s, h)

CalmInv == HarnessInv /\ (~ said.nested /\ ~ said.thrown => Calm(th, said))

LEMMA FramesAlike ==
  ASSUME NEW st, NEW u, Len(u) = Len(st),
         \A i \in 1 .. Len(st) : u[i].kind = st[i].kind /\ u[i].test = st[i].test /\ u[i].k = st[i].k
  PROVE  /\ OneCallback(st) => OneCallback(u)
         /\ \A kind : Has(u, kind) <=> Has(st, kind)
         /\ \A k : Coming(u, k) = Coming(st, k)
<1>1. OneCallback(st) => OneCallback(u) BY DEF OneCallback
<1>2. \A kind : Has(u, kind) <=> Has(st, kind) BY DEF Has
<1>3. ASSUME NEW k PROVE Coming(u, k) = Coming(st, k)
  <2>1. {j \in 1 .. Len(u) : u[j].kind = "result" /\ u[j].k < k} = {j \in 1 .. Len(st) : st[j].kind = "result" /\ st[j].k < k}
    OBVIOUS
  <2> QED BY <2>1 DEF Coming
<1> QED BY <1>1, <1>2, <1>3

\* That a callback has begun makes no difference to what is said of the stack.
LEMMA CalmBegun ==
  ASSUME NEW o \in HarnessState, NEW h, Calm(o, h)
  PROVE  Calm(Begun(o), h)
<1> DEFINE b == Begun(o)
<1>1. /\ b.tests = o.tests /\ b.phase = o.phase /\ b.output = o.output /\ b.table = o.table
      /\ Len(b.stack) = Len(o.stack)
      /\ \A i \in 1 .. Len(o.stack) : /\ b.stack[i].kind = o.stack[i].kind
                                      /\ b.stack[i].test = o.stack[i].test
                                      /\ b.stack[i].k = o.stack[i].k
  BY BegunState
<1> HIDE DEF b
<1>2. /\ OneCallback(b.stack)
      /\ \A kind : Has(b.stack, kind) <=> Has(o.stack, kind)
      /\ \A k : Coming(b.stack, k) = Coming(o.stack, k)
  <2>1. OneCallback(o.stack) BY DEF Calm
  <2>2. /\ Len(b.stack) = Len(o.stack)
        /\ \A i \in 1 .. Len(o.stack) : /\ b.stack[i].kind = o.stack[i].kind
                                        /\ b.stack[i].test = o.stack[i].test
                                        /\ b.stack[i].k = o.stack[i].k
    BY <1>1
  <2> DEFINE st == o.stack
             u == b.stack
  <2> HIDE DEF st, u
  <2>3. /\ OneCallback(st) /\ Len(u) = Len(st)
        /\ \A i \in 1 .. Len(st) : u[i].kind = st[i].kind /\ u[i].test = st[i].test /\ u[i].k = st[i].k
    BY <2>1, <2>2 DEF st, u
  <2>4. /\ OneCallback(u)
        /\ \A kind : Has(u, kind) <=> Has(st, kind)
        /\ \A k : Coming(u, k) = Coming(st, k)
    BY ONLY <2>3, FramesAlike
  <2> QED BY <2>4 DEF st, u
<1>3. ASSUME NEW reached, Telling(o, h, reached) PROVE Telling(b, h, reached)
  BY <1>1, <1>2, <1>3 DEF Telling
<1>4. ASSUME NEW i \in 1 .. Len(o.stack), Looping(o, h, i) PROVE Looping(b, h, i)
  BY <1>1, <1>3, <1>4 DEF Looping
<1>5. AllTold(o, h) => AllTold(b, h) BY <1>1, <1>2 DEF AllTold
<1> QED BY <1>1, <1>2, <1>3, <1>4, <1>5 DEF Calm, b

LEMMA AppendedTold ==
  ASSUME NEW rs \in Seq(Nat \X Outcomes), NEW t \in Nat, NEW status \in Outcomes, NEW ts
  PROVE  LET q == Append(rs, <<t, status>>) IN
         /\ ToldTests(q) = ToldTests(rs) \cup {t}
         /\ t \notin ToldTests(rs) /\ Once(rs) => Once(q)
         /\ AsTests(rs, ts) /\ ts[t].status = status => AsTests(q, ts)
<1> DEFINE p == <<t, status>>
           q == Append(rs, p)
           n == Len(rs)
<1>1. p \in Nat \X Outcomes /\ p[1] = t /\ p[2] = status OBVIOUS
<1> HIDE DEF p
<1>2. n \in Nat /\ Len(q) = n + 1 /\ (\A i \in 1 .. n : q[i] = rs[i]) /\ q[n + 1] = p
  BY ONLY <1>1, rs \in Seq(Nat \X Outcomes), AppendedStack
<1> HIDE DEF q, n
<1>3. \A i \in 1 .. n + 1 : i = n + 1 \/ i \in 1 .. n BY <1>2
<1>4. n + 1 \in 1 .. n + 1 /\ \A i \in 1 .. n : i \in 1 .. n + 1 BY <1>2
<1>5. ToldTests(q) = ToldTests(rs) \cup {t}
  <2>1. ToldTests(q) = {q[i][1] : i \in 1 .. n + 1} BY <1>2 DEF ToldTests
  <2>2. ToldTests(rs) = {rs[i][1] : i \in 1 .. n} BY DEF ToldTests, n
  <2>3. \A i \in 1 .. n : q[i][1] = rs[i][1] BY <1>2
  <2>4. q[n + 1][1] = t BY <1>1, <1>2
  <2>5. ASSUME NEW x PROVE x \in ToldTests(q) <=> x \in ToldTests(rs) \/ x = t
    BY ONLY <1>3, <1>4, <2>1, <2>2, <2>3, <2>4
  <2> QED BY ONLY <2>5
<1>6. t \notin ToldTests(rs) /\ Once(rs) => Once(q) BY <1>1, <1>2, <1>3 DEF ToldTests, Once, n
<1>7. AsTests(rs, ts) /\ ts[t].status = status => AsTests(q, ts) BY <1>1, <1>2, <1>3 DEF AsTests, n
<1> QED BY <1>5, <1>6, <1>7 DEF p, q

LEMMA AboveNoCallbacks ==
  ASSUME NEW base \in Seq(FrameRecord), NoCallbacks(base), NEW f \in FrameRecord
  PROVE  LET u == Append(base, f) IN
         /\ OneCallback(u)
         /\ \A k : Coming(u, k) = IF f.kind = "result" /\ f.k < k THEN {f.test} ELSE {}
         /\ \A kind : Has(u, kind) <=> Has(base, kind) \/ f.kind = kind
         /\ f.kind \notin CallbackKinds => NoCallbacks(u)
<1> DEFINE u == Append(base, f)
           n == Len(base)
<1>1. n \in Nat /\ Len(u) = n + 1 /\ (\A i \in 1 .. n : u[i] = base[i]) /\ u[n + 1] = f BY AppendedStack
<1> HIDE DEF u, n
<1>2. \A i \in 1 .. n + 1 : i = n + 1 \/ i \in 1 .. n BY <1>1
<1>3. n + 1 \in 1 .. n + 1 /\ \A i \in 1 .. n : i \in 1 .. n + 1 BY <1>1
<1>4. \A i \in 1 .. n : u[i].kind \notin CallbackKinds BY <1>1 DEF NoCallbacks, n
<1>5. OneCallback(u) BY <1>1, <1>2, <1>4 DEF OneCallback
<1>6. ASSUME NEW k PROVE Coming(u, k) = IF f.kind = "result" /\ f.k < k THEN {f.test} ELSE {}
  <2> DEFINE J == {j \in 1 .. Len(u) : u[j].kind = "result" /\ u[j].k < k}
  <2>1. J = IF f.kind = "result" /\ f.k < k THEN {n + 1} ELSE {}
    BY <1>1, <1>2, <1>3, <1>4 DEF CallbackKinds
  <2>2. Coming(u, k) = {u[i].test : i \in J} BY DEF Coming
  <2> HIDE DEF J
  <2>3. CASE f.kind = "result" /\ f.k < k
    <3>1. J = {n + 1} BY <2>1, <2>3
    <3>2. Coming(u, k) = {u[n + 1].test} BY <2>2, <3>1
    <3> QED BY <1>1, <2>3, <3>2
  <2>4. CASE ~ (f.kind = "result" /\ f.k < k)
    <3>1. J = {} BY <2>1, <2>4
    <3>2. Coming(u, k) = {} BY <2>2, <3>1
    <3> QED BY <2>4, <3>2
  <2> QED BY <2>3, <2>4
<1>7. \A kind : Has(u, kind) <=> Has(base, kind) \/ f.kind = kind BY <1>1, <1>2, <1>3 DEF Has, n
<1>8. f.kind \notin CallbackKinds => NoCallbacks(u) BY <1>1, <1>2, <1>4 DEF NoCallbacks
<1> QED BY <1>5, <1>6, <1>7, <1>8 DEF u

LEMMA AboveQuiet ==
  ASSUME NEW base \in Seq(FrameRecord), NEW f \in FrameRecord, f.kind \in {"step", "setup"}
  PROVE  LET u == Append(base, f) IN
         /\ OneCallback(base) => OneCallback(u)
         /\ \A k : Coming(u, k) = Coming(base, k)
         /\ \A kind \in {"result", "allDone", "complete"} : Has(u, kind) <=> Has(base, kind)
         /\ Len(u) = Len(base) + 1 /\ \A i \in 1 .. Len(base) : i \in 1 .. Len(u) /\ u[i] = base[i]
         /\ \A i \in 1 .. Len(u) : u[i].kind = "result" => i \in 1 .. Len(base)
<1> DEFINE u == Append(base, f)
           n == Len(base)
<1>1. n \in Nat /\ Len(u) = n + 1 /\ (\A i \in 1 .. n : u[i] = base[i]) /\ u[n + 1] = f BY AppendedStack
<1> HIDE DEF u, n
<1>2. \A i \in 1 .. n + 1 : i = n + 1 \/ i \in 1 .. n BY <1>1
<1>3. \A i \in 1 .. n : i \in 1 .. n + 1 BY <1>1
<1>4. \A i \in 1 .. n + 1 : u[i].kind \in {"result", "allDone", "complete"} => i \in 1 .. n BY <1>1, <1>2
<1>5. OneCallback(base) => OneCallback(u) BY <1>1, <1>4 DEF OneCallback, CallbackKinds, n
<1>6. ASSUME NEW k PROVE Coming(u, k) = Coming(base, k)
  <2>1. {j \in 1 .. Len(u) : u[j].kind = "result" /\ u[j].k < k} = {j \in 1 .. n : base[j].kind = "result" /\ base[j].k < k}
    BY <1>1, <1>3, <1>4
  <2>2. \A j \in 1 .. n : u[j].test = base[j].test BY <1>1
  <2> QED BY <2>1, <2>2 DEF Coming, n
<1>7. ASSUME NEW kind \in {"result", "allDone", "complete"} PROVE Has(u, kind) <=> Has(base, kind)
  BY <1>1, <1>3, <1>4 DEF Has, n
<1> QED BY <1>1, <1>3, <1>4, <1>5, <1>6, <1>7 DEF u, n

\* The frames of the state a step goes out from.
LEMMA BaseStack ==
  ASSUME HarnessInv, OneCallback(th.stack), NEW s, Base(s)
  PROVE  /\ s.stack \in Seq(FrameRecord) /\ th.stack \in Seq(FrameRecord)
         /\ OneCallback(s.stack)
         /\ \A kind : Has(s.stack, kind) => Has(th.stack, kind)
         /\ \A k \in 1 .. NumCallbacks : Coming(s.stack, k) = Coming(th.stack, k)
         /\ \A i \in 1 .. Len(s.stack) : i \in 1 .. Len(th.stack) /\ s.stack[i] = th.stack[i]
         /\ \A i \in 1 .. Len(th.stack) : th.stack[i].kind = "complete" => i \in 1 .. Len(s.stack)
         /\ \A i \in 1 .. Len(s.stack) :
               s.stack[i].kind = "complete" => /\ th.phase = COMPLETE /\ s.stack[i].k = said.due
                                               /\ i < Len(s.stack) => s.stack[i + 1].kind = "result"
         /\ NoneFresh(s.stack)
         /\ OnTop(s, "complete") => NoCallbacks(s.stack)
<1> DEFINE st == th.stack
           u == s.stack
           n == Len(th.stack)
           top == Last(th.stack)
<1>1. th \in HarnessState /\ s \in HarnessState /\ NoneEnds(st) /\ NoneFresh(st) BY InvParts DEF Base
<1>2. st \in Seq(FrameRecord) /\ n \in Nat /\ u \in Seq(FrameRecord) BY ONLY <1>1, StateParts
<1>3. FramesAgree(st, Len(th.tests), said.due, th.phase = COMPLETE) BY DEF HarnessInv, Sane, SaneCore
<1>4. OneCallback(st) OBVIOUS
<1>5. CASE u = st
  <2>1. ~ OnTop(s, "complete")
    <3>1. OnTop(s, "complete") <=> OnTop(th, "complete") BY <1>5 DEF OnTop, TopFrame
    <3> QED BY <3>1, InvParts
  <2>2. \A i \in 1 .. n : st[i].kind = "complete" => /\ th.phase = COMPLETE /\ st[i].k = said.due
                                                     /\ i < n => st[i + 1].kind = "result"
    BY <1>3 DEF FramesAgree
  <2> HIDE DEF st, u
  <2>3. s.stack = th.stack BY <1>5 DEF st, u
  <2> QED BY <1>1, <1>2, <1>4, <2>1, <2>2, <2>3 DEF st
<1>6. CASE u # st
  <2>1. /\ st # <<>> /\ u = Front(st)
        /\ top.kind \in CallbackKinds => top.k = NumCallbacks
    BY <1>6 DEF Base
  <2> HIDE DEF st, u
  <2>2. n \in Nat \ {0} /\ Len(u) = n - 1 /\ (\A i \in 1 .. n - 1 : u[i] = st[i]) /\ top = st[n]
    <3>1. /\ Len(st) \in Nat \ {0} /\ Len(Front(st)) = Len(st) - 1
          /\ \A i \in 1 .. Len(st) - 1 : Front(st)[i] = st[i]
          /\ Last(st) = st[Len(st)]
      BY ONLY <1>2, <2>1, FrontOfStack
    <3> QED BY ONLY <2>1, <3>1 DEF n, top, st
  <2>3. Len(st) = n BY DEF st
  <2> HIDE DEF n, top
  <2>4. /\ \A i \in 1 .. n - 1 : i \in 1 .. n /\ i < n /\ (i < n - 1 => i + 1 \in 1 .. n - 1)
        /\ \A i \in 1 .. n : i = n \/ i \in 1 .. n - 1
        /\ n \in 1 .. n
    BY <2>2
  <2>5. OneCallback(u) BY <1>4, <2>2, <2>3, <2>4 DEF OneCallback
  <2>6. \A kind : Has(u, kind) => Has(st, kind) BY <2>2, <2>3, <2>4 DEF Has
  <2>7. ASSUME NEW k \in 1 .. NumCallbacks PROVE Coming(u, k) = Coming(st, k)
    <3>1. ~ (st[n].kind = "result" /\ st[n].k < k)
      <4>1. NumCallbacks \in Nat \ {0} BY HarnessAssumption
      <4> QED BY <2>1, <2>2, <4>1 DEF CallbackKinds
    <3>2. {j \in 1 .. Len(u) : u[j].kind = "result" /\ u[j].k < k} = {j \in 1 .. Len(st) : st[j].kind = "result" /\ st[j].k < k}
      BY <2>2, <2>3, <2>4, <3>1
    <3>3. \A j \in 1 .. Len(u) : u[j].test = st[j].test BY <2>2
    <3> QED BY <3>2, <3>3 DEF Coming
  <2>8. \A i \in 1 .. n : st[i].kind = "complete" => i \in 1 .. n - 1
    <3>1. \A i \in 1 .. n : st[i].kind = "complete" => i < n BY <1>1, <2>3 DEF NoneEnds
    <3> QED BY <2>4, <3>1
  <2>9. \A i \in 1 .. n : st[i].kind = "complete" => /\ th.phase = COMPLETE /\ st[i].k = said.due
                                                     /\ i < n => st[i + 1].kind = "result"
    BY <1>3, <2>3 DEF FramesAgree
  <2>10. \A i \in 1 .. n - 1 : u[i].kind = "complete" => /\ th.phase = COMPLETE /\ u[i].k = said.due
                                                         /\ i < n - 1 => u[i + 1].kind = "result"
    BY <2>2, <2>4, <2>9
  <2>11. NoneFresh(u) BY <1>1, <2>2, <2>3, <2>4 DEF NoneFresh
  <2>12. ASSUME OnTop(s, "complete") PROVE NoCallbacks(u)
    <3>1. u # <<>> /\ Last(u).kind = "complete" BY <2>12 DEF OnTop, TopFrame, u
    <3>2. Len(u) \in Nat \ {0} /\ Last(u) = u[Len(u)] BY ONLY <1>2, <3>1, FrontOfStack
    <3>3. n - 1 \in 1 .. n - 1 /\ st[n - 1].kind = "complete" BY <2>2, <3>1, <3>2
    <3>4. st[n - 1 + 1].kind = "result" BY <2>4, <2>9, <3>3
    <3>5. st[n].kind \in CallbackKinds BY <2>2, <3>4 DEF CallbackKinds
    <3>6. \A i \in 1 .. n - 1 : i # n BY <2>4
    <3> QED BY <1>4, <2>2, <2>3, <2>4, <3>5, <3>6 DEF OneCallback, NoCallbacks
  <2> QED BY <1>2, <2>2, <2>3, <2>4, <2>5, <2>6, <2>7, <2>8, <2>10, <2>11, <2>12 DEF u, st
<1> QED BY <1>5, <1>6

\* A call of the harness, and a return that no callback follows, keep what was told.
LEMMA BaseCalm ==
  ASSUME HarnessInv, Calm(th, said), NEW s, Base(s)
  PROVE  Calm(s, said)
<1>1. OneCallback(th.stack) BY DEF Calm
<1>2. /\ OneCallback(s.stack)
      /\ \A kind : Has(s.stack, kind) => Has(th.stack, kind)
      /\ \A k \in 1 .. NumCallbacks : Coming(s.stack, k) = Coming(th.stack, k)
      /\ \A i \in 1 .. Len(s.stack) : i \in 1 .. Len(th.stack) /\ s.stack[i] = th.stack[i]
      /\ \A i \in 1 .. Len(th.stack) : th.stack[i].kind = "complete" => i \in 1 .. Len(s.stack)
  BY <1>1, BaseStack
<1>3. /\ Len(th.tests) <= Len(s.tests)
      /\ \A t \in 1 .. Len(th.tests) : s.tests[t] = th.tests[t]
      /\ \A t \in 1 .. Len(s.tests) : t > Len(th.tests) => ~ s.tests[t].is_done
      /\ s.phase = COMPLETE <=> th.phase = COMPLETE
      /\ s.output = "COMPLETE" <=> th.output = "COMPLETE"
      /\ s.table = th.table
  BY DEF Base
<1>4. Len(th.tests) \in Nat /\ Len(s.tests) \in Nat
  <2>1. th \in HarnessState /\ s \in HarnessState BY InvParts DEF Base
  <2> QED BY ONLY <2>1, StateParts
<1>5. \A t \in 1 .. Len(s.tests) : t > Len(th.tests) \/ t \in 1 .. Len(th.tests) BY <1>4
<1>6. \A t \in 1 .. Len(th.tests) : t \in 1 .. Len(s.tests) BY <1>3, <1>4
<1>7. DoneTests(s.tests) = DoneTests(th.tests) BY <1>3, <1>5, <1>6 DEF DoneTests
<1>8. ASSUME NEW reached, Telling(th, said, reached) PROVE Telling(s, said, reached)
  <2>1. reached \subseteq 1 .. Len(s.tests) BY <1>6, <1>8 DEF Telling
  <2>2. ASSUME NEW k \in 1 .. NumCallbacks PROVE AsTests(said.results[k], s.tests)
    <3>1. /\ ToldTests(said.results[k]) \subseteq 1 .. Len(th.tests)
          /\ AsTests(said.results[k], th.tests)
      BY <1>8 DEF Telling
    <3> QED BY <1>3, <3>1 DEF AsTests, ToldTests
  <2>3. \A i \in 1 .. Len(s.stack) : s.stack[i].kind = "result" => s.stack[i].test \in reached
    BY <1>2, <1>8 DEF Telling
  <2> QED BY <1>2, <1>3, <1>7, <1>8, <2>1, <2>2, <2>3 DEF Telling
<1>9. ASSUME NEW i \in 1 .. Len(th.stack), Looping(th, said, i)
      PROVE  i \in 1 .. Len(s.stack) /\ Looping(s, said, i)
  <2>1. i \in 1 .. Len(s.stack) /\ s.stack[i] = th.stack[i] BY <1>2, <1>9 DEF Looping
  <2> QED BY <1>7, <1>8, <1>9, <2>1 DEF Looping
<1>10. AllTold(th, said) => AllTold(s, said) BY <1>2, <1>3 DEF AllTold
<1> QED BY <1>2, <1>3, <1>7, <1>8, <1>9, <1>10 DEF Calm

\* What a step that calls no callback tells: nothing.
LEMMA TellsNothing ==
  ASSUME HarnessInv, NEW o, Leaves(o, DueAfter(th, o, said.due)), Tells(o),
         o.stack # <<>> /\ Last(o.stack).kind \in CallbackKinds => ~ Last(o.stack).fresh
  PROVE  /\ said'.results = said.results /\ said'.completed = said.completed
         /\ said'.due = DueAfter(th, o, said.due)
<1>1. ~ ToldResult(o) /\ ~ ToldCompletion(o) BY DEF ToldResult, ToldCompletion, OnTop, TopFrame, CallbackKinds
<1> QED BY <1>1, ToldHistory DEF Tells

LEMMA SameTold ==
  ASSUME NEW o, NEW g, NEW h, Calm(o, g), h.results = g.results, h.completed = g.completed, h.due = g.due
  PROVE  Calm(o, h)
<1>1. ASSUME NEW reached, Telling(o, g, reached) PROVE Telling(o, h, reached) BY <1>1 DEF Telling
<1>2. ASSUME NEW i, Looping(o, g, i) PROVE Looping(o, h, i) BY <1>1, <1>2 DEF Looping
<1>3. AllTold(o, g) => AllTold(o, h) BY DEF AllTold
<1> QED BY <1>1, <1>2, <1>3 DEF Calm

LEMMA LastIsBegun ==
  ASSUME NEW st \in Seq(FrameRecord), NoneFresh(st), st # <<>>, Last(st).kind \in CallbackKinds
  PROVE  ~ Last(st).fresh
<1>1. Last(st) = st[Len(st)] /\ Len(st) \in Nat \ {0} BY ONLY st \in Seq(FrameRecord), st # <<>>, FrontOfStack
<1>2. Len(st) \in 1 .. Len(st) BY <1>1
<1> QED BY <1>1, <1>2 DEF NoneFresh

\* A step that finishes no test and calls no callback tells nothing.
LEMMA QuietCalm ==
  ASSUME HarnessInv, NEW s, s.stack \in Seq(FrameRecord), Calm(s, said), s.phase = COMPLETE <=> th.phase = COMPLETE,
         NEW o, Quietly(s, o), Leaves(o, DueAfter(th, o, said.due)), Tells(o)
  PROVE  Calm(o, said')
<1> DEFINE st == s.stack
           u == o.stack
<1>1. /\ Len(o.tests) = Len(s.tests)
      /\ \A t \in 1 .. Len(s.tests) : o.tests[t].status = s.tests[t].status /\ o.tests[t].is_done = s.tests[t].is_done
      /\ o.phase = COMPLETE <=> s.phase = COMPLETE
      /\ o.output = "COMPLETE" <=> s.output = "COMPLETE"
      /\ o.table = s.table
  BY DEF Quietly, SameResults
<1>2. \/ u = st /\ NoneFresh(st)
      \/ \E f \in FrameRecord : f.kind \in {"step", "setup"} /\ u = Append(st, f)
  BY DEF Quietly
<1>3. st \in Seq(FrameRecord) OBVIOUS
<1>4. /\ OneCallback(st) => OneCallback(u)
      /\ \A k : Coming(u, k) = Coming(st, k)
      /\ \A kind \in {"result", "allDone", "complete"} : Has(u, kind) <=> Has(st, kind)
      /\ \A i \in 1 .. Len(st) : i \in 1 .. Len(u) /\ u[i] = st[i]
      /\ \A i \in 1 .. Len(u) : u[i].kind = "result" => i \in 1 .. Len(st)
      /\ u # <<>> /\ Last(u).kind \in CallbackKinds => ~ Last(u).fresh
  <2> HIDE DEF st, u
  <2>1. CASE u = st /\ NoneFresh(st) BY <1>3, <2>1, LastIsBegun
  <2>2. ASSUME NEW f \in FrameRecord, f.kind \in {"step", "setup"}, u = Append(st, f)
        PROVE  /\ OneCallback(st) => OneCallback(u)
               /\ \A k : Coming(u, k) = Coming(st, k)
               /\ \A kind \in {"result", "allDone", "complete"} : Has(u, kind) <=> Has(st, kind)
               /\ \A i \in 1 .. Len(st) : i \in 1 .. Len(u) /\ u[i] = st[i]
               /\ \A i \in 1 .. Len(u) : u[i].kind = "result" => i \in 1 .. Len(st)
               /\ u # <<>> /\ Last(u).kind \in CallbackKinds => ~ Last(u).fresh
    <3>1. Last(u) = f BY ONLY <1>3, <2>2, AppendedStack
    <3>2. f.kind \notin CallbackKinds BY <2>2 DEF CallbackKinds
    <3> QED BY <1>3, <2>2, <3>1, <3>2, AboveQuiet
  <2> QED BY <1>2, <2>1, <2>2
<1>5. said'.results = said.results /\ said'.completed = said.completed /\ said'.due = said.due
  <2>1. DueAfter(th, o, said.due) = said.due BY <1>1 DEF DueAfter
  <2> QED BY <1>4, <2>1, TellsNothing
<1>6. DoneTests(o.tests) = DoneTests(s.tests) BY <1>1 DEF DoneTests
<1>7. ASSUME NEW reached, Telling(s, said, reached) PROVE Telling(o, said, reached)
  <2>1. ASSUME NEW k \in 1 .. NumCallbacks PROVE AsTests(said.results[k], o.tests)
    <3>1. /\ ToldTests(said.results[k]) \subseteq 1 .. Len(s.tests)
          /\ AsTests(said.results[k], s.tests)
      BY <1>7 DEF Telling
    <3> QED BY <1>1, <3>1 DEF AsTests, ToldTests
  <2>2. \A i \in 1 .. Len(u) : u[i].kind = "result" => u[i].test \in reached BY <1>4, <1>7 DEF Telling
  <2>3. ~ Has(u, "allDone") BY <1>4, <1>7 DEF Telling
  <2> QED BY <1>1, <1>4, <1>6, <1>7, <2>1, <2>2, <2>3 DEF Telling
<1>8. ASSUME NEW i \in 1 .. Len(st), Looping(s, said, i) PROVE i \in 1 .. Len(u) /\ Looping(o, said, i)
  BY <1>4, <1>6, <1>7, <1>8 DEF Looping
<1>9. AllTold(s, said) => AllTold(o, said) BY <1>1, <1>4 DEF AllTold
<1>10. Calm(o, said) BY <1>1, <1>4, <1>6, <1>7, <1>8, <1>9 DEF Calm
<1> QED BY <1>5, <1>10, SameTold

\* A callback is told a result: that of the test of frame f.
LEMMA ResultTold ==
  ASSUME HarnessInv, NEW o, Leaves(o, DueAfter(th, o, said.due)), Tells(o),
         NEW base \in Seq(FrameRecord), NoCallbacks(base), NEW f \in FrameRecord, f.kind = "result", f.fresh,
         o.stack = Append(base, f), o.output # "COMPLETE",
         NEW reached, reached \subseteq 1 .. Len(o.tests), f.test \in reached, DoneTests(o.tests) \subseteq reached,
         \A k \in 1 .. NumCallbacks :
            /\ said.completed[k] = 0 /\ Once(said.results[k]) /\ AsTests(said.results[k], o.tests)
            /\ ToldTests(said.results[k]) = IF k < f.k THEN reached ELSE reached \ {f.test}
  PROVE  /\ Telling(o, said', reached) /\ OneCallback(o.stack) /\ said'.due = DueAfter(th, o, said.due)
         /\ \A k \in 1 .. NumCallbacks : Once(said'.results[k])
<1> DEFINE status == o.tests[f.test].status
           u == o.stack
<1>1. Last(u) = f /\ u # <<>>
  <2>1. o.stack = Append(base, f) OBVIOUS
  <2> QED BY ONLY <2>1, base \in Seq(FrameRecord), f \in FrameRecord, AppendedStack
<1>2. ToldResult(o) /\ ~ ToldCompletion(o) BY <1>1 DEF ToldResult, ToldCompletion, OnTop, TopFrame
<1>3. /\ said'.due = DueAfter(th, o, said.due) /\ said'.completed = said.completed
      /\ f.k \in 1 .. NumCallbacks /\ f.test \in 1 .. Len(o.tests)
      /\ <<f.test, status>> \in Nat \X Outcomes
      /\ said'.results[f.k] = Append(said.results[f.k], <<f.test, status>>)
      /\ \A k \in 1 .. NumCallbacks : k # f.k => said'.results[k] = said.results[k]
  BY <1>1, <1>2, ToldHistory DEF Tells
<1>4. /\ OneCallback(u)
      /\ \A k : Coming(u, k) = IF f.k < k THEN {f.test} ELSE {}
      /\ ~ Has(u, "allDone")
      /\ \A i \in 1 .. Len(u) : u[i].kind = "result" => u[i] = f
  <2>1. /\ OneCallback(u)
        /\ \A k : Coming(u, k) = IF f.kind = "result" /\ f.k < k THEN {f.test} ELSE {}
        /\ \A kind : Has(u, kind) <=> Has(base, kind) \/ f.kind = kind
    BY AboveNoCallbacks
  <2>2. ~ Has(base, "allDone") BY DEF Has, NoCallbacks, CallbackKinds
  <2>3. \A i \in 1 .. Len(u) : u[i].kind = "result" => u[i] = f
    <3>1. /\ Len(base) \in Nat /\ Len(u) = Len(base) + 1 /\ u[Len(base) + 1] = f
          /\ \A i \in 1 .. Len(base) : u[i] = base[i]
      BY ONLY o.stack = Append(base, f), base \in Seq(FrameRecord), f \in FrameRecord, AppendedStack
    <3>2. \A i \in 1 .. Len(u) : i = Len(base) + 1 \/ i \in 1 .. Len(base) BY <3>1
    <3> QED BY <3>1, <3>2 DEF NoCallbacks, CallbackKinds
  <2> QED BY <2>1, <2>2, <2>3
<1> HIDE DEF status, u
<1>5. ASSUME NEW k \in 1 .. NumCallbacks
      PROVE  /\ said'.completed[k] = 0 /\ Once(said'.results[k]) /\ AsTests(said'.results[k], o.tests)
             /\ ToldTests(said'.results[k]) = reached \ Coming(u, k)
  <2>1. /\ said.completed[k] = 0 /\ Once(said.results[k]) /\ AsTests(said.results[k], o.tests)
        /\ ToldTests(said.results[k]) = IF k < f.k THEN reached ELSE reached \ {f.test}
    OBVIOUS
  <2>2. CASE k = f.k
    <3> DEFINE rs == said.results[k]
    <3>1. rs \in Seq(Nat \X Outcomes) /\ f.test \in Nat /\ status \in Outcomes BY <1>3 DEF HarnessInv, HarnessHistory
    <3>2. said'.results[k] = Append(rs, <<f.test, status>>) BY <1>3, <2>2
    <3>3. ToldTests(rs) = reached \ {f.test} /\ Once(rs) /\ AsTests(rs, o.tests) /\ o.tests[f.test].status = status
      BY <2>1, <2>2 DEF status
    <3> HIDE DEF rs
    <3>4. /\ ToldTests(Append(rs, <<f.test, status>>)) = ToldTests(rs) \cup {f.test}
          /\ Once(Append(rs, <<f.test, status>>)) /\ AsTests(Append(rs, <<f.test, status>>), o.tests)
      <4> DEFINE t == f.test
                 ts == o.tests
      <4> HIDE DEF t, ts
      <4>1. rs \in Seq(Nat \X Outcomes) /\ t \in Nat BY <3>1 DEF t
      <4>2. t \notin ToldTests(rs) /\ Once(rs) /\ AsTests(rs, ts) /\ ts[t].status = status BY <3>3 DEF t, ts
      <4>3. /\ ToldTests(Append(rs, <<t, status>>)) = ToldTests(rs) \cup {t}
            /\ Once(Append(rs, <<t, status>>)) /\ AsTests(Append(rs, <<t, status>>), ts)
        BY ONLY <3>1, <4>1, <4>2, AppendedTold
      <4> QED BY <4>3 DEF t, ts
    <3>5. ~ (f.k < k) BY <1>3, <2>2
    <3>6. Coming(u, k) = {} BY <1>4, <3>5
    <3>7. reached = (reached \ {f.test}) \cup {f.test} OBVIOUS
    <3> QED BY <1>3, <2>1, <3>2, <3>3, <3>4, <3>6, <3>7
  <2>3. CASE k # f.k
    <3>1. said'.results[k] = said.results[k] /\ said'.completed = said.completed BY <1>3, <2>3
    <3>2. k < f.k \/ f.k < k BY <1>3, <2>3
    <3>3. f.k < k => ~ (k < f.k) BY <1>3
    <3>4. reached \ Coming(u, k) = IF k < f.k THEN reached ELSE reached \ {f.test} BY <1>3, <1>4, <3>2
    <3> QED BY <2>1, <3>1, <3>4
  <2> QED BY <2>2, <2>3
<1>6. \A i \in 1 .. Len(u) : u[i].kind = "result" => u[i].test \in reached BY <1>4
<1>7. Telling(o, said', reached) BY <1>4, <1>5, <1>6 DEF Telling, u
<1> QED BY <1>3, <1>4, <1>5, <1>7 DEF u

\* A callback is told of the completion, when all have been told all results.
LEMMA CompletionTold ==
  ASSUME HarnessInv, NEW o, Leaves(o, DueAfter(th, o, said.due)), Tells(o),
         NEW base \in Seq(FrameRecord), NoCallbacks(base), NEW f \in FrameRecord, f.kind = "allDone", f.fresh,
         o.stack = Append(base, f), o.phase = COMPLETE, o.output = "COMPLETE", ~ Has(base, "complete"),
         \A k \in 1 .. NumCallbacks :
            /\ said.completed[k] \in {0, Len(said.results[k]) + 1} /\ Once(said.results[k])
            /\ AsTable(said.results[k], o.table)
            /\ ToldTests(said.results[k]) = 1 .. DueAfter(th, o, said.due)
  PROVE  Calm(o, said')
<1> DEFINE u == o.stack
<1>1. Last(u) = f /\ u # <<>>
  <2>1. o.stack = Append(base, f) OBVIOUS
  <2> QED BY ONLY <2>1, base \in Seq(FrameRecord), f \in FrameRecord, AppendedStack
<1>2. ~ ToldResult(o) /\ ToldCompletion(o) BY <1>1 DEF ToldResult, ToldCompletion, OnTop, TopFrame
<1>3. /\ said'.due = DueAfter(th, o, said.due) /\ said'.results = said.results
      /\ said'.completed[f.k] = Len(said.results[f.k]) + 1
      /\ \A k \in 1 .. NumCallbacks : k # f.k => said'.completed[k] = said.completed[k]
  BY <1>1, <1>2, ToldHistory DEF Tells
<1>4. OneCallback(u) /\ ~ Has(u, "result") /\ ~ Has(u, "complete")
  <2>1. /\ OneCallback(u)
        /\ \A kind : Has(u, kind) <=> Has(base, kind) \/ f.kind = kind
    BY AboveNoCallbacks
  <2>2. ~ Has(base, "result") BY DEF Has, NoCallbacks, CallbackKinds
  <2> QED BY <2>1, <2>2
<1>5. ASSUME NEW k \in 1 .. NumCallbacks
      PROVE  /\ said'.completed[k] \in {0, Len(said'.results[k]) + 1} /\ Once(said'.results[k])
             /\ AsTable(said'.results[k], o.table) /\ ToldTests(said'.results[k]) = 1 .. said'.due
  <2>1. CASE k = f.k BY <1>3, <2>1
  <2>2. CASE k # f.k BY <1>3, <2>2
  <2> QED BY <2>1, <2>2
<1>6. AllTold(o, said') BY <1>4, <1>5 DEF AllTold
<1> QED BY <1>4, <1>5, <1>6 DEF Calm

\* complete() tells the next result that is missing, or the completion.
LEMMA LoopCalm ==
  ASSUME HarnessInv, NEW s \in HarnessState, DoneAgrees(s.tests), s.output # "COMPLETE",
         NEW o, Leaves(o, DueAfter(th, o, said.due)), Tells(o),
         NEW base \in Seq(FrameRecord), NoCallbacks(base), ~ Has(base, "complete"),
         NEW from \in Nat, NEW n \in Nat, n = DueAfter(th, o, said.due), n <= Len(s.tests), from <= n,
         LoopsOn(s, o, base, from, n), DoneTests(s.tests) \subseteq 1 .. n,
         \A k \in 1 .. NumCallbacks :
            /\ said.completed[k] = 0 /\ Once(said.results[k]) /\ AsTests(said.results[k], s.tests)
            /\ ToldTests(said.results[k]) = DoneTests(s.tests) \cup 1 .. from
  PROVE  Calm(o, said')
<1> DEFINE done1 == DoneTests(s.tests)
<1>1. s.tests \in Seq(TestRecord) /\ Len(s.tests) \in Nat /\ DOMAIN s.tests = 1 .. Len(s.tests) BY ONLY StateParts, s \in HarnessState
<1>2. /\ o \in HarnessState /\ o.tests = s.tests /\ o.phase = COMPLETE
      /\ AllIsTold(s, o, base, from, n) \/ \E t \in Nat : NextIsTold(s, o, base, from, n, t)
  BY DEF LoopsOn
<1>3. \A t \in 1 .. n : t \in 1 .. Len(s.tests) BY <1>1
<1>4. \A t \in 1 .. n : s.tests[t].status # "NOTRUN" <=> t \in done1 BY <1>3 DEF DoneAgrees, DoneTests
<1> HIDE DEF done1
<1>5. done1 \subseteq 1 .. n BY DEF done1
<1>6. \A k \in 1 .. NumCallbacks :
         /\ said.completed[k] = 0 /\ Once(said.results[k]) /\ AsTests(said.results[k], s.tests)
         /\ ToldTests(said.results[k]) = done1 \cup 1 .. from
  BY DEF done1
<1>7. CASE AllIsTold(s, o, base, from, n)
  <2> DEFINE f == RunFrame("allDone", 0, 1)
  <2>1. f \in FrameRecord BY FrameTypes
  <2>2. f.kind = "allDone" /\ f.fresh BY DEF RunFrame
  <2>3. o.stack = Append(base, f) /\ o.output = "COMPLETE" BY <1>7 DEF AllIsTold
  <2> HIDE DEF f
  <2>4. \A t \in from + 1 .. n : s.tests[t].status # "NOTRUN" BY <1>7 DEF AllIsTold
  <2>5. \A t \in from + 1 .. n : t \in 1 .. n BY <1>1
  <2>6. \A t \in 1 .. n : t \in 1 .. from \/ t \in from + 1 .. n BY <1>1
  <2>7. \A t \in 1 .. from : t \in 1 .. n BY <1>1
  <2>8. done1 \cup 1 .. from = 1 .. n BY <1>4, <1>5, <2>4, <2>5, <2>6, <2>7
  <2>9. \A t \in 1 .. n : o.table[t] = s.tests[t].status BY <1>1, <1>3, <1>7 DEF AllIsTold
  <2>10. ASSUME NEW k \in 1 .. NumCallbacks
         PROVE  /\ said.completed[k] \in {0, Len(said.results[k]) + 1} /\ Once(said.results[k])
                /\ AsTable(said.results[k], o.table)
                /\ ToldTests(said.results[k]) = 1 .. DueAfter(th, o, said.due)
    <3>1. ToldTests(said.results[k]) = 1 .. n BY <1>6, <2>8
    <3>2. AsTable(said.results[k], o.table) BY <1>6, <2>9, <3>1 DEF AsTable, AsTests, ToldTests
    <3> QED BY <1>6, <3>1, <3>2
  <2> QED BY <1>2, <2>1, <2>2, <2>3, <2>10, CompletionTold
<1>8. ASSUME NEW t \in Nat, NextIsTold(s, o, base, from, n, t) PROVE Calm(o, said')
  <2>1. PICK fresh \in BOOLEAN :
          o.stack = Append(Append(base, [kind |-> "complete", test |-> t, k |-> n, fresh |-> fresh]),
                           RunFrame("result", t, 1))
    BY <1>8 DEF NextIsTold
  <2> DEFINE c == [kind |-> "complete", test |-> t, k |-> n, fresh |-> fresh]
             f == RunFrame("result", t, 1)
             st == Append(base, c)
             reached == done1 \cup 1 .. t
  <2>2. c \in FrameRecord /\ c.kind = "complete" /\ c.test = t BY DEF FrameRecord
  <2>3. f \in FrameRecord BY FrameTypes
  <2>4. f.kind = "result" /\ f.k = 1 /\ f.test = t /\ f.fresh BY DEF RunFrame
  <2>5. o.stack = Append(st, f) BY <2>1
  <2> HIDE DEF c, f
  <2>6. st \in Seq(FrameRecord) /\ Len(base) \in Nat /\ Len(st) = Len(base) + 1 /\ st[Len(base) + 1] = c
    BY ONLY <2>2, base \in Seq(FrameRecord), AppendedStack
  <2>7. NoCallbacks(st)
    <3>1. c.kind \notin CallbackKinds BY <2>2 DEF CallbackKinds
    <3> QED BY <2>2, <3>1, AboveNoCallbacks
  <2> HIDE DEF st
  <2>8. /\ t \in from + 1 .. n /\ s.tests[t].status = "NOTRUN"
        /\ \A u \in from + 1 .. t - 1 : s.tests[u].status # "NOTRUN"
        /\ o.output # "COMPLETE"
    BY <1>8 DEF NextIsTold
  <2>9. t \in 1 .. n /\ t \notin done1 /\ t \notin 1 .. from BY <1>1, <1>4, <2>8
  <2>11. done1 \cup 1 .. from = reached \ {t}
    <3>1. \A u \in from + 1 .. t - 1 : u \in 1 .. n BY <2>8
    <3>2. \A u \in from + 1 .. t - 1 : u \in done1 BY <1>4, <2>8, <3>1
    <3>3. \A u \in 1 .. t : u = t \/ u \in 1 .. from \/ u \in from + 1 .. t - 1 BY <2>8
    <3>4. \A u \in 1 .. from : u \in 1 .. t BY <2>8
    <3> QED BY <2>9, <3>2, <3>3, <3>4
  <2>12. reached \subseteq 1 .. Len(o.tests) /\ t \in reached /\ DoneTests(o.tests) \subseteq reached
    <3>1. \A u \in 1 .. t : u \in 1 .. n BY <2>9
    <3>2. t \in 1 .. t BY <2>9
    <3> QED BY <1>2, <1>3, <1>5, <3>1, <3>2 DEF done1
  <2> HIDE DEF reached
  <2>13. ASSUME NEW k \in 1 .. NumCallbacks
         PROVE  /\ said.completed[k] = 0 /\ Once(said.results[k]) /\ AsTests(said.results[k], o.tests)
                /\ ToldTests(said.results[k]) = IF k < f.k THEN reached ELSE reached \ {f.test}
    <3>1. ~ (k < 1) BY HarnessAssumption
    <3> QED BY <1>2, <1>6, <2>4, <2>11, <3>1
  <2>14. /\ Telling(o, said', reached) /\ OneCallback(o.stack) /\ said'.due = DueAfter(th, o, said.due)
         /\ \A k \in 1 .. NumCallbacks : Once(said'.results[k])
    BY <2>3, <2>4, <2>5, <2>6, <2>7, <2>8, <2>12, <2>13, ResultTold
  <2>15. Len(st) \in 1 .. Len(o.stack) /\ o.stack[Len(st)] = c
    <3>1. Len(o.stack) = Len(st) + 1 /\ \A i \in 1 .. Len(st) : o.stack[i] = st[i] BY ONLY <2>3, <2>5, <2>6, AppendedStack
    <3> QED BY <2>6, <3>1
  <2>16. Looping(o, said', Len(st)) BY <1>2, <1>5, <2>2, <2>14, <2>15 DEF Looping, reached, done1
  <2> QED BY <1>2, <2>8, <2>14, <2>15, <2>16 DEF Calm
<1> QED BY <1>2, <1>7, <1>8

LEMMA NothingComing ==
  ASSUME NEW st, NoCallbacks(st), NEW k
  PROVE  Coming(st, k) = {}
BY DEF Coming, NoCallbacks, CallbackKinds

LEMMA NotInCallback ==
  ASSUME NEW s \in HarnessState
  PROVE  ~ InCallback(s) <=> NoCallbacks(s.stack)
<1>1. DOMAIN s.stack = 1 .. Len(s.stack) BY StateParts
<1> QED BY <1>1 DEF InCallback, NoCallbacks, CallbackKinds

\* complete() goes on with the next test without a result, or tells the completion.
LEMMA CompletingCalm ==
  ASSUME HarnessInv, Calm(th, said), NEW s, Base(s), NEW o, Completing(s, o), ~ (InCallback(s) /\ Finishes(o)),
         Leaves(o, DueAfter(th, o, said.due)), Tells(o)
  PROVE  Calm(o, said')
<1> DEFINE done1 == DoneTests(s.tests)
<1>1. Calm(s, said) BY BaseCalm
<1>2. s \in HarnessState /\ (s.phase = COMPLETE <=> th.phase = COMPLETE) BY DEF Base
<1>3. /\ OneCallback(th.stack) /\ s.stack \in Seq(FrameRecord)
      /\ \A i \in 1 .. Len(s.stack) :
            s.stack[i].kind = "complete" => /\ th.phase = COMPLETE /\ s.stack[i].k = said.due
                                            /\ i < Len(s.stack) => s.stack[i + 1].kind = "result"
      /\ OnTop(s, "complete") => NoCallbacks(s.stack)
  <2>1. OneCallback(th.stack) BY DEF Calm
  <2> QED BY <2>1, BaseStack
<1>4. Len(s.stack) \in Nat /\ Len(s.tests) \in Nat BY ONLY <1>2, StateParts
<1>5. Len(s.tests) = Len(th.tests) BY DEF Completing
<1>6. DoneAgrees(s.tests)
  <2>1. DoneAgrees(th.tests) BY DEF HarnessInv, Sane
  <2> QED BY <1>5, <2>1 DEF DoneAgrees, Base
<1>7. CASE s.phase # COMPLETE /\ LoopsOn(s, o, s.stack, 0, Len(s.tests))
  <2>1. o.phase = COMPLETE BY <1>7 DEF LoopsOn
  <2>2. NoCallbacks(s.stack)
    <3>1. Finishes(o) BY <1>2, <1>7, <2>1 DEF Finishes
    <3> QED BY <1>2, <3>1, NotInCallback
  <2>3. ~ Has(s.stack, "complete") BY <1>2, <1>3, <1>7 DEF Has
  <2>4. DueAfter(th, o, said.due) = Len(s.tests) BY <1>2, <1>5, <1>7, <2>1 DEF DueAfter
  <2>5. Telling(s, said, done1) /\ \A k \in 1 .. NumCallbacks : Once(said.results[k]) BY <1>1, <1>7 DEF Calm
  <2>6. done1 \subseteq 1 .. Len(s.tests) BY DEF DoneTests
  <2> HIDE DEF done1
  <2>7. s.output # "COMPLETE" BY <2>5 DEF Telling
  <2>8. ASSUME NEW k \in 1 .. NumCallbacks
        PROVE  /\ said.completed[k] = 0 /\ Once(said.results[k]) /\ AsTests(said.results[k], s.tests)
               /\ ToldTests(said.results[k]) = done1 \cup 1 .. 0
    <3>1. Coming(s.stack, k) = {} BY <2>2, NothingComing
    <3>2. 1 .. 0 = {} OBVIOUS
    <3> QED BY <2>5, <3>1, <3>2 DEF Telling
  <2>9. 0 \in Nat /\ 0 <= Len(s.tests) /\ Len(s.tests) <= Len(s.tests) BY <1>4
  <2> QED BY <1>2, <1>3, <1>4, <1>6, <1>7, <2>2, <2>3, <2>4, <2>6, <2>7, <2>8, <2>9, LoopCalm DEF done1
<1>8. CASE OnTop(s, "complete") /\ LoopsOn(s, o, Front(s.stack), Last(s.stack).test, Last(s.stack).k)
  <2> DEFINE st == s.stack
             base == Front(st)
             frame == Last(st)
             n == Len(st)
  <2>1. st # <<>> /\ frame.kind = "complete" BY <1>8 DEF OnTop, TopFrame
  <2>2. /\ base \in Seq(FrameRecord) /\ n \in Nat \ {0} /\ Len(base) = n - 1
        /\ \A i \in 1 .. n - 1 : base[i] = st[i]
        /\ frame = st[n] /\ frame \in FrameRecord
    BY ONLY <1>3, <2>1, FrontOfStack
  <2>3. NoCallbacks(st) BY <1>3, <1>8
  <2> HIDE DEF base, frame, n
  <2>4. n \in 1 .. n /\ \A i \in 1 .. n - 1 : i \in 1 .. n /\ i < n /\ i + 1 \in 1 .. n BY <2>2
  <2>5. \A i \in 1 .. n : st[i].kind = "complete" => i = n
    <3> SUFFICES ASSUME NEW i \in 1 .. n, st[i].kind = "complete", i < n PROVE FALSE BY <2>2
    <3>1. st[i + 1].kind = "result" BY <1>3 DEF n
    <3>2. i + 1 \in 1 .. n BY <2>2
    <3> QED BY <2>3, <3>1, <3>2 DEF NoCallbacks, CallbackKinds, n
  <2>6. NoCallbacks(base) BY <2>2, <2>3, <2>4 DEF NoCallbacks, n
  <2>7. ~ Has(base, "complete") BY <2>2, <2>4, <2>5 DEF Has
  <2>8. th.phase = COMPLETE /\ frame.k = said.due BY <1>3, <2>1, <2>2, <2>4 DEF n
  <2>9. DueAfter(th, o, said.due) = said.due BY <2>8 DEF DueAfter
  <2>10. s.output # "COMPLETE"
    <3>1. Has(s.stack, "complete") BY <2>1, <2>2, <2>4 DEF Has, n
    <3> QED BY <1>1, <3>1 DEF Calm, AllTold
  <2>11. Looping(s, said, n)
    <3>1. PICK i \in 1 .. n : Looping(s, said, i) BY <1>1, <1>2, <2>8, <2>10 DEF Calm, n
    <3>2. i = n BY <2>5, <3>1 DEF Looping
    <3> QED BY <3>1, <3>2
  <2>12. done1 \subseteq 1 .. said.due /\ Telling(s, said, done1 \cup 1 .. frame.test)
    BY <2>2, <2>11 DEF Looping
  <2>13. frame.test \in Nat /\ frame.test <= said.due /\ said.due \in Nat /\ said.due <= Len(s.tests)
    <3>1. FramesAgree(th.stack, Len(th.tests), said.due, th.phase = COMPLETE) /\ said.due \in Nat /\ said.due <= Len(th.tests)
      BY DEF HarnessInv, Sane, SaneCore
    <3>2. n \in 1 .. Len(th.stack) /\ st[n] = th.stack[n] BY <1>3, <2>4, BaseStack DEF n
    <3>3. frame.test \in 0 .. said.due BY <2>1, <2>2, <3>1, <3>2 DEF FramesAgree
    <3> QED BY <1>5, <3>1, <3>3
  <2> HIDE DEF done1
  <2>14. ASSUME NEW k \in 1 .. NumCallbacks
         PROVE  /\ said.completed[k] = 0 /\ Once(said.results[k]) /\ AsTests(said.results[k], s.tests)
                /\ ToldTests(said.results[k]) = done1 \cup 1 .. frame.test
    <3>1. Coming(s.stack, k) = {} BY <2>3, NothingComing
    <3>2. Once(said.results[k]) BY <1>1 DEF Calm
    <3> QED BY <2>12, <3>1, <3>2 DEF Telling
  <2>15. LoopsOn(s, o, base, frame.test, said.due) BY <1>8, <2>8 DEF base, frame
  <2> HIDE DEF st
  <2> QED BY <1>2, <1>6, <2>2, <2>6, <2>7, <2>9, <2>10, <2>12, <2>13, <2>14, <2>15, LoopCalm DEF done1
<1> QED BY <1>7, <1>8 DEF Completing

\* A test that gets its result is told to the first callback.
LEMMA WithResultCalm ==
  ASSUME HarnessInv, Calm(th, said), NEW s, Base(s), NEW o, NEW t \in 1 .. Len(th.tests), WithResult(s, o, t),
         ~ (InCallback(s) /\ Finishes(o)), Leaves(o, DueAfter(th, o, said.due)), Tells(o)
  PROVE  Calm(o, said')
<1>1. Calm(s, said) BY BaseCalm
<1>2. s \in HarnessState /\ (s.phase = COMPLETE <=> th.phase = COMPLETE) /\ s.tests[t] = th.tests[t] BY DEF Base
<1>3. /\ t \in 1 .. Len(s.tests) /\ ~ s.tests[t].is_done
      /\ o \in HarnessState /\ Len(o.tests) = Len(s.tests) /\ o.tests[t].is_done
      /\ \A u \in 1 .. Len(s.tests) : u # t => o.tests[u].status = s.tests[u].status /\ o.tests[u].is_done = s.tests[u].is_done
      /\ o.phase = COMPLETE <=> s.phase = COMPLETE
      /\ o.output = "COMPLETE" <=> s.output = "COMPLETE"
      /\ o.table = s.table
      /\ o.stack = IF s.phase = COMPLETE THEN s.stack ELSE Append(s.stack, RunFrame("result", t, 1))
  BY DEF WithResult
<1>4. /\ s.stack \in Seq(FrameRecord) /\ NoneFresh(s.stack)
      /\ \A i \in 1 .. Len(s.stack) :
            s.stack[i].kind = "complete" => (i < Len(s.stack) => s.stack[i + 1].kind = "result")
  <2>1. OneCallback(th.stack) BY DEF Calm
  <2> QED BY <2>1, BaseStack
<1>5. NoCallbacks(s.stack)
  <2>1. DoneAgrees(th.tests) /\ DoneAgrees(o.tests) /\ t \in DOMAIN th.tests
    BY InvParts DEF HarnessInv, Leaves, Sane
  <2>2. o.tests[t].status # th.tests[t].status BY <1>2, <1>3, <2>1 DEF DoneAgrees
  <2>3. Finishes(o) BY <2>1, <2>2 DEF Finishes
  <2> QED BY <1>2, <2>3, NotInCallback
<1>6. DueAfter(th, o, said.due) = said.due BY <1>2, <1>3 DEF DueAfter
<1>7. CASE s.phase = COMPLETE
  <2>1. o.stack = s.stack BY <1>3, <1>7
  <2>2. said'.results = said.results /\ said'.completed = said.completed /\ said'.due = said.due
    <3>1. o.stack # <<>> /\ Last(o.stack).kind \in CallbackKinds => ~ Last(o.stack).fresh
      BY ONLY <1>4, <2>1, LastIsBegun
    <3> QED BY <1>6, <3>1, TellsNothing
  <2>3. s.output = "COMPLETE"
    <3> SUFFICES ASSUME s.output # "COMPLETE" PROVE FALSE OBVIOUS
    <3>1. PICK i \in 1 .. Len(s.stack) : Looping(s, said, i) BY <1>1, <1>7 DEF Calm
    <3>2. s.stack[i].kind = "complete" BY <3>1 DEF Looping
    <3>3. i < Len(s.stack) BY <2>1, <3>2 DEF Leaves, NoneEnds
    <3>4. s.stack[i + 1].kind = "result" BY <1>4, <3>2, <3>3
    <3>5. i + 1 \in 1 .. Len(s.stack) BY <1>4, <3>3
    <3> QED BY <1>5, <3>4, <3>5 DEF NoCallbacks, CallbackKinds
  <2>4. OneCallback(s.stack) /\ AllTold(s, said) /\ \A k \in 1 .. NumCallbacks : Once(said.results[k])
    BY <1>1, <2>3 DEF Calm
  <2>5. AllTold(o, said) BY <1>3, <1>7, <2>1, <2>4 DEF AllTold
  <2>6. Calm(o, said) BY <1>3, <1>7, <2>1, <2>3, <2>4, <2>5 DEF Calm
  <2> QED BY <2>2, <2>6, SameTold
<1>8. CASE s.phase # COMPLETE
  <2> DEFINE f == RunFrame("result", t, 1)
             done1 == DoneTests(s.tests)
             reached == done1 \cup {t}
  <2>1. Telling(s, said, done1) /\ \A k \in 1 .. NumCallbacks : Once(said.results[k]) BY <1>1, <1>8 DEF Calm
  <2>2. f \in FrameRecord
    <3>1. t \in Nat BY InvParts
    <3> QED BY <3>1, FrameTypes
  <2>3. f.kind = "result" /\ f.k = 1 /\ f.test = t /\ f.fresh BY DEF RunFrame
  <2>4. o.stack = Append(s.stack, f) BY <1>3, <1>8
  <2> HIDE DEF f
  <2>5. DoneTests(o.tests) = reached /\ reached \subseteq 1 .. Len(o.tests) /\ t \notin done1
    BY <1>3 DEF DoneTests
  <2> HIDE DEF done1
  <2>6. ASSUME NEW k \in 1 .. NumCallbacks
        PROVE  /\ said.completed[k] = 0 /\ Once(said.results[k]) /\ AsTests(said.results[k], o.tests)
               /\ ToldTests(said.results[k]) = IF k < f.k THEN reached ELSE reached \ {f.test}
    <3>1. Coming(s.stack, k) = {} BY <1>5, NothingComing
    <3>2. said.completed[k] = 0 /\ Once(said.results[k]) /\ AsTests(said.results[k], s.tests)
          /\ ToldTests(said.results[k]) = done1
      BY <2>1, <3>1 DEF Telling
    <3>3. done1 \subseteq 1 .. Len(s.tests) BY <1>3, <2>5
    <3>4. AsTests(said.results[k], o.tests)
      <4> DEFINE rs == said.results[k]
      <4>1. \A i \in 1 .. Len(rs) : rs[i][1] \in done1 BY <3>2 DEF ToldTests
      <4>2. \A i \in 1 .. Len(rs) : s.tests[rs[i][1]].status = rs[i][2] BY <3>2 DEF AsTests
      <4> HIDE DEF rs
      <4>3. \A u \in done1 : o.tests[u].status = s.tests[u].status BY <1>3, <2>5, <3>3
      <4>4. AsTests(rs, o.tests) BY ONLY <4>1, <4>2, <4>3 DEF AsTests
      <4> QED BY <4>4 DEF rs
    <3>5. ~ (k < 1) BY HarnessAssumption
    <3> QED BY <2>3, <2>5, <3>2, <3>4, <3>5
  <2>7. s.output # "COMPLETE" BY <2>1 DEF Telling
  <2>8. t \in reached OBVIOUS
  <2> HIDE DEF reached
  <2>9. /\ Telling(o, said', reached) /\ OneCallback(o.stack) /\ said'.due = DueAfter(th, o, said.due)
        /\ \A k \in 1 .. NumCallbacks : Once(said'.results[k])
    <3>1. /\ HarnessInv /\ Leaves(o, DueAfter(th, o, said.due)) /\ Tells(o)
          /\ o.output # "COMPLETE" /\ f.test \in reached /\ reached \subseteq 1 .. Len(o.tests)
          /\ DoneTests(o.tests) \subseteq reached
      BY <1>3, <2>3, <2>5, <2>7, <2>8
    <3> QED BY ONLY <1>4, <1>5, <2>2, <2>3, <2>4, <2>6, <3>1, ResultTold
  <2> QED BY <1>3, <1>8, <2>5, <2>7, <2>9 DEF Calm
<1> QED BY <1>7, <1>8

\* The next callback is told what the one before it was.
LEMMA ContinuingCalm ==
  ASSUME HarnessInv, Calm(th, said), NEW o, Continuing(o), Leaves(o, DueAfter(th, o, said.due)), Tells(o)
  PROVE  Calm(o, said')
<1> DEFINE st == th.stack
           base == Front(st)
           top == Last(st)
           f == [top EXCEPT !.k = @ + 1, !.fresh = TRUE]
           n == Len(st)
<1>1. /\ st # <<>> /\ top.kind \in CallbackKinds /\ top.k < NumCallbacks /\ o.stack = Append(base, f)
      /\ SameResults(th, o)
  BY DEF Continuing
<1>2. /\ o \in HarnessState /\ Len(o.tests) = Len(th.tests)
      /\ \A t \in 1 .. Len(th.tests) : o.tests[t].status = th.tests[t].status /\ o.tests[t].is_done = th.tests[t].is_done
      /\ o.phase = COMPLETE <=> th.phase = COMPLETE
      /\ o.output = "COMPLETE" <=> th.output = "COMPLETE"
      /\ o.table = th.table
  BY <1>1 DEF SameResults
<1>3. th \in HarnessState BY InvParts
<1>4. st \in Seq(FrameRecord) BY ONLY <1>3, StateParts
<1>5. /\ base \in Seq(FrameRecord) /\ n \in Nat \ {0} /\ Len(base) = n - 1
      /\ \A i \in 1 .. n - 1 : base[i] = st[i]
      /\ top = st[n] /\ top \in FrameRecord
  BY ONLY <1>1, <1>4, FrontOfStack
<1>6. OneCallback(st) /\ NoneEnds(st) /\ FramesAgree(st, Len(th.tests), said.due, th.phase = COMPLETE)
  BY InvParts DEF Calm, Sane, SaneCore
<1> HIDE DEF top
<1>7. f \in FrameRecord /\ f.kind = top.kind /\ f.test = top.test /\ f.k = top.k + 1 /\ f.fresh
  <2> DEFINE k == top.k + 1
  <2>1. k \in Nat BY <1>5 DEF FrameRecord
  <2>2. f = [top EXCEPT !.k = k, !.fresh = TRUE] OBVIOUS
  <2> HIDE DEF k, f
  <2>3. f \in FrameRecord /\ f.kind = top.kind /\ f.test = top.test /\ f.k = k /\ f.fresh
    BY ONLY <1>5, <2>1, <2>2 DEF FrameRecord
  <2> QED BY <2>3 DEF k
<1> HIDE DEF f, base, n
<1>8. /\ n \in 1 .. n /\ \A i \in 1 .. n - 1 : i \in 1 .. n /\ i < n /\ i # n
      /\ \A i \in 1 .. n : i = n \/ i \in 1 .. n - 1
  BY <1>5
<1>9. NoCallbacks(base) BY <1>1, <1>5, <1>6, <1>8 DEF NoCallbacks, OneCallback, n
<1>10. Has(st, top.kind) BY <1>5, <1>8 DEF Has, n
<1>11. DueAfter(th, o, said.due) = said.due BY <1>2 DEF DueAfter
<1>12. DoneTests(o.tests) = DoneTests(th.tests) BY <1>2 DEF DoneTests
<1>13. CASE top.kind = "result"
  <2>1. th.output # "COMPLETE" BY <1>10, <1>13 DEF Calm, AllTold
  <2>2. \A k \in 1 .. NumCallbacks : Coming(st, k) = IF k < f.k THEN {} ELSE {f.test}
    <3> SUFFICES ASSUME NEW k \in 1 .. NumCallbacks PROVE Coming(st, k) = IF k < f.k THEN {} ELSE {f.test}
      OBVIOUS
    <3> DEFINE J == {j \in 1 .. Len(st) : st[j].kind = "result" /\ st[j].k < k}
    <3>0. \A j \in 1 .. n - 1 : st[j].kind # "result" BY <1>5, <1>9 DEF NoCallbacks, CallbackKinds
    <3>1. J = IF top.k < k THEN {n} ELSE {} BY <1>5, <1>8, <1>13, <3>0 DEF n
    <3>2. Coming(st, k) = {st[j].test : j \in J} BY DEF Coming
    <3> HIDE DEF J, st
    <3>3. top.k < k <=> ~ (k < f.k)
      <4>1. top.k \in Nat /\ k \in Nat BY <1>5, HarnessAssumption DEF FrameRecord
      <4> QED BY <1>7, <4>1
    <3>4. CASE top.k < k
      <4>1. J = {n} BY <3>1, <3>4
      <4>2. Coming(st, k) = {st[n].test} BY <3>2, <4>1
      <4> QED BY <1>5, <1>7, <3>3, <3>4, <4>2
    <3>5. CASE ~ (top.k < k)
      <4>1. J = {} BY <3>1, <3>5
      <4>2. Coming(st, k) = {} BY <3>2, <4>1
      <4> QED BY <3>3, <3>5, <4>2
    <3> QED BY <3>4, <3>5
  <2>3. ASSUME NEW reached, Telling(th, said, reached)
        PROVE  /\ Telling(o, said', reached) /\ OneCallback(o.stack) /\ said'.due = said.due
               /\ \A k \in 1 .. NumCallbacks : Once(said'.results[k])
    <3>1. reached \subseteq 1 .. Len(o.tests) /\ DoneTests(o.tests) \subseteq reached
      BY <1>2, <1>12, <2>3 DEF Telling
    <3>2. f.test \in reached BY <1>5, <1>7, <1>8, <1>13, <2>3 DEF Telling, n
    <3>3. ASSUME NEW k \in 1 .. NumCallbacks
          PROVE  /\ said.completed[k] = 0 /\ Once(said.results[k]) /\ AsTests(said.results[k], o.tests)
                 /\ ToldTests(said.results[k]) = IF k < f.k THEN reached ELSE reached \ {f.test}
      <4>1. said.completed[k] = 0 /\ AsTests(said.results[k], th.tests)
            /\ ToldTests(said.results[k]) = reached \ Coming(st, k)
        BY <2>3 DEF Telling
      <4>2. Once(said.results[k]) BY DEF Calm
      <4>3. ToldTests(said.results[k]) \subseteq 1 .. Len(th.tests) BY <2>3, <4>1 DEF Telling
      <4>4. AsTests(said.results[k], o.tests) BY <1>2, <4>1, <4>3 DEF AsTests, ToldTests
      <4>5. ToldTests(said.results[k]) = IF k < f.k THEN reached ELSE reached \ {f.test} BY <2>2, <4>1
      <4> QED BY <4>1, <4>2, <4>4, <4>5
    <3>4. f.kind = "result" /\ o.output # "COMPLETE" BY <1>2, <1>7, <1>13, <2>1
    <3>5. /\ HarnessInv /\ Leaves(o, DueAfter(th, o, said.due)) /\ Tells(o)
          /\ base \in Seq(FrameRecord) /\ NoCallbacks(base) /\ f \in FrameRecord /\ f.fresh /\ o.stack = Append(base, f)
      BY <1>1, <1>5, <1>7, <1>9
    <3>6. /\ Telling(o, said', reached) /\ OneCallback(o.stack) /\ said'.due = DueAfter(th, o, said.due)
          /\ \A k \in 1 .. NumCallbacks : Once(said'.results[k])
      BY ONLY <3>1, <3>2, <3>3, <3>4, <3>5, ResultTold
    <3> QED BY <1>11, <3>6
  <2>4. CASE th.phase # COMPLETE
    <3>1. Telling(th, said, DoneTests(th.tests)) BY <2>4 DEF Calm
    <3> QED BY <1>2, <1>12, <2>1, <2>3, <2>4, <3>1 DEF Calm
  <2>5. CASE th.phase = COMPLETE
    <3>1. PICK i \in 1 .. Len(st) : Looping(th, said, i) BY <2>1, <2>5 DEF Calm
    <3>2. st[i].kind = "complete" /\ DoneTests(th.tests) \subseteq 1 .. said.due
          /\ Telling(th, said, DoneTests(th.tests) \cup 1 .. st[i].test)
      BY <3>1 DEF Looping
    <3>3. i \in 1 .. n - 1
      <4>1. i < Len(st) BY <1>6, <3>2 DEF NoneEnds
      <4> QED BY <1>5, <4>1 DEF n
    <3>4. i \in 1 .. Len(o.stack) /\ o.stack[i] = st[i]
      <4>1. Len(o.stack) = n - 1 + 1 /\ \A j \in 1 .. n - 1 : o.stack[j] = base[j]
        BY <1>1, <1>5, <1>7, AppendedStack
      <4> QED BY <1>5, <3>3, <4>1
    <3>5. /\ Telling(o, said', DoneTests(th.tests) \cup 1 .. st[i].test) /\ OneCallback(o.stack) /\ said'.due = said.due
          /\ \A k \in 1 .. NumCallbacks : Once(said'.results[k])
      BY <2>3, <3>2
    <3> HIDE DEF st
    <3>6. Looping(o, said', i) BY <1>12, <3>2, <3>4, <3>5 DEF Looping
    <3> QED BY <1>2, <2>1, <2>5, <3>4, <3>5, <3>6 DEF Calm
  <2> QED BY <2>4, <2>5
<1>14. CASE top.kind = "allDone"
  <2>1. th.output = "COMPLETE"
    <3>1. Has(st, "allDone") BY <1>10, <1>14
    <3> QED BY <3>1 DEF Calm, Telling, Looping
  <2>2. AllTold(th, said) BY <2>1 DEF Calm
  <2>3. ~ Has(base, "complete") BY <1>5, <1>8, <2>2 DEF AllTold, Has, n
  <2>4. ASSUME NEW k \in 1 .. NumCallbacks
        PROVE  /\ said.completed[k] \in {0, Len(said.results[k]) + 1} /\ Once(said.results[k])
               /\ AsTable(said.results[k], o.table)
               /\ ToldTests(said.results[k]) = 1 .. DueAfter(th, o, said.due)
    BY <1>2, <1>11, <2>2 DEF AllTold, Calm
  <2>5. o.phase = COMPLETE /\ o.output = "COMPLETE" /\ f.kind = "allDone" BY <1>2, <1>7, <1>14, <2>1, <2>2 DEF AllTold
  <2> QED BY <1>1, <1>5, <1>7, <1>9, <2>3, <2>4, <2>5, CompletionTold
<1> QED BY <1>1, <1>13, <1>14 DEF CallbackKinds

\* What calm callbacks are told holds at first,
LEMMA CalmInvInit == HarnessInit => CalmInv
<1> SUFFICES ASSUME HarnessInit PROVE CalmInv OBVIOUS
<1>1. HarnessInv BY HarnessInvInit
<1> DEFINE no == <<>>
<1>2. Len(no) = 0 /\ th.tests = no /\ th.stack = no /\ th.phase = INITIAL /\ th.output = "INITIAL"
      /\ \A k \in 1 .. NumCallbacks : said.results[k] = no /\ said.completed[k] = 0
  BY DEF HarnessInit
<1> HIDE DEF no
<1>3. INITIAL # COMPLETE BY DEF INITIAL, COMPLETE
<1>4. OneCallback(th.stack) /\ ~ Has(th.stack, "allDone") BY <1>2 DEF OneCallback, Has
<1>5. DoneTests(th.tests) = {} BY <1>2 DEF DoneTests
<1>6. ASSUME NEW k \in 1 .. NumCallbacks
      PROVE  /\ Once(said.results[k]) /\ said.completed[k] = 0 /\ AsTests(said.results[k], th.tests)
             /\ ToldTests(said.results[k]) = {} \ Coming(th.stack, k)
  BY <1>2 DEF Once, AsTests, ToldTests
<1>7. Telling(th, said, {}) BY <1>2, <1>4, <1>5, <1>6 DEF Telling
<1> QED BY <1>1, <1>2, <1>3, <1>4, <1>5, <1>6, <1>7 DEF CalmInv, Calm

\* and is kept by every step: one of the four kinds, unless a callback has thrown.
LEMMA CalmInvStep == CalmInv /\ [HarnessNext]_harnessVars => CalmInv'
<1> SUFFICES ASSUME CalmInv, [HarnessNext]_harnessVars PROVE CalmInv' OBVIOUS
<1>0. HarnessInv BY DEF CalmInv
<1>1. CASE HarnessNext
  <2>1. PICK s, o : HarnessStep(s, o) BY <1>0, <1>1, HarnessNextSteps
  <2>2. HarnessInv' BY <1>0, <2>1, HarnessInvStep
  <2>3. ASSUME ~ said'.nested, ~ said'.thrown PROVE Calm(th, said)'
    <3>1. /\ th' = Begun(o) /\ Leaves(o, DueAfter(th, o, said.due)) /\ Tells(o)
          /\ ~ said.nested /\ ~ said.thrown
          /\ Base(s) /\ ~ (InCallback(s) /\ Finishes(o))
          /\ Quietly(s, o) \/ (\E t \in 1 .. Len(th.tests) : WithResult(s, o, t)) \/ Completing(s, o) \/ Continuing(o)
      BY <2>1, <2>3 DEF HarnessStep
    <3>2. Calm(th, said) BY <3>1 DEF CalmInv
    <3>3. Calm(o, said')
      <4>1. CASE Quietly(s, o)
        <5>1. OneCallback(th.stack) BY <3>2 DEF Calm
        <5>2. s.stack \in Seq(FrameRecord) BY <1>0, <3>1, <5>1, BaseStack
        <5>3. Calm(s, said) /\ (s.phase = COMPLETE <=> th.phase = COMPLETE) BY <1>0, <3>1, <3>2, BaseCalm DEF Base
        <5> QED BY <1>0, <3>1, <4>1, <5>2, <5>3, QuietCalm
      <4>2. CASE \E t \in 1 .. Len(th.tests) : WithResult(s, o, t)
        BY <1>0, <3>1, <3>2, <4>2, WithResultCalm
      <4>3. CASE Completing(s, o) BY <1>0, <3>1, <3>2, <4>3, CompletingCalm
      <4>4. CASE Continuing(o) BY <1>0, <3>1, <3>2, <4>4, ContinuingCalm
      <4> QED BY <3>1, <4>1, <4>2, <4>3, <4>4
    <3>4. o \in HarnessState BY <3>1 DEF Leaves, Sane, SaneCore
    <3>5. Calm(Begun(o), said') BY <3>3, <3>4, CalmBegun
    <3> QED BY <3>1, <3>5
  <2> QED BY <2>2, <2>3 DEF CalmInv
<1>2. CASE UNCHANGED harnessVars
  <2>1. th' = th /\ said' = said BY <1>2 DEF harnessVars
  <2>2. HarnessInv' BY <1>0, <2>1 DEF HarnessInv
  <2>3. ~ said.nested /\ ~ said.thrown => Calm(th, said) BY DEF CalmInv
  <2> QED BY <2>1, <2>2, <2>3 DEF CalmInv
<1> QED BY <1>1, <1>2

\* One result of each test makes as many as there are tests.
LEMMA OneOfEach ==
  ASSUME NEW rs \in Seq(Nat \X Outcomes), NEW n \in Nat, Once(rs), ToldTests(rs) = 1 .. n
  PROVE  Len(rs) = n
<1> DEFINE f == [i \in 1 .. Len(rs) |-> rs[i][1]]
           m == Len(rs)
<1>1. m \in Nat OBVIOUS
<1>2. f \in Bijection(1 .. m, 1 .. n)
  <2>1. f \in [1 .. m -> 1 .. n] /\ (\A i, j \in 1 .. m : f[i] = f[j] => i = j)
        /\ \A t \in 1 .. n : \E i \in 1 .. m : f[i] = t
    BY DEF Once, ToldTests
  <2> QED BY <2>1 DEF Bijection, Injection, Surjection, IsInjective
<1> HIDE DEF f, m
<1>3. ExistsBijection(1 .. m, 1 .. n) BY <1>2 DEF ExistsBijection
<1>4. Cardinality(1 .. n) = m BY ONLY <1>1, <1>3, FS_CountingElements
<1>5. Cardinality(1 .. n) = n
  <2>1. Cardinality(1 .. n) = IF 1 > n THEN 0 ELSE n - 1 + 1 BY FS_Interval
  <2> QED BY <2>1
<1> QED BY <1>4, <1>5 DEF m

\* A callback that is told of the completion was told of every test.
LEMMA CalmTells == CalmInv => ResultsAreTold
<1> SUFFICES ASSUME CalmInv, ~ said.nested, ~ said.thrown, NEW k \in 1 .. NumCallbacks, said.completed[k] # 0
             PROVE  LET told == SubSeq(said.results[k], 1, said.completed[k] - 1)
                    IN /\ told = said.results[k]
                       /\ Len(told) = said.due /\ {r[1] : r \in ToSet(told)} = 1 .. said.due
                       /\ \A r \in ToSet(told) : th.table[r[1]] = r[2]
  BY DEF ResultsAreTold
<1> DEFINE rs == said.results[k]
           told == SubSeq(rs, 1, said.completed[k] - 1)
<1>1. Calm(th, said) /\ HarnessInv BY DEF CalmInv
<1>2. AllTold(th, said)
  <2>1. th.output = "COMPLETE"
    <3> SUFFICES ASSUME th.output # "COMPLETE" PROVE FALSE OBVIOUS
    <3>1. \E reached : Telling(th, said, reached)
      <4>1. CASE th.phase # COMPLETE BY <1>1, <4>1 DEF Calm
      <4>2. CASE th.phase = COMPLETE
        <5>1. PICK i \in 1 .. Len(th.stack) : Looping(th, said, i) BY <1>1, <4>2 DEF Calm
        <5>2. Telling(th, said, DoneTests(th.tests) \cup 1 .. th.stack[i].test) BY <5>1 DEF Looping
        <5> QED BY <5>2
      <4> QED BY <4>1, <4>2
    <3> QED BY <3>1 DEF Telling
  <2> QED BY <1>1, <2>1 DEF Calm
<1>3. rs \in Seq(Nat \X Outcomes) /\ said.due \in Nat BY <1>1 DEF HarnessInv, HarnessHistory
<1>4. /\ ToldTests(rs) = 1 .. said.due /\ said.completed[k] = Len(rs) + 1 /\ AsTable(rs, th.table) /\ Once(rs)
  BY <1>1, <1>2 DEF AllTold, Calm
<1> HIDE DEF rs
<1>5. told = rs
  <2>1. Len(rs) \in Nat /\ said.completed[k] - 1 = Len(rs) BY <1>3, <1>4
  <2>2. SubSeq(rs, 1, Len(rs)) = rs BY <1>3
  <2> QED BY <2>1, <2>2
<1> HIDE DEF told
<1>6. Len(rs) = said.due BY <1>3, <1>4, OneOfEach
<1>7. DOMAIN rs = 1 .. Len(rs) BY <1>3
<1>8. ToSet(rs) = {rs[i] : i \in 1 .. Len(rs)} BY <1>7 DEF ToSet
<1>9. {r[1] : r \in ToSet(rs)} = ToldTests(rs) BY <1>8 DEF ToldTests
<1>10. \A r \in ToSet(rs) : th.table[r[1]] = r[2] BY <1>4, <1>8 DEF AsTable
<1> QED BY <1>4, <1>5, <1>6, <1>9, <1>10 DEF rs, told

\* What the harness tells its callbacks is what became of the tests: it does not
\* complete before its tests are done, and a callback that is told of the completion
\* (testharness.js, complete and notify_complete) was told one result of each test,
\* the one in the table, unless a callback threw or finished a test itself.
THEOREM CallbacksAreTold == HarnessSpec => []HarnessTells
<1>1. CalmInv => HarnessTells BY InTime, CalmTells DEF CalmInv, HarnessTells
<1> QED BY <1>1, CalmInvInit, CalmInvStep, PTL DEF HarnessSpec
===============================================================================
