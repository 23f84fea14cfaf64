------------------------------ MODULE TestHarness ------------------------------
(***************************************************************************)
(* URL/testharness.js: Test and Tests.  A page makes tests, runs steps of  *)
(* them and says when they are done; each result goes to the callbacks the *)
(* page added, and when the harness takes it that no more results come it  *)
(* tells every callback that all is complete.                              *)
(*                                                                         *)
(* The page's code runs inside the harness's: the function of a step or of *)
(* setup, a result callback and a completion callback are frames of the    *)
(* stack, and in each the page may call the harness again.                 *)
(***************************************************************************)
EXTENDS Integers, Sequences, FiniteSets, SequencesExt

CONSTANTS NumCallbacks, \* result callbacks, and as many completion callbacks
          MaxTests,     \* bound: tests made
          MaxPageCalls, \* bound: other calls of the page
          MaxRunStack,     \* bound: frames
          CallbacksThrow

ASSUME HarnessAssumption ==
    /\ NumCallbacks \in Nat \ {0} /\ MaxTests \in Nat /\ MaxPageCalls \in Nat /\ MaxRunStack \in Nat
    /\ CallbacksThrow \in BOOLEAN

INITIAL == 0
SETUP == 1
HAVE_TESTS == 2
HAVE_RESULTS == 3
COMPLETE == 4

VARIABLES th,    \* see HarnessInit
          said   \* history of what the callbacks were told

harnessVars == <<th, said>>

HarnessInit ==
    /\ th = [tests |-> <<>>,              \* [status, is_done, timer]
             num_pending |-> 0, phase |-> INITIAL,
             all_loaded |-> FALSE, wait_for_finish |-> FALSE, processing_callbacks |-> FALSE,
             allow_uncaught_exception |-> FALSE,
             timed |-> TRUE, timer |-> TRUE,  \* timeout_length is not null; its timer runs
             status |-> "null",
             output |-> "INITIAL", table |-> <<>>, \* Output: its phase, the statuses it shows
             stack |-> <<>>, calls |-> 0]
    /\ said = [results   |-> [k \in 1..NumCallbacks |-> <<>>],  \* <<test, status>>
               completed |-> [k \in 1..NumCallbacks |-> 0],     \* results it had been told of, plus 1
               due       |-> 0,                                 \* tests there were at complete()
               nested    |-> FALSE, thrown |-> FALSE]

TopFrame(s)     == Last(s.stack)
PopFrame(s)     == [s EXCEPT !.stack = Front(@)]
Push(s, f) == [s EXCEPT !.stack = Append(@, f)]
RunFrame(kind, t, k) == [kind |-> kind, test |-> t, k |-> k, fresh |-> TRUE]   \* fresh: just called
OnTop(s, kind) == s.stack # <<>> /\ TopFrame(s).kind = kind

(***************************************************************************)
(* Tests: results and completion.                                          *)
(***************************************************************************)
all_done(s) == s.all_loaded /\ s.num_pending = 0 /\ ~ s.wait_for_finish /\ ~ s.processing_callbacks

show_status(s) == IF s.output = "STARTED" THEN [s EXCEPT !.output = "HAVE_RESULTS"] ELSE s
show_results(s) ==
    IF s.output = "COMPLETE" THEN s
    ELSE [s EXCEPT !.output = "COMPLETE", !.table = [t \in DOMAIN s.tests |-> s.tests[t].status]]

notify_result(s, t) == Push([show_status(s) EXCEPT !.processing_callbacks = TRUE], RunFrame("result", t, 1))

notify_complete(s) ==
    Push(show_results([s EXCEPT !.timer = FALSE, !.status = IF @ = "null" THEN "OK" ELSE @]), RunFrame("allDone", 0, 1))

\* The loop of complete(): frame.test is the last test it looked at, frame.k
\* how many there were when it began.
CompleteOn(s) ==
    LET frame == TopFrame(s)
        left  == {t \in frame.test + 1 .. frame.k : s.tests[t].status = "NOTRUN"}
        t     == CHOOSE u \in left : \A v \in left : u <= v
    IN IF left = {} THEN notify_complete(PopFrame(s))
       ELSE notify_result(Push(PopFrame(s), [frame EXCEPT !.test = t]), t)

Resume(s) == IF OnTop(s, "complete") THEN CompleteOn(s) ELSE s

completeAtOnce(s) == IF s.phase = COMPLETE THEN Resume(s) ELSE notify_complete([s EXCEPT !.phase = COMPLETE])
complete(s) ==
    IF s.phase = COMPLETE THEN Resume(s)
    ELSE CompleteOn(Push([s EXCEPT !.phase = COMPLETE], RunFrame("complete", 0, Len(s.tests))))

completeIfDone(s) == IF all_done(s) THEN complete(s) ELSE Resume(s)

result(s, t) ==
    IF s.phase > HAVE_RESULTS THEN s
    ELSE notify_result([s EXCEPT !.phase = HAVE_RESULTS, !.num_pending = @ - 1], t)

doneAgain(s, t) ==
    LET test == s.tests[t]
    IN result([s EXCEPT !.tests[t] = [test EXCEPT !.timer = IF @ = "set" THEN "cleared" ELSE @,
                                                  !.status = IF @ = "NOTRUN" THEN "PASS" ELSE @,
                                                  !.is_done = TRUE]], t)
done(s, t) == IF s.tests[t].is_done THEN s ELSE doneAgain(s, t)

timeoutTests(s) == complete([s EXCEPT !.status = "TIMEOUT"])

set_timeoutCleared(s) == [s EXCEPT !.timer = FALSE]
set_timeout(s) == [s EXCEPT !.timer = s.timed]

\* start(): output.init is the first start callback
push(s) ==
    [s EXCEPT !.tests = Append(@, [status |-> "NOTRUN", is_done |-> FALSE, timer |-> "none"]),
              !.num_pending = @ + 1,
              !.phase  = IF @ < HAVE_TESTS THEN HAVE_TESTS ELSE @,
              !.output = IF @ = "INITIAL" /\ s.phase < HAVE_TESTS THEN "STARTED" ELSE @]

\* step: then says what follows the function: "nothing", or "done" for test()
\* and step_func_done
step(s, t, then) ==
    IF s.tests[t].status # "NOTRUN" THEN s
    ELSE Push([s EXCEPT !.tests[t].timer = IF @ = "none" THEN "set" ELSE @],
              RunFrame("step", t, IF then = "done" THEN 1 ELSE 0))

(***************************************************************************)
(* The page: its scripts and handlers, and its functions on the stack.     *)
(***************************************************************************)
InCallback(s) == \E k \in DOMAIN s.stack : s.stack[k].kind \in {"result", "allDone"}

\* A step of the page's code ends where the next piece of it begins; said
\* takes down what that piece is told.
Begun(s) == IF s.stack # <<>> THEN [s EXCEPT !.stack[Len(s.stack)].fresh = FALSE] ELSE s
Told(s) ==
    LET f   == TopFrame(s)
        now == [said EXCEPT !.due = IF th.phase # COMPLETE /\ s.phase = COMPLETE THEN Len(th.tests) ELSE @]
    IN CASE OnTop(s, "result")  /\ f.fresh -> [now EXCEPT !.results[f.k] = Append(@, <<f.test, s.tests[f.test].status>>)]
         [] OnTop(s, "allDone") /\ f.fresh -> [now EXCEPT !.completed[f.k] = Len(said.results[f.k]) + 1]
         [] OTHER -> now

Finishes(s) == \/ s.phase = COMPLETE /\ th.phase # COMPLETE
               \/ \E t \in DOMAIN th.tests : s.tests[t].status # th.tests[t].status
ToFrom(outer, s) == \* outer: without the frame that has just returned
    th' = Begun(s) /\ said' = [Told(s) EXCEPT !.nested = @ \/ (InCallback(outer) /\ Finishes(s))]
To(s) == ToFrom(th, s)

PageMayCall == th.calls < MaxPageCalls /\ Len(th.stack) < MaxRunStack
Called(s)   == [s EXCEPT !.calls = @ + 1]

MakeTest(kind) ==
    /\ Len(th.tests) < MaxTests /\ Len(th.stack) < MaxRunStack
    /\ LET t == Len(th.tests) + 1
       IN To(CASE kind = "test"  -> step(push(th), t, "done")
               [] kind = "async" -> push(th)
               [] kind = "asyncWithStep" -> step(push(th), t, "nothing"))

StepTest(t, then) == PageMayCall /\ To(Called(step(th, t, then)))
DoneTest(t)       == PageMayCall /\ ~ th.tests[t].is_done /\ To(Called(done(th, t)))

Setup(property, hasFunction) ==
    /\ PageMayCall /\ th.phase < HAVE_RESULTS
    /\ LET s == Called([th EXCEPT !.phase = IF @ < SETUP THEN SETUP ELSE @,
                                  !.wait_for_finish = @ \/ property = "explicit_done",
                                  !.timed = @ /\ property # "explicit_timeout",
                                  !.allow_uncaught_exception = @ \/ property = "allow_uncaught_exception"])
       IN To(IF hasFunction THEN Push(s, RunFrame("setup", 0, 0)) ELSE set_timeout(s))

DoneAll    == PageMayCall /\ th.wait_for_finish /\ To(Called(completeIfDone([th EXCEPT !.wait_for_finish = FALSE])))
TimeoutAll == PageMayCall /\ ~ th.timed /\ th.phase # COMPLETE /\ To(Called(timeoutTests(th)))

\* The function on top of the stack returns.
Returns ==
    /\ th.stack # <<>>
    /\ LET f == TopFrame(th)
           s == PopFrame(th)
           next == [f EXCEPT !.k = @ + 1, !.fresh = TRUE]
       IN ToFrom(s, CASE f.kind = "step"  -> IF f.k = 1 THEN done(s, f.test) ELSE s
                        [] f.kind = "setup" -> set_timeout(s)
                        [] f.kind = "result"  /\ f.k < NumCallbacks -> Push(s, next)
                        [] f.kind = "result"  /\ f.k = NumCallbacks -> completeIfDone([s EXCEPT !.processing_callbacks = FALSE])
                        [] f.kind = "allDone" /\ f.k < NumCallbacks -> Push(s, next)
                        [] f.kind = "allDone" /\ f.k = NumCallbacks -> Resume(s))

\* It throws: the step or the setup around it catches, else the window does.  What
\* is thrown is an object: a step that throws null makes its handler throw again, at
\* the stack of null and before done, which is left out.
uncaught(s) == IF s.allow_uncaught_exception THEN s ELSE complete([s EXCEPT !.status = "ERROR"])
Caught(s, t) ==
    IF s.tests[t].status # "NOTRUN" THEN s ELSE done([s EXCEPT !.tests[t].status = "FAIL"], t)

Throws ==
    /\ th.stack # <<>> /\ (TopFrame(th).kind \in {"step", "setup"} \/ CallbacksThrow)
    /\ LET k == SelectLastInSeq(th.stack, LAMBDA f : f.kind \in {"step", "setup"})
           s == [th EXCEPT !.stack = IF k = 0 THEN <<>> ELSE SubSeq(@, 1, k - 1)]
           f == th.stack[k]
           after == IF k = 0 THEN uncaught(s)
                    ELSE IF f.kind = "setup" THEN set_timeout([s EXCEPT !.status = "ERROR"])
                    ELSE Caught(s, f.test)
       IN /\ th' = Begun(after)
          /\ said' = [Told(after) EXCEPT !.thrown = @ \/ TopFrame(th).kind \in {"result", "allDone"},
                                         !.nested = @ \/ (k # 0 /\ InCallback(s) /\ Finishes(after))]

(***************************************************************************)
(* The browser.                                                            *)
(***************************************************************************)
Load == th.stack = <<>> /\ ~ th.all_loaded /\ To(completeIfDone([th EXCEPT !.all_loaded = TRUE]))

TestTimer(t) ==
    /\ th.stack = <<>> /\ th.tests[t].timer = "set"
    /\ To(done([th EXCEPT !.tests[t] = [@ EXCEPT !.status = "TIMEOUT", !.timer = "none"]], t))

HarnessTimer == th.stack = <<>> /\ th.timer /\ To(timeoutTests([th EXCEPT !.timer = FALSE]))

PageCalls ==
    \/ \E kind \in {"test", "async", "asyncWithStep"} : MakeTest(kind)
    \/ \E t \in DOMAIN th.tests : DoneTest(t) \/ \E then \in {"nothing", "done"} : StepTest(t, then)
    \/ \E property \in {"none", "explicit_done", "explicit_timeout", "allow_uncaught_exception"}, hasFunction \in BOOLEAN :
          Setup(property, hasFunction)
    \/ DoneAll \/ TimeoutAll

HarnessNext ==
    \/ PageCalls \/ Returns \/ Throws
    \/ Load \/ HarnessTimer \/ \E t \in DOMAIN th.tests : TestTimer(t)

HarnessFair == WF_harnessVars(Returns) /\ WF_harnessVars(HarnessTimer)
HarnessSpec == HarnessInit /\ [][HarnessNext]_harnessVars /\ HarnessFair

(***************************************************************************)
(* Properties.                                                             *)
(***************************************************************************)

\* The harness says that all went well only when every test there was has a
\* result, and counts those that have none correctly until then: nothing a
\* callback does (a test made or finished inside it, an exception) makes it
\* complete too early.
CompletesInTime ==
    /\ th.phase # COMPLETE => th.num_pending = Cardinality({t \in DOMAIN th.tests : ~ th.tests[t].is_done})
    /\ th.phase = COMPLETE /\ th.status = "OK" => \A t \in 1..said.due : th.tests[t].is_done

\* A callback that is told of the completion was told one result of each
\* test, the one the table shows, unless a callback threw or finished a
\* test itself.
ResultsAreTold ==
    ~ said.nested /\ ~ said.thrown =>
        \A k \in 1..NumCallbacks : said.completed[k] # 0 =>
            LET told == SubSeq(said.results[k], 1, said.completed[k] - 1)
            IN /\ told = said.results[k]
               /\ Len(told) = said.due /\ {r[1] : r \in ToSet(told)} = 1..said.due
               /\ \A r \in ToSet(told) : th.table[r[1]] = r[2]

\* With a timeout the harness completes, whatever the page's code does, even
\* when a callback that threw has left processing_callbacks set.
HarnessCompletes == <>(th.phase = COMPLETE \/ ~ th.timed)

\* What the harness tells its callbacks is what became of the tests: nothing too
\* early, each result once, and the same as the table of results shows.
HarnessTells == CompletesInTime /\ ResultsAreTold
===============================================================================
