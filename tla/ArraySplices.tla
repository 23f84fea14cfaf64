---------------------------- MODULE ArraySplices ----------------------------
(***************************************************************************)
(* How observe-js turns the changes of an array into splices: the edit     *)
(* distance it walks when it only has an old and a new array (calcSplices) *)
(* and the projection of the change records a browser hands it             *)
(* (mergeSplice, projectArraySplices).  A listener (TemplateIterator, the  *)
(* renderer of shadow trees) keeps a mirror of the array by nothing but    *)
(* the splices it is told.  Indices are those of JavaScript, from 0.       *)
(***************************************************************************)
EXTENDS ArraySplice, FiniteSets

CONSTANTS Items,       \* the values an array may hold
          Hole,        \* what a deleted element reads as
          MaxLen,      \* bound: the longest array
          MaxRecords   \* bound: the changes between two deliveries

ASSUME ArrayAssumption == Hole \notin Items /\ MaxLen \in Nat /\ MaxRecords \in Nat

VARIABLES hasObserve,  \* whether the browser records changes itself
          array,       \* the array that is observed
          oldObject,   \* its copy of the last check, without records
          records,     \* the change records not yet delivered
          pendingCount,\* the number of changes since the last delivery
          mirror       \* the listener's copy, made of the splices it was told

arrayVars == <<hasObserve, array, oldObject, records, pendingCount, mirror>>

(***************************************************************************)
(* The splices that a list of change records amounts to.                   *)
(***************************************************************************)
\* How much of two spans is common: 0 when they touch, -1 when they do not.
intersect(start1, end1, start2, end2) ==
    IF end1 < start2 \/ end2 < start1 THEN -1
    ELSE IF end1 = start2 \/ end2 = start1 THEN 0
    ELSE IF start1 < start2
         THEN Least(end1, end2) - start2
         ELSE Least(end1, end2) - start1

\* Mutant: what the new splice removed behind the other one is forgotten.
mergedWithoutEnd(splice, current, common) ==
    newSplice(Least(splice.index, current.index),
              (IF splice.index < current.index
               THEN Slice(splice.removed, 0, current.index - splice.index) ELSE <<>>)
                 \o current.removed,
              splice.addedCount + current.addedCount - common)

\* The new splice taken together with one it touches.
mergedWith(splice, current, common) ==
    LET before == IF splice.index < current.index
                  THEN Slice(splice.removed, 0, current.index - splice.index) ELSE <<>>
        after  == IF splice.index + Len(splice.removed) > current.index + current.addedCount
                  THEN Slice(splice.removed, current.index + current.addedCount - splice.index,
                             Len(splice.removed))
                  ELSE <<>>
    IN  newSplice(Least(splice.index, current.index),
                  before \o current.removed \o after,
                  splice.addedCount + current.addedCount - common)

\* One turn of mergeSplice's loop: out holds the splices it is done with.
mergeTurn(st, listed) ==
    LET current == [listed EXCEPT !.index = @ + st.offset]
        splice  == st.splice
        common  == intersect(splice.index, splice.index + Len(splice.removed),
                             current.index, current.index + current.addedCount)
        deleteCount == Len(splice.removed) + Len(current.removed) - common
        nothing == splice.addedCount + current.addedCount - common = 0 /\ deleteCount = 0
        shift   == splice.addedCount - Len(splice.removed)
    IN  IF st.inserted THEN [st EXCEPT !.out = Append(@, current)]
        ELSE IF common >= 0
        THEN [st EXCEPT !.offset = @ - (current.addedCount - Len(current.removed)),
                        !.splice = IF nothing THEN splice ELSE mergedWith(splice, current, common),
                        !.inserted = nothing]
        ELSE IF splice.index < current.index
        THEN [st EXCEPT !.inserted = TRUE,
                        !.out = @ \o <<splice, [current EXCEPT !.index = @ + shift]>>,
                        !.offset = @ + shift]
        ELSE [st EXCEPT !.out = Append(@, current)]

mergeSplice(splices, index, removed, addedCount) ==
    LET end == FoldLeft(mergeTurn,
                        [out |-> <<>>, splice |-> newSplice(index, removed, addedCount),
                         inserted |-> FALSE, offset |-> 0], splices)
    IN  IF end.inserted THEN end.out ELSE Append(end.out, end.splice)

createInitialSplices(recs) ==
    FoldLeft(LAMBDA splices, r : mergeSplice(splices, r.index, r.removed, r.addedCount),
             <<>>, recs)

projectArraySplices(arr, recs) ==
    LET project(s) ==
          IF s.addedCount = 1 /\ Len(s.removed) = 1
          THEN IF s.removed[1] # At(arr, s.index) THEN <<s>> ELSE <<>>
          ELSE calcSplices(arr, s.index, s.index + s.addedCount, s.removed, 0, Len(s.removed))
    IN  FoldLeft(LAMBDA acc, s : acc \o project(s), <<>>, createInitialSplices(recs))

(***************************************************************************)
(* The array, its observer and the listener.                               *)
(***************************************************************************)
ItemValues == Items \cup {Hole}
Arrays(n) == UNION {[1 .. k -> Items] : k \in 0 .. n}

ArrayInit ==
    /\ hasObserve \in BOOLEAN
    /\ array \in Arrays(MaxLen)
    /\ oldObject = IF hasObserve THEN <<>> ELSE array
    /\ records = <<>>
    /\ pendingCount = 0
    /\ mirror = array

\* A change of the array is recorded only by a browser that observes.
Changed(index, removed, added) ==
    /\ pendingCount < MaxRecords
    /\ array' = spliced(array, index, Len(removed), added)
    /\ Len(array') <= MaxLen
    /\ pendingCount' = pendingCount + 1
    /\ records' = IF hasObserve
                  THEN Append(records, newSplice(index, removed, Len(added))) ELSE records
    /\ UNCHANGED <<hasObserve, oldObject, mirror>>

\* push, pop, shift, unshift, splice, a new length: all of them a splice record.
SpliceArray ==
    \E index \in 0 .. Len(array) : \E count \in 0 .. Len(array) - index, items \in Arrays(2) :
        /\ count + Len(items) > 0
        /\ Changed(index, Slice(array, index, index + count), items)

\* array[i] = v, delete array[i]: an update, add or delete record of one index.
SetItem ==
    \E index \in 0 .. Len(array) - 1, v \in ItemValues :
        /\ v # At(array, index)
        /\ Changed(index, <<At(array, index)>>, <<v>>)

\* What the next check_ of the observer reports.
pendingSplices ==
    IF hasObserve THEN projectArraySplices(array, records)
    ELSE calcSplices(array, 0, Len(array), oldObject, 0, Len(oldObject))

\* ArrayObserver.check_ and the listener, which replays what it is told.
CheckArray ==
    /\ pendingCount > 0
    /\ mirror' = applySplices(mirror, array, pendingSplices)
    /\ records' = <<>>
    /\ pendingCount' = 0
    /\ oldObject' = IF ~hasObserve /\ pendingSplices # <<>> THEN array ELSE oldObject
    /\ UNCHANGED <<hasObserve, array>>

ArrayNext == SpliceArray \/ SetItem \/ CheckArray

ArraySpec == ArrayInit /\ [][ArrayNext]_arrayVars

----------------------------------------------------------------------------
(***************************************************************************)
(* Properties                                                              *)
(***************************************************************************)
\* Replaying the splices that are pending, whatever changes they stand for,
\* gives a listener the array as it is (ArrayObserver.check_, applySplices).
SplicesReplay == applySplices(mirror, array, pendingSplices) = array

\* A subsequence of s, by the set of its positions.
Kept(s, positions) == SelectSeq([i \in 1 .. Len(s) |-> <<i, s[i]>>], LAMBDA e : e[1] \in positions)
LongestCommon(s, t) ==
    LET values(q) == [i \in DOMAIN q |-> q[i][2]]
        shared == {A \in SUBSET DOMAIN s : \E B \in SUBSET DOMAIN t :
                     values(Kept(s, A)) = values(Kept(t, B))}
    IN  CHOOSE n \in 0 .. Len(s) : /\ \E A \in shared : Cardinality(A) = n
                                   /\ \A A \in shared : Cardinality(A) <= n

\* Without records, the splices keep as many elements in place as any could:
\* what they remove and add is all but a longest common subsequence of the two
\* arrays.  And the splices of either kind come in ascending order, each after
\* what the one before it added (spliceOperationsFromEditDistances, mergeSplice).
SplicesMinimal ==
    LET splices == pendingSplices
        touched == FoldLeft(LAMBDA n, s : n + Len(s.removed) + s.addedCount, 0, splices)
    IN  /\ ~hasObserve => touched = Len(array) + Len(oldObject)
                                      - 2 * LongestCommon(array, oldObject)
        /\ \A i \in 1 .. Len(splices) - 1 :
              splices[i].index + splices[i].addedCount <= splices[i + 1].index

\* The splices a listener gets stand for the change: they replay it, in order,
\* and say no more than they must.
SplicesAgree == SplicesReplay /\ SplicesMinimal
=============================================================================
