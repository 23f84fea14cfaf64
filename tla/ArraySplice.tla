----------------------------- MODULE ArraySplice -----------------------------
(***************************************************************************)
(* The minimal splices that turn one array into another, by the edit       *)
(* distance of Levenshtein: ArraySplice of observe-js, which the ShadowDOM *)
(* polyfill has its own copy of.                                           *)
(***************************************************************************)
EXTENDS Integers, Sequences, SequencesExt

At(s, i) == s[i + 1]
Slice(s, from, to) == SubSeq(s, from + 1, to)   \* s.slice(from, to)

(***************************************************************************)
(* The minimal splices between two arrays.                                 *)
(***************************************************************************)
calcEditDistances(current, cs, ce, old, os, oe) ==
    LET d[p \in (0 .. oe - os) \X (0 .. ce - cs)] ==
          LET i == p[1]  j == p[2] IN
          IF j = 0 THEN i
          ELSE IF i = 0 THEN j
          ELSE IF At(current, cs + j - 1) = At(old, os + i - 1) THEN d[i - 1, j - 1]
          ELSE IF d[i - 1, j] < d[i, j - 1] THEN d[i - 1, j] + 1 ELSE d[i, j - 1] + 1
    IN  [p \in DOMAIN d |-> d[p]]

Least(a, b) == IF a < b THEN a ELSE b

\* The walk back from the last cell, which yields the edits in order.
RECURSIVE editsFrom(_, _, _, _)
editsFrom(d, i, j, current) ==
    IF i = 0 /\ j = 0 THEN <<>>
    ELSE IF i = 0 THEN Append(editsFrom(d, 0, j - 1, current), "add")
    ELSE IF j = 0 THEN Append(editsFrom(d, i - 1, 0, current), "delete")
    ELSE LET northWest == d[i - 1, j - 1]
             west      == d[i - 1, j]
             north     == d[i, j - 1]
             least     == IF west < north THEN Least(west, northWest) ELSE Least(north, northWest)
         IN  IF least = northWest
             THEN Append(editsFrom(d, i - 1, j - 1, northWest),
                         IF northWest = current THEN "leave" ELSE "update")
             ELSE IF least = west THEN Append(editsFrom(d, i - 1, j, west), "delete")
             ELSE Append(editsFrom(d, i, j - 1, north), "add")

spliceOperationsFromEditDistances(d, rows, columns) ==
    editsFrom(d, rows, columns, d[rows, columns])

newSplice(index, removed, addedCount) ==
    [index |-> index, removed |-> removed, addedCount |-> addedCount]

\* The first of the lengths at which two arrays stop to agree, from either end.
sharedPrefix(current, old, searchLength) ==
    CHOOSE n \in 0 .. searchLength :
        /\ \A i \in 0 .. n - 1 : At(current, i) = At(old, i)
        /\ n < searchLength => At(current, n) # At(old, n)

sharedSuffix(current, old, searchLength) ==
    sharedPrefix(Reverse(current), Reverse(old), searchLength)

\* The switch over the edits: neighbouring changes become one splice.
takeEdit(st, op, old) ==
    LET open == IF st.splice = <<>> THEN <<newSplice(st.index, <<>>, 0)>> ELSE st.splice
        gone == IF op \in {"update", "delete"} THEN <<At(old, st.oldIndex)>> ELSE <<>>
        came == IF op \in {"update", "add"} THEN 1 ELSE 0
    IN  IF op = "leave"
        THEN [splice |-> <<>>, splices |-> st.splices \o st.splice,
              index |-> st.index + 1, oldIndex |-> st.oldIndex + 1]
        ELSE [splice |-> <<[open[1] EXCEPT !.addedCount = @ + came, !.removed = @ \o gone]>>,
              splices |-> st.splices,
              index |-> st.index + came, oldIndex |-> st.oldIndex + Len(gone)]

calcSplices(current, currentStart, currentEnd, old, oldStart, oldEnd) ==
    LET minLength == Least(currentEnd - currentStart, oldEnd - oldStart)
        prefix == IF currentStart = 0 /\ oldStart = 0
                  THEN sharedPrefix(current, old, minLength) ELSE 0
        suffix == IF currentEnd = Len(current) /\ oldEnd = Len(old)
                  THEN sharedSuffix(current, old, minLength - prefix) ELSE 0
        cs == currentStart + prefix   ce == currentEnd - suffix
        os == oldStart + prefix       oe == oldEnd - suffix
        ops == spliceOperationsFromEditDistances(
                  calcEditDistances(current, cs, ce, old, os, oe), oe - os, ce - cs)
        end == FoldLeft(LAMBDA st, op : takeEdit(st, op, old),
                        [splice |-> <<>>, splices |-> <<>>, index |-> cs, oldIndex |-> os], ops)
    IN  IF cs = ce /\ os = oe THEN <<>>
        ELSE IF cs = ce THEN <<newSplice(cs, Slice(old, os, oe), 0)>>
        ELSE IF os = oe THEN <<newSplice(cs, <<>>, ce - cs)>>
        ELSE end.splices \o end.splice

\* array.splice(index, count, ...items)
spliced(s, index, count, items) == Slice(s, 0, index) \o items \o Slice(s, index + count, Len(s))

applySplices(previous, current, splices) ==
    FoldLeft(LAMBDA p, s : spliced(p, s.index, Len(s.removed),
                                   Slice(current, s.index, s.index + s.addedCount)),
             previous, splices)
=============================================================================
