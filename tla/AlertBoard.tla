----------------------------- MODULE AlertBoard -----------------------------
(***************************************************************************)
(* What the alert area promises: a board of distinct alerts, the highest   *)
(* priority on top, each on it for as long as somebody holds a handle that *)
(* was not cancelled, unless the user clicks it away or it fades.          *)
(***************************************************************************)
EXTENDS Integers, Sequences, SequencesExt

CONSTANTS Alerts, Priority, Fading, Handles, Null

VARIABLES
  board,    \* the alerts shown, from top to bottom
  holders,  \* alert -> the handles that keep it on the board
  used,     \* handles that were given out
  pointed   \* the fading alert under the mouse, or Null

vars == <<board, holders, used, pointed>>

Init ==
  /\ board = <<>>
  /\ holders = [a \in Alerts |-> {}]
  /\ used = {}
  /\ pointed = Null

Sorted(b) == \A i, j \in DOMAIN b : i < j => Priority[b[i]] >= Priority[b[j]]

TakeDown(a) ==
  /\ board' = RemoveFirst(board, a)
  /\ holders' = [holders EXCEPT ![a] = {}]
  /\ pointed' = IF pointed = a THEN Null ELSE pointed
  /\ UNCHANGED used

\* An alert already on the board stays where it is.
Request(a, h) ==
  /\ h \notin used
  /\ used' = used \union {h}
  /\ holders' = [holders EXCEPT ![a] = @ \union {h}]
  /\ \/ Contains(board, a) /\ UNCHANGED board
     \/ /\ ~Contains(board, a)
        /\ \E i \in 1 .. Len(board) + 1 : board' = InsertAt(board, i, a)
        /\ Sorted(board')
  /\ UNCHANGED pointed

Cancel(a, h) ==
  /\ h \in holders[a]
  /\ \/ holders[a] = {h} /\ TakeDown(a)
     \/ /\ holders[a] # {h}
        /\ holders' = [holders EXCEPT ![a] = @ \ {h}]
        /\ UNCHANGED <<board, used, pointed>>

Click(a) == Contains(board, a) /\ TakeDown(a)

Fade(a) == Contains(board, a) /\ a \in Fading /\ pointed # a /\ TakeDown(a)

Point(a) ==
  /\ pointed = Null /\ Contains(board, a)
  /\ pointed' = a
  /\ UNCHANGED <<board, holders, used>>

Leave == pointed # Null /\ pointed' = Null /\ UNCHANGED <<board, holders, used>>

Next ==
  \/ \E a \in Alerts :
       \/ \E h \in Handles : Request(a, h) \/ Cancel(a, h)
       \/ Click(a) \/ Fade(a) \/ Point(a)
  \/ Leave

Spec == Init /\ [][Next]_vars
=============================================================================
