--------------------------- MODULE AlertRefinement ---------------------------
(* With a calm client, DefaultAlertController implements AlertBoard.        *)
EXTENDS AlertController

ShownAlerts == [i \in DOMAIN view |-> alertOf[view[i]]]

KeptBy ==
  [a \in Alerts |-> UNION {displayRequests[v] : v \in {u \in Views : displayedAlerts[a] = u}}]

GivenOut == {h \in Handles : viewOf[h] # Null}

PointedAt == IF over = Null THEN Null ELSE alertOf[over]

Board == INSTANCE AlertBoard WITH
  board <- ShownAlerts, holders <- KeptBy, used <- GivenOut, pointed <- PointedAt

\* Views, deferred commands and timers are invisible: callers and the user see
\* a board with one entry per alert, sorted, from which alerts go only by a
\* click, by their last handle, or by fading while the mouse is elsewhere.
ImplementsBoard == Board!Spec
=============================================================================
