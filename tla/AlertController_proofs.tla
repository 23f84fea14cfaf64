------------------------ MODULE AlertController_proofs ------------------------
(***************************************************************************)
(* Proofs about the alert area: that it shows what the live handles asked  *)
(* for after every order of requests, clicks, cancels, timers and deferred *)
(* commands (ShownAsRequested), and that to a calm client the controller   *)
(* with its views, timers and deferred commands is a board that each alert *)
(* leaves by its own click, cancel or fading only (ImplementsBoard).       *)
(***************************************************************************)
EXTENDS AlertRefinement, SequenceLemmas, FiniteSetTheorems

-----------------------------------------------------------------------------
(* What all clients can rely on. *)

\* Views are numbered in the order in which they are made.
ViewsInOrder ==
  \A u, v \in Views : u < v /\ alertOf[v] # Null => alertOf[u] # Null

\* A view is displayed for the alert it was made for.
DisplayedTheirs ==
  \A a \in Alerts : displayedAlerts[a] # Null => alertOf[displayedAlerts[a]] = a

\* Only fading alerts wait for their turn or have timers.
OnlyFadingFade ==
  \A v \in Views : fadeWatchers[v] # Null \/ Contains(deferred, v) => alertOf[v] \in Fading

\* Every timer is an object of its own, made for a view that was made.
TimersApart ==
  /\ \A i, j \in 1 .. Len(timers) : timers[i].id = timers[j].id => i = j
  /\ \A i \in 1 .. Len(timers) : alertOf[timers[i].view] # Null

AlertsInv ==
  /\ TypeOK
  /\ ViewsInOrder
  /\ IsFiniteSet(GivenOut)
  /\ DisplayedTheirs
  /\ OnlyFadingFade
  /\ TimersApart
  /\ over # Null => Contains(view, over)
  /\ ShownWhileRequested
  /\ FadedWhileTimed
  /\ SortedByPriority

(* What a calm client can rely on besides. *)

\* A view waits for its turn once, with no timer set and no mouse over it.
WaitsOnce ==
  /\ \A i, j \in 1 .. Len(deferred) : deferred[i] = deferred[j] => i = j
  /\ \A i \in 1 .. Len(deferred) : fadeWatchers[deferred[i]] = Null /\ over # deferred[i]

\* A view that fades was asked for once, so it has one mouse handler.
AskedForOnce ==
  /\ \A h \in GivenOut : alertOf[viewOf[h]] # Null
  /\ \A g, h \in GivenOut : viewOf[g] = viewOf[h] /\ alertOf[viewOf[g]] \in Fading => g = h

\* Of every alert one view at most is on the page, the one displayedAlerts has.
ShownIsDisplayed ==
  \A v \in Views : Contains(view, v) => displayedAlerts[alertOf[v]] = v

CalmInv ==
  Calm => WaitsOnce /\ AskedForOnce /\ ShownIsDisplayed /\ NoStrayTimer

-----------------------------------------------------------------------------
(* The sequences of the model. *)

Timer == [id : TimerIds, view : Views]

Apart(ts) == \A i, j \in 1 .. Len(ts) : ts[i].id = ts[j].id => i = j

\* Positions taken in increasing order are taken once each.
LEMMA RisingIsApart ==
  ASSUME NEW n \in Nat, NEW m \in Nat, NEW h \in [1 .. n -> 1 .. m],
         \A i, j \in 1 .. n : i < j => h[i] < h[j]
  PROVE  \A i, j \in 1 .. n : h[i] = h[j] => i = j
<1> TAKE i, j \in 1 .. n
<1>1. i \in Int /\ j \in Int /\ h[i] \in Int /\ h[j] \in Int OBVIOUS
<1>2. CASE i < j BY ONLY <1>1, <1>2, h[i] < h[j]
<1>3. CASE j < i BY ONLY <1>1, <1>3, h[j] < h[i]
<1> QED BY ONLY <1>1, <1>2, <1>3

\* Cancelling a timer takes out that one and no other.
LEMMA WithoutTimers ==
  ASSUME NEW ts \in Seq(Timer), Apart(ts), NEW x
  PROVE  /\ Without(ts, x) \in Seq(Timer) /\ Apart(Without(ts, x))
         /\ \A t : Contains(Without(ts, x), t) <=> Contains(ts, t) /\ t.id # x
<1> DEFINE S == {t \in ToSet(ts) : t.id # x}
           w == Without(ts, x)
<1>1. w \in Seq(Timer) /\ Embeds(w, ts, S, Len(ts)) BY FilteredEmbeds DEF Without
<1> HIDE DEF S, w
<1>2. PICK h \in [1 .. Len(w) -> 1 .. Len(ts)] :
        /\ \A i, j \in 1 .. Len(w) : i < j => h[i] < h[j]
        /\ \A i \in 1 .. Len(w) : w[i] = ts[h[i]] /\ w[i] \in S
        /\ \A k \in 1 .. Len(ts) : ts[k] \in S => \E i \in 1 .. Len(w) : h[i] = k
  BY <1>1 DEF Embeds
<1>3. Len(w) \in Nat /\ Len(ts) \in Nat BY <1>1
<1>4. \A i, j \in 1 .. Len(w) : h[i] = h[j] => i = j BY ONLY <1>2, <1>3, RisingIsApart
<1>5. Apart(w) BY <1>2, <1>4 DEF Apart
<1>6. \A k \in 1 .. Len(ts) : ts[k] \in ToSet(ts) BY DEF ToSet
<1>7. ASSUME NEW t, Contains(w, t) PROVE Contains(ts, t) /\ t.id # x
  BY <1>2, <1>7 DEF Contains, S
<1>8. ASSUME NEW t, Contains(ts, t), t.id # x PROVE Contains(w, t)
  <2>1. PICK k \in 1 .. Len(ts) : ts[k] = t BY <1>8 DEF Contains
  <2>2. ts[k] \in S BY <1>6, <1>8, <2>1 DEF S
  <2>3. PICK i \in 1 .. Len(w) : h[i] = k BY <1>2, <2>2
  <2> QED BY <1>2, <2>1, <2>3 DEF Contains
<1> QED BY <1>1, <1>5, <1>7, <1>8 DEF w

\* The timer that goes off is gone, the others are still there.
LEMMA TailTimers ==
  ASSUME NEW ts \in Seq(Timer), Apart(ts), ts # <<>>
  PROVE  /\ Head(ts) \in Timer /\ Contains(ts, Head(ts))
         /\ Tail(ts) \in Seq(Timer) /\ Apart(Tail(ts))
         /\ \A t : Contains(Tail(ts), t) <=> Contains(ts, t) /\ t # Head(ts)
<1> DEFINE n == Len(ts)
<1>1. /\ n \in Nat /\ n # 0 /\ Head(ts) = ts[1] /\ \A k \in 1 .. n : ts[k] \in Timer
      /\ Tail(ts) \in Seq(Timer) /\ Len(Tail(ts)) = n - 1
      /\ \A k \in 1 .. n - 1 : Tail(ts)[k] = ts[k + 1]
  OBVIOUS
<1>2. \A i, j \in 1 .. n : ts[i] = ts[j] => i = j BY DEF Apart
<1> HIDE DEF n
<1>3. Apart(Tail(ts))
  <2>1. \A i \in 1 .. n - 1 : i + 1 \in 1 .. n BY <1>1
  <2> QED BY <1>1, <2>1 DEF Apart, n
<1>4. ASSUME NEW t, Contains(Tail(ts), t) PROVE Contains(ts, t) /\ t # Head(ts)
  <2>1. PICK k \in 1 .. n - 1 : ts[k + 1] = t BY <1>1, <1>4 DEF Contains
  <2>2. k + 1 \in 1 .. n /\ k + 1 # 1 /\ 1 \in 1 .. n BY <1>1
  <2>3. ts[k + 1] # ts[1] BY <1>2, <2>2
  <2> QED BY <1>1, <2>1, <2>2, <2>3 DEF Contains, n
<1>5. ASSUME NEW t, Contains(ts, t), t # Head(ts) PROVE Contains(Tail(ts), t)
  <2>1. PICK k \in 1 .. n : ts[k] = t BY <1>5 DEF Contains, n
  <2>2. k - 1 \in 1 .. n - 1 /\ k - 1 + 1 = k BY <1>1, <1>5, <2>1
  <2>3. Tail(ts)[k - 1] = t BY <1>1, <2>1, <2>2
  <2> QED BY <1>1, <2>2, <2>3 DEF Contains
<1>6. Head(ts) \in Timer /\ Contains(ts, Head(ts)) BY <1>1 DEF Contains, n
<1> QED BY <1>1, <1>3, <1>4, <1>5, <1>6

\* Taking a view away keeps the others in their order.
LEMMA RemovedView ==
  ASSUME NEW A, NEW s \in Seq(A), Distinct(s), NEW e
  PROVE  /\ RemoveFirst(s, e) \in Seq(A) /\ Distinct(RemoveFirst(s, e))
         /\ \A u : Contains(RemoveFirst(s, e), u) <=> Contains(s, u) /\ u # e
         /\ \E h \in [1 .. Len(RemoveFirst(s, e)) -> 1 .. Len(s)] :
              /\ \A i, j \in 1 .. Len(RemoveFirst(s, e)) : i < j => h[i] < h[j]
              /\ \A i \in 1 .. Len(RemoveFirst(s, e)) : RemoveFirst(s, e)[i] = s[h[i]]
<1> DEFINE n == Len(s)
           r == RemoveFirst(s, e)
<1>0. n \in Nat /\ \A k \in 1 .. n : s[k] \in A OBVIOUS
<1>1. CASE e \notin ToSet(s) /\ r = s
  <2>1. \A u : Contains(s, u) => u # e BY <1>1 DEF Contains, ToSet
  <2>2. /\ [i \in 1 .. n |-> i] \in [1 .. n -> 1 .. n]
        /\ \A i \in 1 .. n : [k \in 1 .. n |-> k][i] = i
    OBVIOUS
  <2>3. \E h \in [1 .. n -> 1 .. n] : \A i \in 1 .. n : h[i] = i BY <2>2
  <2>4. \E h \in [1 .. n -> 1 .. n] : /\ \A i, j \in 1 .. n : i < j => h[i] < h[j]
                                      /\ \A i \in 1 .. n : s[i] = s[h[i]]
    BY <2>3
  <2> QED BY <1>1, <2>1, <2>4
<1>2. CASE \E p \in 1 .. n : s[p] = e /\ r = RemoveAt(s, p)
  <2>1. PICK p \in 1 .. n : s[p] = e /\ r = RemoveAt(s, p) BY <1>2
  <2> DEFINE h == [i \in 1 .. n - 1 |-> IF i < p THEN i ELSE i + 1]
  <2>2. /\ r \in Seq(A) /\ Len(r) = n - 1
        /\ \A k \in 1 .. n - 1 : r[k] = IF k < p THEN s[k] ELSE s[k + 1]
    BY <2>1, RemoveAtProperties
  <2> HIDE DEF n, r
  <2>3. \A k \in 1 .. n - 1 : h[k] = IF k < p THEN k ELSE k + 1 OBVIOUS
  <2>4. h \in [1 .. n - 1 -> 1 .. n] BY <1>0
  <2> HIDE DEF h
  <2>5. \A i \in 1 .. n - 1 : r[i] = s[h[i]] /\ h[i] # p /\ h[i] \in 1 .. n BY <1>0, <2>2, <2>3
  <2>6. \A i, j \in 1 .. n - 1 : i < j => h[i] < h[j] BY <1>0, <2>3
  <2>7. \A i, j \in 1 .. n - 1 : h[i] = h[j] => i = j BY <1>0, <2>3
  <2>8. \A i, j \in 1 .. n : s[i] = s[j] => i = j BY DEF Distinct, n
  <2>9. Distinct(r)
    <3>1. \A i, j \in 1 .. n - 1 : r[i] = r[j] => h[i] = h[j] BY <2>5, <2>8
    <3> QED BY <2>2, <2>7, <3>1 DEF Distinct
  <2>10. ASSUME NEW u, Contains(r, u) PROVE Contains(s, u) /\ u # e
    BY <2>1, <2>2, <2>5, <2>8, <2>10 DEF Contains, n
  <2>11. ASSUME NEW u, Contains(s, u), u # e PROVE Contains(r, u)
    <3>1. PICK k \in 1 .. n : s[k] = u BY <2>11 DEF Contains, n
    <3>2. k # p BY <2>1, <2>11, <3>1
    <3>3. \E i \in 1 .. n - 1 : h[i] = k
      <4>1. CASE k < p
        <5>1. k \in 1 .. n - 1 /\ h[k] = k BY <1>0, <2>3, <4>1
        <5> QED BY <5>1
      <4>2. CASE k > p
        <5>1. k - 1 \in 1 .. n - 1 /\ h[k - 1] = k BY <1>0, <2>3, <4>2
        <5> QED BY <5>1
      <4> QED BY <1>0, <3>2, <4>1, <4>2
    <3> QED BY <2>2, <2>5, <3>1, <3>3 DEF Contains
  <2> QED BY <2>2, <2>4, <2>5, <2>6, <2>9, <2>10, <2>11 DEF n, r
<1> QED BY <1>1, <1>2, RemoveFirstProperties

\* A new view is on the page once, the others are there in their order.
LEMMA InsertedView ==
  ASSUME NEW A, NEW s \in Seq(A), Distinct(s), NEW e \in A, ~Contains(s, e),
         NEW p \in 1 .. Len(s) + 1
  PROVE  /\ InsertAt(s, p, e) \in Seq(A) /\ Distinct(InsertAt(s, p, e))
         /\ \A u : Contains(InsertAt(s, p, e), u) <=> Contains(s, u) \/ u = e
<1> DEFINE n == Len(s)
           t == InsertAt(s, p, e)
           old(k) == IF k < p THEN k ELSE k - 1
<1>1. /\ t \in Seq(A) /\ n \in Nat /\ Len(t) = n + 1
      /\ \A k \in 1 .. n + 1 : t[k] = IF k < p THEN s[k] ELSE IF k = p THEN e ELSE s[k - 1]
  BY InsertAtProperties
<1> HIDE DEF n, t
<1>4. p \in 1 .. n + 1 /\ t[p] = e BY <1>1 DEF n
<1>2. \A k \in 1 .. n + 1 : k # p => old(k) \in 1 .. n /\ t[k] = s[old(k)]
  BY <1>1, <1>4
<1>3. \A j, k \in 1 .. n + 1 : j # p /\ k # p /\ old(j) = old(k) => j = k BY <1>1, <1>4
<1>5. \A k \in 1 .. n : s[k] # e BY DEF Contains, n
<1>6. \A j, k \in 1 .. n : s[j] = s[k] => j = k BY DEF Distinct, n
<1>7. \A k \in 1 .. n : \E j \in 1 .. n + 1 : j # p /\ old(j) = k
  <2> TAKE k \in 1 .. n
  <2>1. CASE k < p
    <3>1. k \in 1 .. n + 1 /\ k # p /\ old(k) = k BY <1>1, <2>1
    <3> QED BY <3>1
  <2>2. CASE k >= p
    <3>1. k + 1 \in 1 .. n + 1 /\ k + 1 # p /\ old(k + 1) = k BY <1>1, <1>4, <2>2
    <3> QED BY <3>1
  <2> QED BY <1>1, <1>4, <2>1, <2>2
<1> HIDE DEF old
<1>8. Distinct(t)
  <2>1. \A j, k \in 1 .. n + 1 : t[j] = t[k] => j = k
    <3> TAKE j, k \in 1 .. n + 1
    <3>1. t[j] = t[k] /\ j # p => k # p BY <1>2, <1>4, <1>5
    <3>2. t[j] = t[k] /\ k # p => j # p BY <1>2, <1>4, <1>5
    <3>3. t[j] = t[k] /\ j # p /\ k # p => old(j) = old(k) BY <1>2, <1>6
    <3> QED BY <1>3, <3>1, <3>2, <3>3
  <2> QED BY <1>1, <2>1 DEF Distinct
<1>9. ASSUME NEW u, Contains(t, u) PROVE Contains(s, u) \/ u = e
  <2>1. PICK k \in 1 .. n + 1 : t[k] = u BY <1>1, <1>9 DEF Contains
  <2> QED BY <1>2, <1>4, <2>1 DEF Contains, n
<1>10. ASSUME NEW u, Contains(s, u) PROVE Contains(t, u)
  <2>1. PICK k \in 1 .. n : s[k] = u BY <1>10 DEF Contains, n
  <2>2. PICK j \in 1 .. n + 1 : j # p /\ old(j) = k BY <1>7
  <2> QED BY <1>1, <1>2, <2>1, <2>2 DEF Contains
<1>11. Contains(t, e) BY <1>1, <1>4 DEF Contains
<1> QED BY <1>1, <1>8, <1>9, <1>10, <1>11 DEF t

\* A new view is inserted below those of higher priority and above the rest.
LEMMA PlaceFound ==
  ASSUME view \in Seq(Views), NEW v \in Views
  PROVE  \E p \in 1 .. Len(view) + 1 :
           /\ AddViewToContainer(v) = InsertAt(view, p, v)
           /\ \A k \in 1 .. Len(view) : k < p => ~(PriorityOf(view[k]) <= PriorityOf(v))
           /\ p <= Len(view) => PriorityOf(view[p]) <= PriorityOf(v)
<1> DEFINE n == Len(view)
           I == {k \in 1 .. n : PriorityOf(view[k]) <= PriorityOf(v)}
<1>1. n \in Nat OBVIOUS
<1>2. AddViewToContainer(v) = IF (IF I # {} THEN Min(I) ELSE 0) = 0 THEN Append(view, v)
                              ELSE InsertAt(view, (IF I # {} THEN Min(I) ELSE 0), v)
  BY DEF AddViewToContainer, SelectInSeq
<1>3. CASE I = {}
  <2>1. Append(view, v) = InsertAt(view, n + 1, v)
    <3> DEFINE t == InsertAt(view, n + 1, v)
               a == Append(view, v)
    <3>1. n + 1 \in 1 .. n + 1 BY <1>1
    <3>2. /\ t \in Seq(Views) /\ Len(t) = n + 1
          /\ \A k \in 1 .. n + 1 : t[k] = IF k < n + 1 THEN view[k]
                                          ELSE IF k = n + 1 THEN v ELSE view[k - 1]
      BY <3>1, InsertAtProperties
    <3>3. /\ a \in Seq(Views) /\ Len(a) = n + 1
          /\ \A k \in 1 .. n : a[k] = view[k]
          /\ a[n + 1] = v
      OBVIOUS
    <3> HIDE DEF t, a, n
    <3>4. \A k \in 1 .. n + 1 : t[k] = a[k]
      <4> TAKE k \in 1 .. n + 1
      <4>1. CASE k = n + 1 BY <1>1, <3>2, <3>3, <4>1
      <4>2. CASE k \in 1 .. n BY <1>1, <3>2, <3>3, <4>2
      <4> QED BY <1>1, <4>1, <4>2
    <3> QED BY <3>2, <3>3, <3>4, SeqEqual DEF t, a, n
  <2>2. n + 1 \in 1 .. n + 1 /\ ~(n + 1 <= n) BY <1>1
  <2>3. \A k \in 1 .. n : ~(PriorityOf(view[k]) <= PriorityOf(v)) BY <1>3
  <2> QED BY <1>2, <1>3, <2>1, <2>2, <2>3
<1>4. CASE I # {}
  <2>1. I \subseteq Nat BY <1>1
  <2>2. I \subseteq 1 .. n /\ \A k \in I : PriorityOf(view[k]) <= PriorityOf(v) OBVIOUS
  <2>3. \A k \in 1 .. n : k \notin I => ~(PriorityOf(view[k]) <= PriorityOf(v)) OBVIOUS
  <2> HIDE DEF I
  <2>4. PICK m \in I : m = Min(I) /\ \A k \in I : m <= k BY <1>4, <2>1, MinIsLeast
  <2>5. m \in 1 .. n /\ \A k \in I : k \in Nat BY <2>1, <2>2
  <2>6. m \in 1 .. n + 1 /\ m # 0 BY <1>1, <2>5
  <2>7. \A k \in 1 .. n : k < m => k \notin I
    <3> TAKE k \in 1 .. n
    <3>1. k \in Nat /\ m \in Nat BY <1>1, <2>5
    <3> QED BY <2>4, <3>1
  <2>8. AddViewToContainer(v) = InsertAt(view, m, v) BY <1>2, <1>4, <2>4, <2>6
  <2> QED BY <2>2, <2>3, <2>6, <2>7, <2>8
<1> QED BY <1>3, <1>4

-----------------------------------------------------------------------------
(* What the handlers have in common. *)

\* No view, timer or alert is the null reference.
LEMMA NullIsNone == Null \notin Views /\ Null \notin TimerIds /\ Null \notin Alerts
BY AlertsAssumption DEF Views, TimerIds

\* What TypeOK says of the page and the timers, as the lemmas above need it.
LEMMA TypesOfSequences ==
  ASSUME TypeOK
  PROVE  /\ view \in Seq(Views) /\ Distinct(view)
         /\ deferred \in Seq(Views)
         /\ timers \in Seq(Timer)
         /\ \A v : Contains(view, v) => v \in Views /\ alertOf[v] \in Alerts
         /\ \A v : Contains(deferred, v) => v \in Views /\ alertOf[v] \in Alerts
         /\ \A t : Contains(timers, t) => t \in Timer
<1>1. view \in Seq(Views) /\ deferred \in Seq(Views) /\ timers \in Seq(Timer)
  BY DEF TypeOK, Timer
<1>2. DOMAIN view = 1 .. Len(view) /\ DOMAIN deferred = 1 .. Len(deferred) BY <1>1
<1>3. \A v : Contains(view, v) => v \in Views /\ v \in ToSet(view) BY <1>1, <1>2 DEF Contains, ToSet
<1>4. \A v : Contains(deferred, v) => v \in Views /\ v \in ToSet(deferred)
  BY <1>1, <1>2 DEF Contains, ToSet
<1>5. \A t : Contains(timers, t) => t \in Timer BY <1>1 DEF Contains
<1> QED BY <1>1, <1>2, <1>3, <1>4, <1>5 DEF TypeOK, Distinct

\* ... and back.
LEMMA TypesAgain ==
  ASSUME /\ displayedAlerts' \in [Alerts -> Views \union {Null}]
         /\ displayRequests' \in [Views -> SUBSET Handles]
         /\ fadeWatchers' \in [Views -> TimerIds \union {Null}]
         /\ view' \in Seq(Views) /\ Distinct(view')
         /\ alertOf' \in [Views -> Alerts \union {Null}]
         /\ viewOf' \in [Handles -> Views \union {Null}]
         /\ fade' \subseteq Views
         /\ deferred' \in Seq(Views)
         /\ timers' \in Seq(Timer)
         /\ over' \in Views \union {Null}
         /\ \A v : Contains(view', v) \/ Contains(deferred', v) => alertOf'[v] # Null
  PROVE  TypeOK'
<1>1. DOMAIN view' = 1 .. Len(view') /\ DOMAIN deferred' = 1 .. Len(deferred') OBVIOUS
<1>2. \A v : v \in ToSet(view') => Contains(view', v) BY <1>1 DEF Contains, ToSet
<1>3. \A v : v \in ToSet(deferred') => Contains(deferred', v) BY <1>1 DEF Contains, ToSet
<1> QED BY <1>1, <1>2, <1>3 DEF TypeOK, Distinct, Timer

\* FadedWhileTimed by the widgets on the page.
LEMMA FadedByView ==
  ASSUME view \in Seq(Views)
  PROVE  FadedWhileTimed <=>
           \A v \in Views : Contains(view, v) =>
             /\ v \in fade <=> fadeWatchers[v] # Null
             /\ fadeWatchers[v] # Null => Contains(timers, [id |-> fadeWatchers[v], view |-> v])
<1>1. DOMAIN view = 1 .. Len(view) OBVIOUS
<1>2. \A v : v \in ToSet(view) <=> Contains(view, v) BY <1>1 DEF Contains, ToSet
<1>3. \A v : Contains(view, v) => v \in Views BY DEF Contains
<1> QED BY <1>2, <1>3 DEF FadedWhileTimed

LEMMA FadedAgain ==
  ASSUME view' \in Seq(Views),
         \A v \in Views : Contains(view', v) =>
           /\ v \in fade' <=> fadeWatchers'[v] # Null
           /\ fadeWatchers'[v] # Null => Contains(timers', [id |-> fadeWatchers'[v], view |-> v])
  PROVE  FadedWhileTimed'
<1>1. DOMAIN view' = 1 .. Len(view') OBVIOUS
<1>2. \A v : v \in ToSet(view') <=> Contains(view', v) BY <1>1 DEF Contains, ToSet
<1>3. \A v : Contains(view', v) => v \in Views BY DEF Contains
<1> QED BY <1>2, <1>3 DEF FadedWhileTimed

\* Two outstanding timers with one id are one timer.
LEMMA ApartById ==
  ASSUME TimersApart, NEW s, NEW t, Contains(timers, s), Contains(timers, t), s.id = t.id
  PROVE  s = t
BY DEF TimersApart, Contains

\* The order of the page does not change when a view leaves it.
LEMMA StaysSorted ==
  ASSUME AlertsInv, view' \in Seq(Views), UNCHANGED alertOf,
         NEW h \in [1 .. Len(view') -> 1 .. Len(view)],
         \A i, j \in 1 .. Len(view') : i < j => h[i] < h[j],
         \A i \in 1 .. Len(view') : view'[i] = view[h[i]]
  PROVE  SortedByPriority'
<1>1. view \in Seq(Views) BY DEF AlertsInv, TypeOK
<1>2. DOMAIN view = 1 .. Len(view) /\ DOMAIN view' = 1 .. Len(view') BY <1>1
<1>3. SUFFICES ASSUME NEW i \in 1 .. Len(view'), NEW j \in 1 .. Len(view'), i < j
               PROVE  \/ Priority[alertOf[view[h[i]]]] > Priority[alertOf[view[h[j]]]]
                      \/ /\ Priority[alertOf[view[h[i]]]] = Priority[alertOf[view[h[j]]]]
                         /\ view[h[i]] > view[h[j]]
  BY <1>2 DEF SortedByPriority
<1>4. h[i] \in 1 .. Len(view) /\ h[j] \in 1 .. Len(view) /\ h[i] < h[j] BY <1>3
<1> QED BY <1>2, <1>4 DEF AlertsInv, SortedByPriority

\* What cancelling the timer in fadeWatchers leaves of the timers: another view
\* on the page keeps its own.
LEMMA OthersKeepTimers ==
  ASSUME AlertsInv, NEW v \in Views, NEW ts \in Seq(Timer), Apart(ts),
         \A t : Contains(ts, t) => Contains(timers, t),
         \A t : Contains(timers, t) /\ t.view # v => Contains(ts, t),
         timers' = Without(ts, fadeWatchers[v])
  PROVE  /\ timers' \in Seq(Timer) /\ Apart(timers')
         /\ \A t : Contains(timers', t) => Contains(timers, t) /\ t.id # fadeWatchers[v]
         /\ \A u \in Views : u # v /\ Contains(view, u) /\ fadeWatchers[u] # Null
              => Contains(timers', [id |-> fadeWatchers[u], view |-> u])
<1>1. /\ timers' \in Seq(Timer) /\ Apart(timers')
      /\ \A t : Contains(timers', t) <=> Contains(ts, t) /\ t.id # fadeWatchers[v]
  BY WithoutTimers
<1>2. \A u \in Views : u # v /\ Contains(view, u) /\ fadeWatchers[u] # Null
        => Contains(timers', [id |-> fadeWatchers[u], view |-> u])
  <2> SUFFICES ASSUME NEW u \in Views, u # v, Contains(view, u), fadeWatchers[u] # Null
               PROVE  Contains(timers', [id |-> fadeWatchers[u], view |-> u])
      OBVIOUS
  <2> DEFINE t == [id |-> fadeWatchers[u], view |-> u]
             s == [id |-> fadeWatchers[v], view |-> v]
  <2>1. view \in Seq(Views) BY DEF AlertsInv, TypeOK
  <2>2. Contains(timers, t) BY <2>1, FadedByView DEF AlertsInv
  <2>3. Contains(ts, t) BY <2>2
  <2>4. fadeWatchers[v] # fadeWatchers[u]
    <3>1. SUFFICES ASSUME fadeWatchers[v] = fadeWatchers[u] PROVE FALSE OBVIOUS
    <3>2. fadeWatchers[v] # Null BY <3>1
    <3>3. Contains(view, v) BY <3>2 DEF AlertsInv, ShownWhileRequested
    <3>4. Contains(timers, s) BY <2>1, <3>2, <3>3, FadedByView DEF AlertsInv
    <3>5. s.id = t.id BY <3>1
    <3> HIDE DEF s, t
    <3>6. s = t BY <2>2, <3>4, <3>5, ApartById DEF AlertsInv
    <3>7. s.view = t.view BY <3>6
    <3> QED BY <3>7 DEF s, t
  <2> QED BY <1>1, <2>3, <2>4
<1> QED BY <1>1, <1>2

\* A click, the last cancel, or a timer of a view that was made.
LEMMA CancelAlertKeeps ==
  ASSUME AlertsInv, NEW v \in Views, alertOf[v] # Null,
         NEW ts \in Seq(Timer), Apart(ts),
         \A t : Contains(ts, t) => Contains(timers, t),
         \A t : Contains(timers, t) /\ t.view # v => Contains(ts, t),
         CancelAlert(v, ts), UNCHANGED <<alertOf, viewOf, fade, deferred>>
  PROVE  AlertsInv'
<1> USE NullIsNone
<1>0. TypeOK BY DEF AlertsInv
<1>1. /\ view \in Seq(Views) /\ Distinct(view)
      /\ \A u : Contains(view, u) => u \in Views /\ alertOf[u] \in Alerts
      /\ \A u : Contains(deferred, u) => u \in Views /\ alertOf[u] \in Alerts
  BY <1>0, TypesOfSequences
<1>2. PICK h \in [1 .. Len(view') -> 1 .. Len(view)] :
        /\ view' \in Seq(Views) /\ Distinct(view')
        /\ \A u : Contains(view', u) <=> Contains(view, u) /\ u # v
        /\ \A i, j \in 1 .. Len(view') : i < j => h[i] < h[j]
        /\ \A i \in 1 .. Len(view') : view'[i] = view[h[i]]
  <2> DEFINE r == RemoveFirst(view, v)
  <2>1. /\ r \in Seq(Views) /\ Distinct(r)
        /\ \A u : Contains(r, u) <=> Contains(view, u) /\ u # v
        /\ \E h \in [1 .. Len(r) -> 1 .. Len(view)] :
              /\ \A i, j \in 1 .. Len(r) : i < j => h[i] < h[j]
              /\ \A i \in 1 .. Len(r) : r[i] = view[h[i]]
    BY <1>1, RemovedView
  <2>2. view' = r BY DEF CancelAlert
  <2> HIDE DEF r
  <2> QED BY <2>1, <2>2
<1>3. /\ timers' \in Seq(Timer) /\ Apart(timers')
      /\ \A t : Contains(timers', t) => Contains(timers, t) /\ t.id # fadeWatchers[v]
      /\ \A u \in Views : u # v /\ Contains(view, u) /\ fadeWatchers[u] # Null
           => Contains(timers', [id |-> fadeWatchers[u], view |-> u])
  BY OthersKeepTimers DEF CancelAlert
<1>4. alertOf[v] \in Alerts BY <1>0 DEF TypeOK
<1>5. /\ displayedAlerts' \in [Alerts -> Views \union {Null}]
      /\ \A a \in Alerts : displayedAlerts'[a] = IF a = alertOf[v] THEN Null ELSE displayedAlerts[a]
      /\ displayRequests' \in [Views -> SUBSET Handles]
      /\ \A u \in Views : displayRequests'[u] = IF u = v THEN {} ELSE displayRequests[u]
      /\ fadeWatchers' \in [Views -> TimerIds \union {Null}]
      /\ \A u \in Views : fadeWatchers'[u] = IF u = v THEN Null ELSE fadeWatchers[u]
      /\ over' \in Views \union {Null}
  BY <1>0, <1>4 DEF CancelAlert, TypeOK
<1>6. TypeOK'
  <2>1. \A u : Contains(view', u) \/ Contains(deferred', u) => alertOf'[u] # Null BY <1>1, <1>2
  <2> QED BY <1>0, <1>2, <1>3, <1>5, <2>1, TypesAgain DEF TypeOK
<1>7. ViewsInOrder' /\ IsFiniteSet(GivenOut)' BY DEF AlertsInv, ViewsInOrder, GivenOut
<1>8. DisplayedTheirs' BY <1>5 DEF AlertsInv, DisplayedTheirs
<1>9. OnlyFadingFade' BY <1>5 DEF AlertsInv, OnlyFadingFade
<1>10. TimersApart'
  <2>1. \A i \in 1 .. Len(timers') : Contains(timers, timers'[i]) BY <1>3 DEF Contains
  <2>2. \A t : Contains(timers, t) => alertOf[t.view] # Null
    BY DEF AlertsInv, TimersApart, Contains
  <2> QED BY <1>3, <2>1, <2>2 DEF TimersApart, Apart
<1>11. over' # Null => Contains(view', over') BY <1>2 DEF AlertsInv, CancelAlert
<1>12. ShownWhileRequested'
  <2>1. \A a \in Alerts : displayedAlerts[a] = v => a = alertOf[v]
    BY DEF AlertsInv, DisplayedTheirs
  <2>2. ASSUME NEW u \in Views
        PROVE  /\ Contains(view', u) <=> displayRequests'[u] # {}
               /\ ~Contains(view', u) => /\ fadeWatchers'[u] = Null
                                         /\ \A a \in Alerts : displayedAlerts'[a] # u
    <3>1. CASE u = v BY <1>2, <1>5, <2>1, <3>1
    <3>2. CASE u # v
      <4>1. /\ Contains(view, u) <=> displayRequests[u] # {}
            /\ ~Contains(view, u) => /\ fadeWatchers[u] = Null
                                     /\ \A a \in Alerts : displayedAlerts[a] # u
        BY DEF AlertsInv, ShownWhileRequested
      <4>2. /\ Contains(view', u) <=> Contains(view, u)
            /\ displayRequests'[u] = displayRequests[u] /\ fadeWatchers'[u] = fadeWatchers[u]
        BY <1>2, <1>5, <3>2
      <4>3. \A a \in Alerts : displayedAlerts[a] # u => displayedAlerts'[a] # u
        BY <1>0, <1>5 DEF TypeOK
      <4> QED BY <4>1, <4>2, <4>3
    <3> QED BY <3>1, <3>2
  <2> QED BY <2>2 DEF ShownWhileRequested
<1>13. FadedWhileTimed'
  <2>1. ASSUME NEW u \in Views, Contains(view', u)
        PROVE  /\ u \in fade' <=> fadeWatchers'[u] # Null
               /\ fadeWatchers'[u] # Null => Contains(timers', [id |-> fadeWatchers'[u], view |-> u])
    <3>1. u # v /\ Contains(view, u) BY <1>2, <2>1
    <3>2. fadeWatchers'[u] = fadeWatchers[u] BY <1>5, <3>1
    <3>3. u \in fade <=> fadeWatchers[u] # Null BY <1>1, <3>1, FadedByView DEF AlertsInv
    <3> QED BY <1>3, <3>1, <3>2, <3>3
  <2> QED BY <1>2, <2>1, FadedAgain
<1>14. SortedByPriority' BY <1>2, StaysSorted
<1> QED BY <1>6, <1>7, <1>8, <1>9, <1>10, <1>11, <1>12, <1>13, <1>14 DEF AlertsInv

LEMMA CancelHandleKeeps == ASSUME AlertsInv, NEW h \in Handles, CancelHandle(h) PROVE AlertsInv'
<1> DEFINE v == viewOf[h]
<1>0. v \in Views /\ h \in Handles /\ UNCHANGED <<alertOf, viewOf, fade, deferred>>
  BY DEF AlertsInv, TypeOK, CancelHandle
<1> HIDE DEF v
<1>1. CASE RemovesLast(v, h) /\ CancelAlert(v, timers)
  <2>1. Contains(view, v) BY <1>0, <1>1 DEF RemovesLast, AlertsInv, ShownWhileRequested
  <2>2. timers \in Seq(Timer) /\ alertOf[v] \in Alerts BY <2>1, TypesOfSequences DEF AlertsInv
  <2>3. Apart(timers) BY DEF AlertsInv, TimersApart, Apart
  <2> QED BY <1>0, <1>1, <2>2, <2>3, NullIsNone, CancelAlertKeeps
<1>2. CASE /\ ~RemovesLast(v, h)
           /\ displayRequests' = [displayRequests EXCEPT ![v] = @ \ {h}]
           /\ UNCHANGED <<displayedAlerts, fadeWatchers, view, timers, over>>
  <2>1. /\ displayRequests' \in [Views -> SUBSET Handles]
        /\ \A u \in Views : displayRequests'[u] # {} <=> displayRequests[u] # {}
    BY <1>0, <1>2 DEF RemovesLast, AlertsInv, TypeOK
  <2>2. TypeOK' BY <1>0, <1>2, <2>1 DEF AlertsInv, TypeOK
  <2>3. ShownWhileRequested' BY <1>2, <2>1 DEF AlertsInv, ShownWhileRequested
  <2>4. /\ ViewsInOrder' /\ IsFiniteSet(GivenOut)' /\ DisplayedTheirs' /\ OnlyFadingFade'
        /\ TimersApart' /\ (over # Null => Contains(view, over))'
    BY <1>0, <1>2 DEF AlertsInv, ViewsInOrder, GivenOut, DisplayedTheirs, OnlyFadingFade, TimersApart
  <2>5. FadedWhileTimed' /\ SortedByPriority'
    BY <1>0, <1>2 DEF AlertsInv, FadedWhileTimed, SortedByPriority
  <2> QED BY <2>2, <2>3, <2>4, <2>5 DEF AlertsInv
<1> QED BY <1>1, <1>2 DEF CancelHandle, v

LEMMA ClickKeeps == ASSUME AlertsInv, NEW v \in Views, Click(v) PROVE AlertsInv'
<1>1. timers \in Seq(Timer) /\ alertOf[v] \in Alerts BY TypesOfSequences DEF AlertsInv, Click
<1>2. Apart(timers) BY DEF AlertsInv, TimersApart, Apart
<1> QED BY <1>1, <1>2, NullIsNone, CancelAlertKeeps DEF Click

LEMMA FireTimerKeeps == ASSUME AlertsInv, FireTimer PROVE AlertsInv'
<1>1. timers \in Seq(Timer) /\ timers # <<>> BY TypesOfSequences DEF AlertsInv, FireTimer
<1>2. Apart(timers) BY DEF AlertsInv, TimersApart, Apart
<1>3. /\ Head(timers) \in Timer /\ Contains(timers, Head(timers))
      /\ Tail(timers) \in Seq(Timer) /\ Apart(Tail(timers))
      /\ \A t : Contains(Tail(timers), t) <=> Contains(timers, t) /\ t # Head(timers)
  BY <1>1, <1>2, TailTimers
<1> DEFINE v == Head(timers).view
<1>4. v \in Views BY <1>3 DEF Timer
<1>5. alertOf[v] # Null BY <1>3 DEF AlertsInv, TimersApart, Contains
<1>6. \A t : Contains(timers, t) /\ t.view # v => Contains(Tail(timers), t) BY <1>3
<1>7. CancelAlert(v, Tail(timers)) /\ UNCHANGED <<alertOf, viewOf, fade, deferred>> BY DEF FireTimer
<1> HIDE DEF v
<1> QED BY <1>3, <1>4, <1>5, <1>6, <1>7, CancelAlertKeeps

\* The timer in fadeWatchers is cancelled, and the style is gone.
Unfaded(v) ==
  /\ timers' \in Seq(Timer) /\ Apart(timers')
  /\ \A t : Contains(timers', t) => Contains(timers, t) /\ t.id # fadeWatchers[v]
  /\ fadeWatchers' \in [Views -> TimerIds \union {Null}]
  /\ \A u \in Views : fadeWatchers'[u] = IF u = v THEN Null ELSE fadeWatchers[u]
  /\ fade' \subseteq Views
  /\ \A u \in Views : Contains(view, u) \/ u = v =>
       /\ u \in fade' <=> fadeWatchers'[u] # Null
       /\ fadeWatchers'[u] # Null => Contains(timers', [id |-> fadeWatchers'[u], view |-> u])

LEMMA StopFadingUnfades == ASSUME AlertsInv, NEW v \in Views, StopFading(v) PROVE Unfaded(v)
<1> USE NullIsNone
<1>1. view \in Seq(Views) /\ timers \in Seq(Timer) BY TypesOfSequences DEF AlertsInv
<1>2. Apart(timers) BY DEF AlertsInv, TimersApart, Apart
<1>3. /\ timers' \in Seq(Timer) /\ Apart(timers')
      /\ \A t : Contains(timers', t) => Contains(timers, t) /\ t.id # fadeWatchers[v]
      /\ \A u \in Views : u # v /\ Contains(view, u) /\ fadeWatchers[u] # Null
           => Contains(timers', [id |-> fadeWatchers[u], view |-> u])
  BY <1>1, <1>2, OthersKeepTimers DEF StopFading
<1>4. /\ fadeWatchers' \in [Views -> TimerIds \union {Null}]
      /\ \A u \in Views : fadeWatchers'[u] = IF u = v THEN Null ELSE fadeWatchers[u]
      /\ fade' \subseteq Views
  BY DEF StopFading, AlertsInv, TypeOK
<1>5. ASSUME NEW u \in Views, Contains(view, u) \/ u = v
      PROVE  /\ u \in fade' <=> fadeWatchers'[u] # Null
             /\ fadeWatchers'[u] # Null => Contains(timers', [id |-> fadeWatchers'[u], view |-> u])
  <2>1. CASE u = v BY <1>4, <2>1 DEF StopFading
  <2>2. CASE u # v
    <3>1. Contains(view, u) /\ fadeWatchers'[u] = fadeWatchers[u] BY <1>4, <1>5, <2>2
    <3>2. u \in fade' <=> u \in fade BY <2>2 DEF StopFading
    <3>3. u \in fade <=> fadeWatchers[u] # Null BY <1>1, <3>1, FadedByView DEF AlertsInv
    <3> QED BY <1>3, <2>2, <3>1, <3>2, <3>3
  <2> QED BY <2>1, <2>2
<1> QED BY <1>3, <1>4, <1>5 DEF Unfaded

\* What Unfaded leaves of the invariant, whatever view v is for.
LEMMA UnfadedKeeps ==
  ASSUME AlertsInv, NEW v \in Views, Unfaded(v), view' \in Seq(Views),
         \A u \in Views : Contains(view', u) => Contains(view, u) \/ u = v,
         \A u \in Views : alertOf[u] # Null => alertOf'[u] = alertOf[u],
         \A u \in Views : Contains(deferred', u)
           => Contains(deferred, u) \/ (u = v /\ alertOf'[v] \in Fading)
  PROVE  OnlyFadingFade' /\ TimersApart' /\ FadedWhileTimed'
<1> USE NullIsNone
<1>1. OnlyFadingFade'
  <2>1. Fading \subseteq Alerts BY AlertsAssumption
  <2>2. \A u \in Views : alertOf[u] \in Fading => alertOf'[u] \in Fading BY <2>1
  <2> QED BY <2>2 DEF AlertsInv, OnlyFadingFade, Unfaded
<1>2. TimersApart'
  <2>1. \A i \in 1 .. Len(timers') : Contains(timers, timers'[i]) /\ timers'[i] \in Timer
    <3>1. timers' \in Seq(Timer) /\ \A t : Contains(timers', t) => Contains(timers, t)
      BY DEF Unfaded
    <3>2. \A i \in 1 .. Len(timers') : Contains(timers', timers'[i]) BY DEF Contains
    <3>3. \A i \in 1 .. Len(timers') : timers'[i] \in Timer BY <3>1
    <3> QED BY <3>1, <3>2, <3>3
  <2>2. \A t : Contains(timers, t) => alertOf[t.view] # Null
    BY DEF AlertsInv, TimersApart, Contains
  <2>3. \A i \in 1 .. Len(timers') : alertOf'[timers'[i].view] # Null
    BY <2>1, <2>2 DEF Timer
  <2> QED BY <2>3 DEF TimersApart, Apart, Unfaded
<1>3. FadedWhileTimed' BY FadedAgain DEF Unfaded
<1> QED BY <1>1, <1>2, <1>3

\* A view has as many mouse handlers as there are requests for it.
LEMMA MouseHandlersType == ASSUME AlertsInv, NEW v \in Views PROVE MouseHandlers(v) \in Nat
<1>1. v # Null BY NullIsNone
<1>2. {h \in Handles : viewOf[h] = v} \subseteq GivenOut BY <1>1 DEF GivenOut
<1>3. IsFiniteSet({h \in Handles : viewOf[h] = v}) BY <1>2, FS_Subset DEF AlertsInv
<1> QED BY <1>3, FS_CardinalityType DEF MouseHandlers

LEMMA DeferredAgain ==
  ASSUME deferred \in Seq(Views), NEW v \in Views, NEW n \in Nat,
         deferred' = deferred \o [i \in 1 .. n |-> v]
  PROVE  /\ deferred' \in Seq(Views)
         /\ \A u : Contains(deferred', u) => Contains(deferred, u) \/ (u = v /\ n # 0)
<1> DEFINE t == [i \in 1 .. n |-> v]
<1>1. t \in Seq(Views) /\ Len(t) = n /\ \A i \in 1 .. n : t[i] = v OBVIOUS
<1> HIDE DEF t
<1>2. /\ deferred' \in Seq(Views) /\ Len(deferred') = Len(deferred) + n
      /\ \A i \in 1 .. Len(deferred) : deferred'[i] = deferred[i]
      /\ \A i \in 1 .. n : deferred'[Len(deferred) + i] = t[i]
  BY <1>1 DEF t
<1>3. Len(deferred) \in Nat OBVIOUS
<1>4. ASSUME NEW u, Contains(deferred', u) PROVE Contains(deferred, u) \/ (u = v /\ n # 0)
  <2>1. PICK i \in 1 .. Len(deferred) + n : deferred'[i] = u BY <1>2, <1>4 DEF Contains
  <2>2. CASE i \in 1 .. Len(deferred) BY <1>2, <2>1, <2>2 DEF Contains
  <2>3. CASE i \notin 1 .. Len(deferred)
    <3>1. i - Len(deferred) \in 1 .. n /\ Len(deferred) + (i - Len(deferred)) = i
      BY <1>3, <2>1, <2>3
    <3>2. u = v BY <1>1, <1>2, <2>1, <3>1
    <3> QED BY <3>1, <3>2
  <2> QED BY <2>2, <2>3
<1> QED BY <1>2, <1>4

LEMMA MouseOverKeeps == ASSUME AlertsInv, NEW v \in Views, MouseOver(v) PROVE AlertsInv'
<1> USE NullIsNone
<1>0. TypeOK BY DEF AlertsInv
<1>1. Unfaded(v) BY StopFadingUnfades DEF MouseOver
<1>2. UNCHANGED <<displayedAlerts, displayRequests, view, alertOf, viewOf, deferred>> /\ over' = v
  BY DEF MouseOver
<1>3. OnlyFadingFade' /\ TimersApart' /\ FadedWhileTimed'
  BY <1>0, <1>1, <1>2, UnfadedKeeps DEF TypeOK
<1>4. TypeOK' BY <1>0, <1>1, <1>2 DEF TypeOK, Unfaded, Timer
<1>5. ShownWhileRequested' BY <1>1, <1>2 DEF AlertsInv, ShownWhileRequested, Unfaded
<1>6. over' # Null => Contains(view', over') BY <1>2 DEF MouseOver
<1>7. /\ ViewsInOrder' /\ IsFiniteSet(GivenOut)' /\ DisplayedTheirs' /\ SortedByPriority'
  BY <1>2 DEF AlertsInv, ViewsInOrder, GivenOut, DisplayedTheirs, SortedByPriority
<1> QED BY <1>3, <1>4, <1>5, <1>6, <1>7 DEF AlertsInv

LEMMA MouseOutKeeps == ASSUME AlertsInv, NEW v \in Views, MouseOut(v) PROVE AlertsInv'
<1> USE NullIsNone
<1>0. TypeOK BY DEF AlertsInv
<1>1. Unfaded(v) BY StopFadingUnfades DEF MouseOut, StartFading
<1>2. /\ UNCHANGED <<displayedAlerts, displayRequests, view, alertOf, viewOf>> /\ over' = Null
      /\ deferred' = deferred \o [i \in 1 .. MouseHandlers(v) |-> v]
  BY DEF MouseOut, StartFading
<1>3. /\ deferred' \in Seq(Views)
      /\ \A u : Contains(deferred', u) => Contains(deferred, u) \/ (u = v /\ alertOf[v] \in Fading)
  <2>1. MouseHandlers(v) # 0 => alertOf[v] \in Fading BY DEF MouseHandlers
  <2> QED BY <1>0, <1>2, <2>1, MouseHandlersType, DeferredAgain DEF TypeOK
<1>4. OnlyFadingFade' /\ TimersApart' /\ FadedWhileTimed'
  BY <1>0, <1>1, <1>2, <1>3, UnfadedKeeps DEF TypeOK
<1>5. TypeOK'
  <2>1. \A u : Contains(view, u) \/ Contains(deferred, u) => alertOf[u] # Null
    BY <1>0, TypesOfSequences
  <2>2. alertOf[v] \in Fading => alertOf[v] # Null BY AlertsAssumption
  <2>3. \A u : Contains(view', u) \/ Contains(deferred', u) => alertOf'[u] # Null
    BY <1>2, <1>3, <2>1, <2>2
  <2>4. Distinct(view') BY <1>0, <1>2, TypesOfSequences
  <2> QED BY <1>0, <1>1, <1>2, <1>3, <2>3, <2>4, TypesAgain DEF TypeOK, Unfaded
<1>6. ShownWhileRequested' BY <1>1, <1>2 DEF AlertsInv, ShownWhileRequested, Unfaded
<1>7. /\ ViewsInOrder' /\ IsFiniteSet(GivenOut)' /\ DisplayedTheirs' /\ SortedByPriority'
  BY <1>2 DEF AlertsInv, ViewsInOrder, GivenOut, DisplayedTheirs, SortedByPriority
<1> QED BY <1>2, <1>4, <1>5, <1>6, <1>7 DEF AlertsInv

Made == {u \in Views : alertOf[u] # Null}

\* The next view to be made is the first that was not.
LEMMA FirstUnmade ==
  ASSUME ViewsInOrder, NEW v \in Views, v = Cardinality(Made) + 1
  PROVE  /\ \A u \in Views : u < v => alertOf[u] # Null
         /\ \A u \in Views : u >= v => alertOf[u] = Null
<1>1. Views \subseteq Nat /\ MaxViews \in Nat /\ \A u \in Views : u - 1 \in Nat /\ 1 .. u \subseteq Views
  BY AlertsAssumption DEF Views
<1>2. IsFiniteSet(Made)
  <2>1. IsFiniteSet(1 .. MaxViews) BY <1>1, FS_Interval
  <2>2. Made \subseteq 1 .. MaxViews BY DEF Made, Views
  <2> QED BY <2>1, <2>2, FS_Subset
<1>3. Cardinality(Made) \in Nat BY <1>2, FS_CardinalityType
<1>4. \A n \in Nat : Cardinality(1 .. n) = n /\ IsFiniteSet(1 .. n)
  <2> TAKE n \in Nat
  <2> QED BY FS_Interval
<1>5. ASSUME NEW u \in Views, u < v, alertOf[u] = Null PROVE FALSE
  <2>1. \A w \in Views : w > u => alertOf[w] = Null BY <1>5 DEF ViewsInOrder
  <2>2. \A w \in Made : w \in 1 .. u - 1
    <3> TAKE w \in Made
    <3>1. w \in Views /\ alertOf[w] # Null BY DEF Made
    <3>2. ~(w > u) /\ w # u BY <1>5, <2>1, <3>1
    <3> QED BY <1>1, <3>1, <3>2 DEF Views
  <2>3. Made \subseteq 1 .. u - 1 BY <2>2
  <2>4. u - 1 \in Nat BY <1>1
  <2>5. Cardinality(Made) <= Cardinality(1 .. u - 1) BY <1>4, <2>3, <2>4, FS_Subset
  <2>6. Cardinality(Made) <= u - 1 BY <1>4, <2>4, <2>5
  <2> QED BY <1>1, <1>3, <1>5, <2>4, <2>6
<1>6. ASSUME NEW u \in Views, u >= v, alertOf[u] # Null PROVE FALSE
  <2>1. \A w \in Views : w < u => alertOf[w] # Null BY <1>6 DEF ViewsInOrder
  <2>2. \A w \in 1 .. v : w \in Made
    <3> TAKE w \in 1 .. v
    <3>1. w \in Views BY <1>1
    <3>2. w < u \/ w = u BY <1>1, <1>6, <3>1
    <3> QED BY <1>6, <2>1, <3>1, <3>2 DEF Made
  <2>3. 1 .. v \subseteq Made BY <2>2
  <2>4. v \in Nat BY <1>1
  <2>5. Cardinality(1 .. v) <= Cardinality(Made) BY <1>2, <2>3, FS_Subset
  <2>6. v <= Cardinality(Made) BY <1>4, <2>4, <2>5
  <2> QED BY <1>1, <1>3, <2>4, <2>6
<1> QED BY <1>5, <1>6

\* Where the alert that is requested appears: on a view of its own.
AppearsOn(a, v) ==
  /\ view' \in Seq(Views) /\ Distinct(view')
  /\ \A u : Contains(view', u) <=> Contains(view, u) \/ u = v
  /\ alertOf' \in [Views -> Alerts \union {Null}]
  /\ \A u \in Views : alertOf'[u] = IF u = v THEN a ELSE alertOf[u]
  /\ \A u \in Views : alertOf[u] # Null => alertOf'[u] = alertOf[u]
  /\ displayedAlerts' \in [Alerts -> Views \union {Null}]
  /\ \A b \in Alerts : displayedAlerts'[b] = IF b = a THEN v ELSE displayedAlerts[b]
  /\ \A b \in Alerts : displayedAlerts[b] = v => b = a
  /\ ViewsInOrder'
  /\ SortedByPriority'
  /\ ~Contains(view, v) => fadeWatchers[v] = Null
  /\ \/ displayedAlerts[a] = v /\ view' = view
     \/ /\ displayedAlerts[a] = Null /\ alertOf[v] = Null
        /\ \E p \in 1 .. Len(view) + 1 : view' = InsertAt(view, p, v)

\* There is one on the page.
LEMMA AppearsAgain ==
  ASSUME AlertsInv, NEW a \in Alerts, NEW v \in Views, displayedAlerts[a] = v,
         UNCHANGED <<view, displayedAlerts, alertOf>>
  PROVE  AppearsOn(a, v)
<1> USE NullIsNone
<1>1. Contains(view, v) BY DEF AlertsInv, ShownWhileRequested
<1>2. /\ \A b \in Alerts : displayedAlerts[b] = v => alertOf[v] = b
      /\ alertOf[v] = a
  BY DEF AlertsInv, DisplayedTheirs
<1>3. view \in Seq(Views) /\ Distinct(view) BY TypesOfSequences DEF AlertsInv
<1>4. /\ alertOf' \in [Views -> Alerts \union {Null}]
      /\ displayedAlerts' \in [Alerts -> Views \union {Null}]
  BY DEF AlertsInv, TypeOK
<1>5. ViewsInOrder' /\ SortedByPriority' BY DEF AlertsInv, ViewsInOrder, SortedByPriority
<1>6. Distinct(view') BY <1>3
<1>7. \A u : Contains(view', u) <=> Contains(view, u) \/ u = v BY <1>1
<1> QED BY <1>1, <1>2, <1>3, <1>4, <1>5, <1>6, <1>7 DEF AppearsOn

\* Inserting above the first that does not rank higher keeps a sequence sorted.
SortedBy(s, rank) ==
  \A i, j \in 1 .. Len(s) : i < j => \/ rank[s[i]] > rank[s[j]]
                                     \/ rank[s[i]] = rank[s[j]] /\ s[i] > s[j]

LEMMA SortedInsertion ==
  ASSUME NEW A, A \subseteq Int, NEW s \in Seq(A), NEW v \in A, NEW rank, rank[v] \in Int,
         \A k \in 1 .. Len(s) : s[k] < v /\ rank[s[k]] \in Int,
         NEW p \in 1 .. Len(s) + 1,
         \A k \in 1 .. Len(s) : k < p => ~(rank[s[k]] <= rank[v]),
         p <= Len(s) => rank[s[p]] <= rank[v],
         SortedBy(s, rank)
  PROVE  SortedBy(InsertAt(s, p, v), rank)
<1> DEFINE n == Len(s)
           t == InsertAt(s, p, v)
<1>1. /\ t \in Seq(A) /\ n \in Nat /\ Len(t) = n + 1
      /\ \A k \in 1 .. n + 1 : t[k] = IF k < p THEN s[k] ELSE IF k = p THEN v ELSE s[k - 1]
  BY InsertAtProperties
<1>3. v \in Int OBVIOUS
<1>2. \A k \in 1 .. n : s[k] \in A OBVIOUS
<1>4. \A k \in 1 .. n : s[k] \in Int /\ s[k] < v /\ rank[s[k]] \in Int BY <1>2
<1>5. rank[v] \in Int OBVIOUS
<1>6. \A j, k \in 1 .. n : j < k => \/ rank[s[j]] > rank[s[k]]
                                    \/ rank[s[j]] = rank[s[k]] /\ s[j] > s[k]
  BY DEF SortedBy
<1>7. /\ \A k \in 1 .. n : k < p => ~(rank[s[k]] <= rank[v])
      /\ p <= n => rank[s[p]] <= rank[v]
  OBVIOUS
<1>p. p \in 1 .. n + 1 OBVIOUS
<1> HIDE DEF n, t
<1>8. \A k \in 1 .. n : k < p => rank[s[k]] > rank[v] BY <1>4, <1>5, <1>7
<1>9. \A k \in 1 .. n : k >= p => rank[s[k]] <= rank[v]
  <2> TAKE k \in 1 .. n
  <2>1. CASE k = p BY <1>1, <1>7, <2>1
  <2>2. CASE k > p
    <3>1. p \in 1 .. n /\ p < k BY <1>1, <1>p, <2>2
    <3>2. rank[s[p]] >= rank[s[k]] BY <1>4, <1>6, <3>1
    <3>3. rank[s[p]] <= rank[v] BY <1>1, <1>7, <3>1
    <3> QED BY <1>4, <1>5, <3>1, <3>2, <3>3
  <2> QED BY <1>1, <1>p, <2>1, <2>2
<1>10. \A j, k \in 1 .. n + 1 : j < k =>
         \/ rank[t[j]] > rank[t[k]]
         \/ rank[t[j]] = rank[t[k]] /\ t[j] > t[k]
  <2> SUFFICES ASSUME NEW j \in 1 .. n + 1, NEW k \in 1 .. n + 1, j < k
               PROVE  \/ rank[t[j]] > rank[t[k]]
                      \/ rank[t[j]] = rank[t[k]] /\ t[j] > t[k]
      OBVIOUS
  <2>1. CASE k < p
    <3>1. j \in 1 .. n /\ k \in 1 .. n /\ t[j] = s[j] /\ t[k] = s[k]
      BY <1>1, <1>p, <2>1
    <3> QED BY <1>6, <3>1
  <2>2. CASE k = p
    <3>1. j \in 1 .. n /\ j < p /\ t[j] = s[j] /\ t[k] = v BY <1>1, <1>p, <2>2
    <3> QED BY <1>8, <3>1
  <2>3. CASE j < p /\ k > p
    <3>1. j \in 1 .. n /\ k - 1 \in 1 .. n /\ j < k - 1 /\ t[j] = s[j] /\ t[k] = s[k - 1]
      BY <1>1, <1>p, <2>3
    <3> QED BY <1>6, <3>1
  <2>4. CASE j = p
    <3>1. k - 1 \in 1 .. n /\ k - 1 >= p /\ t[j] = v /\ t[k] = s[k - 1]
      BY <1>1, <1>p, <2>4
    <3>2. rank[s[k - 1]] <= rank[v] /\ s[k - 1] < v /\ rank[s[k - 1]] \in Int BY <1>4, <1>9, <3>1
    <3>3. s[k - 1] \in Int BY <1>3, <1>4, <3>1
    <3> QED BY <1>3, <1>5, <3>1, <3>2, <3>3
  <2>5. CASE j > p
    <3>1. /\ j - 1 \in 1 .. n /\ k - 1 \in 1 .. n /\ j - 1 < k - 1
          /\ t[j] = s[j - 1] /\ t[k] = s[k - 1]
      <4>1. j # p /\ k # p /\ ~(j < p) /\ ~(k < p) BY <1>1, <1>p, <2>5
      <4>2. j - 1 \in 1 .. n /\ k - 1 \in 1 .. n /\ j - 1 < k - 1 BY <1>1, <1>p, <2>5
      <4> QED BY <1>1, <4>1, <4>2
    <3> QED BY <1>6, <3>1
  <2> QED BY <1>1, <1>p, <2>1, <2>2, <2>3, <2>4, <2>5
<1> QED BY <1>1, <1>10 DEF SortedBy, t

\* A new one is made for it.
LEMMA AppearsAnew ==
  ASSUME AlertsInv, NEW a \in Alerts, NEW v \in Views, displayedAlerts[a] = Null,
         v = Cardinality(Made) + 1,
         alertOf' = [alertOf EXCEPT ![v] = a],
         view' = AddViewToContainer(v),
         displayedAlerts' = [displayedAlerts EXCEPT ![a] = v]
  PROVE  AppearsOn(a, v)
<1> USE NullIsNone
<1>1. /\ \A u \in Views : u < v => alertOf[u] # Null
      /\ \A u \in Views : u >= v => alertOf[u] = Null
  BY FirstUnmade DEF AlertsInv
<1>2. /\ view \in Seq(Views) /\ Distinct(view)
      /\ \A u : Contains(view, u) => u \in Views /\ alertOf[u] \in Alerts
  BY TypesOfSequences DEF AlertsInv
<1>3. Views \subseteq Int BY DEF Views
<1>4. alertOf[v] = Null /\ \A u : Contains(view, u) => u < v
  <2>1. \A u \in Views : ~(u >= v) => u < v BY <1>3
  <2>2. v >= v BY <1>3
  <2> QED BY <1>1, <1>2, <2>1, <2>2
<1>5. ~Contains(view, v) BY <1>2, <1>4
<1>6. PICK p \in 1 .. Len(view) + 1 :
        /\ view' = InsertAt(view, p, v)
        /\ \A k \in 1 .. Len(view) : k < p => ~(PriorityOf(view[k]) <= PriorityOf(v))
        /\ p <= Len(view) => PriorityOf(view[p]) <= PriorityOf(v)
  BY <1>2, PlaceFound
<1>7. /\ InsertAt(view, p, v) \in Seq(Views) /\ Distinct(InsertAt(view, p, v))
      /\ \A u : Contains(InsertAt(view, p, v), u) <=> Contains(view, u) \/ u = v
  BY <1>2, <1>5, InsertedView
<1>8. /\ alertOf' \in [Views -> Alerts \union {Null}]
      /\ \A u \in Views : alertOf'[u] = IF u = v THEN a ELSE alertOf[u]
      /\ \A u \in Views : alertOf[u] # Null => alertOf'[u] = alertOf[u]
      /\ displayedAlerts' \in [Alerts -> Views \union {Null}]
      /\ \A b \in Alerts : displayedAlerts'[b] = IF b = a THEN v ELSE displayedAlerts[b]
  BY <1>4 DEF AlertsInv, TypeOK
<1>9. /\ \A b \in Alerts : displayedAlerts[b] # v
      /\ fadeWatchers[v] = Null
  BY <1>5 DEF AlertsInv, ShownWhileRequested
<1>10. ViewsInOrder'
  <2>1. SUFFICES ASSUME NEW u \in Views, NEW w \in Views, u < w, alertOf'[w] # Null
                 PROVE  alertOf'[u] # Null
    BY DEF ViewsInOrder
  <2>2. w <= v
    <3>1. CASE w = v BY <1>3, <3>1
    <3>2. CASE w # v BY <1>1, <1>3, <1>8, <2>1, <3>2
    <3> QED BY <3>1, <3>2
  <2>3. u < v BY <1>3, <2>1, <2>2
  <2> QED BY <1>1, <1>8, <2>3
<1>11. SortedByPriority'
  <2> DEFINE rank == [u \in Views |-> Priority[alertOf'[u]]]
  <2>1. \A u \in Views : rank[u] = Priority[alertOf'[u]] OBVIOUS
  <2>2. rank[v] = PriorityOf(v) /\ rank[v] \in Int BY <1>8, <2>1, AlertsAssumption DEF PriorityOf
  <2>3. \A k \in 1 .. Len(view) : Contains(view, view[k]) BY DEF Contains
  <2>4. \A k \in 1 .. Len(view) :
          /\ view[k] \in Views /\ view[k] < v
          /\ rank[view[k]] = PriorityOf(view[k]) /\ rank[view[k]] = Priority[alertOf[view[k]]]
          /\ rank[view[k]] \in Int
    <3> TAKE k \in 1 .. Len(view)
    <3>1. view[k] \in Views /\ view[k] < v /\ alertOf[view[k]] \in Alerts BY <1>2, <1>4, <2>3
    <3>2. alertOf'[view[k]] = alertOf[view[k]] BY <1>8, <3>1
    <3> QED BY <2>1, <3>1, <3>2, AlertsAssumption DEF PriorityOf
  <2>5. SortedBy(view, rank)
    <3>1. DOMAIN view = 1 .. Len(view) BY <1>2
    <3>2. \A j, k \in 1 .. Len(view) : j < k =>
            \/ Priority[alertOf[view[j]]] > Priority[alertOf[view[k]]]
            \/ Priority[alertOf[view[j]]] = Priority[alertOf[view[k]]] /\ view[j] > view[k]
      BY <3>1 DEF AlertsInv, SortedByPriority
    <3> HIDE DEF rank
    <3> QED BY <2>4, <3>2 DEF SortedBy
  <2> HIDE DEF rank
  <2>6. SortedBy(view', rank)
    <3>1. /\ \A k \in 1 .. Len(view) : k < p => ~(rank[view[k]] <= rank[v])
          /\ p <= Len(view) => rank[view[p]] <= rank[v]
      <4>1. p <= Len(view) => p \in 1 .. Len(view) BY <1>2
      <4> QED BY <1>6, <2>2, <2>4, <4>1
    <3>2. SortedBy(InsertAt(view, p, v), rank)
      BY <1>2, <1>3, <2>2, <2>4, <2>5, <3>1, SortedInsertion
    <3> QED BY <1>6, <3>2
  <2>7. view' \in Seq(Views) /\ DOMAIN view' = 1 .. Len(view') BY <1>6, <1>7
  <2>8. \A k \in 1 .. Len(view') : rank[view'[k]] = Priority[alertOf'[view'[k]]]
    <3>1. \A k \in 1 .. Len(view') : view'[k] \in Views BY <2>7
    <3> QED BY <2>1, <3>1
  <2> QED BY <2>6, <2>7, <2>8 DEF SortedByPriority, SortedBy
<1> QED BY <1>4, <1>5, <1>6, <1>7, <1>8, <1>9, <1>10, <1>11 DEF AppearsOn

\* All that a request does: its view is on the page, it does not fade, and if its
\* alert fades it waits for its turn.
Requested(a, h, v) ==
  /\ AppearsOn(a, v) /\ Unfaded(v)
  /\ viewOf' = [viewOf EXCEPT ![h] = v]
  /\ displayRequests' = [displayRequests EXCEPT ![v] = @ \union {h}]
  /\ over' = over
  /\ deferred' \in Seq(Views)
  /\ \A u : Contains(deferred', u) => Contains(deferred, u) \/ (u = v /\ a \in Fading)
  /\ \/ a \in Fading /\ deferred' = deferred \o [i \in 1 .. 1 |-> v]
     \/ a \notin Fading /\ deferred' = deferred

LEMMA RequestedOn ==
  ASSUME AlertsInv, NEW a \in Alerts, NEW h \in Handles, RequestDisplay(a, h)
  PROVE  \E v \in Views : Requested(a, h, v)
<1> USE NullIsNone
<1>0. TypeOK BY DEF AlertsInv
<1>1. PICK v \in Views :
        /\ \/ /\ displayedAlerts[a] = v
              /\ UNCHANGED <<view, displayedAlerts, alertOf>>
           \/ /\ displayedAlerts[a] = Null
              /\ v = Cardinality({u \in Views : alertOf[u] # Null}) + 1
              /\ alertOf' = [alertOf EXCEPT ![v] = a]
              /\ view' = AddViewToContainer(v)
              /\ displayedAlerts' = [displayedAlerts EXCEPT ![a] = v]
        /\ viewOf' = [viewOf EXCEPT ![h] = v]
        /\ displayRequests' = [displayRequests EXCEPT ![v] = @ \union {h}]
        /\ \/ a \in Fading /\ StartFading(v, 1)
           \/ /\ a \notin Fading
              /\ fade' = fade \ {v}
              /\ UNCHANGED <<fadeWatchers, timers, deferred>>
  BY DEF RequestDisplay
<1>2. over' = over BY DEF RequestDisplay
<1>3. AppearsOn(a, v) BY <1>1, AppearsAgain, AppearsAnew DEF Made
<1>4. /\ view \in Seq(Views) /\ Distinct(view) /\ deferred \in Seq(Views) /\ timers \in Seq(Timer)
      /\ \A u : Contains(view, u) => u \in Views /\ alertOf[u] \in Alerts
      /\ \A u : Contains(deferred, u) => u \in Views /\ alertOf[u] \in Alerts
  BY <1>0, TypesOfSequences
<1>5. alertOf[v] # Null => alertOf[v] = a
  BY <1>3, AlertsAssumption DEF AppearsOn
<1>6. /\ Unfaded(v) /\ deferred' \in Seq(Views)
      /\ \/ a \in Fading /\ deferred' = deferred \o [i \in 1 .. 1 |-> v]
         \/ a \notin Fading /\ deferred' = deferred
      /\ \A u : Contains(deferred', u) => Contains(deferred, u) \/ (u = v /\ a \in Fading)
  <2>1. CASE a \in Fading /\ StartFading(v, 1)
    <3>1. Unfaded(v) BY <2>1, StopFadingUnfades DEF StartFading
    <3>2. deferred' = deferred \o [i \in 1 .. 1 |-> v] BY <2>1 DEF StartFading
    <3>3. 1 \in Nat OBVIOUS
    <3>4. /\ deferred' \in Seq(Views)
          /\ \A u : Contains(deferred', u) => Contains(deferred, u) \/ (u = v /\ 1 # 0)
      BY <1>4, <3>2, <3>3, DeferredAgain
    <3> QED BY <2>1, <3>1, <3>2, <3>4
  <2>2. CASE a \notin Fading /\ fade' = fade \ {v} /\ UNCHANGED <<fadeWatchers, timers, deferred>>
    <3>1. fadeWatchers[v] = Null
      <4>1. CASE Contains(view, v) BY <1>4, <1>5, <2>2, <4>1 DEF AlertsInv, OnlyFadingFade
      <4>2. CASE ~Contains(view, v) BY <1>3, <4>2 DEF AppearsOn
      <4> QED BY <4>1, <4>2
    <3>2. Apart(timers) BY DEF AlertsInv, TimersApart, Apart
    <3>3. fadeWatchers \in [Views -> TimerIds \union {Null}] /\ fade \subseteq Views BY <1>0 DEF TypeOK
    <3>4. ASSUME NEW u \in Views, Contains(view, u) \/ u = v
          PROVE  /\ u \in fade' <=> fadeWatchers'[u] # Null
                 /\ fadeWatchers'[u] # Null => Contains(timers', [id |-> fadeWatchers'[u], view |-> u])
      <4>1. CASE u = v BY <2>2, <3>1, <4>1
      <4>2. CASE u # v
        <5>1. u \in fade' <=> u \in fade BY <2>2, <4>2
        <5>2. /\ u \in fade <=> fadeWatchers[u] # Null
              /\ fadeWatchers[u] # Null => Contains(timers, [id |-> fadeWatchers[u], view |-> u])
          BY <1>4, <3>4, <4>2, FadedByView DEF AlertsInv
        <5> QED BY <2>2, <5>1, <5>2
      <4> QED BY <4>1, <4>2
    <3>5. \A t : Contains(timers, t) => t.id \in TimerIds
      <4>1. \A t : Contains(timers, t) => t \in Timer BY <1>0, TypesOfSequences
      <4> QED BY <4>1 DEF Timer
    <3>6. \A t : Contains(timers', t) => Contains(timers, t) /\ t.id # fadeWatchers[v]
      BY <2>2, <3>1, <3>5
    <3>7. Unfaded(v) BY <1>4, <2>2, <3>1, <3>2, <3>3, <3>4, <3>6 DEF Unfaded
    <3> QED BY <1>4, <2>2, <3>7
  <2> QED BY <1>1, <2>1, <2>2
<1> QED BY <1>1, <1>2, <1>3, <1>6 DEF Requested

LEMMA RequestDisplayKeeps ==
  ASSUME AlertsInv, NEW a \in Alerts, NEW h \in Handles, RequestDisplay(a, h)
  PROVE  AlertsInv'
<1> USE NullIsNone
<1>0. TypeOK BY DEF AlertsInv
<1>1. PICK v \in Views : Requested(a, h, v) BY RequestedOn
<1>2. over' = over BY <1>1 DEF Requested
<1>3. AppearsOn(a, v) BY <1>1 DEF Requested
<1>4. /\ view \in Seq(Views) /\ Distinct(view) /\ deferred \in Seq(Views) /\ timers \in Seq(Timer)
      /\ \A u : Contains(view, u) => u \in Views /\ alertOf[u] \in Alerts
      /\ \A u : Contains(deferred, u) => u \in Views /\ alertOf[u] \in Alerts
  BY <1>0, TypesOfSequences
<1>6. /\ Unfaded(v) /\ deferred' \in Seq(Views)
      /\ \A u : Contains(deferred', u) => Contains(deferred, u) \/ (u = v /\ a \in Fading)
  BY <1>1 DEF Requested
<1>7. OnlyFadingFade' /\ TimersApart' /\ FadedWhileTimed'
  <2>1. alertOf'[v] = a BY <1>3 DEF AppearsOn
  <2>2. /\ view' \in Seq(Views)
        /\ \A u \in Views : Contains(view', u) => Contains(view, u) \/ u = v
        /\ \A u \in Views : alertOf[u] # Null => alertOf'[u] = alertOf[u]
    BY <1>3 DEF AppearsOn
  <2>3. \A u \in Views : Contains(deferred', u)
          => Contains(deferred, u) \/ (u = v /\ alertOf'[v] \in Fading)
    BY <1>6, <2>1
  <2> QED BY <1>6, <2>2, <2>3, UnfadedKeeps
<1>8. /\ viewOf' \in [Handles -> Views \union {Null}]
      /\ displayRequests' \in [Views -> SUBSET Handles]
      /\ \A u \in Views : displayRequests'[u] = IF u = v THEN displayRequests[v] \union {h}
                                                ELSE displayRequests[u]
  BY <1>0, <1>1 DEF TypeOK, Requested
<1>9. TypeOK'
  <2>1. ASSUME NEW u, Contains(view', u) \/ Contains(deferred', u) PROVE alertOf'[u] # Null
    <3>1. Contains(view, u) \/ Contains(deferred, u) \/ u = v BY <1>3, <1>6, <2>1 DEF AppearsOn
    <3> QED BY <1>3, <1>4, <3>1 DEF AppearsOn
  <2>2. /\ displayedAlerts' \in [Alerts -> Views \union {Null}]
        /\ alertOf' \in [Views -> Alerts \union {Null}]
        /\ view' \in Seq(Views) /\ Distinct(view')
    BY <1>3 DEF AppearsOn
  <2>3. over' \in Views \union {Null} BY <1>0, <1>2 DEF TypeOK
  <2>4. /\ fadeWatchers' \in [Views -> TimerIds \union {Null}] /\ fade' \subseteq Views
        /\ timers' \in Seq(Timer)
    BY <1>6 DEF Unfaded
  <2> QED BY <1>6, <1>8, <2>1, <2>2, <2>3, <2>4, TypesAgain
<1>10. ViewsInOrder' /\ SortedByPriority' BY <1>3 DEF AppearsOn
<1>11. IsFiniteSet(GivenOut)'
  <2>1. GivenOut' \subseteq GivenOut \union {h} BY <1>0, <1>1 DEF GivenOut, TypeOK, Requested
  <2>2. IsFiniteSet(GivenOut \union {h}) BY FS_AddElement DEF AlertsInv
  <2>3. IsFiniteSet(GivenOut') BY <2>1, <2>2, FS_Subset
  <2> QED BY <2>3
<1>12. DisplayedTheirs' BY <1>3, AlertsAssumption DEF AppearsOn, AlertsInv, DisplayedTheirs
<1>13. over' # Null => Contains(view', over') BY <1>2, <1>3 DEF AppearsOn, AlertsInv
<1>14. ShownWhileRequested'
  <2>1. ASSUME NEW u \in Views
        PROVE  /\ Contains(view', u) <=> displayRequests'[u] # {}
               /\ ~Contains(view', u) => /\ fadeWatchers'[u] = Null
                                         /\ \A b \in Alerts : displayedAlerts'[b] # u
    <3>1. CASE u = v BY <1>3, <1>8, <3>1 DEF AppearsOn
    <3>2. CASE u # v
      <4>1. Contains(view', u) <=> Contains(view, u) BY <1>3, <3>2 DEF AppearsOn
      <4>2. fadeWatchers'[u] = fadeWatchers[u] BY <1>6, <3>2 DEF Unfaded
      <4>3. \A b \in Alerts : displayedAlerts'[b] = u => displayedAlerts[b] = u
        BY <1>3, <3>2 DEF AppearsOn
      <4> QED BY <1>8, <3>2, <4>1, <4>2, <4>3 DEF AlertsInv, ShownWhileRequested
    <3> QED BY <3>1, <3>2
  <2> QED BY <2>1 DEF ShownWhileRequested
<1> QED BY <1>7, <1>9, <1>10, <1>11, <1>12, <1>13, <1>14 DEF AlertsInv

\* The next turn: every view in starting gets a timer that was not in use, and
\* has one of those it got in fadeWatchers.
Started(starting, id) ==
  /\ starting \in Seq(Views)
  /\ id \in [1 .. Len(starting) -> TimerIds]
  /\ \A i, j \in 1 .. Len(starting) : id[i] = id[j] => i = j
  /\ \A i \in 1 .. Len(starting), k \in 1 .. Len(timers) : timers[k].id # id[i]
  /\ \A v : Contains(starting, v) => Contains(deferred, v) /\ StillDisplayed(v)
  /\ Embeds(starting, deferred, {v \in ToSet(deferred) : StillDisplayed(v)}, Len(deferred))
  /\ fade' = fade \union {starting[i] : i \in 1 .. Len(starting)}
  /\ timers' \in Seq(Timer)
  /\ Len(timers') = Len(timers) + Len(starting)
  /\ \A k \in 1 .. Len(timers) : timers'[k] = timers[k]
  /\ \A i \in 1 .. Len(starting) :
       timers'[Len(timers) + i] = [id |-> id[i], view |-> starting[i]]
  /\ fadeWatchers' \in [Views -> TimerIds \union {Null}]
  /\ \A v \in Views : ~Contains(starting, v) => fadeWatchers'[v] = fadeWatchers[v]
  /\ \A v \in Views : Contains(starting, v) =>
       \E i \in 1 .. Len(starting) : starting[i] = v /\ fadeWatchers'[v] = id[i]

LEMMA RunDeferredStarts ==
  ASSUME AlertsInv, RunDeferred
  PROVE  \E starting, id : Started(starting, id)
<1> USE NullIsNone
<1> DEFINE D == {v \in ToSet(deferred) : StillDisplayed(v)}
           starting == Filtered(deferred, D)
           n == Len(starting)
           free == Injection(DOMAIN starting, TimerIds \ {timers[i].id : i \in DOMAIN timers})
           id == CHOOSE f \in free : TRUE
           new == [i \in DOMAIN starting |-> [id |-> id[i], view |-> starting[i]]]
<1>1. /\ free # {}
      /\ fade' = fade \union ToSet(starting)
      /\ timers' = timers \o new
      /\ fadeWatchers' = [v \in Views |->
                            LET i == SelectLastInSeq(starting, LAMBDA u : u = v)
                            IN  IF i = 0 THEN fadeWatchers[v] ELSE id[i]]
  BY DEF RunDeferred
<1>2. deferred \in Seq(Views) /\ timers \in Seq(Timer) BY TypesOfSequences DEF AlertsInv
<1>3. /\ starting \in Seq(Views)
      /\ ToSet(starting) = ToSet(deferred) \cap D
      /\ Embeds(starting, deferred, D, Len(deferred))
  BY <1>2, FilteredElements, FilteredEmbeds
<1>4. \A v : v \in ToSet(starting) => v \in ToSet(deferred) /\ StillDisplayed(v) BY <1>3
<1>5. fadeWatchers \in [Views -> TimerIds \union {Null}] BY DEF AlertsInv, TypeOK
<1>e. Embeds(starting, deferred, {v \in ToSet(deferred) : StillDisplayed(v)}, Len(deferred)) BY <1>3
<1> HIDE DEF starting, D
<1>6. n \in Nat /\ DOMAIN starting = 1 .. n /\ ToSet(starting) = {starting[i] : i \in 1 .. n}
      /\ \A i \in 1 .. n : starting[i] \in Views
  BY <1>3 DEF ToSet
<1>7. id \in free BY <1>1
<1> HIDE DEF id
<1>8. /\ id \in [1 .. n -> TimerIds]
      /\ \A i, j \in 1 .. n : id[i] = id[j] => i = j
      /\ \A i \in 1 .. n : id[i] \notin {timers[k].id : k \in DOMAIN timers}
  BY <1>6, <1>7 DEF Injection, IsInjective
<1>9. DOMAIN timers = 1 .. Len(timers) BY <1>2
<1>10. \A i \in 1 .. n, k \in 1 .. Len(timers) : timers[k].id # id[i] BY <1>8, <1>9
<1>11. new \in Seq(Timer) /\ Len(new) = n
       /\ \A i \in 1 .. n : new[i] = [id |-> id[i], view |-> starting[i]]
  <2>1. \A i \in 1 .. n : new[i] = [id |-> id[i], view |-> starting[i]] BY <1>6
  <2>2. \A i \in 1 .. n : [id |-> id[i], view |-> starting[i]] \in Timer BY <1>6, <1>8 DEF Timer
  <2>3. new = [i \in 1 .. n |-> new[i]] BY <1>6
  <2> HIDE DEF new, n
  <2>4. \A i \in 1 .. n : new[i] \in Timer BY <2>1, <2>2
  <2>5. new \in [1 .. n -> Timer] BY <2>3, <2>4
  <2> QED BY <1>6, <2>1, <2>5 DEF n
<1> HIDE DEF new
<1>12. /\ timers' \in Seq(Timer) /\ Len(timers') = Len(timers) + n
       /\ \A k \in 1 .. Len(timers) : timers'[k] = timers[k]
       /\ \A i \in 1 .. n : timers'[Len(timers) + i] = [id |-> id[i], view |-> starting[i]]
  <2>1. timers' = timers \o new BY <1>1 DEF id, new
  <2>2. /\ timers \o new \in Seq(Timer) /\ Len(timers \o new) = Len(timers) + Len(new)
        /\ \A k \in 1 .. Len(timers) : (timers \o new)[k] = timers[k]
        /\ \A i \in 1 .. Len(new) : (timers \o new)[Len(timers) + i] = new[i]
    <3>1. timers \in Seq(Timer) /\ new \in Seq(Timer) BY <1>2, <1>11
    <3> HIDE DEF n
    <3> QED BY <3>1
  <2> QED BY <1>11, <2>1, <2>2
<1>13. ASSUME NEW v \in Views
       PROVE  /\ fadeWatchers'[v] \in TimerIds \union {Null}
              /\ ~Contains(starting, v) => fadeWatchers'[v] = fadeWatchers[v]
              /\ Contains(starting, v) =>
                   \E i \in 1 .. n : starting[i] = v /\ fadeWatchers'[v] = id[i]
  <2> DEFINE I == {i \in 1 .. n : starting[i] = v}
  <2>1. fadeWatchers'[v] = IF (IF I # {} THEN Max(I) ELSE 0) = 0 THEN fadeWatchers[v]
                           ELSE id[IF I # {} THEN Max(I) ELSE 0]
    BY <1>1 DEF SelectLastInSeq, id
  <2>2. Contains(starting, v) <=> I # {} BY DEF Contains
  <2>3. I \subseteq 1 .. n /\ \A i \in I : starting[i] = v OBVIOUS
  <2> HIDE DEF I, n
  <2>4. CASE I = {} BY <1>5, <2>1, <2>2, <2>4
  <2>5. CASE I # {}
    <3>1. PICK m \in I : m = Max(I) BY <1>6, <2>3, <2>5, MaxIsGreatest
    <3>2. m \in 1 .. n /\ m # 0 /\ starting[m] = v BY <1>6, <2>3, <3>1
    <3>3. fadeWatchers'[v] = id[m] BY <2>1, <2>5, <3>1, <3>2
    <3> QED BY <1>8, <2>2, <2>5, <3>2, <3>3
  <2> QED BY <2>4, <2>5
<1>14. fadeWatchers' \in [Views -> TimerIds \union {Null}]
  <2>1. fadeWatchers' = [v \in Views |-> fadeWatchers'[v]] BY <1>1
  <2> QED BY <1>13, <2>1
<1>15. fade' = fade \union {starting[i] : i \in 1 .. n} BY <1>1, <1>6
<1>16. \A v : Contains(starting, v) => Contains(deferred, v) /\ StillDisplayed(v)
  <2>1. \A v : Contains(starting, v) => v \in ToSet(starting) BY <1>6 DEF Contains
  <2>2. DOMAIN deferred = 1 .. Len(deferred) BY <1>2
  <2>3. \A v : v \in ToSet(deferred) => Contains(deferred, v) BY <2>2 DEF Contains, ToSet
  <2> QED BY <1>4, <2>1, <2>3
<1>17. Started(starting, id)
  BY <1>3, <1>e, <1>8, <1>10, <1>12, <1>13, <1>14, <1>15, <1>16 DEF Started
<1> QED BY <1>17

LEMMA RunDeferredKeeps == ASSUME AlertsInv, RunDeferred PROVE AlertsInv'
<1> USE NullIsNone
<1>0. TypeOK BY DEF AlertsInv
<1>1. PICK starting, id : Started(starting, id) BY RunDeferredStarts
<1> DEFINE n == Len(starting)
<1>2. /\ starting \in Seq(Views) /\ n \in Nat /\ \A i \in 1 .. n : starting[i] \in Views
      /\ id \in [1 .. n -> TimerIds]
      /\ \A i, j \in 1 .. n : id[i] = id[j] => i = j
      /\ \A i \in 1 .. n, k \in 1 .. Len(timers) : timers[k].id # id[i]
      /\ \A v : Contains(starting, v) => Contains(deferred, v) /\ StillDisplayed(v)
      /\ fade' = fade \union {starting[i] : i \in 1 .. n}
      /\ timers' \in Seq(Timer) /\ Len(timers') = Len(timers) + n
      /\ \A k \in 1 .. Len(timers) : timers'[k] = timers[k]
      /\ \A i \in 1 .. n : timers'[Len(timers) + i] = [id |-> id[i], view |-> starting[i]]
      /\ fadeWatchers' \in [Views -> TimerIds \union {Null}]
      /\ \A v \in Views : ~Contains(starting, v) => fadeWatchers'[v] = fadeWatchers[v]
      /\ \A v \in Views : Contains(starting, v) =>
           \E i \in 1 .. n : starting[i] = v /\ fadeWatchers'[v] = id[i]
  BY <1>1 DEF Started
<1>3. UNCHANGED <<displayedAlerts, displayRequests, view, alertOf, viewOf, over>> /\ deferred' = <<>>
  BY DEF RunDeferred
<1>4. /\ view \in Seq(Views) /\ Distinct(view) /\ timers \in Seq(Timer)
      /\ \A u : Contains(view, u) => u \in Views /\ alertOf[u] \in Alerts
      /\ \A u : Contains(deferred, u) => u \in Views /\ alertOf[u] \in Alerts
  BY <1>0, TypesOfSequences
<1>m. Len(timers) \in Nat BY <1>4
<1>5. \A i \in 1 .. n : Contains(starting, starting[i]) BY DEF Contains
<1> HIDE DEF n
<1>6. \A v : Contains(starting, v) => v \in Views /\ Contains(deferred, v) /\ Contains(view, v)
  <2> TAKE v
  <2> HAVE Contains(starting, v)
  <2>1. Contains(deferred, v) /\ StillDisplayed(v) BY <1>2
  <2>2. v \in Views /\ alertOf[v] \in Alerts BY <1>4, <2>1
  <2>3. displayedAlerts[alertOf[v]] = v BY <2>1 DEF StillDisplayed
  <2> QED BY <2>1, <2>2, <2>3 DEF AlertsInv, ShownWhileRequested
<1>7. TypeOK'
  <2>1. fade' \subseteq Views BY <1>0, <1>2 DEF TypeOK
  <2>2. \A u : Contains(view', u) \/ Contains(deferred', u) => alertOf'[u] # Null
    <3>1. \A u : ~Contains(deferred', u)
      <4>1. Len(deferred') = 0 BY <1>3
      <4> QED BY <4>1 DEF Contains
    <3> QED BY <1>3, <1>4, <3>1
  <2>3. deferred' \in Seq(Views) BY <1>3
  <2>4. view' \in Seq(Views) /\ Distinct(view') BY <1>3, <1>4
  <2> QED BY <1>0, <1>2, <1>3, <2>1, <2>2, <2>3, <2>4, TypesAgain DEF TypeOK
<1>8. OnlyFadingFade'
  <2>1. ASSUME NEW v \in Views, fadeWatchers'[v] # Null \/ Contains(deferred', v)
        PROVE  alertOf'[v] \in Fading
    <3>1. fadeWatchers'[v] # Null
      <4>1. Len(deferred') = 0 BY <1>3
      <4> QED BY <2>1, <4>1 DEF Contains
    <3>2. fadeWatchers[v] # Null \/ Contains(deferred, v) BY <1>2, <3>1
    <3> QED BY <1>3, <3>2 DEF AlertsInv, OnlyFadingFade
  <2> QED BY <2>1 DEF OnlyFadingFade
<1>9. TimersApart'
  <2>1. \A k \in 1 .. Len(timers') :
          \/ k \in 1 .. Len(timers) /\ timers'[k] = timers[k]
          \/ \E i \in 1 .. n : /\ k = Len(timers) + i
                               /\ timers'[k].id = id[i] /\ timers'[k].view = starting[i]
    <3> TAKE k \in 1 .. Len(timers')
    <3>1. CASE k \in 1 .. Len(timers) BY <1>2, <3>1
    <3>2. CASE k \notin 1 .. Len(timers)
      <4>1. k - Len(timers) \in 1 .. n /\ k = Len(timers) + (k - Len(timers))
        BY <1>2, <1>m, <3>2
      <4>2. PICK i \in 1 .. n : k = Len(timers) + i BY <4>1
      <4>3. timers'[k] = [id |-> id[i], view |-> starting[i]] BY <1>2, <4>2
      <4> QED BY <4>2, <4>3
    <3> QED BY <3>1, <3>2
  <2>2. \A i, j \in 1 .. Len(timers) : timers[i].id = timers[j].id => i = j
    BY DEF AlertsInv, TimersApart
  <2>7. \A i \in 1 .. n, k \in 1 .. Len(timers) : timers[k].id # id[i] BY <1>2
  <2>3. ASSUME NEW j \in 1 .. Len(timers'), NEW k \in 1 .. Len(timers'), timers'[j].id = timers'[k].id
        PROVE  j = k
    <3>1. CASE j \in 1 .. Len(timers) /\ timers'[j] = timers[j] /\ k \in 1 .. Len(timers) /\ timers'[k] = timers[k]
      BY <2>2, <2>3, <3>1
    <3>2. CASE j \in 1 .. Len(timers) /\ timers'[j] = timers[j] /\ \E i \in 1 .. n : timers'[k].id = id[i]
      BY <2>7, <2>3, <3>2
    <3>3. CASE k \in 1 .. Len(timers) /\ timers'[k] = timers[k] /\ \E i \in 1 .. n : timers'[j].id = id[i]
      BY <2>7, <2>3, <3>3
    <3>4. CASE /\ \E i \in 1 .. n : j = Len(timers) + i /\ timers'[j].id = id[i]
               /\ \E i \in 1 .. n : k = Len(timers) + i /\ timers'[k].id = id[i]
      BY <1>2, <2>3, <3>4
    <3> QED BY <2>1, <3>1, <3>2, <3>3, <3>4
  <2>4. \A i \in 1 .. n : alertOf[starting[i]] # Null BY <1>4, <1>5, <1>6
  <2>5. \A k \in 1 .. Len(timers) : alertOf[timers[k].view] # Null BY DEF AlertsInv, TimersApart
  <2>6. \A k \in 1 .. Len(timers') : alertOf[timers'[k].view] # Null BY <2>1, <2>4, <2>5
  <2> QED BY <1>3, <2>3, <2>6 DEF TimersApart
<1>10. ShownWhileRequested'
  <2>1. \A v \in Views : ~Contains(view, v) => fadeWatchers'[v] = fadeWatchers[v] BY <1>2, <1>6
  <2> QED BY <1>3, <2>1 DEF AlertsInv, ShownWhileRequested
<1>11. FadedWhileTimed'
  <2>1. ASSUME NEW v \in Views, Contains(view', v)
        PROVE  /\ v \in fade' <=> fadeWatchers'[v] # Null
               /\ fadeWatchers'[v] # Null => Contains(timers', [id |-> fadeWatchers'[v], view |-> v])
    <3>1. CASE Contains(starting, v)
      <4>1. PICK i \in 1 .. n : starting[i] = v /\ fadeWatchers'[v] = id[i] BY <1>2, <3>1
      <4>2. fadeWatchers'[v] # Null /\ v \in fade' BY <1>2, <4>1
      <4>3. Len(timers) + i \in 1 .. Len(timers') BY <1>2, <1>m, <4>1
      <4>4. timers'[Len(timers) + i] = [id |-> fadeWatchers'[v], view |-> v] BY <1>2, <4>1
      <4> QED BY <4>2, <4>3, <4>4 DEF Contains
    <3>2. CASE ~Contains(starting, v)
      <4>1. Contains(view, v) /\ fadeWatchers'[v] = fadeWatchers[v] BY <1>2, <1>3, <2>1, <3>2
      <4>2. v \in fade' <=> v \in fade BY <1>2, <1>5, <3>2
      <4>3. /\ v \in fade <=> fadeWatchers[v] # Null
            /\ fadeWatchers[v] # Null => Contains(timers, [id |-> fadeWatchers[v], view |-> v])
        BY <1>4, <4>1, FadedByView DEF AlertsInv
      <4>4. \A t : Contains(timers, t) => Contains(timers', t)
        <5>1. \A k \in 1 .. Len(timers) : k \in 1 .. Len(timers') BY <1>2, <1>m
        <5> QED BY <1>2, <5>1 DEF Contains
      <4> QED BY <4>1, <4>2, <4>3, <4>4
    <3> QED BY <3>1, <3>2
  <2>2. view' \in Seq(Views) BY <1>3, <1>4
  <2> QED BY <2>1, <2>2, FadedAgain
<1>12. /\ ViewsInOrder' /\ IsFiniteSet(GivenOut)' /\ DisplayedTheirs' /\ SortedByPriority'
       /\ (over # Null => Contains(view, over))'
  BY <1>3 DEF AlertsInv, ViewsInOrder, GivenOut, DisplayedTheirs, SortedByPriority
<1> QED BY <1>7, <1>8, <1>9, <1>10, <1>11, <1>12 DEF AlertsInv

LEMMA AlertsInit == Init => AlertsInv
<1> SUFFICES ASSUME Init PROVE AlertsInv OBVIOUS
<1> USE NullIsNone
<1>1. \A u : ~Contains(view, u) /\ ~Contains(deferred, u)
  <2>1. Len(view) = 0 /\ Len(deferred) = 0 BY DEF Init
  <2> QED BY <2>1 DEF Contains
<1>2. Len(timers) = 0 /\ DOMAIN view = {} /\ ToSet(view) = {} /\ ToSet(deferred) = {}
  BY DEF Init, ToSet
<1>3. TypeOK
  <2>1. view \in Seq(Views) /\ deferred \in Seq(Views) /\ timers \in Seq([id : TimerIds, view : Views])
    BY DEF Init
  <2> QED BY <1>2, <2>1 DEF Init, TypeOK
<1>4. IsFiniteSet(GivenOut)
  <2>1. GivenOut = {} BY DEF Init, GivenOut
  <2> QED BY <2>1, FS_EmptySet
<1>5. ViewsInOrder /\ DisplayedTheirs BY DEF Init, ViewsInOrder, DisplayedTheirs
<1>6. OnlyFadingFade BY <1>1 DEF Init, OnlyFadingFade
<1>7. TimersApart BY <1>2 DEF TimersApart
<1>8. ShownWhileRequested BY <1>1 DEF Init, ShownWhileRequested
<1>9. FadedWhileTimed /\ SortedByPriority BY <1>2 DEF FadedWhileTimed, SortedByPriority
<1> QED BY <1>3, <1>4, <1>5, <1>6, <1>7, <1>8, <1>9 DEF AlertsInv, Init

LEMMA AlertsStep == AlertsInv /\ [Next]_vars => AlertsInv'
<1> SUFFICES ASSUME AlertsInv, [Next]_vars PROVE AlertsInv' OBVIOUS
<1>1. CASE Next
  BY <1>1, CancelHandleKeeps, RequestDisplayKeeps, ClickKeeps, MouseOverKeeps, MouseOutKeeps,
     RunDeferredKeeps, FireTimerKeeps DEF Next
<1>2. CASE UNCHANGED vars
  BY <1>2 DEF vars, AlertsInv, TypeOK, ViewsInOrder, GivenOut, DisplayedTheirs, OnlyFadingFade,
              TimersApart, ShownWhileRequested, FadedWhileTimed, SortedByPriority
<1> QED BY <1>1, <1>2

LEMMA AlertsInvariant == Spec => []AlertsInv
BY AlertsInit, AlertsStep, PTL DEF Spec

\* A cancel touches the requests of its own view only, and a repeated one nothing.
LEMMA CancelStaysLocal ==
  ASSUME TypeOK
  PROVE  \A h \in Handles : CancelHandle(h) =>
           /\ h \notin displayRequests[viewOf[h]] => UNCHANGED vars
           /\ displayRequests[viewOf[h]] \ {h} # {} => UNCHANGED <<view, displayedAlerts>>
<1> SUFFICES ASSUME NEW h \in Handles, CancelHandle(h)
             PROVE  /\ h \notin displayRequests[viewOf[h]] => UNCHANGED vars
                    /\ displayRequests[viewOf[h]] \ {h} # {} => UNCHANGED <<view, displayedAlerts>>
    OBVIOUS
<1> DEFINE v == viewOf[h]
<1>1. v \in Views /\ displayRequests \in [Views -> SUBSET Handles] BY DEF TypeOK, CancelHandle
<1>2. CASE RemovesLast(v, h)
  BY <1>2 DEF RemovesLast
<1>3. CASE ~RemovesLast(v, h)
  <2>1. /\ displayRequests' = [displayRequests EXCEPT ![v] = @ \ {h}]
        /\ UNCHANGED <<displayedAlerts, fadeWatchers, view, timers, over, alertOf, viewOf, fade, deferred>>
    BY <1>3 DEF CancelHandle
  <2>2. h \notin displayRequests[v] => displayRequests' = displayRequests
    <3> HIDE DEF v
    <3>1. h \notin displayRequests[v] => displayRequests[v] \ {h} = displayRequests[v] OBVIOUS
    <3> QED BY <1>1, <2>1, <3>1
  <2> QED BY <2>1, <2>2 DEF vars
<1> QED BY <1>2, <1>3

\* After every order of requests, clicks, cancels, timers and deferred commands
\* the page has the views that live handles ask for, sorted by priority with the
\* newest of equals on top, with the style their timers say, and a cancel takes
\* away nothing that others asked for.
THEOREM PageShowsRequests == Spec => ShownAsRequested
<1>1. AlertsInv => ShownWhileRequested /\ SortedByPriority /\ FadedWhileTimed /\ TypeOK
  BY DEF AlertsInv
<1> DEFINE Local == \A h \in Handles : CancelHandle(h) =>
       /\ h \notin displayRequests[viewOf[h]] => UNCHANGED vars
       /\ displayRequests[viewOf[h]] \ {h} # {} => UNCHANGED <<view, displayedAlerts>>
<1>2. TypeOK => [Local]_vars BY CancelStaysLocal
<1>3. CancelIsLocal <=> [][Local]_vars BY DEF CancelIsLocal
<1> HIDE DEF Local
<1> QED BY <1>1, <1>2, <1>3, AlertsInvariant, PTL DEF ShownAsRequested

-----------------------------------------------------------------------------
(* Calm clients. *)

\* NoStrayTimer by the timers outstanding.
NoStray ==
  \A t \in Timer : Contains(timers, t) => fadeWatchers[t.view] = t.id /\ over # t.view

LEMMA StrayByTimer ==
  ASSUME Calm, timers \in Seq(Timer)
  PROVE  NoStrayTimer <=> NoStray
<1>1. DOMAIN timers = 1 .. Len(timers) OBVIOUS
<1>2. \A t : Contains(timers, t) => t \in Timer BY DEF Contains
<1> QED BY <1>1, <1>2 DEF NoStrayTimer, NoStray, Contains

LEMMA NoStrayAgain ==
  ASSUME timers' \in Seq(Timer),
         \A t \in Timer : Contains(timers', t) => fadeWatchers'[t.view] = t.id /\ over' # t.view
  PROVE  NoStrayTimer'
<1>1. DOMAIN timers' = 1 .. Len(timers') OBVIOUS
<1>2. \A i \in 1 .. Len(timers') : timers'[i] \in Timer /\ Contains(timers', timers'[i])
  BY DEF Contains
<1> QED BY <1>1, <1>2 DEF NoStrayTimer

LEMMA CalmCancelAlert ==
  ASSUME Calm, AlertsInv, CalmInv, AlertsInv', NEW v \in Views, Contains(view, v),
         NEW ts \in Seq(Timer), Apart(ts),
         \A t : Contains(ts, t) => Contains(timers, t),
         CancelAlert(v, ts), UNCHANGED <<alertOf, viewOf, fade, deferred>>
  PROVE  CalmInv'
<1> USE NullIsNone
<1>1. WaitsOnce /\ AskedForOnce /\ ShownIsDisplayed /\ NoStrayTimer BY DEF CalmInv
<1>2. /\ view \in Seq(Views) /\ Distinct(view) /\ deferred \in Seq(Views) /\ timers \in Seq(Timer)
      /\ \A u : Contains(view, u) => u \in Views /\ alertOf[u] \in Alerts
  BY TypesOfSequences DEF AlertsInv
<1>3. /\ displayedAlerts' = [displayedAlerts EXCEPT ![alertOf[v]] = Null]
      /\ fadeWatchers' = [fadeWatchers EXCEPT ![v] = Null]
      /\ over' = IF over = v THEN Null ELSE over
      /\ view' = RemoveFirst(view, v)
      /\ timers' = Without(ts, fadeWatchers[v])
  BY DEF CancelAlert
<1>4. \A u : Contains(view', u) => Contains(view, u) /\ u # v
  <2>1. \A u : Contains(RemoveFirst(view, v), u) <=> Contains(view, u) /\ u # v
    BY <1>2, RemovedView
  <2> QED BY <1>3, <2>1
<1>5. /\ timers' \in Seq(Timer)
      /\ \A t : Contains(timers', t) => Contains(timers, t) /\ t.id # fadeWatchers[v]
  <2>1. /\ Without(ts, fadeWatchers[v]) \in Seq(Timer)
        /\ \A t : Contains(Without(ts, fadeWatchers[v]), t) <=>
                    Contains(ts, t) /\ t.id # fadeWatchers[v]
    BY WithoutTimers
  <2> QED BY <1>3, <2>1
<1>6. fadeWatchers \in [Views -> TimerIds \union {Null}] /\ displayedAlerts \in [Alerts -> Views \union {Null}]
  BY DEF AlertsInv, TypeOK
<1>7. WaitsOnce'
  <2>1. \A i \in 1 .. Len(deferred) : deferred[i] \in Views BY <1>2
  <2>2. \A i \in 1 .. Len(deferred) : fadeWatchers'[deferred[i]] = Null /\ over' # deferred[i]
    BY <1>1, <1>3, <1>6, <2>1 DEF WaitsOnce
  <2> QED BY <1>1, <2>2 DEF WaitsOnce
<1>8. AskedForOnce' BY <1>1 DEF AskedForOnce, GivenOut
<1>9. ShownIsDisplayed'
  <2>1. SUFFICES ASSUME NEW u \in Views, Contains(view', u) PROVE displayedAlerts'[alertOf[u]] = u
    BY DEF ShownIsDisplayed
  <2>2. Contains(view, u) /\ u # v BY <1>4, <2>1
  <2>3. displayedAlerts[alertOf[u]] = u /\ displayedAlerts[alertOf[v]] = v
    BY <1>1, <2>2 DEF ShownIsDisplayed
  <2>4. alertOf[u] \in Alerts /\ alertOf[u] # alertOf[v] BY <1>2, <2>2, <2>3
  <2> QED BY <1>3, <1>6, <2>3, <2>4
<1>10. NoStrayTimer'
  <2>1. NoStray BY <1>1, <1>2, StrayByTimer
  <2>2. ASSUME NEW t \in Timer, Contains(timers', t)
        PROVE  fadeWatchers'[t.view] = t.id /\ over' # t.view
    <3>1. Contains(timers, t) /\ t.id # fadeWatchers[v] BY <1>5, <2>2
    <3>2. fadeWatchers[t.view] = t.id /\ over # t.view BY <2>1, <3>1 DEF NoStray
    <3>3. t.view # v /\ t.view \in Views BY <3>1, <3>2 DEF Timer
    <3> QED BY <1>3, <1>6, <3>2, <3>3
  <2> QED BY <1>5, <2>2, NoStrayAgain
<1> QED BY <1>7, <1>8, <1>9, <1>10 DEF CalmInv

\* A view that is cancelled in calm is on the page: its handle, the user or its
\* timer saw it there.
LEMMA TimersViewIsShown ==
  ASSUME Calm, AlertsInv, CalmInv, FireTimer
  PROVE  /\ Head(timers) \in Timer /\ Contains(view, Head(timers).view)
         /\ over # Head(timers).view /\ alertOf[Head(timers).view] \in Fading
<1> USE NullIsNone
<1>1. timers \in Seq(Timer) /\ timers # <<>> BY TypesOfSequences DEF AlertsInv, FireTimer
<1>2. Apart(timers) BY DEF AlertsInv, TimersApart, Apart
<1>3. Head(timers) \in Timer /\ Contains(timers, Head(timers)) BY <1>1, <1>2, TailTimers
<1>4. NoStray BY <1>1, StrayByTimer DEF CalmInv
<1>5. fadeWatchers[Head(timers).view] = Head(timers).id /\ over # Head(timers).view
  BY <1>3, <1>4 DEF NoStray
<1>6. Head(timers).view \in Views /\ Head(timers).id # Null BY <1>3 DEF Timer
<1> QED BY <1>3, <1>5, <1>6 DEF AlertsInv, ShownWhileRequested, OnlyFadingFade

LEMMA CalmCancels ==
  ASSUME Calm, AlertsInv, CalmInv, AlertsInv',
         (\E h \in Handles : CancelHandle(h)) \/ (\E v \in Views : Click(v)) \/ FireTimer
  PROVE  CalmInv'
<1>1. timers \in Seq(Timer) BY TypesOfSequences DEF AlertsInv
<1>2. Apart(timers) BY DEF AlertsInv, TimersApart, Apart
<1>3. CASE \E v \in Views : Click(v)
  <2>1. PICK v \in Views : Click(v) BY <1>3
  <2> QED BY <1>1, <1>2, <2>1, CalmCancelAlert DEF Click
<1>4. CASE FireTimer
  <2> DEFINE v == Head(timers).view
  <2>1. timers # <<>> /\ CancelAlert(v, Tail(timers)) /\ UNCHANGED <<alertOf, viewOf, fade, deferred>>
    BY <1>4 DEF FireTimer
  <2>2. Head(timers) \in Timer /\ Contains(view, v) BY <1>4, TimersViewIsShown
  <2>3. /\ Tail(timers) \in Seq(Timer) /\ Apart(Tail(timers))
        /\ \A t : Contains(Tail(timers), t) <=> Contains(timers, t) /\ t # Head(timers)
    BY <1>1, <1>2, <2>1, TailTimers
  <2>4. v \in Views BY <2>2 DEF Timer
  <2> HIDE DEF v
  <2> QED BY <2>1, <2>2, <2>3, <2>4, CalmCancelAlert
<1>5. CASE \E h \in Handles : CancelHandle(h)
  <2>1. PICK h \in Handles : CancelHandle(h) BY <1>5
  <2> DEFINE v == viewOf[h]
  <2>2. v \in Views /\ UNCHANGED <<alertOf, viewOf, fade, deferred>>
    BY <2>1 DEF AlertsInv, TypeOK, CancelHandle
  <2> HIDE DEF v
  <2>3. CASE RemovesLast(v, h) /\ CancelAlert(v, timers)
    <3>1. Contains(view, v) BY <2>2, <2>3 DEF RemovesLast, AlertsInv, ShownWhileRequested
    <3> QED BY <1>1, <1>2, <2>2, <2>3, <3>1, CalmCancelAlert
  <2>4. CASE UNCHANGED <<displayedAlerts, fadeWatchers, view, timers, over>>
    BY <2>2, <2>4 DEF CalmInv, WaitsOnce, AskedForOnce, GivenOut, ShownIsDisplayed, NoStrayTimer
  <2> QED BY <2>1, <2>3, <2>4 DEF CancelHandle, v
<1> QED BY <1>3, <1>4, <1>5

\* While no timer of view v is outstanding, NoStray survives Unfaded.
LEMMA UnfadedStrays ==
  ASSUME Calm, AlertsInv, CalmInv, NEW v \in Views, Unfaded(v),
         NEW t \in Timer, Contains(timers', t)
  PROVE  fadeWatchers'[t.view] = t.id /\ over # t.view /\ t.view # v
<1>1. timers \in Seq(Timer) BY TypesOfSequences DEF AlertsInv
<1>2. NoStray BY <1>1, StrayByTimer DEF CalmInv
<1>3. Contains(timers, t) /\ t.id # fadeWatchers[v] BY DEF Unfaded
<1>4. fadeWatchers[t.view] = t.id /\ over # t.view BY <1>2, <1>3 DEF NoStray
<1>5. t.view # v /\ t.view \in Views BY <1>3, <1>4 DEF Timer
<1>6. fadeWatchers'[t.view] = fadeWatchers[t.view] BY <1>5 DEF Unfaded
<1> QED BY <1>4, <1>5, <1>6

LEMMA CalmMouse ==
  ASSUME Calm, AlertsInv, CalmInv, AlertsInv', NEW v \in Views, MouseOver(v) \/ MouseOut(v)
  PROVE  CalmInv'
<1> USE NullIsNone
<1>1. WaitsOnce /\ AskedForOnce /\ ShownIsDisplayed /\ NoStrayTimer BY DEF CalmInv
<1>2. Unfaded(v) BY StopFadingUnfades DEF MouseOver, MouseOut, StartFading
<1>3. /\ deferred = <<>> /\ UNCHANGED <<displayedAlerts, displayRequests, view, alertOf, viewOf>>
      /\ over' \in {v, Null}
  BY DEF MouseOver, MouseOut
<1>4. AskedForOnce' /\ ShownIsDisplayed' BY <1>1, <1>3 DEF AskedForOnce, GivenOut, ShownIsDisplayed
<1>5. NoStrayTimer'
  <2>1. ASSUME NEW t \in Timer, Contains(timers', t)
        PROVE  fadeWatchers'[t.view] = t.id /\ over' # t.view
    <3>1. fadeWatchers'[t.view] = t.id /\ t.view # v BY <1>2, <2>1, UnfadedStrays
    <3>2. t.view # Null BY DEF Timer
    <3> QED BY <1>3, <3>1, <3>2
  <2>2. timers' \in Seq(Timer) BY <1>2 DEF Unfaded
  <2> QED BY <2>1, <2>2, NoStrayAgain
<1>6. WaitsOnce'
  <2>1. CASE MouseOver(v)
    <3>1. Len(deferred') = 0 BY <1>3, <2>1 DEF MouseOver
    <3> QED BY <3>1 DEF WaitsOnce
  <2>2. CASE MouseOut(v)
    <3> DEFINE n == MouseHandlers(v)
               H == {h \in Handles : viewOf[h] = v}
    <3>1. n \in {0, 1}
      <4>1. n = IF alertOf[v] \in Fading THEN Cardinality(H) ELSE 0 BY DEF MouseHandlers
      <4>2. \A g, h \in H : alertOf[v] \in Fading => g = h
        BY <1>1 DEF AskedForOnce, GivenOut
      <4> HIDE DEF n, H
      <4>3. CASE alertOf[v] \in Fading /\ H = {} BY <4>1, <4>3, FS_EmptySet
      <4>4. CASE alertOf[v] \in Fading /\ H # {}
        <5>1. PICK h \in H : H = {h} BY <4>2, <4>4
        <5>2. Cardinality({h}) = 1 BY FS_Singleton
        <5> QED BY <4>1, <4>4, <5>1, <5>2
      <4> QED BY <4>1, <4>3, <4>4
    <3>2. deferred' = <<>> \o [i \in 1 .. n |-> v] /\ over' = Null
      BY <1>3, <2>2 DEF MouseOut, StartFading
    <3> HIDE DEF n
    <3>3. Len(deferred') = n /\ \A i \in 1 .. n : deferred'[i] = v
      <4>1. [i \in 1 .. n |-> v] \in Seq(Views) /\ Len([i \in 1 .. n |-> v]) = n BY <3>1
      <4>2. \A i \in 1 .. n : [k \in 1 .. n |-> v][i] = v OBVIOUS
      <4> DEFINE t == [i \in 1 .. n |-> v]
      <4> HIDE DEF t
      <4>3. t \in Seq(Views) /\ Len(t) = n /\ deferred' = <<>> \o t BY <3>2, <4>1 DEF t
      <4>4. deferred' = t BY <4>3
      <4> QED BY <4>2, <4>3, <4>4 DEF t
    <3>4. \A i, j \in 1 .. n : i = j BY <3>1
    <3>5. fadeWatchers'[v] = Null BY <1>2 DEF Unfaded
    <3> QED BY <3>2, <3>3, <3>4, <3>5 DEF WaitsOnce
  <2> QED BY <2>1, <2>2
<1> QED BY <1>4, <1>5, <1>6 DEF CalmInv

LEMMA CalmRunDeferred ==
  ASSUME Calm, AlertsInv, CalmInv, AlertsInv', RunDeferred
  PROVE  CalmInv'
<1> USE NullIsNone
<1>1. WaitsOnce /\ AskedForOnce /\ ShownIsDisplayed /\ NoStrayTimer BY DEF CalmInv
<1>2. UNCHANGED <<displayedAlerts, displayRequests, view, alertOf, viewOf, over>> /\ deferred' = <<>>
  BY DEF RunDeferred
<1>3. AskedForOnce' /\ ShownIsDisplayed' BY <1>1, <1>2 DEF AskedForOnce, GivenOut, ShownIsDisplayed
<1>4. WaitsOnce'
  <2>1. Len(deferred') = 0 BY <1>2
  <2> QED BY <2>1 DEF WaitsOnce
<1>5. NoStrayTimer'
  <2>1. PICK starting, id : Started(starting, id) BY RunDeferredStarts
  <2> DEFINE n == Len(starting)
             D == {v \in ToSet(deferred) : StillDisplayed(v)}
  <2>2. /\ starting \in Seq(Views) /\ n \in Nat /\ \A i \in 1 .. n : starting[i] \in Views
        /\ \A v : Contains(starting, v) => Contains(deferred, v) /\ StillDisplayed(v)
        /\ Embeds(starting, deferred, D, Len(deferred))
        /\ timers' \in Seq(Timer) /\ Len(timers') = Len(timers) + n
        /\ \A k \in 1 .. Len(timers) : timers'[k] = timers[k]
        /\ \A i \in 1 .. n : timers'[Len(timers) + i] = [id |-> id[i], view |-> starting[i]]
        /\ \A v \in Views : ~Contains(starting, v) => fadeWatchers'[v] = fadeWatchers[v]
        /\ \A v \in Views : Contains(starting, v) =>
             \E i \in 1 .. n : starting[i] = v /\ fadeWatchers'[v] = id[i]
    BY <2>1 DEF Started
  <2> HIDE DEF n, D
  <2>3. timers \in Seq(Timer) /\ Len(timers) \in Nat BY TypesOfSequences DEF AlertsInv
  <2>4. NoStray BY <1>1, <2>3, StrayByTimer
  <2>5. /\ \A i, j \in 1 .. Len(deferred) : deferred[i] = deferred[j] => i = j
        /\ \A v : Contains(deferred, v) => fadeWatchers[v] = Null /\ over # v
    BY <1>1 DEF WaitsOnce, Contains
  <2>6. \A i, j \in 1 .. n : starting[i] = starting[j] => i = j
    <3>1. PICK h \in [1 .. n -> 1 .. Len(deferred)] :
            /\ \A i, j \in 1 .. n : i < j => h[i] < h[j]
            /\ \A i \in 1 .. n : starting[i] = deferred[h[i]]
      BY ONLY <2>2 DEF Embeds, n
    <3>0. n \in Nat /\ Len(deferred) \in Nat BY <2>2, TypesOfSequences DEF AlertsInv
    <3>2. \A i, j \in 1 .. n : h[i] = h[j] => i = j BY ONLY <3>0, <3>1, RisingIsApart
    <3>3. \A i, j \in 1 .. n : starting[i] = starting[j] => h[i] = h[j] BY <2>5, <3>1
    <3> QED BY <3>2, <3>3
  <2>7. \A i \in 1 .. n : Contains(starting, starting[i]) BY DEF Contains, n
  <2>8. ASSUME NEW k \in 1 .. Len(timers')
        PROVE  fadeWatchers'[timers'[k].view] = timers'[k].id /\ over # timers'[k].view
    <3>1. CASE k \in 1 .. Len(timers)
      <4>1. timers'[k] = timers[k] /\ timers[k] \in Timer /\ Contains(timers, timers[k])
        BY <2>2, <2>3, <3>1 DEF Contains
      <4>2. fadeWatchers[timers[k].view] = timers[k].id /\ over # timers[k].view
        BY <2>4, <4>1 DEF NoStray
      <4>3. timers[k].view \in Views /\ timers[k].id # Null BY <4>1 DEF Timer
      <4>4. ~Contains(starting, timers[k].view) BY <2>2, <2>5, <4>2, <4>3
      <4> QED BY <2>2, <4>1, <4>2, <4>3, <4>4
    <3>2. CASE k \notin 1 .. Len(timers)
      <4>1. k - Len(timers) \in 1 .. n /\ k = Len(timers) + (k - Len(timers))
        BY <2>2, <2>3, <3>2
      <4>2. PICK i \in 1 .. n : k = Len(timers) + i BY <4>1
      <4>3. timers'[k] = [id |-> id[i], view |-> starting[i]] BY <2>2, <4>2
      <4>4. Contains(starting, starting[i]) /\ starting[i] \in Views BY <2>2, <2>7
      <4>5. PICK j \in 1 .. n : starting[j] = starting[i] /\ fadeWatchers'[starting[i]] = id[j]
        BY <2>2, <4>4
      <4>6. i = j BY <2>6, <4>5
      <4>7. over # starting[i] BY <2>2, <2>5, <4>4
      <4> QED BY <4>3, <4>5, <4>6, <4>7
    <3> QED BY <3>1, <3>2
  <2>9. ASSUME NEW t \in Timer, Contains(timers', t)
        PROVE  fadeWatchers'[t.view] = t.id /\ over' # t.view
    BY <1>2, <2>8, <2>9 DEF Contains
  <2> QED BY <2>2, <2>9, NoStrayAgain
<1> QED BY <1>3, <1>4, <1>5 DEF CalmInv

LEMMA CalmRequest ==
  ASSUME Calm, AlertsInv, CalmInv, AlertsInv',
         NEW a \in Alerts, NEW h \in Handles, RequestDisplay(a, h)
  PROVE  CalmInv'
<1> USE NullIsNone
<1>1. WaitsOnce /\ AskedForOnce /\ ShownIsDisplayed /\ NoStrayTimer BY DEF CalmInv
<1>2. PICK v \in Views : Requested(a, h, v) BY RequestedOn
<1>3. viewOf[h] = Null /\ (a \in Fading => displayedAlerts[a] = Null) BY DEF RequestDisplay
<1>4. /\ AppearsOn(a, v) /\ Unfaded(v) /\ over' = over
      /\ viewOf' = [viewOf EXCEPT ![h] = v]
      /\ \/ a \in Fading /\ deferred' = deferred \o [i \in 1 .. 1 |-> v]
         \/ a \notin Fading /\ deferred' = deferred
  BY <1>2 DEF Requested
<1>5. /\ \A u : Contains(view', u) <=> Contains(view, u) \/ u = v
      /\ \A u \in Views : alertOf'[u] = IF u = v THEN a ELSE alertOf[u]
      /\ \A u \in Views : alertOf[u] # Null => alertOf'[u] = alertOf[u]
      /\ \A b \in Alerts : displayedAlerts'[b] = IF b = a THEN v ELSE displayedAlerts[b]
      /\ displayedAlerts[a] = v \/ (displayedAlerts[a] = Null /\ alertOf[v] = Null)
  BY <1>4 DEF AppearsOn
<1>6. /\ view \in Seq(Views) /\ deferred \in Seq(Views) /\ timers \in Seq(Timer)
      /\ \A u : Contains(view, u) => u \in Views /\ alertOf[u] \in Alerts
      /\ \A u : Contains(deferred, u) => u \in Views /\ alertOf[u] \in Alerts
      /\ viewOf \in [Handles -> Views \union {Null}]
      /\ over # Null => Contains(view, over)
  BY TypesOfSequences DEF AlertsInv, TypeOK
<1>7. a \in Fading => alertOf[v] = Null BY <1>3, <1>5
<1>8. ShownIsDisplayed'
  <2>1. SUFFICES ASSUME NEW u \in Views, Contains(view', u) PROVE displayedAlerts'[alertOf'[u]] = u
    BY DEF ShownIsDisplayed
  <2>2. CASE u = v BY <1>5, <2>2
  <2>3. CASE u # v
    <3>1. Contains(view, u) /\ alertOf'[u] = alertOf[u] /\ alertOf[u] \in Alerts BY <1>5, <1>6, <2>1, <2>3
    <3>2. displayedAlerts[alertOf[u]] = u BY <1>1, <3>1 DEF ShownIsDisplayed
    <3>3. alertOf[u] # a BY <1>5, <2>3, <3>2
    <3> QED BY <1>5, <3>1, <3>2, <3>3
  <2> QED BY <2>2, <2>3
<1>9. NoStrayTimer'
  <2>1. ASSUME NEW t \in Timer, Contains(timers', t)
        PROVE  fadeWatchers'[t.view] = t.id /\ over' # t.view
    BY <1>4, <2>1, UnfadedStrays
  <2>2. timers' \in Seq(Timer) BY <1>4 DEF Unfaded
  <2> QED BY <2>1, <2>2, NoStrayAgain
<1>10. AskedForOnce'
  <2>1. GivenOut' = GivenOut \union {h} /\ h \notin GivenOut /\ viewOf'[h] = v
        /\ \A g \in GivenOut : viewOf'[g] = viewOf[g] /\ viewOf[g] \in Views
    BY <1>3, <1>4, <1>6 DEF GivenOut
  <2>2. \A g \in GivenOut : alertOf[viewOf[g]] # Null /\ alertOf'[viewOf[g]] = alertOf[viewOf[g]]
    BY <1>1, <1>5, <2>1 DEF AskedForOnce
  <2>3. alertOf'[v] = a /\ a # Null BY <1>5
  <2>4. \A g \in GivenOut' : alertOf'[viewOf'[g]] # Null BY <2>1, <2>2, <2>3
  <2>5. ASSUME NEW g \in GivenOut, viewOf[g] = v, a \in Fading PROVE FALSE
    BY <1>7, <2>2, <2>5
  <2>6. ASSUME NEW f \in GivenOut', NEW g \in GivenOut', viewOf'[f] = viewOf'[g],
               alertOf'[viewOf'[f]] \in Fading
        PROVE  f = g
    <3>1. CASE f = h /\ g = h BY <3>1
    <3>2. CASE f = h /\ g # h
      <4>1. g \in GivenOut /\ viewOf[g] = v /\ a \in Fading BY <2>1, <2>3, <2>6, <3>2
      <4> QED BY <2>5, <4>1
    <3>3. CASE f # h /\ g = h
      <4>1. f \in GivenOut /\ viewOf[f] = v /\ a \in Fading BY <2>1, <2>3, <2>6, <3>3
      <4> QED BY <2>5, <4>1
    <3>4. CASE f # h /\ g # h
      <4>1. /\ f \in GivenOut /\ g \in GivenOut /\ viewOf[f] = viewOf[g]
            /\ alertOf[viewOf[f]] \in Fading
        BY <2>1, <2>2, <2>6, <3>4
      <4> QED BY <1>1, <4>1 DEF AskedForOnce
    <3> QED BY <3>1, <3>2, <3>3, <3>4
  <2> QED BY <2>4, <2>6 DEF AskedForOnce
<1>11. WaitsOnce'
  <2>1. /\ \A i, j \in 1 .. Len(deferred) : deferred[i] = deferred[j] => i = j
        /\ \A i \in 1 .. Len(deferred) : fadeWatchers[deferred[i]] = Null /\ over # deferred[i]
        /\ \A i \in 1 .. Len(deferred) : deferred[i] \in Views /\ alertOf[deferred[i]] # Null
    <3>1. \A i \in 1 .. Len(deferred) : Contains(deferred, deferred[i]) BY DEF Contains
    <3>2. \A u : Contains(deferred, u) => u \in Views /\ alertOf[u] # Null BY <1>6
    <3> QED BY <1>1, <3>1, <3>2 DEF WaitsOnce
  <2>2. \A u \in Views : fadeWatchers'[u] = IF u = v THEN Null ELSE fadeWatchers[u]
    BY <1>4 DEF Unfaded
  <2>3. CASE a \notin Fading /\ deferred' = deferred
    BY <1>4, <2>1, <2>2, <2>3 DEF WaitsOnce
  <2>4. CASE a \in Fading /\ deferred' = deferred \o [i \in 1 .. 1 |-> v]
    <3> DEFINE t == [i \in 1 .. 1 |-> v]
               n == Len(deferred)
    <3>1. t \in Seq(Views) /\ Len(t) = 1 /\ t[1] = v OBVIOUS
    <3>2. deferred' = deferred \o t BY <2>4
    <3> HIDE DEF t
    <3>3. /\ n \in Nat /\ Len(deferred') = n + 1 /\ deferred'[n + 1] = v
          /\ \A i \in 1 .. n : deferred'[i] = deferred[i]
      <4>1. deferred \in Seq(Views) /\ t \in Seq(Views) BY <1>6, <3>1
      <4>2. /\ n \in Nat /\ Len(deferred \o t) = n + Len(t)
            /\ \A i \in 1 .. n : (deferred \o t)[i] = deferred[i]
            /\ \A i \in 1 .. Len(t) : (deferred \o t)[n + i] = t[i]
        BY <4>1
      <4>3. 1 \in 1 .. Len(t) BY <3>1
      <4> HIDE DEF n
      <4> QED BY <3>1, <3>2, <4>2, <4>3
    <3>4. ~Contains(view, v) /\ over # v
      <4>1. alertOf[v] = Null BY <1>7, <2>4
      <4> QED BY <1>6, <4>1
    <3>5. \A i \in 1 .. n : deferred[i] # v BY <1>7, <2>1, <2>4
    <3> HIDE DEF n
    <3>6. \A i \in 1 .. n + 1 : i \in 1 .. n \/ i = n + 1 BY <3>3
    <3>7. \A i, j \in 1 .. n + 1 : deferred'[i] = deferred'[j] => i = j
      <4>1. \A i, j \in 1 .. n : deferred[i] = deferred[j] => i = j BY <2>1 DEF n
      <4> QED BY <3>3, <3>5, <3>6, <4>1
    <3>8. \A i \in 1 .. n + 1 : fadeWatchers'[deferred'[i]] = Null /\ over' # deferred'[i]
      <4>1. \A i \in 1 .. n : fadeWatchers'[deferred[i]] = Null /\ over # deferred[i]
        BY <2>1, <2>2 DEF n
      <4>2. fadeWatchers'[v] = Null BY <2>2
      <4> QED BY <1>4, <3>3, <3>4, <3>6, <4>1, <4>2
    <3> QED BY <3>3, <3>7, <3>8 DEF WaitsOnce
  <2> QED BY <1>4, <2>3, <2>4
<1> QED BY <1>8, <1>9, <1>10, <1>11 DEF CalmInv

LEMMA CalmInvariant == Spec => []CalmInv
<1>1. Init => CalmInv
  <2> SUFFICES ASSUME Init PROVE CalmInv OBVIOUS
  <2>1. Len(view) = 0 /\ Len(deferred) = 0 /\ DOMAIN timers = {} BY DEF Init
  <2>2. \A u : ~Contains(view, u) BY <2>1 DEF Contains
  <2>3. GivenOut = {} BY DEF Init, GivenOut
  <2> QED BY <2>1, <2>2, <2>3 DEF CalmInv, WaitsOnce, AskedForOnce, ShownIsDisplayed, NoStrayTimer
<1>2. AlertsInv /\ AlertsInv' /\ CalmInv /\ [Next]_vars => CalmInv'
  <2> SUFFICES ASSUME AlertsInv, AlertsInv', CalmInv, [Next]_vars PROVE CalmInv' OBVIOUS
  <2>1. CASE ~Calm BY <2>1 DEF CalmInv
  <2>2. CASE Calm /\ Next
    BY <2>2, CalmCancels, CalmRequest, CalmMouse, CalmRunDeferred DEF Next
  <2>3. CASE UNCHANGED vars
    BY <2>3 DEF vars, CalmInv, WaitsOnce, AskedForOnce, GivenOut, ShownIsDisplayed, NoStrayTimer
  <2> QED BY <2>1, <2>2, <2>3
<1> QED BY <1>1, <1>2, AlertsInvariant, PTL DEF Spec

\* With a calm client no timer is outstanding that fadeWatchers does not know, nor
\* one of a view under the mouse: nothing but its own timer fades an alert.
THEOREM CalmHasNoStrays == Spec => []NoStrayTimer
<1>1. CalmInv => NoStrayTimer BY DEF CalmInv, NoStrayTimer
<1> QED BY <1>1, CalmInvariant, PTL

-----------------------------------------------------------------------------
(* The board that callers and the user see. *)

Mapped(s, m) == [i \in DOMAIN s |-> m[s[i]]]

\* Showing the views' alerts commutes with taking a view away and putting one in.
LEMMA MappedRemoval ==
  ASSUME NEW A, NEW s \in Seq(A), NEW m, NEW p \in 1 .. Len(s)
  PROVE  Mapped(RemoveAt(s, p), m) = RemoveAt(Mapped(s, m), p)
<1> DEFINE B == {m[o] : o \in A}
           n == Len(s)
           r == RemoveAt(s, p)
           t == Mapped(s, m)
           x == Mapped(r, m)
           y == RemoveAt(t, p)
<1>1. /\ r \in Seq(A) /\ n \in Nat /\ Len(r) = n - 1
      /\ \A k \in 1 .. n - 1 : r[k] = IF k < p THEN s[k] ELSE s[k + 1]
  BY RemoveAtProperties
<1>2. \A k \in 1 .. n : s[k] \in A OBVIOUS
<1>3. DOMAIN s = 1 .. n OBVIOUS
<1>b. \A o \in A : m[o] \in B OBVIOUS
<1> HIDE DEF B, n
<1>4. t = [i \in 1 .. n |-> m[s[i]]] BY <1>3 DEF Mapped
<1>5. \A i \in 1 .. n : m[s[i]] \in B BY <1>2, <1>b
<1>6. t \in Seq(B) /\ Len(t) = n /\ \A i \in 1 .. n : t[i] = m[s[i]]
  <2>1. t \in [1 .. n -> B] /\ \A i \in 1 .. n : t[i] = m[s[i]] BY <1>4, <1>5
  <2> HIDE DEF t
  <2> QED BY <1>1, <2>1
<1> HIDE DEF r, t
<1>7. DOMAIN r = 1 .. n - 1 /\ \A i \in 1 .. n - 1 : r[i] \in A BY <1>1
<1>8. x = [i \in 1 .. n - 1 |-> m[r[i]]] BY <1>7 DEF Mapped
<1>9. \A i \in 1 .. n - 1 : m[r[i]] \in B BY <1>7, <1>b
<1>10. x \in Seq(B) /\ Len(x) = n - 1 /\ \A i \in 1 .. n - 1 : x[i] = m[r[i]]
  <2>1. x \in [1 .. n - 1 -> B] /\ \A i \in 1 .. n - 1 : x[i] = m[r[i]] BY <1>8, <1>9
  <2>2. n - 1 \in Nat
    <3>1. p \in 1 .. n BY DEF n
    <3> QED BY <1>1, <3>1
  <2> HIDE DEF x
  <2> QED BY <2>1, <2>2
<1>11. p \in 1 .. Len(t) BY <1>6 DEF n
<1>12. /\ y \in Seq(B) /\ Len(y) = n - 1
       /\ \A k \in 1 .. n - 1 : y[k] = IF k < p THEN t[k] ELSE t[k + 1]
  <2>1. /\ RemoveAt(t, p) \in Seq(B) /\ Len(RemoveAt(t, p)) = Len(t) - 1
        /\ \A k \in 1 .. Len(t) - 1 : RemoveAt(t, p)[k] = IF k < p THEN t[k] ELSE t[k + 1]
    BY <1>6, <1>11, RemoveAtProperties
  <2> QED BY <1>6, <2>1
<1> HIDE DEF x, y
<1>13. \A k \in 1 .. n - 1 : x[k] = y[k]
  <2> TAKE k \in 1 .. n - 1
  <2>1. k \in 1 .. n /\ k + 1 \in 1 .. n BY <1>1
  <2>2. x[k] = m[IF k < p THEN s[k] ELSE s[k + 1]] BY <1>1, <1>10
  <2>3. y[k] = IF k < p THEN t[k] ELSE t[k + 1] BY <1>12
  <2>4. t[k] = m[s[k]] /\ t[k + 1] = m[s[k + 1]] BY <1>6, <2>1
  <2> QED BY <2>2, <2>3, <2>4
<1>14. x = y BY <1>10, <1>12, <1>13, SeqEqual
<1> QED BY <1>14 DEF x, y, r, t

LEMMA MappedInsertion ==
  ASSUME NEW A, NEW s \in Seq(A), NEW m, NEW e \in A, NEW p \in 1 .. Len(s) + 1
  PROVE  Mapped(InsertAt(s, p, e), m) = InsertAt(Mapped(s, m), p, m[e])
<1> DEFINE B == {m[o] : o \in A}
           n == Len(s)
           r == InsertAt(s, p, e)
           t == Mapped(s, m)
           x == Mapped(r, m)
           f == m[e]
           y == InsertAt(t, p, f)
<1>1. /\ r \in Seq(A) /\ n \in Nat /\ Len(r) = n + 1
      /\ \A k \in 1 .. n + 1 : r[k] = IF k < p THEN s[k] ELSE IF k = p THEN e ELSE s[k - 1]
  BY InsertAtProperties
<1>2. \A k \in 1 .. n : s[k] \in A OBVIOUS
<1>3. DOMAIN s = 1 .. n OBVIOUS
<1>p. p \in 1 .. n + 1 OBVIOUS
<1>b. \A o \in A : m[o] \in B OBVIOUS
<1> HIDE DEF B, n
<1>4. t = [i \in 1 .. n |-> m[s[i]]] BY <1>3 DEF Mapped
<1>5. \A i \in 1 .. n : m[s[i]] \in B BY <1>2, <1>b
<1>6. t \in Seq(B) /\ Len(t) = n /\ \A i \in 1 .. n : t[i] = m[s[i]]
  <2>1. t \in [1 .. n -> B] /\ \A i \in 1 .. n : t[i] = m[s[i]] BY <1>4, <1>5
  <2> HIDE DEF t
  <2> QED BY <1>1, <2>1
<1> HIDE DEF r, t
<1>7. DOMAIN r = 1 .. n + 1 /\ \A i \in 1 .. n + 1 : r[i] \in A BY <1>1
<1>8. x = [i \in 1 .. n + 1 |-> m[r[i]]] BY <1>7 DEF Mapped
<1>9. \A i \in 1 .. n + 1 : m[r[i]] \in B BY <1>7, <1>b
<1>10. x \in Seq(B) /\ Len(x) = n + 1 /\ \A i \in 1 .. n + 1 : x[i] = m[r[i]]
  <2>1. x \in [1 .. n + 1 -> B] /\ \A i \in 1 .. n + 1 : x[i] = m[r[i]] BY <1>8, <1>9
  <2>2. n + 1 \in Nat BY <1>1
  <2> HIDE DEF x
  <2> QED BY <2>1, <2>2
<1>11. p \in 1 .. Len(t) + 1 /\ f \in B BY <1>6, <1>b, <1>p
<1> HIDE DEF f
<1>12. /\ y \in Seq(B) /\ Len(y) = n + 1
       /\ \A k \in 1 .. n + 1 : y[k] = IF k < p THEN t[k] ELSE IF k = p THEN f ELSE t[k - 1]
  <2>1. /\ InsertAt(t, p, f) \in Seq(B) /\ Len(InsertAt(t, p, f)) = Len(t) + 1
        /\ \A k \in 1 .. Len(t) + 1 :
             InsertAt(t, p, f)[k] = IF k < p THEN t[k] ELSE IF k = p THEN f ELSE t[k - 1]
    <3>1. t \in Seq(B) /\ p \in 1 .. Len(t) + 1 /\ f \in B BY <1>6, <1>11
    <3> QED BY ONLY <3>1, InsertAtProperties
  <2> QED BY <1>6, <2>1
<1> HIDE DEF x, y
<1>13. \A k \in 1 .. n + 1 : x[k] = y[k]
  <2> TAKE k \in 1 .. n + 1
  <2>1. CASE k < p
    <3>1. k \in 1 .. n BY <1>1, <1>p, <2>1
    <3>2. x[k] = m[s[k]] BY <1>1, <1>10, <2>1
    <3>3. y[k] = t[k] BY <1>12, <2>1
    <3> QED BY <1>6, <3>1, <3>2, <3>3
  <2>2. CASE k = p BY <1>1, <1>p, <1>10, <1>12, <2>2 DEF f
  <2>3. CASE k > p
    <3>1. k - 1 \in 1 .. n /\ ~(k < p) /\ k # p BY <1>1, <1>p, <2>3
    <3>2. x[k] = m[s[k - 1]] BY <1>1, <1>10, <3>1
    <3>3. y[k] = t[k - 1] BY <1>12, <3>1
    <3>4. t[k - 1] = m[s[k - 1]] BY <1>6, <3>1
    <3> QED BY <3>2, <3>3, <3>4
  <2> QED BY <1>1, <1>p, <2>1, <2>2, <2>3
<1>14. x = y BY <1>10, <1>12, <1>13, SeqEqual
<1> QED BY <1>14 DEF x, y, r, t, f

\* What calm makes of the mapping: every alert is on the board once, by the view
\* that displayedAlerts has for it.
LEMMA BoardFacts ==
  ASSUME Calm, AlertsInv, CalmInv
  PROVE  /\ ShownAlerts \in Seq(Alerts) /\ Len(ShownAlerts) = Len(view)
         /\ \A i \in 1 .. Len(view) : ShownAlerts[i] = alertOf[view[i]]
         /\ \A i, j \in 1 .. Len(view) : ShownAlerts[i] = ShownAlerts[j] => i = j
         /\ \A a \in Alerts : Contains(ShownAlerts, a) <=> displayedAlerts[a] # Null
<1> USE NullIsNone
<1>1. /\ view \in Seq(Views) /\ Distinct(view)
      /\ \A u : Contains(view, u) => u \in Views /\ alertOf[u] \in Alerts
      /\ displayedAlerts \in [Alerts -> Views \union {Null}]
  BY TypesOfSequences DEF AlertsInv, TypeOK
<1> DEFINE n == Len(view)
<1>2. n \in Nat /\ DOMAIN view = 1 .. n /\ \A i \in 1 .. n : Contains(view, view[i])
  BY <1>1 DEF Contains
<1> HIDE DEF n
<1>3. ShownAlerts = [i \in 1 .. n |-> alertOf[view[i]]] BY <1>2 DEF ShownAlerts
<1>4. \A i \in 1 .. n : alertOf[view[i]] \in Alerts /\ view[i] \in Views BY <1>1, <1>2
<1>5. ShownAlerts \in [1 .. n -> Alerts] /\ \A i \in 1 .. n : ShownAlerts[i] = alertOf[view[i]]
  BY <1>3, <1>4
<1>6. ShownAlerts \in Seq(Alerts) /\ Len(ShownAlerts) = n BY <1>2, <1>5
<1>7. \A i \in 1 .. n : displayedAlerts[alertOf[view[i]]] = view[i]
  BY <1>2, <1>4 DEF CalmInv, ShownIsDisplayed
<1>8. \A i, j \in 1 .. n : ShownAlerts[i] = ShownAlerts[j] => i = j
  <2>1. \A i, j \in 1 .. n : ShownAlerts[i] = ShownAlerts[j] => view[i] = view[j] BY <1>5, <1>7
  <2> QED BY <1>1, <2>1 DEF Distinct, n
<1>9. ASSUME NEW a \in Alerts, Contains(ShownAlerts, a) PROVE displayedAlerts[a] # Null
  <2>1. PICK i \in 1 .. n : ShownAlerts[i] = a BY <1>6, <1>9 DEF Contains
  <2> QED BY <1>4, <1>5, <1>7, <2>1
<1>10. ASSUME NEW a \in Alerts, displayedAlerts[a] # Null PROVE Contains(ShownAlerts, a)
  <2>1. displayedAlerts[a] \in Views /\ alertOf[displayedAlerts[a]] = a
    BY <1>1, <1>10 DEF AlertsInv, DisplayedTheirs
  <2>2. Contains(view, displayedAlerts[a]) BY <2>1 DEF AlertsInv, ShownWhileRequested
  <2>3. PICK i \in 1 .. n : view[i] = displayedAlerts[a] BY <2>2 DEF Contains, n
  <2> QED BY <1>5, <1>6, <2>1, <2>3 DEF Contains
<1> QED BY <1>5, <1>6, <1>8, <1>9, <1>10 DEF n

LEMMA HoldersAre ==
  ASSUME displayedAlerts \in [Alerts -> Views \union {Null}], NEW a \in Alerts
  PROVE  KeptBy[a] = IF displayedAlerts[a] = Null THEN {} ELSE displayRequests[displayedAlerts[a]]
BY NullIsNone DEF KeptBy

LEMMA HoldersBecome ==
  ASSUME displayedAlerts' \in [Alerts -> Views \union {Null}], NEW a \in Alerts
  PROVE  KeptBy'[a] = IF displayedAlerts'[a] = Null THEN {} ELSE displayRequests'[displayedAlerts'[a]]
BY NullIsNone DEF KeptBy

\* AlertBoard's operators on sequences are those of this module.
LEMMA BoardsOperators ==
  /\ \A s, e : Board!RemoveFirst(s, e) = RemoveFirst(s, e)
  /\ \A s, e : Board!Contains(s, e) <=> Contains(s, e)
  /\ \A s, p, e : Board!InsertAt(s, p, e) = InsertAt(s, p, e)
<1>1. \A s, p : Board!RemoveAt(s, p) = RemoveAt(s, p) BY DEF Board!RemoveAt, RemoveAt
<1>2. \A S : Board!Min(S) = Min(S) BY DEF Board!Min, Min
<1>3. \A s, e : Board!RemoveFirst(s, e) = RemoveFirst(s, e)
  BY <1>1, <1>2 DEF Board!RemoveFirst, RemoveFirst, Board!SelectInSeq, SelectInSeq
<1> QED BY <1>3 DEF Board!Contains, Contains, Board!InsertAt, InsertAt

\* A view that is cancelled takes its alert down from the board.
LEMMA AlertIsTakenDown ==
  ASSUME Calm, AlertsInv, AlertsInv', CalmInv, NEW v \in Views, Contains(view, v), NEW ts,
         CancelAlert(v, ts), UNCHANGED <<alertOf, viewOf>>
  PROVE  Board!TakeDown(alertOf[v]) /\ Contains(ShownAlerts, alertOf[v]) /\ alertOf[v] \in Alerts
<1> USE NullIsNone
<1> DEFINE a == alertOf[v]
<1>1. /\ view \in Seq(Views) /\ Distinct(view)
      /\ \A u : Contains(view, u) => u \in Views /\ alertOf[u] \in Alerts
      /\ displayedAlerts \in [Alerts -> Views \union {Null}]
      /\ displayedAlerts' \in [Alerts -> Views \union {Null}]
      /\ displayRequests \in [Views -> SUBSET Handles]
      /\ alertOf \in [Views -> Alerts \union {Null}]
      /\ over \in Views \union {Null} /\ (over # Null => Contains(view, over))
  BY TypesOfSequences DEF AlertsInv, TypeOK
<1>2. a \in Alerts /\ displayedAlerts[a] = v BY <1>1 DEF CalmInv, ShownIsDisplayed
<1>3. /\ displayRequests' = [displayRequests EXCEPT ![v] = {}]
      /\ view' = RemoveFirst(view, v)
      /\ displayedAlerts' = [displayedAlerts EXCEPT ![a] = Null]
      /\ over' = IF over = v THEN Null ELSE over
  BY DEF CancelAlert
<1>4. /\ ShownAlerts \in Seq(Alerts) /\ Len(ShownAlerts) = Len(view)
      /\ \A i \in 1 .. Len(view) : ShownAlerts[i] = alertOf[view[i]]
      /\ \A i, j \in 1 .. Len(view) : ShownAlerts[i] = ShownAlerts[j] => i = j
      /\ \A b \in Alerts : Contains(ShownAlerts, b) <=> displayedAlerts[b] # Null
  BY BoardFacts
<1>5. Contains(ShownAlerts, a) BY <1>2, <1>4
<1>6. ShownAlerts' = RemoveFirst(ShownAlerts, a)
  <2>1. PICK p \in 1 .. Len(view) : view[p] = v /\ RemoveFirst(view, v) = RemoveAt(view, p)
    <3>1. v \in ToSet(view)
      <4>1. DOMAIN view = 1 .. Len(view) BY <1>1
      <4> QED BY <4>1 DEF Contains, ToSet
    <3> QED BY <1>1, <3>1, RemoveFirstProperties
  <2>2. PICK q \in 1 .. Len(ShownAlerts) : ShownAlerts[q] = a /\ RemoveFirst(ShownAlerts, a) = RemoveAt(ShownAlerts, q)
    <3>1. a \in ToSet(ShownAlerts)
      <4>1. DOMAIN ShownAlerts = 1 .. Len(ShownAlerts) BY <1>4
      <4> QED BY <1>5, <4>1 DEF Contains, ToSet
    <3> QED BY <1>4, <3>1, RemoveFirstProperties
  <2>3. p = q BY <1>4, <2>1, <2>2
  <2>4. Mapped(RemoveAt(view, p), alertOf) = RemoveAt(Mapped(view, alertOf), p)
    <3>1. view \in Seq(Views) /\ p \in 1 .. Len(view) BY <1>1
    <3> QED BY ONLY <3>1, MappedRemoval
  <2>5. ShownAlerts = Mapped(view, alertOf) /\ ShownAlerts' = Mapped(view', alertOf)
    BY DEF ShownAlerts, Mapped
  <2> HIDE DEF a
  <2> QED BY <1>3, <2>1, <2>2, <2>3, <2>4, <2>5
<1> HIDE DEF a
<1>7. KeptBy' = [KeptBy EXCEPT ![a] = {}]
  <2>1. ASSUME NEW b \in Alerts PROVE KeptBy'[b] = IF b = a THEN {} ELSE KeptBy[b]
    <3>1. CASE b = a
      <4>1. displayedAlerts'[b] = Null BY <1>1, <1>2, <1>3, <3>1
      <4> QED BY <1>1, <3>1, <4>1, HoldersBecome
    <3>2. CASE b # a
      <4>1. displayedAlerts'[b] = displayedAlerts[b] BY <1>1, <1>3, <3>2
      <4>2. displayedAlerts[b] # v BY <3>2 DEF AlertsInv, DisplayedTheirs, a
      <4>3. displayedAlerts[b] # Null =>
              displayRequests'[displayedAlerts[b]] = displayRequests[displayedAlerts[b]]
        BY <1>1, <1>3, <4>2
      <4> QED BY <1>1, <3>2, <4>1, <4>3, HoldersAre, HoldersBecome
    <3> QED BY <3>1, <3>2
  <2>2. DOMAIN KeptBy = Alerts /\ DOMAIN KeptBy' = Alerts BY DEF KeptBy
  <2>3. KeptBy = [b \in Alerts |-> KeptBy[b]] /\ KeptBy' = [b \in Alerts |-> KeptBy'[b]]
    BY DEF KeptBy
  <2> QED BY <1>2, <2>1, <2>2, <2>3
<1>8. GivenOut' = GivenOut BY DEF GivenOut
<1>9. PointedAt' = IF PointedAt = a THEN Null ELSE PointedAt
  <2>1. CASE over = Null BY <1>3, <2>1 DEF PointedAt
  <2>2. CASE over = v BY <1>2, <1>3, <2>2 DEF PointedAt, a
  <2>3. CASE over # Null /\ over # v
    <3>1. displayedAlerts[alertOf[over]] = over BY <1>1, <2>3 DEF CalmInv, ShownIsDisplayed
    <3>2. alertOf[over] # a BY <1>2, <2>3, <3>1
    <3> QED BY <1>3, <2>3, <3>2 DEF PointedAt
  <2> QED BY <2>1, <2>2, <2>3
<1>10. Board!TakeDown(a)
  BY <1>6, <1>7, <1>8, <1>9, BoardsOperators DEF Board!TakeDown
<1> QED BY <1>2, <1>5, <1>10 DEF a

\* Without another alert's view, fading, waiting and timers, nothing is seen.
LEMMA NothingSeen ==
  ASSUME UNCHANGED <<displayedAlerts, displayRequests, view, alertOf, viewOf, over>>
  PROVE  UNCHANGED <<ShownAlerts, KeptBy, GivenOut, PointedAt>>
BY DEF ShownAlerts, KeptBy, GivenOut, PointedAt

LEMMA CancelIsSeen ==
  ASSUME Calm, AlertsInv, AlertsInv', CalmInv, NEW h \in Handles, CancelHandle(h)
  PROVE  [Board!Next]_Board!vars
<1> USE NullIsNone
<1> DEFINE v == viewOf[h]
           a == alertOf[v]
<1>1. /\ v \in Views
      /\ displayRequests \in [Views -> SUBSET Handles]
      /\ displayedAlerts \in [Alerts -> Views \union {Null}]
      /\ displayedAlerts' \in [Alerts -> Views \union {Null}]
      /\ \A u : Contains(view, u) => u \in Views /\ alertOf[u] \in Alerts
  BY TypesOfSequences DEF AlertsInv, TypeOK, CancelHandle
<1>2. UNCHANGED <<alertOf, viewOf, fade, deferred>> BY DEF CancelHandle
<1> HIDE DEF v
<1>3. CASE h \notin displayRequests[v]
  <2>1. UNCHANGED vars BY <1>3, CancelStaysLocal DEF AlertsInv, v
  <2> QED BY <2>1, NothingSeen DEF vars, Board!vars
<1>4. CASE h \in displayRequests[v]
  <2>1. Contains(view, v) BY <1>1, <1>4 DEF AlertsInv, ShownWhileRequested
  <2>2. a \in Alerts /\ displayedAlerts[a] = v BY <1>1, <2>1 DEF CalmInv, ShownIsDisplayed
  <2>3. KeptBy[a] = displayRequests[v] BY <1>1, <2>2, HoldersAre
  <2>4. CASE RemovesLast(v, h) /\ CancelAlert(v, timers)
    <3>1. Board!TakeDown(a) BY <1>1, <1>2, <2>1, <2>4, AlertIsTakenDown
    <3>2. KeptBy[a] = {h} BY <2>3, <2>4 DEF RemovesLast
    <3>3. Board!Cancel(a, h) BY <3>1, <3>2 DEF Board!Cancel
    <3> QED BY <2>2, <3>3 DEF Board!Next
  <2>5. CASE /\ ~RemovesLast(v, h)
             /\ displayRequests' = [displayRequests EXCEPT ![v] = @ \ {h}]
             /\ UNCHANGED <<displayedAlerts, fadeWatchers, view, timers, over>>
    <3>1. KeptBy' = [KeptBy EXCEPT ![a] = @ \ {h}]
      <4>1. ASSUME NEW b \in Alerts PROVE KeptBy'[b] = IF b = a THEN KeptBy[a] \ {h} ELSE KeptBy[b]
        <5>1. CASE b = a
          <6>1. displayedAlerts'[b] = v BY <2>2, <2>5, <5>1
          <6>2. KeptBy'[b] = displayRequests'[v] BY <1>1, <6>1, HoldersBecome
          <6> QED BY <1>1, <2>3, <2>5, <5>1, <6>2
        <5>2. CASE b # a
          <6>1. displayedAlerts[b] # v BY <1>1, <5>2 DEF AlertsInv, DisplayedTheirs, a
          <6>2. displayedAlerts[b] # Null =>
                  displayRequests'[displayedAlerts[b]] = displayRequests[displayedAlerts[b]]
            BY <1>1, <2>5, <6>1
          <6> QED BY <1>1, <2>5, <5>2, <6>2, HoldersAre, HoldersBecome
        <5> QED BY <5>1, <5>2
      <4>2. KeptBy = [b \in Alerts |-> KeptBy[b]] /\ KeptBy' = [b \in Alerts |-> KeptBy'[b]]
        BY DEF KeptBy
      <4> HIDE DEF a
      <4> QED BY <2>2, <4>1, <4>2
    <3>2. UNCHANGED <<ShownAlerts, GivenOut, PointedAt>>
      BY <1>2, <2>5 DEF ShownAlerts, GivenOut, PointedAt
    <3>3. h \in KeptBy[a] /\ KeptBy[a] # {h} BY <1>4, <2>3, <2>5 DEF RemovesLast
    <3> HIDE DEF a
    <3>4. Board!Cancel(a, h) BY <3>1, <3>2, <3>3 DEF Board!Cancel
    <3> QED BY <2>2, <3>4 DEF Board!Next
  <2> QED BY <2>4, <2>5 DEF CancelHandle, v
<1> QED BY <1>3, <1>4

LEMMA RequestIsSeen ==
  ASSUME Calm, AlertsInv, AlertsInv', CalmInv,
         NEW a \in Alerts, NEW h \in Handles, RequestDisplay(a, h)
  PROVE  Board!Request(a, h)
<1> USE NullIsNone
<1>1. PICK v \in Views : Requested(a, h, v) BY RequestedOn
<1>2. /\ AppearsOn(a, v)
      /\ viewOf' = [viewOf EXCEPT ![h] = v]
      /\ displayRequests' = [displayRequests EXCEPT ![v] = @ \union {h}]
      /\ over' = over
  BY <1>1 DEF Requested
<1>3. /\ view' \in Seq(Views)
      /\ \A u : Contains(view', u) <=> Contains(view, u) \/ u = v
      /\ alertOf' \in [Views -> Alerts \union {Null}]
      /\ \A u \in Views : alertOf'[u] = IF u = v THEN a ELSE alertOf[u]
      /\ \A u \in Views : alertOf[u] # Null => alertOf'[u] = alertOf[u]
      /\ displayedAlerts' \in [Alerts -> Views \union {Null}]
      /\ \A b \in Alerts : displayedAlerts'[b] = IF b = a THEN v ELSE displayedAlerts[b]
      /\ \A b \in Alerts : displayedAlerts[b] = v => b = a
      /\ \/ displayedAlerts[a] = v /\ view' = view
         \/ /\ displayedAlerts[a] = Null /\ alertOf[v] = Null
            /\ \E p \in 1 .. Len(view) + 1 : view' = InsertAt(view, p, v)
  BY <1>2 DEF AppearsOn
<1>4. /\ view \in Seq(Views)
      /\ \A u : Contains(view, u) => u \in Views /\ alertOf[u] \in Alerts
      /\ displayedAlerts \in [Alerts -> Views \union {Null}]
      /\ displayRequests \in [Views -> SUBSET Handles]
      /\ viewOf \in [Handles -> Views \union {Null}]
      /\ over # Null => Contains(view, over)
  BY TypesOfSequences DEF AlertsInv, TypeOK
<1>5. viewOf[h] = Null BY DEF RequestDisplay
<1>6. /\ ShownAlerts \in Seq(Alerts) /\ Len(ShownAlerts) = Len(view)
      /\ \A i \in 1 .. Len(view) : ShownAlerts[i] = alertOf[view[i]]
      /\ \A b \in Alerts : Contains(ShownAlerts, b) <=> displayedAlerts[b] # Null
  BY BoardFacts
<1>7. h \notin GivenOut /\ GivenOut' = GivenOut \union {h} BY <1>2, <1>4, <1>5 DEF GivenOut
<1>8. KeptBy' = [KeptBy EXCEPT ![a] = @ \union {h}]
  <2>1. ASSUME NEW b \in Alerts PROVE KeptBy'[b] = IF b = a THEN KeptBy[a] \union {h} ELSE KeptBy[b]
    <3>1. CASE b = a
      <4>1. KeptBy'[b] = displayRequests[v] \union {h} BY <1>2, <1>3, <1>4, <3>1, HoldersBecome
      <4>2. CASE displayedAlerts[a] = v BY <1>4, <3>1, <4>1, <4>2, HoldersAre
      <4>3. CASE displayedAlerts[a] = Null /\ alertOf[v] = Null
        <5>1. ~Contains(view, v) BY <1>4, <4>3
        <5>2. displayRequests[v] = {} BY <5>1 DEF AlertsInv, ShownWhileRequested
        <5>3. KeptBy[a] = {} BY <1>4, <4>3, HoldersAre
        <5> QED BY <3>1, <4>1, <5>2, <5>3
      <4> QED BY <1>3, <4>2, <4>3
    <3>2. CASE b # a
      <4>1. displayedAlerts'[b] = displayedAlerts[b] /\ displayedAlerts[b] # v BY <1>3, <3>2
      <4>2. displayedAlerts[b] # Null =>
              displayRequests'[displayedAlerts[b]] = displayRequests[displayedAlerts[b]]
        BY <1>2, <1>4, <4>1
      <4> QED BY <1>3, <1>4, <3>2, <4>1, <4>2, HoldersAre, HoldersBecome
    <3> QED BY <3>1, <3>2
  <2>2. KeptBy = [b \in Alerts |-> KeptBy[b]] /\ KeptBy' = [b \in Alerts |-> KeptBy'[b]]
    BY DEF KeptBy
  <2> QED BY <2>1, <2>2
<1>9. PointedAt' = PointedAt
  <2>1. over # Null => over \in Views /\ alertOf[over] # Null BY <1>4
  <2> QED BY <1>2, <1>3, <2>1 DEF PointedAt
<1>10. Mapped(view, alertOf') = ShownAlerts /\ Mapped(view', alertOf') = ShownAlerts'
  <2>1. \A i \in 1 .. Len(view) : alertOf'[view[i]] = alertOf[view[i]]
    <3>1. \A i \in 1 .. Len(view) : Contains(view, view[i]) BY DEF Contains
    <3> QED BY <1>3, <1>4, <3>1
  <2>2. DOMAIN view = 1 .. Len(view) BY <1>4
  <2> QED BY <2>1, <2>2 DEF Mapped, ShownAlerts
<1>11. \/ Contains(ShownAlerts, a) /\ ShownAlerts' = ShownAlerts
       \/ /\ ~Contains(ShownAlerts, a)
          /\ \E p \in 1 .. Len(ShownAlerts) + 1 : ShownAlerts' = InsertAt(ShownAlerts, p, a)
          /\ Board!Sorted(ShownAlerts')
  <2>1. CASE displayedAlerts[a] = v /\ view' = view
    <3>1. ShownAlerts' = ShownAlerts BY <1>10, <2>1
    <3> QED BY <1>6, <2>1, <3>1
  <2>2. CASE /\ displayedAlerts[a] = Null /\ alertOf[v] = Null
             /\ \E p \in 1 .. Len(view) + 1 : view' = InsertAt(view, p, v)
    <3>1. PICK p \in 1 .. Len(view) + 1 : view' = InsertAt(view, p, v) BY <2>2
    <3>2. Mapped(InsertAt(view, p, v), alertOf') = InsertAt(Mapped(view, alertOf'), p, alertOf'[v])
      <4>1. view \in Seq(Views) /\ v \in Views /\ p \in 1 .. Len(view) + 1 BY <1>4
      <4> QED BY ONLY <4>1, MappedInsertion
    <3>3. alertOf'[v] = a BY <1>3
    <3>4. ShownAlerts' = InsertAt(ShownAlerts, p, a) BY <1>10, <3>1, <3>2, <3>3
    <3>5. Board!Sorted(ShownAlerts')
      <4>1. DOMAIN view' = 1 .. Len(view') BY <1>3
      <4>2. /\ DOMAIN ShownAlerts' = 1 .. Len(view')
            /\ \A i \in 1 .. Len(view') : ShownAlerts'[i] = alertOf'[view'[i]]
        BY <4>1 DEF ShownAlerts
      <4>3. \A i \in 1 .. Len(view') : alertOf'[view'[i]] \in Alerts
        <5>1. \A i \in 1 .. Len(view') : Contains(view', view'[i]) /\ view'[i] \in Views
          BY <1>3 DEF Contains
        <5> QED BY <1>3, <1>4, <5>1
      <4>4. \A i \in 1 .. Len(view') : Priority[alertOf'[view'[i]]] \in Int
        BY <4>3, AlertsAssumption
      <4>5. \A i, j \in 1 .. Len(view') : i < j =>
              \/ Priority[alertOf'[view'[i]]] > Priority[alertOf'[view'[j]]]
              \/ Priority[alertOf'[view'[i]]] = Priority[alertOf'[view'[j]]]
        BY <4>1 DEF AlertsInv, SortedByPriority
      <4>6. \A i, j \in 1 .. Len(view') : i < j =>
              Priority[ShownAlerts'[i]] >= Priority[ShownAlerts'[j]]
        <5> TAKE i, j \in 1 .. Len(view')
        <5> HAVE i < j
        <5>1. /\ ShownAlerts'[i] = alertOf'[view'[i]] /\ Priority[alertOf'[view'[i]]] \in Int
              /\ ShownAlerts'[j] = alertOf'[view'[j]] /\ Priority[alertOf'[view'[j]]] \in Int
          BY <4>2, <4>4
        <5>2. \/ Priority[alertOf'[view'[i]]] > Priority[alertOf'[view'[j]]]
              \/ Priority[alertOf'[view'[i]]] = Priority[alertOf'[view'[j]]]
          BY <4>5
        <5> QED BY ONLY <5>1, <5>2
      <4> QED BY <4>2, <4>6 DEF Board!Sorted
    <3>6. ~Contains(ShownAlerts, a) BY <1>6, <2>2
    <3>7. p \in 1 .. Len(ShownAlerts) + 1 BY <1>6
    <3> QED BY <3>4, <3>5, <3>6, <3>7
  <2> QED BY <1>3, <2>1, <2>2
<1> QED BY <1>7, <1>8, <1>9, <1>11, BoardsOperators DEF Board!Request

LEMMA MouseIsSeen ==
  ASSUME Calm, AlertsInv, AlertsInv', CalmInv, NEW v \in Views, MouseOver(v) \/ MouseOut(v)
  PROVE  Board!Next
<1> USE NullIsNone
<1>1. UNCHANGED <<displayedAlerts, displayRequests, view, alertOf, viewOf>>
  BY DEF MouseOver, MouseOut
<1>2. UNCHANGED <<ShownAlerts, KeptBy, GivenOut>> BY <1>1 DEF ShownAlerts, KeptBy, GivenOut
<1>3. \A u : Contains(view, u) => alertOf[u] \in Alerts /\ displayedAlerts[alertOf[u]] = u /\ u # Null
  BY TypesOfSequences DEF AlertsInv, CalmInv, ShownIsDisplayed
<1>4. CASE MouseOver(v)
  <2>1. Contains(view, v) /\ over = Null /\ over' = v BY <1>4 DEF MouseOver
  <2>2. alertOf[v] \in Alerts /\ PointedAt = Null /\ PointedAt' = alertOf[v]
    BY <1>1, <1>3, <2>1 DEF PointedAt
  <2>3. Contains(ShownAlerts, alertOf[v]) BY <1>3, <2>1, <2>2, BoardFacts
  <2>4. Board!Point(alertOf[v]) BY <1>2, <2>2, <2>3, BoardsOperators DEF Board!Point
  <2> QED BY <2>2, <2>4 DEF Board!Next
<1>5. CASE MouseOut(v)
  <2>1. over = v /\ over' = Null BY <1>5 DEF MouseOut
  <2>2. Contains(view, v) BY <2>1 DEF AlertsInv
  <2>3. PointedAt # Null /\ PointedAt' = Null BY <1>3, <2>1, <2>2 DEF PointedAt
  <2>4. Board!Leave BY <1>2, <2>3 DEF Board!Leave
  <2> QED BY <2>4 DEF Board!Next
<1> QED BY <1>4, <1>5

\* With a calm client every step of the controller is one of the board or none.
LEMMA BoardStep ==
  ASSUME Calm, AlertsInv, AlertsInv', CalmInv, [Next]_vars
  PROVE  [Board!Next]_Board!vars
<1> USE NullIsNone
<1>1. ASSUME NEW v \in Views, Click(v) PROVE Board!Next
  <2>1. Contains(view, v) /\ CancelAlert(v, timers) /\ UNCHANGED <<alertOf, viewOf>>
    BY <1>1 DEF Click
  <2>2. Board!TakeDown(alertOf[v]) /\ Contains(ShownAlerts, alertOf[v]) /\ alertOf[v] \in Alerts
    BY <2>1, AlertIsTakenDown
  <2>3. Board!Click(alertOf[v]) BY <2>2, BoardsOperators DEF Board!Click
  <2> QED BY <2>2, <2>3 DEF Board!Next
<1>2. ASSUME FireTimer PROVE Board!Next
  <2> DEFINE v == Head(timers).view
  <2>1. Head(timers) \in Timer /\ Contains(view, v) /\ over # v /\ alertOf[v] \in Fading
    BY <1>2, TimersViewIsShown
  <2>2. v \in Views BY <2>1 DEF Timer
  <2>3. CancelAlert(v, Tail(timers)) /\ UNCHANGED <<alertOf, viewOf>> BY <1>2 DEF FireTimer
  <2> HIDE DEF v
  <2>4. Board!TakeDown(alertOf[v]) /\ Contains(ShownAlerts, alertOf[v]) /\ alertOf[v] \in Alerts
    BY <2>1, <2>2, <2>3, AlertIsTakenDown
  <2>5. PointedAt # alertOf[v]
    <3>1. \A u \in Views : Contains(view, u) => displayedAlerts[alertOf[u]] = u
      BY DEF CalmInv, ShownIsDisplayed
    <3>2. over # Null => Contains(view, over) /\ over \in Views BY DEF AlertsInv, TypeOK
    <3> QED BY <2>1, <2>2, <2>4, <3>1, <3>2 DEF PointedAt
  <2>6. Board!Fade(alertOf[v]) BY <2>1, <2>4, <2>5, BoardsOperators DEF Board!Fade
  <2> QED BY <2>4, <2>6 DEF Board!Next
<1>3. ASSUME RunDeferred PROVE UNCHANGED Board!vars
  BY <1>3, NothingSeen DEF RunDeferred, Board!vars
<1>4. ASSUME UNCHANGED vars PROVE UNCHANGED Board!vars
  BY <1>4, NothingSeen DEF vars, Board!vars
<1>5. ASSUME NEW h \in Handles, NEW a \in Alerts, RequestDisplay(a, h) PROVE Board!Next
  BY <1>5, RequestIsSeen DEF Board!Next
<1> QED BY <1>1, <1>2, <1>3, <1>4, <1>5, CancelIsSeen, MouseIsSeen DEF Next

\* Callers who let each turn of the event loop finish see a board: sorted, each
\* alert on it once, there until its last handle is cancelled, it is clicked, or
\* it fades with the mouse elsewhere.
THEOREM ControllerImplementsBoard == Calm => (Spec => ImplementsBoard)
<1> SUFFICES ASSUME Calm PROVE Spec => ImplementsBoard OBVIOUS
<1>1. Init => Board!Init
  <2> SUFFICES ASSUME Init PROVE Board!Init OBVIOUS
  <2>1. ShownAlerts = <<>>
    <3>1. DOMAIN view = {} BY DEF Init
    <3> QED BY <3>1 DEF ShownAlerts
  <2>2. KeptBy = [a \in Alerts |-> {}]
    <3>1. \A a \in Alerts : KeptBy[a] = {} BY NullIsNone DEF Init, KeptBy
    <3>2. KeptBy = [a \in Alerts |-> KeptBy[a]] BY DEF KeptBy
    <3> QED BY <3>1, <3>2
  <2>3. GivenOut = {} /\ PointedAt = Null BY DEF Init, GivenOut, PointedAt
  <2> QED BY <2>1, <2>2, <2>3 DEF Board!Init
<1>2. AlertsInv /\ AlertsInv' /\ CalmInv /\ [Next]_vars => [Board!Next]_Board!vars
  BY BoardStep
<1> QED BY <1>1, <1>2, AlertsInvariant, CalmInvariant, PTL DEF Spec, ImplementsBoard, Board!Spec
=============================================================================
