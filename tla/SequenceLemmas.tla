---------------------------- MODULE SequenceLemmas ----------------------------
(***************************************************************************)
(* Facts about natural numbers and sequences that the proofs of several    *)
(* components need.  The library's induction theorems take the property to *)
(* be shown as an operator; here it is the set of numbers that have it, so *)
(* that a proof can give the set and cite the lemma.                       *)
(***************************************************************************)
EXTENDS Filtering, SequencesExt, SequenceTheorems, WellFoundedInduction, TLAPS

LEMMA LessIsWellFounded == IsWellFoundedOn({p \in Nat \X Nat : p[1] < p[2]}, Nat)
<1>1. IsWellFoundedOn(OpToRel(<, Nat), Nat)
  BY NatLessThanWellFounded
<1>2. OpToRel(<, Nat) = {p \in Nat \X Nat : p[1] < p[2]}
  BY DEF OpToRel
<1> QED BY <1>1, <1>2

\* A set of natural numbers that is not empty has a least element.
LEMMA LeastNatural ==
  ASSUME NEW S, S \subseteq Nat, S # {}
  PROVE  \E m \in S : \A k \in S : m <= k
<1> DEFINE R == {p \in Nat \X Nat : p[1] < p[2]}
<1>1. IsWellFoundedOn(R, Nat) BY LessIsWellFounded
<1>2. \E x \in S : \A y \in S : ~ (<<y, x>> \in R)
  <2> HIDE DEF R
  <2> QED BY <1>1, WFMin
<1>3. PICK x \in S : \A y \in S : ~ (<<y, x>> \in R) BY <1>2
<1>4. \A y \in S : x <= y
  <2> TAKE y \in S
  <2>1. x \in Nat /\ y \in Nat OBVIOUS
  <2>2. ~ (<<y, x>> \in R) BY <1>3
  <2>3. ~ (y < x) BY <2>1, <2>2
  <2> QED BY <2>1, <2>3
<1> QED BY <1>4

\* Induction: a set that holds 0, and n + 1 with n, holds all natural numbers.
LEMMA SetInduction ==
  ASSUME NEW S, 0 \in S, \A n \in Nat : n \in S => n + 1 \in S
  PROVE  Nat \subseteq S
<1> SUFFICES ASSUME Nat \ S # {} PROVE FALSE OBVIOUS
<1>1. PICK m \in Nat \ S : \A k \in Nat \ S : m <= k BY LeastNatural
<1>2. m # 0 /\ m - 1 \in Nat /\ m - 1 \in S BY <1>1
<1>3. m - 1 + 1 \in S BY <1>2
<1> QED BY <1>1, <1>3

(***************************************************************************)
(* Filtered: by induction on the prefixes of the sequence.                 *)
(***************************************************************************)
\* What is kept of each prefix, as far as the n-th.
Keeps(f, s, S, n) ==
    f = [i \in 0 .. n |-> IF i = 0 THEN <<>>
                          ELSE IF s[i] \in S THEN Append(f[i - 1], s[i]) ELSE f[i - 1]]

LEMMA KeepsExists ==
  ASSUME NEW s, NEW S, NEW n \in Nat
  PROVE  \E f : Keeps(f, s, S, n)
<1> DEFINE T == {k \in Nat : \E f : Keeps(f, s, S, k)}
<1>1. 0 \in T
  <2>1. Keeps([i \in 0 .. 0 |-> <<>>], s, S, 0) BY DEF Keeps
  <2> QED BY <2>1
<1>2. \A k \in Nat : k \in T => k + 1 \in T
  <2> SUFFICES ASSUME NEW k \in Nat, NEW f, Keeps(f, s, S, k)
               PROVE  \E g : Keeps(g, s, S, k + 1)
      OBVIOUS
  <2> DEFINE more == IF s[k + 1] \in S THEN Append(f[k], s[k + 1]) ELSE f[k]
             g == [i \in 0 .. k + 1 |-> IF i = k + 1 THEN more ELSE f[i]]
  <2>1. \A i \in 0 .. k : f[i] = IF i = 0 THEN <<>>
                                 ELSE IF s[i] \in S THEN Append(f[i - 1], s[i]) ELSE f[i - 1]
      BY DEF Keeps
  <2>2. \A i \in 0 .. k + 1 : g[i] = IF i = 0 THEN <<>>
                                     ELSE IF s[i] \in S THEN Append(g[i - 1], s[i]) ELSE g[i - 1]
    <3> TAKE i \in 0 .. k + 1
    <3>1. CASE i = k + 1
      <4>1. g[i - 1] = f[k] BY <3>1
      <4> QED BY <3>1, <4>1
    <3>2. CASE i \in 0 .. k
      <4>1. i # 0 => g[i - 1] = f[i - 1] BY <3>2
      <4> QED BY <3>2, <4>1, <2>1
    <3> QED BY <3>1, <3>2
  <2>3. Keeps(g, s, S, k + 1)
    <3>1. g = [i \in 0 .. k + 1 |-> g[i]] OBVIOUS
    <3> HIDE DEF g
    <3> QED BY <2>2, <3>1 DEF Keeps
  <2> QED BY <2>3
<1> HIDE DEF T
<1>3. Nat \subseteq T BY <1>1, <1>2, SetInduction
<1> QED BY <1>3 DEF T

\* t is s without the elements outside S: h says where its elements were.
Embeds(t, s, S, n) ==
    \E h \in [1 .. Len(t) -> 1 .. n] :
        /\ \A i, j \in 1 .. Len(t) : i < j => h[i] < h[j]
        /\ \A i \in 1 .. Len(t) : t[i] = s[h[i]] /\ t[i] \in S
        /\ \A k \in 1 .. n : s[k] \in S => \E i \in 1 .. Len(t) : h[i] = k

LEMMA KeepsEmbeds ==
  ASSUME NEW A, NEW s \in Seq(A), NEW S, NEW f, Keeps(f, s, S, Len(s)),
         NEW n \in 0 .. Len(s)
  PROVE  f[n] \in Seq(A) /\ Embeds(f[n], s, S, n)
<1> DEFINE T == {k \in Nat : k <= Len(s) => f[k] \in Seq(A) /\ Embeds(f[k], s, S, k)}
<1>0. Len(s) \in Nat /\ \A i \in 1 .. Len(s) : s[i] \in A OBVIOUS
<1>1. 0 \in T
  <2>1. f[0] = <<>> BY DEF Keeps
  <2>2. [i \in 1 .. 0 |-> i] \in [1 .. Len(<<>>) -> 1 .. 0] /\ Len(<<>>) = 0 OBVIOUS
  <2>3. Embeds(<<>>, s, S, 0)
    <3> DEFINE h == [i \in 1 .. 0 |-> i]
    <3>1. h \in [1 .. Len(<<>>) -> 1 .. 0] BY <2>2
    <3>2. \A i \in 1 .. Len(<<>>) : FALSE BY <2>2
    <3>3. \A i \in 1 .. 0 : FALSE OBVIOUS
    <3> HIDE DEF h
    <3> QED BY <3>1, <3>2, <3>3 DEF Embeds
  <2>4. <<>> \in Seq(A) OBVIOUS
  <2> QED BY <2>1, <2>3, <2>4
<1>2. \A k \in Nat : k \in T => k + 1 \in T
  <2> SUFFICES ASSUME NEW k \in Nat, k + 1 <= Len(s), f[k] \in Seq(A), Embeds(f[k], s, S, k)
               PROVE  f[k + 1] \in Seq(A) /\ Embeds(f[k + 1], s, S, k + 1)
      BY <1>0
  <2>1. PICK h \in [1 .. Len(f[k]) -> 1 .. k] :
          /\ \A i, j \in 1 .. Len(f[k]) : i < j => h[i] < h[j]
          /\ \A i \in 1 .. Len(f[k]) : f[k][i] = s[h[i]] /\ f[k][i] \in S
          /\ \A m \in 1 .. k : s[m] \in S => \E i \in 1 .. Len(f[k]) : h[i] = m
      BY DEF Embeds
  <2>2. f[k + 1] = IF s[k + 1] \in S THEN Append(f[k], s[k + 1]) ELSE f[k]
    <3>1. k + 1 \in 0 .. Len(s) /\ k + 1 # 0 /\ k + 1 - 1 = k BY <1>0
    <3>2. \A i \in 0 .. Len(s) : f[i] = IF i = 0 THEN <<>>
                                       ELSE IF s[i] \in S THEN Append(f[i - 1], s[i]) ELSE f[i - 1]
        BY DEF Keeps
    <3> QED BY <3>1, <3>2
  <2>3. CASE s[k + 1] \notin S
    <3>1. f[k + 1] = f[k] BY <2>2, <2>3
    <3>2. h \in [1 .. Len(f[k]) -> 1 .. k + 1] BY <2>1
    <3>3. \A m \in 1 .. k + 1 : s[m] \in S => \E i \in 1 .. Len(f[k]) : h[i] = m
        BY <2>1, <2>3
    <3>4. Embeds(f[k], s, S, k + 1) BY <2>1, <3>2, <3>3 DEF Embeds
    <3> QED BY <3>1, <3>4
  <2>4. CASE s[k + 1] \in S
    <3> DEFINE t == f[k]
               u == f[k + 1]
               g == [i \in 1 .. Len(u) |-> IF i = Len(u) THEN k + 1 ELSE h[i]]
    <3>1. u = Append(t, s[k + 1]) BY <2>2, <2>4
    <3>2. /\ u \in Seq(A) /\ Len(t) \in Nat /\ Len(u) = Len(t) + 1 /\ u[Len(u)] = s[k + 1]
          /\ \A i \in 1 .. Len(t) : u[i] = t[i]
        BY <1>0, <3>1, AppendProperties
    <3> HIDE DEF t, u
    <3>l. Len(t) \in Nat /\ Len(u) = Len(t) + 1 BY <3>2
    <3>3. g \in [1 .. Len(u) -> 1 .. k + 1] BY <2>1, <3>2 DEF t
    <3>4. \A i, j \in 1 .. Len(u) : i < j => g[i] < g[j]
      <4> SUFFICES ASSUME NEW i \in 1 .. Len(u), NEW j \in 1 .. Len(u), i < j PROVE g[i] < g[j] OBVIOUS
      <4>0. i \in 1 .. Len(t) /\ i # Len(u) BY <3>2
      <4>1. g[i] = h[i] /\ h[i] \in 1 .. k BY <2>1, <4>0 DEF t
      <4>2. CASE j = Len(u) BY <4>1, <4>2
      <4>3. CASE j # Len(u)
        <5>0. j \in 1 .. Len(t)
          <6> HIDE DEF g
          <6> QED BY ONLY <3>l, <4>3, j \in 1 .. Len(u)
        <5>1. g[j] = h[j] BY <4>3, <5>0 DEF t
        <5>2. h[i] < h[j] BY <2>1, <4>0, <5>0 DEF t
        <5> QED BY <4>1, <5>1, <5>2
      <4> QED BY <4>2, <4>3
    <3>5. \A i \in 1 .. Len(u) : u[i] = s[g[i]] /\ u[i] \in S
      <4> TAKE i \in 1 .. Len(u)
      <4>1. CASE i = Len(u) BY <2>4, <3>2, <4>1
      <4>2. CASE i # Len(u)
        <5>1. i \in 1 .. Len(t) /\ g[i] = h[i] BY <3>2, <4>2
        <5> QED BY <2>1, <3>2, <5>1 DEF t
      <4> QED BY <4>1, <4>2
    <3>6. \A m \in 1 .. k + 1 : s[m] \in S => \E i \in 1 .. Len(u) : g[i] = m
      <4> SUFFICES ASSUME NEW m \in 1 .. k + 1, s[m] \in S PROVE \E i \in 1 .. Len(u) : g[i] = m OBVIOUS
      <4>1. CASE m = k + 1 BY <3>2, <4>1
      <4>2. CASE m \in 1 .. k
        <5>1. PICK i \in 1 .. Len(t) : h[i] = m BY <2>1, <4>2 DEF t
        <5>2. i \in 1 .. Len(u) /\ i # Len(u) BY <3>2
        <5> QED BY <5>1, <5>2
      <4> QED BY <4>1, <4>2
    <3> HIDE DEF g
    <3>7. Embeds(u, s, S, k + 1) BY <3>3, <3>4, <3>5, <3>6 DEF Embeds
    <3> QED BY <3>2, <3>7 DEF u
  <2> QED BY <2>3, <2>4
<1> HIDE DEF T
<1>3. Nat \subseteq T BY <1>1, <1>2, SetInduction
<1> QED BY <1>0, <1>3 DEF T

\* Filtered keeps exactly the elements in S, and their order.
LEMMA FilteredEmbeds ==
  ASSUME NEW A, NEW s \in Seq(A), NEW S
  PROVE  Filtered(s, S) \in Seq(A) /\ Embeds(Filtered(s, S), s, S, Len(s))
<1> DEFINE f == CHOOSE g : Keeps(g, s, S, Len(s))
<1>0. Len(s) \in Nat OBVIOUS
<1>1. Filtered(s, S) = f[Len(s)] BY DEF Filtered, Keeps
<1>2. Keeps(f, s, S, Len(s)) BY <1>0, KeepsExists
<1> HIDE DEF f
<1> QED BY <1>0, <1>1, <1>2, KeepsEmbeds

LEMMA FilteredElements ==
  ASSUME NEW A, NEW s \in Seq(A), NEW S
  PROVE  /\ Filtered(s, S) \in Seq(A)
         /\ ToSet(Filtered(s, S)) = ToSet(s) \cap S
<1>1. Filtered(s, S) \in Seq(A) BY FilteredEmbeds
<1> DEFINE t == Filtered(s, S)
<1> HIDE DEF t
<1>2. t \in Seq(A) BY <1>1 DEF t
<1>0. Embeds(t, s, S, Len(s)) BY FilteredEmbeds DEF t
<1>3. PICK h \in [1 .. Len(t) -> 1 .. Len(s)] :
        /\ \A i \in 1 .. Len(t) : t[i] = s[h[i]] /\ t[i] \in S
        /\ \A k \in 1 .. Len(s) : s[k] \in S => \E i \in 1 .. Len(t) : h[i] = k
  BY <1>0 DEF Embeds
<1>4. \A e \in ToSet(t) : e \in ToSet(s) \cap S BY <1>2, <1>3 DEF ToSet
<1>5. \A e \in ToSet(s) \cap S : e \in ToSet(t) BY <1>2, <1>3 DEF ToSet
<1> QED BY <1>1, <1>4, <1>5 DEF t

(***************************************************************************)
(* Insertion and removal at an index, the first index that passes a test.  *)
(***************************************************************************)
LEMMA InsertAtProperties ==
  ASSUME NEW A, NEW s \in Seq(A), NEW e \in A, NEW i \in 1 .. Len(s) + 1
  PROVE  /\ InsertAt(s, i, e) \in Seq(A)
         /\ Len(s) \in Nat /\ Len(InsertAt(s, i, e)) = Len(s) + 1
         /\ \A k \in 1 .. Len(s) + 1 : InsertAt(s, i, e)[k] = IF k < i THEN s[k]
                                                             ELSE IF k = i THEN e ELSE s[k - 1]
         /\ ToSet(InsertAt(s, i, e)) = ToSet(s) \cup {e}
<1> DEFINE n == Len(s)
           t == InsertAt(s, i, e)
           front == SubSeq(s, 1, i - 1)
           back == SubSeq(s, i, n)
<1>1. n \in Nat /\ \A k \in 1 .. n : s[k] \in A OBVIOUS
<1>2. /\ front \in Seq(A) /\ Len(front) = i - 1 /\ \A k \in 1 .. i - 1 : front[k] = s[k]
      /\ back \in Seq(A) /\ Len(back) = n - i + 1 /\ \A k \in 1 .. n - i + 1 : back[k] = s[k + i - 1]
  BY <1>1
<1>3. <<e>> \in Seq(A) /\ Len(<<e>>) = 1 /\ <<e>>[1] = e OBVIOUS
<1> HIDE DEF front, back, n
<1>4. t = front \o <<e>> \o back BY DEF InsertAt, front, back, n
<1>i. i \in 1 .. n + 1 BY DEF n
<1>5. /\ t \in Seq(A) /\ Len(t) = n + 1
      /\ \A k \in 1 .. n + 1 : t[k] = IF k < i THEN front[k] ELSE IF k = i THEN e ELSE back[k - i]
  <2> DEFINE u == front \o <<e>>
  <2>1. u \in Seq(A) /\ Len(u) = i /\ \A k \in 1 .. i : u[k] = IF k < i THEN front[k] ELSE e
      BY <1>2, <1>3, <1>i
  <2> HIDE DEF u
  <2> DEFINE m == n - i + 1
  <2>2. i \in Nat /\ m \in Nat /\ i + m = n + 1 BY <1>1, <1>i
  <2>b. Len(back) = m BY <1>2
  <2> HIDE DEF m
  <2>3. u \o back \in Seq(A) /\ Len(u \o back) = i + m
        /\ \A k \in 1 .. i + m : (u \o back)[k] = IF k <= i THEN u[k] ELSE back[k - i]
      <3>1. u \in Seq(A) /\ back \in Seq(A) /\ Len(u) = i BY <1>2, <2>1
      <3> QED BY ONLY <2>2, <2>b, <3>1, SMTT(30)
  <2>4. t = u \o back BY <1>4 DEF u
  <2>5. \A k \in 1 .. n + 1 : t[k] = IF k <= i THEN u[k] ELSE back[k - i] BY <2>2, <2>3, <2>4
  <2>6. \A k \in 1 .. n + 1 : t[k] = IF k < i THEN front[k] ELSE IF k = i THEN e ELSE back[k - i]
    <3> TAKE k \in 1 .. n + 1
    <3>1. CASE k <= i
      <4>1. k \in 1 .. i /\ t[k] = u[k] BY <1>i, <2>5, <3>1
      <4> QED BY <1>i, <2>1, <3>1, <4>1
    <3>2. CASE k > i BY <1>i, <2>5, <3>2
    <3> QED BY <1>i, <3>1, <3>2
  <2> QED BY <2>2, <2>3, <2>4, <2>6
<1> HIDE DEF t
<1>6. \A k \in 1 .. n + 1 : t[k] = IF k < i THEN s[k] ELSE IF k = i THEN e ELSE s[k - 1]
  <2> TAKE k \in 1 .. n + 1
  <2>1. CASE k < i BY <1>2, <1>5, <1>i, <2>1
  <2>2. CASE k = i BY <1>5, <2>2
  <2>3. CASE k > i
    <3>1. k - i \in 1 .. n - i + 1 /\ k - i + i - 1 = k - 1 BY <1>1, <1>i, <2>3
    <3>2. back[k - i] = s[k - 1] BY <1>2, <3>1
    <3> QED BY <1>1, <1>5, <1>i, <2>3, <3>2
  <2> QED BY <1>1, <1>i, <2>1, <2>2, <2>3
<1>7. ToSet(t) = ToSet(s) \cup {e}
  <2>1. DOMAIN t = 1 .. n + 1 /\ DOMAIN s = 1 .. n BY <1>5 DEF n
  <2>2. \A k \in 1 .. n + 1 : t[k] \in ToSet(s) \cup {e}
    <3> TAKE k \in 1 .. n + 1
    <3>1. k < i => k \in 1 .. n BY <1>1, <1>i
    <3>2. k > i => k - 1 \in 1 .. n BY <1>1, <1>i
    <3> QED BY <1>1, <1>6, <1>i, <2>1, <3>1, <3>2 DEF ToSet
  <2>3. \A k \in 1 .. n : s[k] \in ToSet(t)
    <3> TAKE k \in 1 .. n
    <3>1. CASE k < i
      <4>1. k \in 1 .. n + 1 /\ t[k] = s[k] BY <1>1, <1>6, <3>1
      <4> QED BY <2>1, <4>1 DEF ToSet
    <3>2. CASE k >= i
      <4>1. k + 1 \in 1 .. n + 1 /\ t[k + 1] = s[k] BY <1>1, <1>6, <1>i, <3>2
      <4> QED BY <2>1, <4>1 DEF ToSet
    <3> QED BY <1>1, <1>i, <3>1, <3>2
  <2>4. e \in ToSet(t) BY <1>1, <1>6, <1>i, <2>1 DEF ToSet
  <2>5. ToSet(t) \subseteq ToSet(s) \cup {e} BY <2>1, <2>2 DEF ToSet
  <2>6. ToSet(s) \subseteq ToSet(t) BY <2>1, <2>3 DEF ToSet
  <2> QED BY <2>4, <2>5, <2>6
<1> QED BY <1>1, <1>5, <1>6, <1>7 DEF t, n

LEMMA RemoveAtProperties ==
  ASSUME NEW A, NEW s \in Seq(A), NEW i \in 1 .. Len(s)
  PROVE  /\ RemoveAt(s, i) \in Seq(A)
         /\ Len(s) \in Nat /\ Len(RemoveAt(s, i)) = Len(s) - 1
         /\ \A k \in 1 .. Len(s) - 1 : RemoveAt(s, i)[k] = IF k < i THEN s[k] ELSE s[k + 1]
<1> DEFINE n == Len(s)
           t == RemoveAt(s, i)
           front == SubSeq(s, 1, i - 1)
           back == SubSeq(s, i + 1, n)
<1>1. n \in Nat /\ \A k \in 1 .. n : s[k] \in A OBVIOUS
<1>2. /\ front \in Seq(A) /\ Len(front) = i - 1 /\ \A k \in 1 .. i - 1 : front[k] = s[k]
      /\ back \in Seq(A) /\ Len(back) = n - i /\ \A k \in 1 .. n - i : back[k] = s[k + i]
  BY <1>1
<1> HIDE DEF front, back, n
<1>3. t = front \o back BY DEF RemoveAt, front, back, n
<1>i. i \in 1 .. n BY DEF n
<1>4. /\ t \in Seq(A) /\ Len(t) = n - 1
      /\ \A k \in 1 .. n - 1 : t[k] = IF k < i THEN front[k] ELSE back[k - (i - 1)]
  <2> DEFINE m == i - 1
             r == n - i
  <2>1. m \in Nat /\ r \in Nat /\ m + r = n - 1 BY <1>1, <1>i
  <2>b. Len(front) = m /\ Len(back) = r BY <1>2
  <2> HIDE DEF m, r
  <2>2. front \o back \in Seq(A) /\ Len(front \o back) = m + r
        /\ \A k \in 1 .. m + r : (front \o back)[k] = IF k <= m THEN front[k] ELSE back[k - m]
      <3>1. front \in Seq(A) /\ back \in Seq(A) BY <1>2
      <3> QED BY ONLY <2>1, <2>b, <3>1, SMTT(30)
  <2>3. \A k \in 1 .. n - 1 : k <= m <=> k < i BY <1>i DEF m
  <2>4. t = front \o back BY <1>3
  <2>5. \A k \in 1 .. n - 1 : t[k] = IF k < i THEN front[k] ELSE back[k - (i - 1)]
      BY <2>1, <2>2, <2>3, <2>4 DEF m
  <2> QED BY <2>1, <2>2, <2>4, <2>5
<1> HIDE DEF t
<1>5. \A k \in 1 .. n - 1 : t[k] = IF k < i THEN s[k] ELSE s[k + 1]
  <2> TAKE k \in 1 .. n - 1
  <2>1. CASE k < i BY <1>2, <1>4, <1>i, <2>1
  <2>2. CASE k >= i
    <3>1. k - (i - 1) \in 1 .. n - i /\ k - (i - 1) + i = k + 1 BY <1>1, <1>i, <2>2
    <3>2. back[k - (i - 1)] = s[k + 1] BY <1>2, <3>1
    <3>3. ~(k < i) BY <1>1, <1>i, <2>2
    <3>4. t[k] = back[k - (i - 1)] BY ONLY <1>4, <3>3, k \in 1 .. n - 1
    <3> QED BY ONLY <3>2, <3>3, <3>4
  <2> QED BY <1>1, <1>i, <2>1, <2>2
<1> QED BY <1>1, <1>4, <1>5 DEF t, n

\* The least of a set of indices.
LEMMA MinIsLeast ==
  ASSUME NEW S, S \subseteq Nat, S # {}
  PROVE  Min(S) \in S /\ \A k \in S : Min(S) <= k
<1>1. \E m \in S : \A k \in S : m <= k BY LeastNatural
<1> QED BY <1>1 DEF Min

LEMMA MaxIsGreatest ==
  ASSUME NEW n \in Nat, NEW S, S \subseteq 1 .. n, S # {}
  PROVE  Max(S) \in S /\ \A k \in S : k <= Max(S)
<1> DEFINE T == {n - k : k \in S}
<1>0. \A k \in S : k \in Int /\ k <= n OBVIOUS
<1>1. T \subseteq Nat /\ T # {}
  <2>1. \A k \in S : n - k \in Nat BY <1>0
  <2> QED BY <2>1
<1> HIDE DEF T
<1>2. PICK m \in T : \A k \in T : m <= k BY <1>1, LeastNatural
<1>3. PICK g \in S : m = n - g BY <1>2 DEF T
<1>4. \A k \in S : k <= g
  <2> TAKE k \in S
  <2>1. n - k \in T BY DEF T
  <2>2. n - g <= n - k BY <1>2, <1>3, <2>1
  <2>3. k \in Nat /\ g \in Nat OBVIOUS
  <2> QED BY <2>2, <2>3
<1> QED BY <1>4 DEF Max

\* RemoveFirst takes out the element at one index, if there is one to take out.
LEMMA RemoveFirstProperties ==
  ASSUME NEW A, NEW s \in Seq(A), NEW e
  PROVE  /\ RemoveFirst(s, e) \in Seq(A)
         /\ \/ e \notin ToSet(s) /\ RemoveFirst(s, e) = s
            \/ \E p \in 1 .. Len(s) : s[p] = e /\ RemoveFirst(s, e) = RemoveAt(s, p)
<1>1. CASE \E i \in 1 .. Len(s) : s[i] = e
  <2> DEFINE I == {i \in 1 .. Len(s) : s[i] = e}
  <2>1. I \subseteq Nat /\ I # {} BY <1>1
  <2>2. RemoveFirst(s, e) = RemoveAt(s, Min(I)) BY <1>1 DEF RemoveFirst, SelectInSeq
  <2>3. Min(I) \in I
    <3> HIDE DEF I
    <3> QED BY <2>1, MinIsLeast
  <2>4. Min(I) \in 1 .. Len(s) /\ s[Min(I)] = e BY <2>3
  <2> HIDE DEF I
  <2> QED BY <2>2, <2>4, RemoveAtProperties
<1>2. CASE ~ \E i \in 1 .. Len(s) : s[i] = e
  <2>1. RemoveFirst(s, e) = s BY <1>2 DEF RemoveFirst
  <2>2. e \notin ToSet(s) BY <1>2 DEF ToSet
  <2> QED BY <2>1, <2>2
<1> QED BY <1>1, <1>2

(***************************************************************************)
(* Recursive functions on 0 .. n: each value is made from the one before.  *)
(***************************************************************************)
\* If the first value is in T[0], and each is in T[k] when the one before it is in
\* T[k - 1], they all are.
LEMMA FoldStays ==
  ASSUME NEW n \in Nat, NEW T, NEW f, f[0] \in T[0],
         \A k \in 1 .. n : f[k - 1] \in T[k - 1] => f[k] \in T[k]
  PROVE  \A k \in 0 .. n : f[k] \in T[k]
<1> DEFINE S == {k \in Nat : k <= n => f[k] \in T[k]}
<1>1. 0 \in S OBVIOUS
<1>2. \A k \in Nat : k \in S => k + 1 \in S
  <2> SUFFICES ASSUME NEW k \in Nat, f[k] \in T[k], k + 1 <= n PROVE f[k + 1] \in T[k + 1]
    OBVIOUS
  <2>1. k + 1 \in 1 .. n /\ k + 1 - 1 = k OBVIOUS
  <2> QED BY <2>1
<1> HIDE DEF S
<1>3. Nat \subseteq S BY <1>1, <1>2, SetInduction
<1> QED BY <1>3 DEF S

\* f begins with b and goes on as F says.
IsFold(f, n, b, F) ==
    f = [k \in 0 .. n |-> IF k = 0 THEN b ELSE F[<<k, f[k - 1]>>]]

\* Its values, one by one.
LEMMA FoldValues ==
  ASSUME NEW n \in Nat, NEW b, NEW F, NEW f, IsFold(f, n, b, F)
  PROVE  f[0] = b /\ \A k \in 1 .. n : f[k] = F[<<k, f[k - 1]>>]
<1>1. \A k \in 0 .. n : f[k] = IF k = 0 THEN b ELSE F[<<k, f[k - 1]>>] BY DEF IsFold
<1>2. 0 \in 0 .. n /\ \A k \in 1 .. n : k \in 0 .. n /\ k # 0 OBVIOUS
<1> QED BY ONLY <1>1, <1>2

\* There is such a function.
LEMMA FoldExists ==
  ASSUME NEW n \in Nat, NEW T, NEW b \in T[0], NEW F,
         \A k \in 1 .. n : \A x \in T[k - 1] : F[<<k, x>>] \in T[k]
  PROVE  \E f : IsFold(f, n, b, F) /\ \A k \in 0 .. n : f[k] \in T[k]
<1> DEFINE Fold(f, m) == f = [k \in 0 .. m |-> IF k = 0 THEN b ELSE F[<<k, f[k - 1]>>]]
           S == {m \in Nat : \E f : Fold(f, m)}
<1>1. 0 \in S
  <2> DEFINE g == [k \in 0 .. 0 |-> b]
  <2>1. g = [k \in 0 .. 0 |-> IF k = 0 THEN b ELSE F[<<k, g[k - 1]>>]] OBVIOUS
  <2> HIDE DEF g
  <2>2. Fold(g, 0) BY <2>1
  <2> QED BY <2>2
<1>2. \A m \in Nat : m \in S => m + 1 \in S
  <2> SUFFICES ASSUME NEW m \in Nat, NEW f, Fold(f, m) PROVE \E g : Fold(g, m + 1)
    OBVIOUS
  <2> DEFINE g == [k \in 0 .. m + 1 |-> IF k = m + 1 THEN F[<<m + 1, f[m]>>] ELSE f[k]]
  <2>1. \A k \in 0 .. m : f[k] = IF k = 0 THEN b ELSE F[<<k, f[k - 1]>>] OBVIOUS
  <2>2. \A k \in 0 .. m + 1 : g[k] = IF k = 0 THEN b ELSE F[<<k, g[k - 1]>>]
    <3> TAKE k \in 0 .. m + 1
    <3>1. CASE k = m + 1
      <4>1. g[k - 1] = f[m] /\ g[k] = F[<<k, f[m]>>] /\ k # 0 BY <3>1
      <4> QED BY ONLY <4>1
    <3>2. CASE k \in 0 .. m
      <4>1. g[k] = f[k] /\ (k # 0 => g[k - 1] = f[k - 1]) BY <3>2
      <4> QED BY ONLY <2>1, <3>2, <4>1
    <3> QED BY <3>1, <3>2
  <2>3. g = [k \in 0 .. m + 1 |-> g[k]] OBVIOUS
  <2> HIDE DEF g
  <2>4. Fold(g, m + 1) BY <2>2, <2>3
  <2> QED BY <2>4
<1> HIDE DEF S
<1>3. Nat \subseteq S BY <1>1, <1>2, SetInduction
<1>4. PICK f : Fold(f, n) BY <1>3 DEF S
<1>c. f[0] = b /\ \A k \in 1 .. n : f[k] = F[<<k, f[k - 1]>>] BY <1>4, FoldValues DEF Fold, IsFold
<1> HIDE DEF Fold
<1>6. f[0] \in T[0] BY <1>c
<1>7. \A k \in 1 .. n : f[k - 1] \in T[k - 1] => f[k] \in T[k]
  <2> SUFFICES ASSUME NEW k \in 1 .. n, f[k - 1] \in T[k - 1] PROVE f[k] \in T[k] OBVIOUS
  <2>1. f[k] = F[<<k, f[k - 1]>>] BY <1>c
  <2> QED BY <2>1
<1>8. \A k \in 0 .. n : f[k] \in T[k] BY <1>6, <1>7, FoldStays
<1> QED BY <1>4, <1>8 DEF Fold, IsFold

(***************************************************************************)
(* Sequences some of whose elements are gone.                               *)
(***************************************************************************)
\* u is s without some of its elements, none of which is in K.
Thinned(u, s, K) ==
    \E h \in [1 .. Len(u) -> 1 .. Len(s)] :
        /\ \A i, j \in 1 .. Len(u) : i < j => h[i] < h[j]
        /\ \A i \in 1 .. Len(u) : u[i] = s[h[i]]
        /\ \A k \in 1 .. Len(s) : s[k] \in K => \E i \in 1 .. Len(u) : h[i] = k

\* Thinned is reflexive, ...
LEMMA ThinnedSame ==
  ASSUME NEW A, NEW s \in Seq(A), NEW K
  PROVE  Thinned(s, s, K)
<1> DEFINE h == [i \in 1 .. Len(s) |-> i]
<1>1. h \in [1 .. Len(s) -> 1 .. Len(s)] /\ \A i \in 1 .. Len(s) : h[i] = i OBVIOUS
<1> HIDE DEF h
<1>2. \A i, j \in 1 .. Len(s) : i < j => h[i] < h[j] BY <1>1
<1> QED BY <1>1, <1>2 DEF Thinned

\* ... transitive, ...
LEMMA ThinnedTwice ==
  ASSUME NEW A, NEW s \in Seq(A), NEW u \in Seq(A), NEW v \in Seq(A), NEW K, NEW J,
         Thinned(u, s, K), Thinned(v, u, J)
  PROVE  Thinned(v, s, K \cap J)
<1>1. PICK h \in [1 .. Len(u) -> 1 .. Len(s)] :
        /\ \A i, j \in 1 .. Len(u) : i < j => h[i] < h[j]
        /\ \A i \in 1 .. Len(u) : u[i] = s[h[i]]
        /\ \A k \in 1 .. Len(s) : s[k] \in K => \E i \in 1 .. Len(u) : h[i] = k
  BY DEF Thinned
<1>2. PICK g \in [1 .. Len(v) -> 1 .. Len(u)] :
        /\ \A i, j \in 1 .. Len(v) : i < j => g[i] < g[j]
        /\ \A i \in 1 .. Len(v) : v[i] = u[g[i]]
        /\ \A k \in 1 .. Len(u) : u[k] \in J => \E i \in 1 .. Len(v) : g[i] = k
  BY DEF Thinned
<1> DEFINE f == [i \in 1 .. Len(v) |-> h[g[i]]]
<1>3. f \in [1 .. Len(v) -> 1 .. Len(s)] /\ \A i \in 1 .. Len(v) : f[i] = h[g[i]] /\ g[i] \in 1 .. Len(u)
  OBVIOUS
<1> HIDE DEF f
<1>4. \A i, j \in 1 .. Len(v) : i < j => f[i] < f[j] BY <1>1, <1>2, <1>3
<1>5. \A i \in 1 .. Len(v) : v[i] = s[f[i]] BY <1>1, <1>2, <1>3
<1>6. \A k \in 1 .. Len(s) : s[k] \in K \cap J => \E i \in 1 .. Len(v) : f[i] = k
  <2> SUFFICES ASSUME NEW k \in 1 .. Len(s), s[k] \in K, s[k] \in J PROVE \E i \in 1 .. Len(v) : f[i] = k OBVIOUS
  <2>1. PICK j \in 1 .. Len(u) : h[j] = k BY <1>1
  <2>2. PICK i \in 1 .. Len(v) : g[i] = j BY <1>1, <1>2, <2>1
  <2> QED BY <1>3, <2>1, <2>2
<1> QED BY <1>3, <1>4, <1>5, <1>6 DEF Thinned

\* ... and says less of fewer elements.
LEMMA ThinnedFewer ==
  ASSUME NEW s, NEW u, NEW K, NEW J, J \subseteq K, Thinned(u, s, K)
  PROVE  Thinned(u, s, J)
BY DEF Thinned

\* A sequence without one element.
LEMMA ThinnedRemoval ==
  ASSUME NEW A, NEW s \in Seq(A), NEW i \in 1 .. Len(s), NEW K, s[i] \notin K
  PROVE  Thinned(RemoveAt(s, i), s, K)
<1> DEFINE n == Len(s)
           u == RemoveAt(s, i)
           h == [k \in 1 .. n - 1 |-> IF k < i THEN k ELSE k + 1]
<1>1. n \in Nat /\ Len(u) = n - 1 /\ \A k \in 1 .. n - 1 : u[k] = IF k < i THEN s[k] ELSE s[k + 1]
  BY RemoveAtProperties
<1>2. h \in [1 .. n - 1 -> 1 .. n] /\ \A k \in 1 .. n - 1 : h[k] = IF k < i THEN k ELSE k + 1 BY <1>1
<1>i. i \in 1 .. n OBVIOUS
<1>k. s[i] \notin K OBVIOUS
<1> HIDE DEF u, h
<1>3. \A j, k \in 1 .. n - 1 : j < k => h[j] < h[k] BY <1>1, <1>2
<1>4. \A k \in 1 .. n - 1 : u[k] = s[h[k]] BY <1>1, <1>2
<1> HIDE DEF n
<1>5. \A k \in 1 .. n : s[k] \in K => \E j \in 1 .. n - 1 : h[j] = k
  <2> SUFFICES ASSUME NEW k \in 1 .. n, s[k] \in K PROVE \E j \in 1 .. n - 1 : h[j] = k OBVIOUS
  <2>1. CASE k < i
    <3>1. k \in 1 .. n - 1 /\ h[k] = k BY <1>1, <1>2, <1>i, <2>1
    <3> QED BY <3>1
  <2>2. CASE k > i
    <3>1. k - 1 \in 1 .. n - 1 /\ h[k - 1] = k BY <1>1, <1>2, <1>i, <2>2
    <3> QED BY <3>1
  <2>3. k # i BY <1>k
  <2> QED BY <1>i, <1>1, <2>1, <2>2, <2>3
<1> QED BY <1>1, <1>2, <1>3, <1>4, <1>5 DEF Thinned, n, u

\* What is thinned has no new elements, and has those of K.
LEMMA ThinnedElements ==
  ASSUME NEW A, NEW s \in Seq(A), NEW u \in Seq(A), NEW K, Thinned(u, s, K)
  PROVE  ToSet(u) \subseteq ToSet(s) /\ ToSet(s) \cap K \subseteq ToSet(u)
<1>1. DOMAIN s = 1 .. Len(s) /\ DOMAIN u = 1 .. Len(u) OBVIOUS
<1>2. PICK h \in [1 .. Len(u) -> 1 .. Len(s)] :
        /\ \A i \in 1 .. Len(u) : u[i] = s[h[i]]
        /\ \A k \in 1 .. Len(s) : s[k] \in K => \E i \in 1 .. Len(u) : h[i] = k
  BY DEF Thinned
<1>3. \A i \in 1 .. Len(u) : h[i] \in 1 .. Len(s) BY <1>2
<1>4. ToSet(u) \subseteq ToSet(s) BY ONLY <1>1, <1>2, <1>3 DEF ToSet
<1>5. ToSet(s) \cap K \subseteq ToSet(u)
  <2> SUFFICES ASSUME NEW k \in 1 .. Len(s), s[k] \in K PROVE s[k] \in ToSet(u) BY <1>1 DEF ToSet
  <2>1. PICK i \in 1 .. Len(u) : h[i] = k BY <1>2
  <2>2. u[i] = s[k] BY <1>2, <2>1
  <2> QED BY <1>1, <2>2 DEF ToSet
<1> QED BY <1>4, <1>5

\* The elements of one sequence after another.
LEMMA ElementsOfBoth ==
  ASSUME NEW A, NEW s \in Seq(A), NEW u \in Seq(A)
  PROVE  s \o u \in Seq(A) /\ ToSet(s \o u) = ToSet(s) \cup ToSet(u)
<1>1. /\ s \o u \in Seq(A) /\ Len(s) \in Nat /\ Len(u) \in Nat /\ Len(s \o u) = Len(s) + Len(u)
      /\ \A i \in 1 .. Len(s) + Len(u) : (s \o u)[i] = IF i <= Len(s) THEN s[i] ELSE u[i - Len(s)]
      /\ DOMAIN s = 1 .. Len(s) /\ DOMAIN u = 1 .. Len(u) /\ DOMAIN (s \o u) = 1 .. Len(s) + Len(u)
  OBVIOUS
<1> DEFINE v == s \o u
           m == Len(s)
           n == Len(u)
<1> HIDE DEF v, m, n
<1>2. /\ m \in Nat /\ n \in Nat /\ DOMAIN v = 1 .. m + n /\ DOMAIN s = 1 .. m /\ DOMAIN u = 1 .. n
      /\ \A i \in 1 .. m + n : v[i] = IF i <= m THEN s[i] ELSE u[i - m]
  BY <1>1 DEF v, m, n
<1>3. ASSUME NEW i \in 1 .. m + n PROVE v[i] \in ToSet(s) \cup ToSet(u)
  <2>1. CASE i <= m
    <3>1. i \in 1 .. m BY <1>2, <1>3, <2>1
    <3> QED BY <1>2, <2>1, <3>1 DEF ToSet
  <2>2. CASE ~ (i <= m)
    <3>1. i - m \in 1 .. n BY <1>2, <1>3, <2>2
    <3> QED BY <1>2, <2>2, <3>1 DEF ToSet
  <2> QED BY <2>1, <2>2
<1>4. ASSUME NEW i \in 1 .. m PROVE s[i] \in ToSet(v)
  <2>1. i \in 1 .. m + n /\ i <= m BY <1>2, <1>4
  <2> QED BY <1>2, <2>1 DEF ToSet
<1>5. ASSUME NEW i \in 1 .. n PROVE u[i] \in ToSet(v)
  <2>1. PICK j \in 1 .. m + n : ~ (j <= m) /\ j - m = i
    <3>1. i + m \in 1 .. m + n /\ ~ (i + m <= m) /\ (i + m) - m = i BY ONLY <1>2, <1>5
    <3> QED BY ONLY <3>1, Zenon
  <2>2. v[j] = u[i] BY <1>2, <2>1
  <2> QED BY <1>2, <2>2 DEF ToSet
<1>6. ToSet(v) = ToSet(s) \cup ToSet(u)
  <2>1. ToSet(v) \subseteq ToSet(s) \cup ToSet(u) BY <1>2, <1>3 DEF ToSet
  <2>2. ToSet(s) \subseteq ToSet(v) BY <1>2, <1>4 DEF ToSet
  <2>3. ToSet(u) \subseteq ToSet(v) BY <1>2, <1>5 DEF ToSet
  <2> QED BY <2>1, <2>2, <2>3
<1> QED BY <1>1, <1>6 DEF v

\* A beginning of a sequence and the next one.
LEMMA FrontGrows ==
  ASSUME NEW A, NEW s \in Seq(A), NEW k \in 1 .. Len(s)
  PROVE  /\ SubSeq(s, 1, k - 1) \in Seq(A) /\ s[k] \in A
         /\ SubSeq(s, 1, k) = Append(SubSeq(s, 1, k - 1), s[k])
<1> DEFINE u == SubSeq(s, 1, k - 1)
           v == SubSeq(s, 1, k)
<1>1. k \in Nat /\ k - 1 \in Nat /\ (k - 1) + 1 = k /\ s[k] \in A OBVIOUS
<1>2. u \in Seq(A) /\ Len(u) = k - 1 /\ \A i \in 1 .. k - 1 : u[i] = s[i] OBVIOUS
<1>3. v \in Seq(A) /\ Len(v) = k /\ \A i \in 1 .. k : v[i] = s[i] OBVIOUS
<1> HIDE DEF u, v
<1>4. /\ Append(u, s[k]) \in Seq(A) /\ Len(Append(u, s[k])) = k
      /\ \A i \in 1 .. k : Append(u, s[k])[i] = IF i = k THEN s[k] ELSE u[i]
  BY ONLY <1>1, <1>2, AppendProperties
<1> DEFINE w == Append(u, s[k])
<1> HIDE DEF w
<1>5. w \in Seq(A) /\ Len(w) = k /\ \A i \in 1 .. k : w[i] = s[i]
  <2>1. \A i \in 1 .. k : i = k \/ i \in 1 .. k - 1 BY <1>1
  <2> QED BY <1>2, <1>4, <2>1 DEF w
<1>6. v = w BY ONLY <1>3, <1>5
<1> QED BY <1>1, <1>2, <1>6 DEF u, v, w

\* A sequence over a set is one over a larger set.
LEMMA WiderSeq ==
  ASSUME NEW A, NEW B, A \subseteq B, NEW s \in Seq(A)
  PROVE  s \in Seq(B)
OBVIOUS

\* Appending to the second of two sequences appends to both.
LEMMA AppendToBoth ==
  ASSUME NEW A, NEW s \in Seq(A), NEW u \in Seq(A), NEW x \in A
  PROVE  s \o Append(u, x) = Append(s \o u, x)
<1> DEFINE l == s \o Append(u, x)
           r == Append(s \o u, x)
           m == Len(s)
           n == Len(u)
<1>1. m \in Nat /\ n \in Nat OBVIOUS
<1>2. s \o u \in Seq(A) /\ Append(u, x) \in Seq(A) /\ Len(Append(u, x)) = n + 1 /\ Len(s \o u) = m + n OBVIOUS
<1>3. \A i \in 1 .. m + n : (s \o u)[i] = IF i <= m THEN s[i] ELSE u[i - m] OBVIOUS
<1>4. l \in Seq(A) /\ r \in Seq(A) /\ Len(l) = m + (n + 1) /\ Len(r) = (m + n) + 1
  BY ONLY <1>2, s \in Seq(A), x \in A
<1>5. \A i \in 1 .. m + (n + 1) : l[i] = IF i <= m THEN s[i] ELSE Append(u, x)[i - m]
  BY ONLY <1>2, s \in Seq(A)
<1>6. \A i \in 1 .. (m + n) + 1 : r[i] = IF i <= m + n THEN (s \o u)[i] ELSE x
  BY ONLY <1>2, x \in A
<1>7. \A i \in 1 .. n + 1 : Append(u, x)[i] = IF i <= n THEN u[i] ELSE x OBVIOUS
<1> HIDE DEF l, r, m, n
<1>8. ASSUME NEW i \in 1 .. m + (n + 1) PROVE l[i] = r[i]
  <2>1. CASE i <= m
    <3>1. i \in 1 .. m + n /\ i \in 1 .. (m + n) + 1 /\ i <= m + n BY ONLY <1>1, <2>1, <1>8
    <3> QED BY <1>3, <1>5, <1>6, <2>1, <3>1
  <2>2. CASE ~ (i <= m) /\ i <= m + n
    <3>1. i \in 1 .. m + n /\ i \in 1 .. (m + n) + 1 /\ i - m \in 1 .. n + 1 /\ i - m <= n BY ONLY <1>1, <2>2, <1>8
    <3> QED BY <1>3, <1>5, <1>6, <1>7, <2>2, <3>1
  <2>3. CASE ~ (i <= m + n)
    <3>1. i \in 1 .. (m + n) + 1 /\ i - m \in 1 .. n + 1 /\ ~ (i - m <= n) /\ ~ (i <= m) BY ONLY <1>1, <2>3, <1>8
    <3> QED BY <1>5, <1>6, <1>7, <2>3, <3>1
  <2> QED BY <2>1, <2>2, <2>3
<1>9. DOMAIN l = 1 .. m + (n + 1) /\ DOMAIN r = 1 .. m + (n + 1)
  <2>1. (m + n) + 1 = m + (n + 1) BY <1>1
  <2> QED BY <1>4, <2>1
<1>10. l = r BY ONLY <1>4, <1>8, <1>9
<1> QED BY <1>10 DEF l, r

(***************************************************************************)
(* Sequences of distinct elements, and their order.                        *)
(***************************************************************************)
\* a stands before b.
InOrder(seq, a, b) == \E i, j \in 1 .. Len(seq) : i < j /\ seq[i] = a /\ seq[j] = b

\* No element stands in a sequence twice.
Distinct(seq) == \A i, j \in 1 .. Len(seq) : seq[i] = seq[j] => i = j

\* An element more.
LEMMA AppendElements ==
  ASSUME NEW A, NEW s \in Seq(A), NEW x
  PROVE  ToSet(Append(s, x)) = ToSet(s) \cup {x}
<1> DEFINE n == Len(s)
           t == Append(s, x)
<1>1. n \in Nat /\ DOMAIN s = 1 .. n /\ DOMAIN t = 1 .. n + 1 /\ t[n + 1] = x /\ \A i \in 1 .. n : t[i] = s[i]
  OBVIOUS
<1> HIDE DEF t, n
<1>2. \A i \in 1 .. n + 1 : t[i] \in ToSet(s) \cup {x}
  <2> TAKE i \in 1 .. n + 1
  <2>1. i = n + 1 \/ i \in 1 .. n BY <1>1
  <2> QED BY <1>1, <2>1 DEF ToSet
<1>3. \A i \in 1 .. n : s[i] \in ToSet(t)
  <2> TAKE i \in 1 .. n
  <2>1. i \in 1 .. n + 1 BY <1>1
  <2> QED BY <1>1, <2>1 DEF ToSet
<1>4. x \in ToSet(t)
  <2>1. n + 1 \in 1 .. n + 1 BY <1>1
  <2> QED BY <1>1, <2>1 DEF ToSet
<1>5. ToSet(t) \subseteq ToSet(s) \cup {x} BY <1>1, <1>2 DEF ToSet
<1>6. ToSet(s) \subseteq ToSet(t) BY <1>1, <1>3 DEF ToSet
<1> QED BY <1>4, <1>5, <1>6 DEF t

\* The first element and the others.
LEMMA HeadAndTail ==
  ASSUME NEW A, NEW s \in Seq(A), s # <<>>
  PROVE  /\ Head(s) \in ToSet(s) /\ Tail(s) \in Seq(A) /\ Len(Tail(s)) = Len(s) - 1
         /\ ToSet(s) = {Head(s)} \cup ToSet(Tail(s))
<1> DEFINE n == Len(s)
           t == Tail(s)
<1>1. /\ n \in Nat \ {0} /\ DOMAIN s = 1 .. n /\ s[1] = Head(s) /\ t \in Seq(A) /\ Len(t) = n - 1
      /\ DOMAIN t = 1 .. n - 1 /\ \A i \in 1 .. n - 1 : t[i] = s[i + 1]
  OBVIOUS
<1> HIDE DEF t, n
<1>2. Head(s) \in ToSet(s)
  <2>1. 1 \in 1 .. n BY <1>1
  <2> QED BY <1>1, <2>1 DEF ToSet
<1>3. \A i \in 1 .. n : s[i] \in {Head(s)} \cup ToSet(t)
  <2> TAKE i \in 1 .. n
  <2>1. CASE i = 1 BY <1>1, <2>1
  <2>2. CASE i - 1 \in 1 .. n - 1
    <3>1. t[i - 1] = s[i] BY <1>1, <2>2
    <3> QED BY <1>1, <2>2, <3>1 DEF ToSet
  <2> QED BY <1>1, <2>1, <2>2
<1>4. \A i \in 1 .. n - 1 : t[i] \in ToSet(s)
  <2> TAKE i \in 1 .. n - 1
  <2>1. i + 1 \in 1 .. n BY <1>1
  <2> QED BY <1>1, <2>1 DEF ToSet
<1>5. ToSet(s) \subseteq {Head(s)} \cup ToSet(t) BY <1>1, <1>3 DEF ToSet
<1>6. ToSet(t) \subseteq ToSet(s) BY <1>1, <1>4 DEF ToSet
<1> QED BY <1>1, <1>2, <1>5, <1>6 DEF t, n

\* The first of a sequence may go to the end of the one before it.
LEMMA MovedOver ==
  ASSUME NEW A, NEW s \in Seq(A), NEW u \in Seq(A), u # <<>>
  PROVE  Append(s, Head(u)) \o Tail(u) = s \o u
<1>1. u = <<Head(u)>> \o Tail(u) /\ <<Head(u)>> \in Seq(A) /\ Tail(u) \in Seq(A) /\ Head(u) \in A
  <2> DEFINE v == Tail(u)
             h == Head(u)
             w == <<h>> \o v
  <2>1. /\ Len(u) \in Nat \ {0} /\ v \in Seq(A) /\ Len(v) = Len(u) - 1 /\ h \in A /\ h = u[1]
        /\ \A i \in 1 .. Len(u) - 1 : v[i] = u[i + 1]
    OBVIOUS
  <2>2. <<h>> \in Seq(A) /\ Len(<<h>>) = 1 /\ <<h>>[1] = h BY <2>1
  <2> HIDE DEF v, h
  <2>3. w \in Seq(A) /\ Len(w) = Len(u) BY <2>1, <2>2
  <2>4. \A i \in 1 .. Len(u) : w[i] = u[i]
    <3> TAKE i \in 1 .. Len(u)
    <3>1. CASE i = 1 BY <2>1, <2>2, <3>1
    <3>2. CASE i # 1
      <4>1. w[i] = v[i - 1] BY <2>1, <2>2, <3>2
      <4>2. i - 1 \in 1 .. Len(u) - 1 /\ i - 1 + 1 = i BY <2>1, <3>2
      <4> QED BY <2>1, <4>1, <4>2
    <3> QED BY <3>1, <3>2
  <2>5. w = u BY <2>3, <2>4, SeqEqual
  <2> QED BY <2>1, <2>2, <2>5 DEF v, h
<1>2. Append(s, Head(u)) = s \o <<Head(u)>> BY <1>1, AppendIsConcat
<1>3. (s \o <<Head(u)>>) \o Tail(u) = s \o (<<Head(u)>> \o Tail(u)) BY <1>1, ConcatAssociative
<1> QED BY <1>1, <1>2, <1>3

\* Appending to the first of two sequences inserts into both.
LEMMA Inserted ==
  ASSUME NEW A, NEW s \in Seq(A), NEW u \in Seq(A), NEW x \in A
  PROVE  LET v == Append(s, x) \o u
         IN  /\ v \in Seq(A) /\ ToSet(v) = ToSet(s \o u) \cup {x}
             /\ \A a, b : InOrder(s \o u, a, b) => InOrder(v, a, b)
             /\ \A a \in ToSet(s) : InOrder(v, a, x)
             /\ Distinct(s \o u) /\ x \notin ToSet(s \o u) => Distinct(v)
<1> DEFINE l == s \o u
           sx == Append(s, x)
           v == sx \o u
           m == Len(s)
           n == Len(u)
<1>1. m \in Nat /\ n \in Nat /\ DOMAIN s = 1 .. m OBVIOUS
<1>2. sx \in Seq(A) /\ Len(sx) = m + 1 /\ sx[m + 1] = x /\ \A i \in 1 .. m : sx[i] = s[i] OBVIOUS
<1>3. l \in Seq(A) /\ Len(l) = m + n /\ \A i \in 1 .. m + n : l[i] = IF i <= m THEN s[i] ELSE u[i - m]
  BY ConcatProperties
<1> HIDE DEF sx
<1>4. v \in Seq(A) /\ Len(v) = m + 1 + n /\ \A i \in 1 .. m + 1 + n : v[i] = IF i <= m + 1 THEN sx[i] ELSE u[i - (m + 1)]
  <2>1. v \in Seq(A) BY <1>2
  <2>2. Len(v) = Len(sx) + Len(u) /\ \A i \in 1 .. Len(sx) + Len(u) : v[i] = IF i <= Len(sx) THEN sx[i] ELSE u[i - Len(sx)]
    BY <1>2, ConcatProperties
  <2> QED BY ONLY <1>2, <2>1, <2>2
<1> HIDE DEF l, v, m, n
<1> DEFINE h(i) == IF i <= m THEN i ELSE i + 1
<1>5. \A i \in 1 .. m + n : h(i) \in 1 .. m + 1 + n /\ v[h(i)] = l[i]
  <2> TAKE i \in 1 .. m + n
  <2>1. CASE i <= m
    <3>1. h(i) = i /\ i \in 1 .. m /\ i \in 1 .. m + 1 + n /\ i <= m + 1 BY <1>1, <2>1
    <3> QED BY <1>2, <1>3, <1>4, <3>1, <2>1
  <2>2. CASE ~ (i <= m)
    <3> DEFINE k == i + 1
    <3>1. h(i) = k /\ k \in 1 .. m + 1 + n /\ ~ (k <= m + 1) /\ k - (m + 1) = i - m BY <1>1, <2>2
    <3>2. l[i] = u[i - m] BY <1>3, <2>2
    <3> HIDE DEF k
    <3>3. v[k] = u[k - (m + 1)] BY ONLY <1>4, <3>1
    <3> HIDE DEF h
    <3> QED BY ONLY <3>1, <3>2, <3>3
  <2> QED BY <2>1, <2>2
<1>6. \A i, j \in 1 .. m + n : i < j => h(i) < h(j) BY <1>1
<1>7. v[m + 1] = x /\ m + 1 \in 1 .. m + 1 + n BY <1>1, <1>2, <1>4
<1>8. \A k \in 1 .. m + 1 + n : k = m + 1 \/ \E i \in 1 .. m + n : k = h(i)
  <2> TAKE k \in 1 .. m + 1 + n
  <2>1. k <= m => k \in 1 .. m + n /\ k = h(k) BY <1>1
  <2>2. k > m + 1 => k - 1 \in 1 .. m + n /\ k = h(k - 1) BY <1>1
  <2> HIDE DEF h
  <2> QED BY <1>1, <2>1, <2>2
<1>9. \A i \in 1 .. m : l[i] = s[i] /\ h(i) = i /\ i \in 1 .. m + n /\ i < m + 1 BY <1>1, <1>3
<1> HIDE DEF h
<1>10. \A a, b : InOrder(l, a, b) => InOrder(v, a, b)
  <2> SUFFICES ASSUME NEW a, NEW b, NEW i \in 1 .. m + n, NEW j \in 1 .. m + n, i < j, l[i] = a, l[j] = b
               PROVE  InOrder(v, a, b)
    BY <1>3 DEF InOrder
  <2> QED BY <1>4, <1>5, <1>6 DEF InOrder
<1>11. \A a \in ToSet(s) : InOrder(v, a, x)
  <2> SUFFICES ASSUME NEW i \in 1 .. m PROVE InOrder(v, s[i], x) BY <1>1 DEF ToSet
  <2>1. i \in 1 .. m + 1 + n /\ v[i] = s[i] /\ i < m + 1 BY <1>5, <1>9
  <2> QED BY <1>4, <1>7, <2>1 DEF InOrder
<1>d. DOMAIN v = 1 .. m + 1 + n /\ DOMAIN l = 1 .. m + n BY <1>3, <1>4
<1>12. ToSet(v) = ToSet(l) \cup {x}
  <2>1. ToSet(v) \subseteq ToSet(l) \cup {x} BY <1>d, <1>5, <1>7, <1>8 DEF ToSet
  <2>2. ToSet(l) \subseteq ToSet(v) BY <1>d, <1>5 DEF ToSet
  <2>3. x \in ToSet(v) BY <1>d, <1>7 DEF ToSet
  <2> QED BY <2>1, <2>2, <2>3
<1>13. ASSUME Distinct(l), x \notin ToSet(l) PROVE Distinct(v)
  <2>1. \A i \in 1 .. m + n : l[i] # x BY <1>d, <1>13 DEF ToSet
  <2>2. \A i, j \in 1 .. m + n : l[i] = l[j] => i = j BY <1>3, <1>13 DEF Distinct
  <2>3. SUFFICES ASSUME NEW k1 \in 1 .. m + 1 + n, NEW k2 \in 1 .. m + 1 + n, v[k1] = v[k2] PROVE k1 = k2
    BY <1>4 DEF Distinct
  <2> QED BY <1>5, <1>7, <1>8, <2>1, <2>2, <2>3
<1> QED BY <1>4, <1>10, <1>11, <1>12, <1>13 DEF l, v, sx

\* What is distinct in two sequences is so in each, and none is in both; what comes
\* before an element of the first does so there.
LEMMA FrontOrder ==
  ASSUME NEW A, NEW s \in Seq(A), NEW u \in Seq(A), Distinct(s \o u)
  PROVE  /\ Distinct(s) /\ ToSet(s) \cap ToSet(u) = {}
         /\ \A a, b : InOrder(s \o u, a, b) /\ b \in ToSet(s) => InOrder(s, a, b)
<1> DEFINE l == s \o u
           m == Len(s)
           n == Len(u)
<1>1. m \in Nat /\ n \in Nat /\ DOMAIN s = 1 .. m /\ DOMAIN u = 1 .. n OBVIOUS
<1>2. Len(l) = m + n /\ \A i \in 1 .. m + n : l[i] = IF i <= m THEN s[i] ELSE u[i - m]
  BY ConcatProperties
<1> HIDE DEF l, m, n
<1>3. \A i, j \in 1 .. m + n : l[i] = l[j] => i = j BY <1>2 DEF Distinct, l
<1>4. \A i \in 1 .. m : i \in 1 .. m + n /\ l[i] = s[i] BY <1>1, <1>2
<1>5. \A i \in 1 .. n : m + i \in 1 .. m + n /\ l[m + i] = u[i] /\ m + i > m
  <2> TAKE i \in 1 .. n
  <2> DEFINE k == m + i
  <2>1. k \in 1 .. m + n /\ ~ (k <= m) /\ k - m = i /\ k > m BY <1>1
  <2> HIDE DEF k
  <2>2. l[k] = u[k - m] BY <1>2, <2>1
  <2> QED BY <2>1, <2>2 DEF k
<1>6. Distinct(s) BY <1>3, <1>4 DEF Distinct, m
<1>7. ToSet(s) \cap ToSet(u) = {}
  <2> SUFFICES ASSUME NEW i \in 1 .. m, NEW j \in 1 .. n, s[i] = u[j] PROVE FALSE BY <1>1 DEF ToSet
  <2>1. i = m + j BY <1>3, <1>4, <1>5
  <2> QED BY <1>1, <2>1
<1>8. ASSUME NEW a, NEW b \in ToSet(s), InOrder(l, a, b) PROVE InOrder(s, a, b)
  <2>1. PICK k \in 1 .. m : s[k] = b BY <1>1 DEF ToSet
  <2>2. PICK i \in 1 .. m + n : \E j \in 1 .. m + n : i < j /\ l[i] = a /\ l[j] = b
    BY <1>2, <1>8 DEF InOrder
  <2>3. PICK j \in 1 .. m + n : i < j /\ l[i] = a /\ l[j] = b BY <2>2
  <2>4. j = k BY <1>3, <1>4, <2>1, <2>3
  <2>5. i \in 1 .. m BY <1>1, <2>3, <2>4
  <2>6. s[i] = a /\ s[k] = b /\ i < k BY <1>4, <2>1, <2>3, <2>4, <2>5
  <2> QED BY <2>5, <2>6 DEF InOrder, m
<1> QED BY <1>6, <1>7, <1>8 DEF l

(***************************************************************************)
(* Sequences in which no element stands twice.                             *)
(***************************************************************************)
\* What is filtered keeps its elements distinct.
LEMMA FilteredDistinct ==
  ASSUME NEW A, NEW s \in Seq(A), NEW S, Distinct(s)
  PROVE  Distinct(Filtered(s, S))
<1> DEFINE t == Filtered(s, S)
<1>1. t \in Seq(A) /\ Embeds(t, s, S, Len(s)) BY FilteredEmbeds
<1> HIDE DEF t
<1>2. PICK h \in [1 .. Len(t) -> 1 .. Len(s)] :
        /\ \A i, j \in 1 .. Len(t) : i < j => h[i] < h[j]
        /\ \A i \in 1 .. Len(t) : t[i] = s[h[i]]
  BY <1>1 DEF Embeds
<1>3. SUFFICES ASSUME NEW i \in 1 .. Len(t), NEW j \in 1 .. Len(t), t[i] = t[j] PROVE i = j
  BY DEF Distinct, t
<1>4. h[i] = h[j] BY <1>2, <1>3 DEF Distinct
<1>5. i \in Int /\ j \in Int /\ ~ (i < j) /\ ~ (j < i) 
  <2>1. h[i] \in Int /\ h[j] \in Int BY <1>2
  <2> QED BY <1>2, <1>4, <2>1
<1> QED BY <1>5

\* A new element at the end of a sequence.
LEMMA AppendDistinct ==
  ASSUME NEW A, NEW s \in Seq(A), NEW x \in A, Distinct(s), x \notin ToSet(s)
  PROVE  Distinct(Append(s, x))
<1> DEFINE t == Append(s, x)
           n == Len(s)
<1>1. n \in Nat /\ DOMAIN s = 1 .. n OBVIOUS
<1>2. Len(t) = n + 1 /\ t[n + 1] = x /\ \A i \in 1 .. n : t[i] = s[i] OBVIOUS
<1>3. \A i \in 1 .. n : s[i] # x BY <1>1 DEF ToSet
<1>4. \A i, j \in 1 .. n : s[i] = s[j] => i = j BY DEF Distinct
<1> HIDE DEF t, n
<1>5. \A i \in 1 .. n + 1 : i \in 1 .. n \/ i = n + 1 BY <1>1
<1>6. SUFFICES ASSUME NEW i \in 1 .. n + 1, NEW j \in 1 .. n + 1, t[i] = t[j] PROVE i = j
  BY <1>2 DEF Distinct, t
<1> QED BY <1>2, <1>3, <1>4, <1>5, <1>6

\* Two sequences that share no element.
LEMMA BothDistinct ==
  ASSUME NEW A, NEW s \in Seq(A), NEW u \in Seq(A), Distinct(s), Distinct(u), ToSet(s) \cap ToSet(u) = {}
  PROVE  Distinct(s \o u)
<1> DEFINE l == s \o u
           m == Len(s)
           n == Len(u)
<1>1. m \in Nat /\ n \in Nat /\ DOMAIN s = 1 .. m /\ DOMAIN u = 1 .. n OBVIOUS
<1>2. l \in Seq(A) /\ Len(l) = m + n /\ \A i \in 1 .. m + n : l[i] = IF i <= m THEN s[i] ELSE u[i - m]
  BY ConcatProperties
<1>3. \A i \in 1 .. m, j \in 1 .. n : s[i] # u[j] BY <1>1 DEF ToSet
<1>4. (\A i, j \in 1 .. m : s[i] = s[j] => i = j) /\ (\A i, j \in 1 .. n : u[i] = u[j] => i = j) BY DEF Distinct
<1> HIDE DEF l, m, n
<1>5. SUFFICES ASSUME NEW i \in 1 .. m + n, NEW j \in 1 .. m + n, l[i] = l[j] PROVE i = j
  BY <1>2 DEF Distinct, l
<1>6. \A k \in 1 .. m + n : (k <= m => k \in 1 .. m) /\ (~ (k <= m) => k - m \in 1 .. n) BY <1>1
<1>7. CASE i <= m /\ j <= m BY <1>2, <1>4, <1>5, <1>6, <1>7
<1>8. CASE ~ (i <= m) /\ ~ (j <= m)
  <2>1. u[i - m] = u[j - m] BY <1>2, <1>5, <1>8
  <2>2. i - m = j - m BY <1>4, <1>6, <1>8, <2>1
  <2> QED BY <1>1, <2>2
<1>9. CASE i <= m /\ ~ (j <= m)
  <2>1. s[i] = u[j - m] BY <1>2, <1>5, <1>9
  <2> QED BY <1>3, <1>6, <1>9, <2>1
<1>10. CASE ~ (i <= m) /\ j <= m
  <2>1. s[j] = u[i - m] BY <1>2, <1>5, <1>10
  <2> QED BY <1>3, <1>6, <1>10, <2>1
<1> QED BY <1>7, <1>8, <1>9, <1>10

\* What its length says of the elements of a sequence of distinct ones.
LEMMA LengthCounts ==
  ASSUME NEW A, NEW s \in Seq(A), Distinct(s)
  PROVE  /\ Len(s) \in Nat
         /\ Len(s) = 0 <=> ToSet(s) = {}
         /\ s = <<>> <=> ToSet(s) = {}
         /\ Len(s) = 1 => \E x \in A : ToSet(s) = {x}
         /\ Len(s) > 1 => \E x, y \in ToSet(s) : x # y
<1>1. Len(s) \in Nat /\ DOMAIN s = 1 .. Len(s) /\ \A i \in 1 .. Len(s) : s[i] \in A OBVIOUS
<1>2. Len(s) = 0 <=> ToSet(s) = {}
  <2>1. ASSUME Len(s) # 0 PROVE s[1] \in ToSet(s) BY <1>1, <2>1 DEF ToSet
  <2>2. ASSUME Len(s) = 0 PROVE ToSet(s) = {} BY <1>1, <2>2 DEF ToSet
  <2> QED BY <2>1, <2>2
<1>3. s = <<>> <=> Len(s) = 0 BY EmptySeq
<1>4. Len(s) = 1 => \E x \in A : ToSet(s) = {x}
  <2> SUFFICES ASSUME Len(s) = 1 PROVE \E x \in A : ToSet(s) = {x} OBVIOUS
  <2>1. DOMAIN s = {1} /\ s[1] \in A BY <1>1
  <2>2. ToSet(s) = {s[1]} BY <2>1 DEF ToSet
  <2> QED BY <2>1, <2>2
<1>5. Len(s) > 1 => \E x, y \in ToSet(s) : x # y
  <2> SUFFICES ASSUME Len(s) > 1 PROVE \E x, y \in ToSet(s) : x # y OBVIOUS
  <2>1. 1 \in 1 .. Len(s) /\ 2 \in 1 .. Len(s) BY <1>1
  <2>2. s[1] # s[2] BY <2>1 DEF Distinct
  <2>3. s[1] \in ToSet(s) /\ s[2] \in ToSet(s) BY <1>1, <2>1 DEF ToSet
  <2> QED BY <2>2, <2>3
<1> QED BY <1>1, <1>2, <1>3, <1>4, <1>5
===============================================================================
