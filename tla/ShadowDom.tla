------------------------------ MODULE ShadowDom ------------------------------
(***************************************************************************)
(* The two trees of the ShadowDOM polyfill.  The browser has one tree, the *)
(* visual one, where a shadow host shows what is composed of its shadow    *)
(* roots and its children.  The page sees the other, logical one through   *)
(* wrappers, whose pointers override the visual ones where the two differ. *)
(* One host, its shadow roots and insertion points; the page changes the   *)
(* logical tree, and the renderer the visual one, in any order.            *)
(***************************************************************************)
EXTENDS ArraySplice, FiniteSets

CONSTANTS DomNodes,      \* every node; shadow roots are nodes too
          Host,          \* the shadow host
          Roots,         \* the shadow roots it may get, in order of creation
          Fragments,     \* document fragments
          Contents,      \* content elements
          Selective,     \* those among them that select what is marked
          Shadows,       \* shadow elements
          FirstTree,     \* node -> its children at the start
          FirstIn,       \* shadow root -> the nodes the page fills it with
          Null, Undef,   \* null and undefined
          MaxOps         \* bound: operations of the page

RootSet == ToSet(Roots)

ASSUME DomAssumption ==
    /\ Host \in DomNodes /\ Roots \in Seq(DomNodes)
    /\ Contents \cup Shadows \cup Fragments \subseteq DomNodes /\ Selective \subseteq Contents
    /\ FirstTree \in [DomNodes -> Seq(DomNodes)] /\ FirstIn \in [RootSet -> Seq(DomNodes)]
    /\ {Null, Undef} \cap DomNodes = {} /\ MaxOps \in Nat

VARIABLES dom,      \* the visual tree and the pointers of the wrappers, see below
          roots,    \* the shadow roots of the host, the youngest first
          marked,   \* the elements with the attribute that Selective contents select
          ideal,    \* history: node -> the children the page gave it
          muddled,  \* history: a case came up that the polyfill gets wrong
          ops       \* how much of the bound was used

shadowVars == <<dom, roots, marked, ideal, muddled, ops>>

InsertionPoints == Contents \cup Shadows

(***************************************************************************)
(* dom.kids is the visual tree; dom.parent and the others are parentNode_, *)
(* firstChild_, ... of the wrappers; dom.scope is the root of treeScope_;  *)
(* dom.rendered holds the nodes with a polymerShadowRenderer_, dom.dirty   *)
(* is the renderer's, dom.depends whether it depends on the attribute;     *)
(* dom.threw: the browser refused a change, and an exception is under way. *)
(***************************************************************************)
Unset == [n \in DomNodes |-> Undef]

ShadowInit ==
    /\ dom = [kids |-> FirstTree, parent |-> Unset, first |-> Unset, last |-> Unset,
              next |-> Unset, prev |-> Unset, scope |-> Unset,
              rendered |-> {}, dirty |-> FALSE, depends |-> FALSE, threw |-> FALSE]
    /\ roots = <<>>
    /\ marked = {}
    /\ ideal = FirstTree
    /\ muddled = FALSE
    /\ ops = 0

Where(s, n) == SelectInSeq(s, LAMBDA m : m = n)
Wrap(s, i) == IF i \in DOMAIN s THEN s[i] ELSE Null

VParent(d, n) == IF \E p \in DomNodes : Contains(d.kids[p], n)
                 THEN CHOOSE p \in DomNodes : Contains(d.kids[p], n) ELSE Null
VSibling(d, n, step) == LET p == VParent(d, n)
                        IN  IF p = Null THEN Null ELSE Wrap(d.kids[p], Where(d.kids[p], n) + step)

\* The getters: an overriding pointer, or what the browser has.
ParentNode(d, n)  == IF d.parent[n] # Undef THEN d.parent[n] ELSE VParent(d, n)
FirstChild(d, n)  == IF d.first[n] # Undef THEN d.first[n] ELSE Wrap(d.kids[n], 1)
LastChild(d, n)   == IF d.last[n] # Undef THEN d.last[n] ELSE Wrap(d.kids[n], Len(d.kids[n]))
NextSibling(d, n) == IF d.next[n] # Undef THEN d.next[n] ELSE VSibling(d, n, 1)
PrevSibling(d, n) == IF d.prev[n] # Undef THEN d.prev[n] ELSE VSibling(d, n, -1)

\* firstChild and then nextSibling, for as long as there is one.
RECURSIVE chainFrom(_, _, _)
chainFrom(d, n, fuel) ==
    IF n = Null \/ fuel = 0 THEN <<>> ELSE <<n>> \o chainFrom(d, NextSibling(d, n), fuel - 1)

childNodes(d, n) == chainFrom(d, FirstChild(d, n), Cardinality(DomNodes) + 1)

\* The descendants of n in a tree given by kids, and n.
RECURSIVE Under(_, _)
Under(kids, n) == {n} \cup UNION {Under(kids, c) : c \in ToSet(kids[n])}

(***************************************************************************)
(* What the browser does.                                                  *)
(***************************************************************************)
Detach(kids, n) == [p \in DomNodes |-> SelectSeq(kids[p], LAMBDA m : m # n)]

\* Inserts the nodes ns before ref, or refuses.
RECURSIVE nativeInsert(_, _, _, _)
nativeInsert(d, p, ns, ref) ==
    IF ns = <<>> \/ d.threw THEN d
    ELSE LET n == Head(ns)
             before == IF ref = n THEN VSibling(d, n, 1) ELSE ref
             kids == Detach(d.kids, n)
             at == IF before = Null THEN Len(kids[p]) + 1 ELSE Where(kids[p], before)
         IN  IF p \in Under(d.kids, n) \/ at = 0 THEN [d EXCEPT !.threw = TRUE]
             ELSE nativeInsert([d EXCEPT !.kids = [kids EXCEPT ![p] = InsertAt(@, at, n)]],
                               p, Tail(ns), before)

nativeRemove(d, p, n) ==
    IF d.threw THEN d
    ELSE IF ~Contains(d.kids[p], n) THEN [d EXCEPT !.threw = TRUE]
    ELSE [d EXCEPT !.kids = Detach(@, n)]

(***************************************************************************)
(* Invalidation, and the scope of a node: the root of its tree.            *)
(***************************************************************************)
HasRenderer(d, n) == IF n \in RootSet THEN Host \in d.rendered ELSE n \in d.rendered

invalidate(d, n) == IF HasRenderer(d, n) THEN [d EXCEPT !.dirty = TRUE] ELSE d

RECURSIVE getTreeScope(_, _)
getTreeScope(d, n) ==
    IF d.scope[n] # Undef THEN d.scope[n]
    ELSE IF n \in RootSet \/ ParentNode(d, n) = Null THEN n
    ELSE getTreeScope(d, ParentNode(d, n))

RECURSIVE setTreeScope(_, _, _)
setTreeScope(d, n, root) ==
    IF d.scope[n] = root THEN d
    ELSE FoldLeft(LAMBDA e, c : setTreeScope(e, c, root),
                  [d EXCEPT !.scope[n] = root], childNodes(d, n))

\* An insertion point gets the renderer of the host whose shadow tree it is in.
RECURSIVE nodeIsInserted_(_, _)
nodeIsInserted_(d, n) ==
    IF n \in InsertionPoints
    THEN LET e == invalidate(d, n) IN
         IF getTreeScope(e, n) \in RootSet
         THEN [e EXCEPT !.rendered = @ \cup {n}, !.dirty = TRUE]
         ELSE [e EXCEPT !.rendered = @ \ {n}]
    ELSE FoldLeft(LAMBDA e, c : nodeIsInserted_(e, c), d, childNodes(d, n))

nodesWereAdded(d, ns, p) ==
    LET root == getTreeScope(d, p)
        e == [d EXCEPT !.scope[p] = root]
    IN  FoldLeft(LAMBDA f, n : nodeIsInserted_(setTreeScope(f, n, root), n), e, ns)

nodeWasRemoved(d, n) == setTreeScope(d, n, n)

(***************************************************************************)
(* The operations of Node.                                                 *)
(***************************************************************************)
Clear(d, n) == [d EXCEPT !.parent[n] = Undef, !.next[n] = Undef, !.prev[n] = Undef]

\* The loop goes along the overriding pointers only.
RECURSIVE clearFrom(_, _)
clearFrom(d, n) == IF n \in {Null, Undef} THEN d ELSE clearFrom(Clear(d, n), d.next[n])

clearChildNodes(d, n) ==
    [clearFrom(d, d.first[n]) EXCEPT !.first[n] = Undef, !.last[n] = Undef]

SetNext(d, n, m) == IF n = Null THEN d ELSE [d EXCEPT !.next[n] = m]
SetPrev(d, n, m) == IF n = Null THEN d ELSE [d EXCEPT !.prev[n] = m]

\* What n leaves: its parent's ends and its neighbours; d is the state before.
unlink(e, d, p, n, prev, next) ==
    SetPrev(SetNext([e EXCEPT !.first[p] = IF FirstChild(d, p) = n THEN next ELSE @,
                              !.last[p] = IF LastChild(d, p) = n THEN prev ELSE @],
                    prev, next), next, prev)

removeVisually(d, n) == IF VParent(d, n) = Null THEN d ELSE nativeRemove(d, VParent(d, n), n)

removeValid(d, p, n) ==
    IF HasRenderer(d, p)
    THEN Clear(unlink(removeVisually(d, n), d, p, n, PrevSibling(d, n), NextSibling(d, n)), n)
    ELSE nativeRemove(clearChildNodes(d, p), p, n)

removeChild(d, p, n) == removeValid(invalidate(d, p), p, n)

NodesOf(d, n) == IF n \in Fragments THEN childNodes(d, n) ELSE <<n>>

\* Out of the old place.
takeOut(d, n, parent) ==
    IF n \in Fragments
    THEN FoldLeft(LAMBDA e, c : [removeChild(e, n, c) EXCEPT !.parent[c] = parent],
                  d, Reverse(childNodes(d, n)))
    ELSE [(IF ParentNode(d, n) = Null THEN d ELSE removeChild(d, ParentNode(d, n), n))
             EXCEPT !.parent[n] = parent]

\* The nodes in a row between prev and next.
linkUp(d, nodes, prev, next) ==
    SetPrev(SetNext(FoldLeft(LAMBDA e, i :
                        [e EXCEPT !.prev[nodes[i]] = IF i > 1 THEN nodes[i - 1] ELSE prev,
                                  !.next[nodes[i]] = IF i < Len(nodes) THEN nodes[i + 1] ELSE next],
                        d, [i \in DOMAIN nodes |-> i]),
                    prev, nodes[1]), next, nodes[Len(nodes)])

\* Out of the old place, and linked into the new one.
collectNodes(d, n, nodes, parent, prev, next) ==
    IF nodes = <<>> THEN SetPrev(SetNext(d, prev, Undef), next, Undef)
    ELSE linkUp(takeOut(d, n, parent), nodes, prev, next)

\* The two ways: the browser does it, or the pointers are updated as well.
useNative(d, p, n) ==
    /\ ~HasRenderer(d, p)
    /\ ParentNode(d, n) # Null => ~HasRenderer(d, ParentNode(d, n))

invalidateBoth(d, p, n) ==
    LET e == invalidate(d, p)
    IN  IF HasRenderer(d, p) \/ ParentNode(d, n) = Null THEN e ELSE invalidate(e, ParentNode(d, n))

setFirst(d, p, nodes) == [d EXCEPT !.first[p] = IF nodes = <<>> THEN Undef ELSE nodes[1]]
setLast(d, p, nodes) == [d EXCEPT !.last[p] = IF nodes = <<>> THEN Undef ELSE nodes[Len(nodes)]]
knowFirst(d, p) == IF d.first[p] = Undef THEN [d EXCEPT !.first[p] = FirstChild(d, p)] ELSE d

linkedFirst(d, p, nodes, prev) == IF prev = Null THEN setFirst(d, p, nodes) ELSE d
linkedLast(d, p, nodes, ref) == IF ref = Null THEN knowFirst(setLast(d, p, nodes), p) ELSE d

insertInto(d, into, nodes, ref) == IF into = Null THEN d ELSE nativeInsert(d, into, nodes, ref)
insertVisually(d, p, nodes, ref) == insertInto(d, IF ref = Null THEN p ELSE VParent(d, ref), nodes, ref)

insertLinked(d, p, n, nodes, prev, ref) ==
    insertVisually(linkedLast(linkedFirst(collectNodes(d, n, nodes, p, prev, ref), p, nodes, prev),
                              p, nodes, ref), p, nodes, ref)

insertValid(d, p, n, nodes, ref, native) ==
    nodesWereAdded(
        IF native THEN nativeInsert(clearChildNodes(d, p), p, nodes, ref)
        ELSE insertLinked(d, p, n, nodes, IF ref = Null THEN LastChild(d, p) ELSE PrevSibling(d, ref), ref),
        nodes, p)

insertBefore(d, p, n, ref) ==
    insertValid(invalidateBoth(d, p, n), p, n, NodesOf(d, n), ref, useNative(d, p, n))

\* The ends of p, where they were the node that goes.
replacedFirst(d, p, nodes, old) == IF FirstChild(d, p) = old THEN setFirst(d, p, nodes) ELSE d
replacedLast(d, p, nodes, old) == IF LastChild(d, p) = old THEN setLast(d, p, nodes) ELSE d

swap(d, into, nodes, old) ==
    IF into = Null THEN d ELSE nativeRemove(nativeInsert(d, into, nodes, old), into, old)
swapVisually(d, nodes, old) == swap(d, VParent(d, old), nodes, old)

nextOf(d, old, n) == IF NextSibling(d, old) = n THEN NextSibling(d, n) ELSE NextSibling(d, old)

replaceLinked(d, p, n, nodes, old) ==
    swapVisually(Clear(replacedLast(replacedFirst(
        collectNodes(d, n, nodes, p, PrevSibling(d, old), nextOf(d, old, n)),
        p, nodes, old), p, nodes, old), old), nodes, old)

replaceValid(d, p, n, nodes, old, native) ==
    nodesWereAdded(nodeWasRemoved(
        IF native THEN swap(clearChildNodes(d, p), p, nodes, old)
        ELSE replaceLinked(d, p, n, nodes, old), old), nodes, p)

replaceChild(d, p, n, old) ==
    replaceValid(invalidateBoth(d, p, n), p, n, NodesOf(d, n), old, useNative(d, p, n))

\* textContent = "": every child goes.
takeAway(d, v, n) == [(IF v = Null THEN d ELSE nativeRemove(d, v, n))
                         EXCEPT !.prev[n] = Null, !.next[n] = Null, !.parent[n] = Null]

removeAllLinked(d, p, nodes) ==
    [FoldLeft(LAMBDA e, c : takeAway(e, VParent(e, c), c), d, nodes)
        EXCEPT !.first[p] = Null, !.last[p] = Null]

removeAllNative(d, p) == FoldLeft(LAMBDA e, c : nativeRemove(e, p, c), d, d.kids[p])

removeAllValid(d, p, nodes) ==
    FoldLeft(nodeWasRemoved,
             IF HasRenderer(d, p) THEN removeAllLinked(d, p, nodes)
             ELSE removeAllNative(clearChildNodes(d, p), p),
             nodes)

removeAllChildNodes(d, p) == removeAllValid(invalidate(d, p), p, childNodes(d, p))

(***************************************************************************)
(* Distribution: the nodes each insertion point shows, and the insertion   *)
(* points each node has come to.                                           *)
(***************************************************************************)
NoDistribution == [nodes |-> [n \in DomNodes |-> <<>>], points |-> [n \in DomNodes |-> <<>>],
                   depends |-> FALSE, threw |-> FALSE]

destributeNodeInto(t, child, point) ==
    IF child = Undef THEN [t EXCEPT !.threw = TRUE]
    ELSE [t EXCEPT !.nodes[point] = Append(@, child), !.points[child] = Append(@, point)]

poolPopulation(d, t, n) ==
    FlattenSeq([i \in DOMAIN childNodes(d, n) |->
                   LET c == childNodes(d, n)[i]
                   IN  IF c \in InsertionPoints THEN t.nodes[c] ELSE <<c>>])

matches(n, content) == content \in Selective => n \in marked

\* A content element takes what it matches out of the pool, or shows its children.
takeFromPool(d, t, content) ==
    LET wanted == SelectSeq(t.pool, LAMBDA n : n # Undef /\ matches(n, content))
        shown  == IF wanted = <<>> THEN childNodes(d, content) ELSE wanted
        t2 == FoldLeft(LAMBDA s, c : destributeNodeInto(s, c, content), t, shown)
    IN  [t2 EXCEPT !.pool = [i \in DOMAIN @ |->
                                IF @[i] # Undef /\ matches(@[i], content) THEN Undef ELSE @[i]],
                   !.depends = @ \/ content \in Selective]

RECURSIVE poolDistribution(_, _, _)
poolDistribution(d, t, n) ==
    IF n \in Shadows THEN t
    ELSE IF n \in Contents THEN takeFromPool(d, t, n)
    ELSE FoldLeft(LAMBDA s, c : poolDistribution(d, s, c), t, childNodes(d, n))

RECURSIVE getShadowInsertionPoint(_, _)
getShadowInsertionPoint(d, n) ==
    IF n \in Shadows THEN n
    ELSE IF n \in Contents THEN Null
    ELSE LET found == SelectSeq([i \in DOMAIN childNodes(d, n) |->
                                    getShadowInsertionPoint(d, childNodes(d, n)[i])],
                                LAMBDA m : m # Null)
         IN  Wrap(found, 1)

\* From the oldest tree: its shadow element shows the children of the next older
\* tree, or what is left of the pool.
intoShadow(d, t, tree, older) ==
    LET shadow == getShadowInsertionPoint(d, tree)
        pool == IF older = Null THEN t.pool ELSE poolPopulation(d, t, older)
    IN  IF shadow = Null THEN t
        ELSE [FoldLeft(LAMBDA s, c : destributeNodeInto(s, c, shadow), t, pool)
                 EXCEPT !.pool = pool]

distributionResolution(d) ==
    LET start == [nodes |-> NoDistribution.nodes, points |-> NoDistribution.points,
                  depends |-> FALSE, threw |-> FALSE, pool |-> <<>>]
        t1 == FoldLeft(LAMBDA t, tree : poolDistribution(d, t, tree),
                       [start EXCEPT !.pool = poolPopulation(d, start, Host)], roots)
    IN  FoldLeft(LAMBDA t, i : intoShadow(d, t, roots[i], Wrap(roots, i + 1)),
                 t1, Reverse([i \in DOMAIN roots |-> i]))

(***************************************************************************)
(* The render tree, and how the visual tree is made to agree with it.      *)
(***************************************************************************)
composedParent(n) == IF n = Host /\ roots # <<>> THEN roots[1] ELSE n

compose(d, t, n) ==
    LET p == composedParent(n)
        shown(c) == IF c \in InsertionPoints
                    THEN SelectSeq(t.nodes[c], LAMBDA m : Last(t.points[m]) = c) ELSE <<c>>
    IN  FlattenSeq([i \in DOMAIN childNodes(d, p) |-> shown(childNodes(d, p)[i])])

\* Nodes whose composition an insertion point has a part in.
RECURSIVE associated(_, _, _)
associated(d, t, n) ==
    LET p == composedParent(n) IN
    (IF ToSet(childNodes(d, p)) \cap InsertionPoints # {} THEN {p} ELSE {})
        \cup UNION {associated(d, t, c) : c \in ToSet(compose(d, t, n))}

updateWrapperUpAndSideways(d, n) ==
    [d EXCEPT !.prev[n] = PrevSibling(d, n), !.next[n] = NextSibling(d, n),
              !.parent[n] = ParentNode(d, n)]

\* What the siblings of n, and then its parent, remember of it.
rememberPrev(d, n) == IF PrevSibling(d, n) = Null THEN d ELSE SetNext(d, PrevSibling(d, n), n)
rememberNext(d, n) == IF NextSibling(d, n) = Null THEN d ELSE SetPrev(d, NextSibling(d, n), n)
rememberLast(d, p, n) == IF LastChild(d, p) = n THEN [d EXCEPT !.last[p] = n] ELSE d
rememberFirst(d, p, n) == IF FirstChild(d, p) = n THEN [d EXCEPT !.first[p] = n] ELSE d

remembered(d, n) == rememberNext(rememberPrev(updateWrapperUpAndSideways(d, n), n), n)

\* Mutant: a node's parent does not remember what n was to it.
visualRemoveForgets(d, n) ==
    IF VParent(d, n) = Null THEN d ELSE nativeRemove(remembered(d, n), VParent(d, n), n)

visualRemoveFrom(d, p, n) ==
    nativeRemove(rememberFirst(rememberLast(remembered(d, n), p, n), p, n), p, n)

\* Before a node moves in the visual tree, the wrappers around it remember.
visualRemove(d, n) == IF VParent(d, n) = Null THEN d ELSE visualRemoveFrom(d, VParent(d, n), n)

\* What the visual parent and the new neighbour remember.
lastKept(d, p) == [d EXCEPT !.last[p] = LastChild(d, p)]
onlyKept(d, p) == IF LastChild(d, p) = FirstChild(d, p) THEN [d EXCEPT !.first[p] = FirstChild(d, p)]
                  ELSE d
nextKept(d, v) == IF v = Null THEN d ELSE SetNext(d, v, NextSibling(d, v))
keptAtEnd(d, p) == nextKept(onlyKept(lastKept(d, p), p), Wrap(d.kids[p], Len(d.kids[p])))

prevKept(d, ref) == SetPrev(d, ref, PrevSibling(d, ref))
keptWithin(d, p, ref) == prevKept(rememberFirst(d, p, ref), ref)

visualInsertKept(d, p, n, ref) ==
    nativeInsert(IF ref = Null THEN keptAtEnd(d, p) ELSE keptWithin(d, p, ref), p, <<n>>, ref)

visualInsertBefore(d, p, n, ref) ==
    visualInsertKept(updateWrapperUpAndSideways(visualRemove(d, n), n), p, n, ref)

calculateSplices(current, previous) ==
    calcSplices(current, 0, Len(current), previous, 0, Len(previous))

\* st is [dom, added, last, old]: the nodes that have moved, and how far the two
\* lists of children were read.  What is to be shown is composed of the pointers
\* and the distribution there were before: d0 and t.
dropAll(st, gone) ==
    FoldLeft(LAMBDA u, m : IF m \in u.added THEN u ELSE [u EXCEPT !.dom = visualRemove(@, m)], st, gone)

addTo(st, n, m, ref) == [st EXCEPT !.dom = visualInsertBefore(@, n, m, ref), !.added = @ \cup {m}]

readOn(st, sp) == [st EXCEPT !.old = @ + (sp.index - st.last) + Len(sp.removed),
                             !.last = sp.index + sp.addedCount]

RECURSIVE sync(_, _, _, _), syncSplices(_, _, _, _, _, _, _)
sync(st, d0, t, n) ==
    IF st.dom.threw THEN st
    ELSE syncSplices([st EXCEPT !.last = 0, !.old = 0], d0, t, n, compose(d0, t, n), st.dom.kids[n],
                     calculateSplices(compose(d0, t, n), st.dom.kids[n]))

\* The children that stay are synced up to the next splice; then what it removes
\* goes, and what it adds comes.
syncSplices(st, d0, t, n, new, old, splices) ==
    LET keep(s, upTo) ==
            [FoldLeft(LAMBDA u, i : sync(u, d0, t, new[i]), s, [k \in 1 .. upTo - s.last |-> s.last + k])
                EXCEPT !.last = s.last, !.old = s.old]
        add(s, sp, ref) ==
            [FoldLeft(LAMBDA u, m : sync(addTo(u, n, m, ref), d0, t, m), s,
                      SubSeq(new, sp.index + 1, sp.index + sp.addedCount))
                EXCEPT !.last = s.last, !.old = s.old]
        apply(s, sp) == add(readOn(dropAll(keep(s, sp.index), sp.removed), sp), sp,
                            Wrap(old, readOn(s, sp).old + 1))
    IN  keep(FoldLeft(apply, st, splices), Len(new))

renderTree(d, t) ==
    IF t.threw THEN [d EXCEPT !.threw = TRUE, !.depends = t.depends]
    ELSE [sync([dom |-> [d EXCEPT !.rendered = @ \cup associated(d, t, Host)],
                added |-> {}, last |-> 0, old |-> 0], d, t, Host).dom
             EXCEPT !.dirty = FALSE, !.depends = t.depends]

render(d) == renderTree(d, distributionResolution(d))

(***************************************************************************)
(* The page and the animation frame.                                       *)
(***************************************************************************)
Exists(n) == n \in RootSet => n \in ToSet(roots)
Movable == DomNodes \ (RootSet \cup {Host} \cup Fragments)

idealParent(n) == IF \E p \in DomNodes : Contains(ideal[p], n)
                  THEN CHOOSE p \in DomNodes : Contains(ideal[p], n) ELSE Null
idealNodes(n) == IF n \in Fragments THEN ideal[n] ELSE <<n>>

\* The children of p with the nodes of n before ref, as the DOM standard has it.
idealInsert(p, n, ref) ==
    LET ns == idealNodes(n)
        stay(q) == SelectSeq(ideal[q], LAMBDA m : ~Contains(ns, m))
        follows == SelectSeq(SubSeq(ideal[p], IF ref = Null THEN Len(ideal[p]) + 1
                                              ELSE Where(ideal[p], ref), Len(ideal[p])),
                             LAMBDA m : ~Contains(ns, m))
    IN  [q \in DomNodes |->
            IF q # p THEN stay(q)
            ELSE SubSeq(stay(p), 1, Len(stay(p)) - Len(follows)) \o ns \o follows]

PageActs == ~muddled /\ ~dom.threw /\ ops < MaxOps /\ ops' = ops + 1

\* The page asks for what the DOM allows.
MayInsert(p, n) ==
    /\ Exists(p)
    /\ n \in Movable \cup Fragments
    /\ p \notin Under(ideal, n)

\* Cases in which a node is linked to itself, or an empty fragment unlinks its
\* neighbours.
LinkedToItself(p, n, prev, next) ==
    /\ ~useNative(dom, p, n)
    /\ n \in {prev, next} \/ idealNodes(n) = <<>>

Overriding(c) == dom.parent[c] # Undef \/ dom.next[c] # Undef \/ dom.prev[c] # Undef

\* What clearChildNodes goes along, and what it misses when the browser is about
\* to change the children of p.
RECURSIVE clearedFrom(_)
clearedFrom(n) == IF n \in {Null, Undef} THEN {} ELSE {n} \cup clearedFrom(dom.next[n])
Missed(p) == \E c \in ToSet(ideal[p]) \ clearedFrom(dom.first[p]) : Overriding(c)

\* A content element that has left its shadow tree is no longer the renderer's,
\* but what it showed stays elsewhere until the next frame.
Elsewhere(p) == dom.kids[p] # ideal[p]
GoesWrong(p) == ~HasRenderer(dom, p) /\ (Missed(p) \/ Elsewhere(p))

\* Cases in which the pointers of an old place survive a change that the browser
\* makes: it moves n from a place that pointers describe, which nothing clears; or
\* clearChildNodes misses some.
LeftBehind(p, n) ==
    LET old == IF n \in Fragments THEN n ELSE ParentNode(dom, n)
        described == /\ old # Null
                     /\ \/ dom.first[old] # Undef \/ dom.last[old] # Undef
                        \/ \E c \in ToSet(ideal[old]) : Overriding(c)
    IN  \/ /\ useNative(dom, p, n)
           /\ \/ described \/ GoesWrong(p)
              \/ \E c \in ToSet(idealNodes(n)) : Overriding(c)
              \/ \E m \in Under(ideal, n) : Elsewhere(m)
        \/ old # Null /\ GoesWrong(old)

InsertBefore(p, n, ref) ==
    /\ PageActs
    /\ MayInsert(p, n) /\ ref \in ToSet(ideal[p]) \cup {Null}
    /\ dom' = insertBefore(dom, p, n, ref)
    /\ ideal' = idealInsert(p, n, ref)
    /\ muddled' = \/ dom'.threw \/ LeftBehind(p, n)
                  \/ LinkedToItself(p, n, IF ref = Null THEN LastChild(dom, p)
                                          ELSE PrevSibling(dom, ref), ref)
    /\ UNCHANGED <<roots, marked>>

RemoveChild(n) ==
    LET p == idealParent(n) IN
    /\ PageActs
    /\ p # Null
    /\ dom' = removeChild(dom, p, n)
    /\ ideal' = Detach(ideal, n)
    /\ muddled' = (dom'.threw \/ GoesWrong(p))
    /\ UNCHANGED <<roots, marked>>

ReplaceChild(n, old) ==
    LET p == idealParent(old) IN
    /\ PageActs
    /\ p # Null /\ n # old
    /\ MayInsert(p, n) /\ idealNodes(n) # <<>>
    /\ dom' = replaceChild(dom, p, n, old)
    /\ ideal' = [idealInsert(p, n, old) EXCEPT ![p] = SelectSeq(@, LAMBDA m : m # old)]
    /\ muddled' = (dom'.threw \/ LeftBehind(p, n) \/ LinkedToItself(p, n, PrevSibling(dom, old), Null))
    /\ UNCHANGED <<roots, marked>>

SetTextContent(p) ==
    /\ PageActs
    /\ Exists(p) /\ ideal[p] # <<>>
    /\ dom' = removeAllChildNodes(dom, p)
    /\ ideal' = [ideal EXCEPT ![p] = <<>>]
    /\ muddled' = (dom'.threw \/ GoesWrong(p))
    /\ UNCHANGED <<roots, marked>>

\* The page fills the new root at once.
createShadowRoot ==
    LET r == Roots[Len(roots) + 1]
        d == [dom EXCEPT !.rendered = @ \cup {Host}, !.dirty = TRUE]
    IN  /\ PageActs
        /\ Len(roots) < Len(Roots)
        /\ \A n \in ToSet(FirstIn[r]) : idealParent(n) = Null
        /\ roots' = <<r>> \o roots
        /\ dom' = FoldLeft(LAMBDA e, n : insertBefore(e, r, n, Null), d, FirstIn[r])
        /\ ideal' = [ideal EXCEPT ![r] = FirstIn[r]]
        /\ UNCHANGED <<marked, muddled>>

\* The attribute that Selective contents select.
SetAttribute(n) ==
    /\ PageActs
    /\ n \in Movable
    /\ marked' = IF n \in marked THEN marked \ {n} ELSE marked \cup {n}
    /\ dom' = IF ParentNode(dom, n) = Host /\ roots # <<>> /\ dom.depends
              THEN [dom EXCEPT !.dirty = TRUE] ELSE dom
    /\ UNCHANGED <<roots, ideal, muddled>>

\* renderAllPending, of the animation frame or of a getter that needs it.
Render ==
    /\ dom.dirty /\ ~muddled /\ ~dom.threw
    /\ dom' = render(dom)
    /\ muddled' = dom'.threw
    /\ UNCHANGED <<roots, marked, ideal, ops>>

ShadowNext ==
    \/ \E p, n \in DomNodes : \E ref \in DomNodes \cup {Null} : InsertBefore(p, n, ref)
    \/ \E n \in Movable : RemoveChild(n) \/ SetAttribute(n)
    \/ \E n \in DomNodes, old \in Movable : ReplaceChild(n, old)
    \/ \E p \in DomNodes : SetTextContent(p)
    \/ createShadowRoot
    \/ Render

ShadowSpec == ShadowInit /\ [][ShadowNext]_shadowVars

----------------------------------------------------------------------------
(***************************************************************************)
(* Properties                                                              *)
(***************************************************************************)
\* What the wrappers show the page is the tree it made, whatever was rendered in
\* between (Node's getters, insertBefore, removeChild, replaceChild, textContent,
\* and the renderer's insertBefore and remove).
LogicalTreeKept ==
    ~muddled => \A n \in DomNodes :
        LET p == idealParent(n)
            at == IF p = Null THEN 0 ELSE Where(ideal[p], n)
        IN  /\ ParentNode(dom, n) = p
            /\ FirstChild(dom, n) = Wrap(ideal[n], 1)
            /\ LastChild(dom, n) = Wrap(ideal[n], Len(ideal[n]))
            /\ p # Null => /\ NextSibling(dom, n) = Wrap(ideal[p], at + 1)
                           /\ PrevSibling(dom, n) = Wrap(ideal[p], at - 1)

\* What the host ought to show: the content elements of its trees, youngest first
\* and in tree order, each take what they match of its children.
RECURSIVE contentsIn(_), shadowsIn(_)
contentsIn(n) == IF n \in Contents THEN <<n>> ELSE IF n \in Shadows THEN <<>>
                 ELSE FlattenSeq([i \in DOMAIN ideal[n] |-> contentsIn(ideal[n][i])])
shadowsIn(n)  == IF n \in Shadows THEN <<n>> ELSE IF n \in Contents THEN <<>>
                 ELSE FlattenSeq([i \in DOMAIN ideal[n] |-> shadowsIn(ideal[n][i])])

activeContents == FlattenSeq([i \in DOMAIN roots |-> contentsIn(roots[i])])
lightNodes == SelectSeq(ideal[Host], LAMBDA n : n \notin InsertionPoints)
takenBy(n) == Wrap(SelectSeq(activeContents, LAMBDA c : matches(n, c)), 1)
shownIn(c) ==
    LET taken == SelectSeq(lightNodes, LAMBDA n : takenBy(n) = c)
    IN  IF ~Contains(activeContents, c) THEN <<>> ELSE IF taken = <<>> THEN ideal[c] ELSE taken

RECURSIVE flattened(_), shownInShadow(_)
flattened(p) ==
    FlattenSeq([i \in DOMAIN ideal[p] |->
                   LET c == ideal[p][i] IN
                   IF c \in Contents THEN shownIn(c)
                   ELSE IF c \in Shadows THEN shownInShadow(c) ELSE <<c>>])
shownInShadow(s) ==
    LET own == SelectInSeq(roots, LAMBDA r : Wrap(shadowsIn(r), 1) = s)
    IN  IF own = 0 THEN <<>>
        ELSE IF own = Len(roots) THEN SelectSeq(lightNodes, LAMBDA n : takenBy(n) = Null)
        ELSE flattened(roots[own + 1])

composedOf(n) == flattened(composedParent(n))
RECURSIVE composedUnder(_)
composedUnder(n) == {n} \cup UNION {composedUnder(c) : c \in ToSet(composedOf(n))}

\* Once there is nothing left to render, the browser shows what is composed of
\* the shadow trees and the host's children: every change that has a part in it
\* made the renderer dirty, and no node is lost or shown twice; so long as the page
\* keeps insertion points out of the host's own children (distribution,
\* compose, RenderNode.sync, nodeIsInserted_, associateNode).
ComposedWhenClean ==
    ~muddled /\ ~dom.dirty /\ roots # <<>> /\ Under(ideal, Host) \cap InsertionPoints = {} =>
        \A n \in composedUnder(Host) : dom.kids[n] = composedOf(n)

\* Two trees over one set of native nodes: the page's, kept whole by the wrappers,
\* and the composed one, which the browser shows once it is rendered.
TreesAgree == LogicalTreeKept /\ ComposedWhenClean
=============================================================================
