--------------------------- MODULE TemplateIterator ---------------------------
(***************************************************************************)
(* A <template> that repeats its content for every element of an array     *)
(* while a condition holds, and in the content another one that repeats    *)
(* over an array of that element.  The instances stand behind their        *)
(* template as its siblings, among those of other templates; splices of    *)
(* the arrays move them, and an instance is used again for its model.      *)
(***************************************************************************)
EXTENDS ArraySplice, FiniteSets

CONSTANTS Models,       \* elements of the outer arrays, each with an array of its own
          Leaves,       \* elements of those
          Undef,        \* an element that is undefined
          Lists,        \* the outer arrays
          Roots,        \* models the page gives to the template
          NoRoot, NotArray, Empty,
          Longest,      \* bound: length of an array
          MaxInstances, \* bound: instances there are at a time
          MaxChanges    \* bound: writes of the page

T   == <<0, "template">>
EndNode == <<0, "end">>   \* what follows the template in the page
Ids == 1..MaxInstances
Seqs(S) == UNION {[1..n -> S] : n \in 0..Longest}

ASSUME TemplateAssumption ==
    /\ Undef \notin Models \cup Leaves /\ NotArray \notin Lists \cup Models /\ Lists \cap Models = {}
    /\ NoRoot \notin Roots /\ Empty \notin Ids /\ Longest \in Nat /\ MaxInstances \in Nat /\ MaxChanges \in Nat

VARIABLES tp,      \* see TemplateInit
          changes

templateVars == <<tp, changes>>

TemplateInit ==
    /\ tp = [on    |-> [r \in Roots \cup {NoRoot} |-> FALSE],     \* value of the if of a root
             list  |-> [r \in Roots \cup {NoRoot} |-> NotArray],  \* and of its repeat
             array |-> [x \in Lists \cup Models |-> <<>>],
             root  |-> NoRoot, scheduled |-> FALSE,   \* model_, setModelFnScheduled_
             dom   |-> [h \in {0} |-> <<T, EndNode>>],    \* children of the page, and of fragments of instances
             it    |-> [t \in {} |-> 0],              \* template -> its iterator
             of    |-> [i \in {} |-> Undef],          \* instance -> model
             told  |-> [i \in {} |-> 0],              \* instance -> position last reported
             open  |-> {},                            \* instances whose bindings are open
             lost  |-> {}]                            \* history: those forgotten for another of the same model
    /\ changes = 0

NewIterator == [instances |-> <<>>, iterated |-> <<>>, watched |-> NotArray, present |-> NotArray, copy |-> <<>>,
                root |-> NoRoot, ifValue |-> FALSE, value |-> NotArray]

WithKey(f, k, x) == (k :> x) @@ f
DropKeys(f, keys) == Restrict(f, DOMAIN f \ keys)
InstanceContents(s, x) == IF x = NotArray THEN <<>> ELSE s.array[x]

(***************************************************************************)
(* Where instances stand.                                                  *)
(***************************************************************************)
Parents(s, t) == {h \in DOMAIN s.dom : t \in ToSet(s.dom[h])}
PlaceIn(s, h, node) == SelectInSeq(s.dom[h], LAMBDA x : x = node)
Sub(i) == <<i, "template">>

\* The last node of an instance is its last child, or what belongs to that if it
\* is a template itself.
RECURSIVE getLastInstanceNode(_, _, _)

\* Mutant: what the inner template made is not seen.
getLastInstanceNodeFlat(s, t, k) ==
    IF k = 0 THEN t
    ELSE IF s.it[t].instances[k] = Empty THEN getLastInstanceNode(s, t, k - 1)
    ELSE IF t # T THEN <<s.it[t].instances[k], "text">> ELSE Sub(s.it[t].instances[k])

getLastInstanceNode(s, t, k) ==
    LET i == s.it[t].instances[k]
    IN  IF k = 0 THEN t
        ELSE IF i = Empty THEN getLastInstanceNode(s, t, k - 1)
        ELSE IF t # T THEN <<i, "text">>
        ELSE IF Sub(i) \in DOMAIN s.it THEN getLastInstanceNode(s, Sub(i), Len(s.it[Sub(i)].instances))
        ELSE Sub(i)

\* What the fragment of an instance holds; an empty one has none.
WithNodes(s, i, nodes) == IF i = Empty THEN s ELSE [s EXCEPT !.dom[i] = nodes]
NodesOf(s, i) == IF i = Empty THEN <<>> ELSE s.dom[i]

insertNodesAt(s, t, k, i, h, at) ==
    [s EXCEPT !.it[t].instances = InsertAt(@, k, i),
              !.dom[h] = SubSeq(@, 1, at) \o NodesOf(s, i) \o SubSeq(@, at + 1, Len(@))]

insertInstanceIn(s, t, k, i, h) ==
    WithNodes(insertNodesAt(s, t, k, i, h, PlaceIn(s, h, getLastInstanceNode(s, t, k - 1))), i, <<>>)

insertInstanceAt(s, t, k, i) == insertInstanceIn(s, t, k, i, CHOOSE h \in Parents(s, t) : TRUE)

extractNodes(s, t, k, h, from, to) ==
    WithNodes([s EXCEPT !.it[t].instances = RemoveAt(@, k),
                        !.dom[h] = SubSeq(@, 1, from) \o SubSeq(@, to + 1, Len(@))],
              s.it[t].instances[k], SubSeq(s.dom[h], from + 1, to))

extractInstanceFrom(s, t, k, h) ==
    extractNodes(s, t, k, h, PlaceIn(s, h, getLastInstanceNode(s, t, k - 1)),
                 PlaceIn(s, h, getLastInstanceNode(s, t, k)))

extractInstanceAt(s, t, k) == extractInstanceFrom(s, t, k, CHOOSE h \in Parents(s, t) : TRUE)

(***************************************************************************)
(* Closing.                                                                *)
(***************************************************************************)
RECURSIVE closeIterator(_, _)

\* The bindings of an instance, the iterator of its inner template among them.
closeInstanceBindings(s, i) ==
    LET inner == IF Sub(i) \in DOMAIN s.it THEN closeIterator(s, Sub(i)) ELSE s
    IN  [inner EXCEPT !.open = @ \ {i}]

closeIterator(s, t) ==
    LET ids    == SelectSeq(s.it[t].instances, LAMBDA i : i # Empty)
        closed == FoldLeft(closeInstanceBindings, s, ids)
    IN  [closed EXCEPT !.it = DropKeys(@, {t})]

(***************************************************************************)
(* Splices.                                                                *)
(***************************************************************************)
\* Each removed instance goes to the cache under its model.
ToCache(w, model, i, out) ==
    IF i = Empty THEN [w EXCEPT !.s = out]
    ELSE [w EXCEPT !.cache = WithKey(@, model, i),
                   !.s = [out EXCEPT !.lost = IF model \in DOMAIN w.cache
                                              THEN @ \cup {w.cache[model]} ELSE @]]
removal(w, t, model, k) == ToCache(w, model, w.s.it[t].instances[k], extractInstanceAt(w.s, t, k))

Removals(s, t, splices) ==
    FoldLeft(LAMBDA now, p :
                 [FoldLeft(LAMBDA w, model : removal(w, t, model, p.index + w.delta + 1), now, p.removed)
                     EXCEPT !.delta = @ - p.addedCount],
             [s |-> s, cache |-> [m \in {} |-> 0], delta |-> 0], splices)

\* The positions of instances that moved.
Moved(splices, length) ==
    LET end == FoldLeft(
            LAMBDA w, p :
                LET first == IF w.offset # 0 THEN w.index ELSE p.index
                    next  == IF first < p.index + p.addedCount THEN p.index + p.addedCount ELSE first
                IN  [told |-> w.told \cup first..(next - 1), index |-> next,
                     offset |-> w.offset + p.addedCount - Len(p.removed)],
            [told |-> {}, index |-> 0, offset |-> 0], splices)
    IN  end.told \cup IF end.offset = 0 THEN {} ELSE end.index..(length - 1)

reportInstancesMoved(s, t, splices) ==
    LET ids == s.it[t].instances
    IN  [s EXCEPT !.told = [i \in DOMAIN @ |->
            IF \E k \in Moved(splices, Len(ids)) : ids[k + 1] = i
            THEN CHOOSE k \in 1..Len(ids) : ids[k] = i ELSE @[i]]]

RECURSIVE handleSplices(_, _, _)

\* handleSplices of what leads from an old array to the one there is now.
Replaced(s, t, now, old) == handleSplices(s, t, calcSplices(now, 0, Len(now), old, 0, Len(old)))

\* unobserve, the array that is present now, and the splices that lead there.
valueChanged(s, t, x) ==
    Replaced([s EXCEPT !.it[t].watched = x, !.it[t].present = x, !.it[t].copy = InstanceContents(s, x)],
             t, InstanceContents(s, x), s.it[t].iterated)

\* The content is cloned and bound: a text, and for the outer template an inner
\* one, whose instances join it in the fragment.
MakeInstance(s, t, model, i) ==
    [s EXCEPT !.of = WithKey(@, i, model), !.told = WithKey(@, i, 0), !.open = @ \cup {i},
              !.dom = WithKey(@, i, <<<<i, "text">>>> \o IF t = T THEN <<Sub(i)>> ELSE <<>>),
              !.it = IF t = T THEN WithKey(@, Sub(i), [NewIterator EXCEPT !.value = model]) ELSE @]

createInstance(s, t, model, i) ==
    [id |-> i, s |-> IF t = T THEN valueChanged(MakeInstance(s, t, model, i), Sub(i), model)
                     ELSE MakeInstance(s, t, model, i)]

FreshId(s) == CHOOSE i \in Ids : i \notin DOMAIN s.of /\ \A j \in Ids : j < i => j \in DOMAIN s.of

InstanceFor(w, t, model) ==
    IF model \in DOMAIN w.cache THEN [id |-> w.cache[model], s |-> w.s]
    ELSE IF model = Undef THEN [id |-> Empty, s |-> w.s]
    ELSE createInstance(w.s, t, model, FreshId(w.s))

insertion(w, t, k, model, made) ==
    [w EXCEPT !.cache = DropKeys(@, {model}), !.s = insertInstanceAt(made.s, t, k, made.id)]

Insertions(w, t, splices) ==
    FoldLeft(LAMBDA now, p :
                 FoldLeft(LAMBDA v, k : insertion(v, t, k, v.s.it[t].iterated[k],
                                                  InstanceFor(v, t, v.s.it[t].iterated[k])),
                          now, [j \in 1..p.addedCount |-> p.index + j]),
             w, splices)

\* What nobody took out of the cache is closed.
CacheClosed(w) == FoldLeft(closeInstanceBindings, w.s, SetToSeq({w.cache[m] : m \in DOMAIN w.cache}))

\* Instances that are not on the page and not open are garbage.
Swept(s) ==
    LET gone == {i \in DOMAIN s.of \ s.open : <<i, "text">> \notin ToSet(s.dom[0])}
    IN  [s EXCEPT !.of = DropKeys(@, gone), !.told = DropKeys(@, gone), !.dom = DropKeys(@, gone), !.lost = @ \ gone]

handleSplices(s, t, splices) ==
    IF splices = <<>> THEN s
    ELSE IF Parents(s, t) = {} THEN closeIterator(s, t)
    ELSE reportInstancesMoved(
             CacheClosed(Insertions(Removals(
                 [s EXCEPT !.it[t].iterated = applySplices(@, InstanceContents(s, s.it[t].present), splices)],
                 t, splices), t, splices)),
             t, splices)

(***************************************************************************)
(* The condition and the array.                                            *)
(***************************************************************************)
updateIfValue(s, on) ==
    IF ~ on THEN valueChanged(s, T, NotArray)
    ELSE LET x == s.list[s.it[T].root] IN valueChanged([s EXCEPT !.it[T].value = x], T, x)

updateIteratedValue(s, x) ==
    LET on == s.on[s.it[T].root]
    IN  valueChanged([s EXCEPT !.it[T].ifValue = on], T, IF on THEN x ELSE NotArray)

updateDependencies(s, r) ==
    LET bound == [s EXCEPT !.it[T].root = r, !.it[T].ifValue = s.on[r], !.it[T].value = s.list[r]]
    IN  valueChanged(bound, T, IF s.on[r] THEN s.list[r] ELSE NotArray)

processBindingDirectives_(s) ==
    updateDependencies(IF T \in DOMAIN s.it THEN s ELSE [s EXCEPT !.it = WithKey(@, T, NewIterator)], s.root)

(***************************************************************************)
(* Observers that are checked; and the page.                               *)
(***************************************************************************)
\* An observer takes the new value and reports it.
ArrayChanged(s, t) == s.it[t].watched # NotArray /\ s.it[t].copy # InstanceContents(s, s.it[t].watched)
IfChanged(s)    == T \in DOMAIN s.it /\ s.it[T].ifValue # s.on[s.it[T].root]
ValueChanged(s) == T \in DOMAIN s.it /\ s.it[T].value # s.list[s.it[T].root]

CheckArray(t) ==
    /\ t \in DOMAIN tp.it /\ ArrayChanged(tp, t)
    /\ LET now == InstanceContents(tp, tp.it[t].watched)
       IN  tp' = Swept(Replaced([tp EXCEPT !.it[t].copy = now], t, now, tp.it[t].copy))
    /\ UNCHANGED changes

CheckIf ==
    /\ IfChanged(tp)
    /\ LET on == tp.on[tp.it[T].root]
       IN  tp' = Swept(updateIfValue([tp EXCEPT !.it[T].ifValue = on], on))
    /\ UNCHANGED changes

CheckValue ==
    /\ ValueChanged(tp)
    /\ LET x == tp.list[tp.it[T].root]
       IN  tp' = Swept(updateIteratedValue([tp EXCEPT !.it[T].value = x], x))
    /\ UNCHANGED changes

\* setModelFn_, at the end of the microtask.
SetModel ==
    /\ tp.scheduled
    /\ tp' = Swept(processBindingDirectives_([tp EXCEPT !.scheduled = FALSE]))
    /\ UNCHANGED changes

Page(s) == /\ changes < MaxChanges /\ tp.lost = {} /\ s # tp
           /\ changes' = changes + 1
           /\ tp' = Swept(s)

WriteTemplateModel(r)    == Page([tp EXCEPT !.root = r, !.scheduled = TRUE])
WriteIf(r, on)   == Page([tp EXCEPT !.on[r] = on])
WriteList(r, x)  == Page([tp EXCEPT !.list[r] = x])
WriteArray(x, s) == Page([tp EXCEPT !.array[x] = s])
RemoveTemplate   == Page([tp EXCEPT !.dom[0] = SelectSeq(@, LAMBDA n : n # T)])

IteratorGone(s) == IF T \in DOMAIN s.it THEN closeIterator(s, T) ELSE s

\* On a removed template valueChanged closes the iterator and unsets it, so that the
\* page gets a TypeError for the close that follows; nothing more was to be done.
clear ==
    LET cleared == [tp EXCEPT !.root = NoRoot]
    IN  Page(IF T \in DOMAIN tp.it THEN IteratorGone(valueChanged(cleared, T, NotArray)) ELSE cleared)

TemplateNext ==
    \/ CheckIf \/ CheckValue \/ SetModel \/ RemoveTemplate \/ clear
    \/ \E i \in 0..MaxInstances : CheckArray(Sub(i))
    \/ \E r \in Roots : WriteTemplateModel(r) \/ \E on \in BOOLEAN : WriteIf(r, on)
    \/ \E r \in Roots, x \in Lists \cup {NotArray} : WriteList(r, x)
    \/ \E x \in Lists, s \in Seqs(Models \cup {Undef}) : WriteArray(x, s)
    \/ \E m \in Models, s \in Seqs(Leaves \cup {Undef}) : WriteArray(m, s)

TemplateSpec == TemplateInit /\ [][TemplateNext]_templateVars

(***************************************************************************)
(* Properties.                                                             *)
(***************************************************************************)
RECURSIVE Shown(_)
\* The nodes that should stand behind a template.
Shown(t) ==
    FlattenSeq([k \in 1..Len(tp.it[t].instances) |->
        LET i == tp.it[t].instances[k]
        IN  IF i = Empty THEN <<>>
            ELSE <<<<i, "text">>>> \o IF t = T THEN <<Sub(i)>> \o Shown(Sub(i)) ELSE <<>>])

TemplateSettled == ~ tp.scheduled /\ ~ IfChanged(tp) /\ ~ ValueChanged(tp) /\ \A t \in DOMAIN tp.it : ~ ArrayChanged(tp, t)

\* What the iterator of t should go through.
Wanted(t) ==
    IF t # T THEN tp.array[tp.of[t[1]]]
    ELSE IF tp.on[tp.it[T].root] THEN InstanceContents(tp, tp.list[tp.it[T].root]) ELSE <<>>

\* In whatever order changes of the condition, of the arrays and of the model are
\* noticed, at the end the page shows just one instance for each element, in the
\* order of the arrays, the inner ones right behind their template, each instance
\* was told where it stands, and bindings are open for these instances only.
\* Excluded are instances forgotten in the cache because another removed one had
\* the same model (TemplateBinding.js 1175): theirs stay open.
InstancesMatch ==
    TemplateSettled /\ T \in ToSet(tp.dom[0]) =>
        /\ tp.dom[0] = <<T>> \o (IF T \in DOMAIN tp.it THEN Shown(T) ELSE <<>>) \o <<EndNode>>
        /\ \A t \in DOMAIN tp.it : t[1] \notin tp.lost =>
              /\ tp.it[t].iterated = Wanted(t)
              /\ \A k \in 1..Len(tp.it[t].instances) :
                    LET i == tp.it[t].instances[k]
                    IN  IF Wanted(t)[k] = Undef THEN i = Empty ELSE i # Empty /\ tp.of[i] = Wanted(t)[k] /\ tp.told[i] = k
        /\ tp.lost = {} => tp.open = {n[1] : n \in ToSet(tp.dom[0]) \ {T, EndNode}}
===============================================================================
