------------------------------- MODULE Planner --------------------------------
(***************************************************************************)
(* observe-js/util/planner.js: in which order, and by which of its         *)
(* methods, each constraint is enforced, so that no value a constraint has *)
(* been given is overwritten by a later one.  A method of a constraint     *)
(* writes one variable from the constraint's other ones.                   *)
(***************************************************************************)
EXTENDS Integers, Sequences, FiniteSets, SequencesExt, Filtering

CONSTANTS NumVariables,
          Links,        \* bound: the variables that the methods of a constraint write, in order
          Priorities,   \* values of stayFunc
          MaxConstraints, \* bound: constraints made
          MaxPlans        \* bound: plans asked for

PlannerVariables == 1..NumVariables

ASSUME PlannerAssumption ==
    /\ NumVariables \in Nat /\ MaxConstraints \in Nat /\ MaxPlans \in Nat /\ Priorities \subseteq Int
    \* A constraint has methods, each of which writes another variable.
    /\ \A link \in Links : link \in Seq(PlannerVariables) /\ link # <<>> /\ IsInjective(link)

VARIABLES planner, \* see PlannerInit
          plan     \* history: the last answer of getPlan, <<>> or <<answer>>

plannerVars == <<planner, plan>>

PlannerInit ==
    /\ planner = [variables   |-> [k \in PlannerVariables |-> k],      \* those not dropped
                  constraints |-> <<>>,                                \* numbers, in order
                  links       |-> <<>>,                                \* constraint -> variables of its methods
                  methods     |-> [v \in PlannerVariables |-> <<>>],   \* v.methods: <<constraint, v>>
                  plans       |-> 0]
    /\ plan = <<>>

(***************************************************************************)
(* ArraySet: a sequence in which no element stands twice.                  *)
(***************************************************************************)
addAll(entries, keys) == entries \o Filtered(keys, ToSet(keys) \ ToSet(entries))
delete(entries, key)  == Filtered(entries, ToSet(entries) \ {key})

\* The methods that write v, of the constraints there are.
MethodsOn(v, constraints) ==
    Filtered([k \in DOMAIN constraints |-> <<constraints[k], v>>],
             {<<c, v>> : c \in {d \in ToSet(constraints) : v \in ToSet(planner.links[d])}})

reset(methods, constraints) == [v \in PlannerVariables |-> addAll(methods[v], MethodsOn(v, constraints))]
remove(methods, c)          == [v \in PlannerVariables |-> delete(methods[v], <<c, v>>)]

(***************************************************************************)
(* Heap: the variable of the highest priority first.  An element moves     *)
(* from place to place, each time by one swap; h says where it is.         *)
(***************************************************************************)
swapped(h, m) == [content |-> [h.content EXCEPT ![h.at] = h.content[m], ![m] = h.content[h.at]], at |-> m]

bubbled(h, score) ==
    IF h.at = 1 \/ score[h.content[h.at]] <= score[h.content[h.at \div 2]] THEN h ELSE swapped(h, h.at \div 2)

bubbleUp(content, n, score) ==
    LET after[k \in 0 .. n] ==
            IF k = 0 THEN [content |-> content, at |-> n] ELSE bubbled(after[k - 1], score)
    IN  after[n].content

\* The greater of its children, if that is greater than the element.
sunk(h, score) ==
    LET first  == 2 * h.at
        second == 2 * h.at + 1
        one    == IF first <= Len(h.content) /\ score[h.content[first]] > score[h.content[h.at]] THEN first ELSE h.at
        swap   == IF second <= Len(h.content) /\ score[h.content[second]] > score[h.content[one]] THEN second ELSE one
    IN  IF swap = h.at THEN h ELSE swapped(h, swap)

sinkDown(content, n, score) ==
    LET after[k \in 0 .. Len(content)] ==
            IF k = 0 THEN [content |-> content, at |-> n] ELSE sunk(after[k - 1], score)
    IN  after[Len(content)].content

build(content, score) ==
    LET parents == Len(content) \div 2
        heap[k \in 0 .. parents] == IF k = 0 THEN content ELSE sinkDown(heap[k - 1], parents + 1 - k, score)
    IN  heap[parents]

heapPush(content, v, score) == bubbleUp(Append(content, v), Len(content) + 1, score)

pushAll(content, vs, score) ==
    LET heap[k \in 0 .. Len(vs)] == IF k = 0 THEN content ELSE heapPush(heap[k - 1], vs[k], score)
    IN  heap[Len(vs)]

heapPop(content, score) ==
    IF Len(content) = 1 THEN <<>> ELSE sinkDown([Front(content) EXCEPT ![1] = Last(content)], 1, score)

(***************************************************************************)
(* getPlan: a variable that one method writes is free, its method can come *)
(* last of all that are left.                                              *)
(***************************************************************************)
CountIs(methods, n) == {v \in PlannerVariables : Len(methods[v]) = n}

\* Mutant: what is set free stays overconstrained.
setFreeStillOver(g, link, score) == [g EXCEPT !.free = pushAll(@, Filtered(link, CountIs(g.methods, 1)), score)]
setFree(g, link, score) ==
    LET freed == Filtered(link, CountIs(g.methods, 1))
    IN  [g EXCEPT !.overconstrained = @ \ ToSet(freed), !.free = pushAll(@, freed, score)]

Take(g, method, score) ==
    setFree([g EXCEPT !.methods = remove(@, method[1]), !.chosen = Append(@, method)], planner.links[method[1]], score)

\* One variable taken from the heap.
chooseNext(g, score) ==
    IF g.free = <<>> THEN g
    ELSE LET v == Head(g.free)
             h == [g EXCEPT !.free = heapPop(@, score)]
         IN  IF g.methods[v] = <<>> THEN h ELSE Take(h, Head(g.methods[v]), score)

\* No variable comes into the heap twice, so the heap is empty after so many turns.
Choose(g, score) ==
    LET after[k \in 0 .. NumVariables] == IF k = 0 THEN g ELSE chooseNext(after[k - 1], score)
    IN  after[NumVariables]

Chosen(score) ==
    LET methods == reset(planner.methods, planner.constraints)
        one     == CountIs(methods, 1)
    IN  Choose([methods         |-> methods,
                free            |-> build(Filtered(planner.variables, one), score),
                chosen          |-> <<>>,
                overconstrained |-> ToSet(planner.variables) \ (CountIs(methods, 0) \cup one)], score)

(***************************************************************************)
(* The page.                                                               *)
(***************************************************************************)
AddConstraint(link) ==
    /\ Len(planner.links) < MaxConstraints
    /\ ToSet(link) \subseteq ToSet(planner.variables)     \* not one that removeConstraint dropped
    /\ planner' = [planner EXCEPT !.links = Append(@, link), !.constraints = Append(@, Len(planner.links) + 1)]
    /\ plan' = <<>>

RemoveConstraint(c) ==
    /\ c \in ToSet(planner.constraints)
    /\ LET left    == delete(planner.constraints, c)
           methods == reset(remove(planner.methods, c), left)
       IN  planner' = [planner EXCEPT !.constraints = left, !.methods = methods,
                          !.variables = Filtered(@, {v \in PlannerVariables : methods[v] # <<>>})]
    /\ plan' = <<>>

GetPlan(score) ==
    /\ planner.plans < MaxPlans
    /\ LET g == Chosen(score)
       IN  /\ planner' = [planner EXCEPT !.methods = g.methods, !.plans = @ + 1]
           /\ plan' = <<[possible |-> g.overconstrained = {}, methods |-> Reverse(g.chosen)]>>

PlannerNext ==
    \/ \E link \in Links : AddConstraint(link)
    \/ \E c \in 1..MaxConstraints : RemoveConstraint(c)
    \/ \E score \in [PlannerVariables -> Priorities] : GetPlan(score)

PlannerSpec == PlannerInit /\ [][PlannerNext]_plannerVars

(***************************************************************************)
(* Properties.                                                             *)
(***************************************************************************)

\* Each constraint once, and no method writes a variable of a constraint
\* that was enforced before it.
Sound(methods) ==
    /\ {methods[k][1] : k \in DOMAIN methods} = ToSet(planner.constraints)
    /\ \A j, k \in DOMAIN methods : j < k =>
          methods[j][1] # methods[k][1] /\ ~ Contains(planner.links[methods[j][1]], methods[k][2])

Orders == {order \in [1 .. Len(planner.constraints) -> ToSet(planner.constraints)] : IsInjective(order)}
SomePlan ==
    \E order \in Orders :
        \E written \in [DOMAIN order -> PlannerVariables] :
            /\ \A k \in DOMAIN order : Contains(planner.links[order[k]], written[k])
            /\ Sound([k \in DOMAIN order |-> <<order[k], written[k]>>])

\* getPlan answers with a sound plan, and says that there is none only when
\* there is none, whatever was planned, refused or removed before.
PlansAreSound ==
    \A p \in ToSet(plan) : IF p.possible THEN Sound(p.methods) ELSE ~ SomePlan

===============================================================================
