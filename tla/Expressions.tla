----------------------------- MODULE Expressions -----------------------------
(***************************************************************************)
(* Bindings to expressions (polymer-expressions): what an expression says  *)
(* in a scope, which paths its value is taken to depend on, how the        *)
(* binding learns of changes of these, and how a value that the user       *)
(* enters gets back into the model.  Trees are those of ExpressionParser;  *)
(* array and object expressions are left out.                              *)
(***************************************************************************)
EXTENDS Integers, Sequences, FiniteSets, SequencesExt, TLC

CONSTANTS Trees,       \* expressions of the page
          FilterLists, \* sequences of names of filters that follow one
          toDOM,       \* filter -> value -> value
          toModel,     \* the same, for the filters that have it
          Objects,     \* objects of the model
          Own,         \* object -> its properties
          parentScope, \* scope -> object
          Contents,    \* <<object, property>> -> values the page gives it
          Places,      \* objects that expressions are bound in
          NoTree       \* a binding that is not there

ASSUME ExpressionsAssumption ==
    /\ \A o \in Objects : \A n \in Own[o] : Contents[o, n] # {}
    /\ DOMAIN parentScope \subseteq Objects /\ Places \subseteq Objects
    /\ DOMAIN toModel \subseteq DOMAIN toDOM

VARIABLES heap,   \* <<object, property>> -> value, for the properties it has
          bound   \* a binding of the page

expressionVars == <<heap, bound>>

Undefined == "undefined"
Truthy(v) == v \notin {Undefined, "0"}
Boolean(b) == IF b THEN "1" ELSE "0"

(***************************************************************************)
(* Scopes and paths.                                                       *)
(***************************************************************************)
RECURSIVE findScope(_, _, _)
findScope(h, m, n) ==
    IF m \in DOMAIN parentScope /\ <<m, n>> \notin DOMAIN h THEN findScope(h, parentScope[m], n) ELSE m

\* The prototype of a scope is its parent.
Property(h, o, n) ==
    LET at == findScope(h, o, n) IN IF <<at, n>> \in DOMAIN h THEN h[at, n] ELSE Undefined

getValueFrom(h, o, path) == FoldLeft(LAMBDA v, n : Property(h, v, n), o, path)

\* Nothing is written when there is no object.
setValueFrom(h, o, path, v) ==
    LET at == getValueFrom(h, o, Front(path))
    IN  IF at \in Objects THEN (<<at, Last(path)>> :> v) @@ h ELSE h

(***************************************************************************)
(* What the delegate of the parser makes of an expression.                 *)
(***************************************************************************)
\* Literals, identifiers and members are objects, everything else is a function.
IsFunction(e) == e[1] \notin {"literal", "id", "member"}

RECURSIVE MemberDynamic(_)
MemberDynamic(e) ==
    /\ e[1] = "member"
    /\ IsFunction(e[3]) \/ MemberDynamic(e[3]) \/ (e[2] = "[" /\ e[4][1] # "literal")

SimplePath(e) == e[1] = "member" /\ ~ MemberDynamic(e) /\ e[3][1] \in {"member", "id"}

RECURSIVE fullPath(_)
fullPath(e) == IF e[1] = "id" THEN <<e[2]>> ELSE Append(fullPath(e[3]), e[4][2])

Parts(e) == CASE e[1] \in {"id", "literal"} -> <<>>
              [] e[1] = "member" /\ e[2] = "." -> <<e[3]>>
              [] e[1] \in {"unary", "binary", "member"} -> SubSeq(e, 3, Len(e))
              [] e[1] = "conditional" -> Tail(e)
              [] e[1] = "call" -> e[3]

\* Mutant: the branches of a condition are not seen to change what is read.
dynamicDepsUnconditional(e) == MemberDynamic(e) \/ (e[1] = "binary" /\ e[2] \in {"&&", "||"})

RECURSIVE dynamicDeps(_)
dynamicDeps(e) ==
    \/ e[1] = "conditional" \/ (e[1] = "binary" /\ e[2] \in {"&&", "||"}) \/ MemberDynamic(e)
    \/ \E part \in ToSet(Parts(e)) : dynamicDeps(part)

(***************************************************************************)
(* The value of an expression, and the paths that are added on the way.    *)
(***************************************************************************)
Value(v, paths) == [v |-> v, paths |-> paths]

createUnaryExpression(a) == Value(Boolean(~ Truthy(a.v)), a.paths)   \* of !

\* The right operand of && and || is evaluated when it decides.
createBinaryExpression(op, l, r) ==
    CASE op = "==" -> Value(Boolean(l.v = r.v), l.paths \cup r.paths)
      [] op = "&&" -> IF Truthy(l.v) THEN Value(r.v, l.paths \cup r.paths) ELSE l
      [] op = "||" -> IF Truthy(l.v) THEN l ELSE Value(r.v, l.paths \cup r.paths)

createConditionalExpression(test, consequent, alternate) ==
    LET taken == IF Truthy(test.v) THEN consequent ELSE alternate
    IN  Value(taken.v, test.paths \cup taken.paths)

transform(name, fns, v) == IF name \in DOMAIN fns THEN fns[name][v] ELSE Undefined

RECURSIVE valueFn(_, _, _)
valueFn(e, h, m) ==
    LET at(i) == valueFn(e[i], h, m)
    IN  CASE e[1] = "literal" -> Value(e[2], {})
          [] e[1] = "id" \/ SimplePath(e) -> Value(getValueFrom(h, m, fullPath(e)), {<<m, fullPath(e)>>})
          [] e[1] = "member" ->
                LET n == IF e[2] = "." THEN Value(e[4][2], {}) ELSE at(4)
                IN  Value(Property(h, at(3).v, n.v), at(3).paths \cup n.paths \cup {<<at(3).v, <<n.v>>>>})
          [] e[1] = "unary"       -> createUnaryExpression(at(3))
          [] e[1] = "binary"      -> createBinaryExpression(e[2], at(3), at(4))
          [] e[1] = "conditional" -> createConditionalExpression(at(2), at(3), at(4))
          [] e[1] = "call" -> LET arg == valueFn(e[3][1], h, m)
                              IN  Value(transform(e[2][2], toDOM, arg.v), arg.paths)

getValue(b, h) ==
    LET value == valueFn(b.e, h, b.model)
    IN  Value(FoldLeft(LAMBDA v, f : transform(f, toDOM, v), value.v, b.filters), value.paths)

(***************************************************************************)
(* A binding: an observer of the paths, and a transformation that asks for *)
(* the value again.                                                        *)
(***************************************************************************)
IsPath(b) == b.filters = <<>> /\ (b.e[1] = "id" \/ SimplePath(b.e))
Read(h, paths) == [p \in paths |-> getValueFrom(h, p[1], p[2])]

\* A single name is observed in the scope that has it.
prepareBinding(b, h) ==
    IF ~ IsPath(b) THEN b
    ELSE IF b.e[1] = "id" THEN [b EXCEPT !.model = findScope(h, @, b.e[2])] ELSE b

getBinding(b, h) ==
    LET value == getValue(b, h)
    IN  [b EXCEPT !.values = Read(h, value.paths), !.view = value.v]

\* valueFn of getBinding, after the first time: startReset and finishReset.
Refreshed(b, h) ==
    LET value == getValue(b, h)
    IN  [b EXCEPT !.view = value.v,
                  !.values = Read(h, IF ~ IsPath(b) /\ dynamicDeps(b.e) THEN value.paths ELSE DOMAIN @)]

\* A name with filters behind it is looked up when it is written.
\* Mutant: it is written where the expression is bound.
identSetValueHere(h, m, n, v) == setValueFrom(h, m, <<n>>, v)
identSetValue(h, m, n, v) == setValueFrom(h, findScope(h, m, n), <<n>>, v)

\* The object whose member is written, unless the path is simple.
ObjectOf(b, h) == valueFn(b.e[3], h, b.model).v
SetValueThrows(b, h) ==
    b.e[1] = "member" /\ ~ SimplePath(b.e) /\ ObjectOf(b, h) \notin Objects

setValue(b, h, v) ==
    LET pushed == FoldLeft(LAMBDA w, f : transform(f, toModel, w), v, Reverse(b.filters))
        n      == IF b.e[2] = "." THEN b.e[4][2] ELSE valueFn(b.e[4], h, b.model).v
    IN  CASE IsPath(b) \/ SimplePath(b.e) -> setValueFrom(h, b.model, fullPath(b.e), pushed)
          [] ~ IsPath(b) /\ b.e[1] = "id" -> identSetValue(h, b.model, b.e[2], pushed)
          [] b.e[1] = "member" /\ ~ SimplePath(b.e) -> setValueFrom(h, ObjectOf(b, h), <<n>>, pushed)
          [] OTHER -> h

(***************************************************************************)
(* The page.                                                               *)
(***************************************************************************)
Unbound == [e |-> NoTree, filters |-> <<>>, model |-> Undefined, values |-> [p \in {} |-> Undefined], view |-> Undefined]

ExpressionsInit ==
    /\ heap = [p \in UNION {{o} \X Own[o] : o \in Objects} |-> CHOOSE v \in Contents[p] : TRUE]
    /\ bound = Unbound

Stale(b) == b.e # NoTree /\ b.values # Read(heap, DOMAIN b.values)

Bind(e, filters, o) ==
    /\ bound.e = NoTree
    /\ bound' = getBinding(prepareBinding([bound EXCEPT !.e = e, !.filters = filters, !.model = o], heap), heap)
    /\ UNCHANGED heap

CloseExpression ==
    /\ bound.e # NoTree
    /\ bound' = Unbound /\ UNCHANGED heap

CheckExpression ==
    /\ Stale(bound)
    /\ bound' = Refreshed(bound, heap) /\ UNCHANGED heap

\* The element writes the value and discards the changes this makes.  A member of
\* what is no object cannot be written: setValue throws, and that is all.
Entered(v) == IF SetValueThrows(bound, heap) THEN heap ELSE setValue(bound, heap, v)

UserEnters(v) ==
    /\ bound.e # NoTree
    /\ heap' = Entered(v)
    /\ bound' = IF SetValueThrows(bound, heap) THEN bound ELSE Refreshed(bound, heap')

WriteProperty(p, v) == heap' = [heap EXCEPT ![p] = v] /\ UNCHANGED bound

ExpressionsNext ==
    \/ CloseExpression \/ CheckExpression
    \/ \E e \in Trees, filters \in FilterLists, o \in Places : Bind(e, filters, o)
    \/ \E v \in {"0", "1"} : UserEnters(v)
    \/ \E o \in Objects : \E n \in Own[o] : \E v \in Contents[o, n] : WriteProperty(<<o, n>>, v)
ExpressionsSpec == ExpressionsInit /\ [][ExpressionsNext]_expressionVars

(***************************************************************************)
(* Properties.                                                             *)
(***************************************************************************)
\* Whatever the page and the user change, once no observer has anything left to
\* notice, the value of the binding is that of its expression, though it looks at
\* the paths read last only (startReset, finishReset, dynamicDeps).
ExpressionAgrees ==
    bound.e # NoTree /\ ~ Stale(bound) => bound.view = getValue(bound, heap).v

\* A scope of an inner template is written for the names that it declares only.
NeverIntoScope == \A p \in DOMAIN heap : p[1] \in DOMAIN parentScope => p[2] \in Own[p[1]]

\* There is something for a value of the user to be written to.
Writable(b, h) ==
    \/ b.e[1] = "id"
    \/ SimplePath(b.e) /\ getValueFrom(h, b.model, Front(fullPath(b.e))) \in Objects
    \/ b.e[1] = "member" /\ ~ SimplePath(b.e) /\ ~ SetValueThrows(b, h)

ReadBack ==
    bound.e # NoTree =>
        \A v \in {"0", "1"} :
            IF Writable(bound, heap) THEN getValue(bound, Entered(v)).v = v ELSE Entered(v) = heap

\* Whatever has changed since, what the user enters is written where the expression
\* reads it, through filters that undo each other, and never into a scope between
\* that and the binding; where there is nothing to write to, the model stays as it
\* is (setValue, findScope).
EntriesKept == NeverIntoScope /\ ReadBack
===============================================================================
