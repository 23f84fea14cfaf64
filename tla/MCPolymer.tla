----------------------------- MODULE MCPolymer ------------------------------
(***************************************************************************)
(* The parts of the Polymer library side by side for TLC: the queue of     *)
(* definitions, the properties of an element, the bindings of nodes and    *)
(* templates, expressions, the texts they are read of, and gestures.  They *)
(* share no state here, so a behaviour is one of a single part and the     *)
(* others stay where they are at the start.                                *)
(***************************************************************************)
EXTENDS PolymerQueue, PolymerElement, NodeBinding, TemplateIterator, Expressions, Mustaches, PointerSources

VARIABLE part   \* the part whose behaviour this is

CONSTANTS aText, vInput, vOption, vRadio1, vRadio2, vSelect, pathP, pathQ, pathR, pathU,
          propX, propY, propZ, da, db, dc

(***************************************************************************)
(* PolymerQueue: dc, in the main document, extends da, as the imported db  *)
(* does.                                                                   *)
(***************************************************************************)
MCExtends == (da :> Native @@ db :> da @@ dc :> da)

(***************************************************************************)
(* PolymerElement: propX is reflected and observed, propZ is computed of   *)
(* propY.                                                                  *)
(***************************************************************************)
MCComputed  == (propZ :> propY)
MCObserves  == <<propX, propZ>>
MCMethod    == (propX :> "changed" @@ propZ :> "changed")
MCInitially == (propX :> FalseValue @@ propY :> Null @@ propZ :> UndefinedValue)

(***************************************************************************)
(* NodeBinding: an input, two radio buttons of a group, a select and its   *)
(* option; the input and a radio button are bound to the same path.        *)
(***************************************************************************)
MCKind     == (vInput :> "input" @@ vRadio1 :> "radio" @@ vRadio2 :> "radio" @@ vSelect :> "select" @@ vOption :> "option")
MCPathOf   == (vInput :> pathQ @@ vRadio1 :> pathP @@ vRadio2 :> pathQ @@ vSelect :> pathR @@ vOption :> pathU)
MCSelectOf == (vOption :> vSelect)
MCGroup    == <<vRadio1, vRadio2>>

(***************************************************************************)
(* Expressions: in a scope with an item, in a root with a, b, an object o  *)
(* and a key k of it; one of its properties never changes.                  *)
(***************************************************************************)
Id(n) == <<"id", n>>
Dot(e, n) == <<"member", ".", e, Id(n)>>
AtKey == <<"member", "[", Id("o"), Id("k")>>
MCTrees ==
    {Id("a"), Id("item"), Dot(Id("item"), "x"), AtKey,
     <<"conditional", Id("a"), Dot(Id("o"), "x"), Id("b")>>,
     Dot(<<"conditional", Id("a"), Id("o"), Id("item")>>, "x"),
     <<"binary", "&&", Id("o"), Dot(Id("o"), "x")>>,
     <<"binary", "==", Id("b"), <<"unary", "!", Dot(Id("item"), "x")>>>>,
     <<"binary", "||", Id("a"), <<"call", Id("flip"), <<Id("b")>>>>>>}
MCNoTree == <<>>
MCOwn == [root |-> {"a", "b", "o", "k"}, scope |-> {"item"}, o1 |-> {"x"}, o2 |-> {"x", "y"}]
MCParentScope == [scope |-> "root"]
MCContents ==
    [at \in UNION {{o} \X MCOwn[o] : o \in DOMAIN MCOwn} |->
        CASE at[2] = "o"    -> {"undefined", "o1", "o2"}
          [] at[2] = "item" -> {"o1", "o2"}
          [] at[2] = "k"    -> {"x", "y"}
          [] at = <<"o2", "x">> -> {"1"}
          [] OTHER          -> {"0", "1"}]
MCFlip == [flip |-> [v \in {"0", "1", "x", "y", "o1", "o2", "undefined"} |->
                        IF v = "0" THEN "1" ELSE IF v = "1" THEN "0" ELSE v]]
MCFilterLists == {<<>>, <<"flip">>}

(***************************************************************************)
(* Mustaches: literals with what closes nothing, and ends that open what   *)
(* is never closed.                                                        *)
(***************************************************************************)
MCLiterals   == {<<>>, <<"t">>, <<"}", "}">>, <<"]", "{", "t">>}
MCRemainders == {<<>>, <<"t">>, <<"[", "[", "{", "{", "a", "}", "}">>,
                 <<"}", "}", "{", "{", "[", "[", "a", "]", "]">>}

(***************************************************************************)
(* PointerSources: inner in the shadow tree of host, in body; each of the  *)
(* four gestures is listened for somewhere.                                *)
(***************************************************************************)
MCUpFrom == [doc |-> "none", body |-> "doc", host |-> "body", root |-> "host", inner |-> "root"]
MCElementAt == [doc |-> (0 :> "host" @@ 30 :> "body"), root |-> (0 :> "inner" @@ 30 :> "none")]
MCChanging == {<<"host", "track">>}
MCListened == MCChanging \cup {<<"body", "tap">>, <<"inner", "hold">>, <<"doc", "pinch">>}

(***************************************************************************)
(* One part at a time.                                                     *)
(***************************************************************************)
elementsVars == <<queueVars, elementVars>>
boundVars    == <<bindingVars, templateVars>>
textVars     == <<expressionVars, mustacheVars>>
allVars      == <<elementsVars, boundVars, textVars, pointerVars, part>>

Init ==
    /\ QueueInit /\ ElementInit /\ BindingsInit /\ TemplateInit /\ ExpressionsInit /\ PointersInit /\ MustachesInit
    /\ part \in {"queue", "element", "bindings", "templates", "expressions", "texts", "pointers"}
    /\ part # "texts" => \A n \in PathNames : textModel[n] = NoText

Next ==
    \/ part = "queue" /\ QueueNext /\ UNCHANGED <<elementVars, boundVars, textVars, pointerVars, part>>
    \/ part = "element" /\ ElementNext /\ UNCHANGED <<queueVars, boundVars, textVars, pointerVars, part>>
    \/ part = "bindings" /\ BindingsNext /\ UNCHANGED <<elementsVars, templateVars, textVars, pointerVars, part>>
    \/ part = "templates" /\ TemplateNext /\ UNCHANGED <<elementsVars, bindingVars, textVars, pointerVars, part>>
    \/ part = "expressions" /\ ExpressionsNext /\ UNCHANGED <<elementsVars, boundVars, mustacheVars, pointerVars, part>>
    \/ part = "texts" /\ MustachesNext /\ UNCHANGED <<elementsVars, boundVars, expressionVars, pointerVars, part>>
    \/ part = "pointers" /\ PointersNext /\ UNCHANGED <<elementsVars, boundVars, textVars, part>>

Spec == Init /\ [][Next]_allVars

\* States differ in the part that runs; TLC needs to look at nothing else.
PartView ==
    CASE part = "queue"       -> <<part, queueVars>>
      [] part = "element"     -> <<part, elementVars>>
      [] part = "bindings"    -> <<part, bindingVars>>
      [] part = "templates"   -> <<part, templateVars>>
      [] part = "expressions" -> <<part, expressionVars>>
      [] part = "texts"       -> <<part, mustacheVars>>
      [] part = "pointers"    -> <<part, pointerVars>>

\* The same properties, evaluated only where their part runs.
InstancesKept   == part = "templates" => InstancesMatch
ExpressionsKept == part = "expressions" => ExpressionAgrees /\ EntriesKept
TextsKept       == part = "texts" => TextAgrees
GesturesKept    == part = "pointers" => GesturesBalanced
=============================================================================
