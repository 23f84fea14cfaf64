------------------------------ MODULE NodeBinding ------------------------------
(***************************************************************************)
(* Nodes bound to paths of a model: text, attributes and the controls of a *)
(* form.  A binding opens an observer of its path and shows the value; the *)
(* control of a form also writes what the user enters back to the model,   *)
(* where other bindings find it.  A checkpoint goes through the observers  *)
(* in the order they were opened, again and again until none reports a     *)
(* change.                                                                 *)
(***************************************************************************)
EXTENDS Integers, Sequences, FiniteSets, SequencesExt

CONSTANTS Paths,     \* paths of the model
          Views,     \* what is bound, one binding each
          Kind,      \* view -> what it is
          PathOf,    \* view -> its path
          SelectOf,  \* option -> its <select>
          Group,     \* the radio buttons, all of one group, in the order of the document
          Texts,     \* non-empty strings
          Yes, No,   \* true and false
          UndefinedText, EmptyString, \* no value, the empty string
          NoView,
          MaxInputs  \* bound: writes of the page and inputs of the user

Kinds == {"text", "attribute", "conditional", "input", "checkbox", "radio", "select", "option"}
ModelValues == Texts \cup {Yes, No, UndefinedText, EmptyString}
OfKind(kinds) == {v \in Views : Kind[v] \in kinds}
Radios == OfKind({"radio"})

ASSUME NodeBindingAssumption ==
    /\ Kind \in [Views -> Kinds] /\ PathOf \in [Views -> Paths] /\ NoView \notin Views
    /\ SelectOf \in [OfKind({"option"}) -> OfKind({"select"})]
    /\ Cardinality({Yes, No, UndefinedText, EmptyString} \cup Texts) = 4 + Cardinality(Texts)
    /\ ToSet(Group) = Radios /\ Len(Group) = Cardinality(Radios)
    /\ MaxInputs \in Nat
    \* radio buttons of a group have paths of their own, and so have a <select>
    \* and its options: sharing one makes them undo each other's value
    /\ \A r, s \in Radios \cup OfKind({"select", "option"}) : r # s => PathOf[r] # PathOf[s]

VARIABLES
    model,     \* path -> value
    opened,    \* views whose observer is open, in that order
    view,      \* see BindingsInit
    stale,     \* since the last checkpoint the page wrote to the model, or an
               \* event handler threw before it came to one
    crowded,   \* history: the model had two radio buttons checked at once
    inputs

bindingVars == <<model, opened, view, stale, crowded, inputs>>

BindingsInit ==
    /\ model \in [Paths -> {UndefinedText}]
    /\ opened = <<>>
    /\ view = [value     |-> [v \in Views |-> UndefinedText],  \* value_ of its observer
               shown     |-> [v \in Views |-> IF Kind[v] \in {"conditional", "checkbox", "radio"} THEN No ELSE EmptyString],
               selected  |-> [s \in OfKind({"select"}) |-> NoView],
               unmatched |-> {}]   \* history: selects last given a value none of its options had
    /\ stale = FALSE /\ crowded = FALSE /\ inputs = 0

(***************************************************************************)
(* What a view shows of a value.                                           *)
(***************************************************************************)
sanitizeValue(x) == IF x = UndefinedText THEN EmptyString ELSE x
booleanSanitize(x) == IF x \in {No, UndefinedText, EmptyString} THEN No ELSE Yes

Sanitized(v, x) ==
    IF Kind[v] \in {"conditional", "checkbox", "radio"} THEN booleanSanitize(x) ELSE sanitizeValue(x)

OptionsOf(s) == {o \in OfKind({"option"}) : SelectOf[o] = s}
ValueOf(w, s) == IF w.selected[s] = NoView THEN EmptyString ELSE w.shown[w.selected[s]]

\* Browser: assigning to the value of a <select> picks an option that has it.
SelectValue(w, s, x) ==
    LET with == {o \in OptionsOf(s) : w.shown[o] = x}
        pick == IF w.selected[s] \in with THEN w.selected[s]
                ELSE IF with = {} THEN NoView ELSE CHOOSE o \in with : TRUE
    IN  [w EXCEPT !.selected[s] = pick,
                  !.unmatched = IF with = {} THEN @ \cup {s} ELSE @ \ {s}]

\* Browser: a radio button that is checked unchecks the others.
updateInput(w, v, x) ==
    IF Kind[v] = "select" THEN SelectValue(w, v, sanitizeValue(x))
    ELSE [w EXCEPT !.shown =
             [u \in Views |-> IF u = v THEN Sanitized(v, x)
                              ELSE IF v \in Radios /\ u \in Radios /\ Sanitized(v, x) = Yes THEN No
                              ELSE @[u]]]

\* An option whose value changes may change the value of its <select>, which is
\* then written to the model.  s is a record of model and view.
updateOption(s, o, x, isBound) ==
    LET select == SelectOf[o]
        now    == [s EXCEPT !.view.shown[o] = sanitizeValue(x)]
        value  == ValueOf(now.view, select)
    IN  IF ~ isBound \/ value = ValueOf(s.view, select) THEN now
        ELSE [now EXCEPT !.model[PathOf[select]] = value, !.view.value[select] = value]

Update(s, v, x, bound) ==
    IF Kind[v] = "option" THEN updateOption(s, v, x, SelectOf[v] \in bound)
    ELSE [s EXCEPT !.view = updateInput(@, v, x)]

(***************************************************************************)
(* A checkpoint: a round of all observers until there is no change.        *)
(***************************************************************************)
Check(s, v) ==
    LET x == s.model[PathOf[v]]
    IN  IF s.view.value[v] = x THEN s
        ELSE Update([s EXCEPT !.view.value[v] = x, !.changed = TRUE], v, x, ToSet(opened))

RECURSIVE Checkpoint(_)
Checkpoint(s) ==
    LET round == FoldLeft(Check, [s EXCEPT !.changed = FALSE], opened)
    IN  IF round.changed THEN Checkpoint(round) ELSE round

Apply(m, w) ==
    LET end == Checkpoint([model |-> m, view |-> w, changed |-> FALSE])
    IN  /\ model' = end.model
        /\ view' = end.view
        /\ stale' = FALSE

\* Two radio buttons of the group are to be checked.
Crowded(m, bound) ==
    Cardinality({r \in Radios \cap bound : booleanSanitize(m[PathOf[r]]) = Yes}) > 1

(***************************************************************************)
(* Actions.                                                                *)
(***************************************************************************)
\* Children are bound before their parents.
BindView(v) ==
    /\ v \notin ToSet(opened)
    /\ Kind[v] = "option" => SelectOf[v] \notin ToSet(opened)
    /\ Kind[v] = "select" => OptionsOf(v) \subseteq ToSet(opened)
    /\ LET x   == model[PathOf[v]]
           end == Update([model |-> model, view |-> [view EXCEPT !.value[v] = x]], v, x, {})
       IN  view' = end.view
    /\ opened' = Append(opened, v)
    /\ crowded' = (crowded \/ Crowded(model, ToSet(opened) \cup {v}))
    /\ UNCHANGED <<model, stale, inputs>>

\* With oneTime the value is shown and not followed.
BindOnce(v) ==
    /\ v \notin ToSet(opened) /\ Kind[v] \notin {"option", "select", "radio"}
    /\ view' = updateInput(view, v, model[PathOf[v]])
    /\ UNCHANGED <<model, opened, stale, crowded, inputs>>

CloseBinding(v) ==
    /\ v \in ToSet(opened) /\ Kind[v] \notin {"option", "select", "radio"}
    /\ opened' = SelectSeq(opened, LAMBDA u : u # v)
    /\ view' = [view EXCEPT !.value[v] = UndefinedText]
    /\ UNCHANGED <<model, stale, crowded, inputs>>

PageWrites(p, x) ==
    /\ inputs < MaxInputs /\ x # model[p]
    /\ inputs' = inputs + 1
    /\ model' = [model EXCEPT ![p] = x]
    /\ stale' = TRUE
    /\ UNCHANGED <<opened, view, crowded>>

performMicrotaskCheckpoint ==
    /\ stale
    /\ Apply(model, view)
    /\ crowded' = (crowded \/ Crowded(model, ToSet(opened)))
    /\ UNCHANGED <<opened, inputs>>

\* The other radio buttons of the group get no event, so the model is told for
\* them, in the order of the document; at one that was never bound, and so has no
\* bindings_, this ends with a TypeError.
NeverBound(v, r) == r # v /\ r \notin ToSet(opened)
PostEventThrows(v) == v \in Radios /\ \E r \in Radios : NeverBound(v, r)

\* Mutant: they are left alone.
checkedPostEventForgotten(m, v) == m
checkedPostEvent(m, v) ==
    LET Released(i) == Group[i] # v /\ \A k \in 1 .. i : ~ NeverBound(v, Group[k])
    IN  [p \in Paths |-> IF v \in Radios /\ \E i \in DOMAIN Group : Released(i) /\ PathOf[Group[i]] = p
                         THEN No ELSE m[p]]

\* The user edits a text, or clicks a box that changes, or picks an option.
Enters(v, x) ==
    /\ inputs < MaxInputs /\ v \in ToSet(opened)
    /\ CASE Kind[v] = "input"    -> x \in Texts \cup {EmptyString} /\ x # view.shown[v]
         [] Kind[v] = "checkbox" -> x \in {Yes, No} /\ x # view.shown[v]
         [] Kind[v] = "radio"    -> x = Yes /\ x # view.shown[v]
         [] Kind[v] = "select"   -> \E o \in OptionsOf(v) : x = view.shown[o] /\ o # view.selected[v]
         [] OTHER                -> FALSE
    /\ inputs' = inputs + 1
    /\ UNCHANGED opened

\* What the event handler has written, and what then is on the page.
WrittenBy(v, x) == checkedPostEvent([model EXCEPT ![PathOf[v]] = x], v)
EnteredIn(v, x) == [updateInput(view, v, x) EXCEPT !.value[v] = x]

UserInput(v, x) ==
    /\ Enters(v, x) /\ ~ PostEventThrows(v)
    /\ Apply(WrittenBy(v, x), EnteredIn(v, x))
    /\ crowded' = (crowded \/ (v \notin Radios /\ Crowded([model EXCEPT ![PathOf[v]] = x], ToSet(opened))))

\* The handler does not come to its checkpoint, and whoever is behind the unbound
\* button stays checked in the model.
UserInputThrows(v, x) ==
    /\ Enters(v, x) /\ PostEventThrows(v)
    /\ model' = WrittenBy(v, x)
    /\ view' = EnteredIn(v, x)
    /\ stale' = TRUE
    /\ crowded' = (crowded \/ Crowded(WrittenBy(v, x), ToSet(opened)))

BindingsNext ==
    \/ performMicrotaskCheckpoint
    \/ \E v \in Views : BindView(v) \/ BindOnce(v) \/ CloseBinding(v)
    \/ \E v \in Views, x \in ModelValues : UserInput(v, x) \/ UserInputThrows(v, x)
    \/ \E p \in Paths, x \in ModelValues : PageWrites(p, x)

BindingsSpec == BindingsInit /\ [][BindingsNext]_bindingVars

(***************************************************************************)
(* Properties.                                                             *)
(***************************************************************************)
\* After every checkpoint, and every input but one whose handler threw, each bound
\* view shows the value of its path, whoever wrote it last, the page, the user in
\* another control, or an option that changed under its <select>.  Left out are:
\* until the next checkpoint, whoever makes it, all views after a click on a radio
\* button whose group has one that was never bound (checkedPostEvent throws); radio
\* buttons that the model had checked together (by the page, or by such a click), of
\* which the browser unchecks one and nobody tells the model; and a <select> that
\* was given a value before one of its options had it.
ViewAgrees ==
    ~ stale => \A v \in ToSet(opened) :
        IF Kind[v] = "select" THEN v \notin view.unmatched => ValueOf(view, v) = sanitizeValue(model[PathOf[v]])
        ELSE v \notin Radios \/ ~ crowded => view.shown[v] = Sanitized(v, model[PathOf[v]])
===============================================================================
