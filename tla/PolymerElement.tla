---------------------------- MODULE PolymerElement ----------------------------
(***************************************************************************)
(* One instance of a Polymer element.  A published property has a value of *)
(* its own, may be bound to a path of a model, may be reflected to an      *)
(* attribute, and may have a method that hears of its changes.  Writing a  *)
(* property, an attribute or the model sets off the others, partly at      *)
(* once, partly when observers are checked.  The methods that hear of      *)
(* changes belong to the page and may write again, so that a report to     *)
(* them is taken one call at a time.                                       *)
(***************************************************************************)
EXTENDS Integers, Sequences, FiniteSets, SequencesExt

CONSTANTS Properties,    \* published properties
          Reflected,     \* those with reflect
          Computed,      \* property -> the property it is computed from
          Observes,      \* the observed properties, in the order of `observe`
          Method,        \* observed property -> the method to call
          Initially,     \* property -> its value when the element is created
          Strings,       \* non-empty strings
          TrueValue, FalseValue, Null, UndefinedValue, Array, \* other values
          EmptyText,     \* the empty string
          NoAttribute,
          MaxWrites,     \* bound: writes to the element and to the model
          MaxMoves       \* bound: times the element is put in or taken out

PropertyTexts == Strings \cup {EmptyText}
PropertyValues == PropertyTexts \cup {TrueValue, FalseValue, Null, UndefinedValue, Array}
Observed == ToSet(Observes)
NoValue == {Null, UndefinedValue}

ASSUME PolymerElementAssumption ==
    /\ Reflected \subseteq Properties /\ Observed \subseteq Properties
    /\ DOMAIN Computed \subseteq Properties /\ Method \in [Observed -> STRING]
    /\ \A c \in DOMAIN Computed : Computed[c] \in Properties \ DOMAIN Computed
    /\ Initially \in [Properties -> PropertyValues]
    /\ MaxWrites \in Nat /\ MaxMoves \in Nat

VARIABLES
    el,        \* the element, see ElementInit
    reports,   \* calls of notifyPropertyChanges, innermost last
    phase,     \* how far createdCallback is
    inDoc,     \* the element is in a document
    unbinding, \* _unbindAllJob has a timer
    writes, moves

elementVars == <<el, reports, phase, inDoc, unbinding, writes, moves>>

ElementInit ==
    /\ el = [own      |-> Initially,                         \* name_
             attr     |-> [p \in Properties |-> NoAttribute],
             bound    |-> {},                                \* properties with an Observable_
             model    |-> [p \in Properties |-> UndefinedValue],  \* what a binding of p would observe
             value    |-> [p \in Properties |-> UndefinedValue],  \* value_ of that observer
             outBound |-> {},                                \* computed ones with a ComputedBoundObservable_
             late     |-> {},                                \* history: bound so after they were computed
             seen     |-> [p \in Observed |-> UndefinedValue],    \* value_ of the property observer
             watching |-> FALSE,                             \* the property observer is open
             arrays   |-> [p \in Observed |-> 0],            \* open observers of array values
             named    |-> {},                                \* those of them in _namedObservers
             raced    |-> {},                                \* history: attributes set while bound
             told     |-> [p \in Observed |-> UndefinedValue],    \* history: value at the last call for p
             unbound  |-> FALSE]
    /\ reports = <<>> /\ phase = "new"
    /\ inDoc = FALSE /\ unbinding = FALSE /\ writes = 0 /\ moves = 0

(***************************************************************************)
(* Properties and attributes.                                              *)
(***************************************************************************)
resolveBindingValue(old, x) ==
    IF x = UndefinedValue /\ old = Null THEN x ELSE IF x \in NoValue THEN old ELSE x

\* The type of the current value says how an attribute is read.
deserializeValue(text, current) ==
    IF current \in {TrueValue, FalseValue} THEN (IF text = NoAttribute THEN FalseValue ELSE TrueValue)
    ELSE IF text = NoAttribute THEN Null
    ELSE text

RECURSIVE set(_, _, _), delivered(_, _)

attributeToProperty(s, p, text) ==
    LET read == delivered(s, p)
        x    == deserializeValue(text, read.own[p])
    IN  IF x = read.own[p] THEN read ELSE set(read, p, x)

\* CustomElements tells the element about its attribute at once.
changeAttribute(s, p, text) ==
    IF s.attr[p] = text THEN s ELSE attributeToProperty([s EXCEPT !.attr[p] = text], p, text)

\* Mutant: an attribute is set and never removed.
reflectPropertyToAttributeOnly(s, p) ==
    LET read == delivered(s, p)
    IN  IF read.own[p] = TrueValue THEN changeAttribute(read, p, EmptyText)
        ELSE IF read.own[p] \in PropertyTexts THEN changeAttribute(read, p, read.own[p]) ELSE read
reflectPropertyToAttribute(s, p) ==
    LET read == delivered(s, p)
        x    == read.own[p]
    IN  IF x \in PropertyTexts THEN changeAttribute(read, p, x)
        ELSE IF x = TrueValue THEN changeAttribute(read, p, EmptyText)
        ELSE IF x = FalseValue THEN changeAttribute(read, p, NoAttribute)
        ELSE read

emitPropertyChangeRecord(s, p, x, old) ==
    IF x = old \/ p \notin Reflected THEN s ELSE reflectPropertyToAttribute(s, p)

\* The callback of the binding's observer.
updateValue(s, p, x, old) ==
    emitPropertyChangeRecord(
        [s EXCEPT !.own[p] = x, !.model[p] = IF p \in s.outBound THEN x ELSE @], p, x, old)

\* The getter delivers the binding first.
delivered(s, p) ==
    IF p \notin s.bound THEN s
    ELSE LET from == IF p \in DOMAIN Computed THEN delivered(s, Computed[p]) ELSE s
             x    == IF p \in DOMAIN Computed THEN from.own[Computed[p]] ELSE from.model[p]
         IN  IF x = from.value[p] THEN from
             ELSE updateValue([from EXCEPT !.value[p] = x], p, x, from.value[p])

set(s, p, x) ==
    IF p \in DOMAIN Computed THEN s
    ELSE IF p \in s.bound THEN [s EXCEPT !.model[p] = x]
    ELSE emitPropertyChangeRecord([s EXCEPT !.own[p] = x], p, x, s.own[p])

\* The binding decides, unless it has no value to give.
bindToAccessor(s, p, x, resolved) ==
    updateValue([s EXCEPT !.bound = @ \cup {p}, !.value[p] = x,
                          !.model[p] = IF p \in DOMAIN Computed THEN @ ELSE resolved],
                p, resolved, s.own[p])

bindProperty(s, p) ==
    IF p \in DOMAIN Computed
    THEN [s EXCEPT !.outBound = @ \cup {p}, !.late = IF p \in s.bound THEN @ \cup {p} ELSE @]
    ELSE bindToAccessor(s, p, s.model[p],
             IF s.model[p] = s.own[p] THEN s.model[p] ELSE resolveBindingValue(s.own[p], s.model[p]))

createComputedProperties(s) ==
    FoldLeft(LAMBDA now, p : LET read == delivered(now, Computed[p])
                             IN  bindToAccessor(read, p, read.own[Computed[p]], read.own[Computed[p]]),
             s, SetToSeq(DOMAIN Computed))

(***************************************************************************)
(* The property observer.                                                  *)
(***************************************************************************)
\* One observer of the array that is the value, known by the property's name.
observeArrayValue(s, p, x, old) ==
    LET stopped == IF old = Array /\ p \in s.named
                   THEN [s EXCEPT !.arrays[p] = @ - 1, !.named = @ \ {p}] ELSE s
    IN  IF x = Array THEN [stopped EXCEPT !.arrays[p] = @ + 1, !.named = @ \cup {p}] ELSE stopped

\* check_: the properties are read, and those that differ are reported with
\* the values they had.
checked(s) ==
    LET read == FoldLeft(delivered, s, Observes)
    IN  [read EXCEPT !.seen = [p \in Observed |-> read.own[p]]]

reportOn(s) ==
    LET now == checked(s)
    IN  [names  |-> SelectSeq(Observes, LAMBDA p : now.seen[p] # s.seen[p]),
         old    |-> s.seen,
         called |-> {}]

\* Report and record of the element after a check.
CheckProperties(s) ==
    /\ el' = checked(s)
    /\ reports' = IF reportOn(s).names = <<>> THEN reports ELSE Append(reports, reportOn(s))

\* notifyPropertyChanges: the next name of the innermost report.  The new value
\* is what the observer has by now.  A method is called once in a report.
NotifyNext ==
    /\ reports # <<>> /\ Last(reports).names # <<>>
    /\ LET r    == Last(reports)
           p    == Head(r.names)
           x    == el.seen[p]
           call == Method[p] \notin r.called /\ ~ {x, r.old[p]} \subseteq NoValue
           heard(t) == \/ t = p \/ /\ t \in ToSet(r.names)
                                   /\ Method[t] = Method[p]
       IN  /\ el' = [observeArrayValue(el, p, x, r.old[p]) EXCEPT
                        !.told = [t \in Observed |-> IF call /\ heard(t) THEN el.seen[t] ELSE @[t]]]
           /\ reports' = [reports EXCEPT ![Len(reports)] =
                             [r EXCEPT !.names = Tail(@), !.called = IF call THEN @ \cup {Method[p]} ELSE @]]
    /\ UNCHANGED <<phase, inDoc, unbinding, writes, moves>>

ReportEnds ==
    /\ reports # <<>> /\ Last(reports).names = <<>>
    /\ reports' = Front(reports)
    /\ UNCHANGED <<el, phase, inDoc, unbinding, writes, moves>>

(***************************************************************************)
(* The life of the element.                                                *)
(***************************************************************************)
\* createdCallback: the property observer is made and opened, which reports
\* what is there already.
Created(staging) ==
    /\ phase = "new"
    /\ phase' = IF staging THEN "staged" ELSE "preparing"
    /\ LET made == FoldLeft(LAMBDA s, p : observeArrayValue(s, p, s.own[p], Null), el, Observes)
       IN  CheckProperties(made)
    /\ UNCHANGED <<inDoc, unbinding, writes, moves>>

takeAttributes(s) ==
    FoldLeft(LAMBDA now, p : IF now.attr[p] = NoAttribute THEN now ELSE attributeToProperty(now, p, now.attr[p]),
             s, SetToSeq(Properties))

\* After that the attributes are taken, and an element that is not part of a
\* template is ready.
Prepared ==
    /\ phase \in {"staged", "preparing"} /\ reports = <<>> /\ ~ el.watching /\ ~ el.unbound
    /\ LET taken == takeAttributes([el EXCEPT !.watching = TRUE])
       IN  el' = IF phase = "preparing" THEN createComputedProperties(taken) ELSE taken
    /\ phase' = IF phase = "preparing" THEN "ready" ELSE phase
    /\ UNCHANGED <<reports, inDoc, unbinding, writes, moves>>

\* The template that contains the element has bound what it binds.
bindFinished ==
    /\ phase = "staged" /\ reports = <<>> /\ el.watching
    /\ phase' = "ready"
    /\ el' = createComputedProperties(el)
    /\ UNCHANGED <<reports, inDoc, unbinding, writes, moves>>

Alive == phase \in {"staged", "ready"} /\ el.watching

\* bind() of the element; the page binds a property once.
BindTo(p) ==
    /\ Alive /\ reports = <<>> /\ ~ el.unbound
    /\ p \notin el.outBound /\ p \in el.bound => p \in DOMAIN Computed
    /\ LET now == bindProperty(el, p)
       IN  el' = IF p \in Reflected THEN reflectPropertyToAttribute(now, p) ELSE now
    /\ UNCHANGED <<reports, phase, inDoc, unbinding, writes, moves>>

Attached ==
    /\ Alive /\ reports = <<>> /\ ~ inDoc /\ moves < MaxMoves
    /\ inDoc' = TRUE /\ moves' = moves + 1
    /\ unbinding' = FALSE
    /\ UNCHANGED <<el, reports, phase, writes>>

Detached ==
    /\ Alive /\ reports = <<>> /\ inDoc /\ moves < MaxMoves
    /\ inDoc' = FALSE /\ moves' = moves + 1
    /\ unbinding' = ~ el.unbound
    /\ UNCHANGED <<el, reports, phase, writes>>

\* unbindAll closes every observer the element knows of.
unbindAll(s) ==
    [s EXCEPT !.unbound = TRUE, !.bound = {}, !.watching = FALSE,
              !.outBound = @ \ s.bound,
              !.arrays = [p \in Observed |-> IF p \in s.named THEN @[p] - 1 ELSE @[p]],
              !.named = {}]

UnbindJob ==
    /\ unbinding /\ reports = <<>>
    /\ unbinding' = FALSE
    /\ el' = unbindAll(el)
    /\ UNCHANGED <<reports, phase, inDoc, writes, moves>>

(***************************************************************************)
(* The page, and checkpoints.                                              *)
(***************************************************************************)
PageWrite(next) ==
    /\ writes < MaxWrites /\ phase # "new"
    /\ writes' = writes + 1
    /\ el' = next
    /\ UNCHANGED <<reports, phase, inDoc, unbinding, moves>>

SetProperty(p, x) == x # el.own[p] /\ PageWrite(set(el, p, x))
SetAttribute(p, text) ==
    /\ text # el.attr[p]
    /\ PageWrite(changeAttribute([el EXCEPT !.raced = IF p \in el.bound THEN @ \cup {p} ELSE @], p, text))
WriteModel(p, x) == p \in el.bound \ DOMAIN Computed /\ x # el.model[p] /\ PageWrite([el EXCEPT !.model[p] = x])

\* An observer of a binding is checked, or the page reads the property.
DeliverBinding(p) ==
    /\ delivered(el, p) # el
    /\ el' = delivered(el, p)
    /\ UNCHANGED <<reports, phase, inDoc, unbinding, writes, moves>>

\* The property observer is checked: at a checkpoint, or by deliverChanges in
\* the middle of a report.
deliverChanges ==
    /\ el.watching /\ checked(el) # el /\ Len(reports) < 2
    /\ CheckProperties(el)
    /\ UNCHANGED <<phase, inDoc, unbinding, writes, moves>>

ElementNext ==
    \/ NotifyNext \/ ReportEnds \/ Prepared \/ bindFinished
    \/ Attached \/ Detached \/ UnbindJob \/ deliverChanges
    \/ \E staging \in BOOLEAN : Created(staging)
    \/ \E p \in Properties : BindTo(p) \/ DeliverBinding(p)
    \/ \E p \in Properties, x \in PropertyValues \ {UndefinedValue} : SetProperty(p, x) \/ WriteModel(p, x)
    \/ \E p \in Properties, text \in PropertyTexts \cup {NoAttribute} : SetAttribute(p, text)

ElementSpec == ElementInit /\ [][ElementNext]_elementVars

(***************************************************************************)
(* Properties.                                                             *)
(***************************************************************************)
\* No observer has anything left to report.
Settled ==
    /\ reports = <<>> /\ Alive
    /\ \A p \in Properties : delivered(el, p) = el
    /\ checked(el) = el

\* The attribute says what the property is, if that can be said.
Says(text, x) ==
    CASE x = TrueValue -> text # NoAttribute [] x = FalseValue -> text = NoAttribute
      [] x \in PropertyTexts -> text = x [] OTHER -> TRUE

\* Once all observers have been checked the element agrees with itself and with
\* the model: a bound property is what the model says, or the model what was
\* computed; an attribute that reflects says what the property is, where that
\* can be written; and each method was last called with the value that is there
\* now.  This is whatever was written, property, attribute or model, from
\* outside or by a method being told.  Left out are a computed property bound
\* after it was computed, whose model hears of its next value only
\* (properties.js 189-192), and an attribute set while its property is bound:
\* that writes to the model, which may be written again before it is read.
ElementAgrees ==
    Settled =>
        /\ \A p \in el.bound \ DOMAIN Computed : el.own[p] = el.model[p]
        /\ \A p \in el.bound \cap DOMAIN Computed : el.own[p] = el.own[Computed[p]]
        /\ \A p \in el.outBound \ el.late : el.own[p] = el.model[p] \/ phase = "staged"
        /\ \A p \in Reflected : p \notin el.raced =>
                \/ Says(el.attr[p], el.own[p])
                \/ el.own[p] = Initially[p] /\ el.attr[p] = NoAttribute
        /\ \A p \in Observed : el.told[p] = el.own[p] \/ {el.told[p], el.own[p]} \subseteq NoValue

===============================================================================
