------------------------------ MODULE Mustaches ------------------------------
(***************************************************************************)
(* What TemplateBinding takes for a binding in a text or an attribute:     *)
(* {{path}}, which follows the model, and [[path]], which is read once,    *)
(* any number of them with text between; and the observers it makes of     *)
(* them.  A text is a sequence of characters.                              *)
(***************************************************************************)
EXTENDS Integers, Sequences, FiniteSets, SequencesExt, TLC

CONSTANTS PathNames,   \* names that paths have, of one character
          TextValues, \* values of the model under these names, one character as text
          NoText,      \* undefined
          Self,        \* the model as text
          Literals,    \* texts between bindings: nothing opens in them
          Remainders,  \* texts after the last: what opens does not close
          MaxMustaches, \* bound: bindings in a text
          MaxModelWrites \* bound: writes of the model

ASSUME MustachesAssumption ==
    /\ <<>> \in Literals /\ <<>> \in Remainders /\ NoText \in TextValues
    /\ Self \notin TextValues /\ MaxMustaches \in Nat /\ MaxModelWrites \in Nat

VARIABLES textModel,   \* name -> value
          node,    \* what was written: kind of node, its attributes, and the model then
          bindings, \* those of the node: see processBinding
          modelWrites

mustacheVars == <<textModel, node, bindings, modelWrites>>

(***************************************************************************)
(* Texts.                                                                  *)
(***************************************************************************)
\* s.indexOf(c + c, from), and a length that no text has when there is none.
IndexOf(s, c, from) ==
    LET at == {i \in from..(Len(s) - 1) : s[i] = c /\ s[i + 1] = c}
    IN  IF at = {} THEN Len(s) + 2 ELSE CHOOSE i \in at : \A j \in at : i <= j

\* Mutant: curly brackets are looked for first.
opensCurly(s, from) ==
    LET curly  == IndexOf(s, "{", from)
        square == IndexOf(s, "[", from)
    IN  IF curly > Len(s) THEN [at |-> square, end |-> IndexOf(s, "]", square + 2), oneTime |-> TRUE]
        ELSE [at |-> curly, end |-> IndexOf(s, "}", curly + 2), oneTime |-> FALSE]

opens(s, from) ==
    LET curly  == IndexOf(s, "{", from)
        square == IndexOf(s, "[", from)
    IN  IF square < curly THEN [at |-> square, end |-> IndexOf(s, "]", square + 2), oneTime |-> TRUE]
        ELSE [at |-> curly, end |-> IndexOf(s, "}", curly + 2), oneTime |-> FALSE]

\* The bindings from position `from` on, each with the text in front of it, and
\* the text after the last.
RECURSIVE tokensFrom(_, _)
tokensFrom(s, from) ==
    LET open == opens(s, from)
        rest == tokensFrom(s, open.end + 2)
    IN  IF open.at > Len(s) \/ open.end > Len(s) THEN [parts |-> <<>>, last |-> SubSeq(s, from, Len(s))]
        ELSE [rest EXCEPT !.parts = <<[text |-> SubSeq(s, from, open.at - 1), oneTime |-> open.oneTime,
                                       path |-> SubSeq(s, open.at + 2, open.end - 1)]>> \o @]

parseMustaches(s) == tokensFrom(s, 1)
hasMustache(tokens)  == tokens.parts # <<>>
hasOnePath(tokens)   == Len(tokens.parts) = 1
isSimplePath(tokens) == hasOnePath(tokens) /\ tokens.parts[1].text = <<>> /\ tokens.last = <<>>
onlyOneTime(tokens)  == \A i \in 1..Len(tokens.parts) : tokens.parts[i].oneTime

\* An undefined value is left out.
combinator(tokens, values) ==
    FlattenSeq([i \in 1..Len(tokens.parts) |->
        tokens.parts[i].text \o IF values[i] = NoText THEN <<>> ELSE <<values[i]>>]) \o tokens.last

(***************************************************************************)
(* Values.                                                                 *)
(***************************************************************************)
\* An empty path is the model; one that is not valid has no value.
GetValue(m, path) ==
    IF path = <<>> THEN Self
    ELSE IF Len(path) = 1 /\ path[1] \in PathNames THEN m[path[1]] ELSE NoText

\* What is observed: a part that is read once as a constant, when another is not.
ObservedText(m, b) ==
    [i \in 1..Len(b.tokens.parts) |->
        IF b.tokens.parts[i].oneTime THEN b.values[i] ELSE GetValue(m, b.tokens.parts[i].path)]

Transformed(tokens, values) == IF isSimplePath(tokens) THEN values ELSE combinator(tokens, values)

processOneTimeBinding(m, tokens) ==
    LET values == [i \in 1..Len(tokens.parts) |-> GetValue(m, tokens.parts[i].path)]
    IN  [values |-> values, view |-> Transformed(tokens, values)]

processBinding(m, name, tokens) ==
    LET first == processOneTimeBinding(m, tokens)
    IN  [name |-> name, tokens |-> tokens, values |-> first.values, view |-> first.view, live |-> ~ onlyOneTime(tokens)]

\* What can be written, and its characters.
Piece(text, oneTime, path) == [text |-> text, oneTime |-> oneTime, path |-> path]
MustachePaths == {<<n>> : n \in PathNames} \cup {<<>>}
Writings == [parts : UNION {[1..n -> {Piece(t, o, p) : t \in Literals, o \in BOOLEAN, p \in MustachePaths}] : n \in 0..MaxMustaches},
             last : Remainders]

Text(w) == FlattenSeq([i \in 1..Len(w.parts) |->
    w.parts[i].text \o (IF w.parts[i].oneTime THEN <<"[", "[">> ELSE <<"{", "{">>) \o w.parts[i].path
                    \o IF w.parts[i].oneTime THEN <<"]", "]">> ELSE <<"}", "}">>]) \o w.last

\* The directives of a template are not attributes of it; an empty one is the
\* model, and a lone if binds the model.
Directives == {"if", "bind", "repeat"}
parseWithDefault(s) == parseMustaches(IF s = <<>> THEN <<"{", "{", "}", "}">> ELSE s)

\* Underbars in front of a name are not part of it.
Named(name) == IF name = "_src" THEN "src" ELSE name

parseAttributeBindings(attributes, isTemplate) ==
    LET own    == SelectSeq(attributes, LAMBDA a : isTemplate => Named(a[1]) \notin Directives)
        plain  == [i \in 1..Len(own) |-> [name |-> Named(own[i][1]), tokens |-> parseMustaches(Text(own[i][2]))]]
        given  == SelectSeq(attributes, LAMBDA a : isTemplate /\ a[1] \in Directives)
        parsed == SelectSeq([i \in 1..Len(given) |-> [name |-> given[i][1], tokens |-> parseWithDefault(Text(given[i][2]))]],
                            LAMBDA b : hasMustache(b.tokens))
        names  == {parsed[i].name : i \in 1..Len(parsed)}
    IN  SelectSeq(plain, LAMBDA b : hasMustache(b.tokens)) \o parsed
        \o IF names = {"if"} THEN <<[name |-> "bind", tokens |-> parseWithDefault(<<>>)]>> ELSE <<>>

getBindings(kind, attributes) ==
    IF kind = "text"
    THEN LET tokens == parseMustaches(Text(attributes[1][2]))
         IN  IF hasMustache(tokens) THEN <<[name |-> "textContent", tokens |-> tokens]>> ELSE <<>>
    ELSE parseAttributeBindings(attributes, kind = "template")

(***************************************************************************)
(* The page.                                                               *)
(***************************************************************************)
Attribute(name, w) == <<name, w>>
Blank == [parts |-> <<>>, last |-> <<>>]
ASSUME BlankAssumption == Blank \in Writings
NothingWritten == [kind |-> "none", attributes |-> <<>>, since |-> <<>>]

MustachesInit ==
    /\ textModel \in [PathNames -> TextValues]
    /\ node = NothingWritten /\ bindings = <<>> /\ modelWrites = 0

\* A node of a template is cloned and bound.
BindNode(kind, attributes) ==
    LET found == getBindings(kind, attributes)
    IN  /\ node = NothingWritten
        /\ node' = [kind |-> kind, attributes |-> attributes, since |-> textModel]
        /\ bindings' = [i \in 1..Len(found) |-> processBinding(textModel, found[i].name, found[i].tokens)]
        /\ UNCHANGED <<textModel, modelWrites>>

WriteUnderName(n, v) ==
    /\ node # NothingWritten /\ modelWrites < MaxModelWrites /\ v # textModel[n]
    /\ textModel' = [textModel EXCEPT ![n] = v] /\ modelWrites' = modelWrites + 1
    /\ UNCHANGED <<node, bindings>>

Behind(b) == b.live /\ b.values # ObservedText(textModel, b)

CheckText(i) ==
    /\ Behind(bindings[i])
    /\ LET now == ObservedText(textModel, bindings[i])
       IN  bindings' = [bindings EXCEPT ![i].values = now, ![i].view = Transformed(bindings[i].tokens, now)]
    /\ UNCHANGED <<textModel, node, modelWrites>>

MustachesNext ==
    \/ \E w \in Writings : \/ \E kind \in {"text", "element"} : BindNode(kind, <<Attribute("_src", w)>>)
                           \/ w.last = <<>> /\ \E d \in Directives : BindNode("template", <<Attribute(d, w)>>)
    \/ \E d, e \in Directives : d # e /\ BindNode("template", <<Attribute(d, Blank), Attribute("_src", Blank), Attribute(e, Blank)>>)
    \/ \E n \in PathNames, v \in TextValues : WriteUnderName(n, v)
    \/ \E i \in 1..Len(bindings) : CheckText(i)
MustachesSpec == MustachesInit /\ [][MustachesNext]_mustacheVars

(***************************************************************************)
(* Properties.                                                             *)
(***************************************************************************)
\* What a writing says: the values between its texts, or one value when there is
\* nothing else.
Said(w) ==
    LET value(i) == GetValue(IF w.parts[i].oneTime THEN node.since ELSE textModel, w.parts[i].path)
    IN  IF w = Blank THEN <<Self>>
        ELSE IF Len(w.parts) = 1 /\ w.parts[1].text = <<>> /\ w.last = <<>> THEN <<value(1)>>
        ELSE FlattenSeq([i \in 1..Len(w.parts) |-> w.parts[i].text \o IF value(i) = NoText THEN <<>> ELSE <<value(i)>>]) \o w.last

\* The name that an attribute should be bound under, or none.
BoundAs(a) ==
    IF node.kind = "template" /\ a[1] \in Directives
    THEN IF a[2] = Blank \/ a[2].parts # <<>> THEN {a[1]} ELSE {}
    ELSE IF a[2].parts = <<>> THEN {} ELSE IF node.kind = "text" THEN {"textContent"} ELSE {"src"}

\* Whatever stands around and between them, exactly the bindings that were written
\* are found; and when no observer is behind, each text is that of the model now,
\* with what is read once as it was when the node was bound.
TextAgrees ==
    node # NothingWritten =>
        LET given == ToSet(node.attributes)
            names == UNION {BoundAs(a) : a \in given}
        IN  /\ {bindings[i].name : i \in 1..Len(bindings)} = names \cup IF names = {"if"} THEN {"bind"} ELSE {}
            /\ \A i \in 1..Len(bindings), a \in given :
                  bindings[i].name \in BoundAs(a) /\ ~ Behind(bindings[i]) => bindings[i].view = Said(a[2])
===============================================================================
