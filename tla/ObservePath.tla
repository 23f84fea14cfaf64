----------------------------- MODULE ObservePath -----------------------------
(***************************************************************************)
(* The paths of observe-js: the state machine that parses a path string    *)
(* into keys (parsePath) and the string a Path gives back (toString), over *)
(* one character of each class the two tell apart.                         *)
(***************************************************************************)
EXTENDS Integers, Sequences, SequencesExt

CONSTANT MaxText   \* bound: the longest path text

VARIABLE pathText  \* the text of a path, a sequence of characters

\* One character of each class getPathCharType knows, "a" for a letter, "1" for
\* the digits but 0, " " for the white space and "-" for any other.
Chars == {"a", "1", "0", ".", "[", "]", "'", "\"", "\\", "-", " "}

getPathCharType(c) ==
    CASE c = "eof" -> "eof"
      [] c = "a" -> "ident"
      [] c = "1" -> "number"
      [] c = " " -> "ws"
      [] c \in {"0", ".", "[", "]", "'", "\""} -> c
      [] OTHER -> "else"

go(mode) == <<mode, "noop">>

pathStateMachine ==
    [beforePath |-> [t \in {"ws", "ident", "[", "eof"} |->
         CASE t = "ws" -> go("beforePath") [] t = "ident" -> <<"inIdent", "append">>
           [] t = "[" -> go("beforeElement") [] t = "eof" -> go("afterPath")],
     inPath |-> [t \in {"ws", ".", "[", "eof"} |->
         CASE t = "ws" -> go("inPath") [] t = "." -> go("beforeIdent")
           [] t = "[" -> go("beforeElement") [] t = "eof" -> go("afterPath")],
     beforeIdent |-> [t \in {"ws", "ident"} |->
         IF t = "ws" THEN go("beforeIdent") ELSE <<"inIdent", "append">>],
     inIdent |-> [t \in {"ident", "0", "number", "ws", ".", "[", "eof"} |->
         CASE t \in {"ident", "0", "number"} -> <<"inIdent", "append">>
           [] t = "ws" -> <<"inPath", "push">> [] t = "." -> <<"beforeIdent", "push">>
           [] t = "[" -> <<"beforeElement", "push">> [] t = "eof" -> <<"afterPath", "push">>],
     beforeElement |-> [t \in {"ws", "0", "number", "'", "\""} |->
         CASE t = "ws" -> go("beforeElement") [] t = "0" -> <<"afterZero", "append">>
           [] t = "number" -> <<"inIndex", "append">>
           [] t = "'" -> <<"inSingleQuote", "appendNothing">>
           [] t = "\"" -> <<"inDoubleQuote", "appendNothing">>],
     afterZero |-> [t \in {"ws", "]"} |->
         IF t = "ws" THEN <<"afterElement", "push">> ELSE <<"inPath", "push">>],
     inIndex |-> [t \in {"0", "number", "ws", "]"} |->
         CASE t \in {"0", "number"} -> <<"inIndex", "append">>
           [] t = "ws" -> go("afterElement") [] t = "]" -> <<"inPath", "push">>],
     inSingleQuote |-> [t \in {"'", "eof", "else"} |->
         CASE t = "'" -> go("afterElement") [] t = "eof" -> go("error")
           [] t = "else" -> <<"inSingleQuote", "append">>],
     inDoubleQuote |-> [t \in {"\"", "eof", "else"} |->
         CASE t = "\"" -> go("afterElement") [] t = "eof" -> go("error")
           [] t = "else" -> <<"inDoubleQuote", "append">>],
     afterElement |-> [t \in {"ws", "]"} |->
         IF t = "ws" THEN go("afterElement") ELSE <<"inPath", "push">>]]

\* typeMap[type] || typeMap['else'] || 'error'
transition(mode, type) ==
    LET typeMap == pathStateMachine[mode] IN
    IF type \in DOMAIN typeMap THEN typeMap[type]
    ELSE IF "else" \in DOMAIN typeMap THEN typeMap["else"] ELSE go("error")

Failed == << <<"no path">> >>   \* what parsePath returns for a text that is no path

maybeUnescapeQuote(mode, next) ==
    \/ mode = "inSingleQuote" /\ next = "'"
    \/ mode = "inDoubleQuote" /\ next = "\""

\* key is a sequence of at most one key, the one being read: none is undefined.
append(key, text) == IF key = <<>> THEN <<text>> ELSE <<key[1] \o text>>

RECURSIVE parseFrom(_, _, _, _, _)
parseFrom(text, index, mode, key, keys) ==
    LET at(i) == IF i <= Len(text) THEN text[i] ELSE "eof"
        c     == at(index)
        move  == transition(mode, getPathCharType(c))
        key2  == CASE move[2] = "append" -> append(key, <<c>>)
                   [] move[2] = "appendNothing" -> append(key, <<>>)
                   [] OTHER -> key
        next  == IF move[2] = "push" THEN parseFrom(text, index + 1, move[1], <<>>, keys \o key)
                 ELSE parseFrom(text, index + 1, move[1], key2, keys)
    IN  IF c = "\\" /\ maybeUnescapeQuote(mode, at(index + 1))
        THEN parseFrom(text, index + 2, mode, append(key, <<at(index + 1)>>), keys)
        ELSE IF move[1] = "error" THEN Failed
        ELSE IF move[1] = "afterPath" THEN IF move[2] = "push" THEN keys \o key ELSE keys
        ELSE next

parsePath(text) == parseFrom(text, 1, "beforePath", <<>>, <<>>)

\* identRegExp: a letter, then letters and digits.
isIdent(key) == Len(key) > 0 /\ key[1] = "a" /\ \A i \in DOMAIN key : key[i] \in {"a", "1", "0"}

\* +s === s >>> 0 && s !== '': what JavaScript reads as a whole number, which is
\* more than a numeral: spaces around it, a sign on a zero and a zero fraction
\* are read away, and white space alone reads as 0.
Digits(s) == \A i \in DOMAIN s : s[i] \in {"0", "1"}
Zeros(s)  == \A i \in DOMAIN s : s[i] = "0"
isIndex(key) ==
    LET bare == SelectSeq(key, LAMBDA c : c # " ")
        trimmed == \A i \in DOMAIN key : key[i] = " " =>
                      \/ \A j \in 1 .. i : key[j] = " "
                      \/ \A j \in i .. Len(key) : key[j] = " "
        number(s) == \E n \in 0 .. Len(s) :
                       LET whole == SubSeq(s, 1, n)
                           fraction == SubSeq(s, n + 1, Len(s))
                       IN  /\ Digits(whole)
                           /\ IF fraction = <<>> THEN whole # <<>>
                              ELSE /\ fraction[1] = "."
                                   /\ Zeros(Tail(fraction))
                                   /\ Len(s) > 1
    IN  /\ key # <<>>
        /\ trimmed
        /\ \/ bare = <<>>
           \/ number(bare)
           \/ bare[1] = "-" /\ number(Tail(bare)) /\ \A i \in DOMAIN bare : bare[i] # "1"

\* Mutant: quotes are not escaped.
formatAccessorRaw(key) ==
    IF isIndex(key) THEN <<"[">> \o key \o <<"]">>
    ELSE <<"[", "\"">> \o key \o <<"\"", "]">>

formatAccessor(key) ==
    LET escaped(c) == IF c = "\"" THEN <<"\\", "\"">> ELSE <<c>>
    IN  IF isIndex(key) THEN <<"[">> \o key \o <<"]">>
        ELSE <<"[", "\"">> \o FlattenSeq([i \in DOMAIN key |-> escaped(key[i])]) \o <<"\"", "]">>

toString(keys) ==
    FlattenSeq([i \in DOMAIN keys |->
        IF isIdent(keys[i])
        THEN (IF i > 1 THEN <<".">> ELSE <<>>) \o keys[i]
        ELSE formatAccessor(keys[i])])

(***************************************************************************)
(* The texts: every one of at most MaxText characters.                     *)
(***************************************************************************)
PathInit == pathText = <<>>

TypeChar == Len(pathText) < MaxText /\ \E c \in Chars : pathText' = Append(pathText, c)

PathSpec == PathInit /\ [][TypeChar]_pathText

----------------------------------------------------------------------------
\* A key that toString writes as it is: a number without signs, spaces or
\* leading zeros, or a key whose last character does not escape the quote.
Plain(key) ==
    /\ isIndex(key) => Digits(key) /\ (key[1] = "0" => Len(key) = 1)
    /\ key # <<>> => Last(key) # "\\"

\* The text a path gives back reads as the same path: for every text parsePath
\* accepts, toString of its keys parses to these keys again (Path.prototype.toString
\* against parsePath), whatever quotes and escapes the first text had.
PathRoundTrip ==
    LET keys == parsePath(pathText)
    IN  keys # Failed /\ (\A i \in DOMAIN keys : Plain(keys[i])) =>
            parsePath(toString(keys)) = keys
=============================================================================
