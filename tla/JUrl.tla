--------------------------------- MODULE JUrl ----------------------------------
(***************************************************************************)
(* URL/url.js: the URL objects of browsers that have none.  A text is read *)
(* one character at a time by a machine of named states, and the setters   *)
(* run the same machine from a state in its middle (the "override") over   *)
(* the text they are given.                                                *)
(*                                                                         *)
(* A character is a string of length 1, or one of the escapes "%20" ... ,  *)
(* which the code keeps as it finds them.  A password is kept with the     *)
(* colon before it: the code's null is <<>>, its empty password <<":">>.   *)
(***************************************************************************)
EXTENDS Integers, Sequences, FiniteSets, SequencesExt

CONSTANTS Ports,        \* relative: schemes (sequences of letters) -> their default ports
          FileScheme,   \* "file"
          Addresses,    \* bound: texts a page makes a URL of
          Starts,       \* bound: those of them whose URL it then changes; texts it gives to href
          Given,        \* bound: texts a page gives to the other setters
          BaseTexts,    \* bound: addresses of documents; <<>> for a URL made without a base
          MaxSettings   \* bound: calls of setters

ALPHA  == {"h", "H", "m", "f", "s"}
DIGITS == {"0", "8", "9"}
EOF    == "EOF"
Ends(c)  == c \in {EOF, "/", "\\", "?", "#"}
Slash(c) == c \in {"/", "\\"}

ASSUME UrlAssumption ==
    /\ FileScheme \in DOMAIN Ports /\ MaxSettings \in Nat /\ Starts \subseteq Addresses
    /\ \A scheme \in DOMAIN Ports : ToSet(scheme) \subseteq ALPHA /\ ToSet(Ports[scheme]) \subseteq DIGITS

VARIABLES url,     \* the URL object: see clear
          base,    \* <<>> or the URL it was made with
          settings, \* calls of setters
          set,     \* the last setter called; "threw" when the constructor did
          oddity   \* history: what the setters did that no address says

urlVars == <<url, base, settings, set, oddity>>

isRelativeScheme(scheme) == scheme \in DOMAIN Ports

clear == [scheme |-> <<>>, schemeData |-> <<>>, username |-> <<>>, password |-> <<>>, host |-> <<>>,
          port |-> <<>>, path |-> <<>>, query |-> <<>>, fragment |-> <<>>,
          isInvalid |-> FALSE, isRelative |-> FALSE]
invalid == [clear EXCEPT !.isInvalid = TRUE]

Lower(c) == IF c = "H" THEN "h" ELSE c
toLowerCase(text) == [k \in DOMAIN text |-> Lower(text[k])]
Hosted(u, name) == IF name = <<>> THEN invalid ELSE [u EXCEPT !.host = toLowerCase(name)]   \* IDNAToASCII

Escaped == [c \in {" ", "?", "#"} |-> CASE c = " " -> "%20" [] c = "?" -> "%3F" [] c = "#" -> "%23"]
percentEscape(c) ==
    IF c \in DOMAIN Escaped THEN Escaped[c] ELSE c

percentEscapeQuery(c) ==
    IF c \in DOMAIN Escaped \ {"?"} THEN Escaped[c] ELSE c

Dot(name) == CASE name \in {<<".">>, <<"%2e">>} -> "."
               [] name \in {a \o b : a, b \in {<<".">>, <<"%2e">>}} -> ".."
               [] OTHER -> "name"

(***************************************************************************)
(* A parse: the object it fills in, the state, the cursor (1 for the first *)
(* character) and the buffer; over says there is a stateOverride, and      *)
(* threw that an exception ended it.                                       *)
(***************************************************************************)
Start(u, text, state, over, b) ==
    [u |-> u, input |-> text, state |-> state, cursor |-> 1, buffer |-> <<>>, over |-> over,
     hostname |-> over /\ state = "hostname", base |-> b,
     seenAt |-> FALSE, seenBracket |-> FALSE, done |-> FALSE, threw |-> FALSE]

CharAt(p, k) == IF k <= Len(p.input) THEN p.input[k] ELSE EOF
Advance(p)     == [p EXCEPT !.cursor = @ + 1]
Go(p, state)   == [p EXCEPT !.state = state, !.cursor = @ + 1]
Stay(p, state) == [p EXCEPT !.state = state]
Keep(p, c)     == [p EXCEPT !.buffer = Append(@, c), !.cursor = @ + 1]
BreakLoop(p)   == [p EXCEPT !.done = TRUE]
Throw(p)       == [p EXCEPT !.done = TRUE, !.threw = TRUE]

SchemeStart(p, c) ==
    IF c \in ALPHA THEN Go([p EXCEPT !.buffer = Append(@, Lower(c))], "scheme")
    ELSE IF p.over THEN BreakLoop(p)
    ELSE [p EXCEPT !.buffer = <<>>, !.state = "no scheme"]

Scheme(p, c) ==
    LET relative == isRelativeScheme(p.buffer)
        q == [p EXCEPT !.u.scheme = p.buffer, !.buffer = <<>>]
        r == [q EXCEPT !.u.isRelative = @ \/ relative]
    IN CASE c \in ALPHA \cup DIGITS \cup {"."} -> Keep(p, Lower(c))
         [] c = ":" /\ p.over                  -> BreakLoop(q)
         [] c = ":" /\ ~ p.over                ->
              Go(r, IF p.buffer = FileScheme THEN "relative"
                    ELSE IF ~ r.u.isRelative THEN "scheme data"
                    ELSE IF \E b \in ToSet(p.base) : b.scheme = p.buffer THEN "relative or authority"
                    ELSE "authority first slash")
         [] OTHER -> IF p.over THEN BreakLoop(p)
                     ELSE [p EXCEPT !.buffer = <<>>, !.cursor = 1, !.state = "no scheme"]

\* the assignment to query, which is declared nowhere, throws
SchemeData(p, c) ==
    CASE c = "?" -> Throw(p)
      [] c = "#" -> Go([p EXCEPT !.u.fragment = <<"#">>], "fragment")
      [] c \in {EOF, "\t"} -> Advance(p)
      [] OTHER   -> Advance([p EXCEPT !.u.schemeData = Append(@, percentEscape(c))])

NoScheme(p) ==
    IF \E b \in ToSet(p.base) : isRelativeScheme(b.scheme) THEN Stay(p, "relative") ELSE Advance([p EXCEPT !.u = invalid])

RelativeOrAuthority(p, c) ==
    IF c = "/" /\ CharAt(p, p.cursor + 1) = "/" THEN Go(p, "authority ignore slashes") ELSE Stay(p, "relative")

(***************************************************************************)
(* What an address leaves out it takes from the base; without one, reading *)
(* base._host throws.                                                      *)
(***************************************************************************)
Inherit(p, path, query) ==
    LET b == Head(p.base)
    IN [p EXCEPT !.u.host = b.host, !.u.port = b.port, !.u.path = path, !.u.query = query]

DriveLetter(p, c) ==
    /\ p.u.scheme = FileScheme /\ c \in ALPHA /\ CharAt(p, p.cursor + 1) \in {":", "|"} /\ Ends(CharAt(p, p.cursor + 2))

\* The scheme is the base's before anything of the rest is looked at.
Relative(p, c) ==
    LET q == [p EXCEPT !.u.isRelative = TRUE,
                       !.u.scheme = IF @ = FileScheme THEN @ ELSE Head(p.base).scheme]
        b == Head(p.base)
    IN CASE Slash(c)          -> Go(q, "relative slash")
         [] DriveLetter(q, c) -> Stay(q, "relative path")
         [] ~ Slash(c) /\ ~ DriveLetter(q, c) /\ p.base = <<>> -> Throw(q)
         [] OTHER ->
              CASE c = EOF -> BreakLoop(Inherit(q, b.path, b.query))
                [] c = "?" -> Go(Inherit(q, b.path, <<"?">>), "query")
                [] c = "#" -> Go([Inherit(q, b.path, b.query) EXCEPT !.u.fragment = <<"#">>], "fragment")
                [] OTHER   -> Stay(Inherit(q, IF b.path = <<>> THEN <<>> ELSE Front(b.path), <<>>), "relative path")

RelativeSlash(p, c) ==
    IF Slash(c) THEN Go(p, IF p.u.scheme = FileScheme THEN "file host" ELSE "authority ignore slashes")
    ELSE Stay(IF p.u.scheme = FileScheme THEN p
              ELSE [p EXCEPT !.u.host = Head(p.base).host, !.u.port = Head(p.base).port], "relative path")

(***************************************************************************)
(* The authority: all up to an "@" is the user's name and password; the    *)
(* cursor then goes back over what was the host.                           *)
(***************************************************************************)
AuthorityFirstSlash(p, c)  == IF c = "/" THEN Go(p, "authority second slash") ELSE Stay(p, "authority ignore slashes")
AuthoritySecondSlash(p, c) == IF c = "/" THEN Go(p, "authority ignore slashes") ELSE Stay(p, "authority ignore slashes")
AuthorityIgnoreSlashes(p, c) == IF Slash(c) THEN Advance(p) ELSE Stay(p, "authority")

User(u, c) ==
    CASE c = "\t"                           -> u
      [] c = ":" /\ u.password = <<>>       -> [u EXCEPT !.password = <<":">>]
      [] u.password # <<>> /\ c # "\t"      -> [u EXCEPT !.password = Append(@, percentEscape(c))]
      [] OTHER                              -> [u EXCEPT !.username = Append(@, percentEscape(c))]

Authority(p, c) ==
    CASE c = "@"  -> Advance([p EXCEPT !.u = FoldLeft(User, @, IF p.seenAt THEN Append(p.buffer, "%40") ELSE p.buffer),
                                       !.seenAt = TRUE, !.buffer = <<>>])
      [] Ends(c)  -> [p EXCEPT !.cursor = @ - Len(p.buffer), !.buffer = <<>>, !.state = "host"]
      [] OTHER    -> Keep(p, c)

FileHost(p, c) ==
    CASE Ends(c) ->
           IF Len(p.buffer) = 2 /\ p.buffer[1] \in ALPHA /\ p.buffer[2] \in {":", "|"} THEN Stay(p, "relative path")
           ELSE IF p.buffer = <<>> THEN Stay(p, "relative path start")
           ELSE Stay([p EXCEPT !.u = Hosted(@, p.buffer), !.buffer = <<>>], "relative path start")
      [] c = "\t" -> Advance(p)
      [] OTHER    -> Keep(p, c)

HostName(p, c) ==
    LET q == [p EXCEPT !.u = Hosted(@, p.buffer), !.buffer = <<>>]
    IN CASE c = ":" /\ ~ p.seenBracket -> IF p.hostname THEN BreakLoop(q) ELSE Go(q, "port")
         [] Ends(c)  -> IF p.over THEN BreakLoop(q) ELSE Stay(q, "relative path start")
         [] c = "\t" -> Advance(p)
         [] OTHER    -> Keep([p EXCEPT !.seenBracket = (@ \/ c = "[") /\ c # "]"], c)

parseInt(digits) ==
    LET first == SelectInSeq(digits, LAMBDA d : d # "0")
    IN IF first = 0 THEN <<"0">> ELSE SubSeq(digits, first, Len(digits))

Port(p, c) ==
    LET port == parseInt(p.buffer)
        same == isRelativeScheme(p.u.scheme) /\ Ports[p.u.scheme] = port
        q    == IF p.buffer = <<>> \/ same THEN [p EXCEPT !.buffer = <<>>]
                ELSE [p EXCEPT !.u.port = port, !.buffer = <<>>]
    IN CASE c \in DIGITS -> Keep(p, c)
         [] c \notin DIGITS /\ (Ends(c) \/ p.over) -> IF p.over THEN BreakLoop(q) ELSE Stay(q, "relative path start")
         [] c = "\t" /\ ~ p.over -> Advance(p)
         [] OTHER -> Advance([p EXCEPT !.u = invalid])

RelativePathStart(p, c) == IF Slash(c) THEN Go(p, "relative path") ELSE Stay(p, "relative path")

(***************************************************************************)
(* One name of the path.  "." and ".." move; at the end of the path they   *)
(* leave an empty name behind.                                             *)
(***************************************************************************)
Walk(u, name, last) ==
    LET up    == IF u.path = <<>> THEN <<>> ELSE Front(u.path)
        drive == u.scheme = FileScheme /\ u.path = <<>> /\ Len(name) = 2 /\ name[1] \in ALPHA /\ name[2] = "|"
    IN CASE Dot(name) = ".."   -> IF last THEN Append(up, <<>>) ELSE up
         [] Dot(name) = "."    -> IF last THEN Append(u.path, <<>>) ELSE u.path
         [] Dot(name) = "name" -> Append(u.path, IF drive THEN <<name[1], ":">> ELSE name)

RelativePath(p, c) ==
    LET q == [p EXCEPT !.u.path = Walk(p.u, p.buffer, ~ Slash(c)), !.buffer = <<>>]
    IN CASE Slash(c) \/ c = EOF      -> Advance(q)
         [] c = "?" /\ ~ p.over      -> Go([q EXCEPT !.u.query = <<"?">>], "query")
         [] c = "#" /\ ~ p.over      -> Go([q EXCEPT !.u.fragment = <<"#">>], "fragment")
         [] c = "\t"                 -> Advance(p)
         [] OTHER                    -> Keep(p, percentEscape(c))

Query(p, c) ==
    CASE c = "#" /\ ~ p.over  -> Go([p EXCEPT !.u.fragment = <<"#">>], "fragment")
      [] c \in {EOF, "\t"}    -> Advance(p)
      [] OTHER                -> Advance([p EXCEPT !.u.query = Append(@, percentEscapeQuery(c))])

Fragment(p, c) == Advance(IF c \in {EOF, "\t"} THEN p ELSE [p EXCEPT !.u.fragment = Append(@, c)])

Step(p) ==
    LET c == CharAt(p, p.cursor)
    IN CASE p.state = "scheme start"             -> SchemeStart(p, c)
         [] p.state = "scheme"                   -> Scheme(p, c)
         [] p.state = "scheme data"              -> SchemeData(p, c)
         [] p.state = "no scheme"                -> NoScheme(p)
         [] p.state = "relative or authority"    -> RelativeOrAuthority(p, c)
         [] p.state = "relative"                 -> Relative(p, c)
         [] p.state = "relative slash"           -> RelativeSlash(p, c)
         [] p.state = "authority first slash"    -> AuthorityFirstSlash(p, c)
         [] p.state = "authority second slash"   -> AuthoritySecondSlash(p, c)
         [] p.state = "authority ignore slashes" -> AuthorityIgnoreSlashes(p, c)
         [] p.state = "authority"                -> Authority(p, c)
         [] p.state = "file host"                -> FileHost(p, c)
         [] p.state \in {"host", "hostname"}     -> HostName(p, c)
         [] p.state = "port"                     -> Port(p, c)
         [] p.state = "relative path start"      -> RelativePathStart(p, c)
         [] p.state = "relative path"            -> RelativePath(p, c)
         [] p.state = "query"                    -> Query(p, c)
         [] p.state = "fragment"                 -> Fragment(p, c)

RECURSIVE Run(_)
Run(p) == IF p.done \/ p.u.isInvalid \/ p.cursor > Len(p.input) + 1 THEN p ELSE Run(Step(p))

Space(c) == c \in {" ", "\t"}
Trim(text) ==
    LET kept == {k \in DOMAIN text : ~ Space(text[k])}
    IN IF kept = {} THEN <<>>
       ELSE SubSeq(text, CHOOSE k \in kept : \A j \in kept : k <= j, CHOOSE k \in kept : \A j \in kept : k >= j)
jURL(text, b) == Run(Start(clear, Trim(text), "scheme start", FALSE, b))

(***************************************************************************)
(* What a page reads.                                                      *)
(***************************************************************************)
protocol(u) == Append(u.scheme, ":")
host(u)     == IF u.isInvalid THEN <<>> ELSE IF u.port # <<>> THEN u.host \o <<":">> \o u.port ELSE u.host
pathname(u) == CASE u.isInvalid                     -> <<>>
                 [] ~ u.isInvalid /\ u.isRelative   -> IF u.path = <<>> THEN <<"/">>
                                                       ELSE FlattenSeq([k \in DOMAIN u.path |-> <<"/">> \o u.path[k]])
                 [] OTHER                           -> u.schemeData
authority(u) == IF u.username \o u.password = <<>> THEN <<>> ELSE u.username \o u.password \o <<"@">>
href(u) ==
    protocol(u) \o (IF u.isRelative THEN <<"/", "/">> \o authority(u) \o host(u) ELSE <<>>)
    \o pathname(u) \o u.query \o u.fragment

(***************************************************************************)
(* The page makes one URL and then sets parts of it.                       *)
(***************************************************************************)
UrlInit ==
    /\ \E text \in BaseTexts : base = IF text = <<>> THEN <<>> ELSE <<jURL(text, <<>>).u>>
    /\ url = clear /\ settings = 0 /\ set = "none" /\ oddity = FALSE

Odd(name, p) ==
    \/ p.threw
    \/ name = "protocol" /\ p.u.scheme # url.scheme
    \/ name \in {"host", "hostname", "port"} /\ (url.scheme = FileScheme \/ ToSet(p.u.host) \cap {"@", "[", "]"} # {})
    \/ name = "hash" /\ p.u.fragment # Trim(p.u.fragment)

Becomes(name, p) ==
    /\ url' = p.u /\ set' = name /\ oddity' = ((name \notin {"new", "href"} /\ oddity) \/ Odd(name, p))
    /\ UNCHANGED base

Construct(text) ==
    /\ set = "none"
    /\ LET p == jURL(text, base) IN Becomes(IF p.threw THEN "threw" ELSE "new", p)
    /\ settings' = IF text \in Starts THEN 0 ELSE MaxSettings

Set(name, u, text, state) ==
    /\ set \notin {"none", "threw"} /\ settings < MaxSettings /\ settings' = settings + 1
    /\ Becomes(name, Run(Start(u, text, state, TRUE, <<>>)))

MayBeSet    == ~ url.isInvalid /\ url.isRelative
After(mark, text) == IF text # <<>> /\ text[1] = mark THEN Tail(text) ELSE text

SetHref(text) ==
    /\ set \notin {"none", "threw"} /\ settings < MaxSettings /\ settings' = settings + 1
    /\ Becomes("href", Run(Start(clear, text, "scheme start", FALSE, <<>>)))
SetProtocol(text) == ~ url.isInvalid /\ Set("protocol", url, Append(text, ":"), "scheme start")
SetHost(text)     == MayBeSet /\ Set("host", url, text, "host")
SetHostname(text) == MayBeSet /\ Set("hostname", url, text, "hostname")
SetPort(text)     == MayBeSet /\ Set("port", url, text, "port")
SetPathname(text) == MayBeSet /\ Set("pathname", [url EXCEPT !.path = <<>>], text, "relative path start")
\* Mutant: a new query drops the fragment behind it.
SetSearchToTheEnd(text) ==
    MayBeSet /\ Set("search", [url EXCEPT !.query = <<"?">>, !.fragment = <<>>], After("?", text), "query")
SetSearch(text)   == MayBeSet /\ Set("search", [url EXCEPT !.query = <<"?">>], After("?", text), "query")
SetHash(text)     == ~ url.isInvalid /\ Set("hash", [url EXCEPT !.fragment = <<"#">>], After("#", text), "fragment")

UrlNext ==
    \/ set = "none" /\ \E text \in Addresses : Construct(text)
    \/ \E text \in Starts : SetHref(text)
    \/ \E text \in Given :
          \/ SetProtocol(text) \/ SetHost(text) \/ SetHostname(text) \/ SetPort(text)
          \/ SetPathname(text) \/ SetSearch(text) \/ SetHash(text)

UrlSpec == UrlInit /\ [][UrlNext]_urlVars

(***************************************************************************)
(* Properties.                                                             *)
(***************************************************************************)

\* The address of a URL, read again, makes the same URL: href says it all and no
\* part of it is taken for another.  This holds of every URL as it is made, and
\* after setters until one of them did what no address says (oddity): it threw, it
\* gave a URL another scheme, it set host, hostname or port of a file URL, or made
\* a host with "@", "[" or "]" of it, or the hash ends with blanks.
HrefAgrees ==
    (set # "none" /\ ~ url.isInvalid /\ ~ oddity) =>
        LET again == jURL(href(url), <<>>)
            same(u) == [field \in DOMAIN clear |-> IF field = "path" THEN pathname(u) ELSE u[field]]
        IN ~ again.threw /\ same(again.u) = same(url)

\* A setter touches the part it is named for (host: name and port) and lets
\* the rest of the URL be, unless it makes all of it invalid.
Mine(name) ==
    CASE name = "protocol" -> {"scheme"}      [] name = "host"     -> {"host", "port"}
      [] name = "hostname" -> {"host"}        [] name = "port"     -> {"port"}
      [] name = "pathname" -> {"path"}        [] name = "search"   -> {"query"}
      [] name = "hash"     -> {"fragment"}    [] OTHER             -> DOMAIN clear
SettersKeepTheRest ==
    url'.isInvalid \/ \A field \in DOMAIN clear \ Mine(set') : url'[field] = url[field]

\* Only the address of a file that has no base to complete it from makes the
\* constructor throw.
AddressesAreRead == set = "threw" => url.scheme = FileScheme

\* A URL is its parts: the address says them all, also of one that was completed
\* from a base and, but for oddity, after setters; a setter moves no part but its own.
UrlKept == []HrefAgrees /\ [][SettersKeepTheRest]_urlVars
===============================================================================
