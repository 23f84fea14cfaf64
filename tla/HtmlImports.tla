------------------------------ MODULE HtmlImports ------------------------------
(***************************************************************************)
(* The HTML imports polyfill: the loader that fetches what links import,   *)
(* each url once; the importer that makes documents of the answers; and    *)
(* the parser that goes through all of them in the order a browser would,  *)
(* one script or style at a time.  Everything between two answers of the   *)
(* network happens in one go, with calls nested in each other, so that a   *)
(* step works on the whole state of the polyfill as one record.            *)
(***************************************************************************)
EXTENDS Integers, Sequences, FiniteSets, SequencesExt

CONSTANTS Urls,        \* what can be imported; a document is named by its url
          RootDoc,     \* the main document
          Links,       \* <link rel=import> elements
          Scripts,     \* scripts and styles of imported documents
          Href,        \* link -> its url
          DocumentContents,    \* document -> its elements at the start, in order
          Added,       \* elements the page may add to imported documents
          NoDoc, NoElement

Documents == Urls \cup {RootDoc}
ImportElements == Links \cup Scripts

\* A document that imports itself is left out: its own link would never be loaded.
ASSUME HtmlImportsAssumption ==
    /\ RootDoc \notin Urls /\ NoDoc \notin Documents /\ NoElement \notin ImportElements
    /\ Links \cap Scripts = {} /\ Href \in [Links -> Urls] /\ Added \subseteq ImportElements
    /\ DocumentContents \in [Documents -> Seq(ImportElements \ Added)]
    /\ \A d \in Documents : \A e \in ToSet(DocumentContents[d]) : e \in Links => Href[e] # d
    /\ ToSet(DocumentContents[RootDoc]) \subseteq Links

VARIABLES
    st,       \* the polyfill, see ImportsInit
    content,  \* document -> its elements
    booted,   \* bootstrap was called
    fetching, \* urls with a request on the network
    watching  \* watchImportsLoad was called

importVars == <<st, content, booted, fetching, watching>>

ImportsInit ==
    /\ st = [parsed   |-> {},        \* elements and documents with __importParsed
             import   |-> <<>>,      \* link -> its document, NoDoc after an error
             docs     |-> <<>>,      \* importer.documents
             cache    |-> {},        \* urls with an answer in the loader's cache
             pending  |-> [u \in Urls |-> <<>>],  \* links waiting for a url
             asked    |-> {},        \* urls that a request was sent for
             inflight |-> 0,
             parsing  |-> NoElement, \* parsingElement
             dynamic  |-> <<>>,      \* dynamicElements
             ran      |-> <<>>,      \* history: scripts in the order they ran
             errors   |-> {},        \* urls whose last answer was an error
             fired    |-> {},        \* links that got their load or error event
             awaited  |-> {},        \* links whose events watchImportsLoad listens for
             ready    |-> 0]         \* how often whenReady called back
    /\ content = DocumentContents
    /\ booted = FALSE /\ watching = FALSE
    /\ fetching = {}

(***************************************************************************)
(* The parser.                                                             *)
(***************************************************************************)
hasResource(s, e) == e \in Links => e \in DOMAIN s.import

ImportedBy(s, e) == IF e \in DOMAIN s.import THEN s.import[e] ELSE NoDoc

\* The first element of a document, or of those it imports, that is not parsed;
\* then the link itself.  A document that is being looked into is not looked
\* into again.
RECURSIVE nextToParseInDoc(_, _, _, _)

\* Mutant: what is not loaded yet is passed over.
nextToParseLoaded(s, doc, link, mayParse) ==
    LET open == SelectSeq(content[doc], LAMBDA e : e \notin s.parsed /\ hasResource(s, e))
    IN  IF doc = NoDoc \/ doc \in mayParse THEN link
        ELSE IF open = <<>> THEN link
        ELSE IF Head(open) \in Links
        THEN nextToParseInDoc(s, ImportedBy(s, Head(open)), Head(open), mayParse \cup {doc})
        ELSE Head(open)

nextToParseInDoc(s, doc, link, mayParse) ==
    LET open == SelectSeq(content[doc], LAMBDA e : e \notin s.parsed
                                              /\ (doc = RootDoc => e \in Links))
        first == Head(open)
    IN  IF doc = NoDoc \/ doc \in mayParse THEN link
        ELSE IF open = <<>> THEN link
        ELSE IF ~hasResource(s, first) THEN NoElement
        ELSE IF first \in Links
        THEN nextToParseInDoc(s, ImportedBy(s, first), first, mayParse \cup {doc})
        ELSE first

nextToParse(s) ==
    LET static == nextToParseInDoc(s, RootDoc, NoElement, {}) IN
    IF s.parsing # NoElement THEN NoElement
    ELSE IF static # NoElement THEN static
    ELSE IF s.dynamic = <<>> THEN NoElement ELSE Head(s.dynamic)

markParsingComplete(s, e) ==
    [s EXCEPT !.parsed = @ \cup {e}, !.dynamic = SelectSeq(@, LAMBDA x : x # e),
              !.parsing = NoElement]

\* loadedImport and errorLoadingImport: the last event that is waited for makes
\* the main document ready.
loadedImport(s, e) ==
    [s EXCEPT !.fired = @ \cup {e}, !.awaited = @ \ {e},
              !.ready = IF s.awaited = {e} THEN @ + 1 ELSE @]

\* A link is done with at once: its document is marked, then its event is fired.
parseImport(s, e) ==
    LET done == IF ImportedBy(s, e) = NoDoc THEN {} ELSE {ImportedBy(s, e)}
    IN  loadedImport(markParsingComplete([s EXCEPT !.parsed = @ \cup done], e), e)

\* parseNext goes on from link to link; a script or style has it stop until the
\* browser tells that it was loaded.
RECURSIVE parseNext(_)
parseNext(s) ==
    LET e == nextToParse(s) IN
    IF e = NoElement \/ e \in s.parsed THEN s
    ELSE IF e \in Links THEN parseNext(parseImport(s, e))
    ELSE [s EXCEPT !.parsing = e]

(***************************************************************************)
(* The loader and the importer.                                            *)
(***************************************************************************)
checkDone(s) == IF s.inflight = 0 THEN parseNext(s) ELSE s
tail(s) == checkDone([s EXCEPT !.inflight = @ - 1])

linksOf(doc) == SelectSeq(content[doc], LAMBDA e : e \in Links)

importRecord(s, url, e) == [s EXCEPT !.import = (e :> s.docs[url]) @@ @]

RECURSIVE loaded(_, _, _), require(_, _), addNodes(_, _)

\* A document is made for the first link, and what it links to is asked for
\* before the document is known under its url.
loaded(s, url, e) ==
    LET made == IF url \in s.errors THEN NoDoc ELSE url
        booting == IF made = NoDoc THEN s ELSE parseNext(addNodes(s, linksOf(url)))
        known == IF url \in DOMAIN s.docs THEN s
                 ELSE [booting EXCEPT !.docs = (url :> made) @@ @]
    IN  parseNext(importRecord(known, url, e))

\* dedupe and fetch: wait with the others, take the answer from the cache, or ask.
require(s, e) ==
    LET url == Href[e] IN
    IF s.pending[url] # <<>> THEN [s EXCEPT !.pending[url] = Append(@, e)]
    ELSE IF url \in s.cache THEN tail(loaded(s, url, e))
    ELSE [s EXCEPT !.pending[url] = <<e>>, !.asked = @ \cup {url}]

addNodes(s, nodes) ==
    checkDone(FoldLeft(LAMBDA t, e : require(t, e),
                       [s EXCEPT !.inflight = @ + Len(nodes)], nodes))

receive(s, url, ok, kept) ==
    LET answered == [s EXCEPT !.cache = IF kept THEN @ \cup {url} ELSE @,
                              !.errors = IF ok THEN @ \ {url} ELSE @ \cup {url},
                              !.asked = @ \ {url}]
    IN  [FoldLeft(LAMBDA t, e : tail(loaded(t, url, e)), answered, s.pending[url])
            EXCEPT !.pending[url] = <<>>]

Became(s) == /\ st' = [s EXCEPT !.asked = {}]
             /\ fetching' = (fetching \cup s.asked)

(***************************************************************************)
(* Steps.                                                                  *)
(***************************************************************************)
bootstrap_ ==
    /\ ~booted /\ booted' = TRUE
    /\ Became(parseNext(addNodes(st, linksOf(RootDoc))))
    /\ UNCHANGED <<content, watching>>

\* whenReady, once the main document is: the imports that are not parsed are
\* waited for.
watchImportsLoad ==
    LET imports == {e \in ToSet(content[RootDoc]) : e \notin st.parsed} IN
    /\ ~watching /\ watching' = TRUE
    /\ st' = [st EXCEPT !.awaited = imports, !.ready = IF imports = {} THEN 1 ELSE 0]
    /\ UNCHANGED <<content, booted, fetching>>

\* The answer of the network; an error without a body is not kept in the cache,
\* and the url may be asked for again.
Answered(url, ok, kept) ==
    LET s == receive(st, url, ok, kept) IN
    /\ url \in fetching
    /\ ok => kept
    /\ st' = [s EXCEPT !.asked = {}]
    /\ fetching' = (fetching \ {url}) \cup s.asked
    /\ UNCHANGED <<content, booted, watching>>

\* trackElement: the load or the error event of a script or style.
ElementLoaded ==
    LET e == st.parsing IN
    /\ e # NoElement
    /\ Became(parseNext(markParsingComplete([st EXCEPT !.ran = Append(@, e)], e)))
    /\ UNCHANGED <<content, booted, watching>>

\* The page adds an element to an imported document: it is loaded if it is a link,
\* and waits its turn if its document has been parsed.
DynamicAdded(e, d) ==
    LET more == [content EXCEPT ![d] = Append(@, e)]
        s == IF e \in Links THEN checkDone(require([st EXCEPT !.inflight = @ + 1], e)) ELSE st
        waits == IF d \in st.parsed THEN [s EXCEPT !.dynamic = Append(@, e)] ELSE s
    IN  /\ booted /\ d \in DOMAIN st.docs /\ st.docs[d] # NoDoc
        /\ \A x \in Documents : e \notin ToSet(content[x])
        /\ e \in Links => Href[e] # d /\ Href[e] \notin DOMAIN st.docs
        /\ content' = more
        /\ Became(IF e \in Scripts /\ d \in st.parsed THEN parseNext(waits) ELSE waits)
        /\ UNCHANGED <<booted, watching>>

ImportsNext ==
    \/ bootstrap_ \/ watchImportsLoad
    \/ \E url \in Urls, ok \in BOOLEAN, kept \in BOOLEAN : Answered(url, ok, kept)
    \/ ElementLoaded
    \/ \E e \in Added, d \in Urls : DynamicAdded(e, d)

ImportsSpec == ImportsInit /\ [][ImportsNext]_importVars

----------------------------------------------------------------------------
(***************************************************************************)
(* Properties                                                              *)
(***************************************************************************)
\* The order in which a browser with imports of its own runs the scripts: those
\* of what a document imports where its link stands, each document once.
RECURSIVE InOrder(_, _)
InOrder(doc, seen) ==
    FoldLeft(LAMBDA acc, e :
                 IF e \in Scripts THEN [acc EXCEPT !.scripts = Append(@, e)]
                 ELSE IF Href[e] \in acc.seen THEN acc
                 ELSE LET r == InOrder(Href[e], acc.seen)
                      IN  [scripts |-> acc.scripts \o r.scripts, seen |-> r.seen],
             [scripts |-> <<>>, seen |-> seen \cup {doc}],
             IF doc \in DOMAIN st.docs /\ st.docs[doc] = NoDoc THEN <<>> ELSE DocumentContents[doc])

\* What ran of them; the rest was added by the page.
RanInOrder(order) == SelectSeq(st.ran, LAMBDA e : e \in ToSet(order))

\* In whatever order the answers come, and whatever fails, the scripts run in the
\* order of the documents (nextToParse, parseImport, loaded).
ScriptsInOrder ==
    LET order == InOrder(RootDoc, {}).scripts IN IsPrefix(RanInOrder(order), order)

\* When the network has answered and nothing is being loaded, no element is left
\* over, every import of the main document got its event, and HTMLImportsLoaded
\* was fired, once (loaded, receive, nextToParseInDoc, watchImportsLoad).
NothingStalls ==
    (booted /\ fetching = {} /\ st.parsing = NoElement) =>
        /\ ToSet(DocumentContents[RootDoc]) \subseteq st.fired
        /\ watching => st.ready = 1
        /\ st.dynamic = <<>> /\ st.inflight = 0
        /\ RanInOrder(InOrder(RootDoc, {}).scripts) = InOrder(RootDoc, {}).scripts

\* Imports load in any order, fail or come twice: what they hold runs in document
\* order and all of it runs.
ImportsRun == ScriptsInOrder /\ NothingStalls
=============================================================================
