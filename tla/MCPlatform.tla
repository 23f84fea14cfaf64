----------------------------- MODULE MCPlatform -----------------------------
(***************************************************************************)
(* The parts of webcomponents.js side by side for TLC: the mutation        *)
(* observers, the logical tree and the events of its shadow DOM, custom    *)
(* elements, HTML imports, the mutation observers of browsers without, and *)
(* URLs.  They share no state here, so a behaviour is one of a single part *)
(* and the others stay where they are at the start.                        *)
(***************************************************************************)
EXTENDS ShadowMutations, ShadowDom, ShadowEvents, CustomElements, HtmlImports, JsMutations, JUrl, TLC

VARIABLE part   \* the part whose behaviour this is

CONSTANTS cNode, dNode, fNode, gNode, hNode, iNode, lNode, rNode, r1, r2, sNode, xNode, yNode,
          doc, xTag, yTag, button, ca, cc, csRoot, ia, ib, ua, ub, uc, ud, la, lb, lc, ld, la2, lc2, a1, b1, c1, d1, e1

(***************************************************************************)
(* ShadowMutations: gNode in cNode in rNode; options that are good, that   *)
(* narrow the types, and that contradict themselves.                       *)
(***************************************************************************)
MCFirstParent == (rNode :> None @@ cNode :> rNode @@ gNode :> cNode)
MCOption(subtree, type) ==
    [subtree |-> subtree, attributes |-> IF type = "attributes" THEN "true" ELSE "omitted",
     attributeOldValue |-> "omitted", attributeFilter |-> "omitted", characterData |-> "omitted",
     characterDataOldValue |-> IF type = "contradictory" THEN "true" ELSE "omitted",
     childList |-> IF type = "childList" THEN "true" ELSE "false"]
MCRawOptions == {MCOption("true", "attributes"), MCOption("false", "childList"),
                 MCOption("false", "contradictory")}

(***************************************************************************)
(* ShadowDom: host hNode with child xNode and two shadow trees; the first  *)
(* holds dNode with the content cNode, the second the shadow element       *)
(* sNode; a fragment with yNode.                                           *)
(***************************************************************************)
MCFirstTree == [n \in DomNodes |->
    CASE n = hNode -> <<xNode>> [] n = fNode -> <<yNode>> [] n = dNode -> <<cNode>> [] OTHER -> <<>>]
MCFirstIn   == (r1 :> <<dNode>> @@ r2 :> <<sNode>>)
MCRoots     == <<r1, r2>>

(***************************************************************************)
(* ShadowEvents: hNode with light child lNode in the document doc; its     *)
(* shadow root rNode holds the content cNode, where lNode shows, and iNode.*)
(***************************************************************************)
MCEvParent == [n \in EvNodes |->
    CASE n \in {doc, rNode} -> NoNode [] n = hNode -> doc [] n = lNode -> hNode [] OTHER -> rNode]
MCRootHost == (rNode :> hNode)
MCScopeOf  == [n \in EvNodes |-> IF n \in {doc, hNode, lNode} THEN doc ELSE rNode]
MCPoints   == [n \in EvNodes |-> IF n = lNode THEN <<cNode>> ELSE <<>>]
MCOlder    == <<>>
MCVisual   == [n \in EvNodes |-> CASE n \in {iNode, lNode} -> hNode [] n = hNode -> doc [] OTHER -> NoNode]

(***************************************************************************)
(* CustomElements: an element of the document whose shadow tree holds      *)
(* another, of a type that extends button; the document imports two, and   *)
(* the second of them the first again.                                     *)
(***************************************************************************)
MCCeImportsOf == (CeDocument :> <<ia, ib>> @@ ia :> <<>> @@ ib :> <<ia>>)
MCCeParent    == (ca :> CeDocument @@ cc :> csRoot)
MCCeRootsOf   == (ca :> <<csRoot>> @@ cc :> <<>>)
MCLocalName   == (ca :> xTag @@ cc :> button)
MCIsName      == (ca :> NoCe @@ cc :> yTag)
MCExtendsName == (xTag :> NoCe @@ yTag :> button)

(***************************************************************************)
(* HtmlImports: three documents that import one another in a circle and a  *)
(* fourth that the page adds later.                                        *)
(***************************************************************************)
MCHref      == (la :> ua @@ lb :> ub @@ lc :> uc @@ la2 :> ua @@ lc2 :> uc @@ ld :> ud)
MCDocuments == (RootDoc :> <<la, lc>> @@ ua :> <<lb, a1>> @@ ub :> <<la2, lc2, b1>> @@ uc :> <<c1>> @@ ud :> <<d1>>)

(***************************************************************************)
(* JsMutations: leaf in mid in root.                                       *)
(***************************************************************************)
MCRootedAt == [root |-> "none", mid |-> "root", leaf |-> "mid"]
MCObserveOptions == {[types |-> {"attributes", "childList"}, subtree |-> FALSE, old |-> FALSE],
                     [types |-> {"attributes"}, subtree |-> TRUE, old |-> TRUE]}

(***************************************************************************)
(* JUrl: schemes h, s (relative), f (file) and m (not relative); every     *)
(* short text of the characters its states tell apart, behind the          *)
(* beginnings that lead to them; no base, one of scheme h, a file and one   *)
(* that completes nothing.                                                 *)
(***************************************************************************)
MCPorts      == (<<"h">> :> <<"8">>) @@ (<<"f">> :> <<"0">>) @@ (<<"s">> :> <<"9">>)
MCFileScheme == <<"f">>
UpTo(n, chars) == UNION {[1 .. k -> chars] : k \in 0 .. n}
Behind(beginnings, ends) == {b \o e : b \in beginnings, e \in ends}
UrlChars == {"h", "/", ":", "?", "#", "@", ".", "8", "%2e", "H", "|", "\\", "\t", "["}
MCStarts ==
    {<<"h", ":", "/", "/", "h", ":", "@", "h", ":", "9", "/", "h", "/", "#", "?">>,
     <<"s", ":", "/", "/", "m", "/", "?", "h", "#">>, <<"m", ":", "h", "#", "h">>,
     <<"f", ":", "/", "h", "|", "/", ".">>, <<"h", "|", "/", "h">>, <<"m", ":", "?">>}
MCAddresses ==
    MCStarts \cup Behind({<<"h", ":", "/", "/">>, <<"f", ":", "/", "/">>}, UpTo(3, UrlChars))
             \cup Behind({<<"h", ":", "/", "/", "h", "/">>}, UpTo(3, {".", "%2e", "/", "#", "?"}))
             \cup Behind({<<>>, <<"h", ":">>, <<"m", ":">>, <<"f", ":">>}, UpTo(2, UrlChars \cup {" "}))
             \cup Behind({<<"h", "|">>, <<"/", "h", "|">>, <<"/", "/", "h", "|">>}, UpTo(2, {"/", "\\", "?", "#", "h"}))
MCGiven ==
    UpTo(1, {"h", "/", ":", "8", "@", "#", "?", ".", " ", "f", "m", "s", "9", "["})
        \cup Behind({<<"#">>, <<"/">>, <<"9">>}, {<<"#">>, <<"/">>, <<"9">>})
        \cup Behind({<<"h">>}, {<<"#">>, <<"?">>, <<":">>, <<":", "9">>, <<"@">>, <<"/">>})
MCBaseTexts == {<<>>, <<"h", ":", "/", "/", "m", "/", "h", "/", "h", "?", "h">>,
                <<"f", ":", "/", "/", "m", "/", "h", "/", "h", "?", "h">>, <<"m", ":", "h">>}

(***************************************************************************)
(* One part at a time.                                                     *)
(***************************************************************************)
treeVars  == <<mutationVars, shadowVars, eventVars>>
pageVars  == <<ceVars, importVars, jsVars>>
allVars   == <<treeVars, pageVars, urlVars, part>>

Init ==
    /\ MutationInit /\ ShadowInit /\ EventInit /\ ImportsInit /\ JsInit /\ CustomElementsInit /\ UrlInit
    /\ part \in {"mutations", "tree", "events", "elements", "imports", "js", "url"}
    /\ part # "url" => base = <<>>
    /\ part # "elements" => ~deferring

Next ==
    \/ part = "mutations" /\ MutationNext /\ UNCHANGED <<shadowVars, eventVars, pageVars, urlVars, part>>
    \/ part = "tree" /\ ShadowNext /\ UNCHANGED <<mutationVars, eventVars, pageVars, urlVars, part>>
    \/ part = "events" /\ EventNext /\ UNCHANGED <<mutationVars, shadowVars, pageVars, urlVars, part>>
    \/ part = "elements" /\ CustomElementsNext /\ UNCHANGED <<treeVars, importVars, jsVars, urlVars, part>>
    \/ part = "imports" /\ ImportsNext /\ UNCHANGED <<treeVars, ceVars, jsVars, urlVars, part>>
    \/ part = "js" /\ JsNext /\ UNCHANGED <<treeVars, ceVars, importVars, urlVars, part>>
    \/ part = "url" /\ UrlNext /\ UNCHANGED <<treeVars, pageVars, part>>

Spec == Init /\ [][Next]_allVars

\* States differ in the part that runs; TLC needs to look at nothing else.
PartView ==
    CASE part = "mutations" -> <<part, mutationVars>>
      [] part = "tree"      -> <<part, shadowVars>>
      [] part = "events"    -> <<part, eventVars>>
      [] part = "elements"  -> <<part, ceVars>>
      [] part = "imports"   -> <<part, importVars>>
      [] part = "js"        -> <<part, jsVars>>
      [] part = "url"       -> <<part, urlVars>>

\* The same properties, evaluated only where their part runs.
TreesKept    == part = "tree" => TreesAgree
ElementsKept == part = "elements" => LifecycleSettled
ImportsKept  == part = "imports" => ImportsRun
=============================================================================
