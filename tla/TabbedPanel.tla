---------------------------- MODULE TabbedPanel -----------------------------
(***************************************************************************)
(* The tabbed panel of the web client (DefaultTabbedPanel): a strip of     *)
(* named tabs, of which one is active and has its content on the page.     *)
(* Callers create, fill, enable, activate and remove tabs through Tab      *)
(* handles; the user selects tabs with the mouse or the keyboard.          *)
(***************************************************************************)
EXTENDS Integers, Sequences, FiniteSets, SequencesExt

CONSTANTS
  MaxTabs,       \* bound: tabs ever created
  Names,         \* names of tabs, distinct within the strip
  Contents,      \* widgets that callers set as the content of tabs
  StaleHandles,  \* do callers go on using tabs that were removed?
  NullWidgets,   \* do callers set a null widget, which setWidget refuses?
  NoTab

\* The tabs are numbered in the order in which they are created.
Tabs == 1 .. MaxTabs

ASSUME TabsAssumption ==
  /\ MaxTabs \in Nat
  /\ StaleHandles \in BOOLEAN /\ NullWidgets \in BOOLEAN
  /\ NoTab \notin Names \union Contents \union Nat

VARIABLES
  tabs,       \* the tabs of the strip, in order
  activeTab,  \* the active tab, or NoTab
  name,       \* tab -> its name, NoTab before it is created
  content,    \* tab -> its content, or NoTab
  enabled,    \* tabs whose views are enabled
  styled,     \* tabs whose views have the style of the active one
  shown       \* what the content container of the page holds, or NoTab

tabVars == <<tabs, activeTab, name, content, enabled, styled, shown>>

TabInit ==
  /\ tabs = <<>>
  /\ activeTab = NoTab
  /\ name = [t \in Tabs |-> NoTab]
  /\ content = [t \in Tabs |-> NoTab]
  /\ enabled = {}
  /\ styled = {}
  /\ shown = NoTab

-----------------------------------------------------------------------------
(* Helpers *)

\* Tab t is activated while from is the active tab and s are those with its
\* style; nothing happens if it is active already.
ActivateTab(t, s, from) ==
  /\ activeTab' = t
  /\ styled' = IF t = from THEN s ELSE (s \ {from}) \union {t}
  /\ shown' = IF t = from THEN shown ELSE content'[t]

\* A new tab leaves an enabled active tab alone.
Yields(t) == activeTab # NoTab /\ activeTab \in enabled

\* Mutant: the tab just disabled is taken for an enabled one.
FirstEnabledStale(e) == SelectInSeq(tabs, LAMBDA t : t \in enabled)

\* The first of the tabs that is enabled, given all that are; 0 if none is.
FirstEnabled(e) == SelectInSeq(tabs, LAMBDA t : t \in e)

NameIsNew(n) == \A t \in ToSet(tabs) : name[t] # n

Created == {t \in Tabs : name[t] # NoTab}

\* The tabs whose handles a caller uses.
Handles == IF StaleHandles THEN Created ELSE ToSet(tabs)

Widgets == IF NullWidgets THEN Contents \union {NoTab} ELSE Contents

-----------------------------------------------------------------------------
(* Callers *)

\* The name must be new in the strip and the index within it.
CreateAndInsertTab(n, index) ==
  LET t == Cardinality(Created) + 1 IN
  /\ t \in Tabs
  /\ index \in 0 .. Len(tabs)
  /\ NameIsNew(n)
  /\ tabs' = InsertAt(tabs, index + 1, t)
  /\ name' = [name EXCEPT ![t] = n]
  /\ enabled' = enabled \union {t}
  /\ UNCHANGED content
  /\ \/ Yields(t) /\ UNCHANGED <<activeTab, styled, shown>>
     \/ ~Yields(t) /\ ActivateTab(t, styled, activeTab)

\* The tab keeps what it is given; setTabContent puts it on the page if the tab
\* is active, and null makes setWidget throw in between.
SetWidget(t, w) ==
  /\ content' = [content EXCEPT ![t] = w]
  /\ shown' = IF t = activeTab /\ w # NoTab THEN w ELSE shown
  /\ UNCHANGED <<tabs, activeTab, name, enabled, styled>>

Activate(t) ==
  /\ UNCHANGED <<tabs, name, content, enabled>>
  /\ ActivateTab(t, styled, activeTab)

Enable(t) ==
  /\ enabled' = enabled \union {t}
  /\ UNCHANGED <<tabs, activeTab, name, content, styled, shown>>

\* The first enabled tab takes the place of an active one that is disabled.
Disable(t) ==
  LET i == FirstEnabled(enabled \ {t}) IN
  /\ enabled' = enabled \ {t}
  /\ UNCHANGED <<tabs, name, content>>
  /\ \/ /\ t = activeTab /\ i # 0
        /\ ActivateTab(tabs[i], styled, activeTab)
     \/ /\ t # activeTab \/ i = 0
        /\ UNCHANGED <<activeTab, styled, shown>>

NoTabActive == NoTab

\* The first of the tabs that are left, enabled or not, takes the place of an
\* active one; the last one leaves its content on the page.
RemoveTab(t) ==
  /\ tabs' = RemoveFirst(tabs, t)
  /\ UNCHANGED <<name, content, enabled>>
  /\ \/ /\ t = activeTab /\ tabs' # <<>>
        /\ ActivateTab(Head(tabs'), styled, NoTabActive)
     \/ /\ t = activeTab /\ tabs' = <<>>
        /\ activeTab' = NoTabActive
        /\ UNCHANGED <<styled, shown>>
     \/ /\ t # activeTab
        /\ UNCHANGED <<activeTab, styled, shown>>

Clear ==
  /\ tabs' = <<>>
  /\ activeTab' = NoTabActive
  /\ shown' = NoTab
  /\ UNCHANGED <<name, content, enabled, styled>>

-----------------------------------------------------------------------------
(* The user *)

\* A click, or the space or enter key, on a tab in the strip that is enabled.
Select(t) ==
  /\ Contains(tabs, t) /\ t \in enabled
  /\ Activate(t)

TabNext ==
  \/ \E n \in Names, index \in 0 .. MaxTabs : CreateAndInsertTab(n, index)
  \/ \E t \in Handles :
       \/ \E w \in Widgets : SetWidget(t, w)
       \/ Activate(t) \/ Enable(t) \/ Disable(t) \/ RemoveTab(t)
  \/ \E t \in Tabs : Select(t)
  \/ Clear

TabSpec == TabInit /\ [][TabNext]_tabVars

-----------------------------------------------------------------------------
(* Properties *)

\* Every variable holds a value of its type, no tab is in the strip twice, and
\* getTabNamed finds at most one tab of a name.
TabTypeOK ==
  /\ tabs \in Seq(Created)
  /\ activeTab \in Created \union {NoTab}
  /\ name \in [Tabs -> Names \union {NoTab}]
  /\ content \in [Tabs -> Contents \union {NoTab}]
  /\ enabled \subseteq Tabs /\ styled \subseteq Tabs
  /\ shown \in Contents \union {NoTab}
  /\ \A i, j \in DOMAIN tabs : name[tabs[i]] = name[tabs[j]] => i = j

\* Some tab of the strip is active as long as there is one, whatever is
\* disabled, removed or cleared; a tab that was removed is not.
SomeTabActive ==
  IF tabs = <<>> THEN activeTab = NoTab ELSE Contains(tabs, activeTab)

\* The user sees one tab as active, the active one, and its content.
ShowsActiveTab ==
  /\ styled \intersect ToSet(tabs) = {activeTab} \ {NoTab}
  /\ activeTab # NoTab => shown = content[activeTab]

\* "If we just disabled the current tab, then we need to find a tab that is
\* enabled and activate it": a disabled tab is active only if a caller activated
\* it, or removed the active tab before it, or disabled it when no other was
\* enabled; and it gives way to the next tab that is created.
DisabledGivesWay ==
  [][/\ activeTab' \notin enabled' \union {NoTab} =>
          \/ activeTab' = activeTab /\ activeTab \notin enabled
          \/ enabled' \intersect ToSet(tabs') = {}
          \/ \E t \in Handles : Activate(t)
          \/ RemoveTab(activeTab)
     /\ (\E n \in Names, i \in 0 .. MaxTabs : CreateAndInsertTab(n, i)) =>
          activeTab' \in enabled']_tabVars

\* The panel shows one active tab with its content after any sequence of calls;
\* that tab is disabled only if no other is enabled, or if activate or remove
\* took it, which do not ask.
OneTabShown == []SomeTabActive /\ []ShowsActiveTab /\ DisabledGivesWay
=============================================================================
