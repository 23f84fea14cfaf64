# Verification of game-center

TLA+ modules of the parts of game-center in which order, failure and time
matter, TLC configurations that check them on small instances, and TLAPS proofs
for every instance. game-center is a Java server (`src/src/com/morgan/server`,
Jetty, Guice, JPA), GWT clients (`src/src/com/morgan/client`), and a tree of
JavaScript components that the server hands to browsers
(`src/src/com/morgan/server/polymer/resources`: Polymer, webcomponents.js,
observe-js, TemplateBinding and what they need).

Java paths below are relative to `src/src/com/morgan/`, JavaScript paths to
`src/src/com/morgan/server/polymer/resources/`. `PROJECT.json` lists the
components, the runs, for every definition the lines it stands for (`map`), the
hazards of the code with the properties that cover them, the findings, and the
theorems. A definition whose comment begins with "Mutant:" is a plausible bug: put in
place of the definition after it, it makes a named property fail.

    tlc -config AlarmFailures.cfg MCAlarmManager.tla    # a run
    tlapm AlarmManager_proofs.tla                       # the proofs of a module

## The system

| component | state | operations | hard because of | correct when |
|---|---|---|---|---|
| **Alarms** `server/alarm`, `server/backend/prod/alarmdb` | priority queue of occurrences, map of descriptions, one tracked timer, rows in the database | create, look up, cancel an alarm; `run()` of a timer; `doStart` | client threads, four timer threads, two monitors, executor, a database that throws, crashes | each live alarm fires, not early, not after a cancel, also over a restart |
| **Alerts** `client/alert` | view per displayed alert, handles per view, fade timers, widgets on the page | request, cancel, delegate; click, mouse over and out; deferred commands, timers | order of events, deferred commands and timers in one thread | one view per alert, by priority, while somebody holds a handle; fading ones go |
| **Statistics** `server/util/stat` | list of statistics | open, fail, close a handle; cleanup alarm | any threads; list ordered by end, pruned by start | young statistics stay, old ones go |
| **Tabbed panel** `client/mwt/tabbed` | tabs in order, the active one, enabled ones, content shown | create, insert, fill, enable, activate, remove, clear; select | long sequences of legal calls | one tab is active, strip and page show it |
| **Sessions** `server/security`, `server/auth`, `client/auth` | cookie in the browser, requests under way | authenticate, log out, filter, expiry, authorisation | requests of several tabs in any order, clocks, changing addresses and versions | a page that passed the filter stays usable; a user who answers the pages gets in |
| **observe-js** `observe-js/src/observe.js`, `polymer/src/lib/flush.js` | observers, their values, records, the list of the checkpoint; arrays, objects, paths | open, close, write, deliver, checkpoint, poll; diff with and without records; the planner of constraints | callbacks that write, close, open and throw inside a cycle | an open observer learns what is; records and copies tell the same |
| **Shadow DOM** `webcomponentsjs/src/ShadowDOM` | logical and composed tree, distribution, event paths, mutation records | insert and remove nodes, render, dispatch, observe | pointers of two trees, callbacks in the middle of loops | each tree is what it would be in a browser that has shadow trees |
| **Web components** `webcomponentsjs/src/{CustomElements,HTMLImports,MutationObserver}` | registry, upgraded elements, imports loaded and parsed, records | register, upgrade, insert, remove; load, parse; observe | callbacks that change what is walked, loads that end in any order | every element gets its callbacks once and in order; scripts run in order; records arrive |
| **URL** `URL/url.js` | the parts of a URL | parse, the getters and setters | states, relative references, characters that end a part | the text of the parts is read back as the same parts |
| **Test harness** `URL/testharness.js` | tests, phase, callbacks, timers | make, step, finish, time out tests; complete | the page's code runs inside the harness's and throws | every test is told once, completion comes last |
| **Polymer** `polymer/src`, `NodeBind`, `TemplateBinding`, `polymer-expressions`, `polymer-gestures` | definitions that wait, properties and attributes, bindings, instances, expressions, pointers | register; write, bind, observe; stamp, remove; evaluate; dispatch events | asynchronous observers, two-way bindings, nested templates, listeners that change | model and page agree once deliveries are done |
| Accounts `server/account`, `client/account` | users in the database, mails to be sent | create an account, log in | the mail fails after the account is stored | each account has its mail, emails are unique |
| Navigation and pages `client/nav`, `client/page` | current place, history, page shown | `navigateTo`, back, forward, token changes, present a page | deferred start, presenters that throw or are used again | the page shown is that of the current place |
| Lifecycle `server/game`, `server/db` | modules, portals, services, database schema | load, start, stop | order of starting, failures | everything starts once, in order |
| Settings `server/util/{flag,cmdline,macro}`, `server/feature` | flags, features | parse, look up, expand | nesting, precedence, cycles | what is looked up is what was set |
| Static resources `server/staticres` | none | resolve a path, choose headers | paths | only registered files are found |
| Magic cards `server/mtg`, `server/backend/prod/mtgdb`, `tools` | cards and sets | parse symbols and texts, import | unusual inputs, partial imports | what is parsed is what is printed |
| Logging, mail, templates, clocks, constants, component servlet | none of their own | adapters of libraries | | |

How they interact: the statistics manager is a client of the alarm manager (a
transient alarm repeating every minute); `GameModule` gives the alarm manager its
pool of timer threads and its background executor. Log in and account creation are
RPCs whose callbacks are wrapped by alert handles (`delegateTo`), and end in the
navigator, which presents pages, of which the home page holds a tabbed panel.
`LogInFilter` and `AuthorizationEnforcer` stand before pages and RPCs and read the
cookie that `DefaultAuthenticationService` sets. In the browser, Polymer elements are
custom elements with a shadow tree whose template TemplateBinding stamps; their
bindings are observers of observe-js, delivered by the checkpoints that `flush.js`
causes; definitions arrive by HTML imports; all of them observe the document with
`MutationObserver`s.

## Modules

| module | what it is |
|---|---|
| `AlarmManager` | `DefaultAlarmManager` with its threads, database rows, executor, crashes |
| `AlarmService`, `AlarmRefinement` | what `AlarmManager`, `AlarmBuilder`, `AlarmHandle` promise, and the mapping |
| `AlertController` | `DefaultAlertController` with the browser's events and timers |
| `AlertBoard`, `AlertRefinement` | what `Alert` and `AlertHandle` promise, and the mapping |
| `Statistics`, `TabbedPanel` | `DefaultStatisticsManager`, `DefaultTabbedPanel` |
| `Session` | `CookieHelper`, `LogInFilter`, `DefaultAuthenticationService` and the pages of `client/auth` |
| `ArraySplice`, `ArraySplices` | the edit distance and the splices of `ArrayObserver`, with records and without |
| `ObservePath`, `ObjectChanges`, `ObserveCheckpoint`, `Planner` | the texts of paths, differences of objects, observers with their checkpoints, the planner of constraints |
| `ShadowDom`, `ShadowEvents`, `ShadowMutations` | trees and renderer, event dispatch, mutation observers of the polyfill |
| `CustomElements`, `HtmlImports`, `JsMutations`, `JUrl` | upgrading, imports, the `MutationObserver` of old browsers, `url.js` |
| `TestHarness` | `testharness.js` |
| `PolymerQueue`, `PolymerElement`, `NodeBinding`, `TemplateIterator`, `Expressions`, `Mustaches`, `Gestures`, `PointerSources` | Polymer and its libraries |
| `Filtering`, `SequenceLemmas` | sequences filtered by a set, and facts about numbers and sequences |
| `AlarmManager_proofs`, `AlertController_proofs`, `StandAlone_proofs`, `Session_proofs`, `Observe_proofs`, `ShadowMutations_proofs`, `TestHarness_proofs` | theorems |
| `MC...` | values and symmetry for TLC, and which parts a run puts side by side (`Session` is run as it is) |

### AlarmManager

`occurrences` is the priority queue (the deadline of each entry; which of several
equal deadlines `peek` returns is open, `IsHead`), `alarmDescriptions` the keys of
the map, `nextOccurrenceFuture` the tracked timer. An alarm may be queued by the
client that made it and again by `doStart`, so an entry is an alarm and one of these
two. `task` follows each `ScheduledFuture` from pending (which `cancel(false)` still
stops) through started, running and rescheduling; `PoolSize` threads take them.
`rows` is the table of `AlarmDbHelper`, the only thing a crash leaves.

One action is what runs under the locks at once. `run()` is several, because it
calls the database while it holds both locks: `BeginRun` (both taken, the
future forgotten, the clock read: `lag` counts the ticks since), `DropOccurrence`,
`FireTransient` or `FirePersistent` per overdue entry, `StoreFired` or `AbortRun` for
what the database does, `EndRun`, and `Reschedule` once the locks have been released
(`run` does so before it calls `scheduleNextAlarmCycle`). `createPersistentAlarm` is
`CreateAlarm` (the row, without a lock) and `ScheduleNewAlarm`; `cancel()` is
`CancelAlarm` and `RemoveCancelledRow`; `doStart` is `DoStart`, one `LoadAlarm` per
row, and `FinishStart`. Nobody else holds a lock across two actions, so `Unlocked`
is a guard, and `runner` names the holder.

Time is relative: a deadline is the ticks until it, and `Tick` ages all of them, so
that behaviours that only differ by a shift in time are one. `Horizon` is where a
past deadline stops ageing. It is larger than `MaxLag`, and nothing else compares past
deadlines with anything but zero and each other.

`EarlyClients` says whether clients create persistent alarms before `doStart` is done.
No client in the repository does, and with it the properties that have
`~EarlyClients` as a premise are false (`DefaultAlarmManager.java:147`: the row is
read back and queued twice; it fires twice, and the second `fireAlarm` finds no row).
`NeverEarly` holds, and is proved, in either case.

`AlarmService` has no queue, timers, locks or threads: an alarm is new, armed, handed
to the executor and not yet settled, or off. The mapping takes a persistent alarm
to be armed as long as its row is stored, whatever the memory holds: that is what makes a
crash, a failed `cancel()` and a failed `updateAlarm` steps the client can be told
of (`Crash`, `Slip`).

### AlertController

The client is one thread: each action is one event to its end. What interleaves are
callers (`RequestDisplay`, `CancelHandle`, which also stands for the callback made by
`delegateTo`), mouse events, the commands deferred to the next turn (`RunDeferred`: GWT runs all
of them in one flush) and timers (`FireTimer`: all run for the same 5000 ms, so they
go off in the order in which they were set). Every request of a fading alert adds a mouse handler to
its view, and every handler starts the fading anew (`MouseHandlers`). `cancelAlert`
of a view removes the entry of its *alert*, also when another view shows that alert by now.

`AlertBoard` is the board of alerts that callers and the user see: the alerts in
order (`ShownAlerts`), who holds each (`KeptBy`), the handles given out and the alert
under the mouse. The controller implements it only when calm (`Calm`): each turn is
over before the next mouse event and a fading alert is requested only while it is not
displayed. Without that assumption it does not: two requests of a fading alert in one
turn leave a timer nobody tracks, and `OneViewPerAlert` (`Alert.java`: a request of
a displayed alert "merely creates another handle") fails; it is in the module and in
no run, the hazards name it.

### Statistics and TabbedPanel

A measured call goes through `OpenStatistic`, `Close` (`StatisticsMeasurer`, on
return or throw) and `AddStatistic` (under the lock); a cleanup reads the clock before it
takes the lock (`ReadThrowOutTime`, `Cleanup`). Several cleanups may overlap, as the
alarm manager hands callbacks to a cached pool. `addedAt` is a history variable. The
clock never steps back. `HistoryBounded`, which `StatFlags.java` promises, is false (a
long call stays behind a short one) and in no run.

The panel is the list of tabs, the active tab, the `active` style, the enabled views,
the content of each tab and what the content container holds. `activateTab` is one operator used by all
operations that end in it. `DisabledGivesWay` does not say that the active tab is enabled: `activate()` and
`removeTab` (DefaultTabbedPanel.java:289, 104) ask nobody whether the tab they take is. `StaleHandles` and `NullWidgets` say whether callers use
the handles of removed tabs and set null widgets; with either the properties fail (hazards
`DefaultTabbedPanel.java:290` and `:282`).

### Session

The server keeps nothing of a session: all there is of it is the cookie in the
`jar` of the browser, with the time until which the browser keeps it (`setMaxAge`). Each tab
has a page; requests and answers of all tabs are in `calls`. A request carries
the cookie and the address of the moment it was sent, is answered at a later one
(`ServeGame` is `doFilter` before the page of the game, `ServeAuth` the
authentication page and what `AuthPagePresenter` makes of it, `ServeAuthenticate`
and `ServeLogout` the RPCs), and its answer is received later still. Only then does
the jar change, and the callback of the page runs, unless another page has taken its
place meanwhile (the call then goes on with `NoTab`: its cookie still comes). After a log in
the page goes to the game, after a log out it reloads; a load gives up one that
was on its way. A redirected or blank tab asks anew. `findCookie` finding
nothing and finding `INVALID_COOKIE` differ in nothing the server does, so the model has one
value for both. `invalidateCurrentCookie` sets the maximal age of a cookie of the
*request*, which reaches no browser: it is no part of an answer. The host page
is asked for at `/apps/game`, the path that the filter is bound to and that
`ClientUrlCreator` makes. `doFilter` reads the clock twice; a tick in between only
makes it redirect more. Pages of the game record the cookie and the time they
were served with (history).

### observe-js

`ArraySplices` changes an array as pages do, keeps the records `Object.observe`
would make of it, and compares the splices of both ways (`ArraySplice` is the edit
distance, backtracking and merging). `ObjectChanges` does the same for objects:
`afterRecords` is the loop over the records, `diffObjectFromOldObject` the comparison.
`ObservePath` writes and reads the texts of paths, a character at a time through the
states of the parser.

`ObserveCheckpoint` is one thread with a stack: an observer's check calls the page's
listener, a frame in which the page may write, open, close and discard observers,
flush, throw. A frame of the checkpoint holds where its loop is (`toCheck`, the
cycle); `flush.js` starts checkpoints from a poll and at the end of a microtask,
unless the page is hidden. `passedOver` is a history of the observers for which the
code is known to go wrong: an eager compound observer that is dropped, one closed in its own
`deliver()`, those behind a function that threw.

`Planner` is `observe-js/util/planner.js`: `AddConstraint` makes a constraint with its methods,
`GetPlan` runs the loop of `getPlan` with the heap as an array (`bubbleUp` and `sinkDown` swap
by swap), `RemoveConstraint` drops the variables that are left without a method. A constraint has at
least one method: `getPlan` would pass over one that has none and still answer with a plan.

### Web components

`ShadowDom` keeps two sets of pointers, those of the wrappers (`parentNode_` and its
siblings) and the native ones, and the distribution. The properties compare the first
with an ideal tree that the same calls make, and the native tree after a rendering with the composition
of a shadow tree as the comments define it. `ShadowEvents` computes the path, the
targets and the phases as the code does and compares with what each listener should
hear, and that the browser calls the polyfill for it at all: `mislaid` holds the
handlers that `removeEventListener` unregisters once no listener of the same phase is left
(events.js:761-775), although one of the other phase stays. `ShadowMutations` and `JsMutations` record for each observer what it was `owed`.
Mutations are numbered; a record is its number.

`CustomElements` walks trees element by element, with the callbacks of the page in
between, which may throw, and the documents that are imported one by one
(`processing` is `processingDocuments` of traverse.js: an inner walk ends the outer one with a
`TypeError`; `abandoned` is what an exception kept a walk from); `HtmlImports` loads documents in any order and parses them as `parser.js`
does; `JUrl` is the parser of `url.js` state by state over the characters that its
states tell apart, with the setters; the scheme of a base is taken over before any other
part (url.js:183), so that a drive letter is one against a base of `file:` too.

### Polymer

`PolymerQueue` has the queue of definitions that wait for their turn, their imports and
their base; `PolymerElement` one element with a reflected, an observed and a computed
property, bindings and asynchronous observers; `NodeBinding` inputs, radio buttons, selects
bound to a model, with the click on a radio button whose group has one that was never bound,
after which the handler throws before its checkpoint (`UserInputThrows`); `TemplateIterator` the instances of a template with the splices of its list,
also of nested ones; `Expressions` evaluation and what the user enters, which is written where the
expression reads it (`EntriesKept`) or throws where there is no object (`SetValueThrows`);
`Mustaches` the texts in pages;
`Gestures` with `PointerSources` the dispatcher and its recognizers fed by mouse and touch.

### Cases the code gets wrong

Where reading the code already shows that it goes wrong, the model has what the code
does, and a history variable remembers who was in such a case; the property speaks of
all others: `misheard`, `dropped` (mutation observers), `passedOver` (observe-js),
`nested`, `thrown` (harness), `muddled`, `strayed`, `crowded`, `unmatched`, `raced`,
`late`, `unheard`, `lost`, `oddity`, `mislaid`, `abandoned`, `dropped_` (the other JavaScript modules; each is explained
where it is declared). Among them:

* `TestHarness`: a test finished inside a result callback resets
  `processing_callbacks` (testharness.js:1445-1476) and completes before the callbacks around it
  were told; one that throws leaves it set. Not modelled is a step that throws `null`: its
  handler throws too (1147), before `done()`.
* `Planner`: `Heap.delete` uses `node`, which is declared nowhere; a variable that a
  removed constraint left is not considered when it is used again.
* `TemplateIterator`: two removed instances of the same model are taken for one
  (TemplateBinding.js:1175); `clear` of a removed template closes its iterator twice and throws
  (588-592), with nothing left to do. `Mustaches`: an unclosed `[[` hides a later `{{}}`.
  `Expressions`: a function of the model is not observed; a filter that throws leaves the
  observer resetting.
* `ShadowDom`: inserting a node before its own next sibling links it to itself
  (Node.js:392-401). `ShadowEvents`: `stopImmediatePropagation` returns without
  counting down `depth`, so removed listeners stay; removing the last listener of a phase
  silences those of the other one. `ShadowMutations`: transient
  registrations take options meant for a new one; disconnecting leaves them.
* `CustomElements`: a callback that moves the walked node keeps its siblings from being
  upgraded; one that throws leaves the rest of its walk, or of the queue of callbacks, undone
  (upgrade.js:107, observe.js:112, 152). `HtmlImports`: a document that imports itself is never done; an import added by
  a script is parsed before it is loaded. `JsMutations`: only the first registration that listens gets
  the transient observer.
* `JUrl`: the setter of the port ignores the default; `file:` without a base throws.
* `Gestures`: a second button replaces the gestures required by the first; a
  recognizer that throws leaves the queue. `NodeBinding`: rebinding a property throws (NodeBind.js:33), and
  so does a click beside an unbound radio button (234).
* `PolymerQueue`: a registration that throws leaves `flushing` set.
  `PolymerElement`: an attribute set while bound stays stale once the model is written.

In the Java code, beyond the hazards of `PROJECT.json`: `Statistic.java:40` rejects an
end time before the start, so a clock that steps back makes closing a handle throw
(the model's clock does not); `AccountCreationHelper.java:101` stores the account before the mail that has its
password is sent.

## Runs

| run | shows |
|---|---|
| `AlarmFailures` | with a database that throws at any call, crashes, a class gone at restart: `RowOutlivesDescription`, `OccurrencesAgree` (queue, map and rows tell one story), `CancelledIsGone`, `NoFireAfterCancel`, `NeverEarly`, `ImplementsService` |
| `AlarmLiveness` | with a database that works, over a crash: `WakeupScheduled`, `AlarmsFire` |
| `AlarmLost` | *violation* of `PersistentAlarmNotLost`: a crash after `fireAlarm` removed the row and before the executor ran the callback loses a persistent alarm |
| `AlertOrder` | any order of events: `ShownAsRequested` (a view is shown while it is requested, in the order of the priorities, and faded while it is timed; a cancel concerns its own alert only) |
| `AlertCalm` | a calm client: `ImplementsBoard`, `FadingIsKept` (no stray timers, fading alerts go) |
| `StandAlone` | statistics: `RecentCallsKept`, `NothingLeftBehind`; tabs: `OneTabShown`; constraints: `PlansAreSound` (a plan orders constraints so that each reads what was computed before); harness: `HarnessTells`, `TestsComplete` |
| `Sessions` | two users, moves, restarts, losses: `StaysLoggedIn` (a page of the game keeps its user for the interval of redirections), `HeardLast` (the browser is logged in as the last user whose log in it heard of), `GetsToGame` |
| `Observe` | `SplicesAgree`, `PathRoundTrip`, `DiffsAgree`, `NothingMissed`, `ProcessedUnlessTaskThrows` (a visible page gets its changes reported) |
| `Platform` | `MutationsHeard`, `NothingStranded`, `TreesKept`, `EventsHeard`, `ElementsKept`, `ImportsKept`, `RecordsReach`, `UrlKept` |
| `UrlAddresses` | *violation* of `AddressesAreRead`: an address like `data:text/html,test?x` makes the parser assign an undeclared name |
| `Polymer` | `QueueKept`, `ElementAgrees`, `ViewAgrees`, `InstancesKept`, `ExpressionsKept` (`ExpressionAgrees`, `EntriesKept`), `TextsKept`, `GesturesKept` |
| `LostTouches` | *violation* of `AbandonedTouchesGone`: `vacuumTouches` removes nothing |

A violation run checks one property that a comment, a test page or an example of the
repository states and the code does not keep; `findings` quotes it.

`StandAlone`, `Observe`, `Platform` and `Polymer` each check parts that share no
state. There a behaviour is one of a single `part`, chosen at the start, while the
others stay as they are; the runs of `Platform` and `Polymer` look at the variables of
that part only (`PartView`).

### Bounds, and why they are enough

* Alarms: two alarms are the least of which one can be ahead of the other in the queue;
  one repeats and one does not. Three timers: one pending, one started and one
  rescheduling; four and five give the same states with two alarms. Two pool threads
  instead of four: a third could only be one more stale run. `Delays` has a deadline in the past,
  one that is now and one in the future; `MinSleep` is one tick. One crash: what a second one finds
  is what the first one left. Clients act on each alarm once, but may look it up and
  cancel it repeatedly. Without database failures there are more states per alarm, so
  `AlarmLiveness` has deadlines at zero, `Horizon` 1 and no lag.
* Alerts: three alerts of two priorities, four handles and four views: a request of
  an alert whose earlier view is still in somebody's hands, twice. Three timers and three
  deferred commands are one more than the two that overlap.
  `AlertOrder` uses symmetry of the handles (no liveness there).
* Statistics: three calls put a young one between two old ones; two cleanups; the clock
  passes twice the history. Tabs: three tabs and two names, so that a name is free
  again; two contents. Constraints: three of six at a time over four variables, with a
  chain, a cycle, and one of three variables; two plans. Harness: two tests and two
  callbacks, four frames, two more calls of the page at any of them.
* Sessions: two requests under way are what it takes for a log in and a
  log out to overtake each other. The cookie lasts three ticks and the interval is two, so a
  cookie passes the filter, is redirected though still valid, and has expired, all within the
  clock's four ticks. One whim (`MaxWhims`: a needless page, a click while an
  answer is awaited, a typing error) and one trouble (a loss, a failed lookup, a move, a restart)
  at any moment: a whim counts only where the user could have waited, so normal use is not
  bounded.
* observe-js: arrays of three elements of two values and holes, with two changes: deletions, insertions and
  updates that merge, overlap and cancel; texts of five characters reach every state of the
  parser and come back; three observers (one path, one compound, one eager) of two paths, three
  cycles (the code stops after 1000, `MAX_DIRTY_CHECK_CYCLES`), four calls of the page and a stack of four.
* Web components: two observers and three nodes are a subtree, what left it and what is in
  it; a host with two shadow trees, a fragment, insertion points and five other nodes under
  three changes; two listeners on the nodes of one path, insertion points apart (listeners there are in
  the model and make this run too large); one element in the shadow tree of another, two names, two
  imports that import each other and three acts of the page, a throwing callback being one; imports
  that form a circle, share a document and come late; every address of the shapes in `MCPlatform`,
  alone, against an `http` and a `file` base and against one that is not relative, with two settings.
* Polymer: as the run says in `PROJECT.json`. Three definitions and two writes; two radio buttons on
  paths of their own; nine expressions, one for each form of tree and a bare name declared in the
  scope, one outside it; one mouse and two fingers with four events, which may all wait for one frame
  (`MaxQueue` is `MaxEvents`) or be handed on one by one: a down, a move and an up meet the recognizers in
  any grouping, and a second down may be queued before the first is recognized.

### Fairness

`AlarmManager!Fairness`: time passes; threads that can run do; a dead server is
restarted; a client finishes the call it has begun. `ScheduleNewAlarm`, `LoadAlarm` and `FinishStart`
wait for a monitor that `run()` takes and releases again and again, so weak
fairness would let them starve: strong fairness states that a thread waiting for a
monitor gets it in the end, as HotSpot's queued monitors do. Crashes, new
alarms and cancels owe nothing; crashes are bounded.

`AlertController!FairSpec`: the browser runs what is deferred and fires timers. No mouse event is
owed. `TestHarness`: functions of the page return and the harness's timer goes off;
tests' timers, the page's scripts and its loading owe nothing.
`ObserveCheckpoint!ObserverFairness`: functions return, polls and microtasks come; a page owes no call, and
may be hidden for ever.

`Session!FairSpec`: the server answers and answers arrive unless they are lost, of
which there is a bounded number; users answer the page they see (without that the
property says nothing of them). The clock may tick at any time and need not; as it is bounded,
from some time on a request takes no time. In the code that is a request that takes less than
the cookie's duration less the interval (29 days by default).

## Proofs

Checked by `tlapm` for all values of the constants that satisfy the modules'
assumptions. No theorem has a premise that the run of its property does not have: three of
them speak, as their runs do, of clients that keep to what their module says of them
(`~EarlyClients`; `Calm`; `~StaleHandles /\ ~NullWidgets`), and what goes wrong otherwise is
said above.

**Alarms** (`AlarmManager_proofs`; alarms are persistent or transient, repeat
durations and bounds are naturals, `Horizon > MaxLag`):

* `TypeCorrect` and, from it alone, `NothingFiresEarly`: what `run()` hands over was the
  head of the queue and before the time it had read.
* `AlarmsInvariant`: `AlarmsInv` is the inductive invariant of each single alarm.
  `RowOutlivesDescription` is not inductive: that an alarm in the map has its row depends
  on which stage it came through. So the invariant says for an alarm that is unissued, being created, read
  back by `doStart`, live, half fired or cancelled what the map, the queue of
  deadlines to be queued, the row and the pending `cancel()` are. An alarm half fired is not in the map, as `run()`
  removed it first: without this, a `cancel()` between `execute` and
  `removeAlarm` could take the row away. It gives `RowsOutliveDescriptions`, `CancelIsFinal`
  and `CancelledNeverFires`.
* `QueueAgreesWithRows`: `OccurrencesAgree`, with `QueueInv` on top of `AlarmsInv`: how
  many entries of the queue an alarm has at each stage, and which deadline each of them has.
* `NoWakeupLost`: `WakeupScheduled` for any number of alarms, timers and threads. Every
  action either leaves the timers and the queue alone, or removes from the queue only, or ends in
  `scheduleNextAlarmCycle`, whose timer covers the head of the queue and so every
  entry behind it (`ScheduleCovers`), or leaves a thread on its way there.
* `ManagerImplementsService`: the initial states map to initial ones, and each action of
  the manager, under these invariants, to an action of `AlarmService` or to none.

**Alerts** (`AlertController_proofs`):

* `PageShowsRequests` (`ShownAsRequested`, the order of the page included) needs `AlertsInv`: that views are
  numbered as they are made, a view displayed for an alert was made for it, timers are
  objects of their own, and only fading alerts have them, besides the parts of
  `ShownAsRequested` themselves. Sortedness is kept because `addViewToContainer` inserts
  before the first view that does not come before the new one in a list that is already sorted.
* `CalmHasNoStrays` needs `CalmInv`: of a calm client a view waits for its turn once,
  a fading one was asked for by one handle, and what is on the page is what
  `displayedAlerts` has. Only together do they exclude a second timer.
* `ControllerImplementsBoard`: under both, every event maps to a step of `AlertBoard` or to none. Taking a view
  out of the page takes the alert it shows out of the board and putting one in puts one in
  (`MappedRemoval`, `MappedInsertion`), as no alert is on the page twice.

**Statistics and tabs** (`StandAlone_proofs`):

* `StatisticsTypes`; `YoungStatisticsStay`; `CleanupIsThorough`. The
  list is not ordered by start time, so the last needs `StatsInv`: it *is* ordered by when
  statistics were added, and each started before it was added. The first young
  statistic therefore started, hence was added, after the throw out time, and so was
  everything behind it.
* `OneTabIsShown`: `TabInv` adds to `SomeTabActive` and `ShowsActiveTab` that the strip has no tab
  twice, that active, enabled and filled tabs are in it, and that the active one alone
  has the style and its content the container. The inserting, removing and clearing operations then each leave one active. `DisabledGivesWay`
  goes action by action: only `activate()` and the removal of the active tab make a disabled one active
  while another is enabled, and `setTabEnabled` hands over to an enabled one.

**Sessions** (`Session_proofs`, from `SessionAssumption`): `SessionTypes`; `PagesStayLoggedIn` and
`HeardLastHolds`. What `StaysLoggedIn` says of a page depends on the filter at the time it was
served, on the answer that brought the cookie and on the jar that keeps it. So `Inv` says of
every request that its cookie, if the server can accept it, is that of a user; of every answer that its
cookie ends no later than `Duration` from now, so that the jar keeps it long enough
(`JarInv`), and that its page was served with a cookie that outlasts the interval
(`ServedInTime`); and of answers to log ins and log outs that their cookie is that user's
or `INVALID_COOKIE`.

**observe-js** (`Observe_proofs`):

* `DifferencesAgree`: the loop over the records is a recursive function; what it knows
  after `n` records (which properties were added and removed since the copy was made, and the
  old value of each) is shown by induction on `n`, with the object as it was at each record
  as the witness. `ObjectInv` ties the records of each observed object to that chain.
* `NothingIsMissed`: `CheckpointInv` says of each frame of the stack which observers it
  still has to look at, that those that are open are in the list it will leave or in the
  one it is making, and that an observer in neither was seen with the data as they are
  (`SettledIsSeen`); `OneCheckpoint` that there is one checkpoint on the stack at most.

* `EveryPlanIsSound`: a plan of `Planner` is sound, and there is none when `getPlan` says so,
  for any variables, constraints, methods and priorities. `PlannerInv` says of the time between two plans
  that the methods on a variable are those of constraints there are, and that none of these
  writes a dropped variable. `Planning` is the invariant of the loop: the heap has every
  variable with one method, whoever has more is overconstrained, and what a chosen method writes no
  constraint writes that is left or was chosen later. `SkippedTurn` and `TakingTurn` keep it.
  Of the heap it is only needed that its operations lose no element and hold none twice
  (`Rearranged`, `PopTakes`, `PushAllAdds`), and so nothing of the priorities. Each turn takes another
  variable (`InTurn`), so the heap gets empty. Then, if anything is overconstrained, each
  variable that one of the constraints left writes is written by another one of them
  (`NothingAlone`), and in no order can the last of these be enforced (`NoPlanIsSound`).

**Mutation observers** (`ShadowMutations_proofs`, from `MutationAssumption`): `NoRecordStranded` and
`EveryMutationIsHeard`.

* `NothingStranded` is not inductive: it needs that `scheduled_` and the two lists agree (an
  observer with records that is scheduled is in one of them), that those that are dropped
  are the only exception, and that the second list is only there while `notifyObservers`
  runs. It holds whatever the registrations are.
* `MutationsHeard` compares what an observer is told with what it is owed, and so rests on
  `interestedObservers`, computed from the tables, being those whom the mutation concerns by what
  they watch and by what has left it. `HeardInv` says for each observer that is not
  `misheard` that its registrations agree with these histories (`Agrees`): a node it
  watches has one registration of its own, with the options watched, before all others of
  this observer on the node, and the node is in `nodes_` (`OwnOf`); a registration of it on another node than
  its target is there because that node has left (`TransientsOf`), and what has left has
  one (`GoneOf`); and no such registration is on a node more often than its
  `transientObservedNodes` names it (`CountsOf`). The last is what makes the loops of
  `removeTransientObserversFor` leave nothing behind, although they take elements out of the list they go
  through: each loop only makes the heap `Lighter` (nothing is taken off that observes
  the node it is on, or is another observer's), and gets to the observer's own registration
  on each of its nodes since that is its first. The other actions are one lemma each: `ObserveNewAgrees`,
  `ObserveAgainAgrees`, `DisconnectAgrees`, `FollowedAgrees`, `NotifiedAgrees`.

**Test harness** (`TestHarness_proofs`): `CallbacksAreTold`, for any number of tests, callbacks
and frames. `CompletesInTime` follows from `HarnessInv`, which holds whatever the page's
code does: a test has a result just when it is done, `num_pending` is the number of the
others, every frame is of a test or callback there is, and the loop of `complete()` lies below the
result it is telling. `ResultsAreTold` is about what callbacks were told earlier, so `Calm` says, while none
of them has thrown or finished a test, what each has been told at every moment: one callback
runs at a time; before the completion each has been told of exactly the tests that are done, but for the one whose
callbacks are being called (`Telling`); in `complete()` also of the tests up to the one the
loop has reached (`Looping`); after it of all of them, as the table shows (`AllTold`). Each
action is shown to be one of four kinds (`HarnessStep`: it tells nothing, gives a
test its result, goes on with the completion, or calls the next callback), and
`Calm` to be kept by each kind.

**Polymer's queue** (`StandAlone_proofs`): `DefinitionsAreRegistered`, for any definitions,
extensions, imports and stylesheets. `QueueInv` has two halves.

* For `RegisteredInOrder`: all that was queued stands in one `Line` (registered, to be
  flushed, queue of the imports, queue of the main document), each once and in an order that
  is allowed (`LineKept`). A step enqueues at a place behind all that comes before
  (`LineEnqueued`) or moves a definition from one part to the next, so that the line stays
  the same (`LineTaken`, `LineFlushed`). What is registered is a front of the line, hence in
  order; `BasesKept` says what each name stood for when it was first extended.
* For `NothingWaits`: who is not queued waits for its prototype, unless its `init` still runs
  (`Found`); the head of the queue lacks something, unless polymer-ready still waits for the
  imports (`HeadLacks`); and when all could be registered, a check or a flush that will do
  it is on the stack, or, for the callbacks, an animation frame is requested (`GoesOn`). The
  calls on the stack have to be nested as `StackKept` says. In a chain of calls,
  where one definition goes and asks the next, `HeadLacks` fails for the one that is
  asked: `Asking` allows that, `AskedIs` is one call of `registerWhenReady`, and
  `AllAskedIs` follows them to the end, as each that goes shortens the queues.

**Sequences** (`SequenceLemmas`): what inserting, removing, filtering and appending do to
lengths, elements, order and distinctness. The library's induction theorems take an
operator as parameter and cannot be used; `SetInduction` and `LeastNatural` take the *set* of
numbers that have a property instead, from the well-foundedness of the naturals. Sequences that proofs
speak of are filtered by `Filtered`, a recursive function, not by `SelectSeq`; loops are
recursive functions on `0 .. n`, and `FoldExists` and `FoldStays` give their values what each turn
keeps. `Thinned` is a sequence with elements taken out, but none of a given set; `Distinct`
and `InOrder` speak of sequences that hold each element once, and are kept by `Inserted`.

Only model-checked:

* every liveness property (`AlarmsFire`, `FadingIsKept` but for its first part,
  `GetsToGame`, `ProcessedUnlessTaskThrows`, `TestsComplete`): fairness and `ENABLED` are
  beyond the prover;
* what modules with `RECURSIVE` operators say (`ArraySplice`, `CustomElements`,
  `Expressions`, `Gestures`, `HtmlImports`, `JUrl`, `JsMutations`, `Mustaches`,
  `NodeBinding`, `ObservePath`, `PolymerElement`,
  `ShadowDom`, `ShadowEvents`, `TemplateIterator`): walks over trees, parsers and edit distances,
  whose theorems would be inductions over data.

## Not modelled

Texts, labels, icons, log messages, the data handed to an alarm's callback, the
encryption of cookies and ids, roles, the diagnostics of `SecurityInformationHelper`, the
names of alarm classes (but for a class that is gone, `Unloadable`), the states of Guava's `Service`
(nothing waits for them), listeners of the tabbed panel (registered, never
called), tab orientation. Of the JavaScript: style sheets rewritten by regular
expressions (`ShadowCSS`), wrappers that hand calls on, the second copy of `url.js`,
minified and built files, pointer events of Internet Explorer, `esprima` (its trees are
inputs of `Expressions`). And the components of the first table without a module:
accounts (mostly transactions of the database), navigation (GWT's history), lifecycle,
settings, static resources, Magic cards.

## Plan

1. *Done*: alarms, alerts, statistics, tabs, sessions, observe-js, web components, Polymer: checked.
2. *Done*: proofs of the safety properties and the refinements of the Java components, of the
   observers and the planner of observe-js, of the mutation observers, of Polymer's queue, and of
   the test harness.
3. Proofs: trees in the form of recursive functions where a theorem about them is worth it.
4. `Navigation` with `PagePresenterHelper` and the page presenters, composed with `AlertBoard`
   for the alerts of RPCs in flight; `Accounts` with the mail in the background.
