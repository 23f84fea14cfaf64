------------------------------ MODULE Session -------------------------------
(***************************************************************************)
(* One browser's session with the server.  The tabs of the browser share a *)
(* jar that holds the authentication cookie (CookieHelper).  Pages of the  *)
(* game pass the LogInFilter or are redirected to the authentication page, *)
(* which shows the log in page or the log out page; these call the         *)
(* authentication service, whose answers set the cookie and send the tab   *)
(* to its next page.  Requests of all tabs are under way at the same time  *)
(* and are answered, and their answers received, in any order; some are    *)
(* lost.  The clock, the address of the browser and the cookie version of  *)
(* the server change meanwhile.                                            *)
(***************************************************************************)
EXTENDS Integers, FiniteSets

CONSTANTS
  Tabs,        \* tabs of the browser
  NoTab,       \* stands for the tab of a call whose page has gone
  Users,       \* users who know their passwords
  NoUser,      \* no user, or one who mistypes
  Addresses,   \* addresses the browser has over time
  Versions,    \* values of the flag cookie-version
  Nowhere,     \* the address and the version of INVALID_COOKIE
  Slots,       \* bound: requests under way
  Duration,    \* the flag cookie-validation-duration
  PreExpire,   \* the flag auth-pre-expire-redirect-interval
  MaxTime,     \* bound: the clock
  MaxWhims,    \* bound: what users do that they need not do to get on
  MaxTrouble   \* bound: lost requests, failed lookups, moves and restarts

ASSUME SessionAssumption ==
  /\ NoTab \notin Tabs /\ NoUser \notin Users
  /\ Nowhere \notin Addresses \union Versions
  /\ Duration \in Nat /\ PreExpire \in Nat
  /\ MaxTime \in Nat /\ MaxWhims \in Nat /\ MaxTrouble \in Nat

VARIABLES
  now,       \* the time, for the server and for the browser
  address,   \* address of the browser
  version,   \* cookie version of the server
  jar,       \* the browser's cookie and when the browser drops it
  page,      \* tab -> its page
  calls,     \* slot -> a request, an answer or nothing
  told,      \* the last the browser heard: who logged in, or NoUser
  whims, trouble   \* how much of the bounds was used

vars == <<now, address, version, jar, page, calls, told, whims, trouble>>

-----------------------------------------------------------------------------
(* Cookies *)

Cookies == [user : Users \union {NoUser}, addr : Addresses \union {Nowhere},
            until : Nat, version : Versions \union {Nowhere}]

\* INVALID_COOKIE; what findCookie finds in an empty jar counts as one, too.
InvalidCookie ==
  [user |-> NoUser, addr |-> Nowhere, until |-> 0, version |-> Nowhere]

\* The cookie that a browser with jar j sends.
Sent(j) == IF now < j.dies THEN j.cookie ELSE InvalidCookie

\* Does the server accept cookie c from address a?
IsValid(c, a) == c.version = version /\ c.addr = a /\ c.until > now

\* The user of a request, NoUser if it has no valid cookie.
UserId(c, a) == IF IsValid(c, a) THEN c.user ELSE NoUser

\* When the credentials of a request expire, 0 if they have or are none.
ExpirationTime(c, a) == IF IsValid(c, a) THEN c.until ELSE 0

\* Mutant: seconds are taken for milliseconds.
AuthenticationCookieSeconds(u, a) ==
  [user |-> u, addr |-> a, until |-> now + Duration \div 1000, version |-> version]

\* The cookie that identifies user u.
AuthenticationCookie(u, a) ==
  [user |-> u, addr |-> a, until |-> now + Duration, version |-> version]

\* Mutant: only a request that has expired is redirected.
ShouldRedirectLate(c, a) == now > ExpirationTime(c, a)

ShouldRedirect(c, a) == now + PreExpire > ExpirationTime(c, a)

\* Mutant: the log out only invalidates the cookie of the request.
SetsCookieIn(what) == what = "in"

\* Which answers of the authentication service bring a cookie: those to a log
\* in that succeeds and to a log out.
SetsCookie(what) == what \in {"in", "out"}

-----------------------------------------------------------------------------
(* Pages, requests and answers *)

\* A page of the game has the cookie it was asked for with, and when it was.
Pages == [shows : {"blank", "login", "logout", "game"}, cookie : Cookies, at : Nat]

PageOf(s) == [shows |-> s, cookie |-> InvalidCookie, at |-> 0]

Loads == {"loadGame", "loadAuth"}
Services == {"authenticate", "logout"}

Requests == [state : {"asked"}, tab : Tabs \union {NoTab},
             kind : Loads \union Services, user : Users \union {NoUser},
             cookie : Cookies, addr : Addresses]

\* An answer says what it is, brings a page and may set the cookie.
Answers == [state : {"answered"}, tab : Tabs \union {NoTab},
            says : {"page", "redirect", "in", "no", "out"}, user : Users \union {NoUser},
            page : Pages, sets : Cookies]

Nothing == [state |-> "nothing"]

Request(t, k, u, j) == [state |-> "asked", tab |-> t, kind |-> k, user |-> u,
                        cookie |-> Sent(j), addr |-> address]

Answer(t, what, u, p, c) ==
  [state |-> "answered", tab |-> t, says |-> what, user |-> u, page |-> p, sets |-> c]

Is(s, state) == calls[s].state = state

IsAsked(s, k) == Is(s, "asked") /\ calls[s].kind = k

IsSaid(s, what) == Is(s, "answered") /\ calls[s].says = what

\* Is slot s a page on its way to tab t?
IsLoad(s, t) ==
  /\ ~Is(s, "nothing") /\ calls[s].tab = t
  /\ \/ Is(s, "asked") /\ calls[s].kind \in Loads
     \/ Is(s, "answered") /\ calls[s].says \in {"page", "redirect"}

\* Tab t asks for a page in a slot; one that was on its way is given up.
Load(t, k) ==
  \E s \in Slots :
    /\ Is(s, "nothing") \/ IsLoad(s, t)
    /\ calls' = [r \in Slots |-> IF r = s THEN Request(t, k, NoUser, jar)
                                 ELSE IF IsLoad(r, t) THEN Nothing
                                 ELSE calls[r]]

Init ==
  /\ now = 1
  /\ address \in Addresses
  /\ version \in Versions
  /\ jar = [cookie |-> InvalidCookie, dies |-> 0]
  /\ page = [t \in Tabs |-> PageOf("blank")]
  /\ calls = [s \in Slots |-> Nothing]
  /\ told = NoUser
  /\ whims = 0 /\ trouble = 0

-----------------------------------------------------------------------------
(* The user *)

\* Is something of tab t under way?
Busy(t) == \E s \in Slots : ~Is(s, "nothing") /\ calls[s].tab = t

\* Users do what they need not do a bounded number of times.
Whim(needless) == IF needless THEN whims < MaxWhims /\ whims' = whims + 1
                              ELSE UNCHANGED whims

\* A tab opens the game, or the authentication page.
Visit(t) ==
  /\ \E k \in Loads :
       /\ Whim(page[t].shows # "blank" \/ Busy(t) \/ k # "loadGame")
       /\ Load(t, k)
  /\ UNCHANGED <<now, address, version, jar, page, told, trouble>>

\* A page calls the authentication service.
Call(t, k, u) ==
  /\ \E s \in Slots : /\ Is(s, "nothing")
                      /\ calls' = [calls EXCEPT ![s] = Request(t, k, u, jar)]
  /\ UNCHANGED <<now, address, version, jar, page, told, trouble>>

\* The log in button; NoUser mistypes.
ClickLogIn(t, u) ==
  page[t].shows = "login" /\ Whim(Busy(t) \/ u = NoUser) /\ Call(t, "authenticate", u)

ClickLogOut(t) == page[t].shows = "logout" /\ Whim(Busy(t)) /\ Call(t, "logout", NoUser)

-----------------------------------------------------------------------------
(* The server *)

Reply(s, what, u, p, c) ==
  /\ calls' = [calls EXCEPT ![s] = Answer(calls[s].tab, what, u, p, c)]
  /\ UNCHANGED <<now, address, version, jar, page, told, whims>>

\* The page of the game, or a redirection to the authentication page.
ServeGame(s) ==
  /\ IsAsked(s, "loadGame")
  /\ IF ShouldRedirect(calls[s].cookie, calls[s].addr)
     THEN Reply(s, "redirect", NoUser, PageOf("blank"), InvalidCookie)
     ELSE Reply(s, "page", NoUser,
                [shows |-> "game", cookie |-> calls[s].cookie, at |-> now], InvalidCookie)
  /\ UNCHANGED trouble

\* The authentication page: the log out page for a user found to be logged in,
\* the log in page for anybody else.
ServeAuth(s) ==
  /\ IsAsked(s, "loadAuth")
  /\ IF UserId(calls[s].cookie, calls[s].addr) # NoUser
     THEN \/ Reply(s, "page", NoUser, PageOf("logout"), InvalidCookie) /\ UNCHANGED trouble
          \/ \* The lookup of the user fails, which is only logged.
             /\ Reply(s, "page", NoUser, PageOf("login"), InvalidCookie)
             /\ trouble < MaxTrouble /\ trouble' = trouble + 1
     ELSE Reply(s, "page", NoUser, PageOf("login"), InvalidCookie) /\ UNCHANGED trouble

ServeAuthenticate(s) ==
  /\ IsAsked(s, "authenticate")
  /\ LET u == calls[s].user IN
     IF u # NoUser
     THEN Reply(s, "in", u, PageOf("blank"), AuthenticationCookie(u, calls[s].addr))
     ELSE Reply(s, "no", u, PageOf("blank"), InvalidCookie)
  /\ UNCHANGED trouble

ServeLogout(s) ==
  /\ IsAsked(s, "logout")
  /\ Reply(s, "out", NoUser, PageOf("blank"), InvalidCookie)
  /\ UNCHANGED trouble

-----------------------------------------------------------------------------
(* The browser *)

\* The tabs in T show the pages p; calls of the pages before go on without them.
\* The slots in S are free.
Show(T, p, S) ==
  /\ page' = [t \in Tabs |-> IF t \in T THEN p ELSE page[t]]
  /\ calls' = [r \in Slots |-> IF r \in S THEN Nothing
                               ELSE IF ~Is(r, "nothing") /\ calls[r].tab \in T
                                    THEN [calls[r] EXCEPT !.tab = NoTab]
                               ELSE calls[r]]

ReceivePage(s) ==
  /\ IsSaid(s, "page")
  /\ Show({calls[s].tab}, calls[s].page, {s})
  /\ UNCHANGED <<now, address, version, jar, told, whims, trouble>>

ReceiveRedirect(s) ==
  /\ IsSaid(s, "redirect")
  /\ calls' = [calls EXCEPT ![s] = Request(calls[s].tab, "loadAuth", NoUser, jar)]
  /\ UNCHANGED <<now, address, version, jar, page, told, whims, trouble>>

\* The jar after the answer in slot s.
JarAfter(s) == IF SetsCookie(calls[s].says)
               THEN [cookie |-> calls[s].sets, dies |-> now + Duration]
               ELSE jar

\* The answer of a service; its page, unless it has gone, goes on to page k.
ReceiveAnswer(s, k) ==
  /\ jar' = JarAfter(s)
  /\ LET t == calls[s].tab IN
     calls' = [r \in Slots |-> IF r = s /\ t # NoTab THEN Request(t, k, NoUser, JarAfter(s))
                               ELSE IF r = s \/ IsLoad(r, t) THEN Nothing
                               ELSE calls[r]]
  /\ UNCHANGED <<now, address, version, page, whims, trouble>>

ReceiveLogIn(s) ==
  /\ IsSaid(s, "in")
  /\ told' = calls[s].user
  /\ ReceiveAnswer(s, "loadGame")

ReceiveLogOut(s) ==
  /\ IsSaid(s, "out")
  /\ told' = NoUser
  /\ ReceiveAnswer(s, "loadAuth")

\* An alert says that the log in failed.
ReceiveNo(s) ==
  /\ IsSaid(s, "no")
  /\ calls' = [calls EXCEPT ![s] = Nothing]
  /\ UNCHANGED <<now, address, version, jar, page, told, whims, trouble>>

-----------------------------------------------------------------------------
(* What else happens *)

Trouble == trouble < MaxTrouble /\ trouble' = trouble + 1

\* The requests and answers in the slots S come to nothing: a page that was on
\* its way is blank, a service has failed, which an alert says.
Cut(S) == Show({t \in Tabs : \E s \in S : IsLoad(s, t)}, PageOf("blank"), S)

\* A request or an answer is lost, or the server throws an exception.
Lose(s) ==
  /\ ~Is(s, "nothing")
  /\ Trouble /\ Cut({s})
  /\ UNCHANGED <<now, address, version, jar, told, whims>>

\* The browser gets another address.
Move ==
  /\ \E a \in Addresses \ {address} : address' = a
  /\ Trouble
  /\ UNCHANGED <<now, version, jar, page, calls, told, whims>>

\* The server starts anew, maybe with another cookie version; it keeps nothing
\* of sessions, only the requests it was at are lost.
Restart ==
  /\ version' \in Versions
  /\ Trouble /\ Cut({s \in Slots : Is(s, "asked")})
  /\ UNCHANGED <<now, address, jar, told, whims>>

Tick ==
  /\ now < MaxTime
  /\ now' = now + 1
  /\ UNCHANGED <<address, version, jar, page, calls, told, whims, trouble>>

-----------------------------------------------------------------------------

Server(s) == ServeGame(s) \/ ServeAuth(s) \/ ServeAuthenticate(s) \/ ServeLogout(s)

Browser(s) ==
  \/ ReceivePage(s) \/ ReceiveRedirect(s)
  \/ ReceiveLogIn(s) \/ ReceiveLogOut(s) \/ ReceiveNo(s)

User(t) ==
  \/ Visit(t) \/ ClickLogOut(t)
  \/ \E u \in Users \union {NoUser} : ClickLogIn(t, u)

Next ==
  \/ \E s \in Slots : Server(s) \/ Browser(s) \/ Lose(s)
  \/ \E t \in Tabs : User(t)
  \/ Move \/ Restart \/ Tick

Spec == Init /\ [][Next]_vars

\* The server answers and answers arrive, unless they are lost; users answer
\* the pages they are shown.
FairSpec ==
  /\ Spec
  /\ \A s \in Slots : WF_vars(Server(s)) /\ WF_vars(Browser(s))
  /\ \A t \in Tabs : WF_vars(User(t))

-----------------------------------------------------------------------------
(* Properties *)

\* One page at most is on its way to a tab, and none to a page that has gone.
OneLoadPerTab ==
  /\ \A t \in Tabs, r, s \in Slots : IsLoad(r, t) /\ IsLoad(s, t) => r = s
  /\ \A s \in Slots : ~IsLoad(s, NoTab)

\* Everything has its type, and tabs give up a page before they ask for
\* another (Navigator.navigateTo and reload).
TypeOK ==
  /\ now \in Nat /\ address \in Addresses /\ version \in Versions
  /\ jar \in [cookie : Cookies, dies : Nat]
  /\ page \in [Tabs -> Pages]
  /\ calls \in [Slots -> Requests \union Answers \union {Nothing}]
  /\ told \in Users \union {NoUser}
  /\ whims \in 0 .. MaxWhims /\ trouble \in 0 .. MaxTrouble
  /\ OneLoadPerTab

\* The user that the server would take the browser for.
CurrentUser == UserId(Sent(jar), address)

\* A page of the game does not lose its user at once: within the interval of
\* redirections from the time it was served, the server knows the user it was
\* served to, unless the cookie, the address or the version changed.  It is
\* why LogInFilter redirects so early.
StaysLoggedIn ==
  \A t \in Tabs :
    LET p == page[t] IN
    /\ p.shows = "game"
    /\ p.cookie = jar.cookie /\ p.cookie.addr = address /\ p.cookie.version = version
    /\ now < p.at + PreExpire
    => CurrentUser = p.cookie.user /\ CurrentUser # NoUser

\* The browser is logged in as nobody but the user of the last log in it heard
\* of, and not at all once it heard of a log out, whatever else is under way
\* and whichever pages are shown (DefaultAuthenticationService).
HeardLast == CurrentUser \in {told, NoUser}

\* Users who answer the pages get from the authentication page to the game,
\* also through the log out page that the filter sends them to when their
\* credentials are about to expire.
GetsToGame ==
  \A t \in Tabs : page[t].shows \in {"login", "logout"} ~> page[t].shows = "game"

=============================================================================
