--------------------------- MODULE Session_proofs ---------------------------
(***************************************************************************)
(* Proofs about Session, for any tabs, users, durations and bounds: the    *)
(* types, that a page of the game does not lose its user before the        *)
(* interval of redirections is over, and that the browser is logged in as  *)
(* the last user whose log in it heard of.                                 *)
(***************************************************************************)
EXTENDS Session, TLAPS

\* The types without the uniqueness of loads.
Types ==
  /\ now \in Nat /\ address \in Addresses /\ version \in Versions
  /\ jar \in [cookie : Cookies, dies : Nat]
  /\ page \in [Tabs -> Pages]
  /\ calls \in [Slots -> Requests \union Answers \union {Nothing}]
  /\ told \in Users \union {NoUser}
  /\ whims \in 0 .. MaxWhims /\ trouble \in 0 .. MaxTrouble

\* INVALID_COOKIE and what a browser sends are cookies (CookieHelper).
LEMMA CookieTypes ==
  /\ InvalidCookie \in Cookies
  /\ \A j \in [cookie : Cookies, dies : Nat] : Sent(j) \in Cookies
BY DEF InvalidCookie, Cookies, Sent

\* Blank and authentication pages are pages.
LEMMA PageTypes ==
  ASSUME NEW k \in {"blank", "login", "logout", "game"}
  PROVE  PageOf(k) \in Pages
BY CookieTypes DEF PageOf, Pages

\* What a tab or a page sends is a request.
LEMMA RequestType ==
  ASSUME Types, NEW t \in Tabs \union {NoTab}, NEW k \in Loads \union Services,
         NEW u \in Users \union {NoUser}, NEW j \in [cookie : Cookies, dies : Nat]
  PROVE  Request(t, k, u, j) \in Requests
BY CookieTypes DEF Types, Request, Requests

\* What the server sends is an answer.
LEMMA AnswerType ==
  ASSUME NEW t \in Tabs \union {NoTab}, NEW w \in {"page", "redirect", "in", "no", "out"},
         NEW u \in Users \union {NoUser}, NEW p \in Pages, NEW c \in Cookies
  PROVE  Answer(t, w, u, p, c) \in Answers
BY DEF Answer, Answers

\* A call goes on without its page.
LEMMA OrphanType ==
  ASSUME Types, NEW r \in Slots, ~Is(r, "nothing")
  PROVE  [calls[r] EXCEPT !.tab = NoTab] \in Requests \union Answers
BY DEF Types, Is, Nothing, Requests, Answers

\* The fields of a request under way.
LEMMA AskedFields ==
  ASSUME Types, NEW s \in Slots, Is(s, "asked")
  PROVE  calls[s] \in Requests
BY DEF Types, Is, Requests, Answers, Nothing

\* The fields of an answer under way.
LEMMA AnsweredFields ==
  ASSUME Types, NEW s \in Slots, Is(s, "answered")
  PROVE  calls[s] \in Answers
BY DEF Types, Is, Requests, Answers, Nothing

\* Init has the types.
LEMMA InitTypes == Init => Types
BY SessionAssumption, CookieTypes, PageTypes DEF Init, Types

\* Every step keeps the types.
LEMMA NextTypes == Types /\ [Next]_vars => Types'
<1> SUFFICES ASSUME Types, [Next]_vars PROVE Types'
    OBVIOUS
<1> USE SessionAssumption
<1>show. ASSUME NEW T \in SUBSET Tabs, NEW p \in Pages, NEW S \in SUBSET Slots, Show(T, p, S)
         PROVE  /\ page' \in [Tabs -> Pages]
                /\ calls' \in [Slots -> Requests \union Answers \union {Nothing}]
  BY <1>show, OrphanType DEF Show, Types
<1>cut. ASSUME NEW S \in SUBSET Slots, Cut(S)
        PROVE  /\ page' \in [Tabs -> Pages]
               /\ calls' \in [Slots -> Requests \union Answers \union {Nothing}]
  <2>1. {t \in Tabs : \E s \in S : IsLoad(s, t)} \in SUBSET Tabs
    OBVIOUS
  <2> QED
    BY <1>cut, <1>show, <2>1, PageTypes DEF Cut
<1>reply. ASSUME NEW s \in Slots, NEW w \in {"page", "redirect", "in", "no", "out"},
                 NEW u \in Users \union {NoUser}, NEW p \in Pages, NEW c \in Cookies,
                 Is(s, "asked"), Reply(s, w, u, p, c), trouble' \in 0 .. MaxTrouble
          PROVE  Types'
  <2>1. calls[s].tab \in Tabs \union {NoTab}
    BY <1>reply, AskedFields DEF Requests
  <2>2. Answer(calls[s].tab, w, u, p, c) \in Answers
    BY <2>1, AnswerType
  <2>3. calls' \in [Slots -> Requests \union Answers \union {Nothing}]
    BY <1>reply, <2>2 DEF Types, Reply
  <2> QED
    BY <1>reply, <2>3 DEF Types, Reply
<1>1. ASSUME NEW s \in Slots, ServeGame(s) PROVE Types'
  <2> DEFINE p == [shows |-> "game", cookie |-> calls[s].cookie, at |-> now]
  <2>1. Is(s, "asked") /\ trouble' \in 0 .. MaxTrouble
    BY <1>1 DEF ServeGame, IsAsked, Types
  <2>2. calls[s].cookie \in Cookies
    BY <2>1, AskedFields DEF Requests
  <2>3. p \in Pages /\ PageOf("blank") \in Pages
    BY <2>2, PageTypes DEF Pages, Types
  <2>4. \/ Reply(s, "redirect", NoUser, PageOf("blank"), InvalidCookie)
        \/ Reply(s, "page", NoUser, p, InvalidCookie)
    BY <1>1 DEF ServeGame
  <2> HIDE DEF p
  <2> QED
    BY <2>1, <2>3, <2>4, <1>reply, CookieTypes
<1>2. ASSUME NEW s \in Slots, ServeAuth(s) PROVE Types'
  <2>1. Is(s, "asked") /\ trouble' \in 0 .. MaxTrouble
    BY <1>2 DEF ServeAuth, IsAsked, Types
  <2>2. \/ Reply(s, "page", NoUser, PageOf("logout"), InvalidCookie)
        \/ Reply(s, "page", NoUser, PageOf("login"), InvalidCookie)
    BY <1>2 DEF ServeAuth
  <2> QED
    BY <2>1, <2>2, <1>reply, CookieTypes, PageTypes
<1>3. ASSUME NEW s \in Slots, ServeAuthenticate(s) PROVE Types'
  <2>1. Is(s, "asked") /\ trouble' \in 0 .. MaxTrouble
    BY <1>3 DEF ServeAuthenticate, IsAsked, Types
  <2>2. calls[s].user \in Users \union {NoUser} /\ calls[s].addr \in Addresses
    BY <2>1, AskedFields DEF Requests
  <2>3. AuthenticationCookie(calls[s].user, calls[s].addr) \in Cookies
    BY <2>2 DEF AuthenticationCookie, Cookies, Types
  <2>4. \/ Reply(s, "in", calls[s].user, PageOf("blank"),
                 AuthenticationCookie(calls[s].user, calls[s].addr))
        \/ Reply(s, "no", calls[s].user, PageOf("blank"), InvalidCookie)
    BY <1>3 DEF ServeAuthenticate
  <2> QED
    BY <2>1, <2>2, <2>3, <2>4, <1>reply, CookieTypes, PageTypes
<1>4. ASSUME NEW s \in Slots, ServeLogout(s) PROVE Types'
  <2>1. Is(s, "asked") /\ trouble' \in 0 .. MaxTrouble
    BY <1>4 DEF ServeLogout, IsAsked, Types
  <2>2. Reply(s, "out", NoUser, PageOf("blank"), InvalidCookie)
    BY <1>4 DEF ServeLogout
  <2> QED
    BY <2>1, <2>2, <1>reply, CookieTypes, PageTypes
<1>5. ASSUME NEW s \in Slots, ReceivePage(s) PROVE Types'
  <2>1. Is(s, "answered") BY <1>5 DEF ReceivePage, IsSaid
  <2>2. calls[s].page \in Pages BY <2>1, AnsweredFields DEF Answers
  <2>3. Show({calls[s].tab} \intersect Tabs, calls[s].page, {s}) \/ calls[s].tab = NoTab
    BY <1>5, <2>1, AnsweredFields DEF ReceivePage, Answers
  <2> QED
    BY <1>5, <2>2, OrphanType DEF ReceivePage, Show, Types
<1>6. ASSUME NEW s \in Slots, ReceiveRedirect(s) PROVE Types'
  <2>1. Is(s, "answered") BY <1>6 DEF ReceiveRedirect, IsSaid
  <2>2. calls[s].tab \in Tabs \union {NoTab} BY <2>1, AnsweredFields DEF Answers
  <2>3. Request(calls[s].tab, "loadAuth", NoUser, jar) \in Requests
    BY <2>2, RequestType DEF Types, Loads
  <2> QED
    BY <1>6, <2>3 DEF ReceiveRedirect, Types
<1>receive. ASSUME NEW s \in Slots, NEW k \in Loads, Is(s, "answered"), ReceiveAnswer(s, k),
                   told' \in Users \union {NoUser}
            PROVE  Types'
  <2>1. calls[s] \in Answers BY <1>receive, AnsweredFields
  <2>2. JarAfter(s) \in [cookie : Cookies, dies : Nat]
    BY <2>1 DEF JarAfter, Types, Answers
  <2>3. Request(calls[s].tab, k, NoUser, JarAfter(s)) \in Requests
    BY <2>1, <2>2, RequestType DEF Answers
  <2> QED
    BY <1>receive, <2>2, <2>3 DEF ReceiveAnswer, Types
<1>7. ASSUME NEW s \in Slots, ReceiveLogIn(s) PROVE Types'
  <2>1. Is(s, "answered") BY <1>7 DEF ReceiveLogIn, IsSaid
  <2>2. told' \in Users \union {NoUser}
    BY <1>7, <2>1, AnsweredFields DEF ReceiveLogIn, Answers
  <2> QED
    BY <1>7, <2>1, <2>2, <1>receive DEF ReceiveLogIn, Loads
<1>8. ASSUME NEW s \in Slots, ReceiveLogOut(s) PROVE Types'
  BY <1>8, <1>receive DEF ReceiveLogOut, IsSaid, Loads
<1>9. ASSUME NEW s \in Slots, ReceiveNo(s) PROVE Types'
  BY <1>9 DEF ReceiveNo, Types
<1>10. ASSUME NEW s \in Slots, Lose(s) PROVE Types'
  <2>1. Cut({s}) /\ {s} \in SUBSET Slots BY <1>10 DEF Lose
  <2> QED
    BY <1>10, <1>cut, <2>1 DEF Lose, Trouble, Types
<1>11. ASSUME NEW t \in Tabs, Visit(t) PROVE Types'
  <2>1. PICK k \in Loads : Whim(page[t].shows # "blank" \/ Busy(t) \/ k # "loadGame") /\ Load(t, k)
    BY <1>11 DEF Visit
  <2>2. Request(t, k, NoUser, jar) \in Requests BY RequestType DEF Types
  <2>3. calls' \in [Slots -> Requests \union Answers \union {Nothing}]
    BY <2>1, <2>2 DEF Load, Types
  <2>4. whims' \in 0 .. MaxWhims BY <2>1 DEF Whim, Types
  <2> QED
    BY <1>11, <2>3, <2>4 DEF Visit, Types
<1>call. ASSUME NEW t \in Tabs, NEW k \in Services, NEW u \in Users \union {NoUser},
                NEW b \in BOOLEAN, Whim(b), Call(t, k, u)
         PROVE  Types'
  <2>1. Request(t, k, u, jar) \in Requests BY RequestType DEF Types
  <2>2. calls' \in [Slots -> Requests \union Answers \union {Nothing}]
    BY <1>call, <2>1 DEF Call, Types
  <2>3. whims' \in 0 .. MaxWhims BY <1>call DEF Whim, Types
  <2> QED
    BY <1>call, <2>2, <2>3 DEF Call, Types
<1>12. ASSUME NEW t \in Tabs, NEW u \in Users \union {NoUser}, ClickLogIn(t, u) PROVE Types'
  BY <1>12, <1>call DEF ClickLogIn, Services, Busy
<1>13. ASSUME NEW t \in Tabs, ClickLogOut(t) PROVE Types'
  BY <1>13, <1>call DEF ClickLogOut, Services, Busy
<1>14. ASSUME Move PROVE Types'
  BY <1>14 DEF Move, Trouble, Types
<1>15. ASSUME Restart PROVE Types'
  <2>1. /\ Cut({s \in Slots : Is(s, "asked")})
        /\ {s \in Slots : Is(s, "asked")} \in SUBSET Slots
    BY <1>15 DEF Restart
  <2> QED
    BY <1>15, <1>cut, <2>1 DEF Restart, Trouble, Types
<1>16. ASSUME Tick PROVE Types'
  BY <1>16 DEF Tick, Types
<1>17. ASSUME UNCHANGED vars PROVE Types'
  BY <1>17 DEF vars, Types
<1> QED
  BY <1>1, <1>2, <1>3, <1>4, <1>5, <1>6, <1>7, <1>8, <1>9, <1>10, <1>11, <1>12, <1>13,
     <1>14, <1>15, <1>16, <1>17 DEF Next, Server, Browser, User
-----------------------------------------------------------------------------
(* One page at most is on its way to a tab. *)

\* A step that frees slots, takes tabs from calls or replaces the loads of one
\* tab by one does not bring a second load.
LEMMA LoadsOfOthersStay ==
  ASSUME OneLoadPerTab, NEW s \in Slots, NEW u \in Tabs,
         \A r \in Slots \ {s}, t \in Tabs \union {NoTab} :
            IsLoad(r, t)' => IsLoad(r, t) /\ t # u,
         \A t \in Tabs \union {NoTab} : IsLoad(s, t)' => t = u
  PROVE  OneLoadPerTab'
BY SessionAssumption DEF OneLoadPerTab

LEMMA FewerLoads ==
  ASSUME OneLoadPerTab,
         \A r \in Slots, t \in Tabs \union {NoTab} : IsLoad(r, t)' => IsLoad(r, t)
  PROVE  OneLoadPerTab'
BY DEF OneLoadPerTab

\* Show brings no load.
LEMMA ShowLoads ==
  ASSUME Types, OneLoadPerTab, NEW T \in SUBSET Tabs, NEW p, NEW S \in SUBSET Slots,
         Show(T, p, S),
         \A t \in T, r \in Slots \ S : ~IsLoad(r, t)
  PROVE  OneLoadPerTab'
<1>1. ASSUME NEW r \in Slots, NEW t \in Tabs \union {NoTab}, IsLoad(r, t)'
      PROVE  IsLoad(r, t)
  <2>1. CASE r \in S
    BY <1>1, <2>1 DEF Show, IsLoad, Is, Nothing
  <2>2. CASE r \notin S /\ ~Is(r, "nothing") /\ calls[r].tab \in T
    <3>1. ~IsLoad(r, calls[r].tab) BY <2>2
    <3>2. calls'[r] = [calls[r] EXCEPT !.tab = NoTab] BY <2>2 DEF Show
    <3>3. calls[r] \in Requests \union Answers
      BY <2>2 DEF Types, Is, Nothing
    <3>4. /\ calls'[r].state = calls[r].state
          /\ calls[r] \in Requests => calls'[r].kind = calls[r].kind
          /\ calls[r] \in Answers => calls'[r].says = calls[r].says
      BY <3>2, <3>3 DEF Requests, Answers
    <3> QED
      BY <1>1, <2>2, <3>1, <3>3, <3>4 DEF IsLoad, Is, Requests, Answers
  <2>3. CASE r \notin S /\ ~(~Is(r, "nothing") /\ calls[r].tab \in T)
    BY <1>1, <2>3 DEF Show, IsLoad, Is
  <2> QED
    BY <2>1, <2>2, <2>3
<1> QED
  BY <1>1, FewerLoads

\* A slot that changes from a request for a page to the answer keeps its tab.
LEMMA ReplyLoads ==
  ASSUME Types, OneLoadPerTab, NEW s \in Slots, NEW w, NEW u, NEW p, NEW c,
         Is(s, "asked"), Reply(s, w, u, p, c),
         w \in {"page", "redirect"} => calls[s].kind \in Loads
  PROVE  OneLoadPerTab'
<1>1. calls' = [calls EXCEPT ![s] = Answer(calls[s].tab, w, u, p, c)]
  BY DEF Reply
<1>2. \A r \in Slots, t \in Tabs \union {NoTab} : IsLoad(r, t)' => IsLoad(r, t)
  BY <1>1 DEF IsLoad, Is, Answer, Types
<1> QED
  BY <1>2, FewerLoads

\* No step brings a tab a second load.
LEMMA NextOneLoad == Types /\ OneLoadPerTab /\ [Next]_vars => OneLoadPerTab'
<1> SUFFICES ASSUME Types, OneLoadPerTab, [Next]_vars PROVE OneLoadPerTab'
    OBVIOUS
<1> USE SessionAssumption
<1>same. ASSUME UNCHANGED calls PROVE OneLoadPerTab'
  BY <1>same DEF OneLoadPerTab, IsLoad, Is
<1>1. ASSUME NEW s \in Slots, Server(s) PROVE OneLoadPerTab'
  BY <1>1, ReplyLoads
  DEF Server, ServeGame, ServeAuth, ServeAuthenticate, ServeLogout, IsAsked, Loads
<1>2. ASSUME NEW s \in Slots, ReceivePage(s) PROVE OneLoadPerTab'
  <2>1. calls[s] \in Answers /\ calls[s].says = "page" /\ Is(s, "answered")
    BY <1>2, AnsweredFields DEF ReceivePage, IsSaid
  <2>2. IsLoad(s, calls[s].tab)
    BY <2>1 DEF IsLoad, Is
  <2>3. calls[s].tab \in Tabs
    BY <2>1, <2>2 DEF Answers, OneLoadPerTab
  <2>4. \A t \in {calls[s].tab}, r \in Slots \ {s} : ~IsLoad(r, t)
    BY <2>2, <2>3 DEF OneLoadPerTab
  <2>5. Show({calls[s].tab}, calls[s].page, {s}) /\ {calls[s].tab} \in SUBSET Tabs
    BY <1>2, <2>3 DEF ReceivePage
  <2> QED
    BY <2>4, <2>5, ShowLoads
<1>3. ASSUME NEW s \in Slots, ReceiveRedirect(s) PROVE OneLoadPerTab'
  <2>1. calls[s] \in Answers /\ calls[s].says = "redirect" /\ Is(s, "answered")
    BY <1>3, AnsweredFields DEF ReceiveRedirect, IsSaid
  <2>2. calls' = [calls EXCEPT ![s] = Request(calls[s].tab, "loadAuth", NoUser, jar)]
    BY <1>3 DEF ReceiveRedirect
  <2>3. \A r \in Slots, t \in Tabs \union {NoTab} : IsLoad(r, t)' => IsLoad(r, t)
    BY <2>1, <2>2 DEF IsLoad, Is, Request, Types
  <2> QED
    BY <2>3, FewerLoads
<1>receive. ASSUME NEW s \in Slots, NEW k, Is(s, "answered"), ReceiveAnswer(s, k)
            PROVE  OneLoadPerTab'
  <2>1. calls[s] \in Answers BY <1>receive, AnsweredFields
  <2>2. CASE calls[s].tab = NoTab
    <3>1. \A r \in Slots, t \in Tabs \union {NoTab} : IsLoad(r, t)' => IsLoad(r, t)
      BY <1>receive, <2>2 DEF ReceiveAnswer, IsLoad, Is, Nothing
    <3> QED
      BY <3>1, FewerLoads
  <2>3. CASE calls[s].tab \in Tabs
    <3>1. \A r \in Slots \ {s} : calls'[r] = IF IsLoad(r, calls[s].tab) THEN Nothing ELSE calls[r]
      BY <1>receive DEF ReceiveAnswer
    <3>2. \A r \in Slots \ {s}, t \in Tabs \union {NoTab} :
             IsLoad(r, t)' => IsLoad(r, t) /\ t # calls[s].tab
      BY <3>1 DEF IsLoad, Is, Nothing
    <3>3. calls'[s].tab = calls[s].tab
      BY <1>receive, <2>3 DEF ReceiveAnswer, Request
    <3>4. \A t \in Tabs \union {NoTab} : IsLoad(s, t)' => t = calls[s].tab
      BY <3>3 DEF IsLoad
    <3> QED
      BY <2>3, <3>2, <3>4, LoadsOfOthersStay
  <2> QED
    BY <2>1, <2>2, <2>3 DEF Answers
<1>4. ASSUME NEW s \in Slots, ReceiveLogIn(s) \/ ReceiveLogOut(s) PROVE OneLoadPerTab'
  BY <1>4, <1>receive DEF ReceiveLogIn, ReceiveLogOut, IsSaid
<1>5. ASSUME NEW s \in Slots, ReceiveNo(s) PROVE OneLoadPerTab'
  <2>1. \A r \in Slots, t \in Tabs \union {NoTab} : IsLoad(r, t)' => IsLoad(r, t)
    BY <1>5 DEF ReceiveNo, IsLoad, Is, Nothing, Types
  <2> QED
    BY <2>1, FewerLoads
<1>cut. ASSUME NEW S \in SUBSET Slots, Cut(S) PROVE OneLoadPerTab'
  <2> DEFINE T == {t \in Tabs : \E s \in S : IsLoad(s, t)}
  <2>1. \A t \in T, r \in Slots \ S : ~IsLoad(r, t)
    BY DEF OneLoadPerTab
  <2>2. T \in SUBSET Tabs /\ Show(T, PageOf("blank"), S)
    BY <1>cut DEF Cut
  <2> HIDE DEF T
  <2> QED
    BY <2>1, <2>2, ShowLoads
<1>6. ASSUME NEW s \in Slots, Lose(s) PROVE OneLoadPerTab'
  <2>1. Cut({s}) /\ {s} \in SUBSET Slots BY <1>6 DEF Lose
  <2> QED
    BY <2>1, <1>cut
<1>7. ASSUME NEW t \in Tabs, Visit(t) PROVE OneLoadPerTab'
  <2>1. PICK k \in Loads : Load(t, k)
    BY <1>7 DEF Visit
  <2>2. PICK s \in Slots :
          calls' = [r \in Slots |-> IF r = s THEN Request(t, k, NoUser, jar)
                                    ELSE IF IsLoad(r, t) THEN Nothing
                                    ELSE calls[r]]
    BY <2>1 DEF Load
  <2>3. \A r \in Slots \ {s}, v \in Tabs \union {NoTab} : IsLoad(r, v)' => IsLoad(r, v) /\ v # t
    BY <2>2 DEF IsLoad, Is, Nothing
  <2>4. \A v \in Tabs \union {NoTab} : IsLoad(s, v)' => v = t
    BY <2>2 DEF IsLoad, Request
  <2> QED
    BY <2>3, <2>4, LoadsOfOthersStay
<1>call. ASSUME NEW t \in Tabs, NEW k \in Services, NEW u, Call(t, k, u) PROVE OneLoadPerTab'
  <2>1. PICK s \in Slots : calls' = [calls EXCEPT ![s] = Request(t, k, u, jar)]
    BY <1>call DEF Call
  <2>2. \A r \in Slots, v \in Tabs \union {NoTab} : IsLoad(r, v)' => IsLoad(r, v)
    BY <2>1 DEF IsLoad, Is, Request, Types, Services, Loads
  <2> QED
    BY <2>2, FewerLoads
<1>8. ASSUME NEW t \in Tabs, NEW u \in Users \union {NoUser}, ClickLogIn(t, u) PROVE OneLoadPerTab'
  BY <1>8, <1>call DEF ClickLogIn, Services
<1>9. ASSUME NEW t \in Tabs, ClickLogOut(t) PROVE OneLoadPerTab'
  BY <1>9, <1>call DEF ClickLogOut, Services
<1>10. ASSUME Restart PROVE OneLoadPerTab'
  <2>1. /\ Cut({s \in Slots : Is(s, "asked")})
        /\ {s \in Slots : Is(s, "asked")} \in SUBSET Slots
    BY <1>10 DEF Restart
  <2> QED
    BY <2>1, <1>cut
<1>11. ASSUME Move \/ Tick \/ UNCHANGED vars PROVE OneLoadPerTab'
  BY <1>11, <1>same DEF Move, Tick, vars
<1> QED
  BY <1>1, <1>2, <1>3, <1>4, <1>5, <1>6, <1>7, <1>8, <1>9, <1>10, <1>11
  DEF Next, Browser, User

\* Everything has its type and a tab waits for one page at most, always.
THEOREM SessionTypes == Spec => []TypeOK
<1>1. Init => Types /\ OneLoadPerTab
  BY InitTypes, SessionAssumption DEF Init, OneLoadPerTab, IsLoad, Is, Nothing
<1>2. Types /\ OneLoadPerTab /\ [Next]_vars => Types' /\ OneLoadPerTab'
  BY NextTypes, NextOneLoad
<1>3. Types /\ OneLoadPerTab => TypeOK
  BY DEF Types, TypeOK
<1> QED
  BY <1>1, <1>2, <1>3, PTL DEF Spec

-----------------------------------------------------------------------------
(* Pages of the game keep their users. *)

\* A cookie that a server can accept is that of a user.
Genuine(c) == c.version \in Versions => c.user \in Users

\* A page of the game was served to a user whose cookie outlasts the interval.
ServedInTime(p) ==
  p.shows = "game" => p.cookie.user \in Users /\ p.at + PreExpire <= p.cookie.until

\* What holds of each request and answer, at time n.
CallInv(c, n) ==
  /\ c.state = "asked" => Genuine(c.cookie)
  /\ c.state = "answered" => /\ Genuine(c.sets) /\ c.sets.until <= n + Duration
                             /\ ServedInTime(c.page)
                             /\ c.says = "in" => c.sets.user = c.user
                             /\ c.says = "out" => c.sets = InvalidCookie

\* The browser keeps a cookie as long as the server accepts it.
JarInv ==
  /\ Genuine(jar.cookie) /\ jar.cookie.until <= jar.dies
  /\ jar.cookie.user \in {told, NoUser}

Inv ==
  /\ Types /\ now >= 1 /\ JarInv
  /\ \A t \in Tabs : ServedInTime(page[t])
  /\ \A s \in Slots : CallInv(calls[s], now)

\* INVALID_COOKIE is accepted by no server, and is what an empty jar sends.
LEMMA InvalidIsGenuine ==
  Genuine(InvalidCookie) /\ InvalidCookie.until = 0 /\ InvalidCookie.user = NoUser
BY SessionAssumption DEF Genuine, InvalidCookie

\* Requests carry the cookie of the jar.
LEMMA RequestInv ==
  ASSUME NEW t, NEW k, NEW u, NEW j, Genuine(j.cookie), NEW n
  PROVE  CallInv(Request(t, k, u, j), n)
BY InvalidIsGenuine DEF CallInv, Request, Sent

\* Nothing and calls that go on without their page.
LEMMA OrphanInv ==
  ASSUME NEW c \in Requests \union Answers, NEW n, CallInv(c, n)
  PROVE  CallInv([c EXCEPT !.tab = NoTab], n)
BY DEF CallInv, Requests, Answers

LEMMA NothingInv == \A n : CallInv(Nothing, n)
BY DEF CallInv, Nothing

\* Init satisfies the invariant.
LEMMA InitInv == Init => Inv
<1> SUFFICES ASSUME Init PROVE Inv
    OBVIOUS
<1>1. Types BY InitTypes
<1>2. JarInv BY InvalidIsGenuine DEF Init, JarInv
<1>3. \A t \in Tabs : ServedInTime(page[t]) BY DEF Init, ServedInTime, PageOf
<1> QED
  BY <1>1, <1>2, <1>3, NothingInv DEF Init, Inv

\* Pages that show come from answers or are blank; the other calls stay.
LEMMA ShowInv ==
  ASSUME Inv, NEW T \in SUBSET Tabs, NEW p, NEW S \in SUBSET Slots,
         Show(T, p, S), ServedInTime(p), UNCHANGED <<now, jar, told>>, Types'
  PROVE  Inv'
<1>1. \A t \in Tabs : ServedInTime(page'[t])
  BY DEF Show, Inv
<1>2. ASSUME NEW r \in Slots PROVE CallInv(calls'[r], now)
  <2>1. ~Is(r, "nothing") => calls[r] \in Requests \union Answers
    BY DEF Inv, Types, Is, Nothing
  <2> QED
    BY <2>1, OrphanInv, NothingInv DEF Show, Inv
<1> QED
  BY <1>1, <1>2 DEF Inv, JarInv

\* Every step keeps the invariant.
LEMMA NextInv == Inv /\ [Next]_vars => Inv'
<1> SUFFICES ASSUME Inv, [Next]_vars PROVE Inv'
    OBVIOUS
<1> USE SessionAssumption
<1>t. Types /\ Types'
  BY NextTypes DEF Inv
<1>reply. ASSUME NEW s \in Slots, NEW w, NEW u, NEW p, NEW c, Reply(s, w, u, p, c),
                 Genuine(c), c.until <= now + Duration, ServedInTime(p),
                 w = "in" => c.user = u, w = "out" => c = InvalidCookie
          PROVE  Inv'
  <2>1. CallInv(Answer(calls[s].tab, w, u, p, c), now)
    BY <1>reply DEF CallInv, Answer
  <2>2. \A r \in Slots : CallInv(calls'[r], now)
    BY <1>reply, <2>1, <1>t DEF Reply, Inv, Types
  <2> QED
    BY <1>reply, <1>t, <2>2 DEF Reply, Inv, JarInv
<1>blank. \A k \in {"blank", "login", "logout"} : ServedInTime(PageOf(k))
  BY DEF ServedInTime, PageOf
<1>invalid. Genuine(InvalidCookie) /\ InvalidCookie.until <= now + Duration
  BY <1>t, InvalidIsGenuine DEF Types
<1>1. ASSUME NEW s \in Slots, ServeGame(s) PROVE Inv'
  <2> DEFINE p == [shows |-> "game", cookie |-> calls[s].cookie, at |-> now]
  <2>1. CASE ShouldRedirect(calls[s].cookie, calls[s].addr)
    BY <1>1, <2>1, <1>reply, <1>blank, <1>invalid DEF ServeGame
  <2>2. CASE ~ShouldRedirect(calls[s].cookie, calls[s].addr)
    <3>1. calls[s] \in Requests
      BY <1>1, <1>t, AskedFields DEF ServeGame, IsAsked
    <3>2. /\ calls[s].cookie.until \in Nat
          /\ Genuine(calls[s].cookie)
      BY <1>1, <3>1 DEF Inv, CallInv, ServeGame, IsAsked, Is, Requests, Cookies
    <3>3. now + PreExpire <= ExpirationTime(calls[s].cookie, calls[s].addr)
      BY <2>2, <3>2, <1>t DEF ShouldRedirect, ExpirationTime, Types
    <3>4. IsValid(calls[s].cookie, calls[s].addr) /\ now + PreExpire <= calls[s].cookie.until
      BY <3>2, <3>3, <1>t DEF ExpirationTime, Types, Inv
    <3>5. ServedInTime(p)
      BY <3>2, <3>4, <1>t DEF IsValid, Genuine, ServedInTime, Types
    <3>6. Reply(s, "page", NoUser, p, InvalidCookie)
      BY <1>1, <2>2 DEF ServeGame
    <3> HIDE DEF p
    <3> QED
      BY <3>5, <3>6, <1>reply, <1>invalid
  <2> QED
    BY <2>1, <2>2
<1>2. ASSUME NEW s \in Slots, ServeAuth(s) PROVE Inv'
  <2>1. \/ Reply(s, "page", NoUser, PageOf("logout"), InvalidCookie)
        \/ Reply(s, "page", NoUser, PageOf("login"), InvalidCookie)
    BY <1>2 DEF ServeAuth
  <2> QED
    BY <2>1, <1>reply, <1>blank, <1>invalid
<1>3. ASSUME NEW s \in Slots, ServeAuthenticate(s) PROVE Inv'
  <2> DEFINE u == calls[s].user
             c == AuthenticationCookie(u, calls[s].addr)
  <2>1. calls[s] \in Requests
    BY <1>3, <1>t, AskedFields DEF ServeAuthenticate, IsAsked
  <2>2. CASE u # NoUser
    <3>1. /\ Genuine(c) /\ c.until <= now + Duration /\ c.user = u
      BY <2>1, <2>2, <1>t DEF AuthenticationCookie, Genuine, Requests, Types
    <3>2. Reply(s, "in", u, PageOf("blank"), c)
      BY <1>3, <2>2 DEF ServeAuthenticate
    <3> HIDE DEF u, c
    <3> QED
      BY <3>1, <3>2, <1>reply, <1>blank
  <2>3. CASE u = NoUser
    <3>1. Reply(s, "no", u, PageOf("blank"), InvalidCookie)
      BY <1>3, <2>3 DEF ServeAuthenticate
    <3> HIDE DEF u
    <3> QED
      BY <3>1, <1>reply, <1>blank, <1>invalid
  <2> QED
    BY <2>2, <2>3
<1>4. ASSUME NEW s \in Slots, ServeLogout(s) PROVE Inv'
  BY <1>4, <1>reply, <1>blank, <1>invalid DEF ServeLogout
<1>5. ASSUME NEW s \in Slots, ReceivePage(s) PROVE Inv'
  <2>1. calls[s].state = "answered" BY <1>5 DEF ReceivePage, IsSaid, Is
  <2>2. ServedInTime(calls[s].page)
    BY <2>1 DEF Inv, CallInv
  <2>3. \A r \in Slots : CallInv(calls'[r], now)
    <3>1. \A r \in Slots : ~Is(r, "nothing") => calls[r] \in Requests \union Answers
      BY <1>t DEF Types, Is, Nothing
    <3> QED
      BY <1>5, <3>1, OrphanInv, NothingInv DEF ReceivePage, Show, Inv
  <2>4. \A t \in Tabs : ServedInTime(page'[t])
    BY <1>5, <2>2 DEF ReceivePage, Show, Inv
  <2> QED
    BY <1>5, <1>t, <2>3, <2>4 DEF ReceivePage, Inv, JarInv
<1>6. ASSUME NEW s \in Slots, ReceiveRedirect(s) PROVE Inv'
  <2>1. CallInv(Request(calls[s].tab, "loadAuth", NoUser, jar), now)
    BY RequestInv DEF Inv, JarInv
  <2>2. \A r \in Slots : CallInv(calls'[r], now)
    BY <1>6, <1>t, <2>1 DEF ReceiveRedirect, Inv, Types
  <2> QED
    BY <1>6, <1>t, <2>2 DEF ReceiveRedirect, Inv, JarInv
<1>receive. ASSUME NEW s \in Slots, NEW k, ReceiveAnswer(s, k), JarInv'
            PROVE  Inv'
  <2>1. Genuine(JarAfter(s).cookie)
    BY <1>receive DEF JarInv, ReceiveAnswer
  <2>2. CallInv(Request(calls[s].tab, k, NoUser, JarAfter(s)), now)
    BY <2>1, RequestInv
  <2>3. \A r \in Slots : CallInv(calls'[r], now)
    BY <1>receive, <2>2, NothingInv DEF ReceiveAnswer, Inv
  <2> QED
    BY <1>receive, <1>t, <2>3 DEF ReceiveAnswer, Inv
<1>7. ASSUME NEW s \in Slots, ReceiveLogIn(s) PROVE Inv'
  <2>1. calls[s].state = "answered" /\ calls[s].says = "in"
    BY <1>7 DEF ReceiveLogIn, IsSaid, Is
  <2>2. jar' = [cookie |-> calls[s].sets, dies |-> now + Duration] /\ told' = calls[s].user
    BY <1>7, <2>1 DEF ReceiveLogIn, ReceiveAnswer, JarAfter, SetsCookie
  <2>3. JarInv'
    BY <2>1, <2>2 DEF Inv, CallInv, JarInv, Genuine
  <2> QED
    BY <1>7, <2>3, <1>receive DEF ReceiveLogIn
<1>8. ASSUME NEW s \in Slots, ReceiveLogOut(s) PROVE Inv'
  <2>1. calls[s].state = "answered" /\ calls[s].says = "out"
    BY <1>8 DEF ReceiveLogOut, IsSaid, Is
  <2>2. jar' = [cookie |-> calls[s].sets, dies |-> now + Duration]
    BY <1>8, <2>1 DEF ReceiveLogOut, ReceiveAnswer, JarAfter, SetsCookie
  <2>3. JarInv'
    BY <2>1, <2>2, InvalidIsGenuine DEF Inv, CallInv, JarInv, Genuine
  <2> QED
    BY <1>8, <2>3, <1>receive DEF ReceiveLogOut
<1>9. ASSUME NEW s \in Slots, ReceiveNo(s) PROVE Inv'
  <2>1. \A r \in Slots : CallInv(calls'[r], now)
    BY <1>9, <1>t, NothingInv DEF ReceiveNo, Inv, Types
  <2> QED
    BY <1>9, <1>t, <2>1 DEF ReceiveNo, Inv, JarInv
<1>10. ASSUME NEW s \in Slots, Lose(s) PROVE Inv'
  <2>1. Cut({s}) /\ {s} \in SUBSET Slots /\ UNCHANGED <<now, jar, told>>
    BY <1>10 DEF Lose
  <2> QED
    BY <2>1, <1>t, <1>blank, ShowInv DEF Cut
<1>11. ASSUME NEW t \in Tabs, Visit(t) PROVE Inv'
  <2>1. PICK k \in Loads : Load(t, k)
    BY <1>11 DEF Visit
  <2>2. CallInv(Request(t, k, NoUser, jar), now)
    BY RequestInv DEF Inv, JarInv
  <2>3. \A r \in Slots : CallInv(calls'[r], now)
    BY <2>1, <2>2, NothingInv DEF Load, Inv
  <2> QED
    BY <1>11, <1>t, <2>3 DEF Visit, Inv, JarInv
<1>call. ASSUME NEW t, NEW k, NEW u, Call(t, k, u) PROVE Inv'
  <2>1. CallInv(Request(t, k, u, jar), now)
    BY RequestInv DEF Inv, JarInv
  <2>2. \A r \in Slots : CallInv(calls'[r], now)
    BY <1>call, <1>t, <2>1 DEF Call, Inv, Types
  <2> QED
    BY <1>call, <1>t, <2>2 DEF Call, Inv, JarInv
<1>12. ASSUME NEW t \in Tabs, NEW u \in Users \union {NoUser}, ClickLogIn(t, u) PROVE Inv'
  BY <1>12, <1>call DEF ClickLogIn
<1>13. ASSUME NEW t \in Tabs, ClickLogOut(t) PROVE Inv'
  BY <1>13, <1>call DEF ClickLogOut
<1>14. ASSUME Restart PROVE Inv'
  <2>1. /\ Cut({s \in Slots : Is(s, "asked")})
        /\ {s \in Slots : Is(s, "asked")} \in SUBSET Slots
        /\ UNCHANGED <<now, jar, told>>
    BY <1>14 DEF Restart
  <2> QED
    BY <2>1, <1>t, <1>blank, ShowInv DEF Cut
<1>15. ASSUME Tick PROVE Inv'
  <2>1. ASSUME NEW r \in Slots PROVE CallInv(calls[r], now + 1)
    <3>1. calls[r].state = "answered" => calls[r].sets.until \in Nat
      BY <1>t, AnsweredFields DEF Is, Answers, Cookies
    <3> QED
      BY <1>t, <3>1 DEF Inv, CallInv, Types
  <2> QED
    BY <1>15, <1>t, <2>1 DEF Tick, Inv, JarInv, Types
<1>16. ASSUME Move \/ UNCHANGED vars PROVE Inv'
  BY <1>16, <1>t DEF Move, vars, Inv, JarInv
<1> QED
  BY <1>1, <1>2, <1>3, <1>4, <1>5, <1>6, <1>7, <1>8, <1>9, <1>10, <1>11, <1>12, <1>13,
     <1>14, <1>15, <1>16 DEF Next, Server, Browser, User

\* Within the interval of redirections a page of the game does not lose its
\* user: LogInFilter let it pass with a cookie that lasts longer, and the
\* browser keeps the cookie as long as the server accepts it.
THEOREM PagesStayLoggedIn == Spec => []StaysLoggedIn
<1>1. Inv => StaysLoggedIn
  <2> SUFFICES ASSUME Inv, NEW t \in Tabs, page[t].shows = "game",
                      page[t].cookie = jar.cookie, page[t].cookie.addr = address,
                      page[t].cookie.version = version, now < page[t].at + PreExpire
               PROVE  CurrentUser = page[t].cookie.user /\ CurrentUser # NoUser
      BY DEF StaysLoggedIn
  <2>1. /\ page[t].at \in Nat /\ now \in Nat /\ page[t].cookie.until \in Nat
        /\ jar.dies \in Nat /\ PreExpire \in Nat
    BY SessionAssumption DEF Inv, Types, Pages, Cookies
  <2>2. now < page[t].cookie.until /\ page[t].cookie.user \in Users
    BY <2>1 DEF Inv, ServedInTime
  <2>3. now < jar.dies
    BY <2>1, <2>2 DEF Inv, JarInv
  <2> QED
    BY <2>2, <2>3, SessionAssumption DEF CurrentUser, UserId, IsValid, Sent
<1> QED
  BY InitInv, NextInv, <1>1, PTL DEF Spec

\* The browser is logged in as the user whose log in it heard of last, or not.
THEOREM HeardLastHolds == Spec => []HeardLast
<1>1. Inv => HeardLast
  BY InvalidIsGenuine DEF Inv, JarInv, HeardLast, CurrentUser, UserId, Sent
<1> QED
  BY InitInv, NextInv, <1>1, PTL DEF Spec

=============================================================================
