---------------------------- MODULE SessionPages ----------------------------
(***************************************************************************)
(* The session query of the web client and the pages that read and write   *)
(* it: the gate of AppShell (web/src/App.tsx), LoginPage, RedeemInvitePage, *)
(* the sign-out of ShellLayout and the two forms of SettingsPage.          *)
(*                                                                         *)
(* Five kinds of request write the query's data when they land: its own    *)
(* fetch, a saved name or picture, a sign-in and a sign-out.  Their answers *)
(* are snapshots of the server, and nothing orders them.  A session is the *)
(* number of the sign-in that made it; of the account, the name and the    *)
(* picture count how often they were changed.                              *)
(*                                                                         *)
(* A save, a sign-in or a sign-out belongs to the page that sent it, which *)
(* waits for it with its button disabled; a page that is left and opened   *)
(* again is another one, and may send its own while the first is still in  *)
(* flight.  Only the sign-out, which disconnects the voice before it sends, *)
(* can be pressed again before.                                            *)
(*                                                                         *)
(* External: React Query, as in Realtime; setQueryData leaves a fetch in   *)
(* flight alone.  The socket is taken to be open while somebody is signed  *)
(* in; Realtime has it reconnect.  Another tab of the browser shares the   *)
(* cookie, and another device the account.                                 *)
(***************************************************************************)
EXTENDS Naturals, FiniteSets

CONSTANTS
  SignIns,       \* the pages that sign in, of "login" and "redeem"
  MaxSessions,   \* bound: sign-ins served
  MaxChanges,    \* bound: changes of the account
  MaxRequests,   \* bound: requests in flight when another is sent, fetches of
                 \* the session excepted
  MaxFaults      \* bound: session fetches that fail, answers to sign-ins and
                 \* sign-outs that are lost, and sign-outs in another tab, together

ASSUME BoundAssumption ==
  /\ SignIns \subseteq {"login", "redeem"}
  /\ MaxSessions \in Nat \ {0} /\ MaxRequests \in Nat \ {0}
  /\ {MaxChanges, MaxFaults} \subseteq Nat

VARIABLES
  cookie,    \* external: the session of the browser's cookie, 0 for none
  sessions,  \* how many there have been
  account,   \* external: the name and picture on the server
  loaded,    \* the session query is no longer loading
  session,   \* its data
  fetch,     \* the fetch of the session query
  request,   \* the other requests in flight, in slots, as they were sent
  news,      \* a profile.updated event is on its way
  home,      \* the session whose home view is cached, 0 for none
  homeFetch, \* the fetch of the home view
  page,
  form,      \* the fields of SettingsPage
  crossed,   \* history: the session in the data changed while something else
             \* was in flight, the answer to a sign-in or sign-out was lost,
             \* or another tab signed out
  outdated,  \* history: the answer to a save was older than the data, or a
             \* change was made while no socket was open
  faults

serverVars == <<cookie, sessions, account>>
dataVars == <<loaded, session>>
homeVars == <<home, homeFetch>>
pageVars == <<page, form>>
historyVars == <<crossed, outdated, faults>>
vars == <<serverVars, dataVars, fetch, request, news, homeVars, pageVars, historyVars>>

----------------------------------------------------------------------------
(* State *)

Fields == {"name", "picture"}
Kinds == {"logout"} \union Fields \union SignIns

Slots == 1..MaxRequests

Account == [Fields -> 0..MaxChanges]

(* The session data: who is signed in, as a snapshot of the account. *)
View == [session : 0..MaxSessions, account : Account]

Fresh == [f \in Fields |-> 0]

Nobody == [session |-> 0, account |-> Fresh]

States == {"none", "asked", "served"}

FetchType == [pc : States, view : View]

(* gone: the page that sent it is. *)
RequestType == [kind : Kinds \union {"none"}, pc : States, view : View, gone : BOOLEAN]

HomeFetchType == [pc : States, session : 0..MaxSessions]

NoFetch == [pc |-> "none", view |-> Nobody]

NoRequest == [kind |-> "none", pc |-> "none", view |-> Nobody, gone |-> FALSE]

NoHomeFetch == [pc |-> "none", session |-> 0]

Asks == [NoFetch EXCEPT !.pc = "asked"]

InFlight(s) == request[s] # NoRequest

(* What is left without that of slot s. *)
Without(s) ==
  [r \in Slots |-> IF r < s THEN request[r]
                   ELSE IF r < MaxRequests THEN request[r + 1] ELSE NoRequest]

(* Bound: fewer requests than MaxRequests are in flight. *)
Room ==
  Cardinality({s \in Slots : InFlight(s)}) + (IF fetch = NoFetch THEN 0 ELSE 1)
    + (IF homeFetch = NoHomeFetch THEN 0 ELSE 1) < MaxRequests

Fault == faults < MaxFaults /\ faults' = faults + 1

(* A request of the page on show, or of the shell. *)
Waits(s, k) == request[s].kind = k /\ ~request[s].gone

(* What a field of the form holds that the user edited and did not save. *)
Edited == MaxChanges + 1

SignedIn == session.session > 0

Init ==
  /\ cookie \in {0, 1} /\ sessions = cookie
  /\ account = Fresh
  /\ loaded = FALSE /\ session = Nobody
  /\ fetch = Asks
  /\ request = [s \in Slots |-> NoRequest]
  /\ news = FALSE
  /\ home = 0 /\ homeFetch = NoHomeFetch
  /\ page = "login"
  /\ form = Fresh
  /\ crossed = FALSE /\ outdated = FALSE /\ faults = 0

(* Faulty variant: the gate looks at the path alone. *)
RouteAsAsked(p, view) == p

(* The routes of AppShell: each half of them sends the paths of the other  *)
(* one to its own start page.                                              *)
Route(p, view) ==
  IF view.session = 0
    THEN IF p \in {"login", "redeem"} THEN p ELSE "login"
    ELSE IF p \in {"login", "redeem"} THEN "home" ELSE p

(* The kinds of request that page p, or its shell, waits for. *)
PageKinds(p) ==
  CASE p = "settings" -> {"logout"} \union Fields
    [] p = "home"     -> {"logout"}
    [] OTHER          -> {p}

(* The page on show is p; the fields are there on the settings page only,  *)
(* and a page that is left leaves its requests on their way.               *)
GoTo(p, fields, requests) ==
  /\ page' = p
  /\ form' = IF p = "settings" THEN fields ELSE Fresh
  /\ request' = [s \in Slots |->
       [requests[s] EXCEPT !.gone = @ \/ requests[s].kind \notin PageKinds(p) \union {"none"}]]

----------------------------------------------------------------------------
(* What the user does *)

Send(k) ==
  /\ Room
  /\ k # "logout" => \A s \in Slots : ~Waits(s, k)
  /\ \E s \in Slots :
       /\ ~InFlight(s) /\ \A r \in Slots : r < s => InFlight(r)
       /\ request' = [request EXCEPT ![s] = [NoRequest EXCEPT !.kind = k, !.pc = "asked"]]
  /\ UNCHANGED <<serverVars, dataVars, fetch, news, homeVars, pageVars, historyVars>>

SignInPressed(k) == loaded /\ page = k /\ Send(k)

(* handleSignOut, past disconnectVoice *)
SignOutPressed == loaded /\ SignedIn /\ Send("logout")

(* Save, or Remove for a picture; at first there is none. *)
SavePressed(f) ==
  /\ loaded /\ page = "settings"
  /\ form[f] = Edited \/ (f = "picture" /\ session.account[f] > 0)
  /\ Send(f)

Edits(f) ==
  /\ loaded /\ page = "settings" /\ form[f] # Edited
  /\ form' = [form EXCEPT ![f] = Edited]
  /\ UNCHANGED <<serverVars, dataVars, fetch, request, news, homeVars, page, historyVars>>

(* A link, or the address bar. *)
Opens(p) ==
  /\ loaded /\ Route(p, session) # page
  /\ GoTo(Route(p, session), session.account, request)
  /\ UNCHANGED <<serverVars, dataVars, fetch, news, homeVars, historyVars>>

----------------------------------------------------------------------------
(* The server *)

Asked(s, k) == request[s].kind = k /\ request[s].pc = "asked"

Serve(s, view) == request' = [request EXCEPT ![s].pc = "served", ![s].view = view]

(* A change of the account is broadcast to the sockets there are. *)
ChangeAccount(f) ==
  /\ account[f] < MaxChanges
  /\ account' = [account EXCEPT ![f] = @ + 1]
  /\ news' = SignedIn
  /\ outdated' = (outdated \/ ~SignedIn)

(* GET /auth/me *)
FetchServed ==
  /\ fetch.pc = "asked"
  /\ fetch' = [pc |-> "served",
               view |-> IF cookie = 0 THEN Nobody ELSE [session |-> cookie, account |-> account]]
  /\ UNCHANGED <<serverVars, dataVars, request, news, homeVars, pageVars, historyVars>>

SaveServed(s, f) ==
  /\ Asked(s, f) /\ cookie > 0
  /\ ChangeAccount(f)
  /\ Serve(s, [session |-> cookie, account |-> account'])
  /\ UNCHANGED <<cookie, sessions, dataVars, fetch, homeVars, pageVars, crossed, faults>>

SignInServed(s, k) ==
  /\ Asked(s, k) /\ sessions < MaxSessions
  /\ sessions' = sessions + 1 /\ cookie' = sessions'
  /\ Serve(s, [session |-> cookie', account |-> account])
  /\ UNCHANGED <<account, dataVars, fetch, news, homeVars, pageVars, historyVars>>

SignOutServed(s) ==
  /\ Asked(s, "logout")
  /\ cookie' = 0
  /\ Serve(s, Nobody)
  /\ UNCHANGED <<sessions, account, dataVars, fetch, news, homeVars, pageVars, historyVars>>

(* Another tab of this browser signs out. *)
SignedOutElsewhere ==
  /\ cookie > 0 /\ Fault
  /\ cookie' = 0
  /\ crossed' = TRUE
  /\ UNCHANGED <<sessions, account, dataVars, fetch, request, news, homeVars, pageVars, outdated>>

(* Another device changes the account. *)
ChangedElsewhere(f) ==
  /\ ChangeAccount(f)
  /\ UNCHANGED <<cookie, sessions, dataVars, fetch, request, homeVars, pageVars, crossed, faults>>

(* Somebody else's profile changes. *)
OthersChange ==
  /\ SignedIn /\ ~news
  /\ news' = TRUE
  /\ UNCHANGED <<serverVars, dataVars, fetch, request, homeVars, pageVars, historyVars>>

----------------------------------------------------------------------------
(* What the tab does with answers and events *)

(* Faulty variant: an event during a fetch does not have it made again. *)
HearsOnce ==
  /\ SignedIn /\ news
  /\ news' = FALSE
  /\ fetch' = IF fetch # NoFetch THEN fetch ELSE Asks
  /\ UNCHANGED <<serverVars, dataVars, request, homeVars, pageVars, historyVars>>

(* A profile.updated event has the session fetched, again if need be. *)
Hears ==
  /\ SignedIn /\ news
  /\ news' = FALSE
  /\ fetch' = Asks
  /\ UNCHANGED <<serverVars, dataVars, request, homeVars, pageVars, historyVars>>

(* Faulty variant: the sign-out leaves the session data to the next fetch. *)
LandedDataKept(s) == IF request[s].kind = "logout" THEN session ELSE request[s].view

(* What the answer to a request makes of the session data. *)
LandedData(s) == request[s].view

(* Faulty variant: the sign-out empties the home view and leaves its fetch *)
(* in flight alone.                                                        *)
HomeEmptied == home' = 0 /\ UNCHANGED homeFetch

(* The sign-out removes the cached home view, and with it the fetch.       *)
HomeRemoved == home' = 0 /\ homeFetch' = NoHomeFetch

(* The page after an answer: sign-ins go to the start page, the sign-out   *)
(* to the login page.                                                      *)
LandedPage(s) ==
  CASE request[s].kind \in SignIns -> "home"
    [] request[s].kind = "logout"  -> "login"
    [] OTHER                       -> page

(* Faulty variant: the effect of SettingsPage looks at the name alone. *)
EffectRunsForName(view) == view.account["name"] # session.account["name"]

(* Faulty variant: an effect without dependencies. *)
EffectRunsAlways(view) == TRUE

(* The effect of SettingsPage runs when either field changed in the data. *)
EffectRuns(view) == view.account # session.account

(* The fields when the answer to a request is there: a save sets its field, *)
(* if its page is still on show.                                           *)
LandedForm(s) ==
  IF request[s].kind \in Fields /\ ~request[s].gone
    THEN [form EXCEPT ![request[s].kind] = LandedData(s).account[request[s].kind]]
    ELSE form

(* The session data become `view` and the page is p, unless the gate has   *)
(* another; both fields follow when the effect of SettingsPage runs.       *)
Becomes(view, p, fields, requests) ==
  /\ session' = view /\ loaded' = TRUE
  /\ GoTo(Route(p, view), IF EffectRuns(view) THEN view.account ELSE fields, requests)
  /\ news' = (news /\ view.session > 0)
  /\ crossed' = \/ crossed
                \/ /\ view.session # session.session
                   /\ fetch' # NoFetch \/ \E s \in Slots : requests[s] # NoRequest
  /\ UNCHANGED <<serverVars, faults>>

FetchLands ==
  /\ fetch.pc = "served"
  /\ fetch' = NoFetch
  /\ Becomes(fetch.view, page, form, request)
  /\ UNCHANGED <<homeVars, outdated>>

(* Also when the page that sent the request is gone. *)
Lands(s) ==
  /\ request[s].pc = "served"
  /\ UNCHANGED fetch
  /\ Becomes(LandedData(s), LandedPage(s), LandedForm(s), Without(s))
  /\ IF request[s].kind = "logout" THEN HomeRemoved ELSE UNCHANGED homeVars
  /\ outdated' = \/ outdated
                 \/ /\ request[s].kind \in Fields
                    /\ \E f \in Fields : LandedData(s).account[f] < session.account[f]

(* A request is refused or lost: a form says so. *)
Fails(s) ==
  /\ InFlight(s)
  /\ request' = Without(s)
  /\ IF request[s].kind \notin Fields /\ request[s].pc = "served" THEN Fault /\ crossed' = TRUE
                                                               ELSE UNCHANGED <<crossed, faults>>
  /\ UNCHANGED <<serverVars, dataVars, fetch, news, homeVars, pageVars, outdated>>

(* A fetch that is refused or lost leaves the data there is. *)
FetchFails ==
  /\ fetch # NoFetch /\ Fault
  /\ fetch' = NoFetch /\ loaded' = TRUE
  /\ UNCHANGED <<serverVars, session, request, news, homeVars, pageVars, crossed, outdated>>

(* The shell is on show and has its home view fetched, again and again; a  *)
(* fetch in flight is cancelled for it, but not the first.                 *)
HomeAsked ==
  /\ loaded /\ SignedIn
  /\ IF homeFetch.pc = "none" THEN Room ELSE home > 0
  /\ homeFetch' = [NoHomeFetch EXCEPT !.pc = "asked"]
  /\ UNCHANGED <<serverVars, dataVars, fetch, request, news, home, pageVars, historyVars>>

(* GET /home *)
HomeServed ==
  /\ homeFetch.pc = "asked" /\ cookie > 0
  /\ homeFetch' = [pc |-> "served", session |-> cookie]
  /\ UNCHANGED <<serverVars, dataVars, fetch, request, news, home, pageVars, historyVars>>

(* It lands, whoever is signed in by then, or fails. *)
HomeLands ==
  /\ homeFetch.pc # "none"
  /\ home' \in {home} \union (IF homeFetch.pc = "served" THEN {homeFetch.session} ELSE {})
  /\ homeFetch' = NoHomeFetch
  /\ UNCHANGED <<serverVars, dataVars, fetch, request, news, pageVars, historyVars>>

----------------------------------------------------------------------------
Next ==
  \/ SignOutPressed \/ SignedOutElsewhere \/ OthersChange
  \/ FetchServed \/ FetchLands \/ FetchFails \/ Hears
  \/ HomeAsked \/ HomeServed \/ HomeLands
  \/ \E k \in SignIns : SignInPressed(k)
  \/ \E f \in Fields : SavePressed(f) \/ Edits(f) \/ ChangedElsewhere(f)
  \/ \E p \in {"login", "redeem", "home", "settings"} : Opens(p)
  \/ \E s \in Slots :
       \/ SignOutServed(s) \/ Lands(s) \/ Fails(s)
       \/ \E k \in SignIns : SignInServed(s, k)
       \/ \E f \in Fields : SaveServed(s, f)

Spec == Init /\ [][Next]_vars

(* Events are delivered and session fetches answered. *)
Fairness == WF_vars(Hears) /\ WF_vars(FetchServed) /\ WF_vars(FetchLands)

FairSpec == Spec /\ Fairness

----------------------------------------------------------------------------
(* Properties *)

(* Every variable has its type, and the page on show is one of the half of *)
(* the routes that the session data selects.                               *)
TypeOK ==
  /\ cookie \in 0..sessions /\ sessions \in 0..MaxSessions
  /\ account \in Account
  /\ loaded \in BOOLEAN /\ news \in BOOLEAN
  /\ session \in View
  /\ fetch \in FetchType /\ request \in [Slots -> RequestType]
  /\ home \in 0..MaxSessions /\ homeFetch \in HomeFetchType
  /\ page \in {"login", "redeem", "home", "settings"}
  /\ SignedIn <=> page \in {"home", "settings"}
  /\ form \in [Fields -> 0..Edited]
  /\ crossed \in BOOLEAN /\ outdated \in BOOLEAN
  /\ faults \in 0..MaxFaults

(* The shell is on show for the session the browser's cookie holds, unless *)
(* a sign-in or sign-out is under way.  A fetch or a save in flight across *)
(* one may bring back the data of the session before (crossed).            *)
SessionHasCookie ==
  SignedIn /\ ~crossed /\ (\A s \in Slots : request[s].kind \notin SignIns \union {"logout"})
  => session.session = cookie

(* Nobody is shown the home view of the session before: it goes with the   *)
(* sign-out, and so does its fetch, whatever fetches are answered around   *)
(* it.  Fetches of the home view do not count as crossing.                 *)
HomeIsOwn == SignedIn /\ ~crossed => home \in {0, session.session}

(* A field that was not edited shows what the session data say, whichever  *)
(* way they came: a save of this field or the other, a fetch, a sign-in,   *)
(* or the visit of the page.                                               *)
FormFollows ==
  page = "settings" => \A f \in Fields : form[f] \in {session.account[f], Edited}

(* An edit is lost only when a save that this page sent is answered, the   *)
(* page is left, or the name or picture in the session data changed, which *)
(* takes the edits of both with it; not by fetches that bring the same     *)
(* again, as every profile change of somebody else does, and not by the    *)
(* answer to a save of a page that is gone.                                *)
EditKept ==
  [][ \A f \in Fields :
        form[f] = Edited /\ form'[f] # Edited
        => \/ page' # "settings"
           \/ \E s \in Slots : Waits(s, f) /\ Lands(s)
           \/ session'.account # session.account ]_vars

(* When profile events have ended (each has the fetch made again), the     *)
(* session data are level with the account, unless a fetch failed, a change *)
(* was made while no socket was open, the answer to a save landed on newer *)
(* data (outdated), or something crossed a sign-out.                       *)
SessionConverges ==
  <>[]~news
  => <>[](SignedIn => session.account = account \/ crossed \/ outdated \/ faults > 0)
=============================================================================
