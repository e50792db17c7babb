-------------------------- MODULE PresenceActivity --------------------------
(***************************************************************************)
(* Who reads as online and who as away: the hook usePresenceActivity of    *)
(* the web client (web/src/hooks/usePresenceActivity.ts) against the       *)
(* presence entry of its user on the server.                               *)
(*                                                                         *)
(* A tab is the client of one device of the user, with a session of its    *)
(* own.  The hook runs in AppShell, which renders again on every event of  *)
(* the socket (setLastEventAt).  Its effect lists functions made by        *)
(* useEffectEvent, which are new in every render, so every event has the   *)
(* effect run again; events that arrive before it runs count once.         *)
(*                                                                         *)
(* Status posts are HTTP requests of their own: they may overtake each     *)
(* other, and may be lost.  A post's handler is one step here; Parties     *)
(* takes it apart.                                                         *)
(***************************************************************************)
EXTENDS PresenceStore, FiniteSets

CONSTANTS
  User, Tabs,
  MaxPosts,    \* bound: posts of one status a tab has in flight
  MaxFaults    \* bound: posts lost

ASSUME TabAssumption == IsFiniteSet(Tabs)
ASSUME BoundAssumption == MaxPosts \in Nat \ {0} /\ MaxFaults \in Nat

VARIABLES
  tab,     \* tab[t]: what the hook of tab t holds, and its posts in flight
  up,      \* up[t]: its socket is open
  news,    \* news[t]: an event is on its way to it
  store,   \* the presence map of the server
  faults

vars == <<tab, up, news, store, faults>>

----------------------------------------------------------------------------
(* The hook *)

(* enabled: there is a session; due: a render has the effect run again;    *)
(* listening: the effect's listeners are there; timer: idleTimerRef is     *)
(* armed; current: currentStatusRef; recent: an online post was sent less  *)
(* than ONLINE_PULSE_MS ago                                                *)
TabType ==
  [enabled : BOOLEAN, due : BOOLEAN, listening : BOOLEAN, hidden : BOOLEAN,
   timer : BOOLEAN, current : LiveStatus, recent : BOOLEAN,
   posts : [LiveStatus -> 0..MaxPosts]]

SignedOutTab(hidden) ==
  [enabled |-> FALSE, due |-> FALSE, listening |-> FALSE, hidden |-> hidden,
   timer |-> FALSE, current |-> "online", recent |-> FALSE,
   posts |-> [status \in LiveStatus |-> 0]]

(* Faulty variant: a status that did not change is never sent again. *)
PushStatusOnce(s, status, force) ==
  IF ~s.enabled \/ (~force /\ s.current = status)
    THEN s
    ELSE [s EXCEPT !.current = status,
                   !.recent = @ \/ status = "online",
                   !.posts[status] = @ + 1]

PushStatus(s, status, force) ==
  IF \/ ~s.enabled
     \/ ~force /\ s.current = status /\ (status = "online" => s.recent)
    THEN s
    ELSE [s EXCEPT !.current = status,
                   !.recent = @ \/ status = "online",
                   !.posts[status] = @ + 1]

ClearIdleTimer(s) == [s EXCEPT !.timer = FALSE]

(* Faulty variant: a hidden tab gets a timer as well. *)
ScheduleAnyIdleTimer(s) == [s EXCEPT !.timer = TRUE]

ScheduleIdleTimer(s) ==
  IF s.hidden THEN PushStatus(ClearIdleTimer(s), "away", TRUE)
              ELSE [s EXCEPT !.timer = TRUE]

HandleActivity(s) ==
  IF s.hidden THEN s ELSE PushStatus(ScheduleIdleTimer(s), "online", FALSE)

(* Faulty variant: the timer runs on in a hidden tab. *)
HandleVisibilityChangeOnly(s) ==
  IF s.hidden THEN PushStatus(s, "away", TRUE) ELSE HandleActivity(s)

HandleVisibilityChange(s) ==
  IF s.hidden THEN PushStatus(ClearIdleTimer(s), "away", TRUE) ELSE HandleActivity(s)

(* The effect, and the cleanup of its previous run. *)
RunEffect(s) ==
  LET next == [ClearIdleTimer(s) EXCEPT !.due = FALSE, !.listening = s.enabled]
  IN  IF s.enabled THEN ScheduleIdleTimer(PushStatus(next, "online", TRUE))
                   ELSE [next EXCEPT !.current = "online", !.recent = FALSE]

----------------------------------------------------------------------------
Init ==
  /\ tab \in [Tabs -> {SignedOutTab(hidden) : hidden \in BOOLEAN}]
  /\ up = [t \in Tabs |-> FALSE]
  /\ news = [t \in Tabs |-> FALSE]
  /\ store = [u \in {User} |-> NoEntry]
  /\ faults = 0

(* Tab t becomes s; it sends no more than MaxPosts at a time. *)
Becomes(t, s) ==
  /\ \A status \in LiveStatus : s.posts[status] <= MaxPosts
  /\ tab' = [tab EXCEPT ![t] = s]

(* A presence event goes to every open socket. *)
Broadcast == news' = up'

----------------------------------------------------------------------------
(* The user, timers and React *)

(* A key, a pointer, a scroll or the focus. *)
UserActs(t) ==
  /\ tab[t].listening
  /\ Becomes(t, HandleActivity(tab[t]))
  /\ UNCHANGED <<up, news, store, faults>>

VisibilityChanges(t) ==
  /\ LET s == [tab[t] EXCEPT !.hidden = ~@]
     IN  Becomes(t, IF s.listening THEN HandleVisibilityChange(s) ELSE s)
  /\ UNCHANGED <<up, news, store, faults>>

(* IDLE_TIMEOUT_MS passed since the timer was armed. *)
IdleTimerFires(t) ==
  /\ tab[t].timer
  /\ Becomes(t, PushStatus(ClearIdleTimer(tab[t]), "away", TRUE))
  /\ UNCHANGED <<up, news, store, faults>>

(* ONLINE_PULSE_MS passed since the last online post. *)
PulseElapses(t) ==
  /\ tab[t].recent
  /\ tab' = [tab EXCEPT ![t].recent = FALSE]
  /\ UNCHANGED <<up, news, store, faults>>

EffectRuns(t) ==
  /\ tab[t].due
  /\ Becomes(t, RunEffect(tab[t]))
  /\ UNCHANGED <<up, news, store, faults>>

(* Faulty variant: the effect runs again for a new session only. *)
HearsQuietly(t) ==
  /\ up[t] /\ news[t]
  /\ news' = [news EXCEPT ![t] = FALSE]
  /\ UNCHANGED <<tab, up, store, faults>>

(* onmessage: whatever the event, AppShell renders again. *)
Hears(t) ==
  /\ up[t] /\ news[t]
  /\ news' = [news EXCEPT ![t] = FALSE]
  /\ tab' = [tab EXCEPT ![t].due = TRUE]
  /\ UNCHANGED <<up, store, faults>>

(* The session is there, by a sign-in or its first load. *)
SignsIn(t) ==
  /\ ~tab[t].enabled
  /\ tab' = [tab EXCEPT ![t].enabled = TRUE, ![t].due = TRUE]
  /\ UNCHANGED <<up, news, store, faults>>

----------------------------------------------------------------------------
(* The socket and the server *)

SocketOpens(t) ==
  /\ tab[t].enabled /\ ~up[t]
  /\ up' = [up EXCEPT ![t] = TRUE]
  /\ store' = Connect(store, User)
  /\ Broadcast
  /\ UNCHANGED <<tab, faults>>

(* Faulty variant: the count of connections is kept. *)
EndsUncounted(t) ==
  IF up[t] THEN /\ up' = [up EXCEPT ![t] = FALSE]
                /\ store' = store
                /\ Broadcast
           ELSE UNCHANGED <<up, store, news>>

(* The socket of tab t ends, and the server sees it. *)
Ends(t) ==
  IF up[t] THEN /\ up' = [up EXCEPT ![t] = FALSE]
                /\ store' = Disconnect(store, User)
                /\ Broadcast
           ELSE UNCHANGED <<up, store, news>>

SocketDrops(t) ==
  /\ up[t]
  /\ Ends(t)
  /\ UNCHANGED <<tab, faults>>

(* The session is gone: useRealtime closes the socket. *)
SignsOut(t) ==
  /\ tab[t].enabled
  /\ tab' = [tab EXCEPT ![t].enabled = FALSE, ![t].due = TRUE]
  /\ Ends(t)
  /\ UNCHANGED faults

(* An event of somebody else. *)
OthersStir ==
  /\ \E t \in Tabs : up[t] /\ ~news[t]
  /\ UNCHANGED up
  /\ Broadcast
  /\ UNCHANGED <<tab, store, faults>>

(* update_status: refused without a session, ignored for a user without an *)
(* entry.                                                                  *)
PostServed(t, status) ==
  /\ tab[t].posts[status] > 0
  /\ tab' = [tab EXCEPT ![t].posts[status] = @ - 1]
  /\ UNCHANGED up
  /\ IF tab[t].enabled /\ HasEntry(store, User)
       THEN store' = SetStatus(store, User, status) /\ Broadcast
       ELSE UNCHANGED <<store, news>>
  /\ UNCHANGED faults

PostLost(t, status) ==
  /\ tab[t].posts[status] > 0
  /\ faults < MaxFaults
  /\ tab' = [tab EXCEPT ![t].posts[status] = @ - 1]
  /\ faults' = faults + 1
  /\ UNCHANGED <<up, news, store>>

Next ==
  \/ OthersStir
  \/ \E t \in Tabs :
       \/ UserActs(t) \/ VisibilityChanges(t) \/ IdleTimerFires(t) \/ PulseElapses(t)
       \/ EffectRuns(t) \/ Hears(t) \/ SignsIn(t) \/ SignsOut(t)
       \/ SocketOpens(t) \/ SocketDrops(t)
       \/ \E status \in LiveStatus : PostServed(t, status) \/ PostLost(t, status)

Spec == Init /\ [][Next]_vars

(* Effects run after their render, 20 seconds pass, the socket connects    *)
(* and delivers, and posts arrive.  The bound on posts may hold an effect  *)
(* up now and then, hence SF.                                              *)
Fairness ==
  \A t \in Tabs :
    /\ SF_vars(EffectRuns(t))
    /\ WF_vars(PulseElapses(t)) /\ WF_vars(Hears(t)) /\ WF_vars(SocketOpens(t))
    /\ \A status \in LiveStatus : WF_vars(PostServed(t, status))

FairSpec == Spec /\ Fairness

----------------------------------------------------------------------------
(* Properties *)

(* Every variable has its type, and the user's connections are her open    *)
(* sockets.                                                                *)
TypeOK ==
  /\ tab \in [Tabs -> TabType]
  /\ up \in [Tabs -> BOOLEAN] /\ news \in [Tabs -> BOOLEAN]
  /\ store \in [{User} -> EntryType({})]
  /\ HasEntry(store, User) <=> \E t \in Tabs : up[t]
  /\ faults \in 0..MaxFaults

(* What others are shown of the user. *)
Shown == Snapshot(store, User)

(* However visibility changes, renders and sign-ins follow each other, the *)
(* last thing a hidden tab told the server is that its user is away.       *)
HiddenSaysAway ==
  \A t \in Tabs :
    tab[t].enabled /\ tab[t].hidden /\ ~tab[t].due => tab[t].current = "away"

(* An idle timer is only ever running for a user who is signed in and has  *)
(* the tab before her: no sign-out, hidden tab or repeated effect leaves   *)
(* one behind that would tell a status later.                              *)
NoTimerLeft ==
  \A t \in Tabs : tab[t].timer => ~tab[t].hidden /\ (tab[t].enabled \/ tab[t].due)

(* The user has tab t before her and does not pause for long. *)
Attended(t) == tab[t].enabled /\ ~tab[t].hidden /\ (tab[t].timer \/ tab[t].due)

(* A user who keeps using a tab reads as online again and again: whatever  *)
(* her other tabs tell, whatever is overtaken, however often the socket    *)
(* drops, and although some posts are lost, since the pulse repeats them.  *)
ActiveReadsOnline ==
  \A t \in Tabs :
    (<>[]Attended(t) /\ WF_vars(UserActs(t))) => []<>(Shown = "online")

(* While no post is lost, away does not last, whatever the user does or    *)
(* leaves undone: its own broadcast comes back to the tab, has the effect  *)
(* run again, and the effect tells online.                                 *)
AwayNeverLasts == [](faults = 0) => []<>(Shown # "away")
=============================================================================
