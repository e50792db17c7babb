------------------------------ MODULE Realtime ------------------------------
(***************************************************************************)
(* How what a tab shows follows the server: the event channel              *)
(* (src/src/state.rs, routes/realtime.rs), the socket that reconnects      *)
(* (web/src/hooks/useRealtime.ts), the queries it invalidates, and the     *)
(* optimistic updates of web/src/lib/home-state.ts.                        *)
(*                                                                         *)
(* What is stored is abstracted to a version per item, from 1, one more    *)
(* with every change.  A version in the cache is behind, or level with,    *)
(* the one on the server; 0 is a query that has no data yet.  The messages *)
(* are those of one party, the one whose messages change.  What Parties    *)
(* shows is assumed here: every change is followed by its broadcast.  The  *)
(* session query, which the tab also writes itself, is in SessionPages.    *)
(*                                                                         *)
(* External: React Query.  Invalidating a query that is shown starts a     *)
(* fetch.  One in flight is dropped for it when the query has data; a      *)
(* first load goes on instead, and its landing takes the invalidation off. *)
(***************************************************************************)
EXTENDS Naturals, Sequences, FiniteSets

CONSTANTS
  Kinds,       \* the kinds of change others make: other users, other tabs of
               \* this user, and the server when her last socket has closed
  OwnKinds,    \* the kinds of change this tab makes
  Writers,     \* slots for a handler that serves others
  Capacity,    \* events the channel keeps for a slow subscriber
  MaxWrites,   \* bound: changes
  MaxDrops,    \* bound: connections lost
  MaxFaults    \* bound: fetches that fail

ASSUME KindAssumption ==
  /\ Kinds \subseteq {"join", "leave", "party", "message", "profile", "invite"}
  /\ OwnKinds \subseteq {"join", "leave", "party", "message", "profile", "picture", "invite"}
ASSUME BoundAssumption ==
  Capacity \in Nat \ {0} /\ {MaxWrites, MaxDrops, MaxFaults} \subseteq Nat

VARIABLES
  stored,   \* stored[i]: the version of item i on the server
  writer,   \* writer[w]: the kind of change slot w made and has to announce
  own,      \* the request of this tab in flight
  link,     \* the tab's socket: "down", "subscribed", "up"
  pipe,     \* the events its subscription holds
  cache,    \* cache[i]: the version the tab shows
  fetch,    \* fetch[q]: the fetch of query q in flight; "closed" until a page
            \* has shown q
  missed,   \* history: an event was broadcast that the tab will not get
  swallowed, \* history: the queries invalidated in a first load that the
            \* server had already answered, and not fetched since
  drops, faults

serverVars == <<stored, writer>>
linkVars == <<link, pipe, missed, drops>>
viewVars == <<cache, fetch, swallowed, faults>>
vars == <<stored, writer, own, link, pipe, cache, fetch, missed, swallowed, drops, faults>>

----------------------------------------------------------------------------
(* Items and queries *)

(* own: the active party of the tab's user; roster: the rest of the home   *)
(* view                                                                    *)
Items == {"own", "roster", "messages", "invites"}

Queries == {"home", "messages", "invites"}

ItemsOf(q) == IF q = "home" THEN {"own", "roster"} ELSE {q}

AllKinds == {"join", "leave", "party", "message", "profile", "picture", "invite"}

(* What a change of a kind is a change of.  The home view has the last     *)
(* message of a party, and names and pictures are everywhere.              *)
Touches(kind) ==
  CASE kind \in {"join", "leave"} -> {"own", "roster"}
    [] kind = "party"  -> {"roster"}
    [] kind \in {"message", "profile", "picture"} -> {"messages", "roster"}
    [] kind = "invite" -> {"invites"}


(* The queries that onmessage of useRealtime invalidates for an event.     *)
StaleAfter(kind) ==
  CASE kind \in {"join", "leave", "party"} -> {"home"}
    [] kind \in {"message", "profile", "picture"} -> {"messages", "home"}
    [] kind = "invite" -> {"invites"}

(* Faulty variant: the answer to a post is written into the messages. *)
PatchedMessages(kind) ==
  CASE kind \in {"join", "leave"} -> {"own"}
    [] kind = "message" -> {"messages"}
    [] OTHER -> {}

(* What the tab writes into the home view when its request is answered:    *)
(* applyJoinedParty and applyLeftParty move the user, in her entry of the  *)
(* roster and between the parties listed.                                  *)
Patched(kind) == IF kind \in {"join", "leave"} THEN {"own"} ELSE {}

(* The queries it invalidates then, besides what the event will.           *)
StaleAfterOwn(kind) ==
  CASE kind \in {"join", "leave", "party", "profile"} -> {"home"}
    [] kind \in {"message", "picture"} -> {"messages", "home"}
    [] kind = "invite" -> {"invites"}

(* What the server has of the items in is. *)
Seen(is) == [i \in Items |-> IF i \in is THEN stored[i] ELSE 0]

NotOpened == [pc |-> "closed", seen |-> [i \in Items |-> 0]]

NoFetch == [pc |-> "idle", seen |-> [i \in Items |-> 0]]

Asked == [pc |-> "asked", seen |-> [i \in Items |-> 0]]

NoRequest == [pc |-> "none", kind |-> "none", seen |-> [i \in Items |-> 0]]

(* The queries a tab may have data of when we look at it first.  One just  *)
(* opened loads the home view; a party's chat is there when that is.       *)
Shown == {{}, {"home"}, {"home", "messages"}, {"home", "invites"}}

Init ==
  /\ stored = [i \in Items |-> 1]
  /\ writer = [w \in Writers |-> "none"]
  /\ own = NoRequest
  /\ link \in {"down", "up"}
  /\ pipe = <<>>
  /\ \E shown \in Shown :
       /\ cache = [i \in Items |-> IF \E q \in shown : i \in ItemsOf(q) THEN 1 ELSE 0]
       /\ fetch = [q \in Queries |-> IF q \in shown THEN NoFetch
                                     ELSE IF q = "home" THEN Asked ELSE NotOpened]
  /\ missed = FALSE /\ swallowed = {}
  /\ drops = 0 /\ faults = 0

Change(kind) ==
  stored' = [i \in Items |-> IF i \in Touches(kind) THEN stored[i] + 1 ELSE stored[i]]

(* Faulty variant: a channel without a bound. *)
SendUnbounded(kind) ==
  /\ pipe' = IF link = "down" THEN pipe ELSE Append(pipe, kind)
  /\ missed' = (missed \/ link = "down")

(* state.events.send: a subscriber that is Capacity events behind loses    *)
(* the oldest.                                                             *)
Send(kind) ==
  /\ pipe' = IF link = "down" THEN pipe
             ELSE IF Len(pipe) < Capacity THEN Append(pipe, kind)
             ELSE Append(Tail(pipe), kind)
  /\ missed' = (missed \/ link = "down" \/ Len(pipe) = Capacity)

(* The tab shows data of query q. *)
Loaded(q) == \A i \in ItemsOf(q) : cache[i] > 0

(* The first load of q is in flight. *)
FirstLoad(q) == ~Loaded(q) /\ fetch[q].pc \in {"asked", "read"}

(* What invalidateQueries has fetched anew of qs. *)
Restarts(qs) == {q \in qs : fetch[q].pc # "closed" /\ ~FirstLoad(q)}

Invalidate(qs) ==
  /\ fetch' = [q \in Queries |-> IF q \in Restarts(qs) THEN Asked ELSE fetch[q]]
  /\ swallowed' = (swallowed \ Restarts(qs))
                    \union {q \in qs : FirstLoad(q) /\ fetch[q].pc = "read"}

Written == (stored["roster"] - 1) + (stored["invites"] - 1)

----------------------------------------------------------------------------
(* The server *)

(* A handler changes the tables, and broadcasts some awaits later.  The    *)
(* one that ends the membership of a user whose last socket closed is as   *)
(* any other.                                                              *)
Write(w, kind) ==
  /\ writer[w] = "none"
  /\ Written < MaxWrites
  /\ Change(kind)
  /\ writer' = [writer EXCEPT ![w] = kind]
  /\ UNCHANGED <<own, linkVars, viewVars>>

Announce(w) ==
  /\ writer[w] # "none"
  /\ Send(writer[w])
  /\ writer' = [writer EXCEPT ![w] = "none"]
  /\ UNCHANGED <<stored, own, link, drops, viewVars>>

(* The page that has the button for a change of a kind: the home view is   *)
(* there for its buttons, the prompt of the chat is off in its first load. *)
Offered(kind) ==
  /\ kind \in {"join", "leave", "party", "message"} => Loaded("home")
  /\ kind = "message" => fetch["messages"].pc # "closed" /\ ~FirstLoad("messages")
  /\ kind = "invite" => fetch["invites"].pc # "closed"

(* The tab's own request is served: the change, then its broadcasts.       *)
OwnWrite(kind) ==
  /\ own = NoRequest
  /\ Offered(kind)
  /\ Written < MaxWrites
  /\ Change(kind)
  /\ own' = [pc |-> "written", kind |-> kind, seen |-> Seen(Patched(kind))']
  /\ UNCHANGED <<writer, linkVars, viewVars>>

OwnAnnounce ==
  /\ own.pc = "written"
  /\ Send(own.kind)
  /\ own' = [own EXCEPT !.pc = "announced"]
  /\ UNCHANGED <<serverVars, link, drops, viewVars>>

----------------------------------------------------------------------------
(* The socket *)

(* The timer of onclose, or the first connect: handle_socket subscribes.   *)
Subscribe ==
  /\ link = "down"
  /\ link' = "subscribed"
  /\ pipe' = <<>>
  /\ UNCHANGED <<serverVars, own, missed, drops, viewVars>>

(* Faulty variant: the presence of the user is told before subscribing. *)
TellOnEarly ==
  /\ link = "subscribed"
  /\ link' = "up"
  /\ UNCHANGED <<serverVars, own, pipe, missed, drops, viewVars>>

(* handle_socket tells everybody, itself included, that the user is on,    *)
(* and enters its loop.                                                    *)
TellOn ==
  /\ link = "subscribed"
  /\ link' = "up"
  /\ Send("party")
  /\ UNCHANGED <<serverVars, own, drops, viewVars>>

(* The socket forwards the oldest event it has and onmessage handles it.   *)
Deliver ==
  /\ link = "up" /\ pipe # <<>>
  /\ pipe' = Tail(pipe)
  /\ Invalidate(StaleAfter(Head(pipe)))
  /\ UNCHANGED <<serverVars, own, link, missed, drops, cache, faults>>

Drop ==
  /\ link # "down"
  /\ drops < MaxDrops
  /\ drops' = drops + 1
  /\ link' = "down"
  /\ pipe' = <<>>
  /\ missed' = (missed \/ pipe # <<>>)
  /\ UNCHANGED <<serverVars, own, viewVars>>

----------------------------------------------------------------------------
(* The queries *)

(* The page that shows q is opened for the first time. *)
Opens(q) ==
  /\ fetch[q].pc = "closed"
  /\ q = "messages" => Loaded("home")
  /\ fetch' = [fetch EXCEPT ![q] = Asked]
  /\ UNCHANGED <<serverVars, own, linkVars, cache, swallowed, faults>>

(* The server reads the answer to a fetch. *)
FetchRead(q) ==
  /\ fetch[q].pc = "asked"
  /\ fetch' = [fetch EXCEPT ![q] = [pc |-> "read", seen |-> Seen(ItemsOf(q))]]
  /\ UNCHANGED <<serverVars, own, linkVars, cache, swallowed, faults>>

(* It arrives. *)
FetchLands(q) ==
  /\ fetch[q].pc = "read"
  /\ cache' = [i \in Items |-> IF i \in ItemsOf(q) THEN fetch[q].seen[i] ELSE cache[i]]
  /\ fetch' = [fetch EXCEPT ![q] = NoFetch]
  /\ UNCHANGED <<serverVars, own, linkVars, swallowed, faults>>

(* Queries are not retried. *)
FetchFails(q) ==
  /\ fetch[q].pc \in {"asked", "read"}
  /\ faults < MaxFaults
  /\ faults' = faults + 1
  /\ fetch' = [fetch EXCEPT ![q] = NoFetch]
  /\ UNCHANGED <<serverVars, own, linkVars, cache, swallowed>>

(* Faulty variant: the optimistic update is the only one. *)
OwnAnsweredOnce ==
  /\ own.pc = "announced"
  /\ cache' = [i \in Items |-> IF i \in Patched(own.kind) THEN own.seen[i] ELSE cache[i]]
  /\ UNCHANGED <<fetch, swallowed>>
  /\ own' = NoRequest
  /\ UNCHANGED <<serverVars, linkVars, faults>>

(* The tab's request has its answer: what it patches is updated at once,   *)
(* and the queries it makes stale are fetched.                             *)
OwnAnswered ==
  /\ own.pc = "announced"
  /\ cache' = [i \in Items |-> IF i \in Patched(own.kind) THEN own.seen[i] ELSE cache[i]]
  /\ Invalidate(StaleAfterOwn(own.kind))
  /\ own' = NoRequest
  /\ UNCHANGED <<serverVars, linkVars, faults>>

----------------------------------------------------------------------------
(* Steps that happen by themselves *)
Progress ==
  \/ OwnAnnounce \/ OwnAnswered
  \/ \E w \in Writers : Announce(w)
  \/ Subscribe \/ TellOn \/ Deliver
  \/ \E q \in Queries : FetchRead(q) \/ FetchLands(q)

Next ==
  \/ Progress
  \/ Drop
  \/ \E w \in Writers, kind \in Kinds : Write(w, kind)
  \/ \E kind \in OwnKinds : OwnWrite(kind)
  \/ \E q \in Queries : Opens(q) \/ FetchFails(q)

Spec == Init /\ [][Next]_vars

(* Handlers finish, the timer of a closed socket fires, connected sockets  *)
(* deliver, and fetches are answered, each by its own means.               *)
Fairness ==
  /\ WF_vars(OwnAnnounce) /\ WF_vars(OwnAnswered)
  /\ \A w \in Writers : WF_vars(Announce(w))
  /\ WF_vars(Subscribe) /\ WF_vars(TellOn) /\ WF_vars(Deliver)
  /\ \A q \in Queries : WF_vars(FetchRead(q)) /\ WF_vars(FetchLands(q))

FairSpec == Spec /\ Fairness

----------------------------------------------------------------------------
(* Properties *)

Versions == [Items -> 0 .. MaxWrites + 1]

(* Every variable has its type; a tab without a socket holds no events,    *)
(* and never shows, or is about to show, what the server does not have.    *)
TypeOK ==
  /\ stored \in Versions
  /\ writer \in [Writers -> AllKinds \union {"none"}]
  /\ own.pc \in {"none", "written", "announced"}
  /\ own.kind \in AllKinds \union {"none"}
  /\ own.seen \in Versions
  /\ link \in {"down", "subscribed", "up"}
  /\ pipe \in Seq(AllKinds) /\ Len(pipe) <= Capacity
  /\ link = "down" => pipe = <<>>
  /\ cache \in Versions
  /\ \A q \in Queries :
       /\ fetch[q].pc \in {"closed", "idle", "asked", "read"}
       /\ fetch[q].seen \in Versions
  /\ missed \in BOOLEAN /\ swallowed \subseteq Queries
  /\ drops \in 0 .. MaxDrops /\ faults \in 0 .. MaxFaults
  /\ \A i \in Items :
       /\ cache[i] <= stored[i] /\ own.seen[i] <= stored[i]
       /\ \A q \in Queries : fetch[q].seen[i] <= stored[i]

(* The user has been moved, by another tab of hers or by the end of her    *)
(* last socket, since the server served the move that is answered now.     *)
MovedSince ==
  /\ own.pc = "announced" /\ own' = NoRequest
  /\ own.kind \in {"join", "leave"} /\ own.seen["own"] < stored["own"]

(* The tab's own moves stick: once the home view shows that the user       *)
(* joined or left, it never again shows the party of before, whatever      *)
(* fetch was in flight when the answer or the event came.  Exception: an   *)
(* answer to a move that is over is written over what is newer.            *)
OwnMovesStick == [][cache'["own"] >= cache["own"] \/ MovedSince]_vars

(* The queries without optimistic updates, the chat and the invites, only  *)
(* move forward.                                                           *)
ViewsAdvance == [][\A i \in {"messages", "invites"} : cache'[i] >= cache[i]]_vars

Level(q) == \A i \in ItemsOf(q) : cache[i] = stored[i]

(* Once changes stop, the home view comes level with the server and stays  *)
(* so, even when events were lost to a slow or a broken connection: the    *)
(* events the channel still holds, and the one a new socket causes, have   *)
(* it fetched again.  Exceptions: a fetch that fails is not made up for,   *)
(* nor is an event that comes in the first load after the server answered  *)
(* it, when no other follows; and the events of invites, which do not      *)
(* touch the home view, may be all that is left in a channel of which they *)
(* fill the capacity.                                                      *)
HomeConverges ==
  <>[](Level("home") \/ faults > 0 \/ "home" \in swallowed \/ stored["invites"] > Capacity)

=============================================================================
