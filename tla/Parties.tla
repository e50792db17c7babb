------------------------------ MODULE Parties ------------------------------
(***************************************************************************)
(* Party membership and presence as the server's handlers maintain them:   *)
(* src/src/routes/parties.rs, realtime.rs and presence.rs over the         *)
(* party_memberships table and the in-memory PresenceStore.                *)
(*                                                                         *)
(* Handlers of different tasks interleave at every await.  One step of     *)
(* this module is one SQL statement, one critical section of the presence  *)
(* map, or one run of broadcasts between two awaits.  touch_party, whose   *)
(* timestamp only orders the party list, is part of the step after it: it  *)
(* matters as a point where a handler can fail.  The clock is read in the  *)
(* step that writes the timestamp.                                         *)
(*                                                                         *)
(* A request task is a slot for one HTTP request in flight, a socket task  *)
(* a slot for one /events WebSocket; each carries the user whose session   *)
(* cookie came with it.  When SerialRequests holds, a user waits for the   *)
(* answer to each request before the next.  The client does not hold her   *)
(* to it: in one tab the card of the party being joined is disabled, those *)
(* of other parties are not; and she may use several tabs.                 *)
(***************************************************************************)
EXTENDS PresenceStore, FiniteSets

CONSTANTS
  Users,
  Parties,
  NoUser,      \* the user of an idle task
  Requests,    \* tasks that run HTTP handlers
  Sockets,     \* tasks that run handle_socket
  SerialRequests, \* whether a user waits for one request before the next
  VoiceLimit,  \* VOICE_LIMIT, 8 in the code
  MaxFaults,   \* bound: failed statements and dropped requests
  MaxRestarts  \* bound: restarts of the server process

Tasks == Requests \union Sockets

ASSUME TasksAssumption ==
  /\ IsFiniteSet(Users)
  /\ IsFiniteSet(Requests)
  /\ IsFiniteSet(Sockets)
  /\ Requests \intersect Sockets = {}
ASSUME NullAssumption   == NoParty \notin Parties /\ NoUser \notin Users
ASSUME SerialAssumption == SerialRequests \in BOOLEAN
ASSUME LimitAssumption   == VoiceLimit \in Nat \ {0}
ASSUME BoundsAssumption  == MaxFaults \in Nat /\ MaxRestarts \in Nat

VARIABLES
  created,     \* the parties table: the parties that exist
  rows,        \* party_memberships: the rows whose left_at is NULL
  store,       \* PresenceStore.inner
  task,        \* task[t]: where the handler of task t stands
  announced,   \* no change of the home view since the last broadcast
  faults,      \* failures so far
  restarts     \* restarts so far

vars == <<created, rows, store, task, announced, faults, restarts>>

----------------------------------------------------------------------------
(* State *)

RequestOps == {"none", "join", "leave", "create", "online", "away"}
SocketOps  == {"none", "serve", "final"}

LeaveLabels == {"close", "clear", "tellLeft", "tellOldParty"}

(* Where a handler can stand: its read, the body of                        *)
(* leave_active_party_internal, and what is its own.                       *)
Places(op) ==
  CASE op = "none"   -> {"idle"}
    [] op = "join"   -> {"read", "count"} \union LeaveLabels
                          \union {"insert", "activate", "tellJoined", "tellParty"}
    [] op = "leave"  -> {"read"} \union LeaveLabels
    [] op = "create" -> {"tellParty"}
    [] op = "serve"  -> {"tellOn", "open", "tellStill"}
    [] op = "final"  -> {"read"} \union LeaveLabels \union {"tellGone"}
    [] OTHER         -> {"get", "set", "tellStatus"}

Labels == {"idle", "read", "count", "insert", "activate", "tellJoined", "tellParty",
           "get", "set", "tellStatus", "tellOn", "open", "tellStill", "tellGone"}
            \union LeaveLabels

(* target: the party of the request's path.  prev: previous_party_id in    *)
(* join_party, and the party_id given to leave_active_party_internal.      *)
TaskType == [pc : Labels, op : RequestOps \union SocketOps,
             user : Users \union {NoUser}, target : Parties \union {NoParty}, prev : Parties \union {NoParty}]

Idle == [pc |-> "idle", op |-> "none", user |-> NoUser,
         target |-> NoParty, prev |-> NoParty]

(* An open row; at is its joined_at, which only orders the rows of a user. *)
RowType == [user : Users, party : Parties, at : Nat]

At(t, label) == task[t].pc = label

User(t) == task[t].user

Move(t, label, op, user, target, prev) ==
  task' = [task EXCEPT ![t] = [pc |-> label, op |-> op, user |-> user,
                               target |-> target, prev |-> prev]]

Goto(t, label) == task' = [task EXCEPT ![t].pc = label]

Finish(t) == task' = [task EXCEPT ![t] = Idle]

----------------------------------------------------------------------------
(* What the queries answer *)

RowsOf(u) == {m \in rows : m.user = u}

LatestRows(u) == {m \in RowsOf(u) : \A n \in RowsOf(u) : n.at <= m.at}

LatestRow(u) == CHOOSE m \in LatestRows(u) : TRUE

(* fetch_current_membership_for_user: ORDER BY joined_at DESC LIMIT 1 *)
Current(u) == IF LatestRows(u) = {} THEN NoParty ELSE LatestRow(u).party

(* Utc::now() when a row of u is written: later than u's open rows. *)
Now(u) == IF LatestRows(u) = {} THEN 1 ELSE LatestRow(u).at + 1

(* COUNT(DISTINCT user_id) *)
Members(p) == {u \in Users : \E m \in rows : m.user = u /\ m.party = p}

ActiveMemberCount(p) == Cardinality(Members(p))

(* What GET /api/parties shows of parties, memberships and presence. *)
HomeView == <<created, [u \in Users |-> Current(u)],
              [u \in Users |-> Snapshot(store, u)]>>

----------------------------------------------------------------------------
(* Every write may change what a fresh GET would show, and every broadcast *)
(* makes the clients fetch again.                                          *)

Written == announced' = (announced /\ HomeView' = HomeView)

Broadcast == announced' = TRUE

NoFailure == UNCHANGED <<faults, restarts>>

Init ==
  /\ created = {}
  /\ rows = {}
  /\ store = [u \in Users |-> NoEntry]
  /\ task = [t \in Tasks |-> Idle]
  /\ announced = TRUE
  /\ faults = 0
  /\ restarts = 0

----------------------------------------------------------------------------
(* A handler starts.  One without a valid session, or a join whose party   *)
(* does not exist, fails before it reads or writes anything below.         *)

(* The user waits; nothing in the client makes her. *)
MaySend(u) == SerialRequests => \A q \in Requests : User(q) # u

Start(r, u, op, label, target) ==
  /\ task[r] = Idle
  /\ MaySend(u)
  /\ Move(r, label, op, u, target, NoParty)
  /\ UNCHANGED <<created, rows, store, announced>>
  /\ NoFailure

StartJoin(r, u, p) == p \in created /\ Start(r, u, "join", "read", p)

StartLeave(r, u, p) == Start(r, u, "leave", "read", p)

StartStatus(r, u, status) == Start(r, u, status, "get", NoParty)

(* Faulty variant: the creator of a party is seated in it by the same      *)
(* handler, without a join.                                                *)
CreatePartySeatsCreator(r, u, p) ==
  /\ task[r] = Idle
  /\ MaySend(u)
  /\ p \notin created
  /\ created' = created \union {p}
  /\ Move(r, "insert", "create", u, p, NoParty)
  /\ UNCHANGED <<rows, store>>
  /\ NoFailure
  /\ Written

(* create_party up to its INSERT; the id is new, so p never existed. *)
CreateParty(r, u, p) ==
  /\ task[r] = Idle
  /\ MaySend(u)
  /\ p \notin created
  /\ created' = created \union {p}
  /\ Move(r, "tellParty", "create", u, NoParty, NoParty)
  /\ UNCHANGED <<rows, store>>
  /\ NoFailure
  /\ Written

----------------------------------------------------------------------------
(* join_party *)

(* Joining the party one is in answers at once. *)
JoinRead(r) ==
  /\ At(r, "read") /\ task[r].op = "join"
  /\ IF Current(User(r)) = task[r].target
       THEN Finish(r)
       ELSE Move(r, "count", "join", User(r), task[r].target, Current(User(r)))
  /\ UNCHANGED <<created, rows, store, announced>>
  /\ NoFailure

(* Faulty variant: the previous party is not left first. *)
SeatWithoutLeaving(r) == Goto(r, "insert")

SeatOrLeave(r) == Goto(r, IF task[r].prev = NoParty THEN "insert" ELSE "close")

(* Faulty variant: > for >=. *)
CheckCapacityOffByOne(r) ==
  /\ At(r, "count")
  /\ IF ActiveMemberCount(task[r].target) > VoiceLimit
       THEN Finish(r)
       ELSE SeatOrLeave(r)
  /\ UNCHANGED <<created, rows, store, announced>>
  /\ NoFailure

CheckCapacity(r) ==
  /\ At(r, "count")
  /\ IF ActiveMemberCount(task[r].target) >= VoiceLimit
       THEN Finish(r)                              \* "party is full"
       ELSE SeatOrLeave(r)
  /\ UNCHANGED <<created, rows, store, announced>>
  /\ NoFailure

(* The count query fails: unwrap_or_default reads the error as 0 members.  *)
CountFails(r) ==
  /\ At(r, "count")
  /\ faults < MaxFaults
  /\ faults' = faults + 1
  /\ SeatOrLeave(r)
  /\ UNCHANGED <<created, rows, store, announced, restarts>>

InsertRow(r) ==
  /\ At(r, "insert")
  /\ LET u == User(r)
     IN  rows' = rows \union
                   {[user |-> u, party |-> task[r].target, at |-> Now(u)]}
  /\ Goto(r, "activate")
  /\ UNCHANGED <<created, store>>
  /\ NoFailure
  /\ Written

Activate(r) ==
  /\ At(r, "activate")
  /\ store' = SetActiveParty(store, User(r), task[r].target)
  /\ Goto(r, "tellJoined")
  /\ UNCHANGED <<created, rows>>
  /\ NoFailure
  /\ Written

(* PresenceUpdated and PartyJoined *)
TellJoined(r) ==
  /\ At(r, "tellJoined")
  /\ Goto(r, "tellParty")
  /\ Broadcast
  /\ UNCHANGED <<created, rows, store>>
  /\ NoFailure

(* The last broadcast of join_party (PartyUpdated) and of create_party     *)
(* (PartyCreated).                                                         *)
TellParty(r) ==
  /\ At(r, "tellParty")
  /\ Finish(r)
  /\ Broadcast
  /\ UNCHANGED <<created, rows, store>>
  /\ NoFailure

----------------------------------------------------------------------------
(* leave_active_party_internal, as part of a join, a leave or the end of   *)
(* the last socket                                                         *)

(* Faulty variant: the UPDATE without its user_id = $2. *)
CloseRowsOfEveryone(t) ==
  /\ At(t, "close")
  /\ rows' = {m \in rows : m.party # task[t].prev}
  /\ Goto(t, "clear")
  /\ UNCHANGED <<created, store>>
  /\ NoFailure
  /\ Written

(* The UPDATE closes every open row of the user in that party. *)
CloseRows(t) ==
  /\ At(t, "close")
  /\ rows' = {m \in rows : ~(m.user = User(t) /\ m.party = task[t].prev)}
  /\ Goto(t, "clear")
  /\ UNCHANGED <<created, store>>
  /\ NoFailure
  /\ Written

ClearActive(t) ==
  /\ At(t, "clear")
  /\ store' = SetActiveParty(store, User(t), NoParty)
  /\ Goto(t, "tellLeft")
  /\ UNCHANGED <<created, rows>>
  /\ NoFailure
  /\ Written

(* PresenceUpdated and PartyLeft *)
TellLeft(t) ==
  /\ At(t, "tellLeft")
  /\ Goto(t, "tellOldParty")
  /\ Broadcast
  /\ UNCHANGED <<created, rows, store>>
  /\ NoFailure

(* PartyUpdated of the party left; then the caller goes on. *)
TellOldParty(t) ==
  /\ At(t, "tellOldParty")
  /\ CASE task[t].op = "join"  -> Goto(t, "insert")
       [] task[t].op = "final" -> Goto(t, "tellGone")
       [] OTHER                -> Finish(t)
  /\ Broadcast
  /\ UNCHANGED <<created, rows, store>>
  /\ NoFailure

(* leave_party: a conflict unless the party of the path is the current one *)
LeaveRead(r) ==
  /\ At(r, "read") /\ task[r].op = "leave"
  /\ IF Current(User(r)) = task[r].target
       THEN Move(r, "close", "leave", User(r), task[r].target, task[r].target)
       ELSE Finish(r)
  /\ UNCHANGED <<created, rows, store, announced>>
  /\ NoFailure

----------------------------------------------------------------------------
(* update_status: two critical sections of the presence map *)

GetStatus(r) ==
  /\ At(r, "get")
  /\ IF HasEntry(store, User(r)) THEN Goto(r, "set") ELSE Finish(r)
  /\ UNCHANGED <<created, rows, store, announced>>
  /\ NoFailure

(* Faulty variant: the new status is not broadcast. *)
UpdateStatusQuietly(r) ==
  /\ At(r, "set")
  /\ store' = SetStatus(store, User(r), task[r].op)
  /\ Finish(r)
  /\ UNCHANGED <<created, rows>>
  /\ NoFailure
  /\ Written

UpdateStatus(r) ==
  /\ At(r, "set")
  /\ store' = SetStatus(store, User(r), task[r].op)
  /\ Goto(r, "tellStatus")
  /\ UNCHANGED <<created, rows>>
  /\ NoFailure
  /\ Written

----------------------------------------------------------------------------
(* handle_socket *)

OpenSocket(s, u) ==
  /\ task[s] = Idle
  /\ store' = Connect(store, u)
  /\ Move(s, "tellOn", "serve", u, NoParty, NoParty)
  /\ UNCHANGED <<created, rows>>
  /\ NoFailure
  /\ Written

TellOn(s) ==
  /\ At(s, "tellOn")
  /\ Goto(s, "open")
  /\ Broadcast
  /\ UNCHANGED <<created, rows, store>>
  /\ NoFailure

(* The loop ends: the client closed, vanished, or could not be written to. *)
CloseSocket(s) ==
  /\ At(s, "open")
  /\ store' = Disconnect(store, User(s))
  /\ IF BecameOffline(store, User(s))
       THEN Move(s, "read", "final", User(s), NoParty, NoParty)
       ELSE Goto(s, "tellStill")
  /\ UNCHANGED <<created, rows>>
  /\ NoFailure
  /\ Written

(* Faulty variant: the end of the last socket is only announced. *)
FinalReadSkipsLeaving(s) ==
  /\ At(s, "read") /\ task[s].op = "final"
  /\ Goto(s, "tellGone")
  /\ UNCHANGED <<created, rows, store, announced>>
  /\ NoFailure

(* finalize_disconnect reads the membership the user has by now. *)
FinalRead(s) ==
  /\ At(s, "read") /\ task[s].op = "final"
  /\ IF Current(User(s)) = NoParty
       THEN Goto(s, "tellGone")
       ELSE Move(s, "close", "final", User(s), NoParty, Current(User(s)))
  /\ UNCHANGED <<created, rows, store, announced>>
  /\ NoFailure

(* The broadcast a handler ends with: update_status, and a socket that was *)
(* the user's last one or not.                                             *)
TellPresence(t) ==
  /\ task[t].pc \in {"tellStatus", "tellStill", "tellGone"}
  /\ Finish(t)
  /\ Broadcast
  /\ UNCHANGED <<created, rows, store>>
  /\ NoFailure

----------------------------------------------------------------------------
(* Failures *)

(* A statement fails and `?` returns, or the client of a request goes away *)
(* and its handler is dropped at an await.  What was written stays.  A     *)
(* socket task is spawned, so it is never dropped: it only fails at the    *)
(* statements of finalize_disconnect.                                      *)
Abort(t) ==
  /\ task[t] # Idle
  /\ t \in Sockets =>
       task[t].pc \in {"read", "close", "tellLeft", "tellOldParty"}
  /\ faults < MaxFaults
  /\ faults' = faults + 1
  /\ Finish(t)
  /\ UNCHANGED <<created, rows, store, announced, restarts>>

(* The process dies and starts again: the tables stay, the map and all     *)
(* tasks are gone, and nothing is closed or finalized at startup.          *)
Restart ==
  /\ restarts < MaxRestarts
  /\ restarts' = restarts + 1
  /\ store' = [u \in Users |-> NoEntry]
  /\ task' = [t \in Tasks |-> Idle]
  /\ UNCHANGED <<created, rows, faults>>
  /\ Written

----------------------------------------------------------------------------
Client ==
  \/ \E r \in Requests, u \in Users :
       \/ \E p \in Parties :
            StartJoin(r, u, p) \/ StartLeave(r, u, p) \/ CreateParty(r, u, p)
       \/ \E status \in LiveStatus : StartStatus(r, u, status)
  \/ \E s \in Sockets : (\E u \in Users : OpenSocket(s, u)) \/ CloseSocket(s)

(* What the server does on its own once a handler has started. *)
Step(t) ==
  \/ JoinRead(t)      \/ CheckCapacity(t)  \/ InsertRow(t)
  \/ Activate(t)      \/ TellJoined(t)     \/ TellParty(t)
  \/ LeaveRead(t)     \/ CloseRows(t)      \/ ClearActive(t)
  \/ TellLeft(t)      \/ TellOldParty(t)   \/ GetStatus(t)
  \/ UpdateStatus(t)  \/ TellOn(t)         \/ FinalRead(t)
  \/ TellPresence(t)

Fault ==
  \/ \E r \in Requests : CountFails(r)
  \/ \E t \in Tasks : Abort(t)
  \/ Restart

Next == Client \/ (\E t \in Tasks : Step(t)) \/ Fault

Spec == Init /\ [][Next]_vars

(* The runtime polls every task that can go on, and the database answers.  *)
Fairness == \A t \in Tasks : WF_vars(Step(t))

FairSpec == Spec /\ Fairness

----------------------------------------------------------------------------
(* Properties *)

(* Every variable has its type: open rows belong to users and parties, and *)
(* every handler stands at a place of its code.                            *)
TypeOK ==
  /\ created \subseteq Parties
  /\ rows \subseteq RowType
  /\ store \in [Users -> EntryType(Parties)]
  /\ task \in [Tasks -> TaskType]
  /\ \A t \in Tasks :
       /\ task[t].pc \in Places(task[t].op)
       /\ task[t].op # "none" => task[t].user \in Users
       /\ task[t].op \in {"join", "leave"} => task[t].target \in Parties
  /\ \A r \in Requests : task[r].op \in RequestOps
  /\ \A s \in Sockets : task[s].op \in SocketOps
  /\ announced \in BOOLEAN
  /\ faults \in Nat
  /\ restarts \in Nat

OpenSockets(u) == {s \in Sockets : User(s) = u /\ (At(s, "tellOn") \/ At(s, "open"))}

(* The presence map counts each user's live sockets exactly, whatever the  *)
(* handlers of other tabs, failures and restarts do to the entry between   *)
(* two of them: a user is shown offline exactly when no socket is left.    *)
SocketCountExact ==
  \A u \in Users :
    /\ store[u].count = Cardinality(OpenSockets(u))
    /\ Snapshot(store, u) = "offline" <=> OpenSockets(u) = {}

(* Task t has written something and not yet broadcast it. *)
OwesBroadcast(t) ==
  \/ task[t].pc \in {"clear", "tellLeft", "activate", "tellJoined", "tellParty",
                    "tellStatus", "tellOn", "tellStill", "tellGone"}
  \/ task[t].op = "final"

(* Clients learn of every change: when the home view differs from what it  *)
(* was at the last broadcast, some handler is still going to broadcast.    *)
(* Only a failure between the write and the broadcast, or nobody listening *)
(* since a restart, can leave clients with a stale view.                   *)
AnnouncedOrOwed ==
  \/ announced
  \/ \E t \in Tasks : OwesBroadcast(t)
  \/ faults > 0
  \/ \A u \in Users : OpenSockets(u) = {}

(* A user who sends one request at a time has at most one open row, though *)
(* the ends of her sockets, failures and restarts interleave with them:    *)
(* join_party closes what it read, and party_memberships has no unique     *)
(* constraint to fall back on.                                             *)
OneSeat == SerialRequests => \A m, n \in rows : m.user = n.user => m = n

(* The joins of p that are past the capacity check and not yet inserted. *)
Admitted(p) ==
  {r \in Requests :
     /\ task[r].op = "join" /\ task[r].target = p
     /\ task[r].pc \in LeaveLabels \union {"insert"}}

(* Check and insert are apart, so concurrent joins overfill a party, but   *)
(* each by at most one, and never by more than the requests in flight and  *)
(* the failed counts allow.                                                *)
CapacityBound ==
  \A p \in Parties :
    ActiveMemberCount(p) + Cardinality(Admitted(p))
      <= (VoiceLimit - 1) + Cardinality(Requests) + faults

(* The handlers implement Seats when requests of a user are serial, with   *)
(* the capacity that CapacityBound leaves of VOICE_LIMIT.                  *)
SeatOf == [u \in Users |-> Current(u)]

SeatsOf == INSTANCE Seats WITH
  seat <- SeatOf, Capacity <- (VoiceLimit - 1) + Cardinality(Requests) + MaxFaults

ImplementsSeats == SeatsOf!Spec

(* A user whose last socket ended is taken out of the party: from the      *)
(* moment finalize_disconnect starts, there is a later one at which the    *)
(* user is in no party, unless a restart ended finalize_disconnect.        *)
GoneUserLeaves ==
  \A s \in Sockets :
    \A u \in Users :
      (At(s, "read") /\ task[s].op = "final" /\ User(s) = u)
        ~> (Current(u) = NoParty \/ restarts > 0)
=============================================================================
