--------------------------- MODULE PartiesProofs ---------------------------
(***************************************************************************)
(* Proofs about Parties, for any users, parties, tasks, limit and bounds.  *)
(***************************************************************************)
EXTENDS Parties, FiniteSetTheorems, TLAPS

----------------------------------------------------------------------------
(* The presence map *)

(* Every operation of the presence map keeps its type. *)
LEMMA StoreTypes ==
  ASSUME NEW st \in [Users -> EntryType(Parties)], NEW u \in Users,
         NEW p \in Parties \union {NoParty}, NEW status \in Status
  PROVE  /\ Connect(st, u) \in [Users -> EntryType(Parties)]
         /\ Disconnect(st, u) \in [Users -> EntryType(Parties)]
         /\ SetActiveParty(st, u, p) \in [Users -> EntryType(Parties)]
         /\ SetStatus(st, u, status) \in [Users -> EntryType(Parties)]
<1> DEFINE e == EntryOf(st, u)
<1>1. e \in EntryType(Parties) /\ NoEntry \in EntryType(Parties)
  BY DEF EntryType, Status, LiveStatus, EntryOf, HasEntry, NoEntry, FreshEntry
<1>2. Connect(st, u) \in [Users -> EntryType(Parties)]
  <2>1. [count |-> e.count + 1, party |-> e.party, status |-> "online"] \in EntryType(Parties)
    BY <1>1 DEF EntryType, Status, LiveStatus
  <2> QED
    BY <2>1 DEF Connect
<1>3. Disconnect(st, u) \in [Users -> EntryType(Parties)]
  <2>1. CASE BecameOffline(st, u)
    BY <1>1, <2>1 DEF Disconnect
  <2>2. CASE ~BecameOffline(st, u) /\ HasEntry(st, u)
    <3>1. st[u].count - 1 \in Nat
      BY <2>2 DEF BecameOffline, EntryType
    <3> QED
      BY <2>2, <3>1 DEF Disconnect, EntryType
  <2>3. CASE ~BecameOffline(st, u) /\ ~HasEntry(st, u)
    BY <2>3 DEF Disconnect
  <2> QED
    BY <2>1, <2>2, <2>3
<1>4. SetActiveParty(st, u, p) \in [Users -> EntryType(Parties)]
  <2>1. [count |-> e.count, party |-> p,
         status |-> IF e.count > 0 THEN "online" ELSE e.status] \in EntryType(Parties)
    BY <1>1 DEF EntryType, Status, LiveStatus
  <2> QED
    BY <2>1 DEF SetActiveParty
<1>5. SetStatus(st, u, status) \in [Users -> EntryType(Parties)]
  BY DEF SetStatus, EntryType
<1> QED
  BY <1>2, <1>3, <1>4, <1>5

----------------------------------------------------------------------------
(* Types *)

(* What the membership query answers is a party or none, and the time of a *)
(* new row is a number.                                                    *)
LEMMA QueryTypes ==
  ASSUME TypeOK, NEW u
  PROVE  /\ Current(u) \in Parties \union {NoParty}
         /\ Now(u) \in Nat
<1>1. CASE LatestRows(u) = {}
  BY <1>1 DEF Current, Now
<1>2. CASE LatestRows(u) # {}
  <2>1. LatestRow(u) \in rows
    BY <1>2 DEF LatestRow, LatestRows, RowsOf
  <2>2. LatestRow(u) \in RowType
    BY <2>1 DEF TypeOK
  <2> QED
    BY <1>2, <2>2 DEF Current, Now, RowType
<1> QED
  BY <1>1, <1>2

(* Whether a write was visible is TRUE or FALSE. *)
LEMMA WrittenType ==
  ASSUME TypeOK, Written
  PROVE  announced' \in BOOLEAN
  BY DEF TypeOK, Written

(* The conjuncts of TypeOK about the tasks, for one task. *)
InPlace(t, k) ==
  /\ k \in TaskType
  /\ k.pc \in Places(k.op)
  /\ k.op # "none" => k.user \in Users
  /\ k.op \in {"join", "leave"} => k.target \in Parties
  /\ t \in Requests => k.op \in RequestOps
  /\ t \in Sockets => k.op \in SocketOps

(* Every task stands at a place of its own code. *)
LEMMA TaskTypes == TypeOK => \A t \in Tasks : InPlace(t, task[t])
  BY DEF TypeOK, InPlace, Tasks

(* A step that changes one task, leaves it in place and keeps the type of  *)
(* the rest, keeps all types.                                              *)
LEMMA OneTask ==
  ASSUME TypeOK, NEW t \in Tasks, NEW k, InPlace(t, k),
         task' = [task EXCEPT ![t] = k],
         created' \subseteq Parties, rows' \subseteq RowType,
         store' \in [Users -> EntryType(Parties)],
         announced' \in BOOLEAN, faults' \in Nat, restarts' \in Nat
  PROVE  TypeOK'
  BY DEF TypeOK, InPlace, Tasks

(* An idle task is one whatever slot it has. *)
LEMMA IdleInPlace == \A t \in Tasks : InPlace(t, Idle)
  BY DEF InPlace, Idle, TaskType, Places, RequestOps, SocketOps, Labels, LeaveLabels

(* The types hold at first. *)
LEMMA InitTypes == Init => TypeOK
<1> SUFFICES ASSUME Init PROVE TypeOK
  OBVIOUS
<1>1. \A t \in Tasks : task[t] = Idle /\ InPlace(t, task[t])
  BY IdleInPlace DEF Init
<1>2. store \in [Users -> EntryType(Parties)]
  BY DEF Init, EntryType, NoEntry, Status
<1> QED
  BY <1>1, <1>2 DEF Init, TypeOK, InPlace, Tasks

(* The state but for the tasks has its type after a step. *)
RestTyped ==
  /\ created' \subseteq Parties
  /\ rows' \subseteq RowType
  /\ store' \in [Users -> EntryType(Parties)]
  /\ announced' \in BOOLEAN
  /\ faults' \in Nat
  /\ restarts' \in Nat

(* A task that ends keeps the types. *)
LEMMA FinishTypes ==
  ASSUME TypeOK, NEW t \in Tasks, Finish(t), RestTyped
  PROVE  TypeOK'
  BY IdleInPlace, OneTask DEF Finish, RestTyped

(* So does one that goes on to another place of its code. *)
LEMMA GotoTypes ==
  ASSUME TypeOK, NEW t \in Tasks, NEW label \in Labels, Goto(t, label),
         label \in Places(task[t].op), RestTyped
  PROVE  TypeOK'
<1> DEFINE k == [task[t] EXCEPT !.pc = label]
<1>1. InPlace(t, task[t])
  BY TaskTypes
<1>2. InPlace(t, k)
  BY <1>1 DEF InPlace, TaskType
<1> QED
  BY <1>2, OneTask DEF Goto, RestTyped

(* So does one that goes on with new locals that fit its place. *)
LEMMA MoveTypes ==
  ASSUME TypeOK, NEW t \in Tasks, NEW label, NEW op, NEW user, NEW target, NEW prev,
         InPlace(t, [pc |-> label, op |-> op, user |-> user, target |-> target,
                     prev |-> prev]),
         Move(t, label, op, user, target, prev), RestTyped
  PROVE  TypeOK'
  BY OneTask DEF Move, RestTyped

(* Every step of a client, a handler or a failure keeps the types. *)
LEMMA NextTypes == TypeOK /\ [Next]_vars => TypeOK'
<1> SUFFICES ASSUME TypeOK, [Next]_vars PROVE TypeOK'
  OBVIOUS
<1>t. \A t \in Tasks : InPlace(t, task[t])
  BY TaskTypes
<1>o. ASSUME NEW t \in Tasks, task[t].pc # "idle" PROVE User(t) \in Users
  BY <1>o, <1>t DEF User, InPlace, Places
<1>r. ASSUME NEW t \in Tasks PROVE t \in Requests <=> t \notin Sockets
  BY TasksAssumption DEF Tasks
<1>s. Requests \subseteq Tasks /\ Sockets \subseteq Tasks
  BY DEF Tasks
<1>n. ASSUME UNCHANGED <<created, rows, store, announced, faults, restarts>> PROVE RestTyped
  BY <1>n DEF RestTyped, TypeOK
<1>b. ASSUME UNCHANGED <<created, rows, store, faults, restarts>>, Broadcast PROVE RestTyped
  BY <1>b DEF RestTyped, TypeOK, Broadcast
<1>w. ASSUME created' \subseteq Parties, rows' \subseteq RowType,
             store' \in [Users -> EntryType(Parties)], Written, NoFailure
      PROVE  RestTyped
  BY <1>w, WrittenType DEF RestTyped, TypeOK, NoFailure
<1>1. ASSUME NEW r \in Requests, NEW u \in Users, NEW p \in Parties, StartJoin(r, u, p) PROVE TypeOK'
  <2>1. InPlace(r, [pc |-> "read", op |-> "join", user |-> u, target |-> p, prev |-> NoParty])
    BY <1>r, <1>s DEF InPlace, TaskType, Places, RequestOps, SocketOps, Labels, LeaveLabels, LiveStatus
  <2> QED
    BY <1>1, <1>n, <1>s, <2>1, MoveTypes DEF StartJoin, Start, NoFailure
<1>2. ASSUME NEW r \in Requests, NEW u \in Users, NEW p \in Parties, StartLeave(r, u, p) PROVE TypeOK'
  <2>1. InPlace(r, [pc |-> "read", op |-> "leave", user |-> u, target |-> p, prev |-> NoParty])
    BY <1>r, <1>s DEF InPlace, TaskType, Places, RequestOps, SocketOps, Labels, LeaveLabels, LiveStatus
  <2> QED
    BY <1>2, <1>n, <1>s, <2>1, MoveTypes DEF StartLeave, Start, NoFailure
<1>3. ASSUME NEW r \in Requests, NEW u \in Users, NEW s \in LiveStatus, StartStatus(r, u, s) PROVE TypeOK'
  <2>1. InPlace(r, [pc |-> "get", op |-> s, user |-> u, target |-> NoParty, prev |-> NoParty])
    BY <1>r, <1>s DEF InPlace, TaskType, Places, RequestOps, SocketOps, Labels, LeaveLabels, LiveStatus
  <2> QED
    BY <1>3, <1>n, <1>s, <2>1, MoveTypes DEF StartStatus, Start, NoFailure
<1>4. ASSUME NEW r \in Requests, NEW u \in Users, NEW p \in Parties, CreateParty(r, u, p) PROVE TypeOK'
  <2>1. InPlace(r, [pc |-> "tellParty", op |-> "create", user |-> u, target |-> NoParty, prev |-> NoParty])
    BY <1>r, <1>s DEF InPlace, TaskType, Places, RequestOps, SocketOps, Labels, LeaveLabels
  <2>2. RestTyped
    BY <1>4, <1>w DEF CreateParty, TypeOK
  <2> QED
    BY <1>4, <1>s, <2>1, <2>2, MoveTypes DEF CreateParty
<1>5. ASSUME NEW s \in Sockets, NEW u \in Users, OpenSocket(s, u) PROVE TypeOK'
  <2>1. InPlace(s, [pc |-> "tellOn", op |-> "serve", user |-> u, target |-> NoParty, prev |-> NoParty])
    BY <1>r, <1>s DEF InPlace, TaskType, Places, RequestOps, SocketOps, Labels, LeaveLabels
  <2>2. store' \in [Users -> EntryType(Parties)]
    BY <1>5, StoreTypes DEF OpenSocket, TypeOK, Status
  <2>3. RestTyped
    BY <1>5, <1>w, <2>2 DEF OpenSocket, TypeOK
  <2> QED
    BY <1>5, <1>s, <2>1, <2>3, MoveTypes DEF OpenSocket
<1>6. ASSUME NEW s \in Sockets, CloseSocket(s) PROVE TypeOK'
  <2>1. InPlace(s, [pc |-> "read", op |-> "final", user |-> User(s), target |-> NoParty,
                    prev |-> NoParty])
    BY <1>6, <1>o, <1>r, <1>s DEF CloseSocket, At, InPlace, TaskType, Places, RequestOps, SocketOps, Labels, LeaveLabels
  <2>2. store' \in [Users -> EntryType(Parties)]
    BY <1>6, <1>o, <1>s, StoreTypes DEF CloseSocket, At, TypeOK, Status
  <2>3. RestTyped
    BY <1>6, <1>w, <2>2 DEF CloseSocket, TypeOK
  <2>4. "tellStill" \in Labels /\ "tellStill" \in Places(task[s].op)
    BY <1>6, <1>s, <1>t, <1>r DEF CloseSocket, At, InPlace, TaskType, Places, RequestOps, SocketOps, Labels, LeaveLabels
  <2> QED
    BY <1>6, <1>s, <2>1, <2>3, <2>4, MoveTypes, GotoTypes DEF CloseSocket
<1>7. ASSUME NEW t \in Tasks, JoinRead(t) PROVE TypeOK'
  <2>1. Current(User(t)) \in Parties \union {NoParty}
    BY QueryTypes
  <2>2. InPlace(t, [pc |-> "count", op |-> "join", user |-> User(t), target |-> task[t].target,
                    prev |-> Current(User(t))])
    BY <1>7, <1>t, <1>r, <2>1 DEF JoinRead, User, InPlace, TaskType, Places, RequestOps, SocketOps, Labels, LeaveLabels
  <2> QED
    BY <1>7, <1>n, <2>2, MoveTypes, FinishTypes DEF JoinRead, NoFailure
<1>8. ASSUME NEW t \in Tasks, CheckCapacity(t) PROVE TypeOK'
  <2>1. task[t].op = "join"
    BY <1>8, <1>t DEF CheckCapacity, At, InPlace, TaskType, Places, RequestOps, SocketOps, Labels, LeaveLabels
  <2>2. \A l \in {"insert", "close"} : l \in Labels /\ l \in Places(task[t].op)
    BY <2>1 DEF InPlace, TaskType, Places, RequestOps, SocketOps, Labels, LeaveLabels
  <2>3. CASE Finish(t)
    BY <1>8, <1>n, <2>3, FinishTypes DEF CheckCapacity, NoFailure
  <2>4. CASE SeatOrLeave(t)
    BY <1>8, <1>n, <2>2, <2>4, GotoTypes DEF CheckCapacity, SeatOrLeave, NoFailure
  <2> QED
    BY <1>8, <2>3, <2>4 DEF CheckCapacity
<1>9. ASSUME NEW r \in Requests, CountFails(r) PROVE TypeOK'
  <2>1. task[r].op = "join"
    BY <1>9, <1>t, <1>s DEF CountFails, At, InPlace, TaskType, Places, RequestOps, SocketOps, Labels, LeaveLabels
  <2>2. \A l \in {"insert", "close"} : l \in Labels /\ l \in Places(task[r].op)
    BY <2>1 DEF InPlace, TaskType, Places, RequestOps, SocketOps, Labels, LeaveLabels
  <2>3. RestTyped
    BY <1>9 DEF CountFails, RestTyped, TypeOK
  <2> QED
    BY <1>9, <1>s, <2>2, <2>3, GotoTypes DEF CountFails, SeatOrLeave
<1>10. ASSUME NEW t \in Tasks, InsertRow(t) PROVE TypeOK'
  <2>1. task[t].op = "join"
    BY <1>10, <1>t DEF InsertRow, At, InPlace, TaskType, Places, RequestOps, SocketOps, Labels, LeaveLabels
  <2>2. Now(User(t)) \in Nat /\ task[t].target \in Parties
    BY <1>t, <2>1, QueryTypes DEF InPlace
  <2>3. rows' \subseteq RowType
    BY <1>10, <1>o, <2>2 DEF InsertRow, At, RowType, TypeOK
  <2>4. RestTyped
    BY <1>10, <1>w, <2>3 DEF InsertRow, TypeOK
  <2>5. "activate" \in Labels /\ "activate" \in Places(task[t].op)
    BY <2>1 DEF InPlace, TaskType, Places, RequestOps, SocketOps, Labels, LeaveLabels
  <2> QED
    BY <1>10, <2>4, <2>5, GotoTypes DEF InsertRow
<1>11. ASSUME NEW t \in Tasks, Activate(t) PROVE TypeOK'
  <2>1. "tellJoined" \in Labels /\ "tellJoined" \in Places(task[t].op)
    BY <1>11, <1>t DEF Activate, At, InPlace, TaskType, Places, RequestOps, SocketOps, Labels, LeaveLabels
  <2>2. store' \in [Users -> EntryType(Parties)]
    <3>1. task[t].target \in Parties \union {NoParty}
      BY <1>t DEF InPlace, TaskType
    <3> QED
      BY <1>11, <1>o, <3>1, StoreTypes DEF Activate, At, TypeOK, Status
  <2>3. RestTyped
    BY <1>11, <1>w, <2>2 DEF Activate, TypeOK
  <2> QED
    BY <1>11, <2>1, <2>3, GotoTypes DEF Activate
<1>12. ASSUME NEW t \in Tasks, TellJoined(t) PROVE TypeOK'
  <2>1. "tellParty" \in Labels /\ "tellParty" \in Places(task[t].op)
    BY <1>12, <1>t DEF TellJoined, At, InPlace, TaskType, Places, RequestOps, SocketOps, Labels, LeaveLabels
  <2> QED
    BY <1>12, <1>b, <2>1, GotoTypes DEF TellJoined, NoFailure
<1>13. ASSUME NEW t \in Tasks, TellParty(t) PROVE TypeOK'
  BY <1>13, <1>b, FinishTypes DEF TellParty, NoFailure
<1>14. ASSUME NEW t \in Tasks, LeaveRead(t) PROVE TypeOK'
  <2>1. InPlace(t, [pc |-> "close", op |-> "leave", user |-> User(t), target |-> task[t].target,
                    prev |-> task[t].target])
    BY <1>14, <1>t, <1>r DEF LeaveRead, User, InPlace, TaskType, Places, RequestOps, SocketOps, Labels, LeaveLabels
  <2> QED
    BY <1>14, <1>n, <2>1, MoveTypes, FinishTypes DEF LeaveRead, NoFailure
<1>15. ASSUME NEW t \in Tasks, CloseRows(t) PROVE TypeOK'
  <2>1. "clear" \in Labels /\ "clear" \in Places(task[t].op)
    BY <1>15, <1>t DEF CloseRows, At, InPlace, TaskType, Places, RequestOps, SocketOps, Labels, LeaveLabels
  <2>2. RestTyped
    BY <1>15, <1>w DEF CloseRows, TypeOK
  <2> QED
    BY <1>15, <2>1, <2>2, GotoTypes DEF CloseRows
<1>16. ASSUME NEW t \in Tasks, ClearActive(t) PROVE TypeOK'
  <2>1. "tellLeft" \in Labels /\ "tellLeft" \in Places(task[t].op)
    BY <1>16, <1>t DEF ClearActive, At, InPlace, TaskType, Places, RequestOps, SocketOps, Labels, LeaveLabels
  <2>2. store' \in [Users -> EntryType(Parties)]
    <3>1. NoParty \in Parties \union {NoParty}
      BY <1>t DEF InPlace, TaskType
    <3> QED
      BY <1>16, <1>o, <3>1, StoreTypes DEF ClearActive, At, TypeOK, Status
  <2>3. RestTyped
    BY <1>16, <1>w, <2>2 DEF ClearActive, TypeOK
  <2> QED
    BY <1>16, <2>1, <2>3, GotoTypes DEF ClearActive
<1>17. ASSUME NEW t \in Tasks, TellLeft(t) PROVE TypeOK'
  <2>1. "tellOldParty" \in Labels /\ "tellOldParty" \in Places(task[t].op)
    BY <1>17, <1>t DEF TellLeft, At, InPlace, TaskType, Places, RequestOps, SocketOps, Labels, LeaveLabels
  <2> QED
    BY <1>17, <1>b, <2>1, GotoTypes DEF TellLeft, NoFailure
<1>18. ASSUME NEW t \in Tasks, TellOldParty(t) PROVE TypeOK'
  <2>1. RestTyped
    BY <1>18, <1>b DEF TellOldParty, NoFailure
  <2>2. CASE task[t].op = "join"
    <3>1. "insert" \in Labels /\ "insert" \in Places(task[t].op)
      BY <2>2 DEF InPlace, TaskType, Places, RequestOps, SocketOps, Labels, LeaveLabels
    <3> QED
      BY <1>18, <2>1, <2>2, <3>1, GotoTypes DEF TellOldParty
  <2>3. CASE task[t].op = "final"
    <3>1. "tellGone" \in Labels /\ "tellGone" \in Places(task[t].op)
      BY <2>3 DEF InPlace, TaskType, Places, RequestOps, SocketOps, Labels, LeaveLabels
    <3> QED
      BY <1>18, <2>1, <2>3, <3>1, GotoTypes DEF TellOldParty
  <2>4. CASE task[t].op \notin {"join", "final"}
    BY <1>18, <2>1, <2>4, FinishTypes DEF TellOldParty
  <2> QED
    BY <2>2, <2>3, <2>4
<1>19. ASSUME NEW t \in Tasks, GetStatus(t) PROVE TypeOK'
  <2>1. "set" \in Labels /\ "set" \in Places(task[t].op)
    BY <1>19, <1>t DEF GetStatus, At, InPlace, TaskType, Places, RequestOps, SocketOps, Labels, LeaveLabels
  <2> QED
    BY <1>19, <1>n, <2>1, GotoTypes, FinishTypes DEF GetStatus, NoFailure
<1>20. ASSUME NEW t \in Tasks, UpdateStatus(t) PROVE TypeOK'
  <2>1. task[t].op \in LiveStatus
    BY <1>20, <1>t DEF UpdateStatus, At, LiveStatus, InPlace, TaskType, Places, RequestOps, SocketOps, Labels, LeaveLabels
  <2>2. "tellStatus" \in Labels /\ "tellStatus" \in Places(task[t].op)
    BY <2>1 DEF LiveStatus, InPlace, TaskType, Places, RequestOps, SocketOps, Labels, LeaveLabels
  <2>3. store' \in [Users -> EntryType(Parties)]
    BY <1>20, <1>o, <2>1, StoreTypes DEF UpdateStatus, At, TypeOK, Status
  <2>4. RestTyped
    BY <1>20, <1>w, <2>3 DEF UpdateStatus, TypeOK
  <2> QED
    BY <1>20, <2>2, <2>4, GotoTypes DEF UpdateStatus
<1>21. ASSUME NEW t \in Tasks, TellOn(t) PROVE TypeOK'
  <2>1. "open" \in Labels /\ "open" \in Places(task[t].op)
    BY <1>21, <1>t DEF TellOn, At, InPlace, TaskType, Places, RequestOps, SocketOps, Labels, LeaveLabels
  <2> QED
    BY <1>21, <1>b, <2>1, GotoTypes DEF TellOn, NoFailure
<1>22. ASSUME NEW t \in Tasks, FinalRead(t) PROVE TypeOK'
  <2>1. Current(User(t)) \in Parties \union {NoParty}
    BY QueryTypes
  <2>2. InPlace(t, [pc |-> "close", op |-> "final", user |-> User(t), target |-> NoParty,
                    prev |-> Current(User(t))])
    BY <1>22, <1>t, <1>r, <2>1 DEF FinalRead, User, InPlace, TaskType, Places, RequestOps, SocketOps, Labels, LeaveLabels
  <2>3. "tellGone" \in Labels /\ "tellGone" \in Places("final")
    BY DEF InPlace, TaskType, Places, RequestOps, SocketOps, Labels, LeaveLabels
  <2> QED
    BY <1>22, <1>n, <2>2, <2>3, MoveTypes, GotoTypes DEF FinalRead, NoFailure
<1>23. ASSUME NEW t \in Tasks, TellPresence(t) PROVE TypeOK'
  BY <1>23, <1>b, FinishTypes DEF TellPresence, NoFailure
<1>24. ASSUME NEW t \in Tasks, Abort(t) PROVE TypeOK'
  <2>1. RestTyped
    BY <1>24 DEF Abort, RestTyped, TypeOK
  <2> QED
    BY <1>24, <2>1, FinishTypes DEF Abort
<1>25. ASSUME Restart PROVE TypeOK'
  <2>1. NoEntry \in EntryType(Parties)
    BY DEF NoEntry, EntryType, Status
  <2>2. RestTyped
    BY <1>25, <2>1, WrittenType DEF Restart, RestTyped, TypeOK
  <2>3. \A t \in Tasks : InPlace(t, task'[t])
    BY <1>25, IdleInPlace DEF Restart
  <2> QED
    BY <1>25, <2>2, <2>3 DEF TypeOK, RestTyped, Restart, InPlace, Tasks
<1>26. ASSUME UNCHANGED vars PROVE TypeOK'
  BY <1>26 DEF vars, TypeOK
<1> QED
  BY <1>1, <1>2, <1>3, <1>4, <1>5, <1>6, <1>7, <1>8, <1>9, <1>10, <1>11, <1>12, <1>13, <1>14, <1>15, <1>16, <1>17, <1>18, <1>19, <1>20, <1>21, <1>22, <1>23, <1>24, <1>25, <1>26
     DEF Next, Client, Step, Fault

(* In every behaviour every variable has its type, and every handler       *)
(* stands at a place of its own code.                                      *)
THEOREM TypeCorrect == Spec => []TypeOK
<1>1. Init => TypeOK
  BY InitTypes
<1>2. TypeOK /\ [Next]_vars => TypeOK'
  BY NextTypes
<1> QED
  BY <1>1, <1>2, PTL DEF Spec
----------------------------------------------------------------------------
(* One seat *)

(* Under serial requests OneSeat is not inductive: a join inserts long     *)
(* after it read.  What makes it hold is what a join in flight still knows *)
(* about its user's rows: until it closed them, they are of the party it   *)
(* read, and from then on there are none.  The ends of sockets cannot      *)
(* spoil this, because they only remove rows.                              *)
OneRow == \A m, n \in rows : m.user = n.user => m = n

JoinView(r) ==
  task[r].op = "join" =>
    /\ task[r].pc \in {"count", "close"} =>
         \A m \in rows : m.user = User(r) => m.party = task[r].prev
    /\ task[r].pc \in {"clear", "tellLeft", "tellOldParty", "insert"} =>
         \A m \in rows : m.user # User(r)

(* What SerialRequests promises, kept by the guard of every request. *)
OneRequestEach ==
  \A r, q \in Requests : User(r) = User(q) /\ User(r) # NoUser => r = q

(* A task may go on for its user, end, or start for one without a request. *)
FitsUser(t, u) ==
  t \in Sockets \/ u \in {NoUser, User(t)} \/ \A q \in Requests : User(q) # u

SeatInv == TypeOK /\ OneRow /\ OneRequestEach /\ \A r \in Requests : JoinView(r)

(* When a user has one open row, the membership query finds its party.     *)
LEMMA SoleRow ==
  ASSUME TypeOK, OneRow, NEW m \in rows
  PROVE  Current(m.user) = m.party
<1>1. m.at \in Nat
  BY DEF TypeOK, RowType
<1>2. RowsOf(m.user) = {m}
  BY DEF OneRow, RowsOf
<1>3. LatestRows(m.user) = {m}
  BY <1>1, <1>2 DEF LatestRows
<1>4. LatestRow(m.user) = m
  BY <1>3 DEF LatestRow
<1> QED
  BY <1>3, <1>4 DEF Current

(* A step that keeps the rows and moves one task keeps the invariant when  *)
(* the task's own view holds afterwards.                                   *)
LEMMA ViewStep ==
  ASSUME SeatInv, TypeOK', rows' = rows, NEW t \in Tasks, NEW k,
         task' = [task EXCEPT ![t] = k], t \in Requests => JoinView(t)',
         FitsUser(t, k.user)
  PROVE  SeatInv'
<1>0. OneRequestEach'
  BY TasksAssumption DEF SeatInv, OneRequestEach, FitsUser, User, TypeOK, Tasks
<1>1. OneRow'
  BY DEF SeatInv, OneRow
<1>2. ASSUME NEW r \in Requests PROVE JoinView(r)'
  <2>1. CASE r = t
    BY <2>1
  <2>2. CASE r # t
    <3>1. task'[r] = task[r]
      BY <2>2 DEF SeatInv, TypeOK, Tasks
    <3> QED
      BY <3>1 DEF SeatInv, JoinView, User
  <2> QED
    BY <2>1, <2>2
<1> QED
  BY <1>0, <1>1, <1>2 DEF SeatInv

(* ... and it does when the step goes to where a join knows nothing.       *)
LEMMA FreeStep ==
  ASSUME SeatInv, TypeOK', rows' = rows, NEW t \in Tasks, NEW k,
         task' = [task EXCEPT ![t] = k],
         k.op # "join" \/ k.pc \in {"read", "activate", "tellJoined", "tellParty"},
         FitsUser(t, k.user)
  PROVE  SeatInv'
<1>1. task'[t] = k
  BY DEF SeatInv, TypeOK
<1>2. JoinView(t)'
  BY <1>1 DEF JoinView
<1> QED
  BY <1>2, ViewStep

(* A task that ends knows nothing of rows any more. *)
LEMMA FinishStep ==
  ASSUME SeatInv, TypeOK', rows' = rows, NEW t \in Tasks, Finish(t)
  PROVE  SeatInv'
  BY FreeStep DEF Finish, Idle, FitsUser

(* Under serial requests every step keeps the invariant. *)
LEMMA NextSeat == SerialRequests /\ SeatInv /\ [Next]_vars => SeatInv'
<1> SUFFICES ASSUME SerialRequests, SeatInv, [Next]_vars PROVE SeatInv'
  OBVIOUS
<1>y. TypeOK /\ TypeOK'
  BY NextTypes DEF SeatInv
<1>t. \A t \in Tasks : InPlace(t, task[t])
  BY <1>y, TaskTypes
<1>d. \A t \in Tasks : task[t] \in TaskType
  BY <1>y DEF TypeOK
<1>r. ASSUME NEW t \in Tasks PROVE t \in Requests <=> t \notin Sockets
  BY TasksAssumption DEF Tasks
<1>s. Requests \subseteq Tasks /\ Sockets \subseteq Tasks
  BY DEF Tasks
<1>v. \A r \in Requests : JoinView(r)
  BY DEF SeatInv
<1>1. ASSUME NEW r \in Requests, NEW u \in Users, NEW p \in Parties, StartJoin(r, u, p) PROVE SeatInv'
  BY <1>1, <1>y, <1>s, FreeStep DEF FitsUser, StartJoin, Start, MaySend, Move
<1>2. ASSUME NEW r \in Requests, NEW u \in Users, NEW p \in Parties, StartLeave(r, u, p) PROVE SeatInv'
  BY <1>2, <1>y, <1>s, FreeStep DEF FitsUser, StartLeave, Start, MaySend, Move
<1>3. ASSUME NEW r \in Requests, NEW u \in Users, NEW s \in LiveStatus, StartStatus(r, u, s) PROVE SeatInv'
  BY <1>3, <1>y, <1>s, FreeStep DEF FitsUser, StartStatus, Start, MaySend, Move, LiveStatus
<1>4. ASSUME NEW r \in Requests, NEW u \in Users, NEW p \in Parties, CreateParty(r, u, p) PROVE SeatInv'
  BY <1>4, <1>y, <1>s, FreeStep DEF FitsUser, CreateParty, MaySend, Move
<1>5. ASSUME NEW s \in Sockets, NEW u \in Users, OpenSocket(s, u) PROVE SeatInv'
  BY <1>5, <1>y, <1>s, FreeStep DEF FitsUser, OpenSocket, Move
<1>6. ASSUME NEW s \in Sockets, CloseSocket(s) PROVE SeatInv'
  <2>1. task[s].op # "join"
    BY <1>s, <1>t DEF InPlace, SocketOps
  <2>2. [task[s] EXCEPT !.pc = "tellStill"].op # "join"
    BY <2>1, <1>s, <1>d DEF TaskType
  <2>3. CASE BecameOffline(store, User(s))
    BY <1>6, <1>y, <1>s, <2>3, FreeStep DEF FitsUser, CloseSocket, Move
  <2>4. CASE ~BecameOffline(store, User(s))
    BY <1>6, <1>y, <1>s, <2>2, <2>4, FreeStep DEF FitsUser, CloseSocket, Goto
  <2> QED
    BY <2>3, <2>4
<1>7. ASSUME NEW t \in Tasks, JoinRead(t) PROVE SeatInv'
  <2>1. CASE Finish(t)
    BY <1>7, <1>y, <2>1, FinishStep DEF JoinRead
  <2> DEFINE k == [pc |-> "count", op |-> "join", user |-> User(t), target |-> task[t].target,
                   prev |-> Current(User(t))]
  <2>2. CASE task' = [task EXCEPT ![t] = k]
    <3>1. task'[t] = k
      BY <1>y, <2>2 DEF TypeOK
    <3>2. \A m \in rows : m.user = User(t) => m.party = Current(User(t))
      BY <1>y, SoleRow DEF SeatInv
    <3>3. JoinView(t)'
      BY <1>7, <3>1, <3>2 DEF JoinView, JoinRead, User
    <3> QED
      BY <1>7, <1>y, <2>2, <3>3, ViewStep DEF JoinRead, FitsUser
  <2> QED
    BY <1>7, <2>1, <2>2 DEF JoinRead, Move
<1>8. ASSUME NEW t \in Tasks, CheckCapacity(t) PROVE SeatInv'
  <2>1. task[t].op = "join"
    BY <1>8, <1>t, <1>s DEF CheckCapacity, At, InPlace, TaskType, Places, RequestOps, SocketOps, Labels, LeaveLabels
  <2>2. t \in Requests
    BY <2>1, <1>t, <1>r, <1>s DEF InPlace, SocketOps
  <2>3. CASE Finish(t)
    BY <1>8, <1>y, <2>3, FinishStep DEF CheckCapacity
  <2>4. CASE SeatOrLeave(t)
    <3> DEFINE label == IF task[t].prev = NoParty THEN "insert" ELSE "close"
               k == [task[t] EXCEPT !.pc = label]
    <3>1. /\ task' = [task EXCEPT ![t] = k]
          /\ task'[t] = k /\ k.pc = label /\ k.prev = task[t].prev
          /\ k.user = User(t)
      BY <1>y, <1>d, <1>s, <2>4 DEF SeatOrLeave, Goto, TypeOK, TaskType, User
    <3>2. \A m \in rows : m.user = User(t) => m.party = task[t].prev
      BY <1>8, <1>v, <2>1, <2>2 DEF JoinView, CheckCapacity, At
    <3>3. task[t].prev = NoParty => \A m \in rows : m.user # User(t)
      BY <3>2, <1>y, NullAssumption DEF TypeOK, RowType
    <3>4. rows' = rows
      BY <1>8 DEF CheckCapacity
    <3>5. JoinView(t)'
      <4>1. CASE task[t].prev = NoParty
        <5>1. task'[t].pc = "insert"
          BY <3>1, <4>1
        <5> QED
          BY <3>1, <3>3, <3>4, <4>1, <5>1 DEF JoinView, User
      <4>2. CASE task[t].prev # NoParty
        <5>1. task'[t].pc = "close" /\ task'[t].prev = task[t].prev
          BY <3>1, <4>2
        <5> QED
          BY <3>1, <3>2, <3>4, <5>1 DEF JoinView, User
      <4> QED
        BY <4>1, <4>2
    <3> QED
      BY <1>y, <1>s, <3>1, <3>4, <3>5, ViewStep DEF FitsUser
  <2> QED
    BY <1>8, <2>3, <2>4 DEF CheckCapacity
<1>9. ASSUME NEW r \in Requests, CountFails(r) PROVE SeatInv'
  <2>1. task[r].op = "join"
    BY <1>9, <1>t, <1>s DEF CountFails, At, InPlace, TaskType, Places, RequestOps, SocketOps, Labels, LeaveLabels
  <2>2. r \in Requests
    BY <2>1, <1>t, <1>r, <1>s DEF InPlace, SocketOps
  <2>4. CASE SeatOrLeave(r)
    <3> DEFINE label == IF task[r].prev = NoParty THEN "insert" ELSE "close"
               k == [task[r] EXCEPT !.pc = label]
    <3>1. /\ task' = [task EXCEPT ![r] = k]
          /\ task'[r] = k /\ k.pc = label /\ k.prev = task[r].prev
          /\ k.user = User(r)
      BY <1>y, <1>d, <1>s, <2>4 DEF SeatOrLeave, Goto, TypeOK, TaskType, User
    <3>2. \A m \in rows : m.user = User(r) => m.party = task[r].prev
      BY <1>9, <1>v, <2>1, <2>2 DEF JoinView, CountFails, At
    <3>3. task[r].prev = NoParty => \A m \in rows : m.user # User(r)
      BY <3>2, <1>y, NullAssumption DEF TypeOK, RowType
    <3>4. rows' = rows
      BY <1>9 DEF CountFails
    <3>5. JoinView(r)'
      <4>1. CASE task[r].prev = NoParty
        <5>1. task'[r].pc = "insert"
          BY <3>1, <4>1
        <5> QED
          BY <3>1, <3>3, <3>4, <4>1, <5>1 DEF JoinView, User
      <4>2. CASE task[r].prev # NoParty
        <5>1. task'[r].pc = "close" /\ task'[r].prev = task[r].prev
          BY <3>1, <4>2
        <5> QED
          BY <3>1, <3>2, <3>4, <5>1 DEF JoinView, User
      <4> QED
        BY <4>1, <4>2
    <3> QED
      BY <1>y, <1>s, <3>1, <3>4, <3>5, ViewStep DEF FitsUser
  <2> QED
    BY <1>9, <2>4 DEF CountFails
<1>10. ASSUME NEW t \in Tasks, InsertRow(t) PROVE SeatInv'
  <2> DEFINE u == User(t)
             row == [user |-> u, party |-> task[t].target, at |-> Now(u)]
  <2>1. task[t].op = "join"
    BY <1>10, <1>t DEF InsertRow, At, InPlace, TaskType, Places, RequestOps, SocketOps, Labels, LeaveLabels
  <2>2. t \in Requests
    BY <2>1, <1>t, <1>r DEF InPlace, SocketOps
  <2>3. \A m \in rows : m.user # u
    BY <1>10, <1>v, <2>1, <2>2 DEF JoinView, InsertRow, At
  <2>4. rows' = rows \union {row} /\ row.user = u
    BY <1>10 DEF InsertRow
  <2>5. OneRow'
    BY <2>3, <2>4 DEF SeatInv, OneRow
  <2>6. ASSUME NEW r \in Requests PROVE JoinView(r)'
    <3>1. CASE r = t
      <4>1. task'[t].pc = "activate"
        BY <1>10, <1>y, <1>d DEF InsertRow, Goto, TypeOK, TaskType
      <4> QED
        BY <3>1, <4>1 DEF JoinView
    <3>2. CASE r # t
      <4>1. u # NoUser
        BY <1>t, <2>1, NullAssumption DEF InPlace, User
      <4>0. User(r) # u
        BY <2>2, <3>2, <4>1 DEF SeatInv, OneRequestEach
      <4>2. task'[r] = task[r]
        BY <1>10, <1>y, <1>s, <3>2 DEF InsertRow, Goto, TypeOK
      <4>3. JoinView(r)
        BY <1>v
      <4> HIDE DEF row
      <4> QED
        BY <2>4, <4>0, <4>2, <4>3 DEF JoinView, User
    <3> QED
      BY <3>1, <3>2
  <2>7. OneRequestEach'
    <3>1. \A r \in Requests : task'[r].user = task[r].user
      BY <1>10, <1>y, <1>d, <1>s DEF InsertRow, Goto, TypeOK, TaskType
    <3> QED
      BY <3>1 DEF SeatInv, OneRequestEach, User
  <2> QED
    BY <1>y, <2>5, <2>6, <2>7 DEF SeatInv
<1>11. ASSUME NEW t \in Tasks, Activate(t) PROVE SeatInv'
  <2>1. /\ [task[t] EXCEPT !.pc = "tellJoined"].pc = "tellJoined"
        /\ [task[t] EXCEPT !.pc = "tellJoined"].user = User(t)
    BY <1>d DEF TaskType, User
  <2> QED
    BY <1>11, <1>y, <2>1, FreeStep DEF Activate, Goto, FitsUser
<1>12. ASSUME NEW t \in Tasks, TellJoined(t) PROVE SeatInv'
  <2>1. /\ [task[t] EXCEPT !.pc = "tellParty"].pc = "tellParty"
        /\ [task[t] EXCEPT !.pc = "tellParty"].user = User(t)
    BY <1>d DEF TaskType, User
  <2> QED
    BY <1>12, <1>y, <2>1, FreeStep DEF TellJoined, Goto, FitsUser
<1>13. ASSUME NEW t \in Tasks, TellParty(t) PROVE SeatInv'
  BY <1>13, <1>y, FinishStep DEF TellParty
<1>14. ASSUME NEW t \in Tasks, LeaveRead(t) PROVE SeatInv'
  BY <1>14, <1>y, FreeStep, FinishStep DEF LeaveRead, Move, FitsUser
<1>15. ASSUME NEW t \in Tasks, CloseRows(t) PROVE SeatInv'
  <2>1. rows' \subseteq rows
    BY <1>15 DEF CloseRows
  <2>2. OneRow'
    BY <2>1 DEF SeatInv, OneRow
  <2>3. ASSUME NEW r \in Requests PROVE JoinView(r)'
    <3>1. CASE r = t
      <4>1. task'[t] = [task[t] EXCEPT !.pc = "clear"]
        BY <1>15, <1>y DEF CloseRows, Goto, TypeOK
      <4>2. /\ task'[t].pc = "clear" /\ task'[t].op = task[t].op
            /\ task'[t].user = task[t].user
        BY <4>1, <1>d DEF TaskType
      <4>3. JoinView(t)
        BY <1>v, <3>1
      <4> QED
        BY <1>15, <3>1, <4>2, <4>3 DEF JoinView, CloseRows, At, User
    <3>2. CASE r # t
      <4>1. task'[r] = task[r]
        BY <1>15, <1>y, <1>s, <3>2 DEF CloseRows, Goto, TypeOK
      <4>2. JoinView(r)
        BY <1>v
      <4> QED
        BY <2>1, <4>1, <4>2 DEF JoinView, User
    <3> QED
      BY <3>1, <3>2
  <2>4. OneRequestEach'
    <3>1. \A r \in Requests : task'[r].user = task[r].user
      BY <1>15, <1>y, <1>d, <1>s DEF CloseRows, Goto, TypeOK, TaskType
    <3> QED
      BY <3>1 DEF SeatInv, OneRequestEach, User
  <2> QED
    BY <1>y, <2>2, <2>3, <2>4 DEF SeatInv
<1>16. ASSUME NEW t \in Tasks, ClearActive(t) PROVE SeatInv'
  <2> DEFINE k == [task[t] EXCEPT !.pc = "tellLeft"]
  <2>1. /\ task' = [task EXCEPT ![t] = k] /\ rows' = rows
        /\ task'[t] = k /\ k.pc = "tellLeft" /\ k.op = task[t].op /\ k.user = User(t)
    BY <1>16, <1>y, <1>d DEF ClearActive, Goto, TypeOK, TaskType, User
  <2>2. t \in Requests => JoinView(t)'
    BY <1>16, <1>v, <2>1 DEF JoinView, ClearActive, At, User
  <2> QED
    BY <1>y, <2>1, <2>2, ViewStep DEF FitsUser
<1>17. ASSUME NEW t \in Tasks, TellLeft(t) PROVE SeatInv'
  <2> DEFINE k == [task[t] EXCEPT !.pc = "tellOldParty"]
  <2>1. /\ task' = [task EXCEPT ![t] = k] /\ rows' = rows
        /\ task'[t] = k /\ k.pc = "tellOldParty" /\ k.op = task[t].op /\ k.user = User(t)
    BY <1>17, <1>y, <1>d DEF TellLeft, Goto, TypeOK, TaskType, User
  <2>2. t \in Requests => JoinView(t)'
    BY <1>17, <1>v, <2>1 DEF JoinView, TellLeft, At, User
  <2> QED
    BY <1>y, <2>1, <2>2, ViewStep DEF FitsUser
<1>18. ASSUME NEW t \in Tasks, TellOldParty(t) PROVE SeatInv'
  <2>1. CASE task[t].op = "join"
    <3> DEFINE k == [task[t] EXCEPT !.pc = "insert"]
    <3>1. /\ task' = [task EXCEPT ![t] = k] /\ rows' = rows
          /\ task'[t] = k /\ k.pc = "insert" /\ k.op = task[t].op /\ k.user = User(t)
      BY <1>18, <1>y, <1>d, <2>1 DEF TellOldParty, Goto, TypeOK, TaskType, User
    <3>2. t \in Requests => JoinView(t)'
      BY <1>18, <1>v, <3>1 DEF JoinView, TellOldParty, At, User
    <3> QED
      BY <1>y, <3>1, <3>2, ViewStep DEF FitsUser
  <2>2. CASE task[t].op = "final"
    <3>1. /\ [task[t] EXCEPT !.pc = "tellGone"].op # "join"
          /\ [task[t] EXCEPT !.pc = "tellGone"].user = User(t)
      BY <2>2, <1>d DEF TaskType, User
    <3> QED
      BY <1>18, <1>y, <2>2, <3>1, FreeStep DEF TellOldParty, Goto, FitsUser
  <2>3. CASE task[t].op \notin {"join", "final"}
    BY <1>18, <1>y, <2>3, FinishStep DEF TellOldParty
  <2> QED
    BY <2>1, <2>2, <2>3
<1>19. ASSUME NEW t \in Tasks, GetStatus(t) PROVE SeatInv'
  <2>1. task[t].op # "join"
    BY <1>19, <1>t DEF GetStatus, At, InPlace, TaskType, Places, RequestOps, SocketOps, Labels, LeaveLabels
  <2>2. /\ [task[t] EXCEPT !.pc = "set"].op # "join"
        /\ [task[t] EXCEPT !.pc = "set"].user = User(t)
    BY <2>1, <1>d DEF TaskType, User
  <2> QED
    BY <1>19, <1>y, <2>2, FreeStep, FinishStep DEF GetStatus, Goto, FitsUser
<1>20. ASSUME NEW t \in Tasks, UpdateStatus(t) PROVE SeatInv'
  <2>1. task[t].op # "join"
    BY <1>20, <1>t DEF UpdateStatus, At, InPlace, TaskType, Places, RequestOps, SocketOps, Labels, LeaveLabels
  <2>2. /\ [task[t] EXCEPT !.pc = "tellStatus"].op # "join"
        /\ [task[t] EXCEPT !.pc = "tellStatus"].user = User(t)
    BY <2>1, <1>d DEF TaskType, User
  <2> QED
    BY <1>20, <1>y, <2>2, FreeStep, FinishStep DEF UpdateStatus, Goto, FitsUser
<1>21. ASSUME NEW t \in Tasks, TellOn(t) PROVE SeatInv'
  <2>1. task[t].op # "join"
    BY <1>21, <1>t DEF TellOn, At, InPlace, TaskType, Places, RequestOps, SocketOps, Labels, LeaveLabels
  <2>2. /\ [task[t] EXCEPT !.pc = "open"].op # "join"
        /\ [task[t] EXCEPT !.pc = "open"].user = User(t)
    BY <2>1, <1>d DEF TaskType, User
  <2> QED
    BY <1>21, <1>y, <2>2, FreeStep, FinishStep DEF TellOn, Goto, FitsUser
<1>22. ASSUME NEW t \in Tasks, FinalRead(t) PROVE SeatInv'
  <2>1. /\ [task[t] EXCEPT !.pc = "tellGone"].op # "join"
        /\ [task[t] EXCEPT !.pc = "tellGone"].user = User(t)
    BY <1>22, <1>d DEF FinalRead, TaskType, User
  <2> QED
    BY <1>22, <1>y, <2>1, FreeStep DEF FinalRead, Goto, Move, FitsUser
<1>23. ASSUME NEW t \in Tasks, TellPresence(t) PROVE SeatInv'
  BY <1>23, <1>y, FinishStep DEF TellPresence
<1>24. ASSUME NEW t \in Tasks, Abort(t) PROVE SeatInv'
  BY <1>24, <1>y, FinishStep DEF Abort
<1>25. ASSUME Restart PROVE SeatInv'
  <2>1. \A r \in Requests : JoinView(r)'
    BY <1>25, <1>s DEF Restart, Idle, JoinView
  <2>2. OneRequestEach'
    BY <1>25, <1>s DEF Restart, Idle, OneRequestEach, User
  <2> QED
    BY <1>25, <1>y, <2>1, <2>2 DEF Restart, SeatInv, OneRow
<1>26. ASSUME UNCHANGED vars PROVE SeatInv'
  BY <1>26, <1>y DEF vars, SeatInv, OneRow, OneRequestEach, JoinView, User
<1> QED
  BY <1>1, <1>2, <1>3, <1>4, <1>5, <1>6, <1>7, <1>8, <1>9, <1>10, <1>11, <1>12, <1>13, <1>14, <1>15, <1>16, <1>17, <1>18, <1>19, <1>20, <1>21, <1>22, <1>23, <1>24, <1>25, <1>26
     DEF Next, Client, Step, Fault

(* No request, no row: the invariant holds at the start. *)
LEMMA InitSeat == Init => SeatInv
  BY InitTypes DEF Init, SeatInv, OneRow, OneRequestEach, JoinView, Idle, Tasks, User

(* A user whose requests are serial never has two open rows. *)
THEOREM OneSeatHolds == Spec => []OneSeat
<1>1. CASE SerialRequests
  <2>1. Init => SeatInv
    BY InitSeat
  <2>2. SeatInv /\ [Next]_vars => SeatInv'
    BY <1>1, NextSeat
  <2>3. SeatInv => OneSeat
    BY DEF SeatInv, OneRow, OneSeat
  <2> QED
    BY <2>1, <2>2, <2>3, PTL DEF Spec
<1>2. CASE ~SerialRequests
  <2>1. OneSeat
    BY <1>2 DEF OneSeat
  <2> QED
    BY <2>1, PTL
<1> QED
  BY <1>1, <1>2
----------------------------------------------------------------------------
(* Counted sockets *)

(* A socket task between its connect and its disconnect. *)
Counted(k) == k.pc \in {"tellOn", "open"}

(* SocketCountExact, said of the entry instead of what is shown of it;     *)
(* with the types it is inductive.                                         *)
CountOf(u) ==
  /\ store[u].count = Cardinality(OpenSockets(u))
  /\ store[u].count > 0 => store[u].status # "offline"

CountInv == TypeOK /\ \A u \in Users : CountOf(u)

(* The sockets of a user are finitely many, as Sockets is finite. *)
LEMMA SocketsFinite == \A u : IsFiniteSet(OpenSockets(u)) /\ Cardinality(OpenSockets(u)) \in Nat
<1> SUFFICES ASSUME NEW u PROVE IsFiniteSet(OpenSockets(u)) /\ Cardinality(OpenSockets(u)) \in Nat
  OBVIOUS
<1>1. OpenSockets(u) \subseteq Sockets /\ IsFiniteSet(Sockets)
  BY TasksAssumption DEF OpenSockets
<1> QED
  BY <1>1, FS_Subset, FS_CardinalityType

(* A step of one task that neither opens nor ends a socket leaves every    *)
(* user the sockets she has.                                               *)
LEMMA SameSockets ==
  ASSUME TypeOK, NEW t \in Tasks, NEW k, task' = [task EXCEPT ![t] = k],
         t \in Sockets => /\ Counted(k) <=> Counted(task[t])
                          /\ Counted(k) => k.user = task[t].user,
         NEW u
  PROVE  OpenSockets(u)' = OpenSockets(u)
<1>1. \A s \in Sockets : task'[s] = IF s = t THEN k ELSE task[s]
  BY DEF TypeOK, Tasks
<1> QED
  BY <1>1 DEF OpenSockets, Counted, At, User

(* ... and the count with it when it keeps the counts of the entries. *)
LEMMA SameCounts ==
  ASSUME CountInv, TypeOK', \A u : OpenSockets(u)' = OpenSockets(u),
         \A u \in Users : store'[u].count = store[u].count
                          /\ (store'[u].count > 0 => store'[u].status # "offline")
  PROVE  CountInv'
  BY DEF CountInv, CountOf

(* A step that neither touches the map nor a socket keeps the counts. *)
LEMMA QuietStep ==
  ASSUME CountInv, TypeOK', store' = store, \A u : OpenSockets(u)' = OpenSockets(u)
  PROVE  CountInv'
  BY DEF CountInv, CountOf

(* Which operations of the presence map count. *)
LEMMA StoreCounts ==
  ASSUME NEW st \in [Users -> EntryType(Parties)], NEW u \in Users, NEW v \in Users,
         NEW p \in Parties \union {NoParty}, NEW status \in LiveStatus,
         st[u].count > 0 => st[u].status # "offline",
         st[v].count > 0 => st[v].status # "offline"
  PROVE  /\ Connect(st, u)[v].count = IF v = u THEN st[v].count + 1 ELSE st[v].count
         /\ Disconnect(st, u)[v].count =
              IF v = u /\ st[v].count > 0 THEN st[v].count - 1 ELSE st[v].count
         /\ SetActiveParty(st, u, p)[v].count = st[v].count
         /\ SetStatus(st, u, status)[v].count = st[v].count
<1>1. st[u].count \in Nat /\ st[v].count \in Nat
  BY DEF EntryType
<1>2. EntryOf(st, u).count = st[u].count
  BY DEF EntryOf, HasEntry, NoEntry, FreshEntry
<1>3. Connect(st, u)[v].count = IF v = u THEN st[v].count + 1 ELSE st[v].count
  BY <1>2 DEF Connect
<1>4. Disconnect(st, u)[v].count =
              IF v = u /\ st[v].count > 0 THEN st[v].count - 1 ELSE st[v].count
  <2>1. CASE BecameOffline(st, u)
    BY <1>1, <2>1 DEF Disconnect, BecameOffline, NoEntry
  <2>2. CASE ~BecameOffline(st, u) /\ HasEntry(st, u)
    <3>1. Disconnect(st, u) = [st EXCEPT ![u].count = @ - 1]
      BY <2>2 DEF Disconnect
    <3>2. st[u].count > 1
      BY <1>1, <2>2 DEF BecameOffline
    <3>3. Disconnect(st, u)[u].count = st[u].count - 1
      BY <3>1 DEF EntryType
    <3>4. v # u => Disconnect(st, u)[v] = st[v]
      BY <3>1
    <3> QED
      BY <1>1, <3>2, <3>3, <3>4
  <2>3. CASE ~BecameOffline(st, u) /\ ~HasEntry(st, u)
    BY <2>3 DEF Disconnect, HasEntry, NoEntry
  <2> QED
    BY <2>1, <2>2, <2>3
<1>5. SetActiveParty(st, u, p)[v].count = st[v].count
  BY <1>2 DEF SetActiveParty
<1>6. SetStatus(st, u, status)[v].count = st[v].count
  BY DEF SetStatus, EntryType
<1> QED
  BY <1>3, <1>4, <1>5, <1>6

(* A user with a counted socket is never marked offline by an operation. *)
LEMMA StoreStatus ==
  ASSUME NEW st \in [Users -> EntryType(Parties)], NEW u \in Users, NEW v \in Users,
         NEW p \in Parties \union {NoParty}, NEW status \in LiveStatus,
         st[v].count > 0 => st[v].status # "offline"
  PROVE  /\ Connect(st, u)[v].count > 0 => Connect(st, u)[v].status # "offline"
         /\ Disconnect(st, u)[v].count > 0 => Disconnect(st, u)[v].status # "offline"
         /\ SetActiveParty(st, u, p)[v].count > 0 => SetActiveParty(st, u, p)[v].status # "offline"
         /\ SetStatus(st, u, status)[v].count > 0 => SetStatus(st, u, status)[v].status # "offline"
<1>1. st[v].count \in Nat
  BY DEF EntryType
<1>2. Connect(st, u)[v].count > 0 => Connect(st, u)[v].status # "offline"
  BY DEF Connect
<1>3. Disconnect(st, u)[v].count > 0 => Disconnect(st, u)[v].status # "offline"
  <2>1. CASE BecameOffline(st, u)
    BY <2>1 DEF Disconnect, NoEntry
  <2>2. CASE ~BecameOffline(st, u) /\ HasEntry(st, u)
    <3>1. Disconnect(st, u) = [st EXCEPT ![u].count = @ - 1]
      BY <2>2 DEF Disconnect
    <3>2. st[u].count > 1
      BY <1>1, <2>2 DEF BecameOffline, EntryType
    <3>3. Disconnect(st, u)[v].status = st[v].status
      BY <3>1 DEF EntryType
    <3>4. v # u => Disconnect(st, u)[v] = st[v]
      BY <3>1
    <3> QED
      BY <1>1, <3>2, <3>3, <3>4
  <2>3. CASE ~BecameOffline(st, u) /\ ~HasEntry(st, u)
    BY <2>3 DEF Disconnect
  <2> QED
    BY <2>1, <2>2, <2>3
<1>4. SetActiveParty(st, u, p)[v].count > 0 => SetActiveParty(st, u, p)[v].status # "offline"
  BY DEF SetActiveParty
<1>5. SetStatus(st, u, status)[v].count > 0 => SetStatus(st, u, status)[v].status # "offline"
  BY DEF SetStatus, EntryType, LiveStatus
<1> QED
  BY <1>2, <1>3, <1>4, <1>5

(* Only connect and disconnect change a count, each together with the task *)
(* whose socket it is.                                                     *)
LEMMA NextCounts == CountInv /\ [Next]_vars => CountInv'
<1> SUFFICES ASSUME CountInv, [Next]_vars PROVE CountInv'
  OBVIOUS
<1>y. TypeOK /\ TypeOK'
  BY NextTypes DEF CountInv
<1>t. \A t \in Tasks : InPlace(t, task[t]) /\ task[t] \in TaskType
  BY <1>y, TaskTypes DEF TypeOK
<1>r. ASSUME NEW t \in Tasks PROVE t \in Requests <=> t \notin Sockets
  BY TasksAssumption DEF Tasks
<1>s. Requests \subseteq Tasks /\ Sockets \subseteq Tasks
  BY DEF Tasks
<1>u. ASSUME NEW t \in Tasks, task[t].pc # "idle" PROVE User(t) \in Users
  BY <1>u, <1>t DEF User, InPlace, Places
<1>q. \A r \in Requests : r \in Tasks /\ r \notin Sockets
  BY <1>s, <1>r
<1>g. ASSUME NEW t \in Tasks, NEW label, Goto(t, label), store' = store,
             t \in Sockets => (Counted(task[t]) <=> label \in {"tellOn", "open"})
      PROVE  CountInv'
  <2> DEFINE k == [task[t] EXCEPT !.pc = label]
  <2>1. k.pc = label /\ k.user = task[t].user
    BY <1>t DEF TaskType
  <2>2. \A u : OpenSockets(u)' = OpenSockets(u)
    BY <1>g, <1>y, <2>1, SameSockets DEF Goto, Counted
  <2> QED
    BY <1>g, <1>y, <2>2, QuietStep
<1>f. ASSUME NEW t \in Tasks, Finish(t), store' = store, t \in Sockets => ~Counted(task[t])
      PROVE  CountInv'
  <2>1. \A u : OpenSockets(u)' = OpenSockets(u)
    BY <1>f, <1>y, SameSockets DEF Finish, Counted, Idle
  <2> QED
    BY <1>f, <1>y, <2>1, QuietStep
<1>m. ASSUME NEW t \in Tasks, NEW label, NEW op, NEW user, NEW target, NEW prev,
             Move(t, label, op, user, target, prev), store' = store,
             t \in Sockets => ~Counted(task[t]) /\ label \notin {"tellOn", "open"}
      PROVE  CountInv'
  <2>1. \A u : OpenSockets(u)' = OpenSockets(u)
    BY <1>m, <1>y, SameSockets DEF Move, Counted
  <2> QED
    BY <1>m, <1>y, <2>1, QuietStep
<1>l. \A u \in Users : store[u].count > 0 => store[u].status # "offline"
  BY DEF CountInv, CountOf
<1>w. store \in [Users -> EntryType(Parties)]
  BY <1>y DEF TypeOK
<1>a. ASSUME NEW t \in Tasks, NEW label, Goto(t, label), NEW u \in Users,
             NEW p \in Parties \union {NoParty}, store' = SetActiveParty(store, u, p),
             t \in Sockets => ~Counted(task[t]) /\ label \notin {"tellOn", "open"}
      PROVE  CountInv'
  <2> DEFINE k == [task[t] EXCEPT !.pc = label]
  <2>1. k.pc = label /\ k.user = task[t].user
    BY <1>t DEF TaskType
  <2>2. \A v : OpenSockets(v)' = OpenSockets(v)
    BY <1>a, <1>y, <2>1, SameSockets DEF Goto, Counted
  <2>3. \A v \in Users : /\ store'[v].count = store[v].count
                         /\ store'[v].count > 0 => store'[v].status # "offline"
    BY <1>a, <1>l, <1>w, StoreCounts, StoreStatus DEF LiveStatus
  <2> QED
    BY <1>y, <2>2, <2>3, SameCounts
<1>1. ASSUME NEW r \in Requests, NEW u \in Users, NEW p \in Parties, StartJoin(r, u, p) PROVE CountInv'
  BY <1>1, <1>m, <1>q DEF StartJoin, Start
<1>2. ASSUME NEW r \in Requests, NEW u \in Users, NEW p \in Parties, StartLeave(r, u, p) PROVE CountInv'
  BY <1>2, <1>m, <1>q DEF StartLeave, Start
<1>3. ASSUME NEW r \in Requests, NEW u \in Users, NEW s \in LiveStatus, StartStatus(r, u, s) PROVE CountInv'
  BY <1>3, <1>m, <1>q DEF StartStatus, Start
<1>4. ASSUME NEW r \in Requests, NEW u \in Users, NEW p \in Parties, CreateParty(r, u, p) PROVE CountInv'
  BY <1>4, <1>m, <1>q DEF CreateParty
<1>5. ASSUME NEW s \in Sockets, NEW u \in Users, OpenSocket(s, u) PROVE CountInv'
  <2>1. \A q \in Sockets : task'[q] = IF q = s THEN [pc |-> "tellOn", op |-> "serve", user |-> u,
                                              target |-> NoParty, prev |-> NoParty] ELSE task[q]
    BY <1>5, <1>y, <1>s DEF OpenSocket, Move, TypeOK
  <2>2. s \notin OpenSockets(u)
    BY <1>5 DEF OpenSocket, OpenSockets, At, Idle
  <2>3. OpenSockets(u)' = OpenSockets(u) \union {s}
    BY <2>1 DEF OpenSockets, At, User
  <2>4. Cardinality(OpenSockets(u)') = Cardinality(OpenSockets(u)) + 1
    BY <2>2, <2>3, SocketsFinite, FS_AddElement
  <2>5. ASSUME NEW v \in Users, v # u PROVE OpenSockets(v)' = OpenSockets(v)
    BY <1>5, <2>1, <2>5 DEF OpenSocket, OpenSockets, At, User, Idle
  <2>6. ASSUME NEW v \in Users
        PROVE  /\ store'[v].count = IF v = u THEN store[v].count + 1 ELSE store[v].count
               /\ store'[v].count > 0 => store'[v].status # "offline"
    BY <1>5, <1>l, <1>w, StoreCounts, StoreStatus DEF OpenSocket, LiveStatus
  <2> QED
    BY <1>y, <2>4, <2>5, <2>6 DEF CountInv, CountOf
<1>6. ASSUME NEW s \in Sockets, CloseSocket(s) PROVE CountInv'
  <2>0. PICK u \in Users : u = User(s)
    BY <1>6, <1>s, <1>u DEF CloseSocket, At
  <2>1. /\ task'[s].pc \notin {"tellOn", "open"}
        /\ \A q \in Sockets : q # s => task'[q] = task[q]
    BY <1>6, <1>y, <1>s, <1>t DEF CloseSocket, Move, Goto, TypeOK, TaskType
  <2>2. s \in OpenSockets(u)
    BY <1>6, <2>0 DEF CloseSocket, OpenSockets, At
  <2>3. OpenSockets(u)' = OpenSockets(u) \ {s}
    BY <2>0, <2>1 DEF OpenSockets, At, User
  <2>4. Cardinality(OpenSockets(u)') = Cardinality(OpenSockets(u)) - 1
    BY <2>2, <2>3, SocketsFinite, FS_RemoveElement
  <2>5. ASSUME NEW v \in Users, v # u PROVE OpenSockets(v)' = OpenSockets(v)
    BY <2>0, <2>1, <2>5 DEF OpenSockets, At, User
  <2>6. ASSUME NEW v \in Users
        PROVE  /\ store'[v].count = IF v = u /\ store[v].count > 0
                                     THEN store[v].count - 1 ELSE store[v].count
               /\ store'[v].count > 0 => store'[v].status # "offline"
    BY <1>6, <1>l, <1>w, <2>0, StoreCounts, StoreStatus DEF CloseSocket, LiveStatus
  <2>7. store[u].count > 0
    <3>1. Cardinality(OpenSockets(u)) # 0
      BY <2>2, SocketsFinite, FS_EmptySet
    <3> QED
      BY <2>0, <3>1, SocketsFinite DEF CountInv, CountOf
  <2> QED
    BY <1>y, <2>4, <2>5, <2>6, <2>7 DEF CountInv, CountOf
<1>p. ASSUME NEW t \in Tasks PROVE task[t].pc \in Places(task[t].op) /\ (t \in Sockets => task[t].op \in SocketOps)
  BY <1>t DEF InPlace
<1>7. ASSUME NEW t \in Tasks, JoinRead(t) PROVE CountInv'
  BY <1>7, <1>f, <1>m DEF JoinRead, At, Counted
<1>8. ASSUME NEW t \in Tasks, CheckCapacity(t) PROVE CountInv'
  BY <1>8, <1>f, <1>g DEF CheckCapacity, SeatOrLeave, At, Counted
<1>9. ASSUME NEW r \in Requests, CountFails(r) PROVE CountInv'
  BY <1>9, <1>s, <1>g DEF CountFails, SeatOrLeave, At, Counted
<1>10. ASSUME NEW t \in Tasks, InsertRow(t) PROVE CountInv'
  BY <1>10, <1>g DEF InsertRow, At, Counted
<1>11. ASSUME NEW t \in Tasks, Activate(t) PROVE CountInv'
  <2>1. task[t].target \in Parties \union {NoParty}
    BY <1>t DEF TaskType
  <2> QED
    BY <1>11, <1>u, <1>a, <2>1 DEF Activate, At, Counted
<1>12. ASSUME NEW t \in Tasks, TellJoined(t) PROVE CountInv'
  BY <1>12, <1>g DEF TellJoined, At, Counted
<1>13. ASSUME NEW t \in Tasks, TellParty(t) PROVE CountInv'
  BY <1>13, <1>f DEF TellParty, At, Counted
<1>14. ASSUME NEW t \in Tasks, LeaveRead(t) PROVE CountInv'
  BY <1>14, <1>f, <1>m DEF LeaveRead, At, Counted
<1>15. ASSUME NEW t \in Tasks, CloseRows(t) PROVE CountInv'
  BY <1>15, <1>g DEF CloseRows, At, Counted
<1>16. ASSUME NEW t \in Tasks, ClearActive(t) PROVE CountInv'
  BY <1>16, <1>u, <1>a DEF ClearActive, At, Counted
<1>17. ASSUME NEW t \in Tasks, TellLeft(t) PROVE CountInv'
  BY <1>17, <1>g DEF TellLeft, At, Counted
<1>18. ASSUME NEW t \in Tasks, TellOldParty(t) PROVE CountInv'
  BY <1>18, <1>f, <1>g DEF TellOldParty, At, Counted
<1>19. ASSUME NEW t \in Tasks, GetStatus(t) PROVE CountInv'
  BY <1>19, <1>f, <1>g DEF GetStatus, At, Counted
<1>20. ASSUME NEW t \in Tasks, UpdateStatus(t) PROVE CountInv'
  <2>1. task[t].op \in LiveStatus
    BY <1>20, <1>p, <1>t DEF UpdateStatus, At, LiveStatus, TaskType, Places, RequestOps, SocketOps, LeaveLabels
  <2>2. \A v \in Users : /\ store'[v].count = store[v].count
                         /\ store'[v].count > 0 => store'[v].status # "offline"
    BY <1>20, <1>l, <1>w, <1>u, <2>1, StoreCounts, StoreStatus DEF UpdateStatus, At
  <2> DEFINE k == [task[t] EXCEPT !.pc = "tellStatus"]
  <2>3. k.pc = "tellStatus"
    BY <1>t DEF TaskType
  <2>4. \A v : OpenSockets(v)' = OpenSockets(v)
    BY <1>20, <1>y, <2>3, SameSockets DEF UpdateStatus, At, Goto, Counted
  <2> QED
    BY <1>y, <2>2, <2>4, SameCounts
<1>21. ASSUME NEW t \in Tasks, TellOn(t) PROVE CountInv'
  BY <1>21, <1>g DEF TellOn, At, Counted
<1>22. ASSUME NEW t \in Tasks, FinalRead(t) PROVE CountInv'
  BY <1>22, <1>g, <1>m DEF FinalRead, At, Counted
<1>23. ASSUME NEW t \in Tasks, TellPresence(t) PROVE CountInv'
  BY <1>23, <1>f DEF TellPresence, At, Counted
<1>24. ASSUME NEW t \in Tasks, Abort(t) PROVE CountInv'
  BY <1>24, <1>f DEF Abort, Counted
<1>25. ASSUME Restart PROVE CountInv'
  <2>1. \A u : OpenSockets(u)' = {}
    BY <1>25, <1>s DEF Restart, OpenSockets, At, Idle
  <2>2. \A u \in Users : store'[u].count = 0
    BY <1>25 DEF Restart, NoEntry
  <2>3. \A u : Cardinality(OpenSockets(u))' = 0
    BY <2>1, FS_EmptySet
  <2> QED
    BY <1>y, <2>2, <2>3 DEF CountInv, CountOf
<1>26. ASSUME UNCHANGED vars PROVE CountInv'
  <2>1. \A u : OpenSockets(u)' = OpenSockets(u)
    BY <1>26 DEF vars, OpenSockets, At, User
  <2> QED
    BY <1>26, <1>y, <2>1, QuietStep DEF vars
<1> QED
  BY <1>1, <1>2, <1>3, <1>4, <1>5, <1>6, <1>7, <1>8, <1>9, <1>10, <1>11, <1>12, <1>13, <1>14, <1>15, <1>16, <1>17, <1>18, <1>19, <1>20, <1>21, <1>22, <1>23, <1>24, <1>25, <1>26
     DEF Next, Client, Step, Fault

(* The presence map counts each user's live sockets exactly: she is shown  *)
(* offline exactly when she has none.                                      *)
THEOREM SocketCountHolds == Spec => []SocketCountExact
<1>1. Init => CountInv
  <2> SUFFICES ASSUME Init PROVE CountInv
    OBVIOUS
  <2>1. \A u : OpenSockets(u) = {}
    BY DEF Init, OpenSockets, At, Idle, Tasks
  <2> QED
    BY <2>1, InitTypes, FS_EmptySet DEF Init, CountInv, CountOf, NoEntry
<1>2. CountInv /\ [Next]_vars => CountInv'
  BY NextCounts
<1>3. CountInv => SocketCountExact
  <2> SUFFICES ASSUME CountInv, NEW u \in Users
               PROVE  /\ store[u].count = Cardinality(OpenSockets(u))
                      /\ Snapshot(store, u) = "offline" <=> OpenSockets(u) = {}
    BY DEF SocketCountExact
  <2>1. OpenSockets(u) = {} <=> store[u].count = 0
    BY SocketsFinite, FS_EmptySet DEF CountInv, CountOf
  <2>2. store[u].count \in Nat
    BY DEF CountInv, TypeOK, EntryType
  <2> QED
    BY <2>1, <2>2 DEF CountInv, CountOf, Snapshot, Connected
<1> QED
  BY <1>1, <1>2, <1>3, PTL DEF Spec

----------------------------------------------------------------------------
(* Broadcasts owed *)

(* A handler that writes is left standing at a place from which it will    *)
(* still broadcast; TypeOK is all that AnnouncedOrOwed needs besides.      *)
OweInv == TypeOK /\ AnnouncedOrOwed

(* OwesBroadcast of a task in state k. *)
Owing(k) ==
  \/ k.pc \in {"clear", "tellLeft", "activate", "tellJoined", "tellParty",
               "tellStatus", "tellOn", "tellStill", "tellGone"}
  \/ k.op = "final"

(* Every write puts its handler where it owes a broadcast, and a handler   *)
(* leaves such a place only by broadcasting or failing.                    *)
LEMMA NextOwes == OweInv /\ [Next]_vars => OweInv'
<1> SUFFICES ASSUME OweInv, [Next]_vars PROVE OweInv'
  OBVIOUS
<1>y. TypeOK /\ TypeOK'
  BY NextTypes DEF OweInv
<1>t. \A t \in Tasks : InPlace(t, task[t]) /\ task[t] \in TaskType
  BY <1>y, TaskTypes DEF TypeOK
<1>s. Requests \subseteq Tasks /\ Sockets \subseteq Tasks
  BY DEF Tasks
<1>r. \A r \in Requests : r \in Tasks /\ r \notin Sockets
  BY <1>s, TasksAssumption
<1>o. ASSUME NEW t \in Tasks, Owing(task'[t]) PROVE OweInv'
  BY <1>o, <1>y DEF OweInv, AnnouncedOrOwed, OwesBroadcast, Owing
<1>b. ASSUME Broadcast PROVE OweInv'
  BY <1>b, <1>y DEF OweInv, AnnouncedOrOwed, Broadcast
<1>f. ASSUME faults' = faults + 1 PROVE OweInv'
  BY <1>f, <1>y DEF OweInv, AnnouncedOrOwed, TypeOK
<1>q. ASSUME NEW t \in Tasks, NEW k, task' = [task EXCEPT ![t] = k], ~Owing(task[t]),
             t \in Sockets => ~Counted(task[t]) /\ ~Counted(k),
             announced' = announced, faults' = faults
      PROVE  OweInv'
  <2>1. \A u : OpenSockets(u)' = OpenSockets(u)
    BY <1>q, <1>y, SameSockets
  <2>2. \A q \in Tasks : Owing(task[q]) => Owing(task'[q])
    BY <1>q, <1>y DEF TypeOK
  <2>3. (\E q \in Tasks : OwesBroadcast(q)) => \E q \in Tasks : Owing(task'[q])
    BY <2>2 DEF OwesBroadcast, Owing
  <2>4. CASE \E q \in Tasks : OwesBroadcast(q)
    BY <1>o, <2>3, <2>4
  <2>5. CASE announced \/ faults > 0 \/ \A u \in Users : OpenSockets(u) = {}
    BY <1>q, <1>y, <2>1, <2>5 DEF OweInv, AnnouncedOrOwed
  <2> QED
    BY <2>4, <2>5 DEF OweInv, AnnouncedOrOwed
<1>g. ASSUME NEW t \in Tasks, NEW label, Goto(t, label)
      PROVE  task'[t].pc = label /\ task'[t].op = task[t].op
  BY <1>g, <1>t, <1>y DEF Goto, TypeOK, TaskType
<1>m. ASSUME NEW t \in Tasks, NEW label, NEW op, NEW user, NEW target, NEW prev,
             Move(t, label, op, user, target, prev)
      PROVE  task'[t].pc = label /\ task'[t].op = op
  BY <1>m, <1>y DEF Move, TypeOK
<1>h. ASSUME NEW r \in Requests, NEW u, NEW op, NEW label, NEW target,
             Start(r, u, op, label, target)
      PROVE  OweInv'
  <2>1. ~Owing(task[r]) /\ r \in Tasks /\ r \notin Sockets
    BY <1>h, <1>r DEF Start, Idle, Owing
  <2> QED
    BY <1>h, <1>q, <2>1 DEF Start, Move, NoFailure
<1>1. ASSUME NEW r \in Requests, NEW u \in Users, NEW p \in Parties, StartJoin(r, u, p) PROVE OweInv'
  BY <1>1, <1>h DEF StartJoin
<1>2. ASSUME NEW r \in Requests, NEW u \in Users, NEW p \in Parties, StartLeave(r, u, p) PROVE OweInv'
  BY <1>2, <1>h DEF StartLeave
<1>3. ASSUME NEW r \in Requests, NEW u \in Users, NEW s \in LiveStatus, StartStatus(r, u, s) PROVE OweInv'
  BY <1>3, <1>h DEF StartStatus
<1>4. ASSUME NEW r \in Requests, NEW u \in Users, NEW p \in Parties, CreateParty(r, u, p) PROVE OweInv'
  BY <1>4, <1>m, <1>o, <1>s DEF CreateParty, Owing
<1>5. ASSUME NEW s \in Sockets, NEW u \in Users, OpenSocket(s, u) PROVE OweInv'
  BY <1>5, <1>m, <1>o, <1>s DEF OpenSocket, Owing
<1>6. ASSUME NEW s \in Sockets, CloseSocket(s) PROVE OweInv'
  BY <1>6, <1>g, <1>m, <1>o, <1>s DEF CloseSocket, Owing
<1>7. ASSUME NEW t \in Tasks, JoinRead(t) PROVE OweInv'
  BY <1>7, <1>q DEF JoinRead, Move, Finish, NoFailure, At, Idle, Owing, Counted
<1>8. ASSUME NEW t \in Tasks, CheckCapacity(t) PROVE OweInv'
  <2>1. task[t].op = "join"
    BY <1>8, <1>t DEF CheckCapacity, At, InPlace, Places, LeaveLabels
  <2> DEFINE k == [task[t] EXCEPT !.pc = IF task[t].prev = NoParty THEN "insert" ELSE "close"]
  <2>2. ~Counted(k)
    BY <1>t DEF TaskType, Counted
  <2> HIDE DEF k
  <2>3. CASE Finish(t)
    BY <1>8, <1>q, <2>1, <2>3 DEF CheckCapacity, Finish, NoFailure, At, Idle, Owing, Counted
  <2>4. CASE SeatOrLeave(t)
    <3>1. task' = [task EXCEPT ![t] = k]
      BY <2>4 DEF SeatOrLeave, Goto, k
    <3> QED
      BY <1>8, <1>q, <2>1, <2>2, <3>1 DEF CheckCapacity, NoFailure, At, Owing, Counted
  <2> QED
    BY <1>8, <2>3, <2>4 DEF CheckCapacity
<1>9. ASSUME NEW r \in Requests, CountFails(r) PROVE OweInv'
  BY <1>9, <1>f DEF CountFails
<1>10. ASSUME NEW t \in Tasks, InsertRow(t) PROVE OweInv'
  BY <1>10, <1>g, <1>o DEF InsertRow, Owing
<1>11. ASSUME NEW t \in Tasks, Activate(t) PROVE OweInv'
  BY <1>11, <1>g, <1>o DEF Activate, Owing
<1>12. ASSUME NEW t \in Tasks, TellJoined(t) PROVE OweInv'
  BY <1>12, <1>b DEF TellJoined
<1>13. ASSUME NEW t \in Tasks, TellParty(t) PROVE OweInv'
  BY <1>13, <1>b DEF TellParty
<1>14. ASSUME NEW t \in Tasks, LeaveRead(t) PROVE OweInv'
  BY <1>14, <1>q DEF LeaveRead, Move, Finish, NoFailure, At, Idle, Owing, Counted
<1>15. ASSUME NEW t \in Tasks, CloseRows(t) PROVE OweInv'
  BY <1>15, <1>g, <1>o DEF CloseRows, Owing
<1>16. ASSUME NEW t \in Tasks, ClearActive(t) PROVE OweInv'
  BY <1>16, <1>g, <1>o DEF ClearActive, Owing
<1>17. ASSUME NEW t \in Tasks, TellLeft(t) PROVE OweInv'
  BY <1>17, <1>b DEF TellLeft
<1>18. ASSUME NEW t \in Tasks, TellOldParty(t) PROVE OweInv'
  BY <1>18, <1>b DEF TellOldParty
<1>19. ASSUME NEW t \in Tasks, GetStatus(t) PROVE OweInv'
  <2>1. task[t].op # "final"
    BY <1>19, <1>t DEF GetStatus, At, InPlace, Places, LeaveLabels
  <2> DEFINE k == [task[t] EXCEPT !.pc = "set"]
  <2>2. ~Counted(k)
    BY <1>t DEF TaskType, Counted
  <2> HIDE DEF k
  <2>3. CASE Finish(t)
    BY <1>19, <1>q, <2>1, <2>3 DEF GetStatus, Finish, NoFailure, At, Idle, Owing, Counted
  <2>4. CASE Goto(t, "set")
    <3>1. task' = [task EXCEPT ![t] = k]
      BY <2>4 DEF Goto, k
    <3> QED
      BY <1>19, <1>q, <2>1, <2>2, <3>1 DEF GetStatus, NoFailure, At, Owing, Counted
  <2> QED
    BY <1>19, <2>3, <2>4 DEF GetStatus
<1>20. ASSUME NEW t \in Tasks, UpdateStatus(t) PROVE OweInv'
  BY <1>20, <1>g, <1>o DEF UpdateStatus, Owing
<1>21. ASSUME NEW t \in Tasks, TellOn(t) PROVE OweInv'
  BY <1>21, <1>b DEF TellOn
<1>22. ASSUME NEW t \in Tasks, FinalRead(t) PROVE OweInv'
  BY <1>22, <1>g, <1>m, <1>o DEF FinalRead, Owing
<1>23. ASSUME NEW t \in Tasks, TellPresence(t) PROVE OweInv'
  BY <1>23, <1>b DEF TellPresence
<1>24. ASSUME NEW t \in Tasks, Abort(t) PROVE OweInv'
  BY <1>24, <1>f DEF Abort
<1>25. ASSUME Restart PROVE OweInv'
  <2>1. \A u : OpenSockets(u)' = {}
    BY <1>25, <1>s DEF Restart, OpenSockets, At, Idle
  <2> QED
    BY <1>y, <2>1 DEF OweInv, AnnouncedOrOwed
<1>26. ASSUME UNCHANGED vars PROVE OweInv'
  BY <1>26, <1>y DEF vars, OweInv, AnnouncedOrOwed, OwesBroadcast, OpenSockets, At, User
<1> QED
  BY <1>1, <1>2, <1>3, <1>4, <1>5, <1>6, <1>7, <1>8, <1>9, <1>10, <1>11, <1>12, <1>13, <1>14, <1>15, <1>16, <1>17, <1>18, <1>19, <1>20, <1>21, <1>22, <1>23, <1>24, <1>25, <1>26
     DEF Next, Client, Step, Fault

(* Unless a handler failed between write and broadcast, or nobody listens, *)
(* a home view that changed since the last broadcast is still going to be  *)
(* announced.                                                              *)
THEOREM AnnouncedHolds == Spec => []AnnouncedOrOwed
<1>1. Init => OweInv
  BY InitTypes DEF Init, OweInv, AnnouncedOrOwed
<1>2. OweInv /\ [Next]_vars => OweInv'
  BY NextOwes
<1>3. OweInv => AnnouncedOrOwed
  BY DEF OweInv
<1> QED
  BY <1>1, <1>2, <1>3, PTL DEF Spec
=============================================================================
