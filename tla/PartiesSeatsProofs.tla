------------------------- MODULE PartiesSeatsProofs -------------------------
(***************************************************************************)
(* How full a party can get, and that Parties implements Seats.            *)
(***************************************************************************)
EXTENDS PartiesProofs

----------------------------------------------------------------------------
(* Capacity *)

(* A join in state k is one of Admitted(p). *)
Admits(k, p) ==
  k.op = "join" /\ k.target = p /\ k.pc \in LeaveLabels \union {"insert"}

(* CapacityBound counts a join from its check to its insert, which makes   *)
(* it inductive with the types alone.                                      *)
CapacityInv == TypeOK /\ CapacityBound

(* Members and admitted joins can be counted. *)
LEMMA SeatSets ==
  \A p : /\ IsFiniteSet(Members(p)) /\ Cardinality(Members(p)) \in Nat
         /\ IsFiniteSet(Admitted(p)) /\ Cardinality(Admitted(p)) \in Nat
         /\ Cardinality(Requests) \in Nat
         /\ Cardinality(Admitted(p)) <= Cardinality(Requests)
<1> SUFFICES ASSUME NEW p
             PROVE  /\ IsFiniteSet(Members(p)) /\ Cardinality(Members(p)) \in Nat
                    /\ IsFiniteSet(Admitted(p)) /\ Cardinality(Admitted(p)) \in Nat
                    /\ Cardinality(Requests) \in Nat
                    /\ Cardinality(Admitted(p)) <= Cardinality(Requests)
  OBVIOUS
<1>1. Members(p) \in SUBSET Users /\ Admitted(p) \in SUBSET Requests
  BY DEF Members, Admitted
<1>2. IsFiniteSet(Users) /\ IsFiniteSet(Requests)
  BY TasksAssumption
<1>3. IsFiniteSet(Members(p)) /\ IsFiniteSet(Admitted(p))
      /\ Cardinality(Admitted(p)) <= Cardinality(Requests)
  BY <1>1, <1>2, FS_Subset
<1> QED
  BY <1>2, <1>3, FS_CardinalityType

(* A step of one task admits no join unless it is the step of one. *)
LEMMA AdmittedAfter ==
  ASSUME TypeOK, NEW t \in Tasks, NEW k, task' = [task EXCEPT ![t] = k], NEW p
  PROVE  /\ Admitted(p)' \subseteq Admitted(p) \union {t}
         /\ t \in Requests /\ ~Admits(k, p) => Admitted(p)' = Admitted(p) \ {t}
         /\ (t \in Requests /\ Admits(k, p) => Admits(task[t], p))
              => Admitted(p)' \subseteq Admitted(p)
<1>1. \A r \in Requests : task'[r] = IF r = t THEN k ELSE task[r]
  BY DEF TypeOK, Tasks
<1> QED
  BY <1>1 DEF Admitted, Admits

(* The bound survives when no party gains a member or an admitted join. *)
LEMMA Roomier ==
  ASSUME CapacityInv, TypeOK', rows' \subseteq rows, faults' >= faults,
         NEW p \in Parties, Admitted(p)' \subseteq Admitted(p)
  PROVE  (ActiveMemberCount(p) + Cardinality(Admitted(p))
            <= (VoiceLimit - 1) + Cardinality(Requests) + faults)'
<1>1. Members(p)' \subseteq Members(p)
  BY DEF Members
<1>2. /\ Cardinality(Members(p)') <= Cardinality(Members(p)) /\ Cardinality(Members(p)') \in Nat
      /\ Cardinality(Admitted(p)') <= Cardinality(Admitted(p)) /\ Cardinality(Admitted(p)') \in Nat
  BY <1>1, SeatSets, FS_Subset, FS_CardinalityType
<1>3. faults \in Nat /\ faults' \in Nat /\ VoiceLimit \in Nat
  BY LimitAssumption DEF CapacityInv, TypeOK
<1>4. Cardinality(Members(p)) + Cardinality(Admitted(p))
        <= (VoiceLimit - 1) + Cardinality(Requests) + faults
  BY DEF CapacityInv, CapacityBound, ActiveMemberCount
<1>5. Cardinality(Members(p)') + Cardinality(Admitted(p)')
        <= (VoiceLimit - 1) + Cardinality(Requests) + faults'
  BY <1>2, <1>3, <1>4, SeatSets
<1> QED
  BY <1>5 DEF ActiveMemberCount

(* A join enters Admitted only through a count below the limit, or through *)
(* a failed count, and leaves it as it enters Members.                     *)
LEMMA NextCapacity == CapacityInv /\ [Next]_vars => CapacityInv'
<1> SUFFICES ASSUME CapacityInv, [Next]_vars PROVE CapacityInv'
  OBVIOUS
<1>y. TypeOK /\ TypeOK'
  BY NextTypes DEF CapacityInv
<1>t. \A t \in Tasks : InPlace(t, task[t]) /\ task[t] \in TaskType
  BY <1>y, TaskTypes DEF TypeOK
<1>s. Requests \subseteq Tasks /\ Sockets \subseteq Tasks
  BY DEF Tasks
<1>n. faults \in Nat /\ faults' \in Nat /\ VoiceLimit \in Nat
  BY <1>y, LimitAssumption DEF TypeOK
<1>l. "insert" \notin LeaveLabels
  BY DEF LeaveLabels
<1>a. ASSUME NEW t \in Tasks, NEW k, task' = [task EXCEPT ![t] = k],
             \A p \in Parties : Admits(k, p) => Admits(task[t], p),
             rows' \subseteq rows, faults' >= faults
      PROVE  CapacityInv'
  BY <1>a, <1>y, AdmittedAfter, Roomier DEF CapacityInv, CapacityBound
<1>g. ASSUME NEW t \in Tasks, NEW label, Goto(t, label), rows' \subseteq rows, faults' = faults,
             label \in LeaveLabels \union {"insert"} => task[t].pc \in LeaveLabels
      PROVE  CapacityInv'
  <2> DEFINE k == [task[t] EXCEPT !.pc = label]
  <2>1. k.pc = label /\ k.op = task[t].op /\ k.target = task[t].target
    BY <1>t DEF TaskType
  <2>2. \A p \in Parties : Admits(k, p) => Admits(task[t], p)
    BY <1>g, <2>1 DEF Admits
  <2>3. faults' >= faults /\ task' = [task EXCEPT ![t] = k]
    BY <1>g, <1>n DEF Goto
  <2> HIDE DEF k
  <2> QED
    BY <1>a, <1>g, <2>2, <2>3
<1>f. ASSUME NEW t \in Tasks, Finish(t), rows' = rows, faults' >= faults PROVE CapacityInv'
  <2>1. \A p : ~Admits(Idle, p)
    BY DEF Idle, Admits
  <2>2. rows' \subseteq rows
    BY <1>f
  <2> QED
    BY <1>a, <1>f, <2>1, <2>2 DEF Finish
<1>m. ASSUME NEW t \in Tasks, NEW label, NEW op, NEW user, NEW target, NEW prev,
             Move(t, label, op, user, target, prev), rows' = rows, faults' = faults,
             op # "join" \/ label \in {"read", "count"}
      PROVE  CapacityInv'
  <2> DEFINE k == [pc |-> label, op |-> op, user |-> user, target |-> target, prev |-> prev]
  <2>1. \A p : ~Admits(k, p)
    BY <1>m DEF Admits, LeaveLabels
  <2>2. rows' \subseteq rows /\ faults' >= faults /\ task' = [task EXCEPT ![t] = k]
    BY <1>m, <1>n DEF Move
  <2> HIDE DEF k
  <2> QED
    BY <1>a, <2>1, <2>2
<1>1. ASSUME NEW r \in Requests, NEW u \in Users, NEW p \in Parties, StartJoin(r, u, p) PROVE CapacityInv'
  BY <1>1, <1>m, <1>s DEF StartJoin, Start, NoFailure
<1>2. ASSUME NEW r \in Requests, NEW u \in Users, NEW p \in Parties, StartLeave(r, u, p) PROVE CapacityInv'
  BY <1>2, <1>m, <1>s DEF StartLeave, Start, NoFailure
<1>3. ASSUME NEW r \in Requests, NEW u \in Users, NEW s \in LiveStatus, StartStatus(r, u, s) PROVE CapacityInv'
  BY <1>3, <1>m, <1>s DEF StartStatus, Start, NoFailure, LiveStatus
<1>4. ASSUME NEW r \in Requests, NEW u \in Users, NEW p \in Parties, CreateParty(r, u, p) PROVE CapacityInv'
  BY <1>4, <1>m, <1>s DEF CreateParty, NoFailure
<1>5. ASSUME NEW s \in Sockets, NEW u \in Users, OpenSocket(s, u) PROVE CapacityInv'
  BY <1>5, <1>m, <1>s DEF OpenSocket, NoFailure
<1>6. ASSUME NEW s \in Sockets, CloseSocket(s) PROVE CapacityInv'
  BY <1>6, <1>m, <1>g, <1>s DEF CloseSocket, NoFailure, LeaveLabels
<1>7. ASSUME NEW t \in Tasks, JoinRead(t) PROVE CapacityInv'
  BY <1>7, <1>f, <1>m, <1>n DEF JoinRead, NoFailure
<1>c. ASSUME NEW t \in Requests, SeatOrLeave(t), rows' = rows, task[t].op = "join",
             task[t].pc = "count", NEW p \in Parties
      PROVE  /\ Admitted(p)' \subseteq Requests
             /\ Admitted(p)' \subseteq Admitted(p) \union {t}
             /\ p # task[t].target => Admitted(p)' \subseteq Admitted(p)
             /\ Members(p)' = Members(p)
  <2> DEFINE k == [task[t] EXCEPT !.pc = IF task[t].prev = NoParty THEN "insert" ELSE "close"]
  <2>1. k.target = task[t].target
    BY <1>s, <1>t DEF TaskType
  <2>2. task' = [task EXCEPT ![t] = k]
    BY <1>c DEF SeatOrLeave, Goto
  <2>3. p # task[t].target => ~Admits(k, p)
    BY <2>1 DEF Admits
  <2> HIDE DEF k
  <2>4. /\ Admitted(p)' \subseteq Admitted(p) \union {t}
        /\ p # task[t].target => Admitted(p)' \subseteq Admitted(p)
    BY <1>s, <1>y, <2>2, <2>3, AdmittedAfter
  <2>5. Admitted(p)' \subseteq Requests
    BY DEF Admitted
  <2>6. Members(p)' = Members(p)
    BY <1>c DEF Members
  <2> QED
    BY <2>4, <2>5, <2>6
<1>j. ASSUME NEW t \in Tasks, task[t].pc \in {"count", "insert"} PROVE task[t].op = "join" /\ t \in Requests
  <2>1. task[t].op = "join"
    BY <1>j, <1>t DEF InPlace, Places, LeaveLabels
  <2> QED
    BY <1>t, <2>1 DEF InPlace, SocketOps, Tasks
<1>8. ASSUME NEW t \in Tasks, CheckCapacity(t) PROVE CapacityInv'
  <2>1. CASE Finish(t)
    BY <1>8, <1>f, <1>n, <2>1 DEF CheckCapacity, NoFailure
  <2>2. CASE SeatOrLeave(t) /\ ~(ActiveMemberCount(task[t].target) >= VoiceLimit)
    <3>1. t \in Requests /\ task[t].op = "join" /\ task[t].pc = "count"
      BY <1>8, <1>j DEF CheckCapacity, At
    <3>2. rows' = rows /\ faults' = faults
      BY <1>8 DEF CheckCapacity, NoFailure
    <3>3. ASSUME NEW p \in Parties
          PROVE  (ActiveMemberCount(p) + Cardinality(Admitted(p))
                    <= (VoiceLimit - 1) + Cardinality(Requests) + faults)'
      <4>1. CASE p # task[t].target
        <5>1. Admitted(p)' \subseteq Admitted(p)
          BY <1>c, <2>2, <3>1, <3>2, <4>1
        <5> QED
          BY <1>n, <1>y, <3>2, <5>1, Roomier
      <4>2. CASE p = task[t].target
        <5>1. Admitted(p)' \in SUBSET Requests /\ Members(p)' = Members(p)
          BY <1>c, <2>2, <3>1, <3>2
        <5>2. Cardinality(Members(p)') <= VoiceLimit - 1
          BY <1>n, <2>2, <4>2, <5>1, SeatSets DEF ActiveMemberCount
        <5>3. Cardinality(Admitted(p)') <= Cardinality(Requests) /\ Cardinality(Admitted(p)') \in Nat
          BY <5>1, TasksAssumption, FS_Subset, FS_CardinalityType
        <5>4. Cardinality(Members(p)') \in Nat
          BY <5>1, SeatSets
        <5>5. Cardinality(Members(p)') + Cardinality(Admitted(p)')
                <= (VoiceLimit - 1) + Cardinality(Requests) + faults'
          BY <1>n, <5>2, <5>3, <5>4, SeatSets
        <5> QED
          BY <5>5 DEF ActiveMemberCount
      <4> QED
        BY <4>1, <4>2
    <3> QED
      BY <1>y, <3>3 DEF CapacityInv, CapacityBound
  <2> QED
    BY <1>8, <2>1, <2>2 DEF CheckCapacity
<1>9. ASSUME NEW r \in Requests, CountFails(r) PROVE CapacityInv'
  <2>1. task[r].op = "join" /\ task[r].pc = "count"
    BY <1>9, <1>j, <1>s DEF CountFails, At
  <2>2. rows' = rows /\ faults' = faults + 1 /\ SeatOrLeave(r)
    BY <1>9 DEF CountFails
  <2>3. ASSUME NEW p \in Parties
        PROVE  (ActiveMemberCount(p) + Cardinality(Admitted(p))
                  <= (VoiceLimit - 1) + Cardinality(Requests) + faults)'
    <3>1. Admitted(p)' \in SUBSET (Admitted(p) \union {r}) /\ Members(p)' = Members(p)
      BY <1>c, <2>1, <2>2
    <3>2. IsFiniteSet(Admitted(p) \union {r})
          /\ Cardinality(Admitted(p) \union {r}) <= Cardinality(Admitted(p)) + 1
      <4>1. IsFiniteSet(Admitted(p)) /\ Cardinality(Admitted(p)) \in Nat
        BY SeatSets
      <4>2. /\ IsFiniteSet(Admitted(p) \union {r})
            /\ Cardinality(Admitted(p) \union {r}) =
                 IF r \in Admitted(p) THEN Cardinality(Admitted(p)) ELSE Cardinality(Admitted(p)) + 1
        BY <4>1, FS_AddElement
      <4> QED
        BY <4>1, <4>2
    <3>3. Cardinality(Admitted(p)') <= Cardinality(Admitted(p) \union {r})
          /\ Cardinality(Admitted(p)') \in Nat /\ Cardinality(Admitted(p) \union {r}) \in Nat
      <4>1. /\ Cardinality(Admitted(p)') <= Cardinality(Admitted(p) \union {r})
            /\ IsFiniteSet(Admitted(p)')
        BY <3>1, <3>2, FS_Subset
      <4> QED
        BY <3>2, <4>1, FS_CardinalityType
    <3>4. Cardinality(Members(p)') = Cardinality(Members(p))
      BY <3>1
    <3>5. Cardinality(Members(p)) + Cardinality(Admitted(p))
            <= (VoiceLimit - 1) + Cardinality(Requests) + faults
      BY DEF CapacityInv, CapacityBound, ActiveMemberCount
    <3>6. Cardinality(Members(p)') + Cardinality(Admitted(p)')
            <= (VoiceLimit - 1) + Cardinality(Requests) + faults'
      BY <1>n, <2>2, <3>2, <3>3, <3>4, <3>5, SeatSets
    <3> QED
      BY <3>6 DEF ActiveMemberCount
  <2> QED
    BY <1>y, <2>3 DEF CapacityInv, CapacityBound
<1>10. ASSUME NEW t \in Tasks, InsertRow(t) PROVE CapacityInv'
  <2>1. t \in Requests /\ task[t].op = "join" /\ task[t].pc = "insert"
    BY <1>10, <1>j DEF InsertRow, At
  <2>2. PICK u \in Users, target \in Parties : u = User(t) /\ target = task[t].target
    BY <2>1, <1>t DEF InPlace, User
  <2> DEFINE row == [user |-> u, party |-> target, at |-> Now(u)]
  <2>3. /\ rows' = rows \union {row} /\ faults' = faults
        /\ row.user = u /\ row.party = target
    BY <1>10, <2>2 DEF InsertRow, NoFailure
  <2> HIDE DEF row
  <2> DEFINE k == [task[t] EXCEPT !.pc = "activate"]
  <2>4. task' = [task EXCEPT ![t] = k] /\ \A p : ~Admits(k, p)
    BY <1>10, <1>t DEF InsertRow, Goto, Admits, LeaveLabels, TaskType
  <2> HIDE DEF k
  <2>5. \A p : Admitted(p)' = Admitted(p) \ {t}
    BY <1>y, <2>1, <2>4, AdmittedAfter
  <2>6. ASSUME NEW p \in Parties
        PROVE  (ActiveMemberCount(p) + Cardinality(Admitted(p))
                  <= (VoiceLimit - 1) + Cardinality(Requests) + faults)'
    <3>0. Cardinality(Members(p)) + Cardinality(Admitted(p))
            <= (VoiceLimit - 1) + Cardinality(Requests) + faults
      BY DEF CapacityInv, CapacityBound, ActiveMemberCount
    <3>1. CASE p = target
      <4>1. t \in Admitted(p)
        BY <2>1, <2>2, <3>1 DEF Admitted
      <4>2. Cardinality(Admitted(p)') = Cardinality(Admitted(p)) - 1
        BY <2>5, <4>1, SeatSets, FS_RemoveElement
      <4>3. Members(p)' = Members(p) \union {u}
        <5>1. \A v \in Users : v \in Members(p)' <=> v \in Members(p) \/ v = u
          BY <2>3, <3>1 DEF Members
        <5> QED
          BY <5>1 DEF Members
      <4>4. Cardinality(Members(p)') <= Cardinality(Members(p)) + 1
            /\ Cardinality(Members(p)') \in Nat
        <5>1. IsFiniteSet(Members(p)) /\ Cardinality(Members(p)) \in Nat
          BY SeatSets
        <5> QED
          BY <4>3, <5>1, FS_AddElement
      <4>5. Cardinality(Members(p)') + Cardinality(Admitted(p)')
              <= (VoiceLimit - 1) + Cardinality(Requests) + faults'
        BY <1>n, <2>3, <3>0, <4>2, <4>4, SeatSets
      <4> QED
        BY <4>5 DEF ActiveMemberCount
    <3>2. CASE p # target
      <4>1. t \notin Admitted(p)
        BY <2>2, <3>2 DEF Admitted
      <4>2. Admitted(p)' = Admitted(p)
        BY <2>5, <4>1
      <4>3. Members(p)' = Members(p)
        BY <2>3, <3>2 DEF Members
      <4>4. Cardinality(Members(p)') + Cardinality(Admitted(p)')
              <= (VoiceLimit - 1) + Cardinality(Requests) + faults'
        BY <2>3, <3>0, <4>2, <4>3
      <4> QED
        BY <4>4 DEF ActiveMemberCount
    <3> QED
      BY <3>1, <3>2
  <2> QED
    BY <1>y, <2>6 DEF CapacityInv, CapacityBound
<1>11. ASSUME NEW t \in Tasks, Activate(t) PROVE CapacityInv'
  BY <1>11, <1>g DEF Activate, NoFailure, LeaveLabels
<1>12. ASSUME NEW t \in Tasks, TellJoined(t) PROVE CapacityInv'
  BY <1>12, <1>g DEF TellJoined, NoFailure, LeaveLabels
<1>13. ASSUME NEW t \in Tasks, TellParty(t) PROVE CapacityInv'
  BY <1>13, <1>f, <1>n DEF TellParty, NoFailure
<1>14. ASSUME NEW t \in Tasks, LeaveRead(t) PROVE CapacityInv'
  BY <1>14, <1>f, <1>m, <1>n DEF LeaveRead, NoFailure
<1>15. ASSUME NEW t \in Tasks, CloseRows(t) PROVE CapacityInv'
  <2>1. rows' \subseteq rows
    BY <1>15 DEF CloseRows
  <2> QED
    BY <1>15, <1>g, <2>1 DEF CloseRows, At, NoFailure, LeaveLabels
<1>16. ASSUME NEW t \in Tasks, ClearActive(t) PROVE CapacityInv'
  BY <1>16, <1>g DEF ClearActive, At, NoFailure, LeaveLabels
<1>17. ASSUME NEW t \in Tasks, TellLeft(t) PROVE CapacityInv'
  BY <1>17, <1>g DEF TellLeft, At, NoFailure, LeaveLabels
<1>18. ASSUME NEW t \in Tasks, TellOldParty(t) PROVE CapacityInv'
  BY <1>18, <1>g, <1>f, <1>n DEF TellOldParty, At, NoFailure, LeaveLabels
<1>19. ASSUME NEW t \in Tasks, GetStatus(t) PROVE CapacityInv'
  BY <1>19, <1>g, <1>f, <1>n DEF GetStatus, NoFailure, LeaveLabels
<1>20. ASSUME NEW t \in Tasks, UpdateStatus(t) PROVE CapacityInv'
  BY <1>20, <1>g DEF UpdateStatus, NoFailure, LeaveLabels
<1>21. ASSUME NEW t \in Tasks, TellOn(t) PROVE CapacityInv'
  BY <1>21, <1>g DEF TellOn, NoFailure, LeaveLabels
<1>22. ASSUME NEW t \in Tasks, FinalRead(t) PROVE CapacityInv'
  BY <1>22, <1>g, <1>m DEF FinalRead, NoFailure, LeaveLabels
<1>23. ASSUME NEW t \in Tasks, TellPresence(t) PROVE CapacityInv'
  BY <1>23, <1>f, <1>n DEF TellPresence, NoFailure
<1>24. ASSUME NEW t \in Tasks, Abort(t) PROVE CapacityInv'
  BY <1>24, <1>f, <1>n DEF Abort
<1>25. ASSUME Restart PROVE CapacityInv'
  <2>1. \A p : Admitted(p)' \subseteq Admitted(p)
    BY <1>25, <1>s DEF Restart, Admitted, Idle
  <2>2. rows' \subseteq rows /\ faults' >= faults
    BY <1>25, <1>n DEF Restart
  <2> QED
    BY <1>y, <2>1, <2>2, Roomier DEF CapacityInv, CapacityBound
<1>26. ASSUME UNCHANGED vars PROVE CapacityInv'
  <2>1. \A p : Admitted(p)' \subseteq Admitted(p)
    BY <1>26 DEF vars, Admitted
  <2>2. rows' \subseteq rows /\ faults' >= faults
    BY <1>26, <1>n DEF vars
  <2> QED
    BY <1>y, <2>1, <2>2, Roomier DEF CapacityInv, CapacityBound
<1> QED
  BY <1>1, <1>2, <1>3, <1>4, <1>5, <1>6, <1>7, <1>8, <1>9, <1>10, <1>11, <1>12, <1>13, <1>14, <1>15, <1>16, <1>17, <1>18, <1>19, <1>20, <1>21, <1>22, <1>23, <1>24, <1>25, <1>26
     DEF Next, Client, Step, Fault

(* No member and no join at the start. *)
LEMMA InitCapacity == Init => CapacityInv
<1> SUFFICES ASSUME Init PROVE CapacityInv
  OBVIOUS
<1>1. \A p : Members(p) = {} /\ Admitted(p) = {}
  BY DEF Init, Members, Admitted, Idle, Tasks
<1>2. VoiceLimit - 1 >= 0 /\ Cardinality(Requests) \in Nat /\ faults = 0
  BY LimitAssumption, SeatSets DEF Init
<1>3. \A p \in Parties : ActiveMemberCount(p) = 0 /\ Cardinality(Admitted(p)) = 0
  BY <1>1, FS_EmptySet DEF ActiveMemberCount
<1>4. CapacityBound
  BY <1>2, <1>3, LimitAssumption DEF CapacityBound
<1> QED
  BY <1>4, InitTypes DEF CapacityInv

(* The joins of p past the check and its members never exceed what the     *)
(* limit, the requests in flight and the failed counts allow.              *)
THEOREM CapacityHolds == Spec => []CapacityBound
<1>1. Init => CapacityInv
  BY InitCapacity
<1>2. CapacityInv /\ [Next]_vars => CapacityInv'
  BY NextCapacity
<1>3. CapacityInv => CapacityBound
  BY DEF CapacityInv
<1> QED
  BY <1>1, <1>2, <1>3, PTL DEF Spec

----------------------------------------------------------------------------
(* Refinement *)

(* The bound on failures, which turns CapacityBound into a capacity. *)
LEMMA FaultsBounded == TypeOK /\ faults <= MaxFaults /\ [Next]_vars => faults' <= MaxFaults
<1> SUFFICES ASSUME TypeOK, faults <= MaxFaults, [Next]_vars PROVE faults' <= MaxFaults
  OBVIOUS
<1>1. faults' = faults \/ (faults < MaxFaults /\ faults' = faults + 1)
  BY DEF Next, Client, Step, Fault, StartJoin, StartLeave, StartStatus, Start, CreateParty,
         OpenSocket, CloseSocket, JoinRead, CheckCapacity, InsertRow, Activate, TellJoined,
         TellParty, LeaveRead, CloseRows, ClearActive, TellLeft, TellOldParty, GetStatus,
         UpdateStatus, TellOn, FinalRead, TellPresence, CountFails, Abort, Restart,
         NoFailure, vars
<1> QED
  BY <1>1, BoundsAssumption DEF TypeOK

(* What the refinement needs of the states of Parties. *)
SeatsInv == SeatInv /\ CapacityBound /\ faults <= MaxFaults

(* SoleRow for all rows, to be used in the state after a step. *)
LEMMA SoleRows == TypeOK /\ OneRow => \A m \in rows : Current(m.user) = m.party
  BY SoleRow

(* A user without a row is in no party. *)
LEMMA NoRows == \A u : (\A m \in rows : m.user # u) => Current(u) = NoParty
  BY DEF Current, LatestRows, RowsOf

(* The query answers the same for a user whose rows a step leaves alone. *)
LEMMA SameRows ==
  ASSUME NEW u, \A m : m \in rows' /\ m.user = u <=> m \in rows /\ m.user = u
  PROVE  Current(u)' = Current(u)
<1>1. RowsOf(u)' = RowsOf(u)
  BY DEF RowsOf
<1>2. LatestRows(u)' = LatestRows(u)
  BY <1>1 DEF LatestRows
<1> QED
  BY <1>2 DEF Current, LatestRow

(* SoleRow and NoRows in the state after a step. *)
LEMMA AfterStep ==
  ASSUME TypeOK', OneRow'
  PROVE  /\ \A m \in rows' : Current(m.user)' = m.party
         /\ \A u : (\A m \in rows' : m.user # u) => Current(u)' = NoParty
<1>1. (TypeOK /\ OneRow => \A m \in rows : Current(m.user) = m.party)'
  BY SoleRows, PTL
<1>2. (\A u : (\A m \in rows : m.user # u) => Current(u) = NoParty)'
  BY NoRows, PTL
<1> QED
  BY <1>1, <1>2

(* A party's occupants in Seats are its members. *)
LEMMA SeatedMembers ==
  ASSUME TypeOK, OneRow, NEW p \in Parties
  PROVE  SeatsOf!Occupancy(p) = ActiveMemberCount(p)
<1>1. ASSUME NEW u \in Users PROVE Current(u) = p <=> \E m \in rows : m.user = u /\ m.party = p
  <2>1. CASE \E m \in rows : m.user = u
    BY <2>1, SoleRow
  <2>2. CASE \A m \in rows : m.user # u
    BY <2>2, NoRows, NullAssumption
  <2> QED
    BY <2>1, <2>2
<1>2. {u \in Users : SeatOf[u] = p} = Members(p)
  BY <1>1 DEF SeatOf, Members
<1>3. \A S : SeatsOf!Cardinality(S) = Cardinality(S)
  BY Zenon DEF SeatsOf!Cardinality, Cardinality, SeatsOf!IsFiniteSet, IsFiniteSet
<1> QED
  BY <1>2, <1>3 DEF SeatsOf!Occupancy, ActiveMemberCount

(* ... so a step that leaves all rows alone is a stutter of Seats. *)
LEMMA SameSeats == rows' = rows => SeatOf' = SeatOf
<1> SUFFICES ASSUME rows' = rows PROVE SeatOf' = SeatOf
  OBVIOUS
<1>1. \A u : Current(u)' = Current(u)
  BY SameRows
<1> QED
  BY <1>1 DEF SeatOf

(* The insert of a join is Sit: its user sits nowhere and there is room. *)
LEMMA InsertSits ==
  ASSUME SerialRequests, SeatsInv, SeatInv', NEW t \in Tasks, InsertRow(t)
  PROVE  SeatsOf!Next
<1>y. TypeOK /\ TypeOK' /\ OneRow /\ OneRow' /\ CapacityBound
  BY DEF SeatsInv, SeatInv
<1>1. t \in Requests /\ task[t].op = "join" /\ task[t].pc = "insert"
  BY <1>y, TaskTypes DEF InsertRow, At, InPlace, Places, LeaveLabels, SocketOps, Tasks
<1>2. PICK u \in Users, p \in Parties : u = User(t) /\ p = task[t].target
  BY <1>1, <1>y, TaskTypes DEF InPlace, User
<1> DEFINE row == [user |-> u, party |-> p, at |-> Now(u)]
<1>3. rows' = rows \union {row} /\ row.user = u /\ row.party = p
  BY <1>2 DEF InsertRow
<1> HIDE DEF row
<1>4. \A m \in rows : m.user # u
  BY <1>1, <1>2 DEF SeatsInv, SeatInv, JoinView
<1>5. Current(u) = NoParty /\ Current(u)' = p
  BY <1>3, <1>4, <1>y, NoRows, AfterStep
<1>6. ASSUME NEW v \in Users, v # u PROVE Current(v)' = Current(v)
  BY <1>3, <1>6, SameRows
<1>7. SeatOf[u] = NoParty /\ SeatOf' = [SeatOf EXCEPT ![u] = p]
  BY <1>5, <1>6 DEF SeatOf
<1>8. SeatsOf!Occupancy(p) < (VoiceLimit - 1) + Cardinality(Requests) + MaxFaults
  <2>1. t \in Admitted(p)
    BY <1>1, <1>2 DEF Admitted
  <2>2. Cardinality(Admitted(p)) > 0
    BY <2>1, SeatSets, FS_EmptySet
  <2>3. ActiveMemberCount(p) + Cardinality(Admitted(p))
          <= (VoiceLimit - 1) + Cardinality(Requests) + faults
    BY <1>y DEF CapacityBound
  <2>4. ActiveMemberCount(p) \in Nat
    BY SeatSets DEF ActiveMemberCount
  <2>5. faults <= MaxFaults /\ faults \in Nat
    BY <1>y DEF SeatsInv, TypeOK
  <2>6. ActiveMemberCount(p) < (VoiceLimit - 1) + Cardinality(Requests) + MaxFaults
    BY <2>2, <2>3, <2>4, <2>5, SeatSets, LimitAssumption, BoundsAssumption
  <2> QED
    BY <1>y, <2>6, SeatedMembers
<1>9. SeatsOf!Sit(u, p)
  BY <1>7, <1>8 DEF SeatsOf!Sit
<1> QED
  BY <1>9 DEF SeatsOf!Next

(* The UPDATE of leave_active_party_internal is Stand, or finds no row. *)
LEMMA CloseStands ==
  ASSUME SeatInv, SeatInv', NEW t \in Tasks, CloseRows(t)
  PROVE  SeatsOf!Next \/ SeatOf' = SeatOf
<1>y. TypeOK /\ TypeOK' /\ OneRow /\ OneRow'
  BY DEF SeatInv
<1>1. CASE \E m \in rows : m.user = User(t) /\ m.party = task[t].prev
  <2>1. PICK m \in rows : m.user = User(t) /\ m.party = task[t].prev
    BY <1>1
  <2>2. PICK u \in Users : u = User(t) /\ u = m.user
    BY <1>y, <2>1 DEF TypeOK, RowType
  <2>3. m.party \in Parties
    BY <1>y DEF TypeOK, RowType
  <2>4. rows' = {n \in rows : n.user # u}
    BY <1>y, <2>1, <2>2 DEF CloseRows, OneRow
  <2>5. Current(u) # NoParty /\ Current(u)' = NoParty
    BY <1>y, <2>2, <2>3, <2>4, SoleRow, AfterStep, NullAssumption
  <2>6. ASSUME NEW v \in Users, v # u PROVE Current(v)' = Current(v)
    BY <2>4, <2>6, SameRows
  <2>7. SeatsOf!Stand(u)
    BY <2>5, <2>6 DEF SeatsOf!Stand, SeatOf
  <2> QED
    BY <2>7 DEF SeatsOf!Next
<1>2. CASE ~\E m \in rows : m.user = User(t) /\ m.party = task[t].prev
  <2>1. rows' = rows
    BY <1>2 DEF CloseRows
  <2> QED
    BY <2>1, SameSeats
<1> QED
  BY <1>1, <1>2

(* Every other step leaves the rows alone. *)
LEMMA OtherSteps ==
  [Next]_vars => \/ rows' = rows
                 \/ \E t \in Tasks : InsertRow(t) \/ CloseRows(t)
  BY DEF Next, Client, Step, Fault, StartJoin, StartLeave, StartStatus, Start, CreateParty,
         OpenSocket, CloseSocket, JoinRead, CheckCapacity, Activate, TellJoined,
         TellParty, LeaveRead, ClearActive, TellLeft, TellOldParty, GetStatus,
         UpdateStatus, TellOn, FinalRead, TellPresence, CountFails, Abort, Restart, vars

(* When the requests of each user are serial, the handlers implement Seats *)
(* with the capacity that CapacityBound leaves: what happens between the   *)
(* insert of one join and the next is invisible to it.                     *)
THEOREM SeatsImplemented == SerialRequests => (Spec => ImplementsSeats)
<1> SUFFICES ASSUME SerialRequests PROVE Spec => ImplementsSeats
  OBVIOUS
<1>1. Init => SeatsInv
  BY InitSeat, InitCapacity, BoundsAssumption DEF Init, SeatsInv, CapacityInv
<1>2. SeatsInv /\ [Next]_vars => SeatsInv'
  BY NextSeat, NextCapacity, FaultsBounded DEF SeatsInv, SeatInv, CapacityInv
<1>3. Init => SeatsOf!Init
  BY NoRows DEF Init, SeatsOf!Init, SeatOf
<1>4. SeatsInv /\ SeatsInv' /\ [Next]_vars => [SeatsOf!Next]_SeatOf
  BY InsertSits, CloseStands, OtherSteps, SameSeats DEF SeatsInv
<1> QED
  BY <1>1, <1>2, <1>3, <1>4, PTL DEF Spec, ImplementsSeats, SeatsOf!Spec
=============================================================================
