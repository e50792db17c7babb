--------------------------- MODULE AccountsProofs ---------------------------
(***************************************************************************)
(* Proofs about Accounts, for any accounts, names, invites, browsers and   *)
(* slots.                                                                  *)
(***************************************************************************)
EXTENDS Accounts, FiniteSetTheorems, TLAPS

----------------------------------------------------------------------------
(* The tables *)

(* The row of an existing account is a row. *)
LEMMA RowOfExisting ==
  ASSUME TypeOK
  PROVE  \A u : u \in Existing <=> u \in Ids /\ account[u] \in AccountType
<1>1. NoAccount \notin AccountType
  BY DEF NoAccount, AccountType
<1> QED
  BY <1>1 DEF TypeOK, Existing

(* The conjuncts of TypeOK about the slots, for one slot and a set of      *)
(* accounts.                                                               *)
InPlace(k, accounts) ==
  /\ k \in TaskType
  /\ k.pc \in {"name", "commit"} => k.code \in Invites
  /\ k.pc \in {"name", "commit", "taken", "update", "owner"} => k.name \in Names
  /\ k.pc \in {"session", "taken", "update"} => k.user \in accounts
  /\ k.pc \in {"name", "commit", "session"} => k.jar \in Jars

(* An empty slot is one whatever accounts there are. *)
LEMMA IdleInPlace ==
  ASSUME NEW accounts
  PROVE  InPlace(Idle, accounts)
  BY DEF InPlace, Idle, TaskType, Labels

(* Every slot stands at a place of its own code. *)
LEMMA TasksInPlace ==
  ASSUME TypeOK
  PROVE  \A t \in Tasks : InPlace(task[t], Existing)
  BY DEF TypeOK, InPlace

(* TypeOK from its parts, for a step that adds accounts or none and        *)
(* changes one slot at most.                                               *)
LEMMA TypeOfStep ==
  ASSUME TypeOK,
         account' \in [Ids -> AccountType \union {NoAccount}],
         Existing \subseteq Existing',
         invite' \in [Invites -> InviteType],
         session' \in [Jars -> Ids \union {NoId}],
         \A j \in Jars : session'[j] # NoId => session'[j] \in Existing',
         faults' \in Nat,
         \/ UNCHANGED task
         \/ \E t \in Tasks : \E k :
              InPlace(k, Existing') /\ task' = [task EXCEPT ![t] = k]
  PROVE  TypeOK'
<1>1. \A t \in Tasks : InPlace(task[t], Existing')
  BY TasksInPlace DEF InPlace
<1>2. task' \in [Tasks -> TaskType] /\ \A t \in Tasks : InPlace(task'[t], Existing')
  <2>1. CASE UNCHANGED task
    BY <1>1, <2>1 DEF TypeOK
  <2>2. CASE \E t \in Tasks : \E k : InPlace(k, Existing') /\ task' = [task EXCEPT ![t] = k]
    <3>a. PICK t \in Tasks : \E k : InPlace(k, Existing') /\ task' = [task EXCEPT ![t] = k]
      BY <2>2
    <3>1. PICK k : InPlace(k, Existing') /\ task' = [task EXCEPT ![t] = k]
      BY <3>a
    <3>2. k \in TaskType
      BY <3>1 DEF InPlace
    <3>3. task \in [Tasks -> TaskType]
      BY DEF TypeOK
    <3> QED
      BY <1>1, <3>1, <3>2, <3>3
  <2> QED
    BY <2>1, <2>2
<1> QED
  BY <1>2 DEF TypeOK, InPlace

(* A row is added to the users table and none is changed. *)
LEMMA InsertAdds ==
  ASSUME TypeOK, NEW u \in Ids, NEW n \in Names, NEW role \in {"owner", "member"},
         NEW i \in Invites \union {NoInvite}, Insert(u, n, role, i)
  PROVE  /\ account' \in [Ids -> AccountType \union {NoAccount}]
         /\ u \notin Existing /\ Existing' = Existing \union {u}
         /\ account'[u] = [name |-> n, role |-> role, from |-> i]
         /\ \A v \in Existing : account'[v] = account[v] /\ account[v].name # n
<1> DEFINE row == [name |-> n, role |-> role, from |-> i]
<1>1. row \in AccountType /\ row # NoAccount
  BY DEF AccountType, NoAccount
<1>2. account \in [Ids -> AccountType \union {NoAccount}]
  BY DEF TypeOK
<1>3. u \notin Existing /\ account' = [account EXCEPT ![u] = row]
  BY DEF Insert
<1>4. account'[u] = row /\ \A v \in Ids \ {u} : account'[v] = account[v]
  BY <1>2, <1>3
<1>5. \A v \in Existing : account[v].name # n
  <2>1. NoId \notin Existing
    BY NullAssumption DEF Existing
  <2> QED
    BY <2>1 DEF Insert, Taken
<1> HIDE DEF row
<1>6. Existing' = Existing \union {u}
  BY <1>1, <1>3, <1>4 DEF Existing
<1>7. account' \in [Ids -> AccountType \union {NoAccount}]
  BY <1>1, <1>2, <1>3
<1>8. \A v \in Existing : account'[v] = account[v]
  BY <1>3, <1>4 DEF Existing
<1> QED
  BY <1>3, <1>4, <1>5, <1>6, <1>7, <1>8 DEF row

(* What redeem_invite's transaction does to a slot, an invite and the      *)
(* users when it commits.                                                  *)
LEMMA MarkType ==
  ASSUME TypeOK, NEW i \in Invites, NEW u \in Ids, Mark(i, u)
  PROVE  /\ invite' \in [Invites -> InviteType]
         /\ invite'[i].redeemed /\ invite'[i].by = u
         /\ invite'[i].revoked = invite[i].revoked
         /\ \A o \in Invites \ {i} : invite'[o] = invite[o]
<1> DEFINE row == [made |-> invite[i].made, redeemed |-> TRUE,
                   revoked |-> invite[i].revoked, by |-> u]
<1>1. invite \in [Invites -> InviteType]
  BY DEF TypeOK
<1>2. invite[i].made \in BOOLEAN /\ invite[i].revoked \in BOOLEAN
  BY <1>1 DEF InviteType
<1>3. row \in InviteType
  BY <1>2, Zenon DEF InviteType
<1>4. invite' = [invite EXCEPT ![i] = row]
  BY DEF Mark
<1>5. row.redeemed /\ row.by = u /\ row.revoked = invite[i].revoked
  OBVIOUS
<1> HIDE DEF row
<1> QED
  BY <1>1, <1>3, <1>4, <1>5

----------------------------------------------------------------------------
(* Types *)

(* A slot begins, goes on, or ends. *)
LEMMA SlotMoves ==
  ASSUME TypeOK, NEW t \in Tasks
  PROVE  /\ Finish(t) => \E k : k = Idle /\ task' = [task EXCEPT ![t] = k]
         /\ \A label \in Labels :
              Goto(t, label) =>
                \E k : /\ k = [pc |-> label, jar |-> task[t].jar, user |-> task[t].user,
                               name |-> task[t].name, code |-> task[t].code]
                       /\ task' = [task EXCEPT ![t] = k]
<1>1. task[t] \in TaskType
  BY DEF TypeOK
<1>2. ASSUME NEW label \in Labels, Goto(t, label)
      PROVE  task' = [task EXCEPT ![t] =
                       [pc |-> label, jar |-> task[t].jar, user |-> task[t].user,
                        name |-> task[t].name, code |-> task[t].code]]
  <2>1. [task[t] EXCEPT !.pc = label] =
          [pc |-> label, jar |-> task[t].jar, user |-> task[t].user,
           name |-> task[t].name, code |-> task[t].code]
    BY <1>1 DEF TaskType
  <2>2. task' = [task EXCEPT ![t] = [task[t] EXCEPT !.pc = label]]
    BY <1>2 DEF Goto
  <2> QED
    BY <2>1, <2>2
<1> QED
  BY <1>2 DEF Finish

(* The types hold at first. *)
LEMMA InitType == Init => TypeOK
<1> SUFFICES ASSUME Init PROVE TypeOK
  OBVIOUS
<1>1. \A t \in Tasks : InPlace(task[t], Existing)
  BY IdleInPlace DEF Init
<1>2. account \in [Ids -> AccountType \union {NoAccount}]
  BY DEF Init
<1>3. NotMade \in InviteType
  BY DEF NotMade, InviteType
<1>4. task \in [Tasks -> TaskType]
  BY <1>1 DEF Init, InPlace
<1> QED
  BY <1>1, <1>2, <1>3, <1>4 DEF Init, TypeOK, InPlace

(* TypeOK is inductive: what a handler read it may still rely on, since no *)
(* handler ever removes an account.                                        *)
LEMMA NextType == TypeOK /\ [Next]_vars => TypeOK'
<1> SUFFICES ASSUME TypeOK, [Next]_vars PROVE TypeOK'
  OBVIOUS
<1>0. /\ account \in [Ids -> AccountType \union {NoAccount}]
      /\ invite \in [Invites -> InviteType]
      /\ session \in [Jars -> Ids \union {NoId}]
      /\ \A j \in Jars : session[j] # NoId => session[j] \in Existing
      /\ faults \in Nat
      /\ task \in [Tasks -> TaskType]
  BY DEF TypeOK
<1>a. \A t \in Tasks : InPlace(task[t], Existing)
  BY TasksInPlace
<1>b. ASSUME UNCHANGED <<account, invite, session, faults>>,
             NEW t \in Tasks, NEW k, InPlace(k, Existing),
             task' = [task EXCEPT ![t] = k]
      PROVE  TypeOK'
  <2>1. Existing' = Existing
    BY <1>b DEF Existing
  <2> QED
    BY <1>0, <1>b, <2>1, TypeOfStep
<1>c. ASSUME NEW t \in Tasks, Finish(t), UNCHANGED <<account, invite, session, faults>>
      PROVE  TypeOK'
  BY <1>b, <1>c, IdleInPlace DEF Finish
<1>d. ASSUME NEW t \in Tasks, NEW label \in {"commit", "update"}, Goto(t, label),
             UNCHANGED <<account, invite, session, faults>>,
             task[t].pc = IF label = "commit" THEN "name" ELSE "taken"
      PROVE  TypeOK'
  <2>1. PICK k : /\ k = [pc |-> label, jar |-> task[t].jar, user |-> task[t].user,
                        name |-> task[t].name, code |-> task[t].code]
                /\ task' = [task EXCEPT ![t] = k]
    BY <1>d, SlotMoves DEF Labels
  <2>2. task[t] \in TaskType
    BY <1>0
  <2>3. InPlace(k, Existing)
    BY <1>a, <1>d, <2>1, <2>2 DEF InPlace, TaskType, Labels
  <2> QED
    BY <1>b, <1>d, <2>1, <2>3
<1>1. ASSUME NEW t \in Tasks, NEW n \in Names, CountUsers(t, n)
      PROVE  TypeOK'
  <2> DEFINE k == [pc |-> "owner", jar |-> NoJar, user |-> NoId, name |-> n,
                   code |-> NoInvite]
  <2>1. InPlace(k, Existing)
    BY DEF InPlace, TaskType, Labels
  <2>2. task' = [task EXCEPT ![t] = k] /\ UNCHANGED <<account, invite, session, faults>>
    BY <1>1 DEF CountUsers, Begin
  <2> QED
    BY <1>b, <2>1, <2>2
<1>2. ASSUME NEW t \in Tasks, InsertOwner(t)
      PROVE  TypeOK'
  <2>1. CASE UNCHANGED account
    BY <1>2, <1>c, <2>1 DEF InsertOwner
  <2>2. CASE \E u \in Ids : Insert(u, task[t].name, "owner", NoInvite)
    <3>1. PICK u \in Ids : Insert(u, task[t].name, "owner", NoInvite)
      BY <2>2
    <3>2. task[t].name \in Names
      BY <1>2, <1>a DEF InPlace, InsertOwner, At
    <3>3. /\ account' \in [Ids -> AccountType \union {NoAccount}]
          /\ Existing' = Existing \union {u}
      BY <3>1, <3>2, InsertAdds
    <3>4. InPlace(Idle, Existing') /\ task' = [task EXCEPT ![t] = Idle]
      BY <1>2, IdleInPlace DEF InsertOwner, Finish
    <3>5. UNCHANGED <<invite, session, faults>>
      BY <1>2 DEF InsertOwner
    <3> QED
      BY <1>0, <3>3, <3>4, <3>5, TypeOfStep
  <2> QED
    BY <1>2, <2>1, <2>2 DEF InsertOwner
<1>3. ASSUME NEW j \in Jars, NEW i \in Invites, CreateInvite(j, i) \/ Revoke(j, i)
      PROVE  TypeOK'
  <2>1. invite' \in [Invites -> InviteType]
    BY <1>0, <1>3 DEF CreateInvite, Revoke, InviteType
  <2>2. UNCHANGED <<account, session, task, faults>>
    BY <1>3 DEF CreateInvite, Revoke
  <2>3. Existing' = Existing
    BY <2>2 DEF Existing
  <2> QED
    BY <1>0, <2>1, <2>2, <2>3, TypeOfStep
<1>4. ASSUME NEW t \in Tasks, NEW j \in Jars, NEW n \in Names, NEW i \in Invites,
             LookUp(t, j, n, i)
      PROVE  TypeOK'
  <2> DEFINE k == [pc |-> "name", jar |-> j, user |-> NoId, name |-> n, code |-> i]
  <2>1. InPlace(k, Existing)
    BY DEF InPlace, TaskType, Labels
  <2>2. task' = [task EXCEPT ![t] = k] /\ UNCHANGED <<account, invite, session, faults>>
    BY <1>4 DEF LookUp, Begin
  <2> QED
    BY <1>b, <2>1, <2>2
<1>5. ASSUME NEW t \in Tasks, CheckName(t)
      PROVE  TypeOK'
  <2>1. CASE Finish(t)
    BY <1>5, <1>c, <2>1 DEF CheckName
  <2>2. CASE Goto(t, "commit")
    <3>1. task[t].pc = IF "commit" = "commit" THEN "name" ELSE "taken"
      BY <1>5 DEF CheckName, At
    <3>2. UNCHANGED <<account, invite, session, faults>>
      BY <1>5 DEF CheckName
    <3> QED
      BY <1>d, <2>2, <3>1, <3>2
  <2> QED
    BY <1>5, <2>1, <2>2 DEF CheckName
<1>6. ASSUME NEW t \in Tasks, CommitRedeem(t)
      PROVE  TypeOK'
  <2>1. CASE UNCHANGED account /\ Finish(t) /\ UNCHANGED invite
    BY <1>6, <1>c, <2>1 DEF CommitRedeem
  <2>2. CASE \E u \in Ids : /\ Insert(u, task[t].name, "member", task[t].code)
                           /\ Mark(task[t].code, u)
                           /\ SignUp(t, u)
    <3>1. PICK u \in Ids : /\ Insert(u, task[t].name, "member", task[t].code)
                          /\ Mark(task[t].code, u)
                          /\ SignUp(t, u)
      BY <2>2
    <3>2. task[t].name \in Names /\ task[t].code \in Invites
      BY <1>6, <1>a DEF InPlace, CommitRedeem, At
    <3>3. /\ account' \in [Ids -> AccountType \union {NoAccount}]
          /\ Existing' = Existing \union {u}
      BY <3>1, <3>2, InsertAdds
    <3>4. invite' \in [Invites -> InviteType]
      BY <3>1, <3>2, MarkType
    <3> DEFINE k == [pc |-> "session", jar |-> task[t].jar, user |-> u,
                     name |-> NoName, code |-> NoInvite]
    <3>5. task[t].jar \in Jars
      BY <1>6, <1>a DEF InPlace, CommitRedeem, At
    <3>6. InPlace(k, Existing') /\ task' = [task EXCEPT ![t] = k]
      BY <3>1, <3>3, <3>5 DEF InPlace, SignUp, TaskType, Labels
    <3>7. UNCHANGED <<session, faults>>
      BY <1>6 DEF CommitRedeem
    <3> QED
      BY <1>0, <3>3, <3>4, <3>6, <3>7, TypeOfStep
  <2> QED
    BY <1>6, <2>1, <2>2 DEF CommitRedeem
<1>7. ASSUME NEW t \in Tasks, NEW j \in Jars, NEW u \in Ids, Login(t, j, u)
      PROVE  TypeOK'
  <2> DEFINE k == [pc |-> "session", jar |-> j, user |-> u, name |-> NoName,
                   code |-> NoInvite]
  <2>1. InPlace(k, Existing)
    BY <1>7 DEF InPlace, TaskType, Labels, Login
  <2>2. task' = [task EXCEPT ![t] = k] /\ UNCHANGED <<account, invite, session, faults>>
    BY <1>7 DEF Login, Begin
  <2> QED
    BY <1>b, <2>1, <2>2
<1>8. ASSUME NEW t \in Tasks, CreateSession(t)
      PROVE  TypeOK'
  <2>1. task[t].user \in Existing /\ task[t].jar \in Jars
    BY <1>8, <1>a DEF InPlace, CreateSession, At
  <2>2. /\ session' \in [Jars -> Ids \union {NoId}]
        /\ \A j \in Jars : session'[j] # NoId => session'[j] \in Existing
    BY <1>0, <1>8, <2>1 DEF CreateSession, Existing
  <2>3. Existing' = Existing /\ UNCHANGED <<account, invite, faults>>
    BY <1>8 DEF CreateSession, Existing
  <2>4. InPlace(Idle, Existing') /\ task' = [task EXCEPT ![t] = Idle]
    BY <1>8, IdleInPlace DEF CreateSession, Finish
  <2> QED
    BY <1>0, <2>2, <2>3, <2>4, TypeOfStep
<1>9. ASSUME NEW j \in Jars, EndSession(j)
      PROVE  TypeOK'
  <2>1. /\ session' \in [Jars -> Ids \union {NoId}]
        /\ \A d \in Jars : session'[d] # NoId => session'[d] \in Existing
    BY <1>0, <1>9 DEF EndSession
  <2>2. Existing' = Existing /\ UNCHANGED <<account, invite, faults, task>>
    BY <1>9 DEF EndSession, Existing
  <2> QED
    BY <1>0, <2>1, <2>2, TypeOfStep
<1>10. ASSUME NEW t \in Tasks, NEW j \in Jars, NEW n \in Names, StartRename(t, j, n)
       PROVE  TypeOK'
  <2> DEFINE label == IF n = account[session[j]].name THEN "update" ELSE "taken"
             k == [pc |-> label, jar |-> j, user |-> session[j], name |-> n,
                   code |-> NoInvite]
  <2>1. session[j] \in Existing /\ session[j] \in Ids
    BY <1>0, <1>10, NullAssumption DEF StartRename
  <2>2. InPlace(k, Existing)
    BY <2>1 DEF InPlace, TaskType, Labels
  <2>3. task' = [task EXCEPT ![t] = k] /\ UNCHANGED <<account, invite, session, faults>>
    BY <1>10 DEF StartRename, Begin
  <2> QED
    BY <1>b, <2>2, <2>3
<1>11. ASSUME NEW t \in Tasks, CheckTaken(t)
       PROVE  TypeOK'
  <2>1. CASE Finish(t)
    BY <1>11, <1>c, <2>1 DEF CheckTaken
  <2>2. CASE Goto(t, "update")
    <3>1. task[t].pc = IF "update" = "commit" THEN "name" ELSE "taken"
      BY <1>11 DEF CheckTaken, At
    <3>2. UNCHANGED <<account, invite, session, faults>>
      BY <1>11 DEF CheckTaken
    <3> QED
      BY <1>d, <2>2, <3>1, <3>2
  <2> QED
    BY <1>11, <2>1, <2>2 DEF CheckTaken
<1>12. ASSUME NEW t \in Tasks, Rename(t)
       PROVE  TypeOK'
  <2>1. CASE UNCHANGED account
    BY <1>12, <1>c, <2>1 DEF Rename
  <2>2. CASE account' = [account EXCEPT ![task[t].user].name = task[t].name]
    <3> DEFINE u == task[t].user
               row == [name |-> task[t].name, role |-> account[u].role,
                       from |-> account[u].from]
    <3>1. u \in Existing /\ task[t].name \in Names
      BY <1>12, <1>a DEF InPlace, Rename, At
    <3>2. u \in Ids /\ account[u] \in AccountType
      BY <3>1, RowOfExisting
    <3>3. row \in AccountType /\ row # NoAccount
      BY <3>1, <3>2 DEF AccountType, NoAccount
    <3>4. [account[u] EXCEPT !.name = task[t].name] = row
      BY <3>2 DEF AccountType
    <3>5. account' = [account EXCEPT ![u] = row]
      BY <2>2, <3>4
    <3> HIDE DEF row
    <3>6. account' \in [Ids -> AccountType \union {NoAccount}] /\ Existing' = Existing
      BY <1>0, <3>1, <3>2, <3>3, <3>5 DEF Existing
    <3>7. InPlace(Idle, Existing') /\ task' = [task EXCEPT ![t] = Idle]
      BY <1>12, IdleInPlace DEF Rename, Finish
    <3>8. UNCHANGED <<invite, session, faults>>
      BY <1>12 DEF Rename
    <3> QED
      BY <1>0, <3>6, <3>7, <3>8, TypeOfStep
  <2> QED
    BY <1>12, <2>1, <2>2 DEF Rename
<1>13. ASSUME NEW t \in Tasks, Fail(t)
       PROVE  TypeOK'
  <2>1. InPlace(Idle, Existing') /\ task' = [task EXCEPT ![t] = Idle]
    BY <1>13, IdleInPlace DEF Fail, Finish
  <2>2. Existing' = Existing /\ UNCHANGED <<account, invite, session>> /\ faults' \in Nat
    BY <1>0, <1>13 DEF Fail, Existing
  <2> QED
    BY <1>0, <2>1, <2>2, TypeOfStep
<1>14. CASE UNCHANGED vars
  BY <1>14 DEF vars, TypeOK, Existing
<1> QED
  BY <1>1, <1>2, <1>3, <1>4, <1>5, <1>6, <1>7, <1>8, <1>9, <1>10, <1>11, <1>12,
     <1>13, <1>14 DEF Next

(* Every table and every handler's locals keep their types, and a handler  *)
(* holds what it looked up.                                                *)
THEOREM TypeCorrect == Spec => []TypeOK
  BY InitType, NextType, PTL DEF Spec

----------------------------------------------------------------------------
(* What the steps do to accounts and invites *)

(* No handler starts to redeem, or a bootstrap to insert. *)
NothingNew ==
  \A d \in Tasks :
    /\ task'[d].pc \in {"name", "commit"} =>
         task[d].pc \in {"name", "commit"} /\ task'[d].code = task[d].code
    /\ task'[d].pc = "owner" => task[d].pc = "owner"

Renamed ==
  \E u \in Existing, n \in Names :
    ~Taken(n, u) /\ account' = [account EXCEPT ![u].name = n]

SignsUp(t, u) ==
  /\ At(t, "commit")
  /\ Insert(u, task[t].name, "member", task[t].code)
  /\ Mark(task[t].code, u)
  /\ SignUp(t, u)

BecomesOwner(t, u) ==
  /\ At(t, "owner")
  /\ Insert(u, task[t].name, "owner", NoInvite)
  /\ UNCHANGED invite
  /\ Finish(t)

(* Decisions about invites, other than that one was redeemed. *)
Decided ==
  /\ invite' \in [Invites -> InviteType]
  /\ \A i \in Invites :
       /\ invite'[i].redeemed = invite[i].redeemed /\ invite'[i].by = invite[i].by
       /\ invite[i].revoked => invite'[i].revoked
       /\ invite[i].redeemed => invite'[i].revoked = invite[i].revoked

(* A step that ends a handler, or sends it past its check, starts nothing. *)
LEMMA SlotStep ==
  ASSUME TypeOK, NEW t \in Tasks
  PROVE  /\ Finish(t) => NothingNew
         /\ \A k : task' = [task EXCEPT ![t] = k] /\ k.pc \notin {"name", "commit", "owner"}
               => NothingNew
         /\ At(t, "name") /\ Goto(t, "commit") => NothingNew
         /\ Goto(t, "update") => NothingNew
<1>1. task \in [Tasks -> TaskType]
  BY DEF TypeOK
<1>2. ASSUME NEW k, task' = [task EXCEPT ![t] = k], k.pc \notin {"name", "commit", "owner"}
      PROVE  NothingNew
  BY <1>1, <1>2 DEF NothingNew
<1>3. Finish(t) => NothingNew
  BY <1>2 DEF Finish, Idle
<1>4. ASSUME At(t, "name"), Goto(t, "commit") PROVE NothingNew
  <2>1. PICK k : /\ k = [pc |-> "commit", jar |-> task[t].jar, user |-> task[t].user,
                        name |-> task[t].name, code |-> task[t].code]
                /\ task' = [task EXCEPT ![t] = k]
    BY <1>4, SlotMoves DEF Labels
  <2>2. k.pc = "commit" /\ k.code = task[t].code /\ task[t].pc = "name"
    BY <1>4, <2>1 DEF At
  <2> QED
    BY <1>1, <2>1, <2>2 DEF NothingNew
<1>5. ASSUME Goto(t, "update") PROVE NothingNew
  <2>1. PICK k : /\ k = [pc |-> "update", jar |-> task[t].jar, user |-> task[t].user,
                        name |-> task[t].name, code |-> task[t].code]
                /\ task' = [task EXCEPT ![t] = k]
    BY <1>5, SlotMoves DEF Labels
  <2> QED
    BY <1>2, <2>1
<1> QED
  BY <1>2, <1>3, <1>4, <1>5

(* Every step is of one of five kinds. *)
LEMMA StepKinds ==
  ASSUME TypeOK, [Next]_vars
  PROVE  \/ (UNCHANGED account \/ Renamed) /\ Decided /\ NothingNew
         \/ \E t \in Tasks, n \in Names : CountUsers(t, n)
         \/ \E t \in Tasks, j \in Jars, n \in Names, i \in Invites : LookUp(t, j, n, i)
         \/ \E t \in Tasks, u \in Ids : BecomesOwner(t, u)
         \/ \E t \in Tasks, u \in Ids : SignsUp(t, u)
<1> DEFINE Quiet == (UNCHANGED account \/ Renamed) /\ Decided /\ NothingNew
<1>0. invite \in [Invites -> InviteType] /\ task \in [Tasks -> TaskType]
  BY DEF TypeOK
<1>a. UNCHANGED invite => Decided
  BY <1>0 DEF Decided
<1>b. UNCHANGED task => NothingNew
  BY <1>0 DEF NothingNew
<1>1. ASSUME NEW t \in Tasks, InsertOwner(t)
      PROVE  Quiet \/ \E u \in Ids : BecomesOwner(t, u)
  <2>1. CASE UNCHANGED account
    BY <1>1, <1>a, <2>1, SlotStep DEF InsertOwner
  <2>2. CASE \E u \in Ids : Insert(u, task[t].name, "owner", NoInvite)
    BY <1>1, <2>2 DEF InsertOwner, BecomesOwner
  <2> QED
    BY <1>1, <2>1, <2>2 DEF InsertOwner
<1>2. ASSUME NEW j \in Jars, NEW i \in Invites, CreateInvite(j, i)
      PROVE  Quiet
  <2>1. Decided
    BY <1>0, <1>2 DEF CreateInvite, Decided, InviteType
  <2> QED
    BY <1>2, <1>b, <2>1 DEF CreateInvite
<1>3. ASSUME NEW j \in Jars, NEW i \in Invites, Revoke(j, i)
      PROVE  Quiet
  <2>1. Decided
    BY <1>0, <1>3 DEF Revoke, Decided, InviteType
  <2> QED
    BY <1>3, <1>b, <2>1 DEF Revoke
<1>4. ASSUME NEW t \in Tasks, CheckName(t) PROVE Quiet
  BY <1>4, <1>a, SlotStep DEF CheckName
<1>5. ASSUME NEW t \in Tasks, CommitRedeem(t)
      PROVE  Quiet \/ \E u \in Ids : SignsUp(t, u)
  <2>1. CASE Finish(t) /\ UNCHANGED <<account, invite>>
    BY <1>a, <2>1, SlotStep
  <2>2. CASE \E u \in Ids : /\ Insert(u, task[t].name, "member", task[t].code)
                           /\ Mark(task[t].code, u)
                           /\ SignUp(t, u)
    BY <1>5, <2>2 DEF CommitRedeem, SignsUp
  <2> QED
    BY <1>5, <2>1, <2>2 DEF CommitRedeem
<1>6. ASSUME NEW t \in Tasks, NEW j \in Jars, NEW u \in Ids, Login(t, j, u)
      PROVE  Quiet
  <2> DEFINE k == [pc |-> "session", jar |-> j, user |-> u, name |-> NoName,
                   code |-> NoInvite]
  <2>1. task' = [task EXCEPT ![t] = k] /\ k.pc \notin {"name", "commit", "owner"}
    BY <1>6 DEF Login, Begin
  <2> QED
    BY <1>6, <1>a, <2>1, SlotStep DEF Login
<1>7. ASSUME NEW t \in Tasks, CreateSession(t) PROVE Quiet
  BY <1>7, <1>a, SlotStep DEF CreateSession
<1>8. ASSUME NEW j \in Jars, EndSession(j) PROVE Quiet
  BY <1>8, <1>a, <1>b DEF EndSession
<1>9. ASSUME NEW t \in Tasks, NEW j \in Jars, NEW n \in Names, StartRename(t, j, n)
      PROVE  Quiet
  <2> DEFINE k == [pc |-> IF n = account[session[j]].name THEN "update" ELSE "taken",
                   jar |-> j, user |-> session[j], name |-> n, code |-> NoInvite]
  <2>1. task' = [task EXCEPT ![t] = k] /\ k.pc \notin {"name", "commit", "owner"}
    BY <1>9 DEF StartRename, Begin
  <2> QED
    BY <1>9, <1>a, <2>1, SlotStep DEF StartRename
<1>10. ASSUME NEW t \in Tasks, CheckTaken(t) PROVE Quiet
  BY <1>10, <1>a, SlotStep DEF CheckTaken
<1>11. ASSUME NEW t \in Tasks, Rename(t) PROVE Quiet
  <2>1. task[t].user \in Existing /\ task[t].name \in Names
    BY <1>11, TasksInPlace DEF InPlace, Rename, At
  <2>2. UNCHANGED account \/ Renamed
    BY <1>11, <2>1 DEF Rename, Renamed
  <2> QED
    BY <1>11, <1>a, <2>2, SlotStep DEF Rename
<1>12. ASSUME NEW t \in Tasks, Fail(t) PROVE Quiet
  BY <1>12, <1>a, SlotStep DEF Fail
<1>13. CASE UNCHANGED vars
  BY <1>13, <1>a, <1>b DEF vars
<1> HIDE DEF Quiet
<1>14. Quiet => (UNCHANGED account \/ Renamed) /\ Decided /\ NothingNew
  BY DEF Quiet
<1> QED
  BY <1>1, <1>2, <1>3, <1>4, <1>5, <1>6, <1>7, <1>8, <1>9, <1>10, <1>11, <1>12,
     <1>13, <1>14 DEF Next

(* A rename changes a name and nothing else. *)
LEMMA RenameKeeps ==
  ASSUME TypeOK, NEW u \in Existing, NEW n \in Names,
         account' = [account EXCEPT ![u].name = n]
  PROVE  /\ Existing' = Existing
         /\ account'[u].name = n
         /\ account'[u].role = account[u].role /\ account'[u].from = account[u].from
         /\ \A v \in Existing \ {u} : account'[v] = account[v]
<1> DEFINE row == [name |-> n, role |-> account[u].role, from |-> account[u].from]
<1>1. account[u] \in AccountType /\ u \in Ids
  BY RowOfExisting
<1>2. [account[u] EXCEPT !.name = n] = row
  BY <1>1 DEF AccountType
<1>3. row \in AccountType /\ row # NoAccount
  BY <1>1 DEF AccountType, NoAccount
<1>4. account' = [account EXCEPT ![u] = row]
  BY <1>2
<1>5. row.name = n /\ row.role = account[u].role /\ row.from = account[u].from
  OBVIOUS
<1> HIDE DEF row
<1>6. account \in [Ids -> AccountType \union {NoAccount}]
  BY DEF TypeOK
<1>7. Existing' = Existing
  BY <1>1, <1>3, <1>4, <1>6 DEF Existing
<1> QED
  BY <1>1, <1>4, <1>5, <1>6, <1>7 DEF Existing

----------------------------------------------------------------------------
(* Names *)

(* Every step keeps names unique: inserts and renames check the index. *)
LEMMA NextUnique == TypeOK /\ UniqueNames /\ [Next]_vars => UniqueNames'
<1> SUFFICES ASSUME TypeOK, UniqueNames, [Next]_vars PROVE UniqueNames'
  OBVIOUS
<1>1. ASSUME UNCHANGED account PROVE UniqueNames'
  BY <1>1 DEF UniqueNames, Existing
<1>2. ASSUME NEW u \in Ids, NEW n \in Names, NEW role \in {"owner", "member"},
             NEW i \in Invites \union {NoInvite}, Insert(u, n, role, i)
      PROVE  UniqueNames'
  <2>1. /\ u \notin Existing /\ Existing' = Existing \union {u}
        /\ account'[u] = [name |-> n, role |-> role, from |-> i]
        /\ \A v \in Existing : account'[v] = account[v] /\ account[v].name # n
    BY <1>2, InsertAdds
  <2>2. account'[u].name = n
    BY <2>1
  <2> QED
    BY <2>1, <2>2 DEF UniqueNames
<1>3. ASSUME Renamed PROVE UniqueNames'
  <2>1. PICK u \in Existing, n \in Names :
          ~Taken(n, u) /\ account' = [account EXCEPT ![u].name = n]
    BY <1>3 DEF Renamed
  <2>2. /\ Existing' = Existing
        /\ account'[u].name = n
        /\ \A v \in Existing \ {u} : account'[v] = account[v]
    BY <2>1, RenameKeeps
  <2>3. \A v \in Existing \ {u} : account[v].name # n
    BY <2>1 DEF Taken
  <2> QED
    BY <2>2, <2>3 DEF UniqueNames
<1>4. ASSUME NEW t \in Tasks, NEW u \in Ids, SignsUp(t, u) PROVE UniqueNames'
  <2>1. task[t].name \in Names /\ task[t].code \in Invites
    BY <1>4, TasksInPlace DEF InPlace, SignsUp, At
  <2> QED
    BY <1>2, <1>4, <2>1 DEF SignsUp
<1>5. ASSUME NEW t \in Tasks, NEW u \in Ids, BecomesOwner(t, u) PROVE UniqueNames'
  <2>1. task[t].name \in Names
    BY <1>5, TasksInPlace DEF InPlace, BecomesOwner, At
  <2> QED
    BY <1>2, <1>5, <2>1 DEF BecomesOwner
<1>6. ASSUME NEW t \in Tasks, NEW n \in Names, CountUsers(t, n) PROVE UniqueNames'
  BY <1>1, <1>6 DEF CountUsers
<1>7. ASSUME NEW t \in Tasks, NEW j \in Jars, NEW n \in Names, NEW i \in Invites,
             LookUp(t, j, n, i)
      PROVE  UniqueNames'
  BY <1>1, <1>7 DEF LookUp
<1> QED
  BY <1>1, <1>3, <1>4, <1>5, <1>6, <1>7, StepKinds

(* No two accounts ever share a name: every statement that writes a name   *)
(* is the one the unique index of the users table checks, so the earlier   *)
(* checks of the handlers, and the one a rename skips, may be stale.       *)
THEOREM NamesStayUnique == Spec => []UniqueNames
<1>1. Init => UniqueNames
  BY DEF Init, UniqueNames, Existing
<1> QED
  BY <1>1, NextUnique, TypeCorrect, PTL DEF Spec

----------------------------------------------------------------------------
(* Invites *)

(* What a step makes of the accounts that came in with an invite. *)
LEMMA AccountsOfStep ==
  ASSUME TypeOK, NEW i \in Invites
  PROVE  /\ UNCHANGED account \/ Renamed => AccountsOf(i)' = AccountsOf(i)
         /\ \A t \in Tasks, u \in Ids :
              /\ BecomesOwner(t, u) => AccountsOf(i)' = AccountsOf(i)
              /\ SignsUp(t, u) =>
                   /\ u \notin AccountsOf(i)
                   /\ AccountsOf(i)' =
                        IF i = task[t].code THEN AccountsOf(i) \union {u} ELSE AccountsOf(i)
<1>1. UNCHANGED account => AccountsOf(i)' = AccountsOf(i)
  BY DEF AccountsOf, Existing
<1>2. ASSUME Renamed PROVE AccountsOf(i)' = AccountsOf(i)
  <2>1. PICK u \in Existing, n \in Names : account' = [account EXCEPT ![u].name = n]
    BY <1>2 DEF Renamed
  <2>2. /\ Existing' = Existing
        /\ account'[u].from = account[u].from
        /\ \A v \in Existing \ {u} : account'[v] = account[v]
    BY <2>1, RenameKeeps
  <2> QED
    BY <2>2 DEF AccountsOf
<1>3. ASSUME NEW t \in Tasks, NEW u \in Ids, BecomesOwner(t, u)
      PROVE  AccountsOf(i)' = AccountsOf(i)
  <2>1. task[t].name \in Names
    BY <1>3, TasksInPlace DEF InPlace, BecomesOwner, At
  <2>2. /\ Existing' = Existing \union {u}
        /\ account'[u] = [name |-> task[t].name, role |-> "owner", from |-> NoInvite]
        /\ \A v \in Existing : account'[v] = account[v]
    BY <1>3, <2>1, InsertAdds DEF BecomesOwner
  <2>3. account'[u].from # i
    BY <2>2, NullAssumption
  <2> QED
    BY <2>2, <2>3 DEF AccountsOf
<1>4. ASSUME NEW t \in Tasks, NEW u \in Ids, SignsUp(t, u)
      PROVE  /\ u \notin AccountsOf(i)
             /\ AccountsOf(i)' =
                  IF i = task[t].code THEN AccountsOf(i) \union {u} ELSE AccountsOf(i)
  <2>1. task[t].name \in Names /\ task[t].code \in Invites
    BY <1>4, TasksInPlace DEF InPlace, SignsUp, At
  <2>2. /\ u \notin Existing /\ Existing' = Existing \union {u}
        /\ account'[u] = [name |-> task[t].name, role |-> "member", from |-> task[t].code]
        /\ \A v \in Existing : account'[v] = account[v]
    BY <1>4, <2>1, InsertAdds DEF SignsUp
  <2>3. account'[u].from = task[t].code
    BY <2>2
  <2> QED
    BY <2>2, <2>3 DEF AccountsOf
<1> QED
  BY <1>1, <1>2, <1>3, <1>4

(* Every step keeps invites and accounts agreeing. *)
LEMMA NextRedeemed == TypeOK /\ RedeemedIffAccount /\ [Next]_vars => RedeemedIffAccount'
<1> SUFFICES ASSUME TypeOK, RedeemedIffAccount, [Next]_vars, NEW i \in Invites
             PROVE  IF invite'[i].redeemed THEN invite'[i].by \in AccountsOf(i)'
                                           ELSE AccountsOf(i)' = {}
  BY DEF RedeemedIffAccount
<1> DEFINE Kept == /\ AccountsOf(i)' = AccountsOf(i)
                  /\ invite'[i].redeemed = invite[i].redeemed
                  /\ invite'[i].by = invite[i].by
<1>1. CASE Kept
  BY <1>1 DEF RedeemedIffAccount
<1>2. ASSUME NEW t \in Tasks, NEW u \in Ids, SignsUp(t, u), i # task[t].code
      PROVE  Kept
  <2>1. task[t].code \in Invites
    BY <1>2, TasksInPlace DEF InPlace, SignsUp, At
  <2> QED
    BY <1>2, <2>1, MarkType, AccountsOfStep DEF SignsUp
<1>3. ASSUME NEW t \in Tasks, NEW u \in Ids, SignsUp(t, u), i = task[t].code
      PROVE  invite'[i].redeemed /\ invite'[i].by \in AccountsOf(i)'
  BY <1>3, MarkType, AccountsOfStep DEF SignsUp
<1>4. ASSUME NEW t \in Tasks, NEW u \in Ids, BecomesOwner(t, u) PROVE Kept
  <2>1. UNCHANGED invite
    BY <1>4 DEF BecomesOwner
  <2> QED
    BY <1>4, <2>1, AccountsOfStep
<1>5. CASE (UNCHANGED account \/ Renamed) /\ Decided
  BY <1>1, <1>5, AccountsOfStep DEF Decided
<1>6. ASSUME NEW t \in Tasks, NEW n \in Names, CountUsers(t, n) PROVE Kept
  BY <1>6, AccountsOfStep DEF CountUsers
<1>7. ASSUME NEW t \in Tasks, NEW j \in Jars, NEW n \in Names, NEW o \in Invites,
             LookUp(t, j, n, o)
      PROVE  Kept
  BY <1>7, AccountsOfStep DEF LookUp
<1> HIDE DEF Kept
<1> QED
  BY <1>1, <1>2, <1>3, <1>4, <1>5, <1>6, <1>7, StepKinds

(* Invites and accounts agree: an invite reads as redeemed exactly when an *)
(* account came in with it, and redeemed_by is such an account, whichever  *)
(* step a redeem fails at, since the transaction is all or nothing.        *)
THEOREM InvitesAgree == Spec => []RedeemedIffAccount
<1>1. Init => RedeemedIffAccount
  BY DEF Init, RedeemedIffAccount, AccountsOf, Existing, NotMade
<1> QED
  BY <1>1, NextRedeemed, TypeCorrect, PTL DEF Spec

(* What was decided about an invite stays decided. *)
THEOREM DecisionsStay == Spec => DecisionsStand
<1> DEFINE Stand == \A i \in Invites :
       /\ invite[i].redeemed =>
            invite'[i].redeemed /\ invite'[i].revoked = invite[i].revoked
       /\ invite[i].revoked => invite'[i].revoked
<1>1. ASSUME TypeOK, [Next]_vars PROVE Stand
  <2>1. ASSUME NEW t \in Tasks, NEW u \in Ids, SignsUp(t, u) PROVE Stand
    <3>1. task[t].code \in Invites
      BY <1>1, <2>1, TasksInPlace DEF InPlace, SignsUp, At
    <3> QED
      BY <1>1, <2>1, <3>1, MarkType DEF SignsUp
  <2>2. ASSUME UNCHANGED invite PROVE Stand
    BY <2>2
  <2>3. ASSUME Decided PROVE Stand
    BY <2>3 DEF Decided
  <2> QED
    BY <1>1, <2>1, <2>2, <2>3, StepKinds DEF BecomesOwner, CountUsers, LookUp
<1>2. TypeOK /\ [Next]_vars => [Stand]_vars
  BY <1>1
<1>3. Spec => [][Stand]_vars
  BY <1>2, TypeCorrect, PTL DEF Spec
<1> QED
  BY <1>3 DEF DecisionsStand

----------------------------------------------------------------------------
(* How many a race lets in *)

(* A set of accounts with a set of slots that may still add to it stays    *)
(* within the number of slots, when neither grows or a slot turns into an  *)
(* account.                                                                *)
LEMMA RaceBound ==
  ASSUME NEW A, NEW B, NEW R, NEW S,
         IsFiniteSet(A), IsFiniteSet(R),
         Cardinality(A) + Cardinality(R) <= Cardinality(Tasks),
         \/ B = A /\ S \subseteq R
         \/ \E t \in R : \E u : u \notin A /\ B = A \union {u} /\ S \subseteq R \ {t}
  PROVE  Cardinality(B) + Cardinality(S) <= Cardinality(Tasks)
<1>0. Cardinality(Tasks) \in Nat /\ Cardinality(A) \in Nat /\ Cardinality(R) \in Nat
  BY FS_CardinalityType, FiniteAssumption
<1>1. CASE B = A /\ S \subseteq R
  <2>1. Cardinality(S) \in Nat /\ Cardinality(S) <= Cardinality(R)
    BY <1>1, FS_Subset, FS_CardinalityType
  <2> QED
    BY <1>0, <1>1, <2>1
<1>2. CASE \E t \in R : \E u : u \notin A /\ B = A \union {u} /\ S \subseteq R \ {t}
  <2>a. PICK t \in R : \E u : u \notin A /\ B = A \union {u} /\ S \subseteq R \ {t}
    BY <1>2
  <2>1. PICK u : u \notin A /\ B = A \union {u} /\ S \subseteq R \ {t}
    BY <2>a
  <2>2. Cardinality(B) = Cardinality(A) + 1
    BY <2>1, FS_AddElement
  <2>3. IsFiniteSet(R \ {t}) /\ Cardinality(R \ {t}) = Cardinality(R) - 1
    BY <2>1, FS_RemoveElement
  <2>4. Cardinality(S) \in Nat /\ Cardinality(S) <= Cardinality(R \ {t})
    BY <2>1, <2>3, FS_Subset, FS_CardinalityType
  <2> QED
    BY <1>0, <2>2, <2>3, <2>4
<1> QED
  BY <1>1, <1>2

(* What the bounds count is finite. *)
LEMMA FiniteParts ==
  ASSUME NEW i
  PROVE  /\ IsFiniteSet(AccountsOf(i)) /\ IsFiniteSet(Redeeming(i))
         /\ IsFiniteSet(Owners) /\ IsFiniteSet(Bootstrapping)
         /\ Redeeming(i)' \subseteq Tasks /\ Bootstrapping' \subseteq Tasks
  BY FS_Subset, FiniteAssumption DEF AccountsOf, Redeeming, Owners, Bootstrapping, Existing

(* Every step keeps the bound of an invite. *)
LEMMA NextInviteBound ==
  TypeOK /\ RedeemedIffAccount /\ InviteBound /\ [Next]_vars => InviteBound'
<1> SUFFICES ASSUME TypeOK, RedeemedIffAccount, InviteBound, [Next]_vars, NEW i \in Invites
             PROVE  Cardinality(AccountsOf(i)') + Cardinality(Redeeming(i)')
                      <= Cardinality(Tasks)
  BY DEF InviteBound
<1> DEFINE Goal == Cardinality(AccountsOf(i)') + Cardinality(Redeeming(i)')
                     <= Cardinality(Tasks)
<1>0. /\ IsFiniteSet(AccountsOf(i)) /\ IsFiniteSet(Redeeming(i))
      /\ Cardinality(AccountsOf(i)) + Cardinality(Redeeming(i)) <= Cardinality(Tasks)
      /\ task \in [Tasks -> TaskType]
  BY FiniteParts DEF InviteBound, TypeOK
<1>a. ASSUME AccountsOf(i)' = AccountsOf(i), Redeeming(i)' \subseteq Redeeming(i)
      PROVE  Goal
  BY <1>0, <1>a, RaceBound
<1>1. ASSUME UNCHANGED account \/ Renamed, NothingNew PROVE Goal
  <2>1. Redeeming(i)' \subseteq Redeeming(i)
    BY <1>1 DEF NothingNew, Redeeming
  <2> QED
    BY <1>1, <1>a, <2>1, AccountsOfStep
<1>2. ASSUME NEW t \in Tasks, NEW n \in Names, CountUsers(t, n) PROVE Goal
  <2>1. task'[t].pc = "owner" /\ \A d \in Tasks \ {t} : task'[d] = task[d]
    BY <1>0, <1>2 DEF CountUsers, Begin
  <2>2. Redeeming(i)' \subseteq Redeeming(i)
    BY <2>1 DEF Redeeming
  <2> QED
    BY <1>2, <1>a, <2>2, AccountsOfStep DEF CountUsers
<1>3. ASSUME NEW t \in Tasks, NEW j \in Jars, NEW n \in Names, NEW o \in Invites,
             LookUp(t, j, n, o)
      PROVE  Goal
  <2>1. AccountsOf(i)' = AccountsOf(i)
    BY <1>3, AccountsOfStep DEF LookUp
  <2>2. CASE o = i
    <3>1. AccountsOf(i) = {}
      BY <1>3, <2>2 DEF LookUp, Redeemable, RedeemedIffAccount
    <3>2. Cardinality(Redeeming(i)') \in Nat
          /\ Cardinality(Redeeming(i)') <= Cardinality(Tasks)
      BY FiniteParts, FiniteAssumption, FS_Subset, FS_CardinalityType
    <3>3. Cardinality(AccountsOf(i)') = 0
      BY <2>1, <3>1, FS_EmptySet
    <3>4. Cardinality(Tasks) \in Nat
      BY FiniteAssumption, FS_CardinalityType
    <3> QED
      BY <3>2, <3>3, <3>4
  <2>3. CASE o # i
    <3>1. task'[t].code = o /\ \A d \in Tasks \ {t} : task'[d] = task[d]
      BY <1>0, <1>3 DEF LookUp, Begin
    <3>2. Redeeming(i)' \subseteq Redeeming(i)
      BY <2>3, <3>1 DEF Redeeming
    <3> QED
      BY <1>a, <2>1, <3>2
  <2> QED
    BY <2>2, <2>3
<1>4. ASSUME NEW t \in Tasks, NEW u \in Ids, BecomesOwner(t, u) PROVE Goal
  <2>1. NothingNew
    BY <1>4, SlotStep DEF BecomesOwner
  <2>2. Redeeming(i)' \subseteq Redeeming(i)
    BY <2>1 DEF NothingNew, Redeeming
  <2> QED
    BY <1>4, <1>a, <2>2, AccountsOfStep
<1>5. ASSUME NEW t \in Tasks, NEW u \in Ids, SignsUp(t, u) PROVE Goal
  <2>1. task'[t].pc = "session" /\ \A d \in Tasks \ {t} : task'[d] = task[d]
    BY <1>0, <1>5 DEF SignsUp, SignUp
  <2>2. Redeeming(i)' \subseteq Redeeming(i) \ {t}
    BY <2>1 DEF Redeeming
  <2>3. CASE i = task[t].code
    <3>1. t \in Redeeming(i)
      BY <1>5, <2>3 DEF Redeeming, SignsUp, At
    <3>2. u \notin AccountsOf(i) /\ AccountsOf(i)' = AccountsOf(i) \union {u}
      BY <1>5, <2>3, AccountsOfStep
    <3> QED
      BY <1>0, <2>2, <3>1, <3>2, RaceBound
  <2>4. CASE i # task[t].code
    <3>1. AccountsOf(i)' = AccountsOf(i)
      BY <1>5, <2>4, AccountsOfStep
    <3> QED
      BY <1>a, <2>2, <3>1
  <2> QED
    BY <2>3, <2>4
<1> HIDE DEF Goal
<1>6. Goal
  BY <1>1, <1>2, <1>3, <1>4, <1>5, StepKinds
<1> QED
  BY <1>6 DEF Goal

(* An invite lets in no more accounts than there were redeems of it in     *)
(* flight at one time: a lookup needs an invite nobody came in with.       *)
THEOREM InviteRaceBounded == Spec => []InviteBound
<1>1. Init => InviteBound
  <2> SUFFICES ASSUME Init, NEW i \in Invites
               PROVE  Cardinality(AccountsOf(i)) + Cardinality(Redeeming(i))
                        <= Cardinality(Tasks)
    BY DEF InviteBound
  <2>1. AccountsOf(i) = {} /\ Redeeming(i) = {}
    BY DEF Init, AccountsOf, Redeeming, Existing, Idle
  <2>2. Cardinality(Tasks) \in Nat
    BY FiniteAssumption, FS_CardinalityType
  <2> QED
    BY <2>1, <2>2, FS_EmptySet
<1> QED
  BY <1>1, NextInviteBound, TypeCorrect, InvitesAgree, PTL DEF Spec

(* What a step makes of the owners. *)
LEMMA OwnersStep ==
  ASSUME TypeOK
  PROVE  /\ UNCHANGED account \/ Renamed => Owners' = Owners
         /\ \A t \in Tasks, u \in Ids :
              /\ SignsUp(t, u) => Owners' = Owners
              /\ BecomesOwner(t, u) => u \notin Owners /\ Owners' = Owners \union {u}
<1>1. UNCHANGED account => Owners' = Owners
  BY DEF Owners, Existing
<1>2. ASSUME Renamed PROVE Owners' = Owners
  <2>1. PICK u \in Existing, n \in Names : account' = [account EXCEPT ![u].name = n]
    BY <1>2 DEF Renamed
  <2>2. /\ Existing' = Existing
        /\ account'[u].role = account[u].role
        /\ \A v \in Existing \ {u} : account'[v] = account[v]
    BY <2>1, RenameKeeps
  <2> QED
    BY <2>2 DEF Owners
<1>3. ASSUME NEW t \in Tasks, NEW u \in Ids, SignsUp(t, u) PROVE Owners' = Owners
  <2>1. task[t].name \in Names /\ task[t].code \in Invites
    BY <1>3, TasksInPlace DEF InPlace, SignsUp, At
  <2>2. /\ Existing' = Existing \union {u}
        /\ account'[u] = [name |-> task[t].name, role |-> "member", from |-> task[t].code]
        /\ \A v \in Existing : account'[v] = account[v]
    BY <1>3, <2>1, InsertAdds DEF SignsUp
  <2>3. account'[u].role # "owner"
    BY <2>2
  <2> QED
    BY <2>2, <2>3 DEF Owners
<1>4. ASSUME NEW t \in Tasks, NEW u \in Ids, BecomesOwner(t, u)
      PROVE  u \notin Owners /\ Owners' = Owners \union {u}
  <2>1. task[t].name \in Names
    BY <1>4, TasksInPlace DEF InPlace, BecomesOwner, At
  <2>2. /\ u \notin Existing /\ Existing' = Existing \union {u}
        /\ account'[u] = [name |-> task[t].name, role |-> "owner", from |-> NoInvite]
        /\ \A v \in Existing : account'[v] = account[v]
    BY <1>4, <2>1, InsertAdds DEF BecomesOwner
  <2>3. account'[u].role = "owner"
    BY <2>2
  <2> QED
    BY <2>2, <2>3 DEF Owners
<1> QED
  BY <1>1, <1>2, <1>3, <1>4

(* Every step keeps the bound of the owners. *)
LEMMA NextOwnerBound == TypeOK /\ OwnerBound /\ [Next]_vars => OwnerBound'
<1> SUFFICES ASSUME TypeOK, OwnerBound, [Next]_vars PROVE OwnerBound'
  OBVIOUS
<1>0. /\ IsFiniteSet(Owners) /\ IsFiniteSet(Bootstrapping)
      /\ Cardinality(Owners) + Cardinality(Bootstrapping) <= Cardinality(Tasks)
      /\ task \in [Tasks -> TaskType]
  BY FiniteParts DEF OwnerBound, TypeOK
<1>a. ASSUME Owners' = Owners, Bootstrapping' \subseteq Bootstrapping PROVE OwnerBound'
  BY <1>0, <1>a, RaceBound DEF OwnerBound
<1>b. NothingNew => Bootstrapping' \subseteq Bootstrapping
  BY DEF NothingNew, Bootstrapping, At
<1>1. ASSUME UNCHANGED account \/ Renamed, NothingNew PROVE OwnerBound'
  BY <1>1, <1>a, <1>b, OwnersStep
<1>2. ASSUME NEW t \in Tasks, NEW n \in Names, CountUsers(t, n) PROVE OwnerBound'
  <2>1. Owners' = {}
    BY <1>2 DEF CountUsers, Owners, Existing
  <2>2. Cardinality(Bootstrapping') \in Nat
        /\ Cardinality(Bootstrapping') <= Cardinality(Tasks)
    BY FiniteParts, FiniteAssumption, FS_Subset, FS_CardinalityType
  <2>3. Cardinality(Tasks) \in Nat /\ Cardinality(Owners') = 0
    BY <2>1, FiniteAssumption, FS_CardinalityType, FS_EmptySet
  <2> QED
    BY <2>2, <2>3 DEF OwnerBound
<1>3. ASSUME NEW t \in Tasks, NEW j \in Jars, NEW n \in Names, NEW i \in Invites,
             LookUp(t, j, n, i)
      PROVE  OwnerBound'
  <2>1. task'[t].pc = "name" /\ \A d \in Tasks \ {t} : task'[d] = task[d]
    BY <1>0, <1>3 DEF LookUp, Begin
  <2>2. Bootstrapping' \subseteq Bootstrapping
    BY <2>1 DEF Bootstrapping, At
  <2> QED
    BY <1>3, <1>a, <2>2, OwnersStep DEF LookUp
<1>4. ASSUME NEW t \in Tasks, NEW u \in Ids, SignsUp(t, u) PROVE OwnerBound'
  <2>1. task'[t].pc = "session" /\ \A d \in Tasks \ {t} : task'[d] = task[d]
    BY <1>0, <1>4 DEF SignsUp, SignUp
  <2>2. Bootstrapping' \subseteq Bootstrapping
    BY <2>1 DEF Bootstrapping, At
  <2> QED
    BY <1>4, <1>a, <2>2, OwnersStep
<1>5. ASSUME NEW t \in Tasks, NEW u \in Ids, BecomesOwner(t, u) PROVE OwnerBound'
  <2>1. task'[t].pc = "idle" /\ \A d \in Tasks \ {t} : task'[d] = task[d]
    BY <1>0, <1>5 DEF BecomesOwner, Finish, Idle
  <2>2. t \in Bootstrapping /\ Bootstrapping' \subseteq Bootstrapping \ {t}
    BY <1>5, <2>1 DEF Bootstrapping, At, BecomesOwner
  <2>3. u \notin Owners /\ Owners' = Owners \union {u}
    BY <1>5, OwnersStep
  <2> QED
    BY <1>0, <2>2, <2>3, RaceBound DEF OwnerBound
<1> QED
  BY <1>1, <1>2, <1>3, <1>4, <1>5, StepKinds

(* An empty database gets no more owners than there were bootstrap         *)
(* commands in flight at one time.                                         *)
THEOREM OwnerRaceBounded == Spec => []OwnerBound
<1>1. Init => OwnerBound
  <2> SUFFICES ASSUME Init PROVE OwnerBound
    OBVIOUS
  <2>1. Owners = {} /\ Bootstrapping = {}
    BY DEF Init, Owners, Bootstrapping, Existing, Idle, At
  <2>2. Cardinality(Tasks) \in Nat
    BY FiniteAssumption, FS_CardinalityType
  <2> QED
    BY <2>1, <2>2, FS_EmptySet DEF OwnerBound
<1> QED
  BY <1>1, NextOwnerBound, TypeCorrect, PTL DEF Spec

=============================================================================
