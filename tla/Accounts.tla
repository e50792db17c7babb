------------------------------ MODULE Accounts ------------------------------
(***************************************************************************)
(* Who may use the server: the users, invites and sessions tables, and the *)
(* handlers that fill them (src/src/routes/invites.rs, routes/auth.rs,     *)
(* src/auth.rs, and bootstrap_owner of src/db.rs, which runs as a command  *)
(* beside the server).                                                     *)
(*                                                                         *)
(* One step is one SQL statement, or one transaction: what a transaction   *)
(* wrote is seen by nobody before its commit.  The lookup of the session   *)
(* is merged with the statement after it: neither the user of a session    *)
(* nor a role ever changes.  Passwords are taken to be right, display      *)
(* names and avatars are left out; a wrong password or an invalid field    *)
(* ends a handler before it writes.                                        *)
(***************************************************************************)
EXTENDS Naturals, FiniteSets

CONSTANTS
  Ids,         \* bound: the accounts there can be
  NoId,
  Names,       \* normalized usernames
  NoName,
  Invites,
  NoInvite,
  Jars,        \* cookie jars: browsers
  NoJar,
  Tasks,       \* slots for a handler, or a bootstrap command, in flight
  MaxFaults    \* bound: failed statements and dropped requests

ASSUME FiniteAssumption == IsFiniteSet(Ids) /\ IsFiniteSet(Tasks)
ASSUME NullAssumption ==
  NoId \notin Ids /\ NoName \notin Names /\ NoInvite \notin Invites /\ NoJar \notin Jars
ASSUME BoundAssumption == MaxFaults \in Nat

VARIABLES
  account,     \* the users table
  invite,      \* the invites table
  session,     \* session[j]: the user of the live session jar j names
  task,        \* task[t]: where the handler in slot t stands
  faults       \* failures so far

vars == <<account, invite, session, task, faults>>

----------------------------------------------------------------------------
(* State *)

(* from: the invite the account came in with, which only redeemed_by keeps *)
(* in the database.                                                        *)
AccountType == [name : Names, role : {"owner", "member"},
                from : Invites \union {NoInvite}]

NoAccount == [name |-> NoName, role |-> "none", from |-> NoInvite]

(* made: the row exists; redeemed, revoked: the timestamp is not NULL *)
InviteType == [made : BOOLEAN, redeemed : BOOLEAN, revoked : BOOLEAN,
               by : Ids \union {NoId}]

NotMade == [made |-> FALSE, redeemed |-> FALSE, revoked |-> FALSE, by |-> NoId]

Labels == {"idle", "name", "commit", "session", "taken", "update", "owner"}

TaskType == [pc : Labels, jar : Jars \union {NoJar}, user : Ids \union {NoId},
             name : Names \union {NoName}, code : Invites \union {NoInvite}]

Idle == [pc |-> "idle", jar |-> NoJar, user |-> NoId, name |-> NoName, code |-> NoInvite]

Init ==
  /\ account = [u \in Ids |-> NoAccount]
  /\ invite = [i \in Invites |-> NotMade]
  /\ session = [j \in Jars |-> NoId]
  /\ task = [t \in Tasks |-> Idle]
  /\ faults = 0

At(t, label) == task[t].pc = label

Goto(t, label) == task' = [task EXCEPT ![t].pc = label]

Finish(t) == task' = [task EXCEPT ![t] = Idle]

(* Slot t begins to work for jar j. *)
Begin(t, label, j, u, n, i) ==
  /\ task[t] = Idle
  /\ task' = [task EXCEPT ![t] = [pc |-> label, jar |-> j, user |-> u,
                                  name |-> n, code |-> i]]

Existing == {u \in Ids : account[u] # NoAccount}

(* The name is in use by somebody but u; with NoId, by anybody. *)
Taken(n, u) == \E v \in Existing \ {u} : account[v].name = n

SignedInOwner(j) == session[j] \in Ids /\ account[session[j]].role = "owner"

(* Faulty variant: the users table without its unique index. *)
InsertAnyName(u, n, role, i) ==
  /\ u \notin Existing
  /\ account' = [account EXCEPT ![u] = [name |-> n, role |-> role, from |-> i]]

(* INSERT INTO users with a fresh id.  The unique index on the name makes  *)
(* it fail when the name is in use by now.                                 *)
Insert(u, n, role, i) ==
  /\ u \notin Existing
  /\ ~Taken(n, NoId)
  /\ account' = [account EXCEPT ![u] = [name |-> n, role |-> role, from |-> i]]

----------------------------------------------------------------------------
(* bootstrap_owner *)

(* Faulty variant: no check that the database is empty. *)
CountUsersSkipped(t, n) ==
  /\ Begin(t, "owner", NoJar, NoId, n, NoInvite)
  /\ UNCHANGED <<account, invite, session, faults>>

CountUsers(t, n) ==
  /\ Existing = {}
  /\ Begin(t, "owner", NoJar, NoId, n, NoInvite)
  /\ UNCHANGED <<account, invite, session, faults>>

InsertOwner(t) ==
  /\ At(t, "owner")
  /\ \/ \E u \in Ids : Insert(u, task[t].name, "owner", NoInvite)
     \/ Taken(task[t].name, NoId) /\ UNCHANGED account
  /\ Finish(t)
  /\ UNCHANGED <<invite, session, faults>>

----------------------------------------------------------------------------
(* Invites.  create_invite draws codes until one is not in use. *)

CreateInvite(j, i) ==
  /\ SignedInOwner(j)
  /\ ~invite[i].made
  /\ invite' = [invite EXCEPT ![i].made = TRUE]
  /\ UNCHANGED <<account, session, task, faults>>

(* Faulty variant: the UPDATE without its redeemed_at IS NULL. *)
RevokeAny(j, i) ==
  /\ SignedInOwner(j)
  /\ invite[i].made
  /\ invite' = [invite EXCEPT ![i].revoked = TRUE]
  /\ UNCHANGED <<account, session, task, faults>>

Revoke(j, i) ==
  /\ SignedInOwner(j)
  /\ invite[i].made /\ ~invite[i].redeemed
  /\ invite' = [invite EXCEPT ![i].revoked = TRUE]
  /\ UNCHANGED <<account, session, task, faults>>

(* Faulty variant: the lookup without the check of redeemed_at. *)
RedeemableAgain(i) == invite[i].made /\ ~invite[i].revoked

Redeemable(i) == invite[i].made /\ ~invite[i].revoked /\ ~invite[i].redeemed

(* redeem_invite reads the invite; a revoked or redeemed one is refused. *)
LookUp(t, j, n, i) ==
  /\ Redeemable(i)
  /\ Begin(t, "name", j, NoId, n, i)
  /\ UNCHANGED <<account, invite, session, faults>>

CheckName(t) ==
  /\ At(t, "name")
  /\ IF Taken(task[t].name, NoId) THEN Finish(t) ELSE Goto(t, "commit")
  /\ UNCHANGED <<account, invite, session, faults>>

(* UPDATE invites SET redeemed_by, redeemed_at of the invite that was found. *)
Mark(i, u) ==
  invite' = [invite EXCEPT ![i] =
              [made |-> invite[i].made, redeemed |-> TRUE,
               revoked |-> invite[i].revoked, by |-> u]]

(* The new user gets a session next. *)
SignUp(t, u) ==
  task' = [task EXCEPT ![t] = [pc |-> "session", jar |-> task[t].jar, user |-> u,
                               name |-> NoName, code |-> NoInvite]]

(* Faulty variant: a failed INSERT is not noticed. *)
CommitRedeemBlindly(t) ==
  /\ At(t, "commit")
  /\ \/ \E u \in Ids :
          /\ Insert(u, task[t].name, "member", task[t].code)
          /\ Mark(task[t].code, u)
          /\ SignUp(t, u)
     \/ /\ Taken(task[t].name, NoId)
        /\ Goto(t, "session")
        /\ UNCHANGED <<account, invite>>
  /\ UNCHANGED <<session, faults>>

(* Faulty variant: two statements with no transaction around them, the     *)
(* second of which is lost.                                                *)
CommitRedeemHalfway(t) ==
  /\ At(t, "commit")
  /\ \E u \in Ids :
       /\ Insert(u, task[t].name, "member", task[t].code)
       /\ SignUp(t, u)
  /\ UNCHANGED <<invite, session, faults>>

(* The transaction adds the user and marks the invite, by its id alone.    *)
CommitRedeem(t) ==
  /\ At(t, "commit")
  /\ \/ \E u \in Ids :
          /\ Insert(u, task[t].name, "member", task[t].code)
          /\ Mark(task[t].code, u)
          /\ SignUp(t, u)
     \/ /\ Taken(task[t].name, NoId)
        /\ Finish(t)
        /\ UNCHANGED <<account, invite>>
  /\ UNCHANGED <<session, faults>>

----------------------------------------------------------------------------
(* Sessions *)

(* authenticate_user finds the account by name, verifies, and goes on.     *)
Login(t, j, u) ==
  /\ u \in Existing
  /\ Begin(t, "session", j, u, NoName, NoInvite)
  /\ UNCHANGED <<account, invite, session, faults>>

(* create_session, and the cookie of the answer.  The session the jar held *)
(* before stays in the table, where no cookie names it any more.           *)
CreateSession(t) ==
  /\ At(t, "session")
  /\ session' = [session EXCEPT ![task[t].jar] = task[t].user]
  /\ Finish(t)
  /\ UNCHANGED <<account, invite, faults>>

(* logout, or the session's expires_at passes *)
EndSession(j) ==
  /\ session[j] \in Ids
  /\ session' = [session EXCEPT ![j] = NoId]
  /\ UNCHANGED <<account, invite, task, faults>>

----------------------------------------------------------------------------
(* update_profile.  The name is checked only when it differs from the one  *)
(* the session lookup returned.                                            *)

StartRename(t, j, n) ==
  /\ session[j] \in Ids
  /\ Begin(t, IF n = account[session[j]].name THEN "update" ELSE "taken",
           j, session[j], n, NoInvite)
  /\ UNCHANGED <<account, invite, session, faults>>

CheckTaken(t) ==
  /\ At(t, "taken")
  /\ IF Taken(task[t].name, task[t].user) THEN Finish(t) ELSE Goto(t, "update")
  /\ UNCHANGED <<account, invite, session, faults>>

(* The UPDATE fails on the unique index when the name is in use by now. *)
Rename(t) ==
  /\ At(t, "update")
  /\ IF Taken(task[t].name, task[t].user)
       THEN UNCHANGED account
       ELSE account' = [account EXCEPT ![task[t].user].name = task[t].name]
  /\ Finish(t)
  /\ UNCHANGED <<invite, session, faults>>

(* A statement fails, or the request is dropped; a commit is all or none. *)
Fail(t) ==
  /\ task[t] # Idle
  /\ faults < MaxFaults
  /\ faults' = faults + 1
  /\ Finish(t)
  /\ UNCHANGED <<account, invite, session>>

----------------------------------------------------------------------------
Next ==
  \/ \E t \in Tasks :
       \/ \E n \in Names : CountUsers(t, n)
       \/ \E j \in Jars, n \in Names :
            StartRename(t, j, n) \/ \E i \in Invites : LookUp(t, j, n, i)
       \/ \E j \in Jars, u \in Ids : Login(t, j, u)
       \/ InsertOwner(t) \/ CheckName(t) \/ CommitRedeem(t) \/ CreateSession(t)
       \/ CheckTaken(t) \/ Rename(t) \/ Fail(t)
  \/ \E j \in Jars :
       EndSession(j) \/ \E i \in Invites : CreateInvite(j, i) \/ Revoke(j, i)

Spec == Init /\ [][Next]_vars

----------------------------------------------------------------------------
(* Properties *)

AccountsOf(i) == {u \in Existing : account[u].from = i}

Redeeming(i) == {t \in Tasks : task[t].pc \in {"name", "commit"} /\ task[t].code = i}

Owners == {u \in Existing : account[u].role = "owner"}

Bootstrapping == {t \in Tasks : At(t, "owner")}

(* Every table and every handler's locals have their types, and a handler  *)
(* past a lookup holds what it looked up.                                  *)
TypeOK ==
  /\ account \in [Ids -> AccountType \union {NoAccount}]
  /\ invite \in [Invites -> InviteType]
  /\ session \in [Jars -> Ids \union {NoId}]
  /\ task \in [Tasks -> TaskType]
  /\ faults \in Nat
  /\ \A t \in Tasks :
       /\ task[t].pc \in {"name", "commit"} => task[t].code \in Invites
       /\ task[t].pc \in {"name", "commit", "taken", "update", "owner"} =>
            task[t].name \in Names
       /\ task[t].pc \in {"session", "taken", "update"} =>
            task[t].user \in Existing
       /\ task[t].pc \in {"name", "commit", "session"} => task[t].jar \in Jars
  /\ \A j \in Jars : session[j] # NoId => session[j] \in Existing

(* No two accounts share a name, though redeems, renames and a bootstrap   *)
(* check it in a statement before the one that writes it, and a rename     *)
(* skips the check on the word of an earlier read.                         *)
UniqueNames ==
  \A u, v \in Existing : account[u].name = account[v].name => u = v

(* An invite reads as redeemed exactly when an account came in with it,    *)
(* and then redeemed_by names such an account: no failure leaves an        *)
(* account without a used invite or uses an invite up without an account.  *)
RedeemedIffAccount ==
  \A i \in Invites :
    IF invite[i].redeemed THEN invite[i].by \in AccountsOf(i)
                          ELSE AccountsOf(i) = {}

(* An invite may let several accounts in when redeems of it run at once,   *)
(* but never more than there are redeems in flight at one time.            *)
InviteBound ==
  \A i \in Invites :
    Cardinality(AccountsOf(i)) + Cardinality(Redeeming(i)) <= Cardinality(Tasks)

(* What was decided about an invite stays decided: redeemed is not undone, *)
(* a revocation is not undone, and a redeemed invite is not revoked later. *)
DecisionsStand ==
  [][\A i \in Invites :
       /\ invite[i].redeemed =>
            invite'[i].redeemed /\ invite'[i].revoked = invite[i].revoked
       /\ invite[i].revoked => invite'[i].revoked]_vars

(* Bootstraps that run at once may each make an owner, but never more than *)
(* there are of them in flight at one time; later ones make none.          *)
OwnerBound == Cardinality(Owners) + Cardinality(Bootstrapping) <= Cardinality(Tasks)

(* "Each code is single-use" (SettingsPage.tsx:234) *)
SingleUse == \A i \in Invites : Cardinality(AccountsOf(i)) <= 1
=============================================================================
