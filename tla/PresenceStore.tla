--------------------------- MODULE PresenceStore ---------------------------
(***************************************************************************)
(* The in-memory presence map of the server (src/src/state.rs): one entry  *)
(* per user who has at least one socket, or for whom a handler set the     *)
(* active party.  Every operator below is one critical section of the      *)
(* RwLock around the HashMap, so it is one atomic step of its callers.     *)
(*                                                                         *)
(* A HashMap is modelled by a total function on users in which NoEntry     *)
(* stands for a key that is not in the map.  No entry the code builds      *)
(* equals NoEntry, because an entry's status is never Offline.  joined_at, *)
(* which no code reads, is left out.                                       *)
(***************************************************************************)
EXTENDS Naturals

CONSTANTS
  NoParty      \* stands for None in Option<Uuid>

(* What update_status accepts, and what clients are shown. *)
LiveStatus == {"online", "away"}
Status     == LiveStatus \union {"offline"}

EntryType(parties) ==
  [count : Nat, party : parties \union {NoParty}, status : Status]

NoEntry    == [count |-> 0, party |-> NoParty, status |-> "offline"]
FreshEntry == [count |-> 0, party |-> NoParty, status |-> "online"]

HasEntry(store, u) == store[u] # NoEntry

(* guard.entry(user).or_insert(...) *)
EntryOf(store, u) == IF HasEntry(store, u) THEN store[u] ELSE FreshEntry

Connected(store, u) == store[u].count > 0

(* One more socket; the status is Online again whatever it was. *)
Connect(store, u) ==
  LET entry == EntryOf(store, u)
  IN  [store EXCEPT ![u] =
         [count |-> entry.count + 1, party |-> entry.party, status |-> "online"]]

(* One socket less; the entry goes with the last one.  The code answers    *)
(* became_offline for an entry whose count is already 0, too.              *)
BecameOffline(store, u) == HasEntry(store, u) /\ store[u].count <= 1

Disconnect(store, u) ==
  IF BecameOffline(store, u) THEN [store EXCEPT ![u] = NoEntry]
  ELSE IF HasEntry(store, u) THEN [store EXCEPT ![u].count = @ - 1]
  ELSE store

(* Faulty variant: insert in place of or_insert loses the connections. *)
SetActivePartyAnew(store, u, party) ==
  [store EXCEPT ![u] = [count |-> 0, party |-> party, status |-> "online"]]

(* The entry is created when missing, with no connection: a user without   *)
(* a socket can own an entry that still reads as offline.                  *)
SetActiveParty(store, u, party) ==
  LET entry == EntryOf(store, u)
  IN  [store EXCEPT ![u] =
         [count  |-> entry.count,
          party  |-> party,
          status |-> IF entry.count > 0 THEN "online" ELSE entry.status]]

SetStatus(store, u, status) ==
  IF Connected(store, u) THEN [store EXCEPT ![u].status = status] ELSE store

(* What get(), all() and every returned snapshot show of a user. *)
Snapshot(store, u) ==
  IF Connected(store, u) THEN store[u].status ELSE "offline"
=============================================================================
