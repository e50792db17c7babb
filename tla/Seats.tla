------------------------------- MODULE Seats -------------------------------
(***************************************************************************)
(* What the party service promises, without handlers, rows or sockets:     *)
(* every user sits in at most one party, a change of party passes through  *)
(* sitting nowhere, and a party never seats more than Capacity users.      *)
(*                                                                         *)
(* src/src/routes/parties.rs is meant to promise this with Capacity equal  *)
(* to VOICE_LIMIT; Parties.tla shows with which capacity it really does.   *)
(***************************************************************************)
EXTENDS Naturals, FiniteSets

CONSTANTS
  Users,
  Parties,
  NoParty,     \* where a user who is in no party sits
  Capacity     \* the number of seats of a party

VARIABLES
  seat         \* seat[u]: the party u is in, or NoParty

Occupancy(p) == Cardinality({u \in Users : seat[u] = p})

TypeOK == seat \in [Users -> Parties \union {NoParty}]

Init == seat = [u \in Users |-> NoParty]

Sit(u, p) ==
  /\ seat[u] = NoParty
  /\ Occupancy(p) < Capacity
  /\ seat' = [seat EXCEPT ![u] = p]

Stand(u) ==
  /\ seat[u] # NoParty
  /\ seat' = [seat EXCEPT ![u] = NoParty]

Next == \E u \in Users : Stand(u) \/ \E p \in Parties : Sit(u, p)

Spec == Init /\ [][Next]_seat
=============================================================================
