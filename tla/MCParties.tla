----------------------------- MODULE MCParties -----------------------------
(***************************************************************************)
(* Small instances of Parties.  Users, parties and task slots are model    *)
(* values, and those of a kind are interchangeable in every safety         *)
(* property.                                                               *)
(***************************************************************************)
EXTENDS Parties, TLC

Symmetry == Permutations(Users) \union Permutations(Parties)
              \union Permutations(Requests) \union Permutations(Sockets)
=============================================================================
