----------------------------- MODULE MCAccounts -----------------------------
(***************************************************************************)
(* Small instances of Accounts, whose constants are sets of model values.  *)
(***************************************************************************)
EXTENDS Accounts, TLC

Symmetry == Permutations(Ids) \union Permutations(Names) \union Permutations(Invites)
              \union Permutations(Jars) \union Permutations(Tasks)
=============================================================================
