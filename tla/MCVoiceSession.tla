--------------------------- MODULE MCVoiceSession ---------------------------
(***************************************************************************)
(* Small instances of VoiceSession, whose constants are sets of model      *)
(* values.                                                                 *)
(***************************************************************************)
EXTENDS VoiceSession, TLC

Symmetry == Permutations(Parties) \union Permutations(Rooms) \union Permutations(Calls)
=============================================================================
