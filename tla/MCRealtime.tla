---------------------------- MODULE MCRealtime -----------------------------
(***************************************************************************)
(* Small instances of Realtime.  The temporal properties leave no room for *)
(* symmetry.                                                               *)
(***************************************************************************)
EXTENDS Realtime
=============================================================================
