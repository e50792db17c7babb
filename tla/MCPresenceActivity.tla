------------------------ MODULE MCPresenceActivity --------------------------
(***************************************************************************)
(* Small instances of PresenceActivity.  The temporal properties leave no  *)
(* room for symmetry.                                                      *)
(***************************************************************************)
EXTENDS PresenceActivity
=============================================================================
