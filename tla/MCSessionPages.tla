--------------------------- MODULE MCSessionPages ---------------------------
(***************************************************************************)
(* Small instances of SessionPages, whose constants are bounds.            *)
(***************************************************************************)
EXTENDS SessionPages
=============================================================================
