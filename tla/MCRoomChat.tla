----------------------------- MODULE MCRoomChat -----------------------------
(***************************************************************************)
(* Small instances of RoomChat: parties and texts are model values.        *)
(***************************************************************************)
EXTENDS RoomChat
=============================================================================
