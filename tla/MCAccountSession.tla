--------------------------- MODULE MCAccountSession ---------------------------
(***************************************************************************)
(* Small instances of AccountSession for TLC.                              *)
(***************************************************************************)
EXTENDS AccountSession
=============================================================================
