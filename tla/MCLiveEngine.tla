----------------------------- MODULE MCLiveEngine -----------------------------
(***************************************************************************)
(* Small instances of LiveEngine for TLC.                                  *)
(***************************************************************************)
EXTENDS LiveEngine
=============================================================================
