----------------------------- MODULE MCClipCache -----------------------------
(***************************************************************************)
(* Small instances of ClipCache for TLC.                                   *)
(***************************************************************************)
EXTENDS ClipCache, TLC

Symmetry == Permutations(Requests) \cup Permutations(Clips)
=============================================================================
