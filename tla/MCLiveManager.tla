---------------------------- MODULE MCLiveManager ----------------------------
(***************************************************************************)
(* Small instances of LiveManager for TLC.                                 *)
(***************************************************************************)
EXTENDS LiveManager, TLC

\* Viewers are interchangeable, and so are connections and idle tasks; only used
\* where no liveness property is checked.
Symmetry == Permutations(Viewers) \cup Permutations(Conns) \cup Permutations(IdleTasks)
=============================================================================
