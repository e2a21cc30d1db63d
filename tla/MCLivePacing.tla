---------------------------- MODULE MCLivePacing ----------------------------
(***************************************************************************)
(* Small instances of LivePacing for TLC.                                  *)
(***************************************************************************)
EXTENDS LivePacing

Schedule(at, ts) == [n \in DOMAIN at |-> [at |-> at[n], ts |-> ts[n]]]

\* Frames as they are captured; a stall and then two bursts, the first more than the queue
\* holds; a clock that jumps ahead, so far that its frames are not due in the run, and back.
Live   == Schedule(<<1, 3, 5>>, <<1, 3, 5>>)
Bursts == Schedule(<<2, 2, 2, 2, 2, 9, 9>>, <<0, 2, 4, 6, 8, 10, 12>>)
Jumps  == Schedule(<<1, 2, 2, 4, 6, 6>>, <<0, 30, 32, 34, 4, 6>>)

SmallSchedules == {Live, Bursts, Jumps}
=============================================================================
