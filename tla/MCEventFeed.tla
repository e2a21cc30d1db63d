----------------------------- MODULE MCEventFeed -----------------------------
(***************************************************************************)
(* A small instance of EventFeed for TLC: five events on two devices, pages *)
(* of two (poll) and one (push), and the least room that loses nothing.    *)
(***************************************************************************)
EXTENDS EventFeed, TLC

TwoDevices == <<"bell", "bell", "gate", "bell", "bell">>

\* The clocks of the events are not in the order the cloud lists them: the fourth
\* is older than the second.
Clocks == <<1, 3, 2, 2, 4>>
=============================================================================
