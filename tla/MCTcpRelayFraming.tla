-------------------------- MODULE MCTcpRelayFraming --------------------------
(***************************************************************************)
(* Small instances of TcpRelayFraming for TLC.                             *)
(***************************************************************************)
EXTENDS TcpRelayFraming

\* A message, the login's answer, and four media frames, bodies of 1, 2, 2, 4, 4 and 1 tokens.
\* The third one's length field ends in the next head if wrapped, the fourth one's in the next
\* QTP header or head, the fifth one's beyond both.
Layout   == <<0, 1, 3, 5, 9, 13, 14>>
Overruns == <<0, 0, 3, 1, 5, 0>>
=============================================================================
