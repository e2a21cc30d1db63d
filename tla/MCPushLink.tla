------------------------------ MODULE MCPushLink ------------------------------
(***************************************************************************)
(* Small instances of PushLink for TLC.                                    *)
(***************************************************************************)
EXTENDS PushLink
=============================================================================
