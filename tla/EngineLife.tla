------------------------------ MODULE EngineLife ------------------------------
(***************************************************************************)
(* The life of an engine thread as the session manager sees it: it runs,   *)
(* it may be told to stop, it ends by itself or because it was told, and   *)
(* once told it does end.  LiveManager counts on this of every engine;     *)
(* LiveEngine is shown to keep it.                                         *)
(***************************************************************************)

VARIABLE status   \* "none", "running", "stopping" (told to stop) or "exited"

Init == status \in {"none", "running"}

Starts == status \in {"none", "exited"} /\ status' = "running"

Told == status = "running" /\ status' = "stopping"

Ends == status \in {"running", "stopping"} /\ status' = "exited"

Next == Starts \/ Told \/ Ends

Spec == Init /\ [][Next]_status

FairSpec == Spec /\ WF_status(status = "stopping" /\ Ends)
=============================================================================
