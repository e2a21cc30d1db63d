------------------------------- MODULE PushLink -------------------------------
(***************************************************************************)
(* The connection that pushes come over: BotslabQPush                      *)
(* (custom_components/botslab/qpush.py), the background task run and the   *)
(* heartbeat tasks it starts.                                              *)
(*                                                                         *)
(* run makes sure of the session, asks the dispatcher for a gateway,       *)
(* connects, binds, sends the account's alias when the bind is             *)
(* acknowledged and then reads pushes, each of which it hands to the       *)
(* coordinator and acknowledges; after any error it waits, twice as long   *)
(* each time, and begins again.  Unloading the entry calls stop and        *)
(* cancels the task in one go, so that the cancellation is the next thing  *)
(* run sees.                                                               *)
(*                                                                         *)
(* A connection is its number.  The bytes of the messages are left out,    *)
(* and so is the acknowledgement of the alias, which run only logs.        *)
(***************************************************************************)
EXTENDS Integers, Sequences

CONSTANTS
    Pushes,    \* what the gateway has for the account
    MaxFaults, \* failed calls, refused binds and lost connections (bounds the model)
    MaxAcks,   \* acknowledgements of one bind
    MinWait,   \* _RECONNECT_MIN
    MaxWait    \* _RECONNECT_MAX

Conns == 1..MaxFaults + 1
Beats == 1..MaxAcks

\* A push is not an answer to the bind.
ASSUME SourceAssumption ==
    /\ MaxFaults \in Nat /\ MaxAcks \in Nat \ {0}
    /\ MinWait \in Nat \ {0} /\ MaxWait \in Nat /\ MinWait <= MaxWait
    /\ Pushes \cap {"bind_ack", "bind_refused"} = {}

VARIABLES
    at,        \* what run awaits, "ended" when it is over
    backoff,   \* run's backoff
    closing,   \* _closing
    writer,    \* _writer: a connection, 0 for None
    beat,      \* hb_task: the last heartbeat of this connection, 0 for None
    beats,     \* [Conns -> SUBSET Beats]: the heartbeat tasks that run
    dials,     \* connections made so far
    sock,      \* [Conns -> "free", "open", "dead" (broken, and nobody told us),
               \* "lost" (broken, and we know) or "closed" by us]
    inbox,     \* [Conns -> Seq]: what the gateway sent and run has not read
    bound,     \* [Conns -> 0..MaxAcks]: times the gateway acknowledged the bind, MaxAcks if it refused
    alias,     \* the connections the gateway delivers pushes to
    acked,     \* acknowledgements of pushes on their way
    owed,      \* the pushes the gateway holds until they are acknowledged
    handled,   \* history: the pushes handed to the coordinator
    faults

task == <<at, backoff, closing, writer, beat, dials>>
gateway == <<bound, alias, owed>>
vars == <<task, beats, sock, inbox, gateway, acked, handled, faults>>

Points == {"session", "dispatcher", "connect", "bind", "read", "alias", "wait", "ended"}
Messages == {"bind_ack", "bind_refused"} \cup Pushes

TypeOK ==
    /\ at \in Points
    /\ backoff \in MinWait..MaxWait
    /\ closing \in BOOLEAN
    /\ writer \in Conns \cup {0} /\ dials \in Conns \cup {0}
    /\ beat \in Beats \cup {0}
    /\ beats \in [Conns -> SUBSET Beats]
    /\ sock \in [Conns -> {"free", "open", "dead", "lost", "closed"}]
    /\ inbox \in [Conns -> Seq(Messages)]
    /\ bound \in [Conns -> 0..MaxAcks]
    /\ alias \in SUBSET Conns
    /\ acked \in SUBSET (Conns \X Pushes)
    /\ owed \in SUBSET Pushes /\ handled \in SUBSET Pushes
    /\ faults \in 0..MaxFaults

Init ==
    /\ at = "session" /\ backoff = MinWait /\ closing = FALSE
    /\ writer = 0 /\ beat = 0 /\ dials = 0
    /\ beats = [c \in Conns |-> {}]
    /\ sock = [c \in Conns |-> "free"]
    /\ inbox = [c \in Conns |-> <<>>]
    /\ bound = [c \in Conns |-> 0]
    /\ alias = {} /\ acked = {} /\ owed = Pushes /\ handled = {}
    /\ faults = 0

\* The connection run is on: the last one made.
conn == dials
OnConn == at \in {"bind", "read", "alias"}
Lost == OnConn /\ sock[conn] = "lost"

-----------------------------------------------------------------------------
(* The gateway and the network.                                            *)

Send(c, msg) == inbox' = [inbox EXCEPT ![c] = Append(@, msg)]
SameTask == UNCHANGED <<task, beats>>

\* The bind is acknowledged, perhaps again, or refused.
AckBind ==
    /\ OnConn /\ sock[conn] = "open"
    /\ \/ /\ bound[conn] < MaxAcks
          /\ bound' = [bound EXCEPT ![conn] = @ + 1]
          /\ Send(conn, "bind_ack")
          /\ UNCHANGED faults
       \/ /\ bound[conn] = 0 /\ faults < MaxFaults
          /\ faults' = faults + 1
          /\ Send(conn, "bind_refused")
          /\ bound' = [bound EXCEPT ![conn] = MaxAcks]
    /\ SameTask /\ UNCHANGED <<sock, alias, acked, owed, handled>>

\* A push the gateway has not seen acknowledged goes out, also on a later connection.
SendPush ==
    /\ conn \in alias /\ sock[conn] = "open"
    /\ \E p \in owed :
        /\ \A i \in DOMAIN inbox[conn] : inbox[conn][i] # p
        /\ <<conn, p>> \notin acked
        /\ Send(conn, p)
    /\ SameTask /\ UNCHANGED <<sock, gateway, acked, handled, faults>>

TakeAck ==
    /\ \E c \in Conns, p \in Pushes :
        /\ <<c, p>> \in acked
        /\ acked' = acked \ {<<c, p>>}
        /\ owed' = owed \ {p}
    /\ SameTask /\ UNCHANGED <<sock, inbox, bound, alias, handled, faults>>

\* The connection breaks, with or without a sign; acknowledgements under way may be
\* lost with it.
Break ==
    /\ OnConn /\ sock[conn] = "open" /\ faults < MaxFaults
    /\ faults' = faults + 1
    /\ \E how \in {"lost", "dead"} : sock' = [sock EXCEPT ![conn] = how]
    /\ acked' \in SUBSET acked
    /\ SameTask /\ UNCHANGED <<inbox, gateway, handled>>

-----------------------------------------------------------------------------
(* run and _session_once.                                                  *)

Step(from, to) == ~closing /\ at = from /\ at' = to

\* Mutated form of CloseWriter: the writer is forgotten, not closed.
ForgetWriter ==
    /\ writer' = 0
    /\ sock' = sock

\* _close_writer.
CloseWriter ==
    /\ writer' = 0
    /\ sock' = IF writer = 0 THEN sock ELSE [sock EXCEPT ![writer] = "closed"]

\* _session_once's finally: the heartbeat it knows of is cancelled.
CancelBeat ==
    /\ beats' = IF beat = 0 THEN beats ELSE [beats EXCEPT ![conn] = @ \ {beat}]
    /\ beat' = 0

\* Mutated form of Raise: the writer is left open for the next connection to replace.
RaiseLeavesOpen ==
    /\ ~closing
    /\ CancelBeat
    /\ at' = "wait"
    /\ UNCHANGED <<backoff, closing, writer, dials, sock>>

\* An exception ends _session_once: run closes the writer and waits.
Raise ==
    /\ ~closing
    /\ CancelBeat
    /\ CloseWriter
    /\ at' = "wait"
    /\ UNCHANGED <<backoff, closing, dials>>

Prepare ==
    /\ Step("session", "dispatcher") \/ Step("dispatcher", "connect")
    /\ UNCHANGED <<backoff, closing, writer, beat, dials>>
    /\ UNCHANGED <<beats, sock, inbox, gateway, acked, handled, faults>>

\* ensure_session raises or there is no push_alias yet; the dispatcher has no server;
\* no connection comes about.
PrepareFails ==
    /\ at \in {"session", "dispatcher", "connect"} /\ faults < MaxFaults
    /\ faults' = faults + 1
    /\ Raise
    /\ UNCHANGED <<inbox, gateway, acked, handled>>

\* open_connection, and the bind is written.
Connect ==
    /\ Step("connect", "bind")
    /\ dials' = dials + 1
    /\ writer' = dials + 1
    /\ sock' = [sock EXCEPT ![dials + 1] = "open"]
    /\ UNCHANGED <<backoff, closing, beat, beats, inbox, gateway, acked, handled, faults>>

\* Mutated form of StartBeat: no heartbeat is kept.
StartNoBeat == UNCHANGED <<beat, beats>>

\* Whatever heartbeat there was is forgotten, not ended.
StartBeat ==
    /\ beat' = beat + 1
    /\ beats' = [beats EXCEPT ![conn] = @ \cup {beat + 1}]

\* A drain returns: of the bind, or of the alias, after which the heartbeat starts.
Drained ==
    /\ ~Lost
    /\ \/ Step("bind", "read") /\ UNCHANGED <<beat, beats, alias>>
       \/ /\ Step("alias", "read")
          /\ StartBeat
          /\ alias' = IF sock[conn] = "open" THEN alias \cup {conn} ELSE alias
    /\ UNCHANGED <<backoff, closing, writer, dials, sock, inbox, bound, acked, owed, handled, faults>>

Received(msg) ==
    /\ ~closing /\ at = "read"
    /\ inbox[conn] # <<>> /\ Head(inbox[conn]) = msg
    /\ inbox' = [inbox EXCEPT ![conn] = Tail(@)]

\* _read_msg brings the answer to the bind: an acknowledgement is answered with the
\* alias.
ReadMessage ==
    /\ \/ /\ Received("bind_ack") /\ at' = "alias"
          /\ UNCHANGED <<backoff, closing, writer, beat, dials, beats, sock>>
       \/ Received("bind_refused") /\ Raise
    /\ UNCHANGED <<gateway, acked, handled, faults>>

\* _handle_push: the callback, then the acknowledgement, which a broken connection
\* loses without an error.
HandlePush(p) ==
    /\ handled' = handled \cup {p}
    /\ acked' = IF sock[conn] = "open" THEN acked \cup {<<conn, p>>} ELSE acked

ReadPush ==
    /\ \E p \in Pushes : Received(p) /\ HandlePush(p)
    /\ SameTask /\ UNCHANGED <<sock, gateway, faults>>

\* The connection is known to be gone: the read or drain raises, what had arrived may be unread.
Disconnected ==
    /\ Lost
    /\ Raise
    /\ UNCHANGED <<inbox, gateway, acked, handled, faults>>

\* Mutated form of Longer: the wait grows without end.
LongerAlways == 2 * backoff

Longer == IF 2 * backoff < MaxWait THEN 2 * backoff ELSE MaxWait

WaitEnds ==
    /\ Step("wait", "session")
    /\ backoff' = Longer
    /\ UNCHANGED <<closing, writer, beat, dials, beats, sock, inbox, gateway, acked, handled, faults>>

\* _heartbeat writes and drains.  On a connection that is gone its task ends; a silent
\* break it brings to light.  (On an open connection nothing changes here.)
Beat(c) ==
    /\ beats[c] # {}
    /\ \/ /\ sock[c] = "dead"
          /\ sock' = [sock EXCEPT ![c] = "lost"]
          /\ UNCHANGED beats
       \/ /\ sock[c] \in {"lost", "closed"}
          /\ \E b \in beats[c] : beats' = [beats EXCEPT ![c] = @ \ {b}]
          /\ UNCHANGED sock
    /\ UNCHANGED <<task, inbox, gateway, acked, handled, faults>>

-----------------------------------------------------------------------------
\* Unloading the entry: stop, and the task is cancelled ...
Stop ==
    /\ ~closing
    /\ closing' = TRUE
    /\ CloseWriter
    /\ UNCHANGED <<at, backoff, beat, dials, beats, inbox, gateway, acked, handled, faults>>

\* ... which run sees as a CancelledError.
Cancelled ==
    /\ closing /\ at # "ended"
    /\ at' = "ended"
    /\ CancelBeat
    /\ CloseWriter
    /\ UNCHANGED <<backoff, closing, dials, inbox, gateway, acked, handled, faults>>

RunSteps ==
    \/ Prepare
    \/ Connect
    \/ Drained
    \/ ReadMessage
    \/ ReadPush
    \/ Disconnected
    \/ WaitEnds

Next ==
    \/ AckBind
    \/ SendPush
    \/ TakeAck
    \/ Break
    \/ RunSteps
    \/ PrepareFails
    \/ \E c \in Conns : Beat(c)
    \/ Stop
    \/ Cancelled

Fairness ==
    /\ WF_vars(RunSteps) /\ WF_vars(Cancelled)
    /\ WF_vars(AckBind) /\ WF_vars(SendPush) /\ WF_vars(TakeAck)
    /\ \A c \in Conns : WF_vars(Beat(c))

Spec == Init /\ [][Next]_vars
FairSpec == Spec /\ Fairness

-----------------------------------------------------------------------------
(* What the connection promises.                                           *)

\* At most one socket is open, the one run is on, and it is the one stop would close
\* (_writer is set before anything else is awaited on it, qpush.py:140).
OneSocket ==
    \A c \in Conns : sock[c] \in {"open", "dead"} => OnConn /\ writer = c /\ c = conn

\* Every push the account has is handed to the coordinator in the end, whatever breaks,
\* unless the entry is unloaded, or a connection died without a sign before the alias
\* was sent: there is no heartbeat yet, and neither read nor drain has a timeout.
Stranded == OnConn /\ sock[conn] = "dead" /\ conn \notin alias

EveryPushHandled == \A p \in Pushes : <>(p \in handled \/ closing) \/ <>[]Stranded

\* After an unload nothing is left: run has ended, no socket is open, and heartbeats that
\* a second acknowledgement made run forget end as well.
LinkEnds ==
    closing ~> /\ at = "ended"
               /\ \A c \in Conns : sock[c] \notin {"open", "dead"} /\ beats[c] = {}

=============================================================================
