------------------------------ MODULE LiveEngine ------------------------------
(***************************************************************************)
(* The live engine (custom_components/botslab/live/engine.py): the thread  *)
(* that sets a session up with the cloud, wakes the device, dials the QTP  *)
(* relay, asks the device for video until it authorises it, and hands the  *)
(* decrypted frames to the manager.  One camera's engines follow each      *)
(* other; what outlives an engine is the memo of set-up look-ups.          *)
(*                                                                         *)
(* A step is one call that blocks, or one operation of a pass of the loop; *)
(* a pass in which an operation finds nothing to do is a stutter, and time *)
(* is left out: a timer may be due at any pass.  Signals and replies are   *)
(* UDP: they are lost, overtake each other and stay in flight as sets.     *)
(***************************************************************************)
EXTENDS Naturals

CONSTANTS
    Attempts,   \* attempts at the set-up (4 in run)
    MaxDials    \* _HUB_MAX_DIALS: dials of the QTP relay

ASSUME BoundsArePositive == Attempts \in Nat \ {0} /\ MaxDials \in Nat \ {0}

VARIABLES
    pc,         \* where run() is
    tries,      \* the attempt of the set-up under way
    told,       \* _stop
    sid,        \* the engine was given the coordinator's session id
    memo,       \* the key list in _SETUP_CACHE: "none", "fresh" or "stale"
    late,       \* a key list that an engine the manager gave up on still has to store
    keys,       \* the key list of this session (_keys)
    minted,     \* _sched_bf: "none", of this attempt's schedule ("same"), of another's
    landed,     \* the cloud has brought the video authorisation to the device
    hub,        \* the QTP relay is connected (_hub)
    dials,      \* _hub_dials
    asked,      \* a req_relay is in flight to the device
    replies,    \* the device's replies in flight
    authorised, \* _last_flag is 1
    publishing, \* _publishing
    kf,         \* the first keyframe: "unchecked", "ok" or "bad" (_kf_checked, _kf_ok)
    given,      \* the first frame handed to the sink
    refused,    \* history: the key list of a session did not decrypt, and it is still the cloud's last
    dev         \* the device

vars == <<pc, tries, told, sid, memo, late, keys, minted, landed, hub, dials,
          asked, replies, authorised, publishing, kf, given, refused, dev>>
cloudVars  == <<memo, late, refused, keys, minted, landed>>
setupVars  == <<tries, sid>>
signalVars == <<asked, replies, authorised>>
mediaVars  == <<hub, dials, kf, given>>

SetupPc == {"login", "keys", "schedule", "register", "bf"}
Replies == {"publishing", "flag0", "flag1"}
Frames  == {"clean", "corrupt", "delta"}   \* a keyframe that decodes, or not; a P-frame

TypeOK ==
    /\ pc \in SetupPc \cup {"start", "pause", "open", "loop", "ended"}
    /\ tries \in 0..Attempts
    /\ told \in BOOLEAN /\ sid \in BOOLEAN
    /\ memo \in {"none", "fresh", "stale"}
    /\ late \in {"none", "fresh", "stale"}
    /\ keys \in {"none", "fresh", "stale"}
    /\ minted \in {"none", "same", "other"}
    /\ landed \in BOOLEAN /\ refused \in BOOLEAN
    /\ hub \in BOOLEAN /\ dials \in 0..MaxDials
    /\ asked \in BOOLEAN /\ replies \in SUBSET Replies
    /\ authorised \in BOOLEAN /\ publishing \in BOOLEAN
    /\ kf \in {"unchecked", "ok", "bad"}
    /\ given \in {"none"} \cup Frames
    /\ dev \in {"asleep", "awake", "audio", "video"}

\* A new engine object.
Init ==
    /\ sid \in BOOLEAN
    /\ pc = "start" /\ tries = 0 /\ told = FALSE
    /\ keys = "none" /\ minted = "none" /\ landed = FALSE
    /\ hub = FALSE /\ dials = 0
    /\ asked = FALSE /\ replies = {} /\ authorised = FALSE
    /\ publishing = FALSE /\ kf = "unchecked" /\ given = "none"
    /\ memo = "none" /\ late = "none" /\ refused = FALSE
    /\ dev = "asleep"

\* The manager opens the camera again; what the last session left on the way is void,
\* the memo is the process's.
NextSession ==
    /\ pc = "ended"
    /\ sid' \in BOOLEAN
    /\ pc' = "start" /\ tries' = 0 /\ told' = FALSE
    /\ keys' = "none" /\ minted' = "none" /\ landed' = FALSE
    /\ hub' = FALSE /\ dials' = 0
    /\ asked' = FALSE /\ replies' = {} /\ authorised' = FALSE
    /\ publishing' = FALSE /\ kf' = "unchecked" /\ given' = "none"
    /\ UNCHANGED <<memo, late, refused, dev>>

\* stop() is called from the event loop at any moment of the engine's life.
Stop ==
    /\ pc # "ended"
    /\ told' = TRUE
    /\ UNCHANGED <<pc, publishing, dev, cloudVars, setupVars, signalVars, mediaVars>>

-----------------------------------------------------------------------------
(* run: the attempts at the set-up.                                        *)

\* The check before each attempt: a stop ends the engine with nothing opened.
Attempt ==
    /\ pc = "start"
    /\ pc' = (CASE told -> "ended" [] ~told /\ sid -> "keys" [] OTHER -> "login")
    /\ tries' = IF told THEN tries ELSE tries + 1
    /\ UNCHANGED <<told, sid, publishing, dev, cloudVars, signalVars, mediaVars>>

\* What _t holds when __init__ is done: the login's token, and then the timers, which
\* are given the same name.
HeldT == "timers"

\* Mutated form of Failed: one attempt more.
FailedLate == IF tries > Attempts THEN "ended" ELSE "pause"

\* The last attempt's exception is raised and ends the engine.
Failed == IF tries = Attempts THEN "ended" ELSE "pause"

\* Without a session id the engine logs in afresh; the cloud refuses a login that does
\* not carry the token.
Login ==
    /\ pc = "login"
    /\ pc' = IF HeldT = "token" THEN "keys" ELSE Failed
    /\ UNCHANGED <<told, publishing, dev, cloudVars, setupVars, signalVars, mediaVars>>

\* An exception in the set-up: another attempt after 0.8 s, or the last one's is raised.
SetupFails ==
    /\ pc \in SetupPc
    /\ pc' = Failed
    /\ UNCHANGED <<told, publishing, dev, cloudVars, setupVars, signalVars, mediaVars>>

Retry ==
    /\ pc = "pause"
    /\ pc' = "start"
    /\ UNCHANGED <<told, publishing, dev, cloudVars, setupVars, signalVars, mediaVars>>

\* _cached around get_keys: a memo younger than half an hour is used as it is,
\* whatever it has become; an answer of the cloud is stored for the next session.
GetKeys ==
    /\ pc = "keys"
    /\ \/ memo # "none" /\ keys' = memo /\ UNCHANGED memo
       \/ memo = "none" /\ keys' = "fresh" /\ memo' = "fresh"
    /\ pc' = "schedule"
    /\ UNCHANGED <<told, late, refused, minted, landed, publishing, dev, setupVars, signalVars, mediaVars>>

\* getRelaySign and /substream: a new stream, so a minted credential is no longer its own.
Schedule ==
    /\ pc = "schedule"
    /\ minted' = IF minted = "none" THEN "none" ELSE "other"
    /\ pc' = "register"
    /\ UNCHANGED <<told, memo, late, refused, keys, landed, publishing, dev, setupVars, signalVars,
                   mediaVars>>

\* Mutated form of RegisterViewer: start_relay is fired before the registration.
RegisterViewerAfterMint ==
    /\ pc = "register"
    /\ \/ minted' = "same" /\ pc' = "bf"
       \/ UNCHANGED minted /\ pc' = "bf"
    /\ UNCHANGED <<told, memo, late, refused, keys, landed, publishing, dev, setupVars, signalVars,
                   mediaVars>>

\* schedule_2: a refusal is only logged.
RegisterViewer ==
    /\ pc = "register"
    /\ pc' = "bf"
    /\ UNCHANGED <<told, publishing, dev, cloudVars, setupVars, signalVars, mediaVars>>

\* _start_relay: the video credential is minted, or the session goes on without one.
StartRelay ==
    /\ pc = "bf"
    /\ \/ minted' = "same"
       \/ UNCHANGED minted
    /\ pc' = "open"
    /\ tries' = 0
    /\ UNCHANGED <<told, sid, memo, late, refused, keys, landed, publishing, dev, signalVars, mediaVars>>

-----------------------------------------------------------------------------
(* _stream_loop.                                                           *)

\* A wake-up call reaches a sleeping device, or fails, which is only logged.
Wake ==
    \/ dev' = IF dev = "asleep" THEN "awake" ELSE dev
    \/ UNCHANGED dev

\* finally: the legs are closed, and what is in flight finds nobody.
Closed ==
    /\ pc' = "ended"
    /\ hub' = FALSE
    /\ asked' = FALSE /\ replies' = {}

\* The legs open together: the wake, the tunnel, and the TCP relay whose failure is ignored.
OpenLegs ==
    /\ pc = "open"
    /\ ~told
    /\ pc' = "loop"
    /\ Wake
    /\ UNCHANGED <<told, publishing, cloudVars, setupVars, signalVars, mediaVars>>

\* Mutated form of LeaveLoop: the loop forgets its condition.
LeaveLoopNever ==
    /\ pc = "open"
    /\ told
    /\ Closed
    /\ UNCHANGED <<told, publishing, dev, dials, kf, given, authorised, cloudVars, setupVars>>

\* The stop flag is seen before the legs are opened or at the head of a pass.
LeaveLoop ==
    /\ pc \in {"open", "loop"}
    /\ told
    /\ Closed
    /\ UNCHANGED <<told, publishing, dev, dials, kf, given, authorised, cloudVars, setupVars>>

\* A send that is not guarded raises: in the tunnel's calls, in an acknowledgement, in
\* the last step of the QTP handshake.  The exception ends the session.
LoopBreaks ==
    /\ pc \in {"open", "loop"}
    /\ Closed
    /\ UNCHANGED <<told, publishing, dev, dials, kf, given, authorised, cloudVars, setupVars>>

\* Mutated form of RequestRelay: the request stops once the device publishes.
RequestRelayUntilPublishing ==
    /\ pc = "loop"
    /\ ~authorised /\ ~publishing
    /\ asked' = TRUE
    /\ UNCHANGED <<pc, told, replies, authorised, publishing, dev, cloudVars, setupVars, mediaVars>>

\* _pump_signals: the request for the device's relay, again until it says flag 1.  The
\* keep-alives and the heartbeat ask for nothing and change nothing here.
RequestRelay ==
    /\ pc = "loop"
    /\ ~authorised
    /\ asked' = TRUE
    /\ UNCHANGED <<pc, told, replies, authorised, publishing, dev, cloudVars, setupVars, mediaVars>>

\* _connect_hub: connect, handshake and login; a failure closes the socket.
DialHub ==
    /\ pc = "loop"
    /\ ~hub /\ dials < MaxDials
    /\ dials' = dials + 1
    /\ hub' \in BOOLEAN
    /\ UNCHANGED <<pc, told, publishing, dev, kf, given, cloudVars, setupVars, signalVars>>

\* _drain_signalling and _handle_reply: one reply is taken and acted upon.
TakeReply(r) ==
    /\ pc = "loop"
    /\ r \in replies
    /\ replies' = replies \ {r}
    /\ publishing' = (publishing \/ r = "publishing")
    /\ authorised' = (CASE r = "flag1" -> TRUE [] r = "flag0" -> FALSE [] OTHER -> authorised)
    /\ UNCHANGED <<pc, told, asked, dev, cloudVars, setupVars, mediaVars>>

\* Media seen by the loop proves that the device publishes.
NoteProgress ==
    /\ pc = "loop"
    /\ given # "none"
    /\ publishing' = TRUE
    /\ UNCHANGED <<pc, told, dev, cloudVars, setupVars, signalVars, mediaVars>>

\* Nothing published for twenty seconds: the device may have gone back to sleep.
Rewake ==
    /\ pc = "loop"
    /\ ~publishing
    /\ Wake
    /\ UNCHANGED <<pc, told, publishing, cloudVars, setupVars, signalVars, mediaVars>>

-----------------------------------------------------------------------------
(* _handle_media_frame, for a frame that either leg brings.                *)

HandOver(f) == given' = IF given = "none" THEN f ELSE given

\* Mutated form of FirstKeyframe: a failed validation leaves the memo alone.
FirstKeyframeKeepsMemo(f) ==
    /\ kf = "unchecked" /\ f # "delta"
    /\ \/ kf' = "ok" /\ HandOver(f)
       \/ f = "corrupt" /\ kf' = "bad" /\ UNCHANGED given
    /\ refused' = (refused \/ (kf' = "bad" /\ keys = "stale"))
    /\ UNCHANGED memo

\* The session's first keyframe is decoded with ffmpeg, which finds it clean, finds it
\* corrupt, or cannot tell and trusts it.  When it fails, or names a key that is not
\* in the list, the memoised list is dropped.
FirstKeyframe(f) ==
    /\ kf = "unchecked" /\ f # "delta"
    /\ \/ kf' = "ok" /\ HandOver(f)
       \/ f = "corrupt" /\ kf' = "bad" /\ UNCHANGED given
    /\ memo' \in (IF kf' = "bad" THEN {"none"} ELSE
                  IF keys = "stale" THEN {memo, "none"} ELSE {memo})
    /\ refused' = (refused \/ (kf' = "bad" /\ keys = "stale"))

\* Mutated form of LaterFrame: a P-frame only waits for a keyframe that failed.
LaterFrameUngated(f) ==
    /\ kf # "unchecked" \/ f = "delta"
    /\ IF kf # "bad" THEN HandOver(f) ELSE UNCHANGED given
    /\ UNCHANGED <<kf, memo, refused>>

\* Any other frame goes to the sink once the first keyframe is good, and never else.
LaterFrame(f) ==
    /\ kf # "unchecked" \/ f = "delta"
    /\ IF kf = "ok" THEN HandOver(f) ELSE UNCHANGED given
    /\ UNCHANGED <<kf, memo, refused>>

\* A list from before the rotation decrypts nothing.
HandleFrame(f) ==
    /\ pc = "loop"
    /\ dev = "video"
    /\ f = "clean" => keys = "fresh"
    /\ FirstKeyframe(f) \/ LaterFrame(f)
    /\ UNCHANGED <<pc, told, hub, dials, publishing, dev, late, keys, minted, landed,
                   setupVars, signalVars>>

-----------------------------------------------------------------------------
(* The cloud, the device and the network.                                  *)

\* The cloud rotates the keys: the lists it gave out before are stale.
Aged(k) == IF k = "fresh" THEN "stale" ELSE k

Rotate ==
    /\ memo' = Aged(memo) /\ late' = Aged(late) /\ keys' = Aged(keys)
    /\ refused' = FALSE
    /\ UNCHANGED <<pc, told, minted, landed, publishing, dev, setupVars, signalVars, mediaVars>>

MemoExpires ==
    /\ memo' = "none"
    /\ UNCHANGED <<pc, told, late, refused, keys, minted, landed, publishing, dev, setupVars,
                   signalVars, mediaVars>>

\* An engine of this camera that the manager gave up on (its set-up outlasted the five
\* seconds) was answered, and stores the answer some time later.
LateAnswer ==
    /\ late = "none" /\ memo = "none"
    /\ late' = "fresh"
    /\ UNCHANGED <<pc, told, memo, refused, keys, minted, landed, publishing, dev, setupVars,
                   signalVars, mediaVars>>

LateStore ==
    /\ late # "none"
    /\ memo' = late
    /\ late' = "none"
    /\ refused' = (refused /\ late = "fresh")
    /\ UNCHANGED <<pc, told, keys, minted, landed, publishing, dev, setupVars, signalVars, mediaVars>>

\* The authorisation minted by start_relay reaches the device a beat later.
AuthorisationLands ==
    /\ pc = "loop"
    /\ minted = "same"
    /\ landed' = TRUE
    /\ UNCHANGED <<pc, told, memo, late, refused, keys, minted, publishing, dev, setupVars, signalVars,
                   mediaVars>>

\* Awake, the device answers a request: video once it knows the authorisation, else
\* sound alone.
DeviceAnswers ==
    /\ asked
    /\ dev # "asleep"
    /\ asked' = FALSE
    /\ \/ landed /\ dev' = "video" /\ replies' = replies \cup {"publishing", "flag1"}
       \/ ~landed /\ dev' = "audio" /\ replies' = replies \cup {"publishing", "flag0"}
    /\ UNCHANGED <<pc, told, authorised, publishing, cloudVars, setupVars, mediaVars>>

DeviceSleeps ==
    /\ dev' = "asleep"
    /\ UNCHANGED <<pc, told, publishing, cloudVars, setupVars, signalVars, mediaVars>>

LoseRequest ==
    /\ asked
    /\ asked' = FALSE
    /\ UNCHANGED <<pc, told, replies, authorised, publishing, dev, cloudVars, setupVars, mediaVars>>

LoseReply(r) ==
    /\ r \in replies
    /\ replies' = replies \ {r}
    /\ UNCHANGED <<pc, told, asked, authorised, publishing, dev, cloudVars, setupVars, mediaVars>>

-----------------------------------------------------------------------------

Setup ==
    \/ Attempt \/ Login \/ SetupFails \/ Retry
    \/ GetKeys \/ Schedule \/ RegisterViewer \/ StartRelay

Pass ==
    \/ RequestRelay \/ DialHub \/ NoteProgress \/ Rewake
    \/ \E r \in Replies : TakeReply(r)
    \/ \E f \in Frames : HandleFrame(f)

Environment ==
    \/ Rotate \/ MemoExpires \/ LateAnswer \/ LateStore
    \/ AuthorisationLands \/ DeviceAnswers \/ DeviceSleeps \/ LoseRequest
    \/ \E r \in Replies : LoseReply(r)

Next ==
    \/ NextSession \/ Stop
    \/ Setup
    \/ OpenLegs \/ LeaveLoop \/ LoopBreaks \/ Pass
    \/ Environment

Spec == Init /\ [][Next]_vars

(***************************************************************************)
(* Fairness: every blocking call has a timeout, and every timer of the     *)
(* loop is due again and again (each interval is bounded).  A signal or a  *)
(* reply that is sent again and again is not lost each time, a wake-up     *)
(* call that is made again and again gets through, and a device that sends *)
(* video sends keyframes.                                                  *)
(***************************************************************************)
Fairness ==
    /\ WF_vars(Setup)
    /\ WF_vars(OpenLegs)
    /\ WF_vars(LeaveLoop)
    /\ SF_vars(dev # "asleep" /\ RequestRelay)
    /\ WF_vars(DialHub)
    /\ SF_vars(Rewake /\ dev' # "asleep")
    /\ SF_vars(DeviceAnswers)
    /\ WF_vars(AuthorisationLands)
    /\ SF_vars(TakeReply("flag1"))
    /\ SF_vars(hub /\ \E f \in Frames \ {"delta"} : HandleFrame(f) /\ FirstKeyframe(f))

FairSpec == Spec /\ Fairness

-----------------------------------------------------------------------------

\* Once told, the engine ends, wherever the stop finds it; it is the engine that the
\* manager's model counts on.
Status == CASE pc = "ended" -> "exited" [] pc # "ended" /\ told -> "stopping" [] OTHER -> "running"

Life == INSTANCE EngineLife WITH status <- Status

LifeKept == Life!FairSpec

\* The credential that the relay and the hub log in with was minted for the very stream
\* they name, whatever attempts came before (the order of _setup's last two calls).
OneMint == pc \in {"open", "loop"} => minted # "other"

\* A list that did not decrypt is not used again: from the failed validation to the next
\* rotation, no session of the camera finds it in the memo, unless an engine that was
\* given up on stores it late.
RefusedIsForgotten == refused => memo # "stale"

\* What the sink gets begins with a keyframe, from whichever leg, and a session whose first
\* keyframe failed gives it nothing.
PictureStartsAtKeyframe == given # "delta" /\ (kf = "bad" => given = "none")

\* What keeps a session without a picture for good: the dials are used up, the first
\* keyframe failed, no video credential was minted, or the device fell asleep or stopped
\* sending video at a time the engine neither wakes nor asks it any more.
OutOfDials == ~hub /\ dials = MaxDials
Dark       == kf = "bad"
SoundOnly  == minted = "none"
Forgotten  ==
    \/ authorised /\ dev # "video"
    \/ publishing /\ dev = "asleep"

\* Every other session gets its picture, whatever is lost, reordered, late or asleep.
FirstPicture ==
    pc = "loop" ~>
        \/ given # "none" \/ pc = "ended"
        \/ OutOfDials \/ Dark \/ SoundOnly \/ Forgotten

=============================================================================
