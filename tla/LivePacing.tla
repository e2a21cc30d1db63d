----------------------------- MODULE LivePacing -----------------------------
(***************************************************************************)
(* The way of a frame from the engine's thread to ffmpeg                   *)
(* (custom_components/botslab/live/manager.py): the callback into the      *)
(* event loop, the bounded queue, the pacer that writes on the clock of    *)
(* the capture timestamps; and what a session that ends leaves to the next *)
(* one while its engine, which may outlive it, still emits.                *)
(*                                                                         *)
(* The loop is prompt: time does not pass while one of its tasks can run.  *)
(***************************************************************************)
EXTENDS Integers, FiniteSets, Sequences

CONSTANTS
    Sessions,   \* sessions of the run
    Schedules,  \* what an engine may emit: when, since its start, and with which timestamp
    QMax,       \* the queue's maxsize, 90
    Spacing,    \* between the timestamps of consecutive frames
    MinGap,     \* _MIN_WRITE_INTERVAL
    Cap,        \* the longest sleep, 0.5 s
    Reanchor,   \* the timestamp jump that starts a new clock, 2 s
    MaxTime     \* bound of the run

ASSUME PacingConstants ==
    /\ Sessions \in Nat \ {0} /\ QMax \in Nat \ {0} /\ MaxTime \in Nat
    /\ Schedules \subseteq Seq([at : Nat, ts : Nat])
    /\ Spacing \in Nat \ {0} /\ MinGap \in 1..Spacing
    /\ Cap \in Nat \ {0} /\ Reanchor \in Nat /\ MinGap <= Reanchor

\* A device's clock is steady but for jumps: over any stretch of frames it has gone on by
\* no more than their spacing, or has jumped ahead by more than Reanchor, or back.
ASSUME SteadyClock ==
    \A s \in Schedules : \A m, n \in 1..Len(s) :
        LET dt == s[n].ts - s[m].ts
        IN m < n => s[n].at >= s[m].at /\ (dt <= (n - m) * Spacing \/ dt > Reanchor)

VARIABLES
    now,
    phase,     \* "off", "on", "stopping": the session's life, see LiveManager
    session,   \* the session's number; 0 before the first
    alive,     \* engines that run
    engine,    \* engine[e]: its schedule, when it was started, the frames it has emitted
    calls,     \* _enqueue calls the engines have put into the event loop
    q,         \* _pace_q: frames with the time they were queued at
    pacer,     \* _pace_ffmpeg: what it waits for, the frame it holds, its clock
    first,     \* the frame this session's ffmpeg got first, or None
    dropped,   \* frames this session's queue has dropped
    heirs      \* engines that outlived an earlier session into this one, or whose frames did

vars == <<now, phase, session, alive, engine, calls, q, pacer, first, dropped, heirs>>

Engines == 1..Sessions
None == [engine |-> 0, n |-> 0, ts |-> 0]

\* No clock yet, nothing written.
NewPacer == [at |-> "get", frame |-> None, since |-> 0, until |-> 0,
             refTs |-> -1, refWall |-> 0, wrote |-> -MinGap]

Init ==
    /\ now = 0 /\ phase = "off" /\ session = 0 /\ alive = {}
    /\ engine = [e \in Engines |-> [schedule |-> <<>>, from |-> 0, n |-> 0]]
    /\ calls = <<>> /\ q = <<>> /\ pacer = NewPacer
    /\ first = None /\ dropped = 0 /\ heirs = {}

-----------------------------------------------------------------------------
(* The engine's thread, and the event loop's callbacks.                    *)

Due(e) ==
    /\ e \in alive
    /\ LET r == engine[e] IN r.n < Len(r.schedule) /\ now >= r.from + r.schedule[r.n + 1].at

\* _sink: the engine has a frame, captured some time ago.
Emits(e) ==
    /\ Due(e)
    /\ LET n == engine[e].n + 1 IN
        /\ engine' = [engine EXCEPT ![e].n = n]
        /\ calls' = Append(calls, [engine |-> e, n |-> n,
                                   ts |-> engine[e].from + engine[e].schedule[n].ts])
    /\ UNCHANGED <<now, phase, session, alive, q, pacer, first, dropped, heirs>>

\* An engine that was told to stop ends some time; one may also end by itself.
Exits(e) ==
    /\ e \in alive
    /\ e = session /\ phase = "on" => engine[e].n = Len(engine[e].schedule)
    /\ alive' = alive \ {e}
    /\ UNCHANGED <<now, phase, session, engine, calls, q, pacer, first, dropped, heirs>>

\* _enqueue: into the queue of whatever session there is now; a full one loses its oldest.
Enqueue ==
    /\ calls # <<>>
    /\ calls' = Tail(calls)
    /\ LET room == IF Len(q) = QMax THEN Tail(q) ELSE q
       IN q' = IF phase = "off" THEN q ELSE Append(room, [frame |-> Head(calls), since |-> now])
    /\ dropped' = IF phase # "off" /\ Len(q) = QMax THEN dropped + 1 ELSE dropped
    /\ UNCHANGED <<now, phase, session, alive, engine, pacer, first, heirs>>

-----------------------------------------------------------------------------
(* _pace_ffmpeg.                                                           *)

Later(a, b) == IF a > b THEN a ELSE b

\* Mutated form of Anchored: a timestamp far ahead is waited for.
AnchoredOnce(ts) ==
    LET dt == ts - pacer.refTs
    IN IF pacer.refTs = -1 \/ dt < 0 THEN [refTs |-> ts, refWall |-> now]
       ELSE [refTs |-> pacer.refTs, refWall |-> pacer.refWall]

\* The clock for a frame with this timestamp: the old one, or one that starts with it.
Anchored(ts) ==
    LET dt == ts - pacer.refTs
    IN IF pacer.refTs = -1 \/ dt < 0 \/ dt > Reanchor THEN [refTs |-> ts, refWall |-> now]
       ELSE [refTs |-> pacer.refTs, refWall |-> pacer.refWall]

\* When the frame is due, a long sleep cut short.
DueAt(clock, ts) ==
    LET target == Later(clock.refWall + ts - clock.refTs, pacer.wrote + MinGap)
    IN IF target > now + Cap THEN now + Cap ELSE Later(target, now)

\* Mutated form of Takes: behind by more than a frame, it goes on with the newest.
TakesNewest ==
    /\ phase # "off" /\ pacer.at = "get" /\ q # <<>>
    /\ q' = <<>>
    /\ LET f == q[Len(q)].frame
           clock == Anchored(f.ts)
       IN pacer' = [pacer EXCEPT !.at = "sleep", !.frame = f, !.since = q[Len(q)].since,
                        !.until = DueAt(clock, f.ts),
                        !.refTs = clock.refTs, !.refWall = clock.refWall]
    /\ UNCHANGED <<now, phase, session, alive, engine, calls, first, dropped, heirs>>

Takes ==
    /\ phase # "off" /\ pacer.at = "get" /\ q # <<>>
    /\ q' = Tail(q)
    /\ LET f == Head(q).frame
           clock == Anchored(f.ts)
       IN pacer' = [pacer EXCEPT !.at = "sleep", !.frame = f, !.since = Head(q).since,
                        !.until = DueAt(clock, f.ts),
                        !.refTs = clock.refTs, !.refWall = clock.refWall]
    /\ UNCHANGED <<now, phase, session, alive, engine, calls, first, dropped, heirs>>

Writes ==
    /\ phase # "off" /\ pacer.at = "sleep" /\ now >= pacer.until
    /\ pacer' = [pacer EXCEPT !.at = "get", !.frame = None, !.since = 0, !.until = 0, !.wrote = now]
    /\ first' = IF first = None THEN pacer.frame ELSE first
    /\ UNCHANGED <<now, phase, session, alive, engine, calls, q, dropped, heirs>>

-----------------------------------------------------------------------------
(* The session, as far as frames are concerned.                            *)

\* _start_locked: queue and pacer are new, the engine starts after them.
Start ==
    /\ phase = "off" /\ session < Sessions
    /\ phase' = "on"
    /\ session' = session + 1
    /\ heirs' = alive \cup {calls[i].engine : i \in DOMAIN calls}
    /\ alive' = alive \cup {session + 1}
    /\ \E s \in Schedules :
        engine' = [engine EXCEPT ![session + 1] = [schedule |-> s, from |-> now, n |-> 0]]
    /\ q' = <<>> /\ pacer' = NewPacer /\ first' = None /\ dropped' = 0
    /\ UNCHANGED <<now, calls>>

StopBegins ==
    /\ phase = "on"
    /\ phase' = "stopping"
    /\ UNCHANGED <<now, session, alive, engine, calls, q, pacer, first, dropped, heirs>>

\* The engine's future is done, which the loop learns after the engine's last frame; or five
\* seconds are over.  The pacer is cancelled, the queue let go.
StopEnds ==
    /\ phase = "stopping"
    /\ session \notin alive => \A i \in DOMAIN calls : calls[i].engine # session
    /\ phase' = "off"
    /\ q' = <<>> /\ pacer' = NewPacer
    /\ UNCHANGED <<now, session, alive, engine, calls, first, dropped, heirs>>

\* Time passes when nothing can run, and only while there is something to come.
Tick ==
    /\ now < MaxTime
    /\ session > 0 /\ (phase # "off" \/ (session < Sessions /\ alive # {}))
    /\ calls = <<>> /\ \A e \in alive : ~Due(e)
    /\ phase # "off" => IF pacer.at = "get" THEN q = <<>> ELSE now < pacer.until
    /\ now' = now + 1
    /\ UNCHANGED <<phase, session, alive, engine, calls, q, pacer, first, dropped, heirs>>

Next ==
    \/ \E e \in Engines : Emits(e) \/ Exits(e)
    \/ Enqueue \/ Takes \/ Writes
    \/ Start \/ StopBegins \/ StopEnds
    \/ Tick

Spec == Init /\ [][Next]_vars

-----------------------------------------------------------------------------

\* ffmpeg gets a picture it can decode first: the frame its own engine emitted first, which is
\* a keyframe.  Two things may take that from it: an engine that outlived its session emits
\* into this one's queue, or the queue overran before the first frame was written.
PictureFirst ==
    first # None => \/ first.engine = session /\ first.n = 1
                    \/ heirs # {} \/ dropped > 0

Waiting == {q[i].since : i \in DOMAIN q} \cup (IF pacer.at = "sleep" THEN {pacer.since} ELSE {})

\* The picture stays near live: however bursts arrive, frames are dropped and the device's
\* clock jumps, no frame waits longer than the video a full queue holds and the time one
\* clock is followed.  (The frames of an engine that outlived its session carry timestamps
\* of their own, and the clock starts anew with each of them.)
NearLive ==
    heirs = {} => \A t \in Waiting : now - t <= QMax * Spacing + Reanchor
=============================================================================
