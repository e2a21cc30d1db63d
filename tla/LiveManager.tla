----------------------------- MODULE LiveManager -----------------------------
(***************************************************************************)
(* The life cycle of a live-view session: LiveStreamManager                *)
(* (custom_components/botslab/live/manager.py), one instance per camera.   *)
(*                                                                         *)
(* Everything but the engine thread runs on Home Assistant's event loop,   *)
(* so a step here is what a coroutine does between two suspension points:  *)
(* the wait for the asyncio lock, for the ffmpeg subprocess to spawn or to *)
(* exit, for the engine future, for the first media, for the server to     *)
(* close.  The engine thread and the ffmpeg process move on their own.     *)
(*                                                                         *)
(* A session (an engine thread with its ffmpeg) is named after the viewer  *)
(* or the connection whose call started it: each of those calls the        *)
(* ensure-engine helper once, so it starts at most one.  Time is left out: *)
(* a timeout may fire at any moment, which includes every real schedule.   *)
(***************************************************************************)
EXTENDS Naturals, Sequences, FiniteSets

CONSTANTS
    Viewers,    \* calls of async_get_stream_source
    Conns,      \* TCP consumers of the local MPEG-TS server: calls of _on_client
    IdleTasks,  \* _async_idle_stop tasks that may be pending at once
    Unloads,    \* calls of async_stop (one per config-entry unload)
    None        \* no process, no session

Starters == Viewers \cup Conns
Procs == Starters \cup IdleTasks \cup Unloads

ASSUME ProcsAreDisjoint ==
    /\ Viewers \cap Conns = {}
    /\ Starters \cap IdleTasks = {}
    /\ Starters \cap Unloads = {}
    /\ IdleTasks \cap Unloads = {}
    /\ None \notin Procs

VARIABLES
    holder,   \* the process that holds _lock, or None
    waiters,  \* the lock's FIFO of waiting processes
    pc,       \* where each process is suspended
    cur,      \* the session of _engine/_engine_future/_ff (None when not _running)
    engine,   \* per session, its engine thread
    ff,       \* per session, its ffmpeg process
    media,    \* the sessions whose _first_media event is set
    awaits,   \* per viewer, the session whose event it waits on
    server,   \* the local TCP server
    clients,  \* _clients: the connections media is broadcast to
    timer     \* _idle_handle is armed

vars == <<holder, waiters, pc, cur, engine, ff, media, awaits, server,
          clients, timer>>

\* `done' is the end of a one-shot call, `idle' an idle task that is not there.
ViewerPc == {"new", "lock", "stopTasks", "stopFf", "exec", "media", "done"}
ConnPc   == {"new", "lock", "stopTasks", "stopFf", "exec", "reading", "done"}
IdlePc   == {"idle", "lock", "stopEngine", "stopTasks", "stopFf"}
UnloadPc == {"new", "lock", "stopEngine", "stopTasks", "stopFf", "closing", "done"}

\* Suspended inside _stop_engine_locked, and anywhere with the lock held.
Stopping == {"stopEngine", "stopTasks", "stopFf"}
Holding  == Stopping \cup {"exec", "closing"}

TypeOK ==
    /\ holder \in Procs \cup {None}
    /\ waiters \in Seq(Procs)
    /\ pc \in [Procs -> ViewerPc \cup ConnPc \cup IdlePc \cup UnloadPc]
    /\ \A v \in Viewers : pc[v] \in ViewerPc
    /\ \A c \in Conns : pc[c] \in ConnPc
    /\ \A i \in IdleTasks : pc[i] \in IdlePc
    /\ \A u \in Unloads : pc[u] \in UnloadPc
    /\ cur \in Starters \cup {None}
    /\ engine \in [Starters -> {"none", "running", "stopping", "exited"}]
    /\ ff \in [Starters -> {"none", "running", "terminating", "dead"}]
    /\ media \in SUBSET Starters
    /\ awaits \in [Viewers -> Starters \cup {None}]
    /\ server \in {"none", "up", "closing"}
    /\ clients \in SUBSET Conns
    /\ timer \in BOOLEAN

Init ==
    /\ holder = None
    /\ waiters = <<>>
    /\ pc = [p \in Procs |-> IF p \in IdleTasks THEN "idle" ELSE "new"]
    /\ cur = None
    /\ engine = [s \in Starters |-> "none"]
    /\ ff = [s \in Starters |-> "none"]
    /\ media = {}
    /\ awaits = [v \in Viewers |-> None]
    /\ server = "none"
    /\ clients = {}
    /\ timer = FALSE

-----------------------------------------------------------------------------
(* The asyncio lock: FIFO, handed to the first waiter when it is released. *)

\* `async with self._lock' by a call that begins (when `begins' holds) at a time the
\* lock is taken or promised to a waiter: p joins the queue.
Queues(p, begins) ==
    /\ begins
    /\ holder # None \/ waiters # <<>>
    /\ waiters' = Append(waiters, p)
    /\ pc' = [pc EXCEPT ![p] = "lock"]
    /\ UNCHANGED holder

\* p has the lock: woken at the head of the queue, or at once, without suspending,
\* when its call begins with the lock free.  What p does next sets holder' and pc'.
Acquires(p, begins) ==
    /\ holder = None
    /\ \/ /\ pc[p] = "lock"
          /\ waiters # <<>>
          /\ Head(waiters) = p
          /\ waiters' = Tail(waiters)
       \/ /\ begins
          /\ waiters = <<>>
          /\ UNCHANGED waiters

\* p suspends at pc `to' with the lock held, or lets go of it and goes there.
Suspend(p, to) == holder' = p /\ pc' = [pc EXCEPT ![p] = to]
Release(p, to) == holder' = None /\ pc' = [pc EXCEPT ![p] = to]

\* A cancelled waiter leaves the queue (asyncio.Lock.acquire removes its future).
Without(s, i) == SubSeq(s, 1, i - 1) \o SubSeq(s, i + 1, Len(s))

-----------------------------------------------------------------------------
(* _ensure_engine_locked and _start_locked, called by starters.            *)

\* The lock is let go of with session s in place: a viewer goes on to wait for
\* that session's first media, a connection joins the clients and reads.
Proceed(p, s) ==
    \/ /\ p \in Viewers
       /\ Release(p, "media")
       /\ awaits' = [awaits EXCEPT ![p] = s]
       /\ UNCHANGED clients
    \/ /\ p \in Conns
       /\ Release(p, "reading")
       /\ clients' = clients \cup {p}
       /\ UNCHANGED awaits

\* engine.stop(): an engine that has ended takes no notice of it.
Tell(s) == engine' = [engine EXCEPT ![s] = IF @ = "exited" THEN @ ELSE "stopping"]

\* Reap a session whose engine has exited, start one when there is none, else
\* use the session as it is.  Reaping tells the engine too and finds its future
\* done, so it first suspends on the cancelled pump and pace tasks.
EnsureEngine(p) ==
    \/ /\ cur # None /\ engine[cur] = "exited"
       /\ Tell(cur)
       /\ Suspend(p, "stopTasks")
       /\ UNCHANGED <<clients, awaits>>
    \/ /\ cur = None
       /\ Suspend(p, "exec")
       /\ UNCHANGED <<engine, clients, awaits>>
    \/ /\ cur # None /\ engine[cur] # "exited"
       /\ Proceed(p, cur)
       /\ UNCHANGED engine

\* The camera entity is removed before its unload callbacks run: calls that Home
\* Assistant had let through by then may still come while async_stop runs.
ViewerCalls(v) ==
    /\ pc[v] = "new"
    /\ \A u \in Unloads : pc[u] # "done"

ViewerQueues(v) ==
    /\ Queues(v, ViewerCalls(v))
    /\ UNCHANGED <<cur, engine, ff, media, awaits, server, clients, timer>>

ViewerEnters(v) ==
    /\ Acquires(v, ViewerCalls(v))
    /\ timer' = FALSE
    /\ server' = IF server = "none" THEN "up" ELSE server
    /\ EnsureEngine(v)
    /\ UNCHANGED <<cur, ff, media>>

\* The listening socket accepts; the handler disarms the timer before the lock.
ConnCalls(c) == pc[c] = "new" /\ server = "up"

ConnQueues(c) ==
    /\ Queues(c, ConnCalls(c))
    /\ timer' = FALSE
    /\ UNCHANGED <<cur, engine, ff, media, awaits, server, clients>>

ConnEnters(c) ==
    /\ Acquires(c, ConnCalls(c))
    /\ timer' = (timer /\ pc[c] = "lock")
    /\ EnsureEngine(c)
    /\ UNCHANGED <<cur, ff, media, server>>

\* create_subprocess_exec returned: the session is p's, its engine is handed to
\* the executor and the lock is released.
FfmpegSpawned(p) ==
    /\ pc[p] = "exec"
    /\ cur' = p
    /\ engine' = [engine EXCEPT ![p] = "running"]
    /\ ff' = [ff EXCEPT ![p] = "running"]
    /\ Proceed(p, p)
    /\ UNCHANGED <<waiters, media, server, timer>>

\* ffmpeg cannot be spawned: the exception leaves the call with no session.
SpawnFails(p) ==
    /\ pc[p] = "exec"
    /\ Release(p, "done")
    /\ UNCHANGED <<waiters, cur, engine, ff, media, awaits, server, clients, timer>>

-----------------------------------------------------------------------------
(* The rest of async_get_stream_source.                                    *)

\* _first_media is set, or the eight seconds are over: either way the viewer
\* gets the URL, and the idle timer is armed in case nobody connects to it.
MediaReady(v) ==
    /\ pc[v] = "media"
    /\ awaits[v] \in media
    /\ pc' = [pc EXCEPT ![v] = "done"]
    /\ timer' = TRUE
    /\ UNCHANGED <<holder, waiters, cur, engine, ff, media, awaits, server, clients>>

MediaTimeout(v) ==
    /\ pc[v] = "media"
    /\ pc' = [pc EXCEPT ![v] = "done"]
    /\ timer' = TRUE
    /\ UNCHANGED <<holder, waiters, cur, engine, ff, media, awaits, server, clients>>

\* Mutated form of CancelledAtMedia: no _schedule_idle on the way out.
CancelledAtMediaUntimed(v) ==
    /\ pc[v] = "media"
    /\ pc' = [pc EXCEPT ![v] = "done"]
    /\ UNCHANGED <<holder, waiters, cur, engine, ff, media, awaits, server, clients, timer>>

\* Home Assistant gives up on stream_source while it waits for media: the idle
\* timer is armed and the cancellation goes on.
CancelledAtMedia(v) ==
    /\ pc[v] = "media"
    /\ pc' = [pc EXCEPT ![v] = "done"]
    /\ timer' = TRUE
    /\ UNCHANGED <<holder, waiters, cur, engine, ff, media, awaits, server, clients>>

\* Cancelled while it waits for the lock.
CancelledAtLock(v) ==
    /\ pc[v] = "lock"
    /\ \E i \in 1..Len(waiters) : waiters[i] = v /\ waiters' = Without(waiters, i)
    /\ pc' = [pc EXCEPT ![v] = "done"]
    /\ UNCHANGED <<holder, cur, engine, ff, media, awaits, server, clients, timer>>

\* Mutated form of CancelledHolding: the lock is taken by hand and not let go of.
CancelledHoldingLocked(v) ==
    /\ pc[v] \in {"exec", "stopFf"}
    /\ pc' = [pc EXCEPT ![v] = "done"]
    /\ UNCHANGED <<holder, waiters, cur, engine, ff, media, awaits, server, clients, timer>>

\* Cancelled while ffmpeg spawns (asyncio kills the half-made process) or while
\* the reaped ffmpeg is waited for (if it still runs: an exited one is not waited
\* for): neither catches CancelledError, so the call ends there, before the reset
\* of the session it was reaping.  At the wait for the cancelled tasks the code
\* swallows the cancellation, so nothing changes.
CancelledHolding(v) ==
    /\ \/ pc[v] = "exec"
       \/ pc[v] = "stopFf" /\ ff[cur] = "terminating"
    /\ Release(v, "done")
    /\ UNCHANGED <<waiters, cur, engine, ff, media, awaits, server, clients, timer>>

-----------------------------------------------------------------------------
(* A connected consumer.                                                   *)

\* Mutated form of Disconnects: the last client to leave arms no timer.
DisconnectsUntimed(c) ==
    /\ pc[c] = "reading"
    /\ pc' = [pc EXCEPT ![c] = "done"]
    /\ clients' = clients \ {c}
    /\ UNCHANGED <<holder, waiters, cur, engine, ff, media, awaits, server, timer>>

\* End of file, a reset, or the server's own close: the last one out arms the timer.
Disconnects(c) ==
    /\ pc[c] = "reading"
    /\ pc' = [pc EXCEPT ![c] = "done"]
    /\ clients' = clients \ {c}
    /\ timer' = (timer \/ clients' = {})
    /\ UNCHANGED <<holder, waiters, cur, engine, ff, media, awaits, server>>

\* A write to c fails inside _broadcast, which only forgets it.
BroadcastDrops(c) ==
    /\ pc[c] = "reading"
    /\ c \in clients
    /\ cur # None /\ ff[cur] = "running"
    /\ clients' = clients \ {c}
    /\ UNCHANGED <<holder, waiters, pc, cur, engine, ff, media, awaits, server, timer>>

-----------------------------------------------------------------------------
(* _stop_engine_locked, in the steps its three waits cut it into.          *)

\* The transport of an accepted connection is open until its handler ends.
Attached(c) == pc[c] \notin {"new", "done"}

\* What its caller does when it returns, with cur already reset.
AfterStop(p) ==
    \/ /\ p \in Starters
       /\ Suspend(p, "exec")
       /\ UNCHANGED <<server, clients>>
    \/ /\ p \in IdleTasks
       /\ Release(p, "idle")
       /\ UNCHANGED <<server, clients>>
    \/ /\ p \in Unloads
       /\ server = "none" \/ \A c \in Conns : ~Attached(c)
       /\ Release(p, "done")
       /\ clients' = {}
       /\ server' = "none"
    \/ /\ p \in Unloads
       /\ server # "none" /\ \E c \in Conns : Attached(c)
       /\ Suspend(p, "closing")
       /\ server' = "closing"
       /\ UNCHANGED clients

\* Mutated form of BeginStop: the engine is waited for without being told to stop.
BeginStopUnflagged(p) ==
    \/ /\ cur = None
       /\ AfterStop(p)
       /\ UNCHANGED engine
    \/ /\ cur # None
       /\ Suspend(p, "stopEngine")
       /\ UNCHANGED <<engine, server, clients>>

\* Mutated form of BeginStop: the engine is told and left to end, its session to be reaped.
BeginStopTrusting(p) ==
    \/ /\ cur = None
       /\ AfterStop(p)
       /\ UNCHANGED engine
    \/ /\ cur # None
       /\ Tell(cur)
       /\ Release(p, IF p \in IdleTasks THEN "idle" ELSE "done")
       /\ UNCHANGED <<server, clients>>

\* engine.stop() and the wait for its future, which is over at once when the engine has
\* ended; with no session nothing suspends.
BeginStop(p) ==
    \/ /\ cur = None
       /\ AfterStop(p)
       /\ UNCHANGED engine
    \/ /\ cur # None
       /\ Tell(cur)
       /\ Suspend(p, IF engine[cur] = "exited" THEN "stopTasks" ELSE "stopEngine")
       /\ UNCHANGED <<server, clients>>

\* The future is done, or five seconds have passed and the thread is left to
\* itself; the pump and pace tasks are cancelled and awaited.
EngineWaitOver(p) ==
    /\ pc[p] = "stopEngine"
    /\ Suspend(p, "stopTasks")
    /\ UNCHANGED <<waiters, cur, engine, ff, media, awaits, server, clients, timer>>

\* Both tasks have ended; ffmpeg is sent SIGTERM.
TasksStopped(p) ==
    /\ pc[p] = "stopTasks"
    /\ ff' = [ff EXCEPT ![cur] = IF @ = "running" THEN "terminating" ELSE @]
    /\ Suspend(p, "stopFf")
    /\ UNCHANGED <<waiters, cur, engine, media, awaits, server, clients, timer>>

\* ffmpeg has exited, or five seconds have passed; the session is forgotten.
FfWaitOver(p) ==
    /\ pc[p] = "stopFf"
    /\ cur' = None
    /\ AfterStop(p)
    /\ UNCHANGED <<waiters, engine, ff, media, awaits, timer>>

-----------------------------------------------------------------------------
(* _schedule_idle's timer and _async_idle_stop; async_stop.                *)

\* The timer fires: the task starts eagerly, so it clears the handle and asks for
\* the lock in one step.
IdleCalls(i) == pc[i] = "idle" /\ timer

IdleQueues(i) ==
    /\ Queues(i, IdleCalls(i))
    /\ timer' = FALSE
    /\ UNCHANGED <<cur, engine, ff, media, awaits, server, clients>>

\* Mutated form of IdleEnters: no look at the clients once the lock is held.
IdleEntersBlindly(i) ==
    /\ Acquires(i, IdleCalls(i))
    /\ timer' = (timer /\ pc[i] = "lock")
    /\ BeginStop(i)
    /\ UNCHANGED <<cur, ff, media, awaits>>

IdleEnters(i) ==
    /\ Acquires(i, IdleCalls(i))
    /\ timer' = (timer /\ pc[i] = "lock")
    /\ \/ /\ clients # {}
          /\ Release(i, "idle")
          /\ UNCHANGED <<engine, server, clients>>
       \/ /\ clients = {}
          /\ BeginStop(i)
    /\ UNCHANGED <<cur, ff, media, awaits>>

UnloadQueues(u) ==
    /\ Queues(u, pc[u] = "new")
    /\ UNCHANGED <<cur, engine, ff, media, awaits, server, clients, timer>>

UnloadEnters(u) ==
    /\ Acquires(u, pc[u] = "new")
    /\ timer' = FALSE
    /\ BeginStop(u)
    /\ UNCHANGED <<cur, ff, media, awaits>>

\* Server.wait_closed waits for every accepted connection to be gone (Python 3.12
\* and later, which the project requires); only then are the clients closed.
ServerClosed(u) ==
    /\ pc[u] = "closing"
    /\ \A c \in Conns : ~Attached(c)
    /\ server' = "none"
    /\ clients' = {}
    /\ Release(u, "done")
    /\ UNCHANGED <<waiters, cur, engine, ff, media, awaits, timer>>

-----------------------------------------------------------------------------
(* The engine thread and the ffmpeg process.                               *)

\* The session ended by itself: setup used up its retries or the stream broke.
EngineEnds(s) ==
    /\ engine[s] = "running"
    /\ engine' = [engine EXCEPT ![s] = "exited"]
    /\ UNCHANGED <<holder, waiters, pc, cur, ff, media, awaits, server, clients, timer>>

\* The thread reaches a check of its stop flag.
EngineStops(s) ==
    /\ engine[s] = "stopping"
    /\ engine' = [engine EXCEPT ![s] = "exited"]
    /\ UNCHANGED <<holder, waiters, pc, cur, ff, media, awaits, server, clients, timer>>

FfmpegCrashes(s) ==
    /\ ff[s] = "running"
    /\ ff' = [ff EXCEPT ![s] = "dead"]
    /\ UNCHANGED <<holder, waiters, pc, cur, engine, media, awaits, server, clients, timer>>

FfmpegTerminates(s) ==
    /\ ff[s] = "terminating"
    /\ ff' = [ff EXCEPT ![s] = "dead"]
    /\ UNCHANGED <<holder, waiters, pc, cur, engine, media, awaits, server, clients, timer>>

\* The pump reads ffmpeg's first bytes; it is cancelled when tasks are stopped.
FirstMedia(s) ==
    /\ cur = s
    /\ ff[s] = "running"
    /\ s \notin media
    /\ holder # None => pc[holder] # "stopTasks"
    /\ media' = media \cup {s}
    /\ UNCHANGED <<holder, waiters, pc, cur, engine, ff, awaits, server, clients, timer>>

-----------------------------------------------------------------------------

Viewer(v) ==
    \/ ViewerQueues(v) \/ ViewerEnters(v)
    \/ MediaReady(v) \/ MediaTimeout(v)
    \/ CancelledAtLock(v) \/ CancelledHolding(v) \/ CancelledAtMedia(v)

Connection(c) ==
    ConnQueues(c) \/ ConnEnters(c) \/ Disconnects(c) \/ BroadcastDrops(c)

Idle(i) == IdleQueues(i) \/ IdleEnters(i)

Unload(u) == UnloadQueues(u) \/ UnloadEnters(u) \/ ServerClosed(u)

Locked(p) == EngineWaitOver(p) \/ TasksStopped(p) \/ FfWaitOver(p)

Session(s) ==
    \/ FfmpegSpawned(s) \/ SpawnFails(s)
    \/ EngineEnds(s) \/ EngineStops(s)
    \/ FfmpegCrashes(s) \/ FfmpegTerminates(s) \/ FirstMedia(s)

Next ==
    \/ \E v \in Viewers : Viewer(v)
    \/ \E c \in Conns : Connection(c)
    \/ \E i \in IdleTasks : Idle(i)
    \/ \E u \in Unloads : Unload(u)
    \/ \E p \in Procs : Locked(p)
    \/ \E s \in Starters : Session(s)

Spec == Init /\ [][Next]_vars

(***************************************************************************)
(* Fairness: what the event loop, the timeouts in the code and the         *)
(* operating system bring about.  Nothing makes a viewer or a consumer     *)
(* arrive, a consumer leave, or a call be cancelled; a connection whose    *)
(* writer failed does read its end of file.                                *)
(***************************************************************************)
Fairness ==
    /\ \A v \in Viewers :
        /\ WF_vars(pc[v] = "lock" /\ ViewerEnters(v))
        /\ WF_vars(MediaReady(v) \/ MediaTimeout(v))
    /\ \A c \in Conns :
        /\ WF_vars(pc[c] = "lock" /\ ConnEnters(c))
        /\ WF_vars(c \notin clients /\ Disconnects(c))
    /\ \A i \in IdleTasks : WF_vars(IdleQueues(i)) /\ WF_vars(IdleEnters(i))
    /\ \A u \in Unloads :
        /\ WF_vars(pc[u] = "lock" /\ UnloadEnters(u))
        /\ WF_vars(ServerClosed(u))
    /\ \A p \in Procs : WF_vars(Locked(p))
    /\ \A s \in Starters :
        /\ WF_vars(FfmpegSpawned(s) \/ SpawnFails(s))
        /\ WF_vars(EngineStops(s))
        /\ WF_vars(FfmpegTerminates(s))

FairSpec == Spec /\ Fairness

\* The consumers are polite as well: every one of them leaves in the end.
PoliteSpec == FairSpec /\ \A c \in Conns : WF_vars(Disconnects(c))

-----------------------------------------------------------------------------
(* What the life cycle keeps, whatever the schedule.                       *)

\* The engine thread of s is still there, told to stop or not.
EngineAlive(s) == engine[s] \in {"running", "stopping"}

\* No session is lost sight of: an engine thread that nobody told to stop, or an
\* ffmpeg that nobody told to terminate, is the manager's current one, through
\* every cancellation, timeout and reap of _stop_engine_locked.
NoOrphanSession ==
    \A s \in Starters :
        (engine[s] = "running" \/ ff[s] = "running") => cur = s

\* p is on its way to arming the idle timer, to joining the clients or to
\* stopping the session: it does one of them whatever happens to it.
Attending(p) ==
    \/ p \in Viewers   /\ pc[p] \in {"stopTasks", "stopFf", "media"}
    \/ p \in Conns     /\ pc[p] \notin {"new", "done"}
    \/ p \in IdleTasks /\ pc[p] # "idle"
    \/ p \in Unloads   /\ pc[p] \in {"lock"} \cup Stopping

\* The battery is never forgotten: while an engine that was not told to stop runs,
\* a client watches, the idle timer is armed, or some coroutine is on its way to
\* one of the two (the promise of _schedule_idle, _cancel_idle and _on_client).
WatchedOrTimed ==
    (\E s \in Starters : engine[s] = "running") =>
        clients # {} \/ timer \/ \E p \in Procs : Attending(p)

\* Whoever is inside _stop_engine_locked has a session to stop and a reason that
\* stays true across all three waits: an idle stop never takes the picture from a
\* consumer, and a re-open reaps a session only if its engine is over.
TeardownJustified ==
    \A p \in Procs : pc[p] \in Stopping =>
        /\ cur # None
        /\ p \in IdleTasks => clients = {}
        /\ p \in Starters => engine[cur] = "exited"

\* An engine does not run for ever unwatched: it ends or a client connects (the
\* class docstring: "idle-stopped to spare the battery").
BatterySpared ==
    (\E s \in Starters : EngineAlive(s)) ~>
        (clients # {} \/ \A s \in Starters : ~EngineAlive(s))

\* Every viewer gets the URL or an error, unless an unload hangs on the server's
\* connections: no order of cancellations, reaps and idle stops leaves the lock held.
ViewersAnswered ==
    \/ <>[](\E u \in Unloads : pc[u] = "closing")
    \/ \A v \in Viewers : pc[v] = "lock" ~> pc[v] = "done"

\* A viewer or a consumer that is let go on with a session goes on with one whose engine
\* runs and has not been told to stop, be it an older one or its own: no idle stop, reap or
\* cancelled reap lets go of the lock with an engine in place that is on its way out, which
\* a re-open would take for a live one since its future is not done
\* (_ensure_engine_locked: "a URL backed by a dead engine").
NobodyJoinsADyingEngine ==
    [][\A p \in Starters :
        pc[p] \notin {"media", "reading"} /\ pc'[p] \in {"media", "reading"} =>
            /\ cur' # None /\ engine'[cur'] = "running"
            /\ p \in Viewers => awaits'[p] = cur']_vars

-----------------------------------------------------------------------------
(* The inductive invariant behind the safety properties.                   *)

\* Only one coroutine is between taking and releasing the lock.
LockOwner == \A p \in Procs : pc[p] \in Holding <=> holder = p

\* What a suspended holder of the lock can rely on when it resumes.
HolderView ==
    \A p \in Procs :
        /\ pc[p] \in {"exec", "closing"} => cur = None
        /\ pc[p] \in Stopping => cur # None /\ engine[cur] # "running"
        /\ pc[p] = "stopFf" => cur # None /\ ff[cur] # "running"

IInv ==
    /\ TypeOK
    /\ LockOwner
    /\ HolderView
    /\ NoOrphanSession
    /\ TeardownJustified
    /\ WatchedOrTimed

-----------------------------------------------------------------------------
(* What the documentation says and the code does not keep.                 *)

\* "Full teardown (engine + ffmpeg + server) -- called on unload" (manager.py:184):
\* async_stop comes to its end.
UnloadCompletes ==
    \A u \in Unloads : pc[u] = "lock" ~> pc[u] = "done"
=============================================================================
