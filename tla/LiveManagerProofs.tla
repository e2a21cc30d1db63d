-------------------------- MODULE LiveManagerProofs --------------------------
(***************************************************************************)
(* The safety properties of LiveManager, for any sets of viewers,          *)
(* connections, idle tasks and unloads.  IInv is preserved by every action *)
(* (one lemma per kind of process, one step per action); the properties    *)
(* are conjuncts of it.  That nobody joins a dying engine needs a fact     *)
(* more, and is proved after them.                                         *)
(***************************************************************************)
EXTENDS LiveManager, TLAPS

\* A waiter that leaves the lock's queue leaves a queue of processes.
LEMMA WithoutTyped ==
    ASSUME NEW S, NEW s \in Seq(S), NEW i \in 1..Len(s)
    PROVE  Without(s, i) \in Seq(S)
<1>1. SubSeq(s, 1, i - 1) \in Seq(S) /\ SubSeq(s, i + 1, Len(s)) \in Seq(S)
  OBVIOUS
<1> QED
  BY <1>1 DEF Without

\* A process that gets the lock leaves a queue of processes.
LEMMA AcquiresTyped ==
    ASSUME waiters \in Seq(Procs), NEW p, NEW STATE begins, Acquires(p, begins)
    PROVE  waiters' \in Seq(Procs)
  BY DEF Acquires

\* The initial state has the inductive invariant.
LEMMA InitIInv == Init => IInv
<1> SUFFICES ASSUME Init PROVE IInv
  OBVIOUS
<1> USE ProcsAreDisjoint DEF Init, Starters, Procs
<1>1. timer \in BOOLEAN
  BY Zenon
<1>2. TypeOK
  BY <1>1 DEF TypeOK, ViewerPc, ConnPc, IdlePc, UnloadPc
<1>3. LockOwner /\ HolderView
  BY DEF LockOwner, HolderView, Holding, Stopping
<1>4. NoOrphanSession /\ TeardownJustified /\ WatchedOrTimed
  BY DEF NoOrphanSession, TeardownJustified, WatchedOrTimed, Stopping
<1> QED
  BY <1>2, <1>3, <1>4 DEF IInv

\* A step of a viewer preserves the invariant.
LEMMA ViewerInv ==
    ASSUME IInv, NEW v \in Viewers, Viewer(v)
    PROVE  IInv'
<1> USE ProcsAreDisjoint DEF IInv, TypeOK, Starters, Procs, Holding, Stopping
<1>1. CASE ViewerQueues(v)
  <2> USE <1>1 DEF ViewerQueues, Queues, ViewerCalls
  <2>1. timer' \in BOOLEAN
    BY Zenon
  <2>2. TypeOK'
    BY <2>1 DEF ViewerPc, ConnPc, IdlePc, UnloadPc
  <2>3. LockOwner'
    BY DEF LockOwner
  <2>4. HolderView' /\ NoOrphanSession'
    BY DEF LockOwner, HolderView, NoOrphanSession
  <2>5. TeardownJustified'
    BY DEF LockOwner, HolderView, TeardownJustified
  <2>6. WatchedOrTimed'
    BY DEF LockOwner, HolderView, NoOrphanSession, TeardownJustified,
           WatchedOrTimed, Attending
  <2> QED
    BY <2>2, <2>3, <2>4, <2>5, <2>6
<1>2. CASE ViewerEnters(v)
  <2> USE <1>2 DEF ViewerEnters, Acquires, EnsureEngine, Tell, Proceed, Suspend, Release
  <2>1. timer' \in BOOLEAN
    BY Zenon
  <2>2. TypeOK'
    BY <2>1, AcquiresTyped DEF ViewerPc, ConnPc, IdlePc, UnloadPc
  <2>3. LockOwner'
    BY DEF LockOwner
  <2>4. HolderView' /\ NoOrphanSession'
    BY DEF LockOwner, HolderView, NoOrphanSession
  <2>5. TeardownJustified'
    BY DEF LockOwner, HolderView, TeardownJustified
  <2>6. WatchedOrTimed'
    BY DEF LockOwner, HolderView, NoOrphanSession, TeardownJustified,
           WatchedOrTimed, Attending
  <2> QED
    BY <2>2, <2>3, <2>4, <2>5, <2>6
<1>3. CASE MediaReady(v)
  <2> USE <1>3 DEF MediaReady
  <2>1. timer' \in BOOLEAN
    BY Zenon
  <2>2. TypeOK'
    BY <2>1 DEF ViewerPc, ConnPc, IdlePc, UnloadPc
  <2>3. LockOwner'
    BY DEF LockOwner
  <2>4. HolderView' /\ NoOrphanSession'
    BY DEF LockOwner, HolderView, NoOrphanSession
  <2>5. TeardownJustified'
    BY DEF LockOwner, HolderView, TeardownJustified
  <2>6. WatchedOrTimed'
    BY DEF LockOwner, HolderView, NoOrphanSession, TeardownJustified,
           WatchedOrTimed, Attending
  <2> QED
    BY <2>2, <2>3, <2>4, <2>5, <2>6
<1>4. CASE MediaTimeout(v)
  <2> USE <1>4 DEF MediaTimeout
  <2>1. timer' \in BOOLEAN
    BY Zenon
  <2>2. TypeOK'
    BY <2>1 DEF ViewerPc, ConnPc, IdlePc, UnloadPc
  <2>3. LockOwner'
    BY DEF LockOwner
  <2>4. HolderView' /\ NoOrphanSession'
    BY DEF LockOwner, HolderView, NoOrphanSession
  <2>5. TeardownJustified'
    BY DEF LockOwner, HolderView, TeardownJustified
  <2>6. WatchedOrTimed'
    BY DEF LockOwner, HolderView, NoOrphanSession, TeardownJustified,
           WatchedOrTimed, Attending
  <2> QED
    BY <2>2, <2>3, <2>4, <2>5, <2>6
<1>5. CASE CancelledAtLock(v)
  <2> USE <1>5 DEF CancelledAtLock
  <2>1. timer' \in BOOLEAN
    BY Zenon
  <2>2. TypeOK'
    BY <2>1, WithoutTyped DEF ViewerPc, ConnPc, IdlePc, UnloadPc
  <2>3. LockOwner'
    BY DEF LockOwner
  <2>4. HolderView' /\ NoOrphanSession'
    BY DEF LockOwner, HolderView, NoOrphanSession
  <2>5. TeardownJustified'
    BY DEF LockOwner, HolderView, TeardownJustified
  <2>6. WatchedOrTimed'
    BY DEF LockOwner, HolderView, NoOrphanSession, TeardownJustified,
           WatchedOrTimed, Attending
  <2> QED
    BY <2>2, <2>3, <2>4, <2>5, <2>6
<1>6. CASE CancelledHolding(v)
  <2> USE <1>6 DEF CancelledHolding, Release
  <2>1. timer' \in BOOLEAN
    BY Zenon
  <2>2. TypeOK'
    BY <2>1 DEF ViewerPc, ConnPc, IdlePc, UnloadPc
  <2>3. LockOwner'
    BY DEF LockOwner
  <2>4. HolderView' /\ NoOrphanSession'
    BY DEF LockOwner, HolderView, NoOrphanSession
  <2>5. TeardownJustified'
    BY DEF LockOwner, HolderView, TeardownJustified
  <2>6. WatchedOrTimed'
    BY DEF LockOwner, HolderView, NoOrphanSession, TeardownJustified,
           WatchedOrTimed, Attending
  <2> QED
    BY <2>2, <2>3, <2>4, <2>5, <2>6
<1>7. CASE CancelledAtMedia(v)
  <2> USE <1>7 DEF CancelledAtMedia
  <2>1. timer' \in BOOLEAN
    BY Zenon
  <2>2. TypeOK'
    BY <2>1 DEF ViewerPc, ConnPc, IdlePc, UnloadPc
  <2>3. LockOwner'
    BY DEF LockOwner
  <2>4. HolderView' /\ NoOrphanSession'
    BY DEF LockOwner, HolderView, NoOrphanSession
  <2>5. TeardownJustified'
    BY DEF LockOwner, HolderView, TeardownJustified
  <2>6. WatchedOrTimed'
    BY DEF LockOwner, HolderView, NoOrphanSession, TeardownJustified,
           WatchedOrTimed, Attending
  <2> QED
    BY <2>2, <2>3, <2>4, <2>5, <2>6
<1> QED
  BY <1>1, <1>2, <1>3, <1>4, <1>5, <1>6, <1>7 DEF Viewer

\* A step of a connection preserves the invariant.
LEMMA ConnectionInv ==
    ASSUME IInv, NEW c \in Conns, Connection(c)
    PROVE  IInv'
<1> USE ProcsAreDisjoint DEF IInv, TypeOK, Starters, Procs, Holding, Stopping
<1>1. CASE ConnQueues(c)
  <2> USE <1>1 DEF ConnQueues, Queues, ConnCalls
  <2>1. timer' \in BOOLEAN
    BY Zenon
  <2>2. TypeOK'
    BY <2>1 DEF ViewerPc, ConnPc, IdlePc, UnloadPc
  <2>3. LockOwner'
    BY DEF LockOwner
  <2>4. HolderView' /\ NoOrphanSession'
    BY DEF LockOwner, HolderView, NoOrphanSession
  <2>5. TeardownJustified'
    BY DEF LockOwner, HolderView, TeardownJustified
  <2>6. WatchedOrTimed'
    BY DEF LockOwner, HolderView, NoOrphanSession, TeardownJustified,
           WatchedOrTimed, Attending
  <2> QED
    BY <2>2, <2>3, <2>4, <2>5, <2>6
<1>2. CASE ConnEnters(c)
  <2> USE <1>2 DEF ConnEnters, Acquires, EnsureEngine, Tell, Proceed, Suspend, Release
  <2>1. timer' \in BOOLEAN
    BY Zenon
  <2>2. TypeOK'
    BY <2>1, AcquiresTyped DEF ViewerPc, ConnPc, IdlePc, UnloadPc
  <2>3. LockOwner'
    BY DEF LockOwner
  <2>4. HolderView' /\ NoOrphanSession'
    BY DEF LockOwner, HolderView, NoOrphanSession
  <2>5. TeardownJustified'
    BY DEF LockOwner, HolderView, TeardownJustified
  <2>6. WatchedOrTimed'
    BY DEF LockOwner, HolderView, NoOrphanSession, TeardownJustified,
           WatchedOrTimed, Attending
  <2> QED
    BY <2>2, <2>3, <2>4, <2>5, <2>6
<1>3. CASE Disconnects(c)
  <2> USE <1>3 DEF Disconnects
  <2>1. timer' \in BOOLEAN
    BY Zenon
  <2>2. TypeOK'
    BY <2>1 DEF ViewerPc, ConnPc, IdlePc, UnloadPc
  <2>3. LockOwner'
    BY DEF LockOwner
  <2>4. HolderView' /\ NoOrphanSession'
    BY DEF LockOwner, HolderView, NoOrphanSession
  <2>5. TeardownJustified'
    BY DEF LockOwner, HolderView, TeardownJustified
  <2>6. WatchedOrTimed'
    BY DEF LockOwner, HolderView, NoOrphanSession, TeardownJustified,
           WatchedOrTimed, Attending
  <2> QED
    BY <2>2, <2>3, <2>4, <2>5, <2>6
<1>4. CASE BroadcastDrops(c)
  <2> USE <1>4 DEF BroadcastDrops
  <2>1. timer' \in BOOLEAN
    BY Zenon
  <2>2. TypeOK'
    BY <2>1 DEF ViewerPc, ConnPc, IdlePc, UnloadPc
  <2>3. LockOwner'
    BY DEF LockOwner
  <2>4. HolderView' /\ NoOrphanSession'
    BY DEF LockOwner, HolderView, NoOrphanSession
  <2>5. TeardownJustified'
    BY DEF LockOwner, HolderView, TeardownJustified
  <2>6. WatchedOrTimed'
    BY DEF LockOwner, HolderView, NoOrphanSession, TeardownJustified,
           WatchedOrTimed, Attending
  <2> QED
    BY <2>2, <2>3, <2>4, <2>5, <2>6
<1> QED
  BY <1>1, <1>2, <1>3, <1>4 DEF Connection

\* A step of an idle task preserves the invariant.
LEMMA IdleInv ==
    ASSUME IInv, NEW i \in IdleTasks, Idle(i)
    PROVE  IInv'
<1> USE ProcsAreDisjoint DEF IInv, TypeOK, Starters, Procs, Holding, Stopping
<1>1. CASE IdleQueues(i)
  <2> USE <1>1 DEF IdleQueues, Queues, IdleCalls
  <2>1. timer' \in BOOLEAN
    BY Zenon
  <2>2. TypeOK'
    BY <2>1 DEF ViewerPc, ConnPc, IdlePc, UnloadPc
  <2>3. LockOwner'
    BY DEF LockOwner
  <2>4. HolderView' /\ NoOrphanSession'
    BY DEF LockOwner, HolderView, NoOrphanSession
  <2>5. TeardownJustified'
    BY DEF LockOwner, HolderView, TeardownJustified
  <2>6. WatchedOrTimed'
    BY DEF LockOwner, HolderView, NoOrphanSession, TeardownJustified,
           WatchedOrTimed, Attending
  <2> QED
    BY <2>2, <2>3, <2>4, <2>5, <2>6
<1>2. CASE IdleEnters(i)
  <2> USE <1>2 DEF IdleEnters, Acquires, BeginStop, Tell, AfterStop, Suspend, Release
  <2>1. timer' \in BOOLEAN
    BY Zenon
  <2>2. TypeOK'
    BY <2>1, AcquiresTyped DEF ViewerPc, ConnPc, IdlePc, UnloadPc
  <2>3. LockOwner'
    BY DEF LockOwner
  <2>4. HolderView' /\ NoOrphanSession'
    BY DEF LockOwner, HolderView, NoOrphanSession
  <2>5. TeardownJustified'
    BY DEF LockOwner, HolderView, TeardownJustified
  <2>6. WatchedOrTimed'
    BY DEF LockOwner, HolderView, NoOrphanSession, TeardownJustified,
           WatchedOrTimed, Attending
  <2> QED
    BY <2>2, <2>3, <2>4, <2>5, <2>6
<1> QED
  BY <1>1, <1>2 DEF Idle

\* A step of an unload preserves the invariant.
LEMMA UnloadInv ==
    ASSUME IInv, NEW u \in Unloads, Unload(u)
    PROVE  IInv'
<1> USE ProcsAreDisjoint DEF IInv, TypeOK, Starters, Procs, Holding, Stopping
<1>1. CASE UnloadQueues(u)
  <2> USE <1>1 DEF UnloadQueues, Queues
  <2>1. timer' \in BOOLEAN
    BY Zenon
  <2>2. TypeOK'
    BY <2>1 DEF ViewerPc, ConnPc, IdlePc, UnloadPc
  <2>3. LockOwner'
    BY DEF LockOwner
  <2>4. HolderView' /\ NoOrphanSession'
    BY DEF LockOwner, HolderView, NoOrphanSession
  <2>5. TeardownJustified'
    BY DEF LockOwner, HolderView, TeardownJustified
  <2>6. WatchedOrTimed'
    BY DEF LockOwner, HolderView, NoOrphanSession, TeardownJustified,
           WatchedOrTimed, Attending
  <2> QED
    BY <2>2, <2>3, <2>4, <2>5, <2>6
<1>2. CASE UnloadEnters(u)
  <2> USE <1>2 DEF UnloadEnters, Acquires, BeginStop, Tell, AfterStop, Suspend, Release
  <2>1. timer' \in BOOLEAN
    BY Zenon
  <2>2. TypeOK'
    BY <2>1, AcquiresTyped DEF ViewerPc, ConnPc, IdlePc, UnloadPc
  <2>3. LockOwner'
    BY DEF LockOwner
  <2>4. HolderView' /\ NoOrphanSession'
    BY DEF LockOwner, HolderView, NoOrphanSession
  <2>5. TeardownJustified'
    BY DEF LockOwner, HolderView, TeardownJustified
  <2>6. WatchedOrTimed'
    BY DEF LockOwner, HolderView, NoOrphanSession, TeardownJustified,
           WatchedOrTimed, Attending
  <2> QED
    BY <2>2, <2>3, <2>4, <2>5, <2>6
<1>3. CASE ServerClosed(u)
  <2> USE <1>3 DEF ServerClosed, Release
  <2>1. timer' \in BOOLEAN
    BY Zenon
  <2>2. TypeOK'
    BY <2>1 DEF ViewerPc, ConnPc, IdlePc, UnloadPc
  <2>3. LockOwner'
    BY DEF LockOwner
  <2>4. HolderView' /\ NoOrphanSession'
    BY DEF LockOwner, HolderView, NoOrphanSession
  <2>5. TeardownJustified'
    BY DEF LockOwner, HolderView, TeardownJustified
  <2>6. WatchedOrTimed'
    BY DEF LockOwner, HolderView, NoOrphanSession, TeardownJustified,
           WatchedOrTimed, Attending
  <2> QED
    BY <2>2, <2>3, <2>4, <2>5, <2>6
<1> QED
  BY <1>1, <1>2, <1>3 DEF Unload

\* A step of a process inside _stop_engine_locked preserves the invariant.
LEMMA LockedInv ==
    ASSUME IInv, NEW p \in Procs, Locked(p)
    PROVE  IInv'
<1> USE ProcsAreDisjoint DEF IInv, TypeOK, Starters, Procs, Holding, Stopping
<1>1. CASE EngineWaitOver(p)
  <2> USE <1>1 DEF EngineWaitOver, Suspend
  <2>1. timer' \in BOOLEAN
    BY Zenon
  <2>2. TypeOK'
    BY <2>1 DEF ViewerPc, ConnPc, IdlePc, UnloadPc
  <2>3. LockOwner'
    BY DEF LockOwner
  <2>4. HolderView' /\ NoOrphanSession'
    BY DEF LockOwner, HolderView, NoOrphanSession
  <2>5. TeardownJustified'
    BY DEF LockOwner, HolderView, TeardownJustified
  <2>6. WatchedOrTimed'
    BY DEF LockOwner, HolderView, NoOrphanSession, TeardownJustified,
           WatchedOrTimed, Attending
  <2> QED
    BY <2>2, <2>3, <2>4, <2>5, <2>6
<1>2. CASE TasksStopped(p)
  <2> USE <1>2 DEF TasksStopped, Suspend
  <2>1. timer' \in BOOLEAN
    BY Zenon
  <2>2. TypeOK'
    BY <2>1 DEF ViewerPc, ConnPc, IdlePc, UnloadPc
  <2>3. LockOwner'
    BY DEF LockOwner
  <2>4. HolderView' /\ NoOrphanSession'
    BY DEF LockOwner, HolderView, NoOrphanSession
  <2>5. TeardownJustified'
    BY DEF LockOwner, HolderView, TeardownJustified
  <2>6. WatchedOrTimed'
    BY DEF LockOwner, HolderView, NoOrphanSession, TeardownJustified,
           WatchedOrTimed, Attending
  <2> QED
    BY <2>2, <2>3, <2>4, <2>5, <2>6
<1>3. CASE FfWaitOver(p)
  <2> USE <1>3 DEF FfWaitOver, AfterStop, Suspend, Release
  <2>1. timer' \in BOOLEAN
    BY Zenon
  <2>2. TypeOK'
    BY <2>1 DEF ViewerPc, ConnPc, IdlePc, UnloadPc
  <2>3. LockOwner'
    BY DEF LockOwner
  <2>4. HolderView' /\ NoOrphanSession'
    BY DEF LockOwner, HolderView, NoOrphanSession
  <2>5. TeardownJustified'
    BY DEF LockOwner, HolderView, TeardownJustified
  <2>6. WatchedOrTimed'
    BY DEF LockOwner, HolderView, NoOrphanSession, TeardownJustified,
           WatchedOrTimed, Attending
  <2> QED
    BY <2>2, <2>3, <2>4, <2>5, <2>6
<1> QED
  BY <1>1, <1>2, <1>3 DEF Locked

\* A step of a session preserves the invariant.
LEMMA SessionInv ==
    ASSUME IInv, NEW s \in Starters, Session(s)
    PROVE  IInv'
<1> USE ProcsAreDisjoint DEF IInv, TypeOK, Starters, Procs, Holding, Stopping
<1>1. CASE FfmpegSpawned(s)
  <2> USE <1>1 DEF FfmpegSpawned, Proceed, Release
  <2>1. timer' \in BOOLEAN
    BY Zenon
  <2>2. TypeOK'
    BY <2>1 DEF ViewerPc, ConnPc, IdlePc, UnloadPc
  <2>3. LockOwner'
    BY DEF LockOwner
  <2>4. HolderView' /\ NoOrphanSession'
    BY DEF LockOwner, HolderView, NoOrphanSession
  <2>5. TeardownJustified'
    BY DEF LockOwner, HolderView, TeardownJustified
  <2>6. WatchedOrTimed'
    BY DEF LockOwner, HolderView, NoOrphanSession, TeardownJustified,
           WatchedOrTimed, Attending
  <2> QED
    BY <2>2, <2>3, <2>4, <2>5, <2>6
<1>2. CASE SpawnFails(s)
  <2> USE <1>2 DEF SpawnFails, Release
  <2>1. timer' \in BOOLEAN
    BY Zenon
  <2>2. TypeOK'
    BY <2>1 DEF ViewerPc, ConnPc, IdlePc, UnloadPc
  <2>3. LockOwner'
    BY DEF LockOwner
  <2>4. HolderView' /\ NoOrphanSession'
    BY DEF LockOwner, HolderView, NoOrphanSession
  <2>5. TeardownJustified'
    BY DEF LockOwner, HolderView, TeardownJustified
  <2>6. WatchedOrTimed'
    BY DEF LockOwner, HolderView, NoOrphanSession, TeardownJustified,
           WatchedOrTimed, Attending
  <2> QED
    BY <2>2, <2>3, <2>4, <2>5, <2>6
<1>3. CASE EngineEnds(s)
  <2> USE <1>3 DEF EngineEnds
  <2>1. timer' \in BOOLEAN
    BY Zenon
  <2>2. TypeOK'
    BY <2>1 DEF ViewerPc, ConnPc, IdlePc, UnloadPc
  <2>3. LockOwner'
    BY DEF LockOwner
  <2>4. HolderView' /\ NoOrphanSession'
    BY DEF LockOwner, HolderView, NoOrphanSession
  <2>5. TeardownJustified'
    BY DEF LockOwner, HolderView, TeardownJustified
  <2>6. WatchedOrTimed'
    BY DEF LockOwner, HolderView, NoOrphanSession, TeardownJustified,
           WatchedOrTimed, Attending
  <2> QED
    BY <2>2, <2>3, <2>4, <2>5, <2>6
<1>4. CASE EngineStops(s)
  <2> USE <1>4 DEF EngineStops
  <2>1. timer' \in BOOLEAN
    BY Zenon
  <2>2. TypeOK'
    BY <2>1 DEF ViewerPc, ConnPc, IdlePc, UnloadPc
  <2>3. LockOwner'
    BY DEF LockOwner
  <2>4. HolderView' /\ NoOrphanSession'
    BY DEF LockOwner, HolderView, NoOrphanSession
  <2>5. TeardownJustified'
    BY DEF LockOwner, HolderView, TeardownJustified
  <2>6. WatchedOrTimed'
    BY DEF LockOwner, HolderView, NoOrphanSession, TeardownJustified,
           WatchedOrTimed, Attending
  <2> QED
    BY <2>2, <2>3, <2>4, <2>5, <2>6
<1>5. CASE FfmpegCrashes(s)
  <2> USE <1>5 DEF FfmpegCrashes
  <2>1. timer' \in BOOLEAN
    BY Zenon
  <2>2. TypeOK'
    BY <2>1 DEF ViewerPc, ConnPc, IdlePc, UnloadPc
  <2>3. LockOwner'
    BY DEF LockOwner
  <2>4. HolderView' /\ NoOrphanSession'
    BY DEF LockOwner, HolderView, NoOrphanSession
  <2>5. TeardownJustified'
    BY DEF LockOwner, HolderView, TeardownJustified
  <2>6. WatchedOrTimed'
    BY DEF LockOwner, HolderView, NoOrphanSession, TeardownJustified,
           WatchedOrTimed, Attending
  <2> QED
    BY <2>2, <2>3, <2>4, <2>5, <2>6
<1>6. CASE FfmpegTerminates(s)
  <2> USE <1>6 DEF FfmpegTerminates
  <2>1. timer' \in BOOLEAN
    BY Zenon
  <2>2. TypeOK'
    BY <2>1 DEF ViewerPc, ConnPc, IdlePc, UnloadPc
  <2>3. LockOwner'
    BY DEF LockOwner
  <2>4. HolderView' /\ NoOrphanSession'
    BY DEF LockOwner, HolderView, NoOrphanSession
  <2>5. TeardownJustified'
    BY DEF LockOwner, HolderView, TeardownJustified
  <2>6. WatchedOrTimed'
    BY DEF LockOwner, HolderView, NoOrphanSession, TeardownJustified,
           WatchedOrTimed, Attending
  <2> QED
    BY <2>2, <2>3, <2>4, <2>5, <2>6
<1>7. CASE FirstMedia(s)
  <2> USE <1>7 DEF FirstMedia
  <2>1. timer' \in BOOLEAN
    BY Zenon
  <2>2. TypeOK'
    BY <2>1 DEF ViewerPc, ConnPc, IdlePc, UnloadPc
  <2>3. LockOwner'
    BY DEF LockOwner
  <2>4. HolderView' /\ NoOrphanSession'
    BY DEF LockOwner, HolderView, NoOrphanSession
  <2>5. TeardownJustified'
    BY DEF LockOwner, HolderView, TeardownJustified
  <2>6. WatchedOrTimed'
    BY DEF LockOwner, HolderView, NoOrphanSession, TeardownJustified,
           WatchedOrTimed, Attending
  <2> QED
    BY <2>2, <2>3, <2>4, <2>5, <2>6
<1> QED
  BY <1>1, <1>2, <1>3, <1>4, <1>5, <1>6, <1>7 DEF Session

\* Every step preserves the invariant, and so it always holds.
THEOREM Invariance == Spec => []IInv
<1>1. IInv /\ [Next]_vars => IInv'
  <2> SUFFICES ASSUME IInv, [Next]_vars PROVE IInv'
    OBVIOUS
  <2>1. CASE Next
    BY <2>1, ViewerInv, ConnectionInv, IdleInv, UnloadInv, LockedInv, SessionInv
       DEF Next
  <2>2. CASE UNCHANGED vars
    BY <2>2 DEF vars, IInv, TypeOK, LockOwner, HolderView, NoOrphanSession,
       TeardownJustified, WatchedOrTimed, Attending
  <2> QED
    BY <2>1, <2>2
<1> QED
  BY InitIInv, <1>1, PTL DEF Spec

\* The state of manager.py keeps its shape.
THEOREM TypeCorrect == Spec => []TypeOK
  BY Invariance, PTL DEF IInv

\* No engine thread or ffmpeg is lost sight of before it was told to go away.
THEOREM SessionsAreOwned == Spec => []NoOrphanSession
  BY Invariance, PTL DEF IInv

\* A session is only torn down unwatched, over, or by the unload.
THEOREM TeardownsAreJustified == Spec => []TeardownJustified
  BY Invariance, PTL DEF IInv

\* A running engine is watched, timed, or attended by a coroutine.
THEOREM BatteryIsAttended == Spec => []WatchedOrTimed
  BY Invariance, PTL DEF IInv

-----------------------------------------------------------------------------
(***************************************************************************)
(* Nobody joins a dying engine.  IInv alone does not show it: that the     *)
(* session in place while the lock is free was never told to stop is a     *)
(* fact of its own, which rests on the reap being the only teardown that   *)
(* can be cancelled, and on its engine having ended.                       *)
(***************************************************************************)

\* Who finds the lock free finds a session nobody has told to stop, or none.
CurAtRest == holder = None /\ cur # None => engine[cur] \in {"running", "exited"}

JoinStep ==
    \A p \in Starters :
        pc[p] \notin {"media", "reading"} /\ pc'[p] \in {"media", "reading"} =>
            /\ cur' # None /\ engine'[cur'] = "running"
            /\ p \in Viewers => awaits'[p] = cur'

\* A step of a viewer lets nobody join a dying engine, and keeps what this rests on.
LEMMA ViewerJoins ==
    ASSUME IInv, CurAtRest, NEW v \in Viewers, Viewer(v)
    PROVE  CurAtRest' /\ JoinStep
<1> USE ProcsAreDisjoint DEF IInv, TypeOK, Starters, Procs
<1>1. CASE ViewerQueues(v)
  <2> USE <1>1 DEF ViewerQueues, Queues, ViewerCalls
  <2>1. CurAtRest'
    BY DEF CurAtRest, TeardownJustified, HolderView, LockOwner, Stopping, Holding
  <2>2. JoinStep
    BY DEF JoinStep, CurAtRest, LockOwner, Holding, Stopping
  <2> QED
    BY <2>1, <2>2
<1>2. CASE ViewerEnters(v)
  <2> USE <1>2 DEF ViewerEnters, ViewerCalls, Acquires, EnsureEngine, Tell, Proceed, Suspend, Release
  <2>1. CurAtRest'
    BY DEF CurAtRest, TeardownJustified, HolderView, LockOwner, Stopping, Holding
  <2>2. JoinStep
    BY DEF JoinStep, CurAtRest, LockOwner, Holding, Stopping
  <2> QED
    BY <2>1, <2>2
<1>3. CASE MediaReady(v)
  <2> USE <1>3 DEF MediaReady
  <2>1. CurAtRest'
    BY DEF CurAtRest, TeardownJustified, HolderView, LockOwner, Stopping, Holding
  <2>2. JoinStep
    BY DEF JoinStep, CurAtRest, LockOwner, Holding, Stopping
  <2> QED
    BY <2>1, <2>2
<1>4. CASE MediaTimeout(v)
  <2> USE <1>4 DEF MediaTimeout
  <2>1. CurAtRest'
    BY DEF CurAtRest, TeardownJustified, HolderView, LockOwner, Stopping, Holding
  <2>2. JoinStep
    BY DEF JoinStep, CurAtRest, LockOwner, Holding, Stopping
  <2> QED
    BY <2>1, <2>2
<1>5. CASE CancelledAtLock(v)
  <2> USE <1>5 DEF CancelledAtLock
  <2>1. CurAtRest'
    BY DEF CurAtRest, TeardownJustified, HolderView, LockOwner, Stopping, Holding
  <2>2. JoinStep
    BY DEF JoinStep, CurAtRest, LockOwner, Holding, Stopping
  <2> QED
    BY <2>1, <2>2
<1>6. CASE CancelledHolding(v)
  <2> USE <1>6 DEF CancelledHolding, Release
  <2>1. CurAtRest'
    BY DEF CurAtRest, TeardownJustified, HolderView, LockOwner, Stopping, Holding
  <2>2. JoinStep
    BY DEF JoinStep, CurAtRest, LockOwner, Holding, Stopping
  <2> QED
    BY <2>1, <2>2
<1>7. CASE CancelledAtMedia(v)
  <2> USE <1>7 DEF CancelledAtMedia
  <2>1. CurAtRest'
    BY DEF CurAtRest, TeardownJustified, HolderView, LockOwner, Stopping, Holding
  <2>2. JoinStep
    BY DEF JoinStep, CurAtRest, LockOwner, Holding, Stopping
  <2> QED
    BY <2>1, <2>2
<1> QED
  BY <1>1, <1>2, <1>3, <1>4, <1>5, <1>6, <1>7 DEF Viewer

\* A step of a connection lets nobody join a dying engine, and keeps what this rests on.
LEMMA ConnectionJoins ==
    ASSUME IInv, CurAtRest, NEW c \in Conns, Connection(c)
    PROVE  CurAtRest' /\ JoinStep
<1> USE ProcsAreDisjoint DEF IInv, TypeOK, Starters, Procs
<1>1. CASE ConnQueues(c)
  <2> USE <1>1 DEF ConnQueues, Queues, ConnCalls
  <2>1. CurAtRest'
    BY DEF CurAtRest, TeardownJustified, HolderView, LockOwner, Stopping, Holding
  <2>2. JoinStep
    BY DEF JoinStep, CurAtRest, LockOwner, Holding, Stopping
  <2> QED
    BY <2>1, <2>2
<1>2. CASE ConnEnters(c)
  <2> USE <1>2 DEF ConnEnters, ConnCalls, Acquires, EnsureEngine, Tell, Proceed, Suspend, Release
  <2>1. CurAtRest'
    BY DEF CurAtRest, TeardownJustified, HolderView, LockOwner, Stopping, Holding
  <2>2. JoinStep
    BY DEF JoinStep, CurAtRest, LockOwner, Holding, Stopping
  <2> QED
    BY <2>1, <2>2
<1>3. CASE Disconnects(c)
  <2> USE <1>3 DEF Disconnects
  <2>1. CurAtRest'
    BY DEF CurAtRest, TeardownJustified, HolderView, LockOwner, Stopping, Holding
  <2>2. JoinStep
    BY DEF JoinStep, CurAtRest, LockOwner, Holding, Stopping
  <2> QED
    BY <2>1, <2>2
<1>4. CASE BroadcastDrops(c)
  <2> USE <1>4 DEF BroadcastDrops
  <2>1. CurAtRest'
    BY DEF CurAtRest, TeardownJustified, HolderView, LockOwner, Stopping, Holding
  <2>2. JoinStep
    BY DEF JoinStep, CurAtRest, LockOwner, Holding, Stopping
  <2> QED
    BY <2>1, <2>2
<1> QED
  BY <1>1, <1>2, <1>3, <1>4 DEF Connection

\* A step of an idle task lets nobody join a dying engine, and keeps what this rests on.
LEMMA IdleJoins ==
    ASSUME IInv, CurAtRest, NEW i \in IdleTasks, Idle(i)
    PROVE  CurAtRest' /\ JoinStep
<1> USE ProcsAreDisjoint DEF IInv, TypeOK, Starters, Procs
<1>1. CASE IdleQueues(i)
  <2> USE <1>1 DEF IdleQueues, Queues, IdleCalls
  <2>1. CurAtRest'
    BY DEF CurAtRest, TeardownJustified, HolderView, LockOwner, Stopping, Holding
  <2>2. JoinStep
    BY DEF JoinStep, CurAtRest, LockOwner, Holding, Stopping
  <2> QED
    BY <2>1, <2>2
<1>2. CASE IdleEnters(i)
  <2> USE <1>2 DEF IdleEnters, Acquires, BeginStop, Tell, AfterStop, Suspend, Release
  <2>1. CurAtRest'
    BY DEF CurAtRest, TeardownJustified, HolderView, LockOwner, Stopping, Holding
  <2>2. JoinStep
    BY DEF JoinStep, CurAtRest, LockOwner, Holding, Stopping
  <2> QED
    BY <2>1, <2>2
<1> QED
  BY <1>1, <1>2 DEF Idle

\* A step of an unload lets nobody join a dying engine, and keeps what this rests on.
LEMMA UnloadJoins ==
    ASSUME IInv, CurAtRest, NEW u \in Unloads, Unload(u)
    PROVE  CurAtRest' /\ JoinStep
<1> USE ProcsAreDisjoint DEF IInv, TypeOK, Starters, Procs
<1>1. CASE UnloadQueues(u)
  <2> USE <1>1 DEF UnloadQueues, Queues
  <2>1. CurAtRest'
    BY DEF CurAtRest, TeardownJustified, HolderView, LockOwner, Stopping, Holding
  <2>2. JoinStep
    BY DEF JoinStep, CurAtRest, LockOwner, Holding, Stopping
  <2> QED
    BY <2>1, <2>2
<1>2. CASE UnloadEnters(u)
  <2> USE <1>2 DEF UnloadEnters, Acquires, BeginStop, Tell, AfterStop, Suspend, Release
  <2>1. CurAtRest'
    BY DEF CurAtRest, TeardownJustified, HolderView, LockOwner, Stopping, Holding
  <2>2. JoinStep
    BY DEF JoinStep, CurAtRest, LockOwner, Holding, Stopping
  <2> QED
    BY <2>1, <2>2
<1>3. CASE ServerClosed(u)
  <2> USE <1>3 DEF ServerClosed, Release
  <2>1. CurAtRest'
    BY DEF CurAtRest, TeardownJustified, HolderView, LockOwner, Stopping, Holding
  <2>2. JoinStep
    BY DEF JoinStep, CurAtRest, LockOwner, Holding, Stopping
  <2> QED
    BY <2>1, <2>2
<1> QED
  BY <1>1, <1>2, <1>3 DEF Unload

\* A step of a process that stops the session lets nobody join a dying engine, and keeps what this rests on.
LEMMA LockedJoins ==
    ASSUME IInv, CurAtRest, NEW p \in Procs, Locked(p)
    PROVE  CurAtRest' /\ JoinStep
<1> USE ProcsAreDisjoint DEF IInv, TypeOK, Starters, Procs
<1>1. CASE EngineWaitOver(p)
  <2> USE <1>1 DEF EngineWaitOver, Suspend
  <2>1. CurAtRest'
    BY DEF CurAtRest, TeardownJustified, HolderView, LockOwner, Stopping, Holding
  <2>2. JoinStep
    BY DEF JoinStep, CurAtRest, LockOwner, Holding, Stopping
  <2> QED
    BY <2>1, <2>2
<1>2. CASE TasksStopped(p)
  <2> USE <1>2 DEF TasksStopped, Suspend
  <2>1. CurAtRest'
    BY DEF CurAtRest, TeardownJustified, HolderView, LockOwner, Stopping, Holding
  <2>2. JoinStep
    BY DEF JoinStep, CurAtRest, LockOwner, Holding, Stopping
  <2> QED
    BY <2>1, <2>2
<1>3. CASE FfWaitOver(p)
  <2> USE <1>3 DEF FfWaitOver, AfterStop, Suspend, Release
  <2>1. CurAtRest'
    BY DEF CurAtRest, TeardownJustified, HolderView, LockOwner, Stopping, Holding
  <2>2. JoinStep
    BY DEF JoinStep, CurAtRest, LockOwner, Holding, Stopping
  <2> QED
    BY <2>1, <2>2
<1> QED
  BY <1>1, <1>2, <1>3 DEF Locked

\* A step of a session lets nobody join a dying engine, and keeps what this rests on.
LEMMA SessionJoins ==
    ASSUME IInv, CurAtRest, NEW s \in Starters, Session(s)
    PROVE  CurAtRest' /\ JoinStep
<1> USE ProcsAreDisjoint DEF IInv, TypeOK, Starters, Procs
<1>1. CASE FfmpegSpawned(s)
  <2> USE <1>1 DEF FfmpegSpawned, Proceed, Release
  <2>1. CurAtRest'
    BY DEF CurAtRest, TeardownJustified, HolderView, LockOwner, Stopping, Holding
  <2>2. JoinStep
    BY DEF JoinStep, CurAtRest, LockOwner, Holding, Stopping
  <2> QED
    BY <2>1, <2>2
<1>2. CASE SpawnFails(s)
  <2> USE <1>2 DEF SpawnFails, Release
  <2>1. CurAtRest'
    BY DEF CurAtRest, TeardownJustified, HolderView, LockOwner, Stopping, Holding
  <2>2. JoinStep
    BY DEF JoinStep, CurAtRest, LockOwner, Holding, Stopping
  <2> QED
    BY <2>1, <2>2
<1>3. CASE EngineEnds(s)
  <2> USE <1>3 DEF EngineEnds
  <2>1. CurAtRest'
    BY DEF CurAtRest, TeardownJustified, HolderView, LockOwner, Stopping, Holding
  <2>2. JoinStep
    BY DEF JoinStep, CurAtRest, LockOwner, Holding, Stopping
  <2> QED
    BY <2>1, <2>2
<1>4. CASE EngineStops(s)
  <2> USE <1>4 DEF EngineStops
  <2>1. CurAtRest'
    BY DEF CurAtRest, TeardownJustified, HolderView, LockOwner, Stopping, Holding
  <2>2. JoinStep
    BY DEF JoinStep, CurAtRest, LockOwner, Holding, Stopping
  <2> QED
    BY <2>1, <2>2
<1>5. CASE FfmpegCrashes(s)
  <2> USE <1>5 DEF FfmpegCrashes
  <2>1. CurAtRest'
    BY DEF CurAtRest, TeardownJustified, HolderView, LockOwner, Stopping, Holding
  <2>2. JoinStep
    BY DEF JoinStep, CurAtRest, LockOwner, Holding, Stopping
  <2> QED
    BY <2>1, <2>2
<1>6. CASE FfmpegTerminates(s)
  <2> USE <1>6 DEF FfmpegTerminates
  <2>1. CurAtRest'
    BY DEF CurAtRest, TeardownJustified, HolderView, LockOwner, Stopping, Holding
  <2>2. JoinStep
    BY DEF JoinStep, CurAtRest, LockOwner, Holding, Stopping
  <2> QED
    BY <2>1, <2>2
<1>7. CASE FirstMedia(s)
  <2> USE <1>7 DEF FirstMedia
  <2>1. CurAtRest'
    BY DEF CurAtRest, TeardownJustified, HolderView, LockOwner, Stopping, Holding
  <2>2. JoinStep
    BY DEF JoinStep, CurAtRest, LockOwner, Holding, Stopping
  <2> QED
    BY <2>1, <2>2
<1> QED
  BY <1>1, <1>2, <1>3, <1>4, <1>5, <1>6, <1>7 DEF Session

\* Whoever goes on with a session goes on with one whose engine runs and was not told to stop:
\* for any number of viewers, consumers, idle stops and unloads, cancelled anywhere.
THEOREM LiveEnginesAreJoined == Spec => NobodyJoinsADyingEngine
<1>1. Init => CurAtRest
  BY DEF Init, CurAtRest
<1>2. IInv /\ CurAtRest /\ [Next]_vars => CurAtRest' /\ [JoinStep]_vars
  <2> SUFFICES ASSUME IInv, CurAtRest, [Next]_vars PROVE CurAtRest' /\ [JoinStep]_vars
    OBVIOUS
  <2>1. CASE Next
    BY <2>1, ViewerJoins, ConnectionJoins, IdleJoins, UnloadJoins, LockedJoins, SessionJoins DEF Next
  <2>2. CASE UNCHANGED vars
    BY <2>2 DEF vars, CurAtRest
  <2> QED
    BY <2>1, <2>2
<1> QED
  BY Invariance, <1>1, <1>2, PTL DEF Spec, NobodyJoinsADyingEngine, JoinStep

-----------------------------------------------------------------------------
(***************************************************************************)
(* The lock's queue.                                                       *)
(***************************************************************************)

\* Nobody waits for the lock in vain: whoever waits for it is in its queue, once, and the queue
\* has no ghost in it, a call that was cancelled and would keep those behind it waiting
\* (async_get_stream_source's CancelledError while it waits).
WaitersQueued ==
    /\ \A i \in 1..Len(waiters) : pc[waiters[i]] = "lock"
    /\ \A i, j \in 1..Len(waiters) : waiters[i] = waiters[j] => i = j
    /\ \A p \in Procs : pc[p] = "lock" => \E i \in 1..Len(waiters) : waiters[i] = p

\* p neither waited nor waits.
LEMMA WaitersKept ==
    ASSUME TypeOK, WaitersQueued, NEW p \in Procs, NEW to, pc[p] # "lock", to # "lock",
           pc' = [pc EXCEPT ![p] = to], UNCHANGED waiters
    PROVE  WaitersQueued'
<1>1. waiters \in Seq(Procs) /\ \A i \in 1..Len(waiters) : waiters[i] \in Procs
  BY DEF TypeOK
<1>2. \A q \in Procs : pc'[q] = IF q = p THEN to ELSE pc[q]
  BY DEF TypeOK
<1> QED
  BY <1>1, <1>2 DEF WaitersQueued

\* p joins the queue.
LEMMA WaiterJoins ==
    ASSUME TypeOK, WaitersQueued, NEW p \in Procs, pc[p] # "lock",
           pc' = [pc EXCEPT ![p] = "lock"], waiters' = Append(waiters, p)
    PROVE  WaitersQueued'
<1>1. waiters \in Seq(Procs) /\ \A i \in 1..Len(waiters) : waiters[i] \in Procs
  BY DEF TypeOK
<1>2. \A q \in Procs : pc'[q] = IF q = p THEN "lock" ELSE pc[q]
  BY DEF TypeOK
<1>3. /\ Len(waiters) \in Nat /\ Len(waiters') = Len(waiters) + 1
      /\ \A i \in 1..Len(waiters) : waiters'[i] = waiters[i]
      /\ waiters'[Len(waiters) + 1] = p
      /\ \A i \in 1..Len(waiters') : i \in 1..Len(waiters) \/ i = Len(waiters) + 1
      /\ \A i \in 1..Len(waiters) : i \in 1..Len(waiters')
      /\ Len(waiters) + 1 \in 1..Len(waiters')
  BY <1>1
<1>4. \A i \in 1..Len(waiters) : waiters[i] # p
  BY DEF WaitersQueued
<1>5. \A i \in 1..Len(waiters') : pc'[waiters'[i]] = "lock"
  BY <1>1, <1>2, <1>3 DEF WaitersQueued
<1>6. \A i, j \in 1..Len(waiters') : waiters'[i] = waiters'[j] => i = j
  BY <1>3, <1>4 DEF WaitersQueued
<1>7. \A q \in Procs : pc'[q] = "lock" => \E i \in 1..Len(waiters') : waiters'[i] = q
  <2> SUFFICES ASSUME NEW q \in Procs, pc'[q] = "lock"
               PROVE  \E i \in 1..Len(waiters') : waiters'[i] = q
    OBVIOUS
  <2>1. CASE q = p
    BY <2>1, <1>3
  <2>2. CASE q # p
    <3>1. PICK i \in 1..Len(waiters) : waiters[i] = q
      BY <2>2, <1>2 DEF WaitersQueued
    <3> QED BY <3>1, <1>3
  <2> QED BY <2>1, <2>2
<1> QED
  BY <1>5, <1>6, <1>7 DEF WaitersQueued

\* The place of the others in the queue when the one at place k leaves it.
LEMMA WaiterLeaves ==
    ASSUME TypeOK, WaitersQueued, NEW p \in Procs, NEW to, to # "lock",
           pc' = [pc EXCEPT ![p] = to],
           NEW k \in 1..Len(waiters), waiters[k] = p,
           Len(waiters') = Len(waiters) - 1,
           \A i \in 1..Len(waiters') : waiters'[i] = IF i < k THEN waiters[i] ELSE waiters[i + 1]
    PROVE  WaitersQueued'
<1> DEFINE at(i) == IF i < k THEN i ELSE i + 1
<1>1. Len(waiters) \in Nat /\ \A i \in 1..Len(waiters) : waiters[i] \in Procs
  BY DEF TypeOK
<1>2. \A q \in Procs : pc'[q] = IF q = p THEN to ELSE pc[q]
  BY DEF TypeOK
<1>3. \A i \in 1..Len(waiters') : at(i) \in 1..Len(waiters) /\ at(i) # k /\ waiters'[i] = waiters[at(i)]
  BY <1>1
<1>4. \A i, j \in 1..Len(waiters') : at(i) = at(j) => i = j
  BY <1>1
<1>5. \A j \in 1..Len(waiters) : j # k => \E i \in 1..Len(waiters') : at(i) = j
  <2> SUFFICES ASSUME NEW j \in 1..Len(waiters), j # k
               PROVE  \E i \in 1..Len(waiters') : at(i) = j
    OBVIOUS
  <2>1. CASE j < k
    <3>1. j \in 1..Len(waiters') /\ at(j) = j
      BY <2>1, <1>1
    <3> QED BY <3>1
  <2>2. CASE j > k
    <3>1. j - 1 \in 1..Len(waiters') /\ at(j - 1) = j
      BY <2>2, <1>1
    <3> QED BY <3>1
  <2> QED BY <2>1, <2>2, <1>1
<1> HIDE DEF at
<1>6. \A i \in 1..Len(waiters) : waiters[i] = p => i = k
  BY DEF WaitersQueued
<1>7. \A i \in 1..Len(waiters') : pc'[waiters'[i]] = "lock"
  BY <1>1, <1>2, <1>3, <1>6 DEF WaitersQueued
<1>8. \A i, j \in 1..Len(waiters') : waiters'[i] = waiters'[j] => i = j
  BY <1>3, <1>4 DEF WaitersQueued
<1>9. \A q \in Procs : pc'[q] = "lock" => \E i \in 1..Len(waiters') : waiters'[i] = q
  <2> SUFFICES ASSUME NEW q \in Procs, pc'[q] = "lock"
               PROVE  \E i \in 1..Len(waiters') : waiters'[i] = q
    OBVIOUS
  <2>1. q # p /\ pc[q] = "lock"
    BY <1>2
  <2>2. PICK j \in 1..Len(waiters) : waiters[j] = q
    BY <2>1 DEF WaitersQueued
  <2>3. PICK i \in 1..Len(waiters') : at(i) = j
    BY <2>1, <2>2, <1>5
  <2> QED BY <2>2, <2>3, <1>3
<1> QED
  BY <1>7, <1>8, <1>9 DEF WaitersQueued

\* p gets the lock: from the head of the queue, or at once.
LEMMA WaiterAcquires ==
    ASSUME TypeOK, WaitersQueued, NEW p \in Procs, NEW to, to # "lock",
           pc' = [pc EXCEPT ![p] = to],
           NEW STATE begins, Acquires(p, begins), begins => pc[p] # "lock"
    PROVE  WaitersQueued'
<1>1. CASE pc[p] = "lock" /\ waiters # <<>> /\ Head(waiters) = p /\ waiters' = Tail(waiters)
  <2>1. /\ 1 \in 1..Len(waiters) /\ waiters[1] = p /\ Len(waiters') = Len(waiters) - 1
        /\ \A i \in 1..Len(waiters') : waiters'[i] = IF i < 1 THEN waiters[i] ELSE waiters[i + 1]
    BY <1>1 DEF TypeOK
  <2> QED
    BY <2>1, WaiterLeaves
<1>2. CASE begins /\ UNCHANGED waiters
  BY <1>2, WaitersKept
<1> QED
  BY <1>1, <1>2 DEF Acquires

\* p, a viewer that waits, is cancelled.
LEMMA WaiterCancelled ==
    ASSUME TypeOK, WaitersQueued, NEW p \in Viewers, CancelledAtLock(p)
    PROVE  WaitersQueued'
<1>1. PICK k \in 1..Len(waiters) : waiters[k] = p /\ waiters' = Without(waiters, k)
  BY DEF CancelledAtLock
<1>2. p \in Procs /\ pc' = [pc EXCEPT ![p] = "done"]
  BY DEF CancelledAtLock, Procs, Starters
<1>3. waiters \in Seq(Procs) /\ Len(waiters) \in Nat
  BY DEF TypeOK
<1> DEFINE front == SubSeq(waiters, 1, k - 1)
           back == SubSeq(waiters, k + 1, Len(waiters))
<1>4. /\ front \in Seq(Procs) /\ Len(front) = k - 1
      /\ \A i \in 1..k-1 : front[i] = waiters[i]
  BY <1>3
<1>5. /\ back \in Seq(Procs) /\ Len(back) = Len(waiters) - k
      /\ \A i \in 1..Len(waiters)-k : back[i] = waiters[k + i]
  BY <1>3
<1>6. waiters' = front \o back
  BY <1>1 DEF Without
<1> HIDE DEF front, back
<1>7. /\ Len(waiters') = Len(waiters) - 1
      /\ \A i \in 1..Len(waiters') : waiters'[i] = IF i < k THEN front[i] ELSE back[i - (k - 1)]
  BY <1>3, <1>4, <1>5, <1>6
<1>8. ASSUME NEW i \in 1..Len(waiters')
      PROVE  waiters'[i] = IF i < k THEN waiters[i] ELSE waiters[i + 1]
  <2>1. CASE i < k
    BY <2>1, <1>3, <1>4, <1>7
  <2>2. CASE i >= k
    <3>1. i - (k - 1) \in 1..Len(waiters)-k /\ k + (i - (k - 1)) = i + 1
      BY <2>2, <1>3, <1>7
    <3> QED BY <2>2, <3>1, <1>3, <1>5, <1>7
  <2> QED BY <2>1, <2>2, <1>3
<1> QED
  BY <1>1, <1>2, <1>7, <1>8, WaiterLeaves

\* A step of a viewer and the queue.
LEMMA ViewerWaiters ==
    ASSUME TypeOK, WaitersQueued, NEW v \in Viewers, Viewer(v)
    PROVE  WaitersQueued'
<1> v \in Procs
  BY DEF Procs, Starters
<1>1. CASE ViewerQueues(v)
  BY <1>1, WaiterJoins DEF ViewerQueues, Queues, ViewerCalls
<1>2. CASE ViewerEnters(v)
  BY <1>2, WaiterAcquires DEF ViewerEnters, ViewerCalls, EnsureEngine, Tell, Proceed, Suspend, Release
<1>3. CASE MediaReady(v)
  BY <1>3, WaitersKept DEF MediaReady
<1>4. CASE MediaTimeout(v)
  BY <1>4, WaitersKept DEF MediaTimeout
<1>5. CASE CancelledAtLock(v)
  BY <1>5, WaiterCancelled DEF CancelledAtLock
<1>6. CASE CancelledHolding(v)
  BY <1>6, WaitersKept DEF CancelledHolding, Release
<1>7. CASE CancelledAtMedia(v)
  BY <1>7, WaitersKept DEF CancelledAtMedia
<1> QED
  BY <1>1, <1>2, <1>3, <1>4, <1>5, <1>6, <1>7 DEF Viewer

\* A step of a connection and the queue.
LEMMA ConnectionWaiters ==
    ASSUME TypeOK, WaitersQueued, NEW c \in Conns, Connection(c)
    PROVE  WaitersQueued'
<1> c \in Procs
  BY DEF Procs, Starters
<1>1. CASE ConnQueues(c)
  BY <1>1, WaiterJoins DEF ConnQueues, Queues, ConnCalls
<1>2. CASE ConnEnters(c)
  BY <1>2, WaiterAcquires DEF ConnEnters, ConnCalls, EnsureEngine, Tell, Proceed, Suspend, Release
<1>3. CASE Disconnects(c)
  BY <1>3, WaitersKept DEF Disconnects
<1>4. CASE BroadcastDrops(c)
  BY <1>4 DEF BroadcastDrops, WaitersQueued
<1> QED
  BY <1>1, <1>2, <1>3, <1>4 DEF Connection

\* A step of an idle task and the queue.
LEMMA IdleWaiters ==
    ASSUME TypeOK, WaitersQueued, NEW i \in IdleTasks, Idle(i)
    PROVE  WaitersQueued'
<1> i \in Procs
  BY DEF Procs, Starters
<1>1. CASE IdleQueues(i)
  BY <1>1, WaiterJoins DEF IdleQueues, Queues, IdleCalls
<1>2. CASE IdleEnters(i)
  BY <1>2, WaiterAcquires DEF IdleEnters, IdleCalls, BeginStop, Tell, AfterStop, Suspend, Release
<1> QED
  BY <1>1, <1>2 DEF Idle

\* A step of an unload and the queue.
LEMMA UnloadWaiters ==
    ASSUME TypeOK, WaitersQueued, NEW u \in Unloads, Unload(u)
    PROVE  WaitersQueued'
<1> u \in Procs
  BY DEF Procs, Starters
<1>1. CASE UnloadQueues(u)
  BY <1>1, WaiterJoins DEF UnloadQueues, Queues
<1>2. CASE UnloadEnters(u)
  BY <1>2, WaiterAcquires DEF UnloadEnters, BeginStop, Tell, AfterStop, Suspend, Release
<1>3. CASE ServerClosed(u)
  BY <1>3, WaitersKept DEF ServerClosed, Release
<1> QED
  BY <1>1, <1>2, <1>3 DEF Unload

\* A step of a process that stops the session and the queue.
LEMMA LockedWaiters ==
    ASSUME TypeOK, WaitersQueued, NEW p \in Procs, Locked(p)
    PROVE  WaitersQueued'
<1> p \in Procs
  BY DEF Procs, Starters
<1>1. CASE EngineWaitOver(p)
  BY <1>1, WaitersKept DEF EngineWaitOver, Suspend
<1>2. CASE TasksStopped(p)
  BY <1>2, WaitersKept DEF TasksStopped, Suspend
<1>3. CASE FfWaitOver(p)
  BY <1>3, WaitersKept DEF FfWaitOver, AfterStop, Suspend, Release
<1> QED
  BY <1>1, <1>2, <1>3 DEF Locked

\* A step of a session and the queue.
LEMMA SessionWaiters ==
    ASSUME TypeOK, WaitersQueued, NEW s \in Starters, Session(s)
    PROVE  WaitersQueued'
<1> s \in Procs
  BY DEF Procs, Starters
<1>1. CASE FfmpegSpawned(s)
  BY <1>1, WaitersKept DEF FfmpegSpawned, Proceed, Release
<1>2. CASE SpawnFails(s)
  BY <1>2, WaitersKept DEF SpawnFails, Release
<1>3. CASE EngineEnds(s)
  BY <1>3 DEF EngineEnds, WaitersQueued
<1>4. CASE EngineStops(s)
  BY <1>4 DEF EngineStops, WaitersQueued
<1>5. CASE FfmpegCrashes(s)
  BY <1>5 DEF FfmpegCrashes, WaitersQueued
<1>6. CASE FfmpegTerminates(s)
  BY <1>6 DEF FfmpegTerminates, WaitersQueued
<1>7. CASE FirstMedia(s)
  BY <1>7 DEF FirstMedia, WaitersQueued
<1> QED
  BY <1>1, <1>2, <1>3, <1>4, <1>5, <1>6, <1>7 DEF Session

\* Whoever waits for the lock is in its queue exactly once, and nobody else is, whatever is
\* cancelled when: what the fairness of the lock needs to serve every caller.
THEOREM NobodyWaitsInVain == Spec => []WaitersQueued
<1>1. Init => WaitersQueued
  BY DEF Init, WaitersQueued
<1>2. TypeOK /\ WaitersQueued /\ [Next]_vars => WaitersQueued'
  <2> SUFFICES ASSUME TypeOK, WaitersQueued, [Next]_vars PROVE WaitersQueued'
    OBVIOUS
  <2>1. CASE Next
    BY <2>1, ViewerWaiters, ConnectionWaiters, IdleWaiters, UnloadWaiters, LockedWaiters,
       SessionWaiters DEF Next
  <2>2. CASE UNCHANGED vars
    BY <2>2 DEF vars, WaitersQueued
  <2> QED
    BY <2>1, <2>2
<1> QED
  BY TypeCorrect, <1>1, <1>2, PTL DEF Spec
=============================================================================
