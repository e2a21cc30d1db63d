--------------------------- MODULE LivePacingProofs ---------------------------
(***************************************************************************)
(* Proofs about LivePacing for any number of sessions, any schedules of    *)
(* the engines' frames, and every size of the queue and pace of the pacer. *)
(***************************************************************************)
EXTENDS LivePacing, SequenceTheorems, TLAPS

(***************************************************************************)
(* The inductive invariant.  As long as no other engine emits and nothing  *)
(* was dropped, the frame that ffmpeg will get first is this engine's      *)
(* first, wherever on its way it is: among the calls, at the head of the   *)
(* queue, or in the pacer's hands.                                         *)
(***************************************************************************)

Frame == [engine : Engines, n : Nat, ts : Nat]

PacerType ==
    [at : {"get", "sleep"}, frame : Frame \cup {None}, since : Nat, until : Int,
     refTs : Int, refWall : Int, wrote : Int]

WayTyped ==
    /\ now \in Nat
    /\ phase \in {"off", "on", "stopping"}
    /\ session \in 0..Sessions
    /\ phase # "off" => session > 0
    /\ engine \in [Engines -> [schedule : Schedules \cup {<<>>}, from : Nat, n : Nat]]
    /\ calls \in Seq(Frame)
    /\ q \in Seq([frame : Frame, since : Nat])
    /\ pacer \in PacerType
    /\ dropped \in Nat

\* Nobody emits but the session's engine and the heirs.
EmittersKnown ==
    /\ alive \subseteq {session} \cup heirs
    /\ \A i \in DOMAIN calls : calls[i].engine \in {session} \cup heirs

\* Without heirs the calls are the engine's last frames, in order.
CallsInOrder ==
    heirs = {} /\ session > 0 =>
        \A i \in DOMAIN calls : calls[i].n = engine[session].n - Len(calls) + i

IsFirst(f) == f.engine = session /\ f.n = 1

FirstOnItsWay ==
    heirs = {} /\ dropped = 0 =>
        /\ first # None => IsFirst(first)
        /\ first = None /\ phase # "off" =>
            /\ pacer.at = "sleep" => IsFirst(pacer.frame)
            /\ pacer.at = "get" /\ q # <<>> => IsFirst(q[1].frame)
            /\ pacer.at = "get" /\ q = <<>> => Len(calls) = engine[session].n

IInv == WayTyped /\ EmittersKnown /\ CallsInOrder /\ FirstOnItsWay

USE PacingConstants

LEMMA InitInvariant == Init => IInv
  <1> SUFFICES ASSUME Init PROVE IInv
    OBVIOUS
  <1> USE DEF Init
  <1>1. WayTyped
    <2>1. pacer \in PacerType
      BY DEF NewPacer, PacerType
    <2>2. engine \in [Engines -> [schedule : Schedules \cup {<<>>}, from : Nat, n : Nat]]
      OBVIOUS
    <2> QED BY <2>1, <2>2 DEF WayTyped
  <1>2. EmittersKnown /\ CallsInOrder /\ FirstOnItsWay
    BY DEF EmittersKnown, CallsInOrder, FirstOnItsWay
  <1> QED BY <1>1, <1>2 DEF IInv

LEMMA SchedulesTyped ==
    ASSUME NEW s \in Schedules \cup {<<>>}
    PROVE  s \in Seq([at : Nat, ts : Nat])
  <1>1. CASE s \in Schedules
    BY <1>1
  <1>2. CASE s = <<>>
    BY <1>2, EmptySeq
  <1> QED BY <1>1, <1>2

LEMMA SessionIsEngine ==
    ASSUME WayTyped, session > 0
    PROVE  session \in Engines
  BY DEF WayTyped, Engines

(***************************************************************************)
(* The engine's thread.                                                    *)
(***************************************************************************)

LEMMA EmitsInvariant ==
    ASSUME IInv, NEW e \in Engines, Emits(e)
    PROVE  IInv'
  <1> WayTyped
    BY DEF IInv
  <1> DEFINE n == engine[e].n + 1
             f == [engine |-> e, n |-> n, ts |-> engine[e].from + engine[e].schedule[n].ts]
  <1>1. /\ e \in alive /\ engine[e].n < Len(engine[e].schedule)
        /\ engine' = [engine EXCEPT ![e].n = n]
        /\ calls' = Append(calls, f)
        /\ UNCHANGED <<now, phase, session, alive, q, pacer, first, dropped, heirs>>
    BY DEF Emits, Due
  <1>2. engine[e].n \in Nat /\ engine[e].from \in Nat /\ engine[e].schedule \in Schedules \cup {<<>>}
    BY DEF WayTyped
  <1>3. f \in Frame
    <2>1. engine[e].schedule \in Seq([at : Nat, ts : Nat])
      BY <1>2, SchedulesTyped
    <2>2. Len(engine[e].schedule) \in Nat
      BY <2>1, LenProperties
    <2>3. n \in 1..Len(engine[e].schedule) /\ n \in Nat
      <3>1. engine[e].n < Len(engine[e].schedule) /\ engine[e].n \in Nat
        BY <1>1, <1>2
      <3> QED BY <2>2, <3>1
    <2>4. engine[e].schedule[n] \in [at : Nat, ts : Nat]
      BY <2>1, <2>3, ElementOfSeq
    <2>5. engine[e].from + engine[e].schedule[n].ts \in Nat
      <3>1. engine[e].schedule[n].ts \in Nat /\ engine[e].from \in Nat
        BY <1>2, <2>4
      <3> QED BY <3>1
    <2> QED BY <2>3, <2>5 DEF Frame
  <1>4. f.engine = e /\ f.n = n
    OBVIOUS
  <1>5. n \in Nat /\ n = engine[e].n + 1
    BY <1>2
  <1> HIDE DEF f, n
  <1>6. /\ calls' \in Seq(Frame) /\ Len(calls') = Len(calls) + 1 /\ Len(calls) \in Nat
        /\ DOMAIN calls' = 1..Len(calls) + 1 /\ DOMAIN calls = 1..Len(calls)
        /\ \A i \in 1..Len(calls) : calls'[i] = calls[i]
        /\ calls'[Len(calls) + 1] = f
    BY <1>1, <1>3 DEF WayTyped
  <1>7. WayTyped'
    <2>1. engine' \in [Engines -> [schedule : Schedules \cup {<<>>}, from : Nat, n : Nat]]
      BY <1>1, <1>5 DEF WayTyped
    <2> QED BY <1>1, <1>6, <2>1 DEF WayTyped
  <1>8. EmittersKnown'
    BY <1>1, <1>4, <1>6 DEF IInv, EmittersKnown
  <1>9. heirs = {} => e = session /\ session > 0
    BY <1>1 DEF IInv, EmittersKnown, Engines
  <1>10. heirs = {} => engine'[session].n = engine[session].n + 1
    BY <1>1, <1>5, <1>9 DEF WayTyped
  <1>11. CallsInOrder'
    <2>1. ASSUME heirs = {}, session > 0, NEW i \in DOMAIN calls'
          PROVE  calls'[i].n = engine'[session].n - Len(calls') + i
      <3>1. engine[session].n \in Nat
        BY <1>9, <2>1 DEF WayTyped
      <3>2. CASE i \in 1..Len(calls)
        <4>1. calls[i].n = engine[session].n - Len(calls) + i
          BY <1>6, <2>1, <3>2 DEF IInv, CallsInOrder
        <4> QED BY <1>6, <1>10, <2>1, <3>1, <3>2, <4>1
      <3>3. CASE i = Len(calls) + 1
        BY <1>4, <1>5, <1>6, <1>9, <1>10, <2>1, <3>1, <3>3
      <3> QED BY <1>6, <3>2, <3>3
    <2> QED BY <1>1, <2>1 DEF CallsInOrder
  <1>12. FirstOnItsWay'
    BY <1>1, <1>6, <1>10 DEF IInv, FirstOnItsWay, IsFirst
  <1> QED BY <1>7, <1>8, <1>11, <1>12 DEF IInv

LEMMA ExitsInvariant ==
    ASSUME IInv, NEW e \in Engines, Exits(e)
    PROVE  IInv'
  BY DEF Exits, IInv, WayTyped, EmittersKnown, CallsInOrder, FirstOnItsWay, IsFirst

(***************************************************************************)
(* The queue and the pacer.                                                *)
(***************************************************************************)

LEMMA EnqueueInvariant ==
    ASSUME IInv, Enqueue
    PROVE  IInv'
  <1> WayTyped
    BY DEF IInv
  <1> DEFINE room == IF Len(q) = QMax THEN Tail(q) ELSE q
             new == [frame |-> Head(calls), since |-> now]
  <1>1. /\ calls # <<>> /\ calls' = Tail(calls)
        /\ q' = IF phase = "off" THEN q ELSE Append(room, new)
        /\ dropped' = IF phase # "off" /\ Len(q) = QMax THEN dropped + 1 ELSE dropped
        /\ UNCHANGED <<now, phase, session, alive, engine, pacer, first, heirs>>
    BY DEF Enqueue
  <1>2. /\ calls' \in Seq(Frame) /\ Len(calls) \in Nat /\ Len(calls') = Len(calls) - 1
        /\ Len(calls) > 0 /\ calls[1] = Head(calls) /\ Head(calls) \in Frame
        /\ DOMAIN calls = 1..Len(calls) /\ DOMAIN calls' = 1..Len(calls) - 1
        /\ \A i \in DOMAIN calls' : calls'[i] = calls[i + 1]
    BY <1>1 DEF WayTyped
  <1>3. /\ new \in [frame : Frame, since : Nat] /\ new.frame = Head(calls)
        /\ room \in Seq([frame : Frame, since : Nat])
    <2>1. Len(q) = QMax => q # <<>>
      BY DEF WayTyped
    <2> QED BY <1>2, <2>1 DEF WayTyped
  <1>4. Len(q) # QMax => room = q
    OBVIOUS
  <1> HIDE DEF room, new
  <1>5. q' \in Seq([frame : Frame, since : Nat])
    <2>1. Append(room, new) \in Seq([frame : Frame, since : Nat])
      BY <1>3, AppendProperties
    <2> QED BY <1>1, <2>1 DEF WayTyped
  <1>6. WayTyped'
    BY <1>1, <1>2, <1>5 DEF WayTyped
  <1>7. EmittersKnown'
    <2>1. ASSUME NEW i \in DOMAIN calls'
          PROVE  calls'[i].engine \in {session} \cup heirs
      <3>1. i + 1 \in DOMAIN calls /\ calls'[i] = calls[i + 1]
        BY <1>2
      <3> QED BY <3>1 DEF IInv, EmittersKnown
    <2> QED BY <1>1, <2>1 DEF IInv, EmittersKnown
  <1>8. CallsInOrder'
    <2>1. ASSUME heirs = {}, session > 0, NEW i \in DOMAIN calls'
          PROVE  calls'[i].n = engine[session].n - Len(calls') + i
      <3>1. i + 1 \in DOMAIN calls /\ calls'[i] = calls[i + 1] /\ i \in Nat
        BY <1>2
      <3>2. calls[i + 1].n = engine[session].n - Len(calls) + (i + 1)
        BY <2>1, <3>1 DEF IInv, CallsInOrder
      <3>3. engine[session].n \in Nat
        BY <2>1, SessionIsEngine DEF WayTyped
      <3>4. engine[session].n - Len(calls) + (i + 1) = engine[session].n - (Len(calls) - 1) + i
        <4>1. Len(calls) \in Nat /\ i \in Nat /\ engine[session].n \in Nat
          BY <1>2, <3>1, <3>3
        <4> QED BY <4>1
      <3>5. Len(calls') = Len(calls) - 1 /\ calls'[i].n = calls[i + 1].n
        BY <1>2, <3>1
      <3> QED BY <3>2, <3>4, <3>5
    <2> QED BY <1>1, <2>1 DEF CallsInOrder
  <1>9. FirstOnItsWay'
    <2> SUFFICES ASSUME heirs = {}, dropped' = 0
                 PROVE  /\ first # None => IsFirst(first)
                        /\ first = None /\ phase # "off" =>
                            /\ pacer.at = "sleep" => IsFirst(pacer.frame)
                            /\ pacer.at = "get" => q' # <<>> /\ IsFirst(q'[1].frame)
      BY <1>1 DEF FirstOnItsWay, IsFirst
    <2>1. dropped = 0 /\ (phase # "off" => Len(q) # QMax)
      BY <1>1 DEF WayTyped
    <2>2. ASSUME first = None, phase # "off", pacer.at = "get"
          PROVE  q' # <<>> /\ IsFirst(q'[1].frame)
      <3>1. q' = Append(q, new)
        BY <1>1, <1>4, <2>1, <2>2
      <3>2. CASE q # <<>>
        <4>1. q' # <<>> /\ q'[1] = q[1]
          BY <1>3, <3>1, <3>2 DEF WayTyped
        <4> QED BY <2>1, <2>2, <3>2, <4>1 DEF IInv, FirstOnItsWay
      <3>3. CASE q = <<>>
        <4>1. q' # <<>> /\ q'[1] = new
          BY <1>3, <3>1, <3>3 DEF WayTyped
        <4>2. Len(calls) = engine[session].n
          BY <2>1, <2>2, <3>3 DEF IInv, FirstOnItsWay
        <4>3. session > 0 /\ 1 \in DOMAIN calls
          BY <1>2, <2>2 DEF WayTyped
        <4>4. calls[1].n = engine[session].n - Len(calls) + 1
          BY <4>3 DEF IInv, CallsInOrder
        <4>5. calls[1].n = 1
          BY <1>2, <4>2, <4>4
        <4>6. calls[1].engine = session
          BY <4>3 DEF IInv, EmittersKnown
        <4> QED BY <1>2, <1>3, <4>1, <4>5, <4>6 DEF IsFirst
      <3> QED BY <3>2, <3>3
    <2> QED BY <2>1, <2>2 DEF IInv, FirstOnItsWay
  <1> QED BY <1>6, <1>7, <1>8, <1>9 DEF IInv

\* A frame is due now or later, no later than a capped sleep from now; and unless the clock
\* says so itself, the shortest gap between two writes is all it waits.
LEMMA DueAtFacts ==
    ASSUME WayTyped, NEW clock, clock.refTs \in Int, clock.refWall \in Int, NEW ts \in Nat
    PROVE  /\ DueAt(clock, ts) \in Int
           /\ now <= DueAt(clock, ts) /\ DueAt(clock, ts) <= now + Cap
           /\ pacer.wrote <= now => \/ DueAt(clock, ts) <= now + MinGap
                                    \/ DueAt(clock, ts) <= clock.refWall + (ts - clock.refTs)
  <1>1. now \in Int /\ pacer.wrote \in Int
    BY DEF WayTyped, PacerType
  <1>2. Cap \in Nat /\ MinGap \in Nat
    OBVIOUS
  <1> DEFINE byClock == clock.refWall + ts - clock.refTs
             byGap == pacer.wrote + MinGap
             target == IF byClock > byGap THEN byClock ELSE byGap
  <1>3. byClock \in Int /\ byClock = clock.refWall + (ts - clock.refTs) /\ byGap \in Int
    BY <1>1, <1>2
  <1>4. pacer.wrote <= now => byGap <= now + MinGap
    BY <1>1, <1>2
  <1>5. DueAt(clock, ts) = IF target > now + Cap THEN now + Cap
                           ELSE IF target > now THEN target ELSE now
    BY DEF DueAt, Later
  <1> HIDE DEF byClock, byGap
  <1>6. target \in Int /\ target \in {byClock, byGap}
    BY <1>3
  <1> HIDE DEF target
  <1> QED BY <1>1, <1>2, <1>3, <1>4, <1>5, <1>6

LEMMA TakesInvariant ==
    ASSUME IInv, Takes
    PROVE  IInv'
  <1> WayTyped
    BY DEF IInv
  <1> DEFINE f == Head(q).frame
             clock == Anchored(f.ts)
  <1>1. /\ phase # "off" /\ pacer.at = "get" /\ q # <<>> /\ q' = Tail(q)
        /\ pacer' = [pacer EXCEPT !.at = "sleep", !.frame = f, !.since = Head(q).since,
                         !.until = DueAt(clock, f.ts),
                         !.refTs = clock.refTs, !.refWall = clock.refWall]
        /\ UNCHANGED <<now, phase, session, alive, engine, calls, first, dropped, heirs>>
    BY DEF Takes
  <1>2. /\ Head(q) = q[1] /\ f \in Frame /\ Head(q).since \in Nat
        /\ q' \in Seq([frame : Frame, since : Nat])
    <2>1. q \in Seq([frame : Frame, since : Nat])
      BY DEF WayTyped
    <2>2. /\ Head(q) \in [frame : Frame, since : Nat] /\ Tail(q) \in Seq([frame : Frame, since : Nat])
          /\ Head(q) = q[1]
      <3>1. q # <<>>
        BY <1>1
      <3>2. Tail(q) \in Seq([frame : Frame, since : Nat])
        BY <2>1, <3>1, HeadTailProperties
      <3>3. Head(q) \in [frame : Frame, since : Nat]
        BY <2>1, <3>1, HeadTailProperties
      <3>4. Head(q) = q[1]
        BY <2>1, <3>1
      <3> QED BY <3>2, <3>3, <3>4
    <2>3. Head(q).frame \in Frame /\ Head(q).since \in Nat
      BY <2>2
    <2> QED BY <1>1, <2>2, <2>3
  <1>3. f.ts \in Nat
    BY <1>2 DEF Frame
  <1>4. clock.refTs \in Int /\ clock.refWall \in Int
    BY <1>3 DEF Anchored, WayTyped, PacerType
  <1> HIDE DEF clock, f
  <1>5. DueAt(clock, f.ts) \in Int
    BY <1>3, <1>4, DueAtFacts
  <1>6. pacer' \in PacerType /\ pacer'.at = "sleep" /\ pacer'.frame = f
    BY <1>1, <1>2, <1>4, <1>5 DEF WayTyped, PacerType
  <1>7. WayTyped' /\ EmittersKnown' /\ CallsInOrder'
    BY <1>1, <1>2, <1>6 DEF IInv, WayTyped, EmittersKnown, CallsInOrder
  <1>8. FirstOnItsWay'
    BY <1>1, <1>2, <1>6 DEF f, IInv, FirstOnItsWay, IsFirst
  <1> QED BY <1>7, <1>8 DEF IInv

LEMMA WritesInvariant ==
    ASSUME IInv, Writes
    PROVE  IInv'
  <1> WayTyped
    BY DEF IInv
  <1>1. /\ phase # "off" /\ pacer.at = "sleep"
        /\ pacer' = [pacer EXCEPT !.at = "get", !.frame = None, !.since = 0, !.until = 0, !.wrote = now]
        /\ first' = IF first = None THEN pacer.frame ELSE first
        /\ UNCHANGED <<now, phase, session, alive, engine, calls, q, dropped, heirs>>
    BY DEF Writes
  <1>2. pacer' \in PacerType
    <2>1. pacer \in PacerType /\ now \in Int
      BY DEF WayTyped
    <2>2. pacer' = [at |-> "get", frame |-> None, since |-> 0, until |-> 0,
                    refTs |-> pacer.refTs, refWall |-> pacer.refWall, wrote |-> now]
      BY <1>1, <2>1 DEF PacerType
    <2>3. pacer.refTs \in Int /\ pacer.refWall \in Int
      BY <2>1 DEF PacerType
    <2> QED BY <2>1, <2>2, <2>3 DEF PacerType
  <1>3. WayTyped' /\ EmittersKnown' /\ CallsInOrder'
    BY <1>1, <1>2 DEF IInv, WayTyped, EmittersKnown, CallsInOrder
  <1>4. FirstOnItsWay'
    <2> SUFFICES ASSUME heirs = {}, dropped = 0
                 PROVE  first' # None /\ IsFirst(first')
      BY <1>1 DEF FirstOnItsWay, IsFirst
    <2>1. CASE first # None
      BY <1>1, <2>1 DEF IInv, FirstOnItsWay
    <2>2. CASE first = None
      <3>1. first' = pacer.frame /\ IsFirst(pacer.frame)
        BY <1>1, <2>2 DEF IInv, FirstOnItsWay
      <3>2. session > 0
        BY <1>1 DEF WayTyped
      <3> QED BY <3>1, <3>2 DEF IsFirst, None
    <2> QED BY <2>1, <2>2
  <1> QED BY <1>3, <1>4 DEF IInv

(***************************************************************************)
(* The session.                                                            *)
(***************************************************************************)

LEMMA NewPacerTyped == NewPacer \in PacerType
  BY DEF NewPacer, PacerType

LEMMA StartInvariant ==
    ASSUME IInv, Start
    PROVE  IInv'
  <1> WayTyped
    BY DEF IInv
  <1>1. /\ session < Sessions /\ phase' = "on" /\ session' = session + 1
        /\ heirs' = alive \cup {calls[i].engine : i \in DOMAIN calls}
        /\ alive' = alive \cup {session + 1}
        /\ q' = <<>> /\ pacer' = NewPacer /\ first' = None /\ dropped' = 0
        /\ UNCHANGED <<now, calls>>
    BY DEF Start
  <1>2. PICK s \in Schedules :
            engine' = [engine EXCEPT ![session + 1] = [schedule |-> s, from |-> now, n |-> 0]]
    BY DEF Start
  <1>3. session \in Nat /\ session + 1 \in Engines /\ session' \in 0..Sessions /\ session' > 0
    BY <1>1 DEF WayTyped, Engines
  <1>4. /\ engine' \in [Engines -> [schedule : Schedules \cup {<<>>}, from : Nat, n : Nat]]
        /\ engine'[session'].n = 0
    BY <1>1, <1>2, <1>3 DEF WayTyped
  <1>5. WayTyped'
    BY <1>1, <1>3, <1>4, NewPacerTyped DEF WayTyped
  <1>6. EmittersKnown'
    BY <1>1 DEF EmittersKnown
  <1>7. heirs' = {} => calls = <<>>
    <2>1. ASSUME calls # <<>> PROVE 1 \in DOMAIN calls
      BY <2>1 DEF WayTyped
    <2> QED BY <1>1, <2>1
  <1>8. CallsInOrder'
    BY <1>1, <1>7 DEF CallsInOrder
  <1>9. FirstOnItsWay'
    BY <1>1, <1>4, <1>7 DEF FirstOnItsWay, NewPacer
  <1> QED BY <1>5, <1>6, <1>8, <1>9 DEF IInv

LEMMA StopInvariant ==
    ASSUME IInv, StopBegins \/ StopEnds \/ Tick
    PROVE  IInv'
  <1> WayTyped
    BY DEF IInv
  <1>1. /\ UNCHANGED <<session, alive, engine, calls, first, dropped, heirs>>
        /\ now' \in {now, now + 1}
        /\ \/ phase' = "off" /\ q' = <<>> /\ pacer' = NewPacer
           \/ UNCHANGED <<q, pacer>> /\ phase' \in {"off", "on", "stopping"}
              /\ (phase' # "off" => phase # "off")
    BY DEF StopBegins, StopEnds, Tick, WayTyped
  <1>2. WayTyped'
    <2>1. now' \in Nat /\ phase' \in {"off", "on", "stopping"} /\ (phase' # "off" => session > 0)
      BY <1>1 DEF WayTyped
    <2>2. q' \in Seq([frame : Frame, since : Nat]) /\ pacer' \in PacerType
      BY <1>1, NewPacerTyped, EmptySeq DEF WayTyped
    <2> QED BY <1>1, <2>1, <2>2 DEF WayTyped
  <1>3. EmittersKnown' /\ CallsInOrder'
    BY <1>1 DEF IInv, EmittersKnown, CallsInOrder
  <1>4. FirstOnItsWay'
    BY <1>1 DEF IInv, FirstOnItsWay, IsFirst
  <1> QED BY <1>2, <1>3, <1>4 DEF IInv

LEMMA NextInvariant ==
    ASSUME IInv, [Next]_vars
    PROVE  IInv'
  <1>1. CASE UNCHANGED vars
    BY <1>1 DEF vars, IInv, WayTyped, EmittersKnown, CallsInOrder, FirstOnItsWay, IsFirst
  <1>2. CASE Next
    BY <1>2, EmitsInvariant, ExitsInvariant, EnqueueInvariant, TakesInvariant, WritesInvariant,
       StartInvariant, StopInvariant DEF Next
  <1> QED BY <1>1, <1>2

\* The invariant holds in every state: each step of the engines, the loop's callbacks and the session
\* preserves it.
THEOREM Invariance == Spec => []IInv
  BY InitInvariant, NextInvariant, PTL DEF Spec

(***************************************************************************)
(* The theorem.                                                            *)
(***************************************************************************)

LEMMA PictureFollows == IInv => PictureFirst
  BY DEF IInv, WayTyped, FirstOnItsWay, IsFirst, PictureFirst

\* ffmpeg gets its own engine's first frame first, unless an engine outlived its session into
\* this one or the queue overran (_enqueue, _pace_ffmpeg, _start_locked).
THEOREM PictureStartsRight == Spec => []PictureFirst
  BY Invariance, PictureFollows, PTL

(***************************************************************************)
(* The deadline of a frame.  Free is when the pacer can take the next      *)
(* frame from the queue.  From then on each frame ahead in the queue costs *)
(* a spacing at most, if it starts a clock, or else is written when its    *)
(* clock says, which is Reanchor after the clock's start at the latest.    *)
(* The invariant keeps both reckonings for every frame that waits: they    *)
(* hold when it joins the queue, and time passes only while the pacer      *)
(* sleeps.                                                                 *)
(***************************************************************************)

Span(n) == n * Spacing
Budget == Span(QMax) + Reanchor
Stall(n) == n * Cap

Free == IF pacer.at = "get" THEN now ELSE pacer.until

PacerInTime ==
    /\ phase = "off" => q = <<>> /\ pacer.at = "get"
    /\ Len(q) <= QMax
    /\ pacer.refWall <= now /\ pacer.wrote <= now
    /\ pacer.at = "sleep" => now <= pacer.until /\ pacer.until <= now + Cap

\* Whatever the timestamps, each frame ahead costs one sleep.
SleepsAhead ==
    /\ pacer.at = "sleep" => pacer.until <= pacer.since + Stall(QMax + 1)
    /\ \A i \in DOMAIN q : Free + Stall(i) <= q[i].since + Stall(QMax + 1)

\* Without heirs the queue and the calls hold this engine's last frames, in order.
IsOwn(f) ==
    /\ f.n \in 1..Len(engine[session].schedule)
    /\ f.ts = engine[session].from + engine[session].schedule[f.n].ts

OwnFrames ==
    heirs = {} /\ session > 0 =>
        /\ \A i \in DOMAIN calls : IsOwn(calls[i])
        /\ \A i \in DOMAIN q :
              IsOwn(q[i].frame) /\ q[i].frame.n = engine[session].n - Len(calls) - Len(q) + i

\* A frame that the clock, as it is, has due at a time of its own.
Follows(f) ==
    pacer.refTs # -1 /\ 0 <= f.ts - pacer.refTs /\ f.ts - pacer.refTs <= Reanchor
ClockTime(f) == pacer.refWall + (f.ts - pacer.refTs)

Deadlines ==
    heirs = {} =>
        /\ pacer.at = "sleep" => /\ pacer.until <= now + Reanchor
                                 /\ pacer.until <= pacer.since + Budget
        /\ \A i \in DOMAIN q : Free + Span(i) <= q[i].since + Budget
        /\ \A i \in DOMAIN q : \A j \in 1..i :
              Follows(q[j].frame) => ClockTime(q[j].frame) + Span(i - j) <= q[i].since + Budget

DInv == PacerInTime /\ SleepsAhead /\ OwnFrames /\ Deadlines

\* What Span and Stall are used for.
LEMMA SpanFacts ==
    /\ \A n \in Nat : Span(n) \in Nat /\ Span(n + 1) = Span(n) + Spacing
    /\ \A m, n \in Nat : m <= n => Span(m) <= Span(n) /\ Span(n) = Span(m) + Span(n - m)
    /\ Budget \in Nat
  <1>1. ASSUME NEW n \in Nat PROVE Span(n) \in Nat /\ Span(n + 1) = Span(n) + Spacing
    BY DEF Span
  <1>2. ASSUME NEW m \in Nat, NEW n \in Nat, m <= n
        PROVE  Span(m) <= Span(n) /\ Span(n) = Span(m) + Span(n - m)
    <2>1. (n - m) * Spacing >= 0
      <3>1. n - m \in Nat
        BY <1>2
      <3> QED BY <3>1
    <2>2. n * Spacing = m * Spacing + (n - m) * Spacing
      OBVIOUS
    <2> QED BY <2>1, <2>2 DEF Span
  <1>3. Budget \in Nat
    <2>1. QMax \in Nat /\ Reanchor \in Nat
      OBVIOUS
    <2>2. Span(QMax) \in Nat
      BY <1>1, <2>1
    <2> QED BY <2>1, <2>2 DEF Budget
  <1> QED BY <1>1, <1>2, <1>3

LEMMA StallFacts ==
    /\ \A n \in Nat : Stall(n) \in Nat /\ Stall(n + 1) = Stall(n) + Cap
    /\ \A m, n \in Nat : m <= n => Stall(m) <= Stall(n)
    /\ Stall(QMax + 1) \in Nat
  <1>1. ASSUME NEW n \in Nat PROVE Stall(n) \in Nat /\ Stall(n + 1) = Stall(n) + Cap
    BY DEF Stall
  <1>2. ASSUME NEW m \in Nat, NEW n \in Nat, m <= n PROVE Stall(m) <= Stall(n)
    <2>1. (n - m) * Cap >= 0
      <3>1. n - m \in Nat
        BY <1>2
      <3> QED BY <3>1
    <2>2. n * Cap = m * Cap + (n - m) * Cap
      OBVIOUS
    <2> QED BY <2>1, <2>2 DEF Stall
  <1>3. QMax + 1 \in Nat
    OBVIOUS
  <1> QED BY <1>1, <1>2, <1>3

\* The numbers that the reckoning is about.
LEMMA ClockTyped ==
    ASSUME WayTyped
    PROVE  /\ now \in Nat /\ q \in Seq([frame : Frame, since : Nat]) /\ Len(q) \in Nat
           /\ DOMAIN q = 1..Len(q)
           /\ \A i \in 1..Len(q) : q[i].since \in Nat /\ q[i].frame \in Frame /\ q[i].frame.ts \in Nat
           /\ pacer \in PacerType /\ pacer.until \in Int /\ pacer.since \in Nat
           /\ pacer.refTs \in Int /\ pacer.refWall \in Int /\ pacer.wrote \in Int
           /\ pacer.at \in {"get", "sleep"} /\ Free \in Int
  <1>1. now \in Nat /\ q \in Seq([frame : Frame, since : Nat])
    BY DEF WayTyped
  <1>2. Len(q) \in Nat /\ DOMAIN q = 1..Len(q)
    BY <1>1
  <1>3. ASSUME NEW i \in 1..Len(q)
        PROVE  q[i].since \in Nat /\ q[i].frame \in Frame /\ q[i].frame.ts \in Nat
    <2>1. q[i] \in [frame : Frame, since : Nat]
      BY <1>1, ElementOfSeq
    <2> QED BY <2>1 DEF Frame
  <1>4. /\ pacer \in PacerType /\ pacer.until \in Int /\ pacer.since \in Nat
        /\ pacer.refTs \in Int /\ pacer.refWall \in Int /\ pacer.wrote \in Int
        /\ pacer.at \in {"get", "sleep"}
    BY DEF WayTyped, PacerType
  <1> QED BY <1>1, <1>2, <1>3, <1>4 DEF Free

LEMMA InitDeadlines == Init => DInv
  BY DEF Init, DInv, PacerInTime, SleepsAhead, OwnFrames, Deadlines, NewPacer

\* The order of what is on its way.
LEMMA EmitsOwn ==
    ASSUME IInv, DInv, NEW e \in Engines, Emits(e)
    PROVE  OwnFrames'
  <1> WayTyped
    BY DEF IInv
  <1> DEFINE n == engine[e].n + 1
             f == [engine |-> e, n |-> n, ts |-> engine[e].from + engine[e].schedule[n].ts]
  <1>1. /\ e \in alive /\ engine[e].n < Len(engine[e].schedule)
        /\ engine' = [engine EXCEPT ![e].n = n]
        /\ calls' = Append(calls, f)
        /\ UNCHANGED <<session, alive, q, heirs>>
    BY DEF Emits, Due
  <1>2. heirs = {} => e = session
    BY <1>1 DEF IInv, EmittersKnown
  <1>3. engine[e].n \in Nat /\ engine[e].schedule \in Schedules \cup {<<>>}
    BY DEF WayTyped
  <1>4. Len(engine[e].schedule) \in Nat
    <2>1. engine[e].schedule \in Seq([at : Nat, ts : Nat])
      BY <1>3, SchedulesTyped
    <2> QED BY <2>1, LenProperties
  <1>5. n \in 1..Len(engine[e].schedule)
    <2>1. engine[e].n < Len(engine[e].schedule) /\ engine[e].n \in Nat
      BY <1>1, <1>3
    <2> QED BY <1>4, <2>1
  <1>6. /\ engine'[e].schedule = engine[e].schedule
        /\ engine'[e].from = engine[e].from
        /\ engine'[e].n = engine[e].n + 1
    BY <1>1 DEF WayTyped
  <1>7. /\ f.n = n /\ f.ts = engine[e].from + engine[e].schedule[n].ts
    OBVIOUS
  <1>8. calls \in Seq(Frame) /\ Len(calls) \in Nat /\ DOMAIN calls = 1..Len(calls)
    BY DEF WayTyped
  <1> HIDE DEF f, n
  <1>9. /\ Len(calls') = Len(calls) + 1 /\ DOMAIN calls' = 1..Len(calls) + 1
        /\ \A i \in 1..Len(calls) : calls'[i] = calls[i]
        /\ calls'[Len(calls) + 1] = f
    BY <1>1, <1>8
  <1>10. ASSUME heirs = {}, session > 0, NEW i \in DOMAIN calls'
         PROVE  /\ calls'[i].n \in 1..Len(engine'[session].schedule)
                /\ calls'[i].ts = engine'[session].from + engine'[session].schedule[calls'[i].n].ts
    <2>1. CASE i \in 1..Len(calls)
      <3>1. calls'[i] = calls[i] /\ IsOwn(calls[i])
        BY <2>1, <1>8, <1>9, <1>10 DEF DInv, OwnFrames
      <3> QED BY <3>1, <1>2, <1>6, <1>10 DEF IsOwn
    <2>2. CASE i = Len(calls) + 1
      BY <2>2, <1>2, <1>5, <1>6, <1>7, <1>9, <1>10
    <2> QED BY <1>8, <1>9, <1>10, <2>1, <2>2
  <1>11. ASSUME heirs = {}, session > 0, NEW i \in DOMAIN q
         PROVE  /\ q[i].frame.n \in 1..Len(engine'[session].schedule)
                /\ q[i].frame.ts = engine'[session].from + engine'[session].schedule[q[i].frame.n].ts
                /\ q[i].frame.n = engine'[session].n - Len(calls') - Len(q) + i
    <2>1. IsOwn(q[i].frame) /\ q[i].frame.n = engine[session].n - Len(calls) - Len(q) + i
      BY <1>11 DEF DInv, OwnFrames
    <2>2. engine[session].n \in Nat /\ Len(q) \in Nat /\ i \in Nat
      BY <1>2, <1>3, <1>11, ClockTyped
    <2>3. engine'[session].n = engine[session].n + 1
      BY <1>2, <1>6, <1>11
    <2>4. engine'[session].n - Len(calls') - Len(q) + i = engine[session].n - Len(calls) - Len(q) + i
      <3>1. Len(calls) \in Nat /\ Len(calls') = Len(calls) + 1
        BY <1>8, <1>9
      <3> QED BY <2>2, <2>3, <3>1
    <2> QED BY <1>2, <1>6, <1>11, <2>1, <2>4 DEF IsOwn
  <1> QED BY <1>1, <1>10, <1>11 DEF OwnFrames, IsOwn

\* A frame's place from the end of what is on its way, when the front of it goes.
LEMMA PlaceShifts ==
    \A a, b, c, i, k \in Int : a - b - c + (i + k) = a - (b - 1) - (c - k + 1) + i
  OBVIOUS

\* What _enqueue does to the queue: the oldest frame goes when it is full.
LEMMA Enqueued ==
    ASSUME WayTyped, Enqueue, phase # "off", Len(q) <= QMax
    PROVE  \E k \in {0, 1} :
              /\ Len(q') = Len(q) - k + 1 /\ Len(q') <= QMax /\ k <= Len(q)
              /\ DOMAIN q' = 1..Len(q') /\ Len(q') \in Nat
              /\ \A i \in 1..Len(q)-k : i + k \in 1..Len(q) /\ q'[i] = q[i + k]
              /\ q'[Len(q')] = [frame |-> Head(calls), since |-> now]
  <1> DEFINE room == IF Len(q) = QMax THEN Tail(q) ELSE q
             new == [frame |-> Head(calls), since |-> now]
  <1>1. calls # <<>> /\ q' = Append(room, new)
    BY DEF Enqueue
  <1>2. q \in Seq([frame : Frame, since : Nat]) /\ Len(q) \in Nat
    BY DEF WayTyped
  <1>3. new \in [frame : Frame, since : Nat]
    BY <1>1 DEF WayTyped
  <1> HIDE DEF new
  <1>4. CASE Len(q) = QMax
    <2>1. q # <<>>
      BY <1>2, <1>4
    <2>2. /\ Tail(q) \in Seq([frame : Frame, since : Nat]) /\ Len(Tail(q)) = Len(q) - 1
          /\ \A i \in 1..Len(q)-1 : i + 1 \in 1..Len(q) /\ Tail(q)[i] = q[i + 1]
      BY <1>2, <2>1
    <2>3. q' = Append(Tail(q), new)
      BY <1>1, <1>4
    <2>4. /\ Len(q') = Len(q) /\ DOMAIN q' = 1..Len(q') /\ q'[Len(q')] = new
          /\ \A i \in 1..Len(q)-1 : q'[i] = Tail(q)[i]
      BY <1>2, <1>3, <2>2, <2>3
    <2>5. /\ Len(q') = Len(q) - 1 + 1 /\ Len(q') <= QMax /\ 1 <= Len(q) /\ Len(q') \in Nat
      BY <1>2, <1>4, <2>4
    <2> QED BY <2>2, <2>4, <2>5 DEF new
  <1>5. CASE Len(q) # QMax
    <2>1. q' = Append(q, new)
      BY <1>1, <1>5
    <2>2. /\ Len(q') = Len(q) + 1 /\ DOMAIN q' = 1..Len(q') /\ q'[Len(q')] = new
          /\ \A i \in 1..Len(q) : q'[i] = q[i]
      BY <1>2, <1>3, <2>1
    <2>3. /\ Len(q') = Len(q) - 0 + 1 /\ Len(q') <= QMax /\ 0 <= Len(q) /\ Len(q') \in Nat
          /\ \A i \in 1..Len(q)-0 : i \in 1..Len(q) /\ i + 0 \in 1..Len(q) /\ i + 0 = i
      BY <1>2, <1>5, <2>2
    <2> QED BY <2>2, <2>3 DEF new
  <1> QED BY <1>4, <1>5

LEMMA EnqueueDeadlines ==
    ASSUME IInv, DInv, Enqueue
    PROVE  DInv'
  <1> WayTyped
    BY DEF IInv
  <1>1. /\ calls # <<>> /\ calls' = Tail(calls)
        /\ UNCHANGED <<now, phase, session, alive, engine, pacer, first, heirs>>
    BY DEF Enqueue
  <1>2. /\ now \in Nat /\ Len(q) \in Nat /\ DOMAIN q = 1..Len(q)
        /\ \A i \in 1..Len(q) : q[i].since \in Nat /\ q[i].frame.ts \in Nat
        /\ pacer.until \in Int /\ pacer.refTs \in Int /\ pacer.refWall \in Int
        /\ pacer.at \in {"get", "sleep"} /\ Free \in Int
    BY ClockTyped
  <1>3. /\ Len(calls) \in Nat /\ Len(calls') = Len(calls) - 1 /\ calls[1] = Head(calls)
        /\ 1 \in DOMAIN calls /\ DOMAIN calls = 1..Len(calls)
        /\ \A i \in DOMAIN calls' : i + 1 \in DOMAIN calls /\ calls'[i] = calls[i + 1]
    <2>1. calls \in Seq(Frame) /\ calls # <<>> /\ calls' = Tail(calls)
      BY <1>1 DEF WayTyped
    <2> QED BY <2>1
  <1>4. \A g : IsOwn(g) <=> IsOwn(g)'
    BY <1>1 DEF IsOwn
  <1>5. CASE phase = "off"
    <2>1. q' = <<>> /\ q = <<>>
      BY <1>5 DEF Enqueue, DInv, PacerInTime
    <2>2. PacerInTime'
      BY <1>1, <2>1 DEF DInv, PacerInTime
    <2>3. SleepsAhead' /\ Deadlines'
      BY <1>1, <2>1 DEF DInv, SleepsAhead, Deadlines, Follows, ClockTime, Free
    <2>4. OwnFrames'
      BY <1>1, <1>3, <1>4, <2>1 DEF DInv, OwnFrames
    <2> QED BY <2>2, <2>3, <2>4 DEF DInv
  <1>6. CASE phase # "off"
    <2> DEFINE new == [frame |-> Head(calls), since |-> now]
    <2>1. PICK k \in {0, 1} :
              /\ Len(q') = Len(q) - k + 1 /\ Len(q') <= QMax /\ k <= Len(q)
              /\ DOMAIN q' = 1..Len(q') /\ Len(q') \in Nat
              /\ \A i \in 1..Len(q)-k : i + k \in 1..Len(q) /\ q'[i] = q[i + k]
              /\ q'[Len(q')] = new
      BY <1>6, Enqueued DEF DInv, PacerInTime
    <2> HIDE DEF new
    <2>2. \A i \in 1..Len(q') : i \in 1..Len(q)-k \/ i = Len(q')
      BY <1>2, <2>1
    <2>3. new.since = now /\ new.frame = Head(calls)
      BY DEF new
    <2>4. PacerInTime'
      BY <1>1, <1>6, <2>1 DEF DInv, PacerInTime
    <2>5. SleepsAhead'
      <3>1. ASSUME NEW i \in 1..Len(q')
            PROVE  Free + Stall(i) <= q'[i].since + Stall(QMax + 1)
        <4>1. i \in Nat /\ i <= QMax /\ QMax + 1 \in Nat
          BY <2>1
        <4>2. Stall(i) \in Nat /\ Stall(QMax) \in Nat /\ Stall(QMax + 1) = Stall(QMax) + Cap
              /\ Stall(i) <= Stall(QMax)
          BY <4>1, StallFacts
        <4>3. CASE i \in 1..Len(q)-k
          <5>1. i + k \in 1..Len(q) /\ q'[i] = q[i + k]
            BY <2>1, <4>3
          <5>2. Free + Stall(i + k) <= q[i + k].since + Stall(QMax + 1)
            BY <5>1, <1>2 DEF DInv, SleepsAhead
          <5>3. i + k \in Nat /\ i <= i + k
            BY <4>1
          <5>4. Stall(i) <= Stall(i + k) /\ Stall(i + k) \in Nat
            BY <4>1, <5>3, StallFacts
          <5> QED BY <5>1, <5>2, <5>4, <4>2, <1>2
        <4>4. CASE i = Len(q')
          <5>1. Free <= now + Cap
            BY <1>2 DEF Free, DInv, PacerInTime
          <5> QED BY <5>1, <4>2, <4>4, <2>1, <2>3, <1>2
        <4> QED BY <2>2, <4>3, <4>4
      <3>2. Free' = Free
        BY <1>1 DEF Free
      <3> QED BY <3>1, <3>2, <1>1, <2>1 DEF DInv, SleepsAhead
    <2>6. OwnFrames'
      <3> SUFFICES ASSUME heirs = {}, session > 0
                   PROVE  /\ \A i \in DOMAIN calls' : IsOwn(calls'[i])
                          /\ \A i \in DOMAIN q' :
                                /\ IsOwn(q'[i].frame)
                                /\ q'[i].frame.n = engine[session].n - Len(calls') - Len(q') + i
        BY <1>1, <1>4 DEF OwnFrames
      <3>1. \A i \in DOMAIN calls' : IsOwn(calls'[i])
        BY <1>3 DEF DInv, OwnFrames
      <3>2. engine[session].n \in Nat
        BY SessionIsEngine DEF WayTyped
      <3>3. ASSUME NEW i \in 1..Len(q')
            PROVE  /\ IsOwn(q'[i].frame)
                   /\ q'[i].frame.n = engine[session].n - Len(calls') - Len(q') + i
        <4>1. CASE i \in 1..Len(q)-k
          <5>1. i + k \in 1..Len(q) /\ q'[i] = q[i + k]
            BY <2>1, <4>1
          <5>2. /\ IsOwn(q[i + k].frame)
                /\ q[i + k].frame.n = engine[session].n - Len(calls) - Len(q) + (i + k)
            BY <5>1, <1>2 DEF DInv, OwnFrames
          <5>3. engine[session].n - Len(calls) - Len(q) + (i + k)
                = engine[session].n - (Len(calls) - 1) - (Len(q) - k + 1) + i
            <6>1. /\ k \in Int /\ i \in Int
                  /\ Len(calls) \in Int /\ Len(q) \in Int /\ engine[session].n \in Int
              BY <1>2, <1>3, <2>1, <3>2
            <6> QED BY ONLY <6>1, PlaceShifts
          <5> QED BY <5>1, <5>2, <5>3, <1>3, <2>1
        <4>2. CASE i = Len(q')
          <5>1. q'[i].frame = calls[1] /\ IsOwn(calls[1])
            BY <4>2, <1>3, <2>1, <2>3 DEF DInv, OwnFrames
          <5>2. calls[1].n = engine[session].n - Len(calls) + 1
            BY <1>3 DEF IInv, CallsInOrder
          <5>3. engine[session].n - Len(calls) + 1 = engine[session].n - Len(calls') - Len(q') + i
            BY <4>2, <1>3, <2>1, <3>2
          <5> QED BY <5>1, <5>2, <5>3
        <4> QED BY <2>2, <4>1, <4>2
      <3> QED BY <3>1, <3>3, <2>1
    <2>7. Deadlines'
      <3> SUFFICES ASSUME heirs = {}
                   PROVE  /\ \A i \in 1..Len(q') : Free + Span(i) <= q'[i].since + Budget
                          /\ \A i \in 1..Len(q') : \A j \in 1..i :
                                Follows(q'[j].frame) =>
                                    ClockTime(q'[j].frame) + Span(i - j) <= q'[i].since + Budget
        <4>1. Free' = Free
          BY <1>1 DEF Free
        <4> QED BY <4>1, <1>1, <2>1 DEF DInv, Deadlines, Follows, ClockTime
      <3>1. ASSUME NEW i \in 1..Len(q')
            PROVE  Free + Span(i) <= q'[i].since + Budget
        <4>1. i \in Nat /\ i <= QMax
          BY <2>1
        <4>2. Span(i) \in Nat /\ Span(QMax) \in Nat /\ Span(i) <= Span(QMax) /\ Budget \in Nat
          BY <4>1, SpanFacts
        <4>3. CASE i \in 1..Len(q)-k
          <5>1. i + k \in 1..Len(q) /\ q'[i] = q[i + k]
            BY <2>1, <4>3
          <5>2. Free + Span(i + k) <= q[i + k].since + Budget
            BY <5>1, <1>2 DEF DInv, Deadlines
          <5>3. i + k \in Nat /\ i <= i + k
            BY <4>1
          <5>4. Span(i) <= Span(i + k) /\ Span(i + k) \in Nat
            BY <4>1, <5>3, SpanFacts
          <5> QED BY <5>1, <5>2, <5>4, <4>2, <1>2
        <4>4. CASE i = Len(q')
          <5>1. Free <= now + Reanchor
            BY <1>2 DEF Free, DInv, Deadlines
          <5> QED BY <5>1, <4>2, <4>4, <2>1, <2>3, <1>2 DEF Budget
        <4> QED BY <2>2, <4>3, <4>4
      <3>2. ASSUME NEW i \in 1..Len(q'), NEW j \in 1..i, Follows(q'[j].frame)
            PROVE  ClockTime(q'[j].frame) + Span(i - j) <= q'[i].since + Budget
        <4>1. CASE i \in 1..Len(q)-k
          <5>1. /\ i + k \in 1..Len(q) /\ q'[i] = q[i + k]
                /\ j + k \in 1..i+k /\ q'[j] = q[j + k]
                /\ (i + k) - (j + k) = i - j
            <6>1. j \in 1..Len(q)-k /\ j + k \in 1..i+k /\ (i + k) - (j + k) = i - j
              BY <4>1, <2>1, <1>2
            <6> QED BY <6>1, <4>1, <2>1
          <5>2. Follows(q[j + k].frame) =>
                   ClockTime(q[j + k].frame) + Span((i + k) - (j + k)) <= q[i + k].since + Budget
            BY <5>1, <1>2 DEF DInv, Deadlines
          <5> QED BY <5>1, <5>2, <3>2
        <4>2. CASE i = Len(q')
          <5>1. ClockTime(q'[j].frame) <= now + Reanchor /\ ClockTime(q'[j].frame) \in Int
            <6>1. j \in 1..Len(q')
              BY <2>1
            <6>2. q'[j].frame.ts \in Nat
              <7>1. q' \in Seq([frame : Frame, since : Nat])
                BY EnqueueInvariant DEF IInv, WayTyped
              <7>2. q'[j] \in [frame : Frame, since : Nat]
                BY <6>1, <7>1, ElementOfSeq
              <7> QED BY <7>2 DEF Frame
            <6>3. 0 <= q'[j].frame.ts - pacer.refTs /\ q'[j].frame.ts - pacer.refTs <= Reanchor
              BY <3>2 DEF Follows
            <6>4. /\ pacer.refTs \in Int /\ pacer.refWall \in Int /\ now \in Int
                  /\ Reanchor \in Int /\ pacer.refWall <= now
              BY <1>2 DEF DInv, PacerInTime
            <6> QED BY ONLY <6>2, <6>3, <6>4 DEF ClockTime
          <5>2. i - j \in Nat /\ i - j <= QMax
            BY <2>1
          <5>3. Span(i - j) <= Span(QMax) /\ Span(i - j) \in Nat /\ Span(QMax) \in Nat
            BY <5>2, SpanFacts
          <5> QED BY <5>1, <5>3, <4>2, <2>1, <2>3, <1>2 DEF Budget
        <4> QED BY <2>2, <4>1, <4>2
      <3> QED BY <3>1, <3>2
    <2> QED BY <2>4, <2>5, <2>6, <2>7 DEF DInv
  <1> QED BY <1>5, <1>6

\* The clock after a frame is taken, and how long the pacer sleeps on it.
LEMMA ClockTaken ==
    ASSUME IInv, DInv, Takes
    PROVE  /\ q # <<>> /\ q' = Tail(q) /\ pacer.at = "get" /\ phase # "off"
           /\ UNCHANGED <<now, phase, session, engine, calls, heirs>>
           /\ pacer' \in PacerType /\ pacer'.at = "sleep" /\ pacer'.since = q[1].since
           /\ pacer'.wrote = pacer.wrote /\ pacer'.refWall \in Int /\ pacer'.until \in Int
           /\ pacer'.refWall <= now /\ now <= pacer'.until /\ pacer'.until <= now + Cap
           /\ \/ /\ pacer'.refTs = q[1].frame.ts /\ pacer'.refWall = now
                 /\ pacer'.until <= now + MinGap
              \/ /\ pacer'.refTs = pacer.refTs /\ pacer'.refWall = pacer.refWall
                 /\ Follows(q[1].frame)
                 /\ pacer'.until <= now + MinGap \/ pacer'.until <= ClockTime(q[1].frame)
  <1> WayTyped
    BY DEF IInv
  <1> DEFINE ts == Head(q).frame.ts
             clock == Anchored(ts)
  <1>1. /\ phase # "off" /\ pacer.at = "get" /\ q # <<>> /\ q' = Tail(q)
        /\ pacer' = [pacer EXCEPT !.at = "sleep", !.frame = Head(q).frame, !.since = Head(q).since,
                         !.until = DueAt(clock, ts),
                         !.refTs = clock.refTs, !.refWall = clock.refWall]
        /\ UNCHANGED <<now, phase, session, engine, calls, heirs>>
    BY DEF Takes
  <1>2. /\ now \in Nat /\ pacer \in PacerType /\ Len(q) \in Nat
        /\ pacer.refTs \in Int /\ pacer.refWall \in Int
        /\ \A i \in 1..Len(q) : q[i].frame.ts \in Nat
    BY ClockTyped
  <1>3. Head(q) = q[1] /\ ts = q[1].frame.ts /\ ts \in Nat
    <2>1. q \in Seq([frame : Frame, since : Nat]) /\ q # <<>>
      BY <1>1 DEF WayTyped
    <2>2. Head(q) = q[1] /\ 1 \in 1..Len(q)
      BY <2>1
    <2> QED BY <1>2, <2>2
  <1>4. pacer.refWall <= now /\ pacer.wrote <= now
    BY DEF DInv, PacerInTime
  <1>5. pacer' \in PacerType
    BY TakesInvariant DEF IInv, WayTyped
  <1> HIDE DEF ts
  <1>6. \/ clock = [refTs |-> ts, refWall |-> now]
        \/ /\ clock = [refTs |-> pacer.refTs, refWall |-> pacer.refWall]
           /\ pacer.refTs # -1 /\ 0 <= ts - pacer.refTs /\ ts - pacer.refTs <= Reanchor
    <2>1. CASE pacer.refTs = -1 \/ ts - pacer.refTs < 0 \/ ts - pacer.refTs > Reanchor
      BY <2>1 DEF Anchored
    <2>2. CASE ~(pacer.refTs = -1 \/ ts - pacer.refTs < 0 \/ ts - pacer.refTs > Reanchor)
      <3>1. ts - pacer.refTs \in Int /\ Reanchor \in Int
        BY <1>2, <1>3
      <3> QED BY <2>2, <3>1 DEF Anchored
    <2> QED BY <2>1, <2>2
  <1> HIDE DEF clock
  <1>7. clock.refTs \in Int /\ clock.refWall \in Int /\ clock.refWall <= now
    BY <1>2, <1>3, <1>4, <1>6
  <1>8. /\ DueAt(clock, ts) \in Int
        /\ now <= DueAt(clock, ts) /\ DueAt(clock, ts) <= now + Cap
        /\ \/ DueAt(clock, ts) <= now + MinGap
           \/ DueAt(clock, ts) <= clock.refWall + (ts - clock.refTs)
    BY <1>3, <1>4, <1>7, DueAtFacts
  <1>9. /\ pacer'.at = "sleep" /\ pacer'.since = q[1].since /\ pacer'.wrote = pacer.wrote
        /\ pacer'.until = DueAt(clock, ts)
        /\ pacer'.refTs = clock.refTs /\ pacer'.refWall = clock.refWall
    BY <1>1, <1>2, <1>3 DEF PacerType
  <1>10. CASE clock = [refTs |-> ts, refWall |-> now]
    <2>1. clock.refTs = ts /\ clock.refWall = now
      BY <1>10
    <2>2. clock.refWall + (ts - clock.refTs) <= now + MinGap
      <3>1. MinGap \in Nat
        OBVIOUS
      <3> QED BY <1>2, <1>3, <2>1, <3>1
    <2>3. DueAt(clock, ts) <= now + MinGap
      <3>1. MinGap \in Int /\ now \in Int
        BY <1>2
      <3> QED BY <1>3, <1>7, <1>8, <2>2, <3>1
    <2> QED BY <1>1, <1>3, <1>5, <1>7, <1>8, <1>9, <2>1, <2>3
  <1>11. CASE /\ clock = [refTs |-> pacer.refTs, refWall |-> pacer.refWall]
              /\ pacer.refTs # -1 /\ 0 <= ts - pacer.refTs /\ ts - pacer.refTs <= Reanchor
    <2>1. clock.refTs = pacer.refTs /\ clock.refWall = pacer.refWall
      BY <1>11
    <2>2. Follows(q[1].frame)
      BY <1>3, <1>11 DEF Follows
    <2>3. ClockTime(q[1].frame) = clock.refWall + (ts - clock.refTs)
      BY <1>3, <2>1 DEF ClockTime
    <2> QED BY <1>1, <1>5, <1>7, <1>8, <1>9, <2>1, <2>2, <2>3
  <1> QED BY <1>6, <1>10, <1>11

\* The queue without its head.
LEMMA QueueMoves ==
    ASSUME WayTyped, q # <<>>, q' = Tail(q)
    PROVE  /\ 1 \in 1..Len(q) /\ Len(q) \in Nat /\ Len(q') = Len(q) - 1 /\ DOMAIN q' = 1..Len(q')
           /\ \A i \in 1..Len(q') : i \in Nat /\ i + 1 \in 1..Len(q) /\ q'[i] = q[i + 1]
  <1>1. q \in Seq([frame : Frame, since : Nat])
    BY DEF WayTyped
  <1> QED BY <1>1

\* Two frames of the engine that are in the queue at once: their timestamps are as far apart as
\* their places say, or further than one clock is followed.
LEMMA SteadyInQueue ==
    ASSUME IInv, DInv, heirs = {}, session > 0,
           NEW j \in 1..Len(q), j > 1
    PROVE  LET dt == q[j].frame.ts - q[1].frame.ts
           IN dt <= Span(j - 1) \/ dt > Reanchor
  <1> WayTyped
    BY DEF IInv
  <1> DEFINE s == engine[session].schedule
             a == q[1].frame.n
             b == q[j].frame.n
  <1>1. 1 \in 1..Len(q) /\ DOMAIN q = 1..Len(q) /\ Len(q) \in Nat /\ j \in Nat
    BY ClockTyped
  <1>2. /\ IsOwn(q[1].frame) /\ IsOwn(q[j].frame)
        /\ a = engine[session].n - Len(calls) - Len(q) + 1
        /\ b = engine[session].n - Len(calls) - Len(q) + j
    BY <1>1 DEF DInv, OwnFrames
  <1>3. /\ engine[session].n \in Nat /\ engine[session].from \in Nat
        /\ s \in Schedules \cup {<<>>} /\ Len(calls) \in Nat
    BY SessionIsEngine DEF WayTyped
  <1>4. b - a = j - 1
    BY <1>1, <1>2, <1>3
  <1>5. /\ a \in 1..Len(s) /\ b \in 1..Len(s)
        /\ q[1].frame.ts = engine[session].from + s[a].ts
        /\ q[j].frame.ts = engine[session].from + s[b].ts
    BY <1>2 DEF IsOwn
  <1>6. s \in Seq([at : Nat, ts : Nat])
    BY <1>3, SchedulesTyped
  <1> HIDE DEF s, a, b
  <1>7. s[a].ts \in Nat /\ s[b].ts \in Nat /\ Len(s) \in Nat
    <2>1. s[a] \in [at : Nat, ts : Nat] /\ s[b] \in [at : Nat, ts : Nat]
      BY <1>5, <1>6, ElementOfSeq
    <2> QED BY <1>6, <2>1, LenProperties
  <1>8. s \in Schedules
    <2>1. s # <<>>
      BY <1>5, <1>7
    <2> QED BY <1>3, <2>1
  <1>9. a < b
    <2>1. a \in Int /\ b \in Int
      BY <1>5, <1>7
    <2> QED BY <1>1, <1>4, <2>1
  <1>10. s[b].ts - s[a].ts <= (b - a) * Spacing \/ s[b].ts - s[a].ts > Reanchor
    BY <1>5, <1>8, <1>9, SteadyClock
  <1>11. q[j].frame.ts - q[1].frame.ts = s[b].ts - s[a].ts
    <2>1. /\ engine[session].from \in Int /\ s[a].ts \in Int /\ s[b].ts \in Int
          /\ q[1].frame.ts = engine[session].from + s[a].ts
          /\ q[j].frame.ts = engine[session].from + s[b].ts
      BY ONLY <1>3, <1>5, <1>7
    <2> QED BY ONLY <2>1
  <1> QED BY <1>4, <1>10, <1>11 DEF Span

LEMMA SumBound ==
    \A t, d, a, b, c, x \in Int :
        c >= 0 /\ d <= a /\ t + (a + b + c) <= x => t + d + b <= x
  OBVIOUS

LEMMA TakesDeadlines ==
    ASSUME IInv, DInv, Takes
    PROVE  DInv'
  <1> WayTyped
    BY DEF IInv
  <1>1. /\ q # <<>> /\ q' = Tail(q) /\ pacer.at = "get" /\ phase # "off"
        /\ UNCHANGED <<now, phase, session, engine, calls, heirs>>
        /\ pacer'.at = "sleep" /\ pacer'.since = q[1].since
        /\ pacer'.wrote = pacer.wrote /\ pacer'.refWall \in Int /\ pacer'.until \in Int
        /\ pacer'.refWall <= now /\ now <= pacer'.until /\ pacer'.until <= now + Cap
    BY ClockTaken
  <1>2. /\ now \in Nat /\ DOMAIN q = 1..Len(q)
        /\ \A i \in 1..Len(q) : q[i].since \in Nat /\ q[i].frame.ts \in Nat
        /\ pacer.refTs \in Int /\ pacer.refWall \in Int
    BY ClockTyped
  <1>3. /\ 1 \in 1..Len(q) /\ Len(q) \in Nat /\ Len(q') = Len(q) - 1 /\ DOMAIN q' = 1..Len(q')
        /\ \A i \in 1..Len(q') : i \in Nat /\ i + 1 \in 1..Len(q) /\ q'[i] = q[i + 1]
    BY <1>1, QueueMoves
  <1>4. Free = now /\ Free' = pacer'.until
    BY <1>1 DEF Free
  <1>5. PacerInTime'
    <2>1. Len(q') <= QMax
      <3>1. Len(q) <= QMax /\ QMax \in Nat
        BY DEF DInv, PacerInTime
      <3> QED BY <1>3, <3>1
    <2> QED BY <1>1, <2>1 DEF DInv, PacerInTime
  <1>6. SleepsAhead'
    <2>1. pacer'.until <= pacer'.since + Stall(QMax + 1)
      <3>1. Free + Stall(1) <= q[1].since + Stall(QMax + 1)
        BY <1>2, <1>3 DEF DInv, SleepsAhead
      <3>2. Stall(1) = Cap /\ Cap \in Nat
        BY DEF Stall
      <3>3. Stall(QMax + 1) \in Nat /\ q[1].since \in Nat
        BY <1>2, <1>3, StallFacts
      <3> QED BY <1>1, <1>2, <1>4, <3>1, <3>2, <3>3
    <2>2. ASSUME NEW i \in 1..Len(q')
          PROVE  pacer'.until + Stall(i) <= q'[i].since + Stall(QMax + 1)
      <3>1. i \in Nat /\ i + 1 \in 1..Len(q) /\ q'[i] = q[i + 1]
        BY <1>3
      <3>2. Free + Stall(i + 1) <= q[i + 1].since + Stall(QMax + 1)
        BY <1>2, <3>1 DEF DInv, SleepsAhead
      <3>3. Stall(i) \in Nat /\ Stall(i + 1) = Stall(i) + Cap /\ Cap \in Nat
        BY <3>1, StallFacts
      <3>4. Stall(QMax + 1) \in Nat /\ q[i + 1].since \in Nat
        BY <1>2, <3>1, StallFacts
      <3> QED BY <1>1, <1>2, <1>4, <3>1, <3>2, <3>3, <3>4
    <2> QED BY <1>3, <1>4, <2>1, <2>2 DEF SleepsAhead
  <1>7. OwnFrames'
    <2> SUFFICES ASSUME heirs = {}, session > 0
                 PROVE  /\ \A i \in DOMAIN calls : IsOwn(calls[i])
                        /\ \A i \in DOMAIN q' :
                              /\ IsOwn(q'[i].frame)
                              /\ q'[i].frame.n = engine[session].n - Len(calls) - Len(q') + i
      BY <1>1 DEF OwnFrames, IsOwn
    <2>1. engine[session].n \in Nat /\ Len(calls) \in Nat
      BY SessionIsEngine DEF WayTyped
    <2>2. ASSUME NEW i \in 1..Len(q')
          PROVE  /\ IsOwn(q'[i].frame)
                 /\ q'[i].frame.n = engine[session].n - Len(calls) - Len(q') + i
      <3>1. i \in Nat /\ i + 1 \in 1..Len(q) /\ q'[i] = q[i + 1]
        BY <1>3
      <3>2. /\ IsOwn(q[i + 1].frame)
            /\ q[i + 1].frame.n = engine[session].n - Len(calls) - Len(q) + (i + 1)
        BY <1>2, <3>1 DEF DInv, OwnFrames
      <3>3. engine[session].n - Len(calls) - Len(q) + (i + 1)
            = engine[session].n - Len(calls) - (Len(q) - 1) + i
        <4>1. engine[session].n \in Int /\ Len(calls) \in Int /\ Len(q) \in Int /\ i \in Int
          BY <1>3, <2>1, <3>1
        <4> QED BY ONLY <4>1
      <3> QED BY <1>3, <3>1, <3>2, <3>3
    <2> QED BY <1>3, <2>2 DEF DInv, OwnFrames
  <1>8. Deadlines'
    <2> SUFFICES ASSUME heirs = {}
                 PROVE  Deadlines'
      BY <1>1 DEF Deadlines
    <2> DEFINE old == ClockTime(q[1].frame)
    <2>1. /\ \A i \in 1..Len(q) : now + Span(i) <= q[i].since + Budget
          /\ \A i \in 1..Len(q) : \A j \in 1..i :
                Follows(q[j].frame) => ClockTime(q[j].frame) + Span(i - j) <= q[i].since + Budget
      BY <1>2, <1>4 DEF DInv, Deadlines
    <2>2. Budget \in Nat /\ MinGap \in Nat /\ MinGap <= Spacing /\ MinGap <= Reanchor
          /\ Reanchor \in Nat /\ Spacing \in Nat
      BY SpanFacts
    <2>3. \A i \in Nat : Span(i) \in Nat /\ Span(i + 1) = Span(i) + Spacing
      BY SpanFacts
    <2>4. old \in Int /\ (Follows(q[1].frame) => old <= now + Reanchor)
      <3>1. /\ q[1].frame.ts \in Int /\ pacer.refWall \in Int /\ pacer.refTs \in Int
            /\ now \in Int /\ Reanchor \in Int /\ pacer.refWall <= now
        BY <1>2, <1>3, <2>2 DEF DInv, PacerInTime
      <3> QED BY ONLY <3>1 DEF ClockTime, Follows
    <2>5. pacer'.until <= now + MinGap \/ (Follows(q[1].frame) /\ pacer'.until <= old)
      BY ClockTaken
    <2> HIDE DEF old
    <2>6. pacer'.until <= now + Reanchor
      BY ONLY <1>1, <1>2, <2>2, <2>4, <2>5
    <2>7. ASSUME NEW i \in 1..Len(q)
          PROVE  pacer'.until + Span(i - 1) <= q[i].since + Budget
      <3>1. i \in Nat /\ i - 1 \in Nat /\ i - 1 + 1 = i /\ 1 \in 1..i
        BY <1>3
      <3>2. Span(i - 1) \in Nat /\ Span(i) = Span(i - 1) + Spacing
        BY <2>3, <3>1
      <3>3. q[i].since \in Nat /\ now + Span(i) <= q[i].since + Budget
        BY <1>2, <2>1
      <3>4. Follows(q[1].frame) => old + Span(i - 1) <= q[i].since + Budget
        BY <2>1, <3>1 DEF old
      <3>5. /\ pacer'.until \in Int /\ now \in Int /\ Spacing \in Int /\ MinGap \in Int
            /\ MinGap <= Spacing /\ Span(i - 1) \in Int /\ q[i].since + Budget \in Int
        BY <1>1, <1>2, <2>2, <3>2, <3>3
      <3>6. now + MinGap + Span(i - 1) <= q[i].since + Budget
        BY ONLY <3>2, <3>3, <3>5
      <3> QED BY ONLY <2>4, <2>5, <3>4, <3>5, <3>6
    <2>8. pacer'.until <= pacer'.since + Budget
      <3>1. Span(0) = 0 /\ 1 - 1 = 0
        BY DEF Span
      <3>2. pacer'.until + 0 <= q[1].since + Budget
        BY <1>3, <2>7, <3>1
      <3> QED BY <1>1, <3>2
    <2>9. ASSUME NEW i \in 1..Len(q')
          PROVE  pacer'.until + Span(i) <= q'[i].since + Budget
      <3>1. i + 1 \in 1..Len(q) /\ q'[i] = q[i + 1] /\ i + 1 - 1 = i
        BY <1>3
      <3> QED BY <2>7, <3>1
    <2>10. ASSUME NEW i \in 1..Len(q'), NEW j \in 1..i, Follows(q[j].frame)'
           PROVE  ClockTime(q[j].frame)' + Span(i - j) <= q'[i].since + Budget
      <3> DEFINE ts == q[j + 1].frame.ts
      <3>1. /\ i \in Nat /\ i + 1 \in 1..Len(q) /\ q'[i] = q[i + 1]
            /\ j \in Nat /\ j + 1 \in 1..Len(q) /\ j + 1 \in 1..i + 1 /\ q'[j] = q[j + 1]
            /\ j <= i /\ j >= 1
        <4>1. i \in Nat /\ i + 1 \in 1..Len(q) /\ q'[i] = q[i + 1] /\ j \in 1..Len(q') /\ j <= i
          BY <1>3
        <4>2. j \in Nat /\ j + 1 \in 1..Len(q) /\ q'[j] = q[j + 1]
          BY <1>3, <4>1
        <4> QED BY <4>1, <4>2
      <3>2. ts \in Nat /\ q[1].frame.ts \in Nat /\ q[i + 1].since \in Nat
        BY <1>2, <1>3, <3>1
      <3>3. /\ pacer'.refTs # -1
            /\ 0 <= ts - pacer'.refTs /\ ts - pacer'.refTs <= Reanchor
            /\ ClockTime(q[j].frame)' = pacer'.refWall + (ts - pacer'.refTs)
        BY <2>10, <3>1 DEF Follows, ClockTime
      <3>4. i - j \in Nat /\ Span(i - j) \in Nat /\ Span(j) \in Nat
            /\ Span(i) = Span(j) + Span(i - j) /\ Span(i + 1) = Span(i) + Spacing
        <4>1. i - j \in Nat
          BY <3>1
        <4> QED BY <3>1, <4>1, SpanFacts
      <3>5. CASE pacer'.refTs = q[1].frame.ts /\ pacer'.refWall = now
        <4>1. session > 0
          BY <1>1 DEF WayTyped
        <4>2. ts - q[1].frame.ts <= Span(j)
          <5>1. j + 1 > 1 /\ j + 1 - 1 = j
            BY <3>1
          <5>2. ts - q[1].frame.ts <= Span(j + 1 - 1) \/ ts - q[1].frame.ts > Reanchor
            BY <3>1, <4>1, <5>1, SteadyInQueue
          <5>3. ts - q[1].frame.ts <= Reanchor /\ ts - q[1].frame.ts \in Int
            BY <3>2, <3>3, <3>5
          <5> QED BY <2>2, <5>1, <5>2, <5>3
        <4>3. now + Span(i + 1) <= q[i + 1].since + Budget
          BY <2>1, <3>1
        <4>4. ClockTime(q[j].frame)' = now + (ts - q[1].frame.ts)
          BY <3>3, <3>5
        <4>5. now + (ts - q[1].frame.ts) + Span(i - j) <= q[i + 1].since + Budget
          <5>1. now \in Int /\ Spacing \in Nat
            BY <1>2, <2>2
          <5>2. ts \in Int /\ q[1].frame.ts \in Int /\ q[i + 1].since \in Int /\ Budget \in Int
            BY ONLY <2>2, <3>2
          <5>3. /\ Span(i - j) \in Int /\ Span(j) \in Int
                /\ Span(i + 1) = Span(j) + Span(i - j) + Spacing
            BY ONLY <3>4, <5>1
          <5>4. /\ ts - q[1].frame.ts <= Span(j)
                /\ now + (Span(j) + Span(i - j) + Spacing) <= q[i + 1].since + Budget
            BY <4>2, <4>3, <5>3
          <5>5. ts - q[1].frame.ts \in Int /\ q[i + 1].since + Budget \in Int
            BY ONLY <5>2
          <5>6. now \in Int /\ Spacing \in Int /\ Spacing >= 0
            BY <5>1
          <5> QED BY ONLY <5>3, <5>4, <5>5, <5>6, SumBound
        <4> QED BY <3>1, <4>4, <4>5
      <3>6. CASE pacer'.refTs = pacer.refTs /\ pacer'.refWall = pacer.refWall
        <4>1. /\ Follows(q[j + 1].frame)
              /\ ClockTime(q[j].frame)' = ClockTime(q[j + 1].frame)
          BY <3>3, <3>6 DEF Follows, ClockTime
        <4>2. ClockTime(q[j + 1].frame) + Span((i + 1) - (j + 1)) <= q[i + 1].since + Budget
          BY <2>1, <3>1, <4>1
        <4>3. (i + 1) - (j + 1) = i - j
          BY <3>1
        <4> QED BY <3>1, <4>1, <4>2, <4>3
      <3> QED BY <3>5, <3>6, ClockTaken
    <2> QED BY <1>1, <1>3, <1>4, <2>6, <2>8, <2>9, <2>10 DEF Deadlines
  <1> QED BY <1>5, <1>6, <1>7, <1>8 DEF DInv

LEMMA WritesDeadlines ==
    ASSUME IInv, DInv, Writes
    PROVE  DInv'
  <1> WayTyped
    BY DEF IInv
  <1>1. /\ phase # "off" /\ pacer.at = "sleep" /\ now >= pacer.until
        /\ pacer' = [pacer EXCEPT !.at = "get", !.frame = None, !.since = 0, !.until = 0, !.wrote = now]
        /\ UNCHANGED <<now, phase, session, engine, calls, q, heirs>>
    BY DEF Writes
  <1>2. /\ pacer'.at = "get" /\ pacer'.wrote = now
        /\ pacer'.refTs = pacer.refTs /\ pacer'.refWall = pacer.refWall
    BY <1>1, ClockTyped DEF PacerType
  <1>3. now \in Nat /\ pacer.until \in Int /\ now <= pacer.until
    BY <1>1, ClockTyped DEF DInv, PacerInTime
  <1>4. Free' = Free
    BY <1>1, <1>2, <1>3 DEF Free
  <1>5. PacerInTime'
    BY <1>1, <1>2, <1>3 DEF DInv, PacerInTime
  <1>6. SleepsAhead'
    BY <1>1, <1>2, <1>4 DEF DInv, SleepsAhead
  <1>7. OwnFrames'
    BY <1>1 DEF DInv, OwnFrames, IsOwn
  <1>8. Deadlines'
    BY <1>1, <1>2, <1>4 DEF DInv, Deadlines, Follows, ClockTime
  <1> QED BY <1>5, <1>6, <1>7, <1>8 DEF DInv

LEMMA StartDeadlines ==
    ASSUME IInv, DInv, Start
    PROVE  DInv'
  <1> WayTyped
    BY DEF IInv
  <1>1. /\ phase' = "on" /\ q' = <<>> /\ pacer' = NewPacer /\ UNCHANGED <<now, calls>>
        /\ heirs' = alive \cup {calls[i].engine : i \in DOMAIN calls}
    BY DEF Start
  <1>2. pacer'.at = "get" /\ pacer'.refWall = 0 /\ pacer'.wrote = -MinGap /\ Len(q') = 0
        /\ DOMAIN q' = {}
    BY <1>1 DEF NewPacer
  <1>3. now \in Nat /\ -MinGap <= now /\ 0 <= QMax
    BY DEF WayTyped
  <1>4. heirs' = {} => DOMAIN calls = {}
    BY <1>1
  <1>5. PacerInTime'
    BY <1>1, <1>2, <1>3 DEF PacerInTime
  <1>6. SleepsAhead' /\ Deadlines'
    BY <1>2 DEF SleepsAhead, Deadlines
  <1>7. OwnFrames'
    BY <1>1, <1>2, <1>4 DEF OwnFrames
  <1> QED BY <1>5, <1>6, <1>7 DEF DInv

LEMMA StopBeginsDeadlines ==
    ASSUME IInv, DInv, StopBegins
    PROVE  DInv'
  BY DEF StopBegins, DInv, PacerInTime, SleepsAhead, OwnFrames, IsOwn, Deadlines, Follows, ClockTime, Free

LEMMA StopEndsDeadlines ==
    ASSUME IInv, DInv, StopEnds
    PROVE  DInv'
  <1>1. /\ phase' = "off" /\ q' = <<>> /\ pacer' = NewPacer
        /\ UNCHANGED <<now, session, engine, calls, heirs>>
    BY DEF StopEnds
  <1>2. pacer'.at = "get" /\ pacer'.refWall = 0 /\ pacer'.wrote = -MinGap /\ Len(q') = 0
        /\ DOMAIN q' = {}
    BY <1>1 DEF NewPacer
  <1>3. now \in Nat /\ -MinGap <= now /\ 0 <= QMax
    BY DEF IInv, WayTyped
  <1>4. PacerInTime'
    BY <1>1, <1>2, <1>3 DEF PacerInTime
  <1>5. SleepsAhead' /\ Deadlines'
    BY <1>2 DEF SleepsAhead, Deadlines
  <1>6. OwnFrames'
    BY <1>1, <1>2 DEF DInv, OwnFrames, IsOwn
  <1> QED BY <1>4, <1>5, <1>6 DEF DInv

LEMMA TickDeadlines ==
    ASSUME IInv, DInv, Tick
    PROVE  DInv'
  <1> WayTyped
    BY DEF IInv
  <1>1. /\ now' = now + 1 /\ UNCHANGED <<phase, session, engine, calls, q, pacer, heirs>>
        /\ phase # "off" => IF pacer.at = "get" THEN q = <<>> ELSE now < pacer.until
    BY DEF Tick
  <1>2. now \in Nat /\ pacer.until \in Int /\ pacer.refWall \in Int /\ pacer.wrote \in Int
        /\ pacer.at \in {"get", "sleep"}
    BY ClockTyped
  <1>3. pacer.at = "get" => q = <<>>
    BY <1>1 DEF DInv, PacerInTime
  <1>4. pacer.at = "sleep" => now < pacer.until
    BY <1>1 DEF DInv, PacerInTime
  <1>5. PacerInTime'
    <2>1. pacer.at = "sleep" => now + 1 <= pacer.until /\ pacer.until <= now + 1 + Cap
      <3>1. pacer.at = "sleep" => pacer.until <= now + Cap
        BY DEF DInv, PacerInTime
      <3> QED BY <1>2, <1>4, <3>1
    <2>2. pacer.refWall <= now + 1 /\ pacer.wrote <= now + 1
      BY <1>2 DEF DInv, PacerInTime
    <2> QED BY <1>1, <2>1, <2>2 DEF DInv, PacerInTime
  <1>6. pacer.at = "sleep" => Free' = Free
    BY <1>1 DEF Free
  <1>7. SleepsAhead'
    BY <1>1, <1>2, <1>3, <1>6 DEF DInv, SleepsAhead
  <1>8. OwnFrames'
    BY <1>1 DEF DInv, OwnFrames, IsOwn
  <1>9. Deadlines'
    <2>1. heirs = {} /\ pacer.at = "sleep" => pacer.until <= now + 1 + Reanchor
      <3>1. heirs = {} /\ pacer.at = "sleep" => pacer.until <= now + Reanchor
        BY DEF DInv, Deadlines
      <3> QED BY <1>2, <3>1
    <2> QED BY <1>1, <1>2, <1>3, <1>6, <2>1 DEF DInv, Deadlines, Follows, ClockTime
  <1> QED BY <1>5, <1>7, <1>8, <1>9 DEF DInv

LEMMA EmitsDeadlines ==
    ASSUME IInv, DInv, NEW e \in Engines, Emits(e)
    PROVE  DInv'
  <1>1. OwnFrames'
    BY EmitsOwn
  <1>2. UNCHANGED <<now, phase, q, pacer, heirs>>
    BY DEF Emits
  <1>3. PacerInTime' /\ SleepsAhead' /\ Deadlines'
    BY <1>2 DEF DInv, PacerInTime, SleepsAhead, Deadlines, Follows, ClockTime, Free
  <1> QED BY <1>1, <1>3 DEF DInv

LEMMA KeptDeadlines ==
    ASSUME DInv, UNCHANGED <<now, phase, session, engine, calls, q, pacer, heirs>>
    PROVE  DInv'
  BY DEF DInv, PacerInTime, SleepsAhead, OwnFrames, IsOwn, Deadlines, Follows, ClockTime, Free

LEMMA NextDeadlines ==
    ASSUME IInv, DInv, [Next]_vars
    PROVE  DInv'
  <1>1. CASE UNCHANGED vars
    BY <1>1, KeptDeadlines DEF vars
  <1>2. ASSUME NEW e \in Engines, Emits(e) PROVE DInv'
    BY <1>2, EmitsDeadlines
  <1>3. ASSUME NEW e \in Engines, Exits(e) PROVE DInv'
    BY <1>3, KeptDeadlines DEF Exits
  <1>4. CASE Enqueue
    BY <1>4, EnqueueDeadlines
  <1>5. CASE Takes
    BY <1>5, TakesDeadlines
  <1>6. CASE Writes
    BY <1>6, WritesDeadlines
  <1>7. CASE Start
    BY <1>7, StartDeadlines
  <1>8. CASE StopBegins
    BY <1>8, StopBeginsDeadlines
  <1>9. CASE StopEnds
    BY <1>9, StopEndsDeadlines
  <1>10. CASE Tick
    BY <1>10, TickDeadlines
  <1> QED BY <1>1, <1>2, <1>3, <1>4, <1>5, <1>6, <1>7, <1>8, <1>9, <1>10 DEF Next

\* The deadlines hold in every state.
THEOREM DeadlinesHold == Spec => []DInv
  BY Invariance, InitDeadlines, NextDeadlines, PTL DEF Spec

LEMMA FreeAhead ==
    ASSUME WayTyped, DInv
    PROVE  now <= Free
  <1>1. CASE pacer.at = "get"
    BY <1>1, ClockTyped DEF Free
  <1>2. CASE pacer.at = "sleep"
    BY <1>2 DEF Free, DInv, PacerInTime
  <1> QED BY <1>1, <1>2, ClockTyped

LEMMA NearLiveFollows == IInv /\ DInv => NearLive
  <1> SUFFICES ASSUME IInv, DInv, heirs = {}, NEW t \in Waiting
               PROVE  now - t <= QMax * Spacing + Reanchor
    BY DEF NearLive
  <1> WayTyped
    BY DEF IInv
  <1>1. /\ now \in Nat /\ DOMAIN q = 1..Len(q) /\ Len(q) \in Nat /\ Free \in Int
        /\ \A i \in 1..Len(q) : q[i].since \in Nat
        /\ pacer.until \in Int /\ pacer.since \in Nat /\ pacer.at \in {"get", "sleep"}
    BY ClockTyped
  <1>2. Budget = QMax * Spacing + Reanchor /\ Budget \in Nat
    BY SpanFacts DEF Budget, Span
  <1>3. now <= Free
    BY FreeAhead
  <1>4. CASE t \in {q[i].since : i \in DOMAIN q}
    <2>1. PICK i \in 1..Len(q) : t = q[i].since
      BY <1>1, <1>4
    <2>2. Free + Span(i) <= t + Budget
      BY <1>1, <2>1 DEF DInv, Deadlines
    <2>3. Span(i) \in Nat /\ t \in Nat
      BY <1>1, <2>1, SpanFacts
    <2>4. now - t <= Budget
      BY ONLY <1>1, <1>2, <1>3, <2>2, <2>3
    <2> QED BY <1>2, <2>4
  <1>5. CASE pacer.at = "sleep" /\ t = pacer.since
    <2>1. now <= pacer.until /\ pacer.until <= t + Budget
      BY <1>5 DEF DInv, PacerInTime, Deadlines
    <2>2. now - t <= Budget
      <3>1. pacer.until \in Int /\ now \in Nat /\ t \in Nat /\ Budget \in Nat
        BY <1>1, <1>2, <1>5
      <3> QED BY ONLY <2>1, <3>1
    <2> QED BY <1>2, <2>2
  <1> QED BY <1>4, <1>5 DEF Waiting

\* The picture stays near live: as long as the session's own engine is the only one that emits, no
\* frame waits longer than a full queue of video and the time one clock is followed, whatever the
\* bursts, drops and jumps of the device's clock (_enqueue, _pace_ffmpeg).
THEOREM StaysNearLive == Spec => []NearLive
  BY Invariance, DeadlinesHold, NearLiveFollows, PTL

\* The pacer gets on: whatever timestamps the frames have, those of an engine that outlived its
\* session included, a frame waits no longer than one capped sleep for each place of the queue,
\* and one more.
PacerNeverStalls == \A t \in Waiting : now - t <= (QMax + 1) * Cap

LEMMA PacerFollows == IInv /\ DInv => PacerNeverStalls
  <1> SUFFICES ASSUME IInv, DInv, NEW t \in Waiting
               PROVE  now - t <= Stall(QMax + 1)
    BY DEF PacerNeverStalls, Stall
  <1> WayTyped
    BY DEF IInv
  <1>1. /\ now \in Nat /\ DOMAIN q = 1..Len(q) /\ Len(q) \in Nat /\ Free \in Int
        /\ \A i \in 1..Len(q) : q[i].since \in Nat
        /\ pacer.until \in Int /\ pacer.since \in Nat /\ pacer.at \in {"get", "sleep"}
    BY ClockTyped
  <1>2. Stall(QMax + 1) \in Nat
    BY StallFacts
  <1>3. now <= Free
    BY FreeAhead
  <1>4. CASE t \in {q[i].since : i \in DOMAIN q}
    <2>1. PICK i \in 1..Len(q) : t = q[i].since
      BY <1>1, <1>4
    <2>2. Free + Stall(i) <= t + Stall(QMax + 1)
      BY <1>1, <2>1 DEF DInv, SleepsAhead
    <2>3. Stall(i) \in Nat /\ t \in Nat
      BY <1>1, <2>1, StallFacts
    <2> QED BY ONLY <1>1, <1>2, <1>3, <2>2, <2>3
  <1>5. CASE pacer.at = "sleep" /\ t = pacer.since
    <2>1. now <= pacer.until /\ pacer.until <= t + Stall(QMax + 1)
      BY <1>5 DEF DInv, PacerInTime, SleepsAhead
    <2>2. pacer.until \in Int /\ now \in Nat /\ t \in Nat /\ Stall(QMax + 1) \in Nat
      BY <1>1, <1>2, <1>5
    <2> QED BY ONLY <2>1, <2>2
  <1> QED BY <1>4, <1>5 DEF Waiting

\* Even with such an engine's timestamps the pacer gets on, sleep by capped sleep (_pace_ffmpeg).
THEOREM NeverStalls == Spec => []PacerNeverStalls
  BY Invariance, DeadlinesHold, PacerFollows, PTL

=============================================================================
