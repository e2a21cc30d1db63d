--------------------------- MODULE LiveEngineProofs ---------------------------
(***************************************************************************)
(* Proofs about LiveEngine for every number of attempts and dials: its     *)
(* safety properties, and that each engine lives as EngineLife says; and   *)
(* about the TCP leg it reads from, for every stream of frames.            *)
(***************************************************************************)
EXTENDS LiveEngine, TcpRelayFraming, WellFoundedInduction, TLAPS

(***************************************************************************)
(* The inductive invariant.  OneMint holds because no attempt at the       *)
(* set-up begins with a credential: minting is its last call.  A picture   *)
(* starts at a keyframe because the first keyframe that is found good is   *)
(* handed over in the same step, so that nothing can come between.         *)
(***************************************************************************)

\* There is an attempt left whenever one may begin.
AttemptLeft == pc \in {"start", "pause"} => tries < Attempts

MintedLast == pc \in SetupPc \cup {"start", "pause"} => minted = "none"

GivenWhenGood == kf = "ok" <=> given # "none"

IInv ==
    /\ TypeOK
    /\ AttemptLeft
    /\ MintedLast
    /\ OneMint
    /\ RefusedIsForgotten
    /\ GivenWhenGood
    /\ PictureStartsAtKeyframe

USE BoundsArePositive

LEMMA InitInvariant == Init => IInv
  <1> SUFFICES ASSUME Init PROVE IInv
    OBVIOUS
  <1> USE DEF Init
  <1>1. TypeOK
    <2>1. /\ told \in BOOLEAN /\ sid \in BOOLEAN /\ landed \in BOOLEAN /\ refused \in BOOLEAN
          /\ hub \in BOOLEAN /\ asked \in BOOLEAN /\ authorised \in BOOLEAN
          /\ publishing \in BOOLEAN
      BY Zenon
    <2>2. tries \in 0..Attempts /\ dials \in 0..MaxDials /\ replies \in SUBSET Replies
      OBVIOUS
    <2>3. /\ pc \in SetupPc \cup {"start", "pause", "open", "loop", "ended"}
          /\ memo \in {"none", "fresh", "stale"} /\ late \in {"none", "fresh", "stale"}
          /\ keys \in {"none", "fresh", "stale"} /\ minted \in {"none", "same", "other"}
          /\ kf \in {"unchecked", "ok", "bad"} /\ given \in {"none"} \cup Frames
          /\ dev \in {"asleep", "awake", "audio", "video"}
      BY Zenon
    <2> QED BY <2>1, <2>2, <2>3 DEF TypeOK
  <1>2. AttemptLeft /\ MintedLast /\ OneMint /\ RefusedIsForgotten
    BY DEF AttemptLeft, MintedLast, OneMint, RefusedIsForgotten
  <1>3. GivenWhenGood /\ PictureStartsAtKeyframe
    BY DEF GivenWhenGood, PictureStartsAtKeyframe
  <1> QED BY <1>1, <1>2, <1>3 DEF IInv

(***************************************************************************)
(* The set-up: pc, tries and minted move together.                         *)
(***************************************************************************)

\* Where the set-up goes from, the parts of the invariant that only speak of the
\* keyframe are not touched.
LEMMA MediaUntouched ==
    ASSUME GivenWhenGood, PictureStartsAtKeyframe, UNCHANGED <<kf, given>>
    PROVE  GivenWhenGood' /\ PictureStartsAtKeyframe'
  BY DEF GivenWhenGood, PictureStartsAtKeyframe

\* An attempt that fails either leaves another or ends the engine.
LEMMA FailedLeavesOne ==
    ASSUME TypeOK
    PROVE  /\ Failed \in {"ended", "pause"}
           /\ Failed = "pause" => tries < Attempts
  BY DEF TypeOK, Failed

LEMMA SetupInvariant ==
    ASSUME IInv, Setup
    PROVE  IInv'
  <1> USE DEF IInv
  <1>1. GivenWhenGood' /\ PictureStartsAtKeyframe'
    <2>1. UNCHANGED <<kf, given>>
      BY DEF Setup, Attempt, Login, SetupFails, Retry, GetKeys, Schedule, RegisterViewer, StartRelay,
             mediaVars
    <2> QED BY <2>1, MediaUntouched
  <1>2. RefusedIsForgotten'
    <2>1. CASE GetKeys
      BY <2>1 DEF GetKeys, RefusedIsForgotten, TypeOK
    <2>2. CASE ~GetKeys
      <3>1. UNCHANGED <<refused, memo>>
        BY <2>2 DEF Setup, Attempt, Login, SetupFails, Retry, Schedule, RegisterViewer, StartRelay,
                    cloudVars
      <3> QED BY <3>1 DEF RefusedIsForgotten
    <2> QED BY <2>1, <2>2
  <1>3. TypeOK' /\ AttemptLeft' /\ MintedLast' /\ OneMint'
    <2> USE DEF TypeOK, AttemptLeft, MintedLast, OneMint, SetupPc, cloudVars, setupVars, signalVars,
                mediaVars
    <2>1. CASE Attempt BY <2>1 DEF Attempt
    <2>2. CASE Login BY <2>2, FailedLeavesOne DEF Login, HeldT
    <2>3. CASE SetupFails BY <2>3, FailedLeavesOne DEF SetupFails
    <2>4. CASE Retry BY <2>4 DEF Retry
    <2>5. CASE GetKeys BY <2>5 DEF GetKeys
    <2>6. CASE Schedule BY <2>6 DEF Schedule
    <2>7. CASE RegisterViewer BY <2>7 DEF RegisterViewer
    <2>8. CASE StartRelay BY <2>8 DEF StartRelay
    <2> QED BY <2>1, <2>2, <2>3, <2>4, <2>5, <2>6, <2>7, <2>8 DEF Setup
  <1> QED BY <1>1, <1>2, <1>3

(***************************************************************************)
(* The loop.                                                               *)
(***************************************************************************)

\* A step that stays in the loop, or enters it, and leaves the set-up's results alone.
LEMMA LoopUntouched ==
    ASSUME IInv, pc \in {"open", "loop"}, pc' \in {"loop", "ended"}, UNCHANGED minted
    PROVE  AttemptLeft' /\ MintedLast' /\ OneMint'
  BY DEF IInv, OneMint, AttemptLeft, MintedLast, SetupPc

LEMMA PassInvariant ==
    ASSUME IInv, OpenLegs \/ LeaveLoop \/ LoopBreaks \/ RequestRelay \/ DialHub \/ NoteProgress
                 \/ Rewake \/ \E r \in Replies : TakeReply(r)
    PROVE  IInv'
  <1> USE DEF OpenLegs, LeaveLoop, LoopBreaks, RequestRelay, DialHub, NoteProgress, Rewake, TakeReply,
              Closed, Wake, cloudVars, setupVars, signalVars, mediaVars
  <1>1. /\ pc \in {"open", "loop"} /\ pc' \in {"loop", "ended"}
        /\ UNCHANGED <<minted, refused, memo, kf, given>>
    OBVIOUS
  <1>2. AttemptLeft' /\ MintedLast' /\ OneMint'
    BY <1>1, LoopUntouched
  <1>3. RefusedIsForgotten' /\ GivenWhenGood' /\ PictureStartsAtKeyframe'
    BY <1>1, MediaUntouched DEF IInv, RefusedIsForgotten
  <1>4. TypeOK'
    <2>1. /\ hub' \in BOOLEAN /\ asked' \in BOOLEAN /\ authorised' \in BOOLEAN
          /\ publishing' \in BOOLEAN /\ told' \in BOOLEAN
      BY Zenon DEF IInv, TypeOK
    <2>2. dials' \in 0..MaxDials
      <3>1. dials' = dials \/ (dials < MaxDials /\ dials' = dials + 1)
        OBVIOUS
      <3> QED BY <3>1 DEF IInv, TypeOK
    <2>3. replies' \in SUBSET Replies
      <3>1. replies' = replies \/ replies' = {} \/ \E r : replies' = replies \ {r}
        OBVIOUS
      <3> QED BY <3>1 DEF IInv, TypeOK
    <2>4. dev' \in {"asleep", "awake", "audio", "video"}
      BY DEF IInv, TypeOK
    <2>5. UNCHANGED <<tries, sid, late, keys, landed>>
      OBVIOUS
    <2> QED BY <1>1, <2>1, <2>2, <2>3, <2>4, <2>5 DEF IInv, TypeOK
  <1> QED BY <1>2, <1>3, <1>4 DEF IInv

LEMMA FrameInvariant ==
    ASSUME IInv, NEW f \in Frames, HandleFrame(f)
    PROVE  IInv'
  <1> USE DEF IInv, HandleFrame, setupVars, signalVars
  <1>1. AttemptLeft' /\ MintedLast' /\ OneMint'
    BY LoopUntouched
  <1>2. CASE FirstKeyframe(f)
    <2> USE <1>2 DEF FirstKeyframe, HandOver
    <2>1. TypeOK'
      BY DEF TypeOK, Frames
    <2>2. RefusedIsForgotten'
      BY DEF RefusedIsForgotten, TypeOK
    <2>3. GivenWhenGood' /\ PictureStartsAtKeyframe'
      BY DEF GivenWhenGood, PictureStartsAtKeyframe, Frames
    <2> QED BY <1>1, <2>1, <2>2, <2>3
  <1>3. CASE LaterFrame(f)
    <2> USE <1>3 DEF LaterFrame, HandOver
    <2>1. TypeOK'
      BY DEF TypeOK, Frames
    <2>2. RefusedIsForgotten'
      BY DEF RefusedIsForgotten
    <2>3. UNCHANGED given
      BY DEF GivenWhenGood
    <2> QED BY <1>1, <2>1, <2>2, <2>3, MediaUntouched
  <1> QED BY <1>2, <1>3

(***************************************************************************)
(* The environment.                                                        *)
(***************************************************************************)

LEMMA EnvironmentInvariant ==
    ASSUME IInv, Environment
    PROVE  IInv'
  <1> USE DEF Environment, Rotate, MemoExpires, LateAnswer, LateStore, AuthorisationLands, DeviceAnswers,
              DeviceSleeps, LoseRequest, LoseReply, Aged, cloudVars, setupVars, signalVars, mediaVars
  <1>1. UNCHANGED <<pc, tries, minted, kf, given>>
    OBVIOUS
  <1>2. AttemptLeft' /\ MintedLast' /\ OneMint' /\ GivenWhenGood' /\ PictureStartsAtKeyframe'
    BY <1>1, MediaUntouched DEF IInv, AttemptLeft, MintedLast, OneMint
  <1>3. RefusedIsForgotten'
    <2>1. CASE LateStore
      BY <2>1 DEF IInv, TypeOK, RefusedIsForgotten
    <2>2. CASE ~LateStore
      BY <2>2 DEF IInv, RefusedIsForgotten
    <2> QED BY <2>1, <2>2
  <1>4. TypeOK'
    <2>1. memo' \in {"none", "fresh", "stale"} /\ late' \in {"none", "fresh", "stale"}
          /\ keys' \in {"none", "fresh", "stale"}
      BY DEF IInv, TypeOK
    <2>2. asked' \in BOOLEAN /\ replies' \in SUBSET Replies
      BY DEF IInv, TypeOK, Replies
    <2>3. /\ landed' \in BOOLEAN /\ refused' \in BOOLEAN
          /\ dev' \in {"asleep", "awake", "audio", "video"}
          /\ UNCHANGED <<told, sid, hub, dials, authorised, publishing>>
      BY DEF IInv, TypeOK
    <2> QED BY <1>1, <2>1, <2>2, <2>3 DEF IInv, TypeOK
  <1> QED BY <1>2, <1>3, <1>4 DEF IInv

LEMMA SessionInvariant ==
    ASSUME IInv, NextSession \/ Stop
    PROVE  IInv'
  <1> USE DEF IInv
  <1>1. CASE NextSession
    <2> USE <1>1 DEF NextSession
    <2>1. TypeOK'
      <3>1. /\ told' \in BOOLEAN /\ sid' \in BOOLEAN /\ landed' \in BOOLEAN /\ refused' \in BOOLEAN
            /\ hub' \in BOOLEAN /\ asked' \in BOOLEAN /\ authorised' \in BOOLEAN
            /\ publishing' \in BOOLEAN
        BY Zenon DEF TypeOK
      <3>2. tries' \in 0..Attempts /\ dials' \in 0..MaxDials /\ replies' \in SUBSET Replies
        BY DEF TypeOK
      <3>3. /\ pc' \in SetupPc \cup {"start", "pause", "open", "loop", "ended"}
            /\ memo' \in {"none", "fresh", "stale"} /\ late' \in {"none", "fresh", "stale"}
            /\ keys' \in {"none", "fresh", "stale"} /\ minted' \in {"none", "same", "other"}
            /\ kf' \in {"unchecked", "ok", "bad"} /\ given' \in {"none"} \cup Frames
            /\ dev' \in {"asleep", "awake", "audio", "video"}
        BY Zenon DEF TypeOK
      <3> QED BY <3>1, <3>2, <3>3 DEF TypeOK
    <2>2. AttemptLeft' /\ MintedLast' /\ OneMint' /\ RefusedIsForgotten'
      BY DEF AttemptLeft, MintedLast, OneMint, RefusedIsForgotten
    <2>3. GivenWhenGood' /\ PictureStartsAtKeyframe'
      BY DEF GivenWhenGood, PictureStartsAtKeyframe
    <2> QED BY <2>1, <2>2, <2>3
  <1>2. CASE Stop
    <2> USE <1>2 DEF Stop, cloudVars, setupVars, signalVars, mediaVars
    <2>1. TypeOK'
      BY DEF TypeOK
    <2>2. AttemptLeft' /\ MintedLast' /\ OneMint' /\ RefusedIsForgotten'
      BY DEF AttemptLeft, MintedLast, OneMint, RefusedIsForgotten
    <2> QED BY <2>1, <2>2, MediaUntouched
  <1> QED BY <1>1, <1>2

LEMMA NextInvariant ==
    ASSUME IInv, [Next]_vars
    PROVE  IInv'
  <1>1. CASE UNCHANGED vars
    BY <1>1 DEF IInv, vars, TypeOK, AttemptLeft, MintedLast, OneMint, RefusedIsForgotten,
                GivenWhenGood, PictureStartsAtKeyframe
  <1>2. CASE NextSession \/ Stop
    BY <1>2, SessionInvariant
  <1>3. CASE Setup
    BY <1>3, SetupInvariant
  <1>4. CASE OpenLegs \/ LeaveLoop \/ LoopBreaks
    BY <1>4, PassInvariant
  <1>5. CASE Pass
    BY <1>5, PassInvariant, FrameInvariant DEF Pass
  <1>6. CASE Environment
    BY <1>6, EnvironmentInvariant
  <1> QED BY <1>1, <1>2, <1>3, <1>4, <1>5, <1>6 DEF Next

\* The invariant holds in every state: each step of the set-up, the loop and the environment
\* preserves it.
THEOREM Invariance == Spec => []IInv
  BY InitInvariant, NextInvariant, PTL DEF Spec

(***************************************************************************)
(* The theorems.                                                           *)
(***************************************************************************)

\* Every variable has its type; in particular the engine never begins an attempt more than
\* it has (run's range(4)) and never dials the hub more often than _HUB_MAX_DIALS.
THEOREM EngineTyped == Spec => []TypeOK
  BY Invariance, PTL DEF IInv

\* The credential that the loop uses was minted for the stream of the same attempt
\* (_setup calls _start_relay last).
THEOREM CredentialFits == Spec => []OneMint
  BY Invariance, PTL DEF IInv

\* A list of keys that did not decrypt is gone from the memo until the cloud rotates
\* (_handle_media_frame drops it).
THEOREM RefusedListsStayForgotten == Spec => []RefusedIsForgotten
  BY Invariance, PTL DEF IInv

\* The sink's first frame is a keyframe, and a session whose first keyframe failed gives
\* nothing (_handle_media_frame's gate).
THEOREM PictureGated == Spec => []PictureStartsAtKeyframe
  BY Invariance, PTL DEF IInv

(***************************************************************************)
(* Refinement: every step of the engine is a step of EngineLife's, or      *)
(* none.  That the engine ends once it was told is left to the run.        *)
(***************************************************************************)

LEMMA LifeStarts == Init => Life!Init
  BY DEF Init, Life!Init, Status

LEMMA LifeSteps ==
    ASSUME [Next]_vars
    PROVE  [Life!Next]_Status
  <1> USE DEF Life!Next, Life!Starts, Life!Told, Life!Ends, Status, cloudVars, setupVars, signalVars,
              mediaVars
  <1>1. CASE UNCHANGED vars
    BY <1>1 DEF vars
  <1>2. CASE NextSession
    BY <1>2 DEF NextSession
  <1>3. CASE Stop
    BY <1>3 DEF Stop
  <1>4. CASE Setup
    <2>1. pc # "ended" /\ UNCHANGED told
      BY <1>4 DEF Setup, Attempt, Login, SetupFails, Retry, GetKeys, Schedule, RegisterViewer,
                  StartRelay, SetupPc
    <2> QED BY <2>1
  <1>5. CASE OpenLegs \/ LeaveLoop \/ LoopBreaks \/ Pass
    <2>1. pc # "ended" /\ UNCHANGED told
      BY <1>5 DEF OpenLegs, LeaveLoop, LoopBreaks, Pass, RequestRelay, DialHub, NoteProgress, Rewake,
                  TakeReply, HandleFrame
    <2> QED BY <2>1
  <1>6. CASE Environment
    BY <1>6 DEF Environment, Rotate, MemoExpires, LateAnswer, LateStore, AuthorisationLands,
                DeviceAnswers, DeviceSleeps, LoseRequest, LoseReply
  <1> QED BY <1>1, <1>2, <1>3, <1>4, <1>5, <1>6 DEF Next

\* An engine is started only when the one before it has exited, is told once, and is not
\* running again once it was told (run, stop).
THEOREM EngineLives == Spec => Life!Spec
  BY LifeStarts, LifeSteps, PTL DEF Spec, Life!Spec

(***************************************************************************)
(* The TCP leg the engine reads from: TcpRelayFraming, for every number of *)
(* frames, every layout of them and every place where a chunk may end.     *)
(***************************************************************************)

USE SourceAssumption

LEMMA GapIs ==
    ASSUME wrapped \in BOOLEAN
    PROVE  Gap \in {0, 2} /\ (wrapped => Gap = 2) /\ (~wrapped => Gap = 0)
  BY DEF Gap

\* Where a frame's head and last token are.
LEMMA Place ==
    ASSUME wrapped \in BOOLEAN, NEW f \in 1..N
    PROVE  /\ N \in Nat /\ f \in Nat /\ 0 < f /\ f <= N
           /\ Head1(f) \in Nat /\ Last1(f) \in Nat /\ Overrun[f] \in Nat
           /\ Gap < Head1(f) /\ Head1(f) < Last1(f)
  <1>1. N \in Nat \ {0} /\ f \in Nat /\ 0 < f /\ f <= N /\ Overrun[f] \in Nat
    OBVIOUS
  <1>2. f \in 1..N + 1 /\ f + 1 \in 1..N + 1 /\ f < f + 1
    BY <1>1
  <1>3. Begins[f] \in Nat /\ Begins[f + 1] \in Nat /\ Begins[f] < Begins[f + 1]
    BY <1>1, <1>2 DEF Bodies
  <1>4. Head1(f) \in Nat /\ Last1(f) \in Nat /\ Gap < Head1(f) /\ Head1(f) < Last1(f)
    <2>1. Head1(f) = Begins[f] + f + Gap * f /\ Last1(f) = Head1(f) + Begins[f + 1] - Begins[f]
      BY DEF Head1, Last1
    <2>2. Gap = 0 \/ Gap = 2
      BY DEF Gap
    <2> QED BY ONLY <1>1, <1>3, <2>1, <2>2
  <1> QED BY <1>1, <1>4

\* A frame's head is behind the ends of the frames before it, and the room between.
LEMMA Apart ==
    ASSUME wrapped \in BOOLEAN, NEW f \in 1..N, NEW g \in 1..N, f < g
    PROVE  Last1(f) + Gap < Head1(g)
  <1>1. N \in Nat /\ f \in Nat /\ g \in Nat /\ f <= N /\ g <= N
    OBVIOUS
  <1>2. f + 1 \in 1..N + 1 /\ g \in 1..N + 1 /\ f \in 1..N + 1
    BY <1>1
  <1>3. Begins[f] \in Nat /\ Begins[f + 1] \in Nat /\ Begins[g] \in Nat
    BY <1>2 DEF Bodies
  <1>4. Begins[f + 1] <= Begins[g]
    <2>1. CASE f + 1 = g
      BY <2>1, <1>3
    <2>2. CASE f + 1 < g
      <3>1. f + 1 \in 1..N
        BY <1>1, <2>2
      <3>2. Begins[f + 1] < Begins[g]
        BY <3>1, <2>2, <1>2 DEF Bodies
      <3> QED BY <3>2, <1>3
    <2> QED BY <1>1, <2>1, <2>2
  <1> QED BY ONLY <1>1, <1>3, <1>4, f < g DEF Head1, Last1, Gap

\* It follows the frame before it directly.
LEMMA Behind ==
    ASSUME wrapped \in BOOLEAN, NEW f \in 1..N, f > 1
    PROVE  f - 1 \in 1..N /\ Head1(f) = Last1(f - 1) + Gap + 1
  <1>1. f - 1 \in 1..N /\ (f - 1) + 1 = f
    OBVIOUS
  <1>2. Begins[f] \in Nat /\ Begins[f - 1] \in Nat /\ Gap \in {0, 2}
    <2>1. f \in 1..N + 1 /\ f - 1 \in 1..N + 1
      OBVIOUS
    <2> QED BY <2>1 DEF Bodies, Gap
  <1>3. Last1(f - 1) = Head1(f - 1) + Begins[f] - Begins[f - 1]
    BY <1>1 DEF Last1
  <1>4. Head1(f) = Begins[f] + f + Gap * f
        /\ Head1(f - 1) = Begins[f - 1] + (f - 1) + Gap * (f - 1)
    BY DEF Head1
  <1>5. Gap = 0 \/ Gap = 2
    BY <1>2
  <1>6. f \in Nat
    OBVIOUS
  <1>7. Head1(f) = Last1(f - 1) + Gap + 1
    BY ONLY <1>2, <1>3, <1>4, <1>5, <1>6
  <1> QED BY <1>1, <1>7

LEMMA Ends ==
    ASSUME wrapped \in BOOLEAN
    PROVE  /\ Length \in Nat /\ Head1(1) = Gap + 1
           /\ \A f \in 1..N : Last1(f) <= Length /\ (f = N => Last1(f) = Length)
  <1>1. N \in 1..N /\ 1 \in 1..N
    OBVIOUS
  <1>2. Length \in Nat
    BY <1>1, Place DEF Length
  <1>3. Head1(1) = Gap + 1
    BY DEF Head1, Bodies, Gap
  <1>4. ASSUME NEW f \in 1..N
        PROVE  Last1(f) <= Length /\ (f = N => Last1(f) = Length)
    <2>1. CASE f = N
      BY <2>1, <1>2 DEF Length
    <2>2. CASE f < N
      <3>1. Last1(f) + Gap < Head1(N) /\ Head1(N) < Last1(N)
        BY <1>1, <2>2, Apart, Place
      <3>2. Last1(f) \in Nat /\ Head1(N) \in Nat /\ Last1(N) \in Nat /\ Gap \in {0, 2}
        BY <1>1, Place, GapIs
      <3>3. Length = Last1(N) /\ f # N
        BY <2>2 DEF Length
      <3> QED BY ONLY <3>1, <3>2, <3>3
    <2> QED BY <2>1, <2>2
  <1> QED BY <1>2, <1>3, <1>4

\* A set of natural numbers has a least element.
LEMMA LeastIs ==
    ASSUME NEW T \in SUBSET Nat, T # {}
    PROVE  \E x \in T : \A y \in T : x <= y
  <1>1. PICK x \in T : \A y \in T : ~(<<y, x>> \in OpToRel(<, Nat))
    BY T \subseteq Nat, NatLessThanWellFounded, WFMin, Zenon
  <1>2. ASSUME NEW y \in T
        PROVE  x <= y
    <2>1. <<y, x>> \in Nat \X Nat /\ <<y, x>>[1] = y /\ <<y, x>>[2] = x
      OBVIOUS
    <2>2. ~(y < x)
      BY <1>1, <2>1 DEF OpToRel
    <2> QED BY <2>2
  <1> QED BY <1>2

\* The first frame whose head is genuine and not before i.
FirstFrom(i, x) ==
    /\ x # 0 => /\ x \in 1..N /\ i <= Head1(x) /\ Head1(x) < read
               /\ \A g \in 1..N : i <= Head1(g) => x <= g
    /\ x = 0 => \A g \in 1..N : i <= Head1(g) => read <= Head1(g)

LEMMA NextFrameIs ==
    ASSUME wrapped \in BOOLEAN, read \in Nat, NEW i \in Int
    PROVE  FirstFrom(i, NextFrame(i))
  <1> DEFINE here == {f \in 1..N : i <= Head1(f) /\ Head1(f) < read}
             First(f) == f \in here /\ \A g \in here : f <= g
  <1>1. NextFrame(i) = IF here = {} THEN 0 ELSE CHOOSE f \in here : \A g \in here : f <= g
    BY DEF NextFrame
  <1>2. \A g \in 1..N : Head1(g) \in Nat
    BY Place
  <1>3. CASE here = {}
    <2>1. \A g \in 1..N : i <= Head1(g) => read <= Head1(g)
      BY <1>2, <1>3
    <2>2. NextFrame(i) = 0
      BY <1>1, <1>3
    <2> HIDE DEF here
    <2> QED BY <2>1, <2>2 DEF FirstFrom
  <1>4. CASE here # {}
    <2>1. here \in SUBSET Nat
      OBVIOUS
    <2>2. \E f : First(f)
      <3> HIDE DEF here
      <3>1. \E n \in here : \A m \in here : n <= m
        BY <1>4, <2>1, LeastIs
      <3> QED BY <3>1
    <2>3. First(NextFrame(i))
      <3> HIDE DEF here
      <3> QED BY <1>1, <1>4, <2>2
    <2>4. NextFrame(i) \in 1..N /\ i <= Head1(NextFrame(i)) /\ Head1(NextFrame(i)) < read
      BY <2>3
    <2>5. ASSUME NEW g \in 1..N, i <= Head1(g)
          PROVE  NextFrame(i) <= g
      <3>1. CASE Head1(g) < read
        BY <3>1, <2>3, <2>5
      <3>2. CASE read <= Head1(g)
        <4> SUFFICES ASSUME g < NextFrame(i) PROVE FALSE
          BY <2>4
        <4>1. Last1(g) + Gap < Head1(NextFrame(i)) /\ Head1(g) < Last1(g)
              /\ Last1(g) \in Nat /\ Head1(NextFrame(i)) \in Nat
          BY <2>4, Apart, Place
        <4> HIDE DEF First, here
        <4> QED BY <4>1, <3>2, <2>4, <1>2, GapIs
      <3> QED BY <3>1, <3>2, <1>2
    <2> HIDE DEF First, here
    <2>6. NextFrame(i) # 0
      BY <2>4
    <2> QED BY <2>4, <2>5, <2>6 DEF FirstFrom
  <1> QED BY <1>3, <1>4

\* Where frame f is cut if it is now.
EndIs(f, e) ==
    /\ Last1(f) <= e /\ e <= read
    /\ \/ e = CutAt(f)
       \/ f < N /\ e = Head1(f + 1) /\ Overrun[f] = Gap + 1

\* A frame's end is found exactly when it can be told, and is where the frame is cut, or in
\* the next frame's head if the chunk ends there.
LEMMA FrameEndIs ==
    ASSUME wrapped \in BOOLEAN, read \in Nat, read <= Length, NEW f \in 1..N
    PROVE  /\ FrameEnd(f) \in Nat
           /\ FrameEnd(f) # 0 <=> Ready(f, read)
           /\ FrameEnd(f) # 0 => EndIs(f, FrameEnd(f))
  <1> DEFINE h == Head1(f)
             l == Last1(f)
             x == NextFrame(h + 2)
             o == Overrun[f]
             w == Head1(f + 1)
  <1>1. /\ N \in Nat /\ f \in Nat /\ 0 < f /\ f <= N
        /\ h \in Nat /\ l \in Nat /\ o \in Nat /\ h < l /\ Gap \in {0, 2}
    BY Place, GapIs
  <1>2. l <= Length /\ (f = N => l = Length) /\ Length \in Nat
    BY Ends
  <1>3. f < N => f + 1 \in 1..N /\ w = l + Gap + 1 /\ w \in Nat
    <2> SUFFICES ASSUME f < N
                 PROVE  f + 1 \in 1..N /\ w = l + Gap + 1 /\ w \in Nat
      OBVIOUS
    <2>1. f + 1 \in 1..N /\ f + 1 > 1 /\ (f + 1) - 1 = f
      BY <1>1
    <2>2. w = Last1((f + 1) - 1) + Gap + 1
      BY <2>1, Behind
    <2> QED BY <2>1, <2>2, <1>1
  <1>4. x # 0 => x = f + 1 /\ x <= N /\ Head1(x) < read
    <2> SUFFICES ASSUME x # 0 PROVE x = f + 1 /\ x <= N /\ Head1(x) < read
      OBVIOUS
    <2>1. /\ x \in 1..N /\ h + 2 <= Head1(x) /\ Head1(x) < read
          /\ \A g \in 1..N : h + 2 <= Head1(g) => x <= g
      <3>1. h + 2 \in Int
        BY <1>1
      <3>2. FirstFrom(h + 2, x)
        BY <3>1, NextFrameIs
      <3> HIDE DEF h, x
      <3> QED BY <3>2 DEF FirstFrom
    <2>2. x \in Nat /\ Head1(x) \in Nat /\ x <= N
      BY <2>1, Place
    <2>3. x < f => Last1(x) + Gap < h /\ Head1(x) < Last1(x) /\ Last1(x) \in Nat
      BY <2>1, Apart, Place
    <2>4. x # f /\ ~(x < f)
      BY ONLY <2>1, <2>2, <2>3, <1>1, x = f => Head1(x) = h
    <2>5. f < N
      BY ONLY <2>2, <2>4, <1>1
    <2>6. f + 1 \in 1..N /\ h + 2 <= w
      BY ONLY <2>5, <1>1, <1>3
    <2>7. x <= f + 1
      BY <2>1, <2>6
    <2> QED BY ONLY <2>1, <2>2, <2>4, <2>7, <1>1
  <1>5. x = 0 => ~(f < N /\ w < read)
    <2> SUFFICES ASSUME x = 0, f < N PROVE read <= w
      BY <1>3
    <2>1. f + 1 \in 1..N /\ h + 2 <= w
      BY <1>1, <1>3
    <2>2. h + 2 \in Int
      BY <1>1
    <2>3. \A g \in 1..N : h + 2 <= Head1(g) => read <= Head1(g)
      <3>1. FirstFrom(h + 2, x)
        BY <2>2, NextFrameIs
      <3> HIDE DEF h, x
      <3> QED BY <3>1 DEF FirstFrom
    <2> QED BY <2>1, <2>3
  <1>6. FrameEnd(f) = IF f < N /\ w < read /\ w <= l + o THEN w - 1
                      ELSE IF l + o > read THEN 0 ELSE l + o
    <2>1. FrameEnd(f) = IF x # 0 /\ Head1(x) <= l + o THEN Head1(x) - 1
                        ELSE IF l + o > read THEN 0 ELSE l + o
      BY DEF FrameEnd
    <2>2. CASE x # 0
      <3>1. f < N /\ Head1(x) = w /\ w < read
        BY <2>2, <1>1, <1>4
      <3> QED BY <2>1, <2>2, <3>1
    <2>3. CASE x = 0
      BY <2>1, <2>3, <1>5
    <2> QED BY <2>2, <2>3
  <1>7. Ready(f, read) <=> l <= read /\ (o = 0 \/ l + o <= read \/ (f < N /\ w < read))
    BY DEF Ready
  <1>8. CutAt(f) = l + (IF o <= Gap THEN o ELSE Gap)
    BY DEF CutAt
  <1>9. EndIs(f, FrameEnd(f)) <=>
            /\ l <= FrameEnd(f) /\ FrameEnd(f) <= read
            /\ FrameEnd(f) = CutAt(f) \/ (f < N /\ FrameEnd(f) = w /\ o = Gap + 1)
    BY DEF EndIs
  <1> HIDE DEF h, l, o, w, x
  <1>10. CASE f < N /\ w < read
    BY ONLY <1>1, <1>3, <1>6, <1>7, <1>8, <1>9, <1>10, read \in Nat
  <1>11. CASE ~(f < N /\ w < read)
    <2>1. FrameEnd(f) = IF l + o > read THEN 0 ELSE l + o
      BY <1>6, <1>11
    <2>2. FrameEnd(f) \in Nat /\ (FrameEnd(f) # 0 <=> Ready(f, read))
      BY ONLY <1>1, <1>7, <1>11, <2>1, read \in Nat
    <2>3. ASSUME FrameEnd(f) # 0
          PROVE  FrameEnd(f) = CutAt(f) \/ (f < N /\ FrameEnd(f) = w /\ o = Gap + 1)
      <3>1. FrameEnd(f) = l + o /\ l + o <= read
        BY ONLY <2>1, <2>3, <1>1, read \in Nat
      <3>2. f = N => o = 0
        BY ONLY <3>1, <1>1, <1>2, read \in Nat, read <= Length
      <3>3. CASE f = N
        BY ONLY <3>1, <3>2, <3>3, <1>1, <1>8
      <3>4. CASE f < N
        BY ONLY <3>1, <3>4, <1>1, <1>3, <1>8, <1>11, read \in Nat
      <3> QED BY <3>3, <3>4, <1>1
    <2>4. FrameEnd(f) # 0 => l <= FrameEnd(f) /\ FrameEnd(f) <= read
      BY ONLY <2>1, <1>1, read \in Nat
    <2> QED BY ONLY <2>2, <2>3, <2>4, <1>9
  <1> QED BY <1>10, <1>11

(***************************************************************************)
(* The front of the buffer, p being where it is and got the frames that    *)
(* were cut.  A head that has been passed without its frame being cut was  *)
(* cut in two with the frame before, or follows another such frame; so may *)
(* one whose QTP header is torn.  A wrapped frame's head stands bare only  *)
(* where a length field overran; and an unwrapped stream's front is a head *)
(* unless a frame is missing.                                              *)
(***************************************************************************)

\* The length field of a frame before the front, or of the one at it, overruns.
Overran(p) == \E f \in 1..N : Head1(f) <= p /\ Overrun[f] > 0

\* A frame has been passed without being cut.
Lossy(p, got) == \E f \in 1..N : Head1(f) < p /\ f \notin got

\* There is a reason for f to be missing.
MayMiss(f, p, got) ==
    /\ f > 1
    /\ f - 1 \in got => EndsInHead(f - 1)
    /\ wrapped => Overran(p)

MissingBehind(p, got) == \A f \in 1..N : Head1(f) < p /\ f \notin got => MayMiss(f, p, got)

TornHeader(p, got) == \A f \in 1..N : wrapped /\ p = Head1(f) - 1 => MayMiss(f, p, got)

BareHead(p) == \A f \in 1..N : wrapped /\ p = Head1(f) => Overran(p)

UnwrappedFront(p, got) == ~wrapped => HeadAt(p) \/ p = Length + 1 \/ Lossy(p, got)

GotBehind(p, got) == \A f \in 1..N : f \in got => Last1(f) < p

FrontIs(p, got) ==
    /\ p \in 1..read + 1
    /\ MissingBehind(p, got) /\ TornHeader(p, got) /\ BareHead(p)
    /\ UnwrappedFront(p, got) /\ GotBehind(p, got)

\* What is at the front does not become better when more is taken.
LEMMA Further ==
    ASSUME wrapped \in BOOLEAN, NEW p \in Int, NEW q \in Int, p <= q, NEW got, NEW f \in 1..N
    PROVE  /\ Overran(p) => Overran(q)
           /\ Lossy(p, got) => Lossy(q, got)
           /\ MayMiss(f, p, got) => MayMiss(f, q, got)
           /\ GotBehind(p, got) => GotBehind(q, got)
  <1>1. \A g \in 1..N : Head1(g) \in Nat /\ Last1(g) \in Nat
    BY Place
  <1>2. Overran(p) => Overran(q)
    BY <1>1 DEF Overran
  <1>3. Lossy(p, got) => Lossy(q, got)
    BY <1>1 DEF Lossy
  <1>4. GotBehind(p, got) => GotBehind(q, got)
    BY <1>1 DEF GotBehind
  <1>5. MayMiss(f, p, got) => MayMiss(f, q, got)
    BY <1>2 DEF MayMiss
  <1> QED BY <1>2, <1>3, <1>4, <1>5

\* What _strip_qtp can have done.
LEMMA StripIs ==
    ASSUME wrapped \in BOOLEAN, read \in Nat, pos \in 1..read + 1, NEW p \in StripsTo, p # pos
    PROVE  /\ p \in Int /\ pos < p /\ p <= read + 1 /\ ~HeadAt(pos)
           /\ \/ /\ wrapped /\ p = pos + 2
                 /\ \E f \in 1..N : p = Head1(f) /\ Last1(f) <= read
              \/ /\ ~QtpAt(pos)
                 /\ \A f \in 1..N : /\ wrapped => p # Head1(f)
                                    /\ pos < Head1(f) => p <= Head1(f) + 1
                                    /\ wrapped /\ pos < Head1(f) - 1 => p <= Head1(f) - 1
  <1>1. framed /\ ~HeadAt(pos)
    BY DEF StripsTo
  <1>2. CASE QtpAt(pos)
    <2>1. p = pos + 2 /\ \E f \in 1..N : pos + 2 = Head1(f) /\ Last1(f) <= read
      BY <1>1, <1>2 DEF StripsTo
    <2>2. PICK f \in 1..N : p = Head1(f) /\ Last1(f) <= read
      BY <2>1
    <2>3. Head1(f) < Last1(f) /\ Last1(f) \in Nat /\ Head1(f) \in Nat
      BY Place
    <2>4. p \in Int /\ pos < p /\ p <= read + 1
      BY <2>1, <2>2, <2>3
    <2> QED BY <2>1, <2>2, <2>4, <1>1, <1>2 DEF QtpAt
  <1>3. CASE ~QtpAt(pos)
    <2>1. /\ p \in pos..read + 1
          /\ \A f \in 1..N : pos < Head1(f) => p <= Within(f)
          /\ ~(wrapped /\ HeadAt(p))
      BY <1>1, <1>3 DEF StripsTo
    <2>2. p \in Int /\ pos < p /\ p <= read + 1
      BY <2>1
    <2>3. ASSUME NEW f \in 1..N
          PROVE  /\ wrapped => p # Head1(f)
                 /\ pos < Head1(f) => p <= Head1(f) + 1
                 /\ wrapped /\ pos < Head1(f) - 1 => p <= Head1(f) - 1
      <3>1. pos < Head1(f) => p <= Within(f)
        BY <2>1
      <3>2. Within(f) = IF wrapped /\ pos # Head1(f) - 1 THEN Head1(f) - 1 ELSE Head1(f) + 1
        BY DEF Within
      <3>3. wrapped => p # Head1(f)
        BY <2>1 DEF HeadAt
      <3>4. Head1(f) \in Nat
        BY Place
      <3> QED BY ONLY <2>2, <3>1, <3>2, <3>3, <3>4, pos \in 1..read + 1, read \in Nat
    <2> QED BY <1>1, <1>3, <2>2, <2>3
  <1> QED BY <1>2, <1>3

\* A frame whose head is behind the front is missing for a reason.
LEMMA StripMisses ==
    ASSUME wrapped \in BOOLEAN, read \in Nat, NEW got, FrontIs(pos, got), NEW p \in StripsTo,
           NEW f \in 1..N, Head1(f) < p, f \notin got
    PROVE  MayMiss(f, p, got)
  <1>1. pos \in 1..read + 1 /\ pos \in Int
    BY DEF FrontIs
  <1>2. Head1(f) \in Nat
    BY Place
  <1>3. p = pos \/ (p \in Int /\ pos < p)
    BY <1>1, StripIs
  <1>4. CASE Head1(f) < pos
    <2>1. MayMiss(f, pos, got)
      BY <1>4 DEF FrontIs, MissingBehind
    <2> QED BY <2>1, <1>1, <1>3, Further
  <1>5. CASE pos <= Head1(f)
    <2>1. p # pos
      BY ONLY <1>1, <1>2, <1>5, Head1(f) < p
    <2>2. pos < Head1(f) /\ p \in Int /\ pos < p
      <3>1. ~HeadAt(pos)
        BY <2>1, <1>1, StripIs
      <3>2. pos # Head1(f)
        BY <3>1 DEF HeadAt
      <3> QED BY ONLY <3>2, <1>1, <1>2, <1>3, <1>5, <2>1
    <2>3. ~\E g \in 1..N : p = pos + 2 /\ p = Head1(g) /\ wrapped
      <3> SUFFICES ASSUME NEW g \in 1..N, p = pos + 2, p = Head1(g), wrapped PROVE FALSE
        OBVIOUS
      <3>1. Head1(g) \in Nat /\ f \in Nat /\ g \in Nat /\ Gap = 2
        BY Place, GapIs
      <3>2. f < g => Last1(f) + Gap < Head1(g) /\ Head1(f) < Last1(f) /\ Last1(f) \in Nat
        BY Apart, Place
      <3>3. g < f => Last1(g) + Gap < Head1(f) /\ Head1(g) < Last1(g) /\ Last1(g) \in Nat
        BY Apart, Place
      <3>4. p = pos + 2 /\ p = Head1(g) /\ Head1(f) < p /\ (f = g => Head1(f) = Head1(g))
        OBVIOUS
      <3> QED BY ONLY <3>1, <3>2, <3>3, <3>4, <2>2, <1>1, <1>2
    <2>4. /\ p <= Head1(f) + 1
          /\ ~(wrapped /\ pos < Head1(f) - 1)
      <3>1. /\ pos < Head1(f) => p <= Head1(f) + 1
            /\ wrapped /\ pos < Head1(f) - 1 => p <= Head1(f) - 1
        BY <2>1, <2>3, <1>1, StripIs
      <3> QED BY ONLY <3>1, <2>2, <1>1, <1>2, Head1(f) < p
    <2>5. CASE wrapped
      <3>1. pos = Head1(f) - 1
        BY ONLY <2>2, <2>4, <2>5, <1>1, <1>2
      <3>2. MayMiss(f, pos, got)
        BY <3>1, <2>5 DEF FrontIs, TornHeader
      <3> QED BY <3>2, <2>2, <1>1, Further
    <2>6. CASE ~wrapped
      <3>1. Gap = 0 /\ Head1(1) = 1
        BY <2>6, GapIs, Ends
      <3>2. f > 1
        <4>1. f # 1
          BY <3>1, <2>2, <1>1
        <4> QED BY <4>1
      <3>3. f - 1 \in 1..N /\ Head1(f) = Last1(f - 1) + Gap + 1
        BY <3>2, Behind
      <3>4. f - 1 \notin got
        <4> SUFFICES ASSUME f - 1 \in got PROVE FALSE
          OBVIOUS
        <4>1. Last1(f - 1) < pos
          BY <3>3 DEF FrontIs, GotBehind
        <4>2. Last1(f - 1) \in Nat
          BY <3>3, Place
        <4> QED BY ONLY <4>1, <4>2, <3>1, <3>3, <2>2, <1>1, <1>2
      <3> QED BY <2>6, <3>2, <3>4 DEF MayMiss
    <2> QED BY <2>5, <2>6
  <1> QED BY <1>1, <1>2, <1>4, <1>5

\* A frame whose end is not behind the front has not been cut.
LEMMA NotGot ==
    ASSUME wrapped \in BOOLEAN, NEW p \in Int, NEW got, GotBehind(p, got), NEW f \in 1..N,
           p <= Last1(f)
    PROVE  f \notin got
  <1>1. Last1(f) \in Nat
    BY Place
  <1> QED BY <1>1 DEF GotBehind

\* The front after _strip_qtp is like the one before, but a head whose QTP header has been
\* stripped may stand bare there.
LEMMA StripLeaves ==
    ASSUME wrapped \in BOOLEAN, read \in Nat, read <= Length, NEW got, FrontIs(pos, got), NEW p \in StripsTo
    PROVE  /\ p \in Int /\ pos <= p /\ p <= read + 1
           /\ MissingBehind(p, got) /\ TornHeader(p, got)
           /\ UnwrappedFront(p, got) /\ GotBehind(p, got)
           /\ \A f \in 1..N : wrapped /\ p = Head1(f) => Overran(p) \/ Last1(f) <= read
  <1>1. pos \in 1..read + 1 /\ pos \in Int
    BY DEF FrontIs
  <1>2. p \in Int /\ pos <= p /\ p <= read + 1
    BY <1>1, StripIs
  <1>3. MissingBehind(p, got)
    BY StripMisses DEF MissingBehind
  <1>4. CASE p = pos
    <2>1. /\ TornHeader(p, got) /\ BareHead(p) /\ UnwrappedFront(p, got) /\ GotBehind(p, got)
      BY <1>4 DEF FrontIs
    <2> QED BY <1>2, <1>3, <2>1 DEF BareHead
  <1>5. CASE p # pos
    <2>1. GotBehind(p, got)
      BY <1>1, <1>2, Further, 1 \in 1..N DEF FrontIs
    <2>2. UnwrappedFront(p, got)
      <3> SUFFICES ASSUME ~wrapped PROVE Lossy(p, got) \/ p = Length + 1
        BY DEF UnwrappedFront
      <3>1. ~HeadAt(pos)
        BY <1>1, <1>5, StripIs
      <3>2. CASE Lossy(pos, got)
        BY <3>2, <1>1, <1>2, Further, 1 \in 1..N
      <3>3. CASE pos = Length + 1
        <4>1. Length \in Nat
          BY Ends
        <4> QED BY ONLY <4>1, <3>3, <1>2, <1>5, read \in Nat, read <= Length
      <3> QED BY <3>1, <3>2, <3>3 DEF FrontIs, UnwrappedFront
    <2>3. ASSUME NEW f \in 1..N, wrapped, p = Head1(f)
          PROVE  Last1(f) <= read
      <3>1. PICK g \in 1..N : p = Head1(g) /\ Last1(g) <= read
        BY <1>1, <1>5, <2>3, StripIs
      <3>2. f \in Nat /\ g \in Nat /\ Head1(f) \in Nat /\ Head1(g) \in Nat /\ Gap = 2
        BY <2>3, Place, GapIs
      <3>3. f < g => Last1(f) + Gap < Head1(g) /\ Head1(f) < Last1(f) /\ Last1(f) \in Nat
        BY Apart, Place
      <3>4. g < f => Last1(g) + Gap < Head1(f) /\ Head1(g) < Last1(g) /\ Last1(g) \in Nat
        BY Apart, Place
      <3>5. f = g
        <4>1. p = Head1(f) /\ p = Head1(g)
          BY <2>3, <3>1
        <4> QED BY ONLY <3>2, <3>3, <3>4, <4>1
      <3> QED BY <3>1, <3>5
    <2>4. TornHeader(p, got)
      <3> SUFFICES ASSUME NEW f \in 1..N, wrapped, p = Head1(f) - 1
                   PROVE  MayMiss(f, p, got)
        BY DEF TornHeader
      <3>1. f \in Nat /\ Head1(f) \in Nat /\ Gap = 2 /\ Head1(1) = 3 /\ pos < p
        <4>1. Gap = 2 /\ Head1(1) = Gap + 1
          BY GapIs, Ends
        <4>2. pos < p
          BY ONLY <1>1, <1>2, <1>5
        <4> QED BY <4>1, <4>2, Place
      <3>2. ~QtpAt(pos)
        <4> SUFFICES ASSUME QtpAt(pos) PROVE FALSE
          OBVIOUS
        <4>1. PICK g \in 1..N : p = Head1(g)
          BY <1>1, <1>5, StripIs
        <4>2. g \in Nat /\ Head1(g) \in Nat
          BY Place
        <4>3. f < g => Last1(f) + Gap < Head1(g) /\ Head1(f) < Last1(f) /\ Last1(f) \in Nat
          BY Apart, Place
        <4>4. g < f => Last1(g) + Gap < Head1(f) /\ Head1(g) < Last1(g) /\ Last1(g) \in Nat
          BY Apart, Place
        <4>5. p = Head1(f) - 1 /\ p = Head1(g) /\ (f = g => Head1(f) = Head1(g))
          BY <4>1
        <4> QED BY ONLY <3>1, <4>2, <4>3, <4>4, <4>5
      <3>3. pos # Head1(f) - 2
        <4> SUFFICES ASSUME pos = Head1(f) - 2 PROVE FALSE
          OBVIOUS
        <4>1. pos + 2 = Head1(f)
          BY <1>1, <3>1
        <4> QED BY <3>2, <4>1 DEF QtpAt, HeadAt
      <3>4. pos < Head1(f) - 2
        BY ONLY <3>1, <3>3, <1>1, p = Head1(f) - 1
      <3>5. f > 1
        <4>1. f # 1
          BY <3>1, <3>4, <1>1
        <4> QED BY <4>1
      <3>6. f - 1 \in 1..N /\ Head1(f) = Last1(f - 1) + Gap + 1
        BY <3>5, Behind
      <3>7. /\ Last1(f - 1) \in Nat /\ Head1(f - 1) \in Nat /\ Head1(f - 1) < Last1(f - 1)
        BY <3>6, Place
      <3>8. pos <= Last1(f - 1) /\ Head1(f - 1) < p
        BY ONLY <3>1, <3>4, <3>6, <3>7, <1>1, p = Head1(f) - 1
      <3>9. f - 1 \notin got
        BY <3>6, <3>8, <1>1, NotGot DEF FrontIs
      <3>10. MayMiss(f - 1, p, got)
        BY <3>6, <3>8, <3>9, StripMisses
      <3> QED BY <3>5, <3>9, <3>10 DEF MayMiss
    <2> QED BY <1>2, <1>3, <2>1, <2>2, <2>3, <2>4
  <1> QED BY <1>4, <1>5

\* What _next_frame says of a frame whose head is not before the place it looks from.
LEMMA NextIs ==
    ASSUME wrapped \in BOOLEAN, read \in Nat, NEW p \in Int, NEW f \in 1..N, p <= Head1(f)
    PROVE  IF NextFrame(p) = 0 THEN read <= Head1(f) ELSE NextFrame(p) <= f
  BY NextFrameIs DEF FirstFrom

\* When take_frames leaves a frame at the front, only an overrunning length field keeps one whose
\* QTP header has been stripped from being cut.
LEMMA LeftLeaves ==
    ASSUME wrapped \in BOOLEAN, read \in Nat, read <= Length, NEW got, FrontIs(pos, got),
           NEW p \in StripsTo, NextFrame(p) # 0 => FrameEnd(NextFrame(p)) = 0
    PROVE  FrontIs(p, got)
  <1>1. /\ p \in Int /\ pos <= p /\ p <= read + 1
        /\ MissingBehind(p, got) /\ TornHeader(p, got)
        /\ UnwrappedFront(p, got) /\ GotBehind(p, got)
    BY StripLeaves
  <1>2. p \in 1..read + 1
    <2>1. pos \in 1..read + 1
      BY DEF FrontIs
    <2> QED BY ONLY <2>1, <1>1, read \in Nat
  <1>3. BareHead(p)
    <2> SUFFICES ASSUME NEW f \in 1..N, wrapped, p = Head1(f), ~Overran(p) PROVE FALSE
      BY DEF BareHead
    <2>1. Last1(f) <= read
      BY StripLeaves
    <2>2. /\ Head1(f) \in Nat /\ Last1(f) \in Nat /\ Head1(f) < Last1(f)
          /\ Overrun[f] \in Nat /\ f \in Nat
      BY Place
    <2>3. Overrun[f] = 0
      <3>1. ~(Overrun[f] > 0)
        BY <2>2 DEF Overran
      <3> QED BY ONLY <3>1, <2>2
    <2>4. Ready(f, read)
      BY <2>1, <2>3 DEF Ready
    <2>5. FrameEnd(f) # 0
      BY <2>4, FrameEndIs
    <2>6. NextFrame(p) # 0 /\ NextFrame(p) <= f
      <3>1. IF NextFrame(p) = 0 THEN read <= Head1(f) ELSE NextFrame(p) <= f
        BY <1>1, <2>2, NextIs
      <3> QED BY ONLY <3>1, <2>1, <2>2, read \in Nat
    <2>7. NextFrame(p) \in 1..N /\ p <= Head1(NextFrame(p))
      BY <1>1, <2>6, NextFrameIs DEF FirstFrom
    <2>8. NextFrame(p) < f => /\ Last1(NextFrame(p)) + Gap < Head1(f)
                              /\ Head1(NextFrame(p)) < Last1(NextFrame(p))
      BY <2>7, Apart, Place
    <2>9. /\ Last1(NextFrame(p)) \in Nat /\ Head1(NextFrame(p)) \in Nat
          /\ NextFrame(p) \in Nat /\ Gap \in {0, 2}
      BY <2>7, Place, GapIs
    <2>10. NextFrame(p) = f
      BY ONLY <2>2, <2>6, <2>7, <2>8, <2>9, p = Head1(f)
    <2> QED BY <2>5, <2>6, <2>10
  <1> QED BY <1>1, <1>2, <1>3 DEF FrontIs

\* A buffer without a head is trimmed to less than a head and its QTP header: the frame before
\* any head that is touched was not cut.
LEMMA TrimMisses ==
    ASSUME wrapped \in BOOLEAN, read \in Nat, read <= Length, NEW got, FrontIs(pos, got),
           NEW p \in StripsTo, NextFrame(p) = 0, read + 1 - p > Trim,
           NEW f \in 1..N, read <= Head1(f), Head1(f) <= read + 2
    PROVE  MayMiss(f, p, got)
  <1>1. /\ p \in Int /\ pos <= p /\ p <= read - 3
        /\ MissingBehind(p, got) /\ GotBehind(p, got)
    <2>1. /\ p \in Int /\ pos <= p /\ MissingBehind(p, got) /\ GotBehind(p, got)
      BY StripLeaves
    <2>2. Trim \in Nat /\ Trim >= 3 /\ read + 1 - p > Trim
      OBVIOUS
    <2>3. p <= read - 3
      BY ONLY <2>1, <2>2, read \in Nat
    <2> QED BY <2>1, <2>3
  <1>2. pos \in Int /\ 1 <= pos /\ Gap \in {0, 2} /\ Head1(1) = Gap + 1
    BY GapIs, Ends DEF FrontIs
  <1>3. f > 1
    <2>1. f # 1
      BY <1>1, <1>2
    <2> QED BY <2>1
  <1>4. f - 1 \in 1..N /\ Head1(f) = Last1(f - 1) + Gap + 1
    BY <1>3, Behind
  <1>5. Last1(f - 1) \in Nat /\ Head1(f - 1) \in Nat /\ Head1(f - 1) < Last1(f - 1)
    BY <1>4, Place
  <1>6. f - 1 \notin got
    <2>1. p <= Last1(f - 1)
      BY ONLY <1>1, <1>2, <1>4, <1>5, read \in Nat, read <= Head1(f)
    <2> QED BY <2>1, <1>1, <1>4, NotGot
  <1>7. wrapped => Overran(p)
    <2> SUFFICES ASSUME wrapped PROVE Overran(p)
      OBVIOUS
    <2>1. Gap = 2
      BY GapIs
    <2>2. Head1(f - 1) < read
      BY ONLY <1>4, <1>5, <2>1, read \in Nat, Head1(f) <= read + 2
    <2>3. ~(p <= Head1(f - 1))
      <3> SUFFICES ASSUME p <= Head1(f - 1) PROVE FALSE
        OBVIOUS
      <3>1. read <= Head1(f - 1)
        BY <1>1, <1>4, NextIs
      <3> QED BY ONLY <3>1, <2>2, <1>5, read \in Nat
    <2>4. Head1(f - 1) < p
      BY ONLY <2>3, <1>1, <1>5
    <2>5. MayMiss(f - 1, p, got)
      BY <2>4, <1>1, <1>4, <1>6 DEF MissingBehind
    <2> QED BY <2>5 DEF MayMiss
  <1> QED BY <1>3, <1>6, <1>7 DEF MayMiss

LEMMA TrimLeaves ==
    ASSUME wrapped \in BOOLEAN, read \in Nat, read <= Length, NEW got, FrontIs(pos, got),
           NEW p \in StripsTo, NextFrame(p) = 0, read + 1 - p > Trim, NEW q \in TrimsTo
    PROVE  FrontIs(q, got) /\ q \in read - 1..read + 1
  <1>1. /\ p \in Int /\ pos <= p /\ MissingBehind(p, got) /\ UnwrappedFront(p, got)
        /\ GotBehind(p, got)
    BY StripLeaves
  <1>2. p <= read - 3
    <2>1. Trim \in Nat /\ Trim >= 3 /\ read + 1 - p > Trim
      OBVIOUS
    <2> QED BY ONLY <2>1, <1>1, read \in Nat
  <1>3. pos \in Int /\ 1 <= pos
    BY DEF FrontIs
  <1>4. q \in read - 1..read + 1
    BY DEF TrimsTo
  <1>5. q \in Int /\ p <= q /\ q \in 1..read + 1
    BY ONLY <1>1, <1>2, <1>3, <1>4, read \in Nat
  <1>6. ASSUME NEW f \in 1..N, read <= Head1(f), Head1(f) <= read + 2
        PROVE  MayMiss(f, q, got)
    <2>1. MayMiss(f, p, got)
      BY <1>6, TrimMisses
    <2> QED BY <2>1, <1>1, <1>5, Further
  <1>7. ASSUME NEW f \in 1..N
        PROVE  Head1(f) \in Nat /\ (p <= Head1(f) => read <= Head1(f))
    BY <1>1, Place, NextIs
  <1>8. MissingBehind(q, got)
    <2> SUFFICES ASSUME NEW f \in 1..N, Head1(f) < q, f \notin got
                 PROVE  MayMiss(f, q, got)
      BY DEF MissingBehind
    <2>1. CASE Head1(f) < p
      <3>1. MayMiss(f, p, got)
        BY <2>1, <1>1 DEF MissingBehind
      <3> QED BY <3>1, <1>1, <1>5, Further
    <2>2. CASE p <= Head1(f)
      <3>1. read <= Head1(f) /\ Head1(f) \in Nat
        BY <2>2, <1>7
      <3>2. Head1(f) <= read + 2
        BY ONLY <3>1, <1>4, Head1(f) < q, read \in Nat
      <3> QED BY <3>1, <3>2, <1>6
    <2> QED BY <2>1, <2>2, <1>1, <1>7
  <1>9. TornHeader(q, got)
    <2> SUFFICES ASSUME NEW f \in 1..N, wrapped, q = Head1(f) - 1
                 PROVE  MayMiss(f, q, got)
      BY DEF TornHeader
    <2>1. Head1(f) \in Nat
      BY <1>7
    <2>2. read <= Head1(f) /\ Head1(f) <= read + 2
      BY ONLY <2>1, <1>4, q = Head1(f) - 1, read \in Nat
    <2> QED BY <2>2, <1>6
  <1>10. BareHead(q)
    <2> SUFFICES ASSUME NEW f \in 1..N, wrapped, q = Head1(f)
                 PROVE  Overran(q)
      BY DEF BareHead
    <2>1. Head1(f) \in Nat /\ p <= Head1(f)
      BY <1>5, <1>7
    <2>2. read <= Head1(f) /\ Head1(f) <= read + 2
      <3>1. read <= Head1(f)
        BY <2>1, <1>7
      <3> QED BY ONLY <3>1, <2>1, <1>4, q = Head1(f), read \in Nat
    <2>3. MayMiss(f, q, got)
      BY <2>2, <1>6
    <2> QED BY <2>3 DEF MayMiss
  <1>11. UnwrappedFront(q, got)
    <2> SUFFICES ASSUME ~wrapped PROVE Lossy(q, got)
      BY DEF UnwrappedFront
    <2>1. ~HeadAt(p)
      <3> SUFFICES ASSUME NEW f \in 1..N, p = Head1(f) PROVE FALSE
        BY DEF HeadAt
      <3>1. p <= Head1(f)
        BY <1>1
      <3>2. read <= Head1(f)
        BY <3>1, <1>7
      <3> QED BY ONLY <3>2, <1>1, <1>2, p = Head1(f), read \in Nat
    <2>2. p # Length + 1
      <3>1. Length \in Nat
        BY Ends
      <3> QED BY ONLY <3>1, <1>1, <1>2, read \in Nat, read <= Length
    <2>3. Lossy(p, got)
      BY <2>1, <2>2, <1>1 DEF UnwrappedFront
    <2> QED BY <2>3, <1>1, <1>5, Further, 1 \in 1..N
  <1>12. GotBehind(q, got)
    BY <1>1, <1>5, Further, 1 \in 1..N
  <1> QED BY <1>4, <1>5, <1>8, <1>9, <1>10, <1>11, <1>12 DEF FrontIs

\* A cut frame is gone whole, and what is then at the front is the next frame, unless the
\* length field ended in its QTP header or head.
LEMMA CutLeaves ==
    ASSUME wrapped \in BOOLEAN, read \in Nat, read <= Length, NEW got, FrontIs(pos, got),
           NEW p \in StripsTo, NEW f, f = NextFrame(p), f # 0,
           NEW e, e = FrameEnd(f), e # 0
    PROVE  /\ f \in 1..N /\ f \notin got /\ pos <= Head1(f)
           /\ EndIs(f, e) /\ e \in Nat /\ pos <= e
           /\ \A g \in 1..f : Ready(g, read)
           /\ f < N => f + 1 \notin got \cup {f}
           /\ FrontIs(e + 1, got \cup {f})
  <1>1. /\ p \in Int /\ pos <= p
        /\ MissingBehind(p, got) /\ GotBehind(p, got)
    BY StripLeaves
  <1>2. pos \in Int /\ 1 <= pos /\ N \in Nat
    BY DEF FrontIs
  <1>3. /\ f \in 1..N /\ p <= Head1(f) /\ Head1(f) < read
        /\ \A g \in 1..N : p <= Head1(g) => f <= g
    <2>1. FirstFrom(p, f)
      BY <1>1, NextFrameIs
    <2> QED BY <2>1 DEF FirstFrom
  <1>4. e \in Nat /\ Ready(f, read) /\ EndIs(f, e)
    BY <1>3, FrameEndIs
  <1>5. /\ f \in Nat /\ Head1(f) \in Nat /\ Last1(f) \in Nat /\ Head1(f) < Last1(f)
        /\ f <= N /\ Overrun[f] \in Nat /\ Gap \in {0, 2} /\ 0 < f
    BY <1>3, Place, GapIs
  <1>6. /\ Last1(f) <= e /\ e <= read
        /\ \/ e = CutAt(f)
           \/ f < N /\ e = Head1(f + 1) /\ Overrun[f] = Gap + 1
    BY <1>4 DEF EndIs
  <1>7. f < N => /\ f + 1 \in 1..N /\ Head1(f + 1) = Last1(f) + Gap + 1
                 /\ Head1(f + 1) \in Nat /\ Last1(f + 1) \in Nat
                 /\ Head1(f + 1) < Last1(f + 1)
    <2> SUFFICES ASSUME f < N
                 PROVE  /\ f + 1 \in 1..N /\ Head1(f + 1) = Last1(f) + Gap + 1
                        /\ Head1(f + 1) \in Nat /\ Last1(f + 1) \in Nat
                        /\ Head1(f + 1) < Last1(f + 1)
      OBVIOUS
    <2>1. f + 1 \in 1..N /\ f + 1 > 1 /\ (f + 1) - 1 = f
      BY <1>5, <1>2
    <2>2. Head1(f + 1) = Last1((f + 1) - 1) + Gap + 1
      BY <2>1, Behind
    <2> QED BY <2>1, <2>2, Place
  <1>8. CutAt(f) = Last1(f) + (IF Overrun[f] <= Gap THEN Overrun[f] ELSE Gap)
    BY DEF CutAt
  <1>9. pos <= Head1(f) /\ pos <= e
    BY ONLY <1>1, <1>2, <1>3, <1>4, <1>5, <1>6
  <1>10. f \notin got
    <2>1. p <= Last1(f)
      BY ONLY <1>1, <1>3, <1>5
    <2> QED BY <2>1, <1>1, <1>3, NotGot
  <1>11. f < N => f + 1 \notin got \cup {f}
    <2> SUFFICES ASSUME f < N PROVE f + 1 \notin got \cup {f}
      OBVIOUS
    <2>1. p <= Last1(f + 1) /\ f + 1 # f
      BY ONLY <1>1, <1>3, <1>5, <1>7, f < N
    <2>2. f + 1 \notin got
      BY <2>1, <1>1, <1>7, NotGot
    <2> QED BY <2>1, <2>2
  <1>12. ASSUME NEW g \in 1..f
         PROVE  Ready(g, read)
    <2>1. CASE g = f
      BY <2>1, <1>4
    <2>2. CASE g # f
      <3>1. g \in 1..N /\ g + 1 \in 1..N /\ g < f /\ g \in Nat /\ g < N /\ g + 1 <= f
        BY ONLY <2>2, <1>5, <1>2, g \in 1..f
      <3>2. /\ Last1(g) \in Nat /\ Head1(g + 1) \in Nat /\ Last1(g + 1) \in Nat
            /\ Head1(g + 1) < Last1(g + 1)
        BY <3>1, Place
      <3>3. Last1(g) + Gap < Head1(f)
        BY <3>1, <1>3, Apart
      <3>4. g + 1 < f => Last1(g + 1) + Gap < Head1(f)
        BY <3>1, <1>3, Apart
      <3>5. g + 1 = f => Head1(g + 1) = Head1(f)
        OBVIOUS
      <3>6. Head1(g + 1) < read /\ Last1(g) <= read
        BY ONLY <3>1, <3>2, <3>3, <3>4, <3>5, <1>3, <1>5, read \in Nat
      <3> QED BY <3>1, <3>6 DEF Ready
    <2> QED BY <2>1, <2>2
  <1> DEFINE q == e + 1
             all == got \cup {f}
  <1>13. q \in Int /\ pos <= q /\ p <= q /\ q \in 1..read + 1
    BY ONLY <1>1, <1>2, <1>3, <1>4, <1>5, <1>6, read \in Nat
  <1>14. Head1(f) <= q /\ Last1(f) < q
    BY ONLY <1>4, <1>5, <1>6
  <1>15. Overrun[f] > 0 => Overran(q)
    BY <1>3, <1>14 DEF Overran
  <1>16. GotBehind(q, all)
    <2>1. GotBehind(q, got)
      BY <1>1, <1>3, <1>13, Further
    <2> QED BY <2>1, <1>14 DEF GotBehind
  <1>17. ASSUME NEW g \in 1..N
         PROVE  /\ g \in Nat /\ Head1(g) \in Nat /\ Last1(g) \in Nat
                /\ g < f => Last1(g) + Gap < Head1(f) /\ Head1(g) < Last1(g)
                /\ f < g => f < N
                /\ f + 1 < g => Last1(f + 1) + Gap < Head1(g)
                /\ f + 1 = g => Head1(f + 1) = Head1(g)
                /\ f = g => Head1(f) = Head1(g)
    <2>1. g \in Nat /\ Head1(g) \in Nat /\ Last1(g) \in Nat /\ Head1(g) < Last1(g) /\ g <= N
      BY Place
    <2>2. g < f => Last1(g) + Gap < Head1(f)
      BY <1>3, Apart
    <2>3. f < g => f < N
      BY ONLY <2>1, <1>2, <1>5
    <2>4. f + 1 < g => Last1(f + 1) + Gap < Head1(g)
      <3>1. f + 1 < g => f + 1 \in 1..N
        BY ONLY <2>1, <1>2, <1>5
      <3> QED BY <3>1, Apart
    <2> QED BY <2>1, <2>2, <2>3, <2>4
  <1>18. ASSUME NEW g \in 1..N, g = f + 1, EndsInHead(f), Overrun[f] > 0, NEW t, t \in Int, q <= t
         PROVE  MayMiss(g, t, all)
    <2>1. g > 1 /\ g - 1 = f
      BY <1>5, <1>18
    <2>2. Overran(t)
      BY <1>3, <1>13, <1>15, <1>18, Further
    <2> QED BY <2>1, <2>2, <1>18 DEF MayMiss
  <1>19. MissingBehind(q, all)
    <2> SUFFICES ASSUME NEW g \in 1..N, Head1(g) < q, g \notin all
                 PROVE  MayMiss(g, q, all)
      BY DEF MissingBehind
    <2>1. g # f /\ g \notin got
      OBVIOUS
    <2>2. CASE g < f
      <3>1. ~(f <= g)
        BY ONLY <2>2, <1>5, <1>17
      <3>2. ~(p <= Head1(g))
        BY <3>1, <1>3
      <3>3. Head1(g) < p
        BY ONLY <3>2, <1>1, <1>17
      <3>4. MayMiss(g, q, got)
        <4>1. MayMiss(g, p, got)
          BY <3>3, <2>1, <1>1 DEF MissingBehind
        <4> QED BY <4>1, <1>1, <1>13, Further
      <3>5. g - 1 # f
        BY ONLY <2>2, <1>5, <1>17
      <3> QED BY <3>4, <3>5 DEF MayMiss
    <2>3. CASE f < g
      <3>1. f < N /\ f + 1 <= g
        BY ONLY <2>3, <1>5, <1>17
      <3>2. Head1(f + 1) <= Head1(g)
        BY ONLY <3>1, <1>5, <1>7, <1>17
      <3>3. Head1(g) <= e
        BY ONLY <1>4, <1>17, Head1(g) < e + 1
      <3>4. e # CutAt(f)
        BY ONLY <3>1, <3>2, <3>3, <1>4, <1>5, <1>7, <1>8, <1>17
      <3>5. e = Head1(f + 1) /\ Overrun[f] = Gap + 1
        BY ONLY <3>4, <1>6
      <3>6. g = f + 1
        BY ONLY <3>1, <3>3, <3>5, <1>5, <1>7, <1>17
      <3>7. EndsInHead(f) /\ Overrun[f] > 0
        BY <3>5, <1>5 DEF EndsInHead
      <3>8. q <= q
        BY <1>13
      <3> QED BY <3>6, <3>7, <3>8, <1>13, <1>18
    <2> QED BY ONLY <2>1, <2>2, <2>3, <1>5, <1>17
  <1>20. ASSUME NEW g \in 1..N, wrapped, q = Head1(g) - 1 \/ q = Head1(g)
         PROVE  /\ g = f + 1
                /\ q = Head1(g) - 1 => Overrun[f] = 1
                /\ q = Head1(g) => Overrun[f] >= 2
    <2>1. Gap = 2
      BY <1>20, GapIs
    <2>2. f < g
      BY ONLY <1>4, <1>5, <1>6, <1>14, <1>17, <1>20, <2>1
    <2>3. f < N /\ f + 1 <= g
      BY ONLY <2>2, <1>5, <1>17
    <2>4. e <= Head1(f + 1)
      BY ONLY <2>1, <2>3, <1>4, <1>5, <1>6, <1>7, <1>8
    <2>5. g = f + 1
      BY ONLY <2>1, <2>3, <2>4, <1>4, <1>5, <1>7, <1>17, <1>20
    <2>6. Head1(g) = Last1(f) + 3
      BY ONLY <2>1, <2>3, <2>5, <1>5, <1>7, <1>17
    <2>7. e = CutAt(f)
      BY ONLY <2>1, <2>3, <2>6, <1>4, <1>5, <1>6, <1>7, <1>20, <1>17
    <2>8. e = Last1(f) + (IF Overrun[f] <= 2 THEN Overrun[f] ELSE 2)
      BY ONLY <2>1, <2>7, <1>8
    <2> QED BY ONLY <2>5, <2>6, <2>8, <1>5, <1>4, <1>20, <1>17
  <1>21. TornHeader(q, all)
    <2> SUFFICES ASSUME NEW g \in 1..N, wrapped, q = Head1(g) - 1
                 PROVE  MayMiss(g, q, all)
      BY DEF TornHeader
    <2>1. g = f + 1 /\ Overrun[f] = 1
      BY <1>20
    <2>2. EndsInHead(f) /\ Overrun[f] > 0
      BY <2>1 DEF EndsInHead
    <2>3. q <= q
      BY <1>13
    <2> QED BY <2>1, <2>2, <2>3, <1>13, <1>18
  <1>22. BareHead(q)
    <2> SUFFICES ASSUME NEW g \in 1..N, wrapped, q = Head1(g)
                 PROVE  Overran(q)
      BY DEF BareHead
    <2>1. Overrun[f] >= 2
      BY <1>20
    <2> QED BY <2>1, <1>5, <1>15
  <1>23. UnwrappedFront(q, all)
    <2> SUFFICES ASSUME ~wrapped PROVE HeadAt(q) \/ q = Length + 1 \/ Lossy(q, all)
      BY DEF UnwrappedFront
    <2>1. Gap = 0
      BY GapIs
    <2>2. CASE e = CutAt(f)
      <3>1. e = Last1(f)
        BY ONLY <2>1, <2>2, <1>5, <1>8
      <3>2. CASE f = N
        BY <3>1, <3>2, <1>3, Ends
      <3>3. CASE f < N
        <4>1. q = Head1(f + 1)
          BY ONLY <2>1, <3>1, <3>3, <1>5, <1>7
        <4> QED BY <4>1, <3>3, <1>7 DEF HeadAt
      <3> QED BY ONLY <3>2, <3>3, <1>2, <1>5
    <2>3. CASE f < N /\ e = Head1(f + 1)
      <3>1. Head1(f + 1) < q
        BY ONLY <2>3, <1>4
      <3> QED BY <2>3, <3>1, <1>7, <1>11 DEF Lossy
    <2> QED BY <2>2, <2>3, <1>6
  <1>24. FrontIs(q, all)
    BY <1>13, <1>16, <1>19, <1>21, <1>22, <1>23 DEF FrontIs
  <1> QED BY <1>3, <1>4, <1>9, <1>10, <1>11, <1>12, <1>24

(***************************************************************************)
(* The inductive invariant: what the front is, that each cut was right and *)
(* each cut frame had arrived, that none has between two drains which the  *)
(* front has not passed, and what is known of the framing.                 *)
(***************************************************************************)

CutRight(x, p, got) ==
    /\ x[1] \in 1..N
    /\ x[2] < p
    /\ \/ x[2] = CutAt(x[1])
       \/ x[2] = Head1(x[1] + 1) /\ EndsInHead(x[1]) /\ x[1] + 1 \notin got

CutsRight == \A i \in DOMAIN Cut : CutRight(Cut[i], pos, Got)

CutsRise == \A i, j \in DOMAIN Cut : i < j => Cut[i][1] < Cut[j][1]

GotArrived == \A f \in Got : f \in 1..N /\ Arrived(f)

NoneArrived ==
    ~taking /\ at # "parse" => \A f \in 1..N : pos <= Head1(f) => ~Arrived(f)

LoginWaits ==
    /\ at \in LoginPc => out = <<>>
    /\ at \in LoginPc /\ ~taking => \A f \in Got : f < Answer
    /\ at = "drain" => ~taking

FramingFits ==
    /\ framed /\ ~wrapped =>
          Lossy(pos, Got) \/ (~taking /\ at \in {"qtp", "drain"} /\ \A f \in Got : f < Answer)
    /\ wrapped /\ ~framed => (at = "raw" /\ ~taking /\ ~heard) \/ Overran(pos)

RelayInv ==
    /\ RelayTypeOK
    /\ FrontIs(pos, Got)
    /\ CutsRight /\ CutsRise /\ GotArrived /\ NoneArrived
    /\ LoginWaits /\ FramingFits

LEMMA RelayFacts ==
    ASSUME RelayInv
    PROVE  /\ wrapped \in BOOLEAN /\ framed \in BOOLEAN /\ heard \in BOOLEAN /\ taking \in BOOLEAN
           /\ read \in Nat /\ read <= Length /\ Length \in Nat
           /\ pos \in Nat /\ 1 <= pos /\ pos <= read + 1
           /\ FrontIs(pos, Got)
           /\ at \in {"raw", "qtp", "drain", "parse"}
           /\ Cut \in Seq((1..N) \X (1..Length))
  <1>1. RelayTypeOK /\ FrontIs(pos, Got)
    BY DEF RelayInv
  <1>2. Length \in Nat
    BY <1>1, Ends DEF RelayTypeOK
  <1>3. read \in Nat /\ read <= Length
    BY <1>1, <1>2 DEF RelayTypeOK
  <1>4. pos \in Nat /\ 1 <= pos /\ pos <= read + 1
    BY <1>1, <1>3 DEF FrontIs
  <1>5. Cut \in Seq((1..N) \X (1..Length))
    <2> DEFINE S == (1..N) \X (1..Length)
    <2>1. lost \in Seq(S) /\ out \in Seq(S)
      BY <1>1 DEF RelayTypeOK
    <2> HIDE DEF S
    <2>2. lost \o out \in Seq(S)
      BY <2>1
    <2> QED BY <2>2 DEF Cut, S
  <1> QED BY <1>1, <1>2, <1>3, <1>4, <1>5 DEF RelayTypeOK

LEMMA InitRelayInv == RelayInit => RelayInv
  <1> SUFFICES ASSUME RelayInit PROVE RelayInv
    OBVIOUS
  <1> USE DEF RelayInit
  <1>1. /\ wrapped \in BOOLEAN /\ framed = FALSE /\ at = "raw" /\ taking = FALSE
        /\ read = 0 /\ pos = 1 /\ heard = ~wrapped /\ out = <<>> /\ lost = <<>>
    OBVIOUS
  <1> USE DEF RelayInit
  <1>2. Length \in Nat /\ Head1(1) = Gap + 1
    BY <1>1, Ends
  <1>3. Cut = <<>> /\ Got = {}
    <2>1. Cut = <<>>
      BY <1>1 DEF Cut
    <2> QED BY <2>1 DEF Got
  <1> HIDE DEF RelayInit
  <1>4. RelayTypeOK
    <2>1. read \in 0..Length /\ pos \in 1..Length + 1
      BY <1>1, <1>2
    <2>2. out \in Seq((1..N) \X (1..Length)) /\ lost \in Seq((1..N) \X (1..Length))
      BY <1>1
    <2>3. heard \in BOOLEAN
      BY <1>1
    <2> QED BY <1>1, <2>1, <2>2, <2>3 DEF RelayTypeOK
  <1>5. ASSUME NEW f \in 1..N
        PROVE  /\ Head1(f) \in Nat /\ Gap < Head1(f) /\ Gap \in {0, 2} /\ (wrapped => Gap = 2)
               /\ 0 < Last1(f) /\ Last1(f) \in Nat
    <2>1. /\ Head1(f) \in Nat /\ Last1(f) \in Nat /\ Gap < Head1(f) /\ Head1(f) < Last1(f)
      BY <1>1, Place
    <2>2. Gap \in {0, 2} /\ (wrapped => Gap = 2)
      BY <1>1, GapIs
    <2> QED BY <2>1, <2>2
  <1>6. FrontIs(pos, Got)
    <2>1. pos \in 1..read + 1
      BY <1>1
    <2>2. \A f \in 1..N : ~(Head1(f) < pos) /\ (wrapped => pos # Head1(f) - 1 /\ pos # Head1(f))
      BY <1>1, <1>5
    <2>3. MissingBehind(pos, Got) /\ TornHeader(pos, Got) /\ BareHead(pos)
      BY <2>2 DEF MissingBehind, TornHeader, BareHead
    <2>4. UnwrappedFront(pos, Got)
      <3> SUFFICES ASSUME ~wrapped PROVE HeadAt(pos)
        BY DEF UnwrappedFront
      <3>1. pos = Head1(1) /\ 1 \in 1..N
        BY <1>1, <1>2, GapIs
      <3> QED BY <3>1 DEF HeadAt
    <2>5. GotBehind(pos, Got)
      BY <1>3 DEF GotBehind
    <2> QED BY <2>1, <2>3, <2>4, <2>5 DEF FrontIs
  <1>7. CutsRight /\ CutsRise /\ GotArrived
    BY <1>3 DEF CutsRight, CutsRise, GotArrived
  <1>8. NoneArrived
    <2> SUFFICES ASSUME NEW f \in 1..N PROVE ~Arrived(f)
      BY DEF NoneArrived
    <2>1. f \in 1..f
      OBVIOUS
    <2>2. ~Ready(f, read)
      BY <1>1, <1>5 DEF Ready
    <2> QED BY <2>1, <2>2 DEF Arrived
  <1>9. LoginWaits
    BY <1>1, <1>3 DEF LoginWaits
  <1>10. FramingFits
    BY <1>1 DEF FramingFits
  <1> QED BY <1>4, <1>6, <1>7, <1>8, <1>9, <1>10 DEF RelayInv

\* The places depend on nothing but whether the relay wraps its frames.
LEMMA SameLayout ==
    ASSUME wrapped' = wrapped
    PROVE  /\ Length' = Length /\ Gap' = Gap
           /\ \A f \in 1..N : /\ Head1(f)' = Head1(f) /\ Last1(f)' = Last1(f)
                              /\ CutAt(f)' = CutAt(f)
           /\ \A f : EndsInHead(f)' = EndsInHead(f)
           /\ \A f : Head1(f + 1)' = Head1(f + 1)
           /\ \A f : Ready(f, read)' = Ready(f, read')
  BY DEF Head1, Last1, CutAt, Ready, Length, EndsInHead, Gap

\* ... so that what is said of a front can be said of the one after a step.
LEMMA SameFront ==
    ASSUME wrapped' = wrapped, NEW p, NEW got, pos' = p, Got' = got, p \in 1..read' + 1,
           MissingBehind(p, got), TornHeader(p, got), BareHead(p),
           UnwrappedFront(p, got), GotBehind(p, got)
    PROVE  FrontIs(pos, Got)'
  <1>1. \A f \in 1..N : Head1(f)' = Head1(f) /\ Last1(f)' = Last1(f)
    BY SameLayout
  <1>2. \A f : EndsInHead(f)' = EndsInHead(f)
    BY SameLayout
  <1>3. Overran(pos)' = Overran(p)
    BY <1>1 DEF Overran
  <1>4. \A f \in 1..N : MayMiss(f, pos, Got)' = MayMiss(f, p, got)
    BY <1>2, <1>3 DEF MayMiss
  <1>5. MissingBehind(pos, Got)' /\ TornHeader(pos, Got)'
    BY <1>1, <1>4 DEF MissingBehind, TornHeader
  <1>6. BareHead(pos)'
    BY <1>1, <1>3 DEF BareHead
  <1>7. UnwrappedFront(pos, Got)'
    <2>1. Lossy(pos, Got)' = Lossy(p, got)
      BY <1>1 DEF Lossy
    <2>2. HeadAt(pos)' = HeadAt(p)
      BY <1>1 DEF HeadAt
    <2>3. Length' = Length
      BY SameLayout
    <2> QED BY <2>1, <2>2, <2>3 DEF UnwrappedFront
  <1>8. GotBehind(pos, Got)'
    BY <1>1 DEF GotBehind
  <1> QED BY <1>5, <1>6, <1>7, <1>8 DEF FrontIs

\* What has been cut stays cut, and what has arrived stays here.
LEMMA SameCuts ==
    ASSUME RelayInv, wrapped' = wrapped, out' = out, lost' = lost,
           pos' \in Nat, pos <= pos', read' \in Nat, read <= read'
    PROVE  /\ Cut' = Cut /\ Got' = Got
           /\ CutsRight' /\ CutsRise' /\ GotArrived'
           /\ Lossy(pos, Got) => Lossy(pos, Got)'
           /\ Overran(pos) => Overran(pos)'
  <1>1. Cut' = Cut /\ Got' = Got
    BY DEF Cut, Got
  <1>2. read \in Nat /\ pos \in Nat /\ wrapped \in BOOLEAN
    BY RelayFacts
  <1>3. CutsRise'
    BY <1>1 DEF RelayInv, CutsRise
  <1>4. \A f \in 1..N : Head1(f)' = Head1(f) /\ Last1(f)' = Last1(f) /\ Head1(f) \in Nat
    BY <1>2, SameLayout, Place
  <1>5. CutsRight'
    <2> SUFFICES ASSUME NEW i \in DOMAIN Cut PROVE CutRight(Cut[i], pos, Got)'
      BY <1>1 DEF CutsRight
    <2>1. CutRight(Cut[i], pos, Got)
      BY DEF RelayInv, CutsRight
    <2>2. /\ CutAt(Cut[i][1])' = CutAt(Cut[i][1])
          /\ EndsInHead(Cut[i][1])' = EndsInHead(Cut[i][1])
          /\ Head1(Cut[i][1] + 1)' = Head1(Cut[i][1] + 1)
      BY <2>1, <1>1, SameLayout DEF CutRight
    <2>3. Cut[i][2] \in Int
      BY RelayFacts
    <2>4. Cut[i][2] < pos'
      BY <2>1, <2>3, <1>2 DEF CutRight
    <2> QED BY <2>1, <2>2, <2>4, <1>1 DEF CutRight
  <1>6. GotArrived'
    <2> SUFFICES ASSUME NEW f \in Got PROVE f \in 1..N /\ \A g \in 1..f : Ready(g, read')
      BY <1>1, SameLayout DEF GotArrived, Arrived
    <2>1. f \in 1..N /\ \A g \in 1..f : Ready(g, read)
      BY DEF RelayInv, GotArrived, Arrived
    <2>2. ASSUME NEW g \in 1..f
          PROVE  Ready(g, read')
      <3>1. g \in 1..N /\ (g < N => g + 1 \in 1..N)
        BY <2>1
      <3>2. Last1(g) \in Nat /\ Overrun[g] \in Nat /\ (g < N => Head1(g + 1) \in Nat)
        BY <3>1, <1>2, Place
      <3>3. Ready(g, read)
        BY <2>1
      <3> QED BY ONLY <3>2, <3>3, <1>2, read' \in Nat, read <= read' DEF Ready
    <2> QED BY <2>1, <2>2
  <1>7. Lossy(pos, Got) => Lossy(pos, Got)'
    BY <1>1, <1>2, <1>4 DEF Lossy
  <1>8. Overran(pos) => Overran(pos)'
    BY <1>1, <1>2, <1>4 DEF Overran
  <1> QED BY <1>1, <1>3, <1>5, <1>6, <1>7, <1>8

\* A chunk leaves the front alone, but the framing is guessed anew.
LEMMA ChunkKeeps ==
    ASSUME RelayInv, Chunk, ~taking, at' \in {"raw", "qtp", "parse"}, taking' \in BOOLEAN,
           taking' \/ at' = "parse", at \in {"qtp", "drain", "parse"} \/ heard,
           at' \in LoginPc => at \in LoginPc
    PROVE  RelayInv'
  <1>1. PICK r \in read + 1..Length : read' = r /\ framed' \in Detected(r)
    BY DEF Chunk
  <1>2. UNCHANGED <<wrapped, pos, heard, out, lost>>
    BY DEF Chunk
  <1>3. /\ wrapped \in BOOLEAN /\ framed \in BOOLEAN /\ heard \in BOOLEAN
        /\ read \in Nat /\ Length \in Nat /\ pos \in Nat /\ 1 <= pos /\ pos <= read + 1
        /\ FrontIs(pos, Got)
    BY RelayFacts
  <1>4. r \in Nat /\ read < r /\ r <= Length /\ pos <= r
    BY ONLY <1>3, r \in read + 1..Length
  <1>5. /\ Cut' = Cut /\ Got' = Got
        /\ CutsRight' /\ CutsRise' /\ GotArrived'
        /\ Lossy(pos, Got) => Lossy(pos, Got)'
        /\ Overran(pos) => Overran(pos)'
    <2>1. pos' \in Nat /\ pos <= pos' /\ read' \in Nat /\ read <= read'
      BY <1>1, <1>2, <1>3, <1>4
    <2> QED BY <2>1, <1>2, SameCuts
  <1>6. RelayTypeOK'
    <2>1. Length' = Length /\ read' \in 0..Length /\ pos' \in 1..Length + 1
      BY <1>1, <1>2, <1>3, <1>4, SameLayout
    <2>2. /\ at' \in {"raw", "qtp", "drain", "parse"} /\ wrapped' \in BOOLEAN /\ heard' \in BOOLEAN
          /\ framed' \in BOOLEAN
      BY <1>1, <1>2, <1>3 DEF Detected
    <2>3. /\ out' \in Seq((1..N) \X (1..Length)) /\ lost' \in Seq((1..N) \X (1..Length))
      BY <1>2 DEF RelayInv, RelayTypeOK
    <2> QED BY <2>1, <2>2, <2>3 DEF RelayTypeOK
  <1>7. FrontIs(pos, Got)'
    <2>1. /\ MissingBehind(pos, Got) /\ TornHeader(pos, Got) /\ BareHead(pos)
          /\ UnwrappedFront(pos, Got) /\ GotBehind(pos, Got)
      BY <1>3 DEF FrontIs
    <2>2. pos \in 1..read' + 1
      BY <1>1, <1>3, <1>4
    <2> QED BY <2>1, <2>2, <1>2, <1>5, SameFront
  <1>8. NoneArrived'
    BY DEF NoneArrived
  <1>9. LoginWaits'
    <2>1. at' \in LoginPc => out' = <<>> /\ taking'
      BY <1>2 DEF RelayInv, LoginWaits, LoginPc
    <2>2. at' # "drain"
      OBVIOUS
    <2> QED BY <2>1, <2>2 DEF LoginWaits
  <1>10. FramingFits'
    <2>1. CASE ~wrapped
      <3> SUFFICES ASSUME framed' PROVE Lossy(pos, Got)'
        BY <2>1, <1>2 DEF FramingFits
      <3>1. ~HeadAt(pos)
        BY <1>1, <1>4 DEF Detected
      <3>2. pos # Length + 1
        BY <1>3, <1>4
      <3>3. Lossy(pos, Got)
        BY <3>1, <3>2, <2>1, <1>3 DEF FrontIs, UnwrappedFront
      <3> QED BY <3>3, <1>5
    <2>2. CASE wrapped
      <3> SUFFICES ASSUME ~framed' PROVE Overran(pos)
        BY <2>2, <1>2, <1>5 DEF FramingFits
      <3>1. CASE HeadAt(pos)
        BY <3>1, <2>2, <1>3 DEF FrontIs, BareHead, HeadAt
      <3>2. CASE ~HeadAt(pos)
        <4>1. ~framed
          BY <3>2, <2>2, <1>1, <1>3 DEF Detected
        <4>2. ~(at = "raw" /\ ~taking /\ ~heard)
          OBVIOUS
        <4> QED BY <4>1, <4>2, <2>2 DEF RelayInv, FramingFits
      <3> QED BY <3>1, <3>2
    <2> QED BY <2>1, <2>2, <1>3
  <1> QED BY <1>5, <1>6, <1>7, <1>8, <1>9, <1>10 DEF RelayInv

\* What the cuts are after another one.
LEMMA OneMore ==
    ASSUME RelayInv, NEW x \in (1..N) \X (1..Length),
           IF at \in LoginPc THEN lost' = Append(lost, x) /\ out' = out
                             ELSE out' = Append(out, x) /\ lost' = lost
    PROVE  /\ Cut' = Append(Cut, x)
           /\ lost' \in Seq((1..N) \X (1..Length)) /\ out' \in Seq((1..N) \X (1..Length))
           /\ Got' = Got \cup {x[1]}
  <1> DEFINE S == (1..N) \X (1..Length)
  <1>1. lost \in Seq(S) /\ out \in Seq(S) /\ Cut \in Seq(S) /\ x \in S
    BY RelayFacts DEF RelayInv, RelayTypeOK
  <1>2. at \in LoginPc => out = <<>>
    BY DEF RelayInv, LoginWaits
  <1> HIDE DEF S
  <1>3. lost' \in Seq(S) /\ out' \in Seq(S)
    <2>1. Append(lost, x) \in Seq(S) /\ Append(out, x) \in Seq(S)
      BY <1>1
    <2> QED BY <2>1, <1>1
  <1>4. Cut' = Append(Cut, x)
    <2>1. CASE at \in LoginPc
      <3>1. Cut = lost /\ Cut' = Append(lost, x)
        BY <2>1, <1>1, <1>2 DEF Cut
      <3> QED BY <3>1
    <2>2. CASE at \notin LoginPc
      <3>1. Cut' = lost \o Append(out, x)
        BY <2>2 DEF Cut
      <3>2. lost \o Append(out, x) = Append(lost \o out, x)
        BY <1>1, SMTT(30)
      <3> QED BY <3>1, <3>2 DEF Cut
    <2> QED BY <2>1, <2>2
  <1>5. Got' = Got \cup {x[1]}
    <2>1. /\ DOMAIN Cut' = 1..Len(Cut) + 1 /\ DOMAIN Cut = 1..Len(Cut) /\ Len(Cut) \in Nat
          /\ Cut'[Len(Cut) + 1] = x /\ \A i \in 1..Len(Cut) : Cut'[i] = Cut[i]
      BY <1>1, <1>4
    <2>2. Got' = {Cut'[i][1] : i \in DOMAIN Cut'} /\ Got = {Cut[i][1] : i \in DOMAIN Cut}
      BY DEF Got
    <2>3. 1..Len(Cut) + 1 = (1..Len(Cut)) \cup {Len(Cut) + 1}
      BY <2>1
    <2>4. ASSUME NEW g
          PROVE  g \in Got' <=> g \in Got \/ g = x[1]
      <3>1. g \in Got' <=> \E i \in 1..Len(Cut) + 1 : g = Cut'[i][1]
        BY <2>1, <2>2, ZenonT(30)
      <3>2. g \in Got <=> \E i \in 1..Len(Cut) : g = Cut'[i][1]
        BY <2>1, <2>2, ZenonT(30)
      <3>3. x[1] = Cut'[Len(Cut) + 1][1]
        BY <2>1
      <3> QED BY ONLY <2>3, <3>1, <3>2, <3>3
    <2> QED BY <2>4
  <1> QED BY <1>3, <1>4, <1>5 DEF S

\* The frame that is cut is behind all that were cut before.
LEMMA CutsFrameKeeps ==
    ASSUME RelayInv, CutsFrame
    PROVE  RelayInv'
  <1>1. PICK p \in StripsTo :
            /\ NextFrame(p) # 0 /\ FrameEnd(NextFrame(p)) # 0
            /\ pos' = FrameEnd(NextFrame(p)) + 1
            /\ IF at \in LoginPc
               THEN lost' = Append(lost, <<NextFrame(p), FrameEnd(NextFrame(p))>>) /\ out' = out
               ELSE out' = Append(out, <<NextFrame(p), FrameEnd(NextFrame(p))>>) /\ lost' = lost
    BY DEF CutsFrame
  <1> DEFINE f == NextFrame(p)
             e == FrameEnd(f)
             x == <<f, e>>
  <1>2. (taking \/ at = "parse") /\ taking' = TRUE /\ UNCHANGED <<wrapped, framed, at, read, heard>>
    BY DEF CutsFrame
  <1>3. /\ wrapped \in BOOLEAN /\ framed \in BOOLEAN /\ heard \in BOOLEAN
        /\ read \in Nat /\ read <= Length /\ Length \in Nat
        /\ pos \in Nat /\ 1 <= pos /\ pos <= read + 1
        /\ FrontIs(pos, Got) /\ Cut \in Seq((1..N) \X (1..Length))
    BY RelayFacts
  <1>4. /\ f \in 1..N /\ f \notin Got /\ pos <= Head1(f)
        /\ EndIs(f, e) /\ e \in Nat /\ pos <= e
        /\ \A g \in 1..f : Ready(g, read)
        /\ f < N => f + 1 \notin Got \cup {f}
        /\ FrontIs(e + 1, Got \cup {f})
    BY <1>1, <1>3, CutLeaves
  <1> HIDE DEF f, e
  <1>5. e <= read /\ x \in (1..N) \X (1..Length) /\ x[1] = f /\ x[2] = e
    <2>1. e <= read
      BY <1>4 DEF EndIs
    <2>2. e \in 1..Length
      BY ONLY <2>1, <1>3, <1>4
    <2> QED BY <2>1, <2>2, <1>4
  <1>6. pos' = e + 1
        /\ IF at \in LoginPc THEN lost' = Append(lost, x) /\ out' = out
                             ELSE out' = Append(out, x) /\ lost' = lost
    BY <1>1 DEF f, e
  <1>7. /\ Cut' = Append(Cut, x) /\ Got' = Got \cup {f}
        /\ lost' \in Seq((1..N) \X (1..Length)) /\ out' \in Seq((1..N) \X (1..Length))
    <2> HIDE DEF x
    <2> QED BY <1>5, <1>6, OneMore
  <1>8. RelayTypeOK'
    <2>1. pos' \in 1..Length + 1 /\ Length' = Length
      BY <1>2, <1>3, <1>4, <1>5, <1>6, SameLayout
    <2> QED BY <2>1, <1>2, <1>7 DEF RelayInv, RelayTypeOK
  <1>9. FrontIs(pos, Got)'
    <2>1. /\ e + 1 \in 1..read + 1
          /\ MissingBehind(e + 1, Got \cup {f}) /\ TornHeader(e + 1, Got \cup {f})
          /\ BareHead(e + 1) /\ UnwrappedFront(e + 1, Got \cup {f})
          /\ GotBehind(e + 1, Got \cup {f})
      BY <1>4 DEF FrontIs
    <2> QED BY <2>1, <1>2, <1>6, <1>7, SameFront
  <1> DEFINE n == Len(Cut)
  <1>10. /\ DOMAIN Cut' = 1..n + 1 /\ DOMAIN Cut = 1..n /\ n \in Nat
         /\ Cut'[n + 1] = x /\ \A i \in 1..n : Cut'[i] = Cut[i]
    <2> HIDE DEF x
    <2> QED BY <1>3, <1>5, <1>7
  <1> HIDE DEF n
  <1>11. ASSUME NEW i \in 1..n
         PROVE  /\ Cut[i][1] \in 1..N /\ Cut[i][1] \in Nat /\ Cut[i][2] \in Int
                /\ Cut[i][1] < f /\ Cut[i][1] \in Got
                /\ CutRight(Cut[i], pos, Got)
    <2>1. CutRight(Cut[i], pos, Got)
      BY <1>10 DEF RelayInv, CutsRight
    <2>2. Cut[i] \in (1..N) \X (1..Length)
      BY <1>3, <1>10
    <2>3. Cut[i][1] \in Got
      BY <1>10 DEF Got
    <2> DEFINE c == Cut[i][1]
    <2>4. c \in 1..N /\ c \in Got /\ Cut[i][2] \in Int
      BY <2>2, <2>3, <1>3
    <2> HIDE DEF c
    <2>5. Last1(c) < pos
      BY <2>4, <1>3 DEF FrontIs, GotBehind
    <2>6. f < c => Last1(f) + Gap < Head1(c)
      BY <2>4, <1>3, <1>4, Apart
    <2>7. c \in Nat /\ Head1(c) \in Nat /\ Last1(c) \in Nat /\ Head1(c) < Last1(c)
      BY <2>4, <1>3, Place
    <2>8. f \in Nat /\ Head1(f) \in Nat /\ Last1(f) \in Nat /\ Head1(f) < Last1(f) /\ Gap \in {0, 2}
      BY <1>3, <1>4, Place, GapIs
    <2>9. f = c => Last1(f) = Last1(c)
      OBVIOUS
    <2>10. c < f
      BY ONLY <2>5, <2>6, <2>7, <2>8, <2>9, <1>3, <1>4
    <2> QED BY <2>1, <2>4, <2>7, <2>10, Zenon DEF c
  <1>12. CutsRise'
    <2> SUFFICES ASSUME NEW i \in 1..n + 1, NEW j \in 1..n + 1, i < j
                 PROVE  Cut'[i][1] < Cut'[j][1]
      BY <1>10 DEF CutsRise
    <2>1. i \in 1..n /\ Cut'[i] = Cut[i]
      BY <1>10
    <2>2. CASE j = n + 1
      BY <2>1, <2>2, <1>5, <1>10, <1>11
    <2>3. CASE j \in 1..n
      BY <2>1, <2>3, <1>10 DEF RelayInv, CutsRise
    <2>4. j \in 1..n \/ j = n + 1
      BY <1>10
    <2> QED BY <2>2, <2>3, <2>4
  <1>13. CutsRight'
    <2> SUFFICES ASSUME NEW i \in 1..n + 1
                 PROVE  CutRight(Cut[i], pos, Got)'
      BY <1>10 DEF CutsRight
    <2>1. \A g : EndsInHead(g)' = EndsInHead(g) /\ Head1(g + 1)' = Head1(g + 1)
      BY <1>2, SameLayout
    <2>2. \A g \in 1..N : CutAt(g)' = CutAt(g)
      BY <1>2, SameLayout
    <2>3. CASE i \in 1..n
      <3>1. /\ Cut'[i] = Cut[i] /\ Cut[i][1] \in 1..N /\ Cut[i][1] \in Nat
            /\ Cut[i][2] \in Int /\ Cut[i][1] < f /\ CutRight(Cut[i], pos, Got)
        BY <2>3, <1>10, <1>11
      <3>2. Cut[i][2] < pos'
        <4>1. Cut[i][2] < pos
          BY <3>1 DEF CutRight
        <4> QED BY ONLY <4>1, <3>1, <1>3, <1>4, <1>6
      <3>3. \/ Cut[i][2] = CutAt(Cut[i][1])
            \/ /\ Cut[i][2] = Head1(Cut[i][1] + 1) /\ EndsInHead(Cut[i][1])
               /\ Cut[i][1] + 1 \notin Got'
        <4>1. Cut[i][2] = Head1(f) => ~(Cut[i][2] < pos)
          BY <1>4, <3>1, <1>3
        <4>2. Cut[i][1] + 1 = f => Head1(Cut[i][1] + 1) = Head1(f)
          OBVIOUS
        <4> QED BY <3>1, <4>1, <4>2, <1>7 DEF CutRight
      <3> QED BY <3>1, <3>2, <3>3, <2>1, <2>2 DEF CutRight
    <2>4. CASE i = n + 1
      <3>1. Cut'[i] = x /\ e < pos'
        BY <2>4, <1>4, <1>6, <1>10
      <3>2. \/ e = CutAt(f)
            \/ e = Head1(f + 1) /\ EndsInHead(f) /\ f + 1 \notin Got'
        BY <1>4, <1>7 DEF EndIs, EndsInHead
      <3> QED BY <3>1, <3>2, <2>1, <2>2, <1>4, <1>5 DEF CutRight
    <2> QED BY <2>3, <2>4, <1>10
  <1>14. GotArrived'
    <2> SUFFICES ASSUME NEW g \in Got \cup {f}
                 PROVE  g \in 1..N /\ \A h \in 1..g : Ready(h, read)
      BY <1>2, <1>7, SameLayout DEF GotArrived, Arrived
    <2>1. CASE g \in Got
      BY <2>1 DEF RelayInv, GotArrived, Arrived
    <2>2. CASE g = f
      BY <2>2, <1>4
    <2> QED BY <2>1, <2>2
  <1>15. NoneArrived'
    BY <1>2 DEF NoneArrived
  <1>16. LoginWaits'
    <2>1. at' \in LoginPc => out' = <<>>
      BY <1>2, <1>6 DEF RelayInv, LoginWaits
    <2>2. at' # "drain"
      BY <1>2 DEF RelayInv, LoginWaits
    <2> QED BY <2>1, <2>2, <1>2 DEF LoginWaits
  <1>17. FramingFits'
    <2>1. ~wrapped /\ framed => Lossy(pos, Got)
      BY <1>2 DEF RelayInv, FramingFits
    <2>2. wrapped /\ ~framed => Overran(pos)
      BY <1>2 DEF RelayInv, FramingFits
    <2>3. \A g \in 1..N : Head1(g)' = Head1(g) /\ Head1(g) \in Nat
      BY <1>2, <1>3, SameLayout, Place
    <2>4. Overran(pos) => Overran(pos)'
      BY <2>3, <1>3, <1>4, <1>6 DEF Overran
    <2>5. Lossy(pos, Got) => Lossy(pos, Got)'
      <3> SUFFICES ASSUME NEW g \in 1..N, Head1(g) < pos, g \notin Got
                   PROVE  Head1(g) < pos' /\ g \notin Got'
        BY <2>3 DEF Lossy
      <3>1. g # f
        BY <2>3, <1>3, <1>4
      <3>2. Head1(g) < pos'
        BY ONLY <2>3, <1>3, <1>4, <1>6, Head1(g) < pos, g \in 1..N
      <3> QED BY <3>1, <3>2, <1>7
    <2> QED BY <2>1, <2>2, <2>4, <2>5, <1>2 DEF FramingFits
  <1> QED BY <1>8, <1>9, <1>12, <1>13, <1>14, <1>15, <1>16, <1>17 DEF RelayInv

\* When no frame is left that can be cut, none behind the front has arrived.
LEMMA NoFrameLeftKeeps ==
    ASSUME RelayInv, NoFrameLeft
    PROVE  RelayInv'
  <1>1. PICK p \in StripsTo :
            /\ NextFrame(p) # 0 => FrameEnd(NextFrame(p)) = 0
            /\ pos' \in IF NextFrame(p) = 0 /\ read + 1 - p > Trim THEN TrimsTo ELSE {p}
    BY DEF NoFrameLeft
  <1> DEFINE f == NextFrame(p)
  <1>2. /\ taking \/ at = "parse"
        /\ taking' = FALSE
        /\ UNCHANGED <<wrapped, framed, read, heard, out, lost>>
        /\ at' = IF at = "parse" \/ \E i \in DOMAIN lost : lost[i][1] >= Answer THEN "drain" ELSE at
    BY DEF NoFrameLeft
  <1>3. /\ wrapped \in BOOLEAN /\ read \in Nat /\ read <= Length /\ Length \in Nat
        /\ pos \in Nat /\ 1 <= pos /\ FrontIs(pos, Got)
    BY RelayFacts
  <1>4. p \in Int /\ pos <= p
    BY <1>3, StripLeaves
  <1>5. /\ FrontIs(pos', Got) /\ p <= pos' /\ pos' \in Int
        /\ f = 0 => p <= pos'
        /\ f # 0 => pos' = p
    <2>1. CASE f = 0 /\ read + 1 - p > Trim
      <3>1. pos' \in TrimsTo
        BY <1>1, <2>1
      <3>2. FrontIs(pos', Got) /\ pos' \in read - 1..read + 1
        BY <2>1, <3>1, <1>3, TrimLeaves
      <3>3. Trim \in Nat /\ Trim >= 3 /\ read + 1 - p > Trim
        BY <2>1
      <3>4. p <= pos' /\ pos' \in Int
        BY ONLY <3>2, <3>3, <1>3, <1>4
      <3> QED BY <2>1, <3>2, <3>4
    <2>2. CASE ~(f = 0 /\ read + 1 - p > Trim)
      <3>1. pos' = p
        BY <1>1, <2>2
      <3>2. FrontIs(p, Got)
        BY <1>1, <1>3, LeftLeaves
      <3> QED BY <3>1, <3>2, <1>4
    <2> QED BY <2>1, <2>2
  <1>6. ASSUME NEW g \in 1..N, pos' <= Head1(g)
        PROVE  ~Arrived(g)
    <2>1. /\ g \in Nat /\ Head1(g) \in Nat /\ Last1(g) \in Nat /\ Head1(g) < Last1(g)
      BY <1>3, Place
    <2>2. p <= Head1(g)
      BY ONLY <2>1, <1>4, <1>5, <1>6
    <2>3. IF f = 0 THEN read <= Head1(g) ELSE f <= g
      BY <2>2, <1>3, <1>4, NextIs
    <2>4. CASE f = 0
      <3>1. ~(Last1(g) <= read)
        BY ONLY <2>1, <2>3, <2>4, <1>3
      <3>2. ~Ready(g, read) /\ g \in 1..g
        BY <3>1, <2>1 DEF Ready
      <3> QED BY <3>2 DEF Arrived
    <2>5. CASE f # 0
      <3>1. f \in 1..N
        BY <2>5, <1>3, <1>4, NextFrameIs DEF FirstFrom
      <3>2. ~Ready(f, read)
        <4>1. FrameEnd(f) = 0
          BY <2>5, <1>1
        <4> HIDE DEF f
        <4> QED BY <4>1, <3>1, <1>3, FrameEndIs
      <3>3. f \in 1..g
        BY ONLY <3>1, <2>1, <2>3, <2>5
      <3> QED BY <3>2, <3>3 DEF Arrived
    <2> QED BY <2>4, <2>5
  <1> HIDE DEF f
  <1>7. pos' \in Nat /\ pos <= pos' /\ pos' \in 1..read + 1 /\ read' = read
    <2>1. pos' \in 1..read + 1
      BY <1>5 DEF FrontIs
    <2> QED BY ONLY <2>1, <1>2, <1>3, <1>4, <1>5
  <1>8. /\ Cut' = Cut /\ Got' = Got
        /\ CutsRight' /\ CutsRise' /\ GotArrived'
        /\ Lossy(pos, Got) => Lossy(pos, Got)'
        /\ Overran(pos) => Overran(pos)'
    <2>1. read' \in Nat /\ read <= read'
      BY <1>3, <1>7
    <2> QED BY <2>1, <1>2, <1>7, SameCuts
  <1>9. RelayTypeOK'
    <2>1. pos' \in 1..Length + 1 /\ Length' = Length
      BY <1>2, <1>3, <1>7, SameLayout
    <2>2. at' \in {"raw", "qtp", "drain", "parse"}
      BY <1>2 DEF RelayInv, RelayTypeOK
    <2> QED BY <2>1, <2>2, <1>2 DEF RelayInv, RelayTypeOK
  <1>10. FrontIs(pos, Got)'
    <2>1. /\ MissingBehind(pos', Got) /\ TornHeader(pos', Got) /\ BareHead(pos')
          /\ UnwrappedFront(pos', Got) /\ GotBehind(pos', Got)
      BY <1>5 DEF FrontIs
    <2> QED BY <2>1, <1>2, <1>7, <1>8, SameFront
  <1>11. NoneArrived'
    <2> SUFFICES ASSUME NEW g \in 1..N, pos' <= Head1(g)'
                 PROVE  ~Arrived(g)'
      BY DEF NoneArrived
    <2>1. Head1(g)' = Head1(g) /\ Arrived(g)' = Arrived(g)
      BY <1>2, SameLayout DEF Arrived
    <2> QED BY <2>1, <1>6
  <1>12. LoginWaits'
    <2>1. at' \in LoginPc => at \in LoginPc /\ ~\E i \in DOMAIN lost : lost[i][1] >= Answer
      BY <1>2 DEF LoginPc
    <2>2. at \in LoginPc => out = <<>>
      BY DEF RelayInv, LoginWaits
    <2>3. ASSUME at' \in LoginPc, NEW g \in Got
          PROVE  g < Answer
      <3>1. Cut = lost
        <4>1. lost \in Seq((1..N) \X (1..Length))
          BY DEF RelayInv, RelayTypeOK
        <4> QED BY <4>1, <2>1, <2>2, <2>3 DEF Cut
      <3>2. PICK i \in DOMAIN lost : g = lost[i][1]
        BY <3>1 DEF Got
      <3>3. ~(g >= Answer)
        BY <3>2, <2>1, <2>3
      <3>4. g \in 1..N /\ Answer \in 1..N
        BY DEF RelayInv, GotArrived
      <3> QED BY ONLY <3>3, <3>4
    <2> QED BY <2>1, <2>2, <2>3, <1>2, <1>8 DEF LoginWaits
  <1>13. FramingFits'
    <2>1. ~wrapped /\ framed => Lossy(pos, Got)
      BY <1>2 DEF RelayInv, FramingFits
    <2>2. wrapped /\ ~framed => Overran(pos)
      BY <1>2 DEF RelayInv, FramingFits
    <2> QED BY <2>1, <2>2, <1>2, <1>8 DEF FramingFits
  <1> QED BY <1>8, <1>9, <1>10, <1>11, <1>12, <1>13 DEF RelayInv

\* A step that takes nothing from the stream keeps what is said of its front.
LEMMA SameRelay ==
    ASSUME RelayInv, UNCHANGED <<wrapped, read, pos, out, lost>>
    PROVE  /\ Got' = Got
           /\ FrontIs(pos, Got)' /\ CutsRight' /\ CutsRise' /\ GotArrived'
           /\ Lossy(pos, Got)' = Lossy(pos, Got) /\ Overran(pos)' = Overran(pos)
           /\ \A f \in 1..N : Head1(f)' = Head1(f) /\ Arrived(f)' = Arrived(f)
  <1>1. pos \in Nat /\ read \in Nat /\ FrontIs(pos, Got)
    BY RelayFacts
  <1>2. pos' \in Nat /\ pos <= pos' /\ read' \in Nat /\ read <= read'
    BY <1>1
  <1>3. Got' = Got /\ CutsRight' /\ CutsRise' /\ GotArrived'
    BY <1>2, SameCuts
  <1>4. \A f \in 1..N : Head1(f)' = Head1(f) /\ Arrived(f)' = Arrived(f)
    BY SameLayout DEF Arrived
  <1>5. FrontIs(pos, Got)'
    <2>1. /\ pos \in 1..read' + 1
          /\ MissingBehind(pos, Got) /\ TornHeader(pos, Got) /\ BareHead(pos)
          /\ UnwrappedFront(pos, Got) /\ GotBehind(pos, Got)
      BY <1>1 DEF FrontIs
    <2> QED BY <2>1, <1>3, SameFront
  <1>6. Lossy(pos, Got)' = Lossy(pos, Got) /\ Overran(pos)' = Overran(pos)
    BY <1>3, <1>4 DEF Lossy, Overran
  <1> QED BY <1>3, <1>4, <1>5, <1>6

\* The second login guesses the other framing.
LEMMA LoginTimesOutKeeps ==
    ASSUME RelayInv, LoginTimesOut
    PROVE  RelayInv'
  <1>1. /\ ~taking /\ UNCHANGED <<wrapped, taking, read, pos, out, lost>>
        /\ \/ at = "raw" /\ at' = "qtp" /\ framed' = TRUE /\ heard' = TRUE
           \/ at = "qtp" /\ at' = "drain" /\ framed' = framed /\ heard' = heard
    BY DEF LoginTimesOut
  <1>2. /\ Got' = Got
        /\ FrontIs(pos, Got)' /\ CutsRight' /\ CutsRise' /\ GotArrived'
        /\ Lossy(pos, Got)' = Lossy(pos, Got) /\ Overran(pos)' = Overran(pos)
        /\ \A f \in 1..N : Head1(f)' = Head1(f) /\ Arrived(f)' = Arrived(f)
    BY <1>1, SameRelay
  <1>3. out = <<>> /\ \A f \in Got : f < Answer
    BY <1>1 DEF RelayInv, LoginWaits, LoginPc
  <1>4. RelayTypeOK'
    <2>1. framed' \in BOOLEAN /\ heard' \in BOOLEAN
      BY <1>1 DEF RelayInv, RelayTypeOK
    <2>2. Length' = Length
      BY <1>1, SameLayout
    <2> QED BY <2>1, <2>2, <1>1 DEF RelayInv, RelayTypeOK
  <1>5. NoneArrived'
    BY <1>1, <1>2 DEF RelayInv, NoneArrived
  <1>6. LoginWaits'
    BY <1>1, <1>2, <1>3 DEF LoginWaits, LoginPc
  <1>7. FramingFits'
    <2>1. wrapped /\ ~framed /\ at = "qtp" => Overran(pos)
      BY DEF RelayInv, FramingFits
    <2> QED BY <2>1, <1>1, <1>2, <1>3 DEF FramingFits
  <1> QED BY <1>2, <1>4, <1>5, <1>6, <1>7 DEF RelayInv

\* Every step keeps the invariant.
LEMMA NextRelayInv ==
    ASSUME RelayInv, [RelayNext]_relayVars
    PROVE  RelayInv'
  <1>1. CASE AwaitLogin
    <2>1. /\ at \in {"raw", "qtp"} /\ ~taking /\ heard /\ taking' = TRUE /\ at' = at
          /\ Chunk
      BY <1>1 DEF AwaitLogin, LoginPc
    <2> QED BY <2>1, ChunkKeeps DEF LoginPc
  <1>2. CASE DrainChunk
    <2>1. /\ at \in {"drain", "parse"} /\ ~taking /\ taking' = FALSE /\ at' = "parse"
          /\ Chunk
      BY <1>2 DEF DrainChunk, RelayInv, RelayTypeOK
    <2> QED BY <2>1, ChunkKeeps DEF LoginPc
  <1>3. CASE LoginTimesOut
    BY <1>3, LoginTimesOutKeeps
  <1>4. CASE CutsFrame
    BY <1>4, CutsFrameKeeps
  <1>5. CASE NoFrameLeft
    BY <1>5, NoFrameLeftKeeps
  <1>6. CASE UNCHANGED relayVars
    <2>1. UNCHANGED <<wrapped, framed, at, taking, read, pos, heard, out, lost>>
      BY <1>6 DEF relayVars
    <2>2. /\ Got' = Got
          /\ FrontIs(pos, Got)' /\ CutsRight' /\ CutsRise' /\ GotArrived'
          /\ Lossy(pos, Got)' = Lossy(pos, Got) /\ Overran(pos)' = Overran(pos)
          /\ \A f \in 1..N : Head1(f)' = Head1(f) /\ Arrived(f)' = Arrived(f)
      BY <2>1, SameRelay
    <2>3. RelayTypeOK'
      <3>1. Length' = Length
        BY <2>1, SameLayout
      <3> QED BY <2>1, <3>1 DEF RelayInv, RelayTypeOK
    <2>4. NoneArrived' /\ LoginWaits' /\ FramingFits'
      BY <2>1, <2>2 DEF RelayInv, NoneArrived, LoginWaits, FramingFits, LoginPc
    <2> QED BY <2>2, <2>3, <2>4 DEF RelayInv
  <1> QED BY <1>1, <1>2, <1>3, <1>4, <1>5, <1>6 DEF RelayNext

\* The strengthening is inductive, for any frames, chunks and time-outs of the login.
THEOREM RelayInvariance == RelaySpec => []RelayInv
  <1>1. RelayInit => RelayInv
    BY InitRelayInv
  <1>2. RelayInv /\ [RelayNext]_relayVars => RelayInv'
    BY NextRelayInv
  <1> QED BY <1>1, <1>2, PTL DEF RelaySpec

\* Between two drains the frames that have arrived have been cut, in order, at most once each and
\* at their ends, however TCP cuts the stream and the login ends.  The only ones missing are
\* behind a length field that ends in their QTP header or head, or behind another missing one
\* (take_frames, _next_frame, _strip_qtp).
THEOREM RelayFramesAsSent == RelaySpec => []FramesAsSent
  <1>1. ASSUME RelayInv
        PROVE  FramesAsSent
    <2> SUFFICES ASSUME at = "drain"
                 PROVE  /\ CutsRise
                        /\ \A i \in DOMAIN Cut :
                            \/ Cut[i][2] = CutAt(Cut[i][1])
                            \/ /\ Cut[i][2] = Head1(Cut[i][1] + 1) /\ EndsInHead(Cut[i][1])
                               /\ Cut[i][1] + 1 \notin Got
                        /\ \A f \in Got : Arrived(f)
                        /\ \A f \in 1..N : Arrived(f) /\ f \notin Got =>
                            f > 1 /\ (f - 1 \in Got => EndsInHead(f - 1))
      BY DEF FramesAsSent, CutsRise
    <2>1. CutsRise /\ CutsRight /\ \A f \in Got : Arrived(f)
      BY <1>1 DEF RelayInv, GotArrived
    <2>2. ASSUME NEW f \in 1..N, Arrived(f), f \notin Got
          PROVE  f > 1 /\ (f - 1 \in Got => EndsInHead(f - 1))
      <3>1. wrapped \in BOOLEAN /\ pos \in Nat /\ FrontIs(pos, Got)
        BY <1>1, RelayFacts
      <3>2. Head1(f) \in Nat
        BY <3>1, Place
      <3>3. ~(pos <= Head1(f))
        BY <1>1, <2>2 DEF RelayInv, NoneArrived, LoginWaits
      <3>4. Head1(f) < pos
        BY ONLY <3>1, <3>2, <3>3
      <3>5. MayMiss(f, pos, Got)
        BY <3>1, <3>4, <2>2 DEF FrontIs, MissingBehind
      <3> QED BY <3>5 DEF MayMiss
    <2> QED BY <2>1, <2>2 DEF CutsRight, CutRight
  <1> QED BY <1>1, RelayInvariance, PTL

\* A start goes out in the relay's framing, but before the relay has answered, behind a missing
\* frame, or after a wrapped frame whose length field overruns (_detect_framing, _wrap).
THEOREM RelayStartsUnderstood == RelaySpec => []StartsUnderstood
  <1>1. ASSUME RelayInv
        PROVE  StartsUnderstood
    <2> SUFFICES ASSUME at = "drain", framed # wrapped
                 PROVE  IF wrapped THEN Overran(pos)
                        ELSE (\A f \in Got : f < Answer) \/ Lossy(pos, Got)
      BY DEF StartsUnderstood, StartFraming, Overran, Lossy
    <2>1. wrapped \in BOOLEAN /\ framed \in BOOLEAN
      BY <1>1, RelayFacts
    <2>2. CASE wrapped
      BY <1>1, <2>1, <2>2 DEF RelayInv, FramingFits
    <2>3. CASE ~wrapped
      BY <1>1, <2>1, <2>3 DEF RelayInv, FramingFits
    <2> QED BY <2>2, <2>3
  <1> QED BY <1>1, RelayInvariance, PTL
=============================================================================
