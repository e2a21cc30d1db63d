---------------------------- MODULE QtpReassembly ----------------------------
(***************************************************************************)
(* Reassembly of the media stream that arrives over QTP/UDP: HubClient     *)
(* (custom_components/botslab/live/hub.py), absorb and take_frames.        *)
(*                                                                         *)
(* The relay sends datagrams 0, 1, 2, ... with consecutive 16-bit sequence *)
(* numbers; the network loses, reorders and duplicates them, and the relay *)
(* never sends one again.  A frame is a head datagram and the              *)
(* continuation datagrams after it, whose content is ciphertext.           *)
(*                                                                         *)
(* The byte stream of the code is here a sequence of datagrams, its byte   *)
(* offsets are counts of datagrams: frames and gaps begin and end at       *)
(* datagram boundaries (a head's 4-byte length prefix, which the code      *)
(* skips by its resync, counts with the head).  What the acknowledgements  *)
(* carry (peer_sn, _rcv_max) decides nothing here and is left out.         *)
(***************************************************************************)
EXTENDS Integers, Sequences, FiniteSets

CONSTANTS
    N,         \* datagrams sent
    Size,      \* [heads -> Nat]: the datagrams a frame declares
    Key,       \* the heads of keyframes (class 0x02)
    Spurious,  \* continuations whose ciphertext holds what reads as a frame head
    StartSn,   \* the sequence number of the first datagram
    SnMod,     \* 2^16: sequence numbers are reduced by it
    GapSkip,   \* _GAP_SKIP: datagrams piled up before a missing one is given up
    Capacity   \* the stream's length past which it is dropped when it has no head

Datagrams == 0..N-1
Looks == DOMAIN Size          \* datagrams that read as a frame head
Heads == Looks \ Spurious     \* those that are one

ASSUME SourceAssumption ==
    /\ N \in Nat /\ StartSn \in Nat /\ SnMod \in Nat \ {0}
    /\ GapSkip \in Nat /\ Capacity \in Nat
    /\ Size \in [Looks -> Nat \ {0}]
    /\ Looks \subseteq Datagrams /\ Key \subseteq Looks /\ Spurious \subseteq Looks

\* The frames as sent: each ends where it declares, before the next head.
ASSUME FramesAreApart ==
    \A h \in Heads : \A g \in Heads : h < g => h + Size[h] <= g

\* A datagram's sequence number on the wire.
Sn(d) == (StartSn + d) % SnMod

\* A stream whose numbers neither start at zero nor wrap, and whose ciphertext
\* never reads as a head.
Plain == StartSn > 0 /\ StartSn + N <= SnMod /\ Spurious = {}

VARIABLES
    rcvNxt,    \* _rcv_nxt: the last number of the stream so far, 0 before any
    seg,       \* _seg: the datagrams held back behind a missing one
    stream,    \* _stream: the datagrams in order, not yet split into frames
    gaps,      \* _gaps: the offsets in stream where missing datagrams were skipped
    parsing,   \* take_frames is running
    arrived,   \* history: the datagrams that have arrived
    taken,     \* history: the datagrams that have been in the stream
    emitted    \* history: the frames returned to the engine

vars == <<rcvNxt, seg, stream, gaps, parsing, arrived, taken, emitted>>

TypeOK ==
    /\ rcvNxt \in -1..SnMod
    /\ seg \in SUBSET Datagrams
    /\ stream \in Seq(Datagrams)
    /\ gaps \in SUBSET Nat
    /\ parsing \in BOOLEAN
    /\ arrived \in SUBSET Datagrams
    /\ taken \in SUBSET Datagrams
    /\ emitted \in Seq(Seq(Datagrams))

Init ==
    /\ rcvNxt = 0
    /\ seg = {}
    /\ stream = <<>>
    /\ gaps = {}
    /\ parsing = FALSE
    /\ arrived = {}
    /\ taken = {}
    /\ emitted = <<>>

-----------------------------------------------------------------------------
(* absorb: a data packet arrives.                                          *)

Sns(S) == {Sn(d) : d \in S}
IsLowest(S, n) == n \in Sns(S) /\ \A d \in S : n <= Sn(d)

\* _drain_ordered from a cursor to the last number reached without a hole.
DrainsTo(S, from, to) ==
    /\ from <= to
    /\ \A n \in from+1..to : n \in Sns(S)
    /\ to + 1 \notin Sns(S)

\* The datagrams a drain appends, and those it leaves.
Run(S, from, to) ==
    [i \in 1..to-from |-> CHOOSE d \in S : Sn(d) = from + i]
Rest(S, from, to) == {d \in S : Sn(d) \notin from+1..to}

\* Mutated form of Stale: the number before the next one counts as ahead.
StaleOffByOne(d) == rcvNxt # 0 /\ Sn(d) < rcvNxt

\* Mutated form of Stale: the next number counts as stale.
StaleNext(d) == rcvNxt # 0 /\ Sn(d) <= rcvNxt + 1

\* Mutated form of Stale: nothing is.
StaleNever(d) == FALSE

\* Not ahead of the cursor; before the first datagram nothing is stale.
Stale(d) == rcvNxt # 0 /\ Sn(d) <= rcvNxt

Cursors == -1..SnMod

\* The first number ever stored starts the stream.
StartsFrom(held, from) ==
    IF rcvNxt = 0 THEN IsLowest(held, from + 1) ELSE from = rcvNxt

\* Those left behind a missing number are few enough to wait for it.
Waits(rest, grown, to) ==
    /\ Cardinality(rest) <= GapSkip
    /\ rcvNxt' = to
    /\ seg' = rest
    /\ stream' = grown
    /\ UNCHANGED gaps

\* Mutated form of GivesUp: the place is not noted.
GivesUpUnmarked(rest, grown) ==
    /\ Cardinality(rest) > GapSkip
    /\ \E from, to \in Cursors :
        /\ IsLowest(rest, from + 1)
        /\ DrainsTo(rest, from, to)
        /\ rcvNxt' = to
        /\ seg' = Rest(rest, from, to)
        /\ stream' = grown \o Run(rest, from, to)
        /\ UNCHANGED gaps

\* They are too many: the missing numbers are given up, and the place is noted.
\* (The lowest number left is never the next one, so the code's test for that is
\* always true; and with at most GapSkip + 1 held its dump at 8192 is never
\* reached.)
GivesUp(rest, grown) ==
    /\ Cardinality(rest) > GapSkip
    /\ \E from, to \in Cursors :
        /\ IsLowest(rest, from + 1)
        /\ DrainsTo(rest, from, to)
        /\ rcvNxt' = to
        /\ seg' = Rest(rest, from, to)
        /\ stream' = grown \o Run(rest, from, to)
        /\ gaps' = gaps \cup {Len(grown)}

\* A datagram that is not stale is stored under its number (in place of one already
\* there), and what is then in order moves to the stream.
Absorb(d) ==
    /\ ~parsing
    /\ arrived' = arrived \cup {d}
    /\ UNCHANGED <<parsing, emitted>>
    /\ \/ Stale(d) /\ UNCHANGED <<rcvNxt, seg, stream, gaps, taken>>
       \/ /\ ~Stale(d)
          /\ LET held == {e \in seg : Sn(e) # Sn(d)} \cup {d}
             IN /\ \E from, to \in Cursors :
                    /\ StartsFrom(held, from)
                    /\ DrainsTo(held, from, to)
                    /\ LET rest == Rest(held, from, to)
                           grown == stream \o Run(held, from, to)
                       IN Waits(rest, grown, to) \/ GivesUp(rest, grown)
                /\ taken' = taken \cup (held \ seg')

-----------------------------------------------------------------------------
(* take_frames: one action per turn of its loop, or way out of it.  drain  *)
(* calls it once it has no more to read, and nothing is absorbed           *)
(* meanwhile.                                                              *)

TakeFrames ==
    /\ ~parsing
    /\ parsing' = TRUE
    /\ UNCHANGED <<rcvNxt, seg, stream, gaps, arrived, taken, emitted>>

\* Mutated form of Consume: the gaps stay where they are.
ConsumeUnshifted(k) ==
    /\ stream' = SubSeq(stream, k + 1, Len(stream))
    /\ gaps' = {g \in gaps : g > k}

\* _consume: drop k leading datagrams; a gap at the new start is forgotten.
Consume(k) ==
    /\ stream' = SubSeq(stream, k + 1, Len(stream))
    /\ gaps' = {g - k : g \in {h \in gaps : h > k}}

Continue == UNCHANGED <<rcvNxt, seg, parsing, arrived, taken>>
Break == parsing' = FALSE /\ UNCHANGED <<rcvNxt, seg, arrived, taken, emitted>>

OnHead == parsing /\ stream # <<>> /\ stream[1] \in Looks
Complete == Len(stream) >= Size[stream[1]]
Straddles == \E g \in gaps : 0 < g /\ g < Size[stream[1]]

\* Mutated form of IsNext: the search begins at the stream's first datagram.
IsNextOrFirst(i, S) ==
    /\ i \in 1..Len(stream)
    /\ stream[i] \in S
    /\ \A j \in 1..i-1 : stream[j] \notin S

\* The first datagram after the stream's first that is in S.
IsNext(i, S) ==
    /\ i \in 2..Len(stream)
    /\ stream[i] \in S
    /\ \A j \in 2..i-1 : stream[j] \notin S

EmitFrame ==
    /\ OnHead /\ Complete /\ ~Straddles
    /\ emitted' = Append(emitted, SubSeq(stream, 1, Size[stream[1]]))
    /\ Consume(Size[stream[1]])
    /\ Continue

\* Mutated form of ResyncToKeyframe: the damaged frame's length is skipped.
ResyncPastFrame ==
    /\ OnHead /\ Complete /\ Straddles
    /\ \E i \in DOMAIN stream : IsNext(i, Key)
    /\ Consume(Size[stream[1]])
    /\ Continue /\ UNCHANGED emitted

\* A frame with a gap inside is damaged: go on at the next keyframe, if there is one.
ResyncToKeyframe ==
    /\ OnHead /\ Complete /\ Straddles
    /\ \E i \in DOMAIN stream : IsNext(i, Key) /\ Consume(i - 1)
    /\ Continue /\ UNCHANGED emitted

\* Not on a head: go on at the next one.
ResyncToHead ==
    /\ parsing /\ stream # <<>> /\ ~OnHead
    /\ \E i \in DOMAIN stream : IsNext(i, Looks) /\ Consume(i - 1)
    /\ Continue /\ UNCHANGED emitted

\* The loop ends: nothing left, or the frame is still arriving, or it is damaged
\* and no keyframe has come, or there is no head, and then a stream that has grown
\* too long is dropped.
TakeFramesReturns ==
    /\ parsing
    /\ \/ stream = <<>> /\ UNCHANGED <<stream, gaps>>
       \/ OnHead /\ ~Complete /\ UNCHANGED <<stream, gaps>>
       \/ /\ OnHead /\ Complete /\ Straddles
          /\ \A i \in 2..Len(stream) : stream[i] \notin Key
          /\ UNCHANGED <<stream, gaps>>
       \/ /\ stream # <<>> /\ ~OnHead
          /\ \A i \in 2..Len(stream) : stream[i] \notin Looks
          /\ IF Len(stream) > Capacity
             THEN Consume(Len(stream))
             ELSE UNCHANGED <<stream, gaps>>
    /\ Break

Parse == EmitFrame \/ ResyncToKeyframe \/ ResyncToHead \/ TakeFramesReturns

Next == (\E d \in Datagrams : Absorb(d)) \/ TakeFrames \/ Parse

Spec == Init /\ [][Next]_vars

\* The engine thread runs take_frames to its end.
FairSpec == Spec /\ WF_vars(Parse)

-----------------------------------------------------------------------------
(* Properties.                                                             *)

\* A frame as it was sent.
Frame(h) == [i \in 1..Size[h] |-> h + i - 1]

\* What is held back is bounded, and always waits for a number that is missing:
\* a lost datagram stalls the stream for at most GapSkip others (absorb's loss
\* recovery).
WindowBounded ==
    /\ Cardinality(seg) <= GapSkip
    /\ \A d \in seg : Sn(d) > rcvNxt + 1

\* Any two datagrams of s are as far apart as they were sent, or a gap in g is noted
\* between them.
Marked(s, g) ==
    \A i, j \in 1..Len(s) :
        i < j => \/ s[j] = s[i] + (j - i)
                 \/ /\ s[j] > s[i] + (j - i)
                    /\ \E x \in g : i <= x /\ x < j

\* Where something is missing from the stream, _gaps says so, and what is there is
\* in the order it was sent and there once.
GapsRecorded == Marked(stream, gaps)

\* Only what is behind the stream is dropped: a datagram that has arrived is in
\* the stream, or waits, or is older than something that was in the stream
\* (absorb's comment on stale packets).
NothingNewIsDropped ==
    \A d \in arrived \ (seg \cup taken) : \E t \in taken : t > d

\* The engine gets frames exactly as they were sent: a frame with a hole, or one
\* put together of parts of others, never reaches the decoder (take_frames).
EmittedIntact ==
    \A i \in DOMAIN emitted :
        emitted[i][1] \in Heads /\ emitted[i] = Frame(emitted[i][1])

\* A keyframe whose datagrams all made it to the stream reaches the engine,
\* whatever was lost around it: it is emitted or still to be split off.
KeyframesSurvive ==
    \A h \in Key \cap Heads :
        (\A i \in 1..Size[h] : h + i - 1 \in taken)
        => \/ \E i \in DOMAIN emitted : emitted[i][1] = h
           \/ \E i \in DOMAIN stream : stream[i] = h

\* take_frames ends: every turn of its loop consumes something.
TakeFramesEnds == parsing ~> ~parsing

\* The cursor stands at the last datagram that was in the stream.
CursorAtLast ==
    /\ rcvNxt >= 0
    /\ rcvNxt = 0 => seg = {} /\ taken = {} /\ stream = <<>>
    /\ rcvNxt # 0 => \E t \in taken : Sn(t) = rcvNxt
    /\ \A t \in taken : Sn(t) <= rcvNxt
    /\ stream # <<>> => Sn(stream[Len(stream)]) = rcvNxt
    /\ \A g \in gaps : g <= Len(stream)

\* Frames are returned in the order they were sent, ahead of what is in the stream.
EmittedInOrder ==
    \A i \in DOMAIN emitted :
        /\ emitted[i] # <<>>
        /\ Sn(emitted[i][1]) <= rcvNxt
        /\ \A j \in DOMAIN stream : emitted[i][1] < stream[j]
        /\ \A j \in DOMAIN emitted : i < j => emitted[i][1] < emitted[j][1]

\* The inductive invariant of a plain stream.
IInv ==
    /\ TypeOK
    /\ CursorAtLast
    /\ WindowBounded
    /\ GapsRecorded
    /\ NothingNewIsDropped
    /\ EmittedIntact
    /\ EmittedInOrder

\* A gap is noted only where something is missing, and never at the stream's end.
GapsAreReal ==
    \A g \in gaps : g < Len(stream) /\ (0 < g => stream[g + 1] # stream[g] + 1)

\* Of the datagrams that have been in the stream, it still holds the latest ones.
StreamIsLatest ==
    stream # <<>> =>
        \A t \in taken : t >= stream[1] => \E i \in DOMAIN stream : stream[i] = t

\* The frame of h lacks a datagram that the cursor has passed.
LostForGood(h) ==
    \E i \in 1..Size[h] : h + i - 1 \notin taken /\ StartSn + h + i - 1 < rcvNxt

\* A keyframe's head that made it to the stream is there, or was returned, or was
\* dropped because its frame can never be whole.
KeyframesKept ==
    \A h \in Key \cap Heads : h \in taken =>
        \/ \E i \in DOMAIN emitted : emitted[i][1] = h
        \/ \E i \in DOMAIN stream : stream[i] = h
        \/ LostForGood(h)

\* What KeyframesSurvive needs beside IInv.
KInv == GapsAreReal /\ StreamIsLatest /\ KeyframesKept

\* The reassembly implements a lossy channel of whole frames.
Channel == INSTANCE FrameChannel WITH
    Frames <- Heads, Whole <- Frame, delivered <- emitted
ImplementsChannel == Channel!Spec
=============================================================================
