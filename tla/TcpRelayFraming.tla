--------------------------- MODULE TcpRelayFraming ---------------------------
(***************************************************************************)
(* The TCP leg to the relay (custom_components/botslab/live/relay_tcp.py): *)
(* the login under a framing that is not known beforehand, and the cutting *)
(* of app-frames out of a byte stream whose length fields cannot be        *)
(* trusted, however TCP cuts it into chunks.                               *)
(*                                                                         *)
(* The stream is a sequence of tokens, each of one byte or more: the 14    *)
(* bytes of a QTP header in two, so that a length field may end between    *)
(* them; the 10 bytes of an app-frame's head, which makes no head before   *)
(* the next token is there; and pieces of its body, the first of which is  *)
(* the six bytes that make a head genuine.  A token of which a part has    *)
(* been taken off the front stands for the rest of it.  A magic number     *)
(* inside ciphertext is no head: the code tells the two apart.             *)
(***************************************************************************)
EXTENDS Integers, Sequences

CONSTANTS
    N,          \* app-frames the relay sends
    Begins,     \* Begins[f]: tokens in the bodies of the frames before f
    Overrun,    \* Overrun[f]: by how many tokens f's length field is too large
    Answer,     \* the first frame that ends the login's wait: its answer, or media
    Trim        \* tokens in 2 MB: a buffer without a head is cut down when it has more

\* No body is empty.
Bodies ==
    /\ Begins \in [1..N + 1 -> Nat]
    /\ Begins[1] = 0
    /\ \A f \in 1..N, g \in 1..N + 1 : f < g => Begins[f] < Begins[g]

ASSUME SourceAssumption ==
    /\ N \in Nat \ {0} /\ Answer \in 1..N /\ Bodies
    /\ Overrun \in [1..N -> Nat]
    /\ Trim \in Nat /\ Trim >= 3    \* a QTP header and a head have 24 bytes

VARIABLES
    wrapped,  \* the relay wraps its app-frames in QTP headers
    framed,   \* _qtp_framed
    at,       \* "raw" or "qtp": login's two attempts; "drain", "parse": between and in drains
    taking,   \* take_frames is at work
    read,     \* tokens received from the socket
    pos,      \* tokens taken from the front of _stream, plus one
    heard,    \* the relay has understood a login
    out,      \* the frames handed to the engine: <<frame, its last token>>
    lost      \* the frames that the login read and did not hand on

relayVars == <<wrapped, framed, at, taking, read, pos, heard, out, lost>>

-----------------------------------------------------------------------------
(* What the relay sends.                                                   *)

\* Tokens before a frame's head that are not of the frame before.
Gap == IF wrapped THEN 2 ELSE 0

\* Where frame f's head is, and its last token.
Head1(f) == Begins[f] + f + Gap * f
Last1(f) == Head1(f) + Begins[f + 1] - Begins[f]
Length == Last1(N)

HeadAt(p) == \E f \in 1..N : p = Head1(f)
QtpAt(p) == wrapped /\ HeadAt(p + 2)

RelayTypeOK ==
    /\ wrapped \in BOOLEAN /\ framed \in BOOLEAN
    /\ at \in {"raw", "qtp", "drain", "parse"} /\ taking \in BOOLEAN
    /\ read \in 0..Length
    /\ pos \in 1..Length + 1
    /\ heard \in BOOLEAN
    /\ out \in Seq((1..N) \X (1..Length))
    /\ lost \in Seq((1..N) \X (1..Length))

RelayInit ==
    /\ wrapped \in BOOLEAN
    /\ framed = FALSE
    /\ at = "raw" /\ taking = FALSE
    /\ read = 0 /\ pos = 1
    /\ heard = ~wrapped
    /\ out = <<>> /\ lost = <<>>

-----------------------------------------------------------------------------
(* _detect_framing, _strip_qtp, _next_frame and take_frames.               *)

\* Mutated form of Detected: the framing the login chose is final.
DetectedNever(r) == {framed}

\* What the first bytes of the stream say of the framing, r tokens received: a head, or a
\* magic number 14 bytes on.  What is left of a frame without its head may by chance be 14
\* bytes long; a wrapped frame never follows it directly.
Detected(r) ==
    IF pos <= r /\ HeadAt(pos) THEN {FALSE}
    ELSE IF pos + 2 <= r /\ QtpAt(pos) THEN {TRUE}
    ELSE IF ~wrapped /\ \E p \in pos..r : HeadAt(p) THEN {framed, TRUE}
    ELSE {framed}

\* The frame of the first genuine head at or after i, or 0: its first six bytes are here.
NextFrame(i) ==
    LET here == {f \in 1..N : i <= Head1(f) /\ Head1(f) < read}
    IN IF here = {} THEN 0 ELSE CHOOSE f \in here : \A g \in here : f <= g

\* The last token that 14 bytes from the front may end in, frame f being the next: the rest of
\* a body is at least a byte long, the rest of a QTP header at most 13.
Within(f) == IF wrapped /\ pos # Head1(f) - 1 THEN Head1(f) - 1 ELSE Head1(f) + 1

\* What is at the front when _strip_qtp returns.  A QTP header goes when the payload it
\* announces has arrived; from what is neither a head nor a whole QTP header, some length is
\* read, and 14 bytes go or not.
StripsTo ==
    IF ~framed \/ HeadAt(pos) THEN {pos}
    ELSE IF QtpAt(pos)
    THEN {IF \E f \in 1..N : pos + 2 = Head1(f) /\ Last1(f) <= read THEN pos + 2 ELSE pos}
    ELSE {pos} \cup {p \in pos..read + 1 :
                        /\ \A f \in 1..N : pos < Head1(f) => p <= Within(f)
                        /\ ~(wrapped /\ HeadAt(p))}

\* Its last three bytes, that is what remains of a buffer when it is trimmed: the start of a
\* head, or of a QTP header, may be gone with the rest.
TrimsTo == {p \in read - 1..read + 1 : p = read + 1 => HeadAt(read) \/ QtpAt(read)}

\* Mutated form of FrameEnd: the length field is trusted.
FrameEndTrusted(f) ==
    LET end == Last1(f) + Overrun[f] IN IF end > read THEN 0 ELSE end

\* The last token of frame f: the length field is capped at the next genuine head; 0 when
\* the frame is not fully here.
FrameEnd(f) ==
    LET end == Last1(f) + Overrun[f]
        next == NextFrame(Head1(f) + 2)
    IN IF next # 0 /\ Head1(next) <= end THEN Head1(next) - 1
       ELSE IF end > read THEN 0 ELSE end

LoginPc == {"raw", "qtp"}

\* A turn of take_frames cuts off the first frame, with what is left before it ...
CutsFrame ==
    /\ taking \/ at = "parse"
    /\ \E p \in StripsTo :
        LET f == NextFrame(p) IN
        /\ f # 0 /\ FrameEnd(f) # 0
        /\ pos' = FrameEnd(f) + 1
        /\ IF at \in LoginPc
           THEN lost' = Append(lost, <<f, FrameEnd(f)>>) /\ UNCHANGED out
           ELSE out' = Append(out, <<f, FrameEnd(f)>>) /\ UNCHANGED lost
    /\ taking' = TRUE
    /\ UNCHANGED <<wrapped, framed, at, read, heard>>

\* ... until none is complete; a buffer that is long and has no head in it is trimmed.  The
\* login goes by what it got: the frames before its answer, and those that came with it, go
\* nowhere.
NoFrameLeft ==
    /\ taking \/ at = "parse"
    /\ \E p \in StripsTo :
        LET f == NextFrame(p) IN
        /\ f # 0 => FrameEnd(f) = 0
        /\ pos' \in IF f = 0 /\ read + 1 - p > Trim THEN TrimsTo ELSE {p}
    /\ taking' = FALSE
    /\ at' = IF at = "parse" \/ \E i \in DOMAIN lost : lost[i][1] >= Answer THEN "drain" ELSE at
    /\ UNCHANGED <<wrapped, framed, read, heard, out, lost>>

-----------------------------------------------------------------------------
(* login, _await_login and drain; the starts go out between two drains.    *)

\* recv brings a chunk.
Chunk ==
    /\ \E r \in read + 1..Length :
        /\ read' = r
        /\ framed' \in Detected(r)
    /\ UNCHANGED <<wrapped, pos, heard, out, lost>>

\* The login's turn: each chunk is parsed at once.
AwaitLogin ==
    /\ at \in LoginPc /\ ~taking
    /\ heard
    /\ Chunk
    /\ taking' = TRUE
    /\ UNCHANGED at

\* Three seconds without an answer: the raw login is followed by a wrapped one, that one by
\* nothing; the engine reads on whatever the login said.
LoginTimesOut ==
    /\ ~taking
    /\ \/ /\ at = "raw"
          /\ at' = "qtp"
          /\ framed' = TRUE
          /\ heard' = TRUE
       \/ /\ at = "qtp"
          /\ at' = "drain"
          /\ UNCHANGED <<framed, heard>>
    /\ UNCHANGED <<wrapped, taking, read, pos, out, lost>>

\* drain reads until the socket is empty; then take_frames begins.
DrainChunk ==
    /\ at \in {"drain", "parse"} /\ ~taking
    /\ Chunk
    /\ at' = "parse"
    /\ UNCHANGED taking

\* The framing of a start, the engine's keep-alive too, if it is sent now.
StartFraming == framed

RelayNext == AwaitLogin \/ LoginTimesOut \/ DrainChunk \/ CutsFrame \/ NoFrameLeft

RelaySpec == RelayInit /\ [][RelayNext]_relayVars

-----------------------------------------------------------------------------

Cut == lost \o out
Got == {Cut[i][1] : i \in DOMAIN Cut}

\* f can be told to be complete: all that its length field speaks of is here, or the next
\* frame's head shows where it ends; and so can all before it.
Ready(f, r) ==
    /\ Last1(f) <= r
    /\ Overrun[f] = 0 \/ Last1(f) + Overrun[f] <= r \/ (f < N /\ Head1(f + 1) < r)
Arrived(f) == \A g \in 1..f : Ready(g, read)

\* Where f is cut: at its end, or if its length field is too large, where that says, but not
\* beyond the next frame's QTP header.
CutAt(f) == Last1(f) + (IF Overrun[f] <= Gap THEN Overrun[f] ELSE Gap)

\* f's length field is too large, but ends before the next head can be told from ciphertext:
\* within the QTP header, or within that head.
EndsInHead(f) == Overrun[f] = Gap + 1 \/ (wrapped /\ Overrun[f] = 1)

\* The frames between two drains are, in order and each at most once, those that have arrived,
\* cut at their ends, however TCP cuts the stream and whichever attempt of the login ends when.
\* A frame is missing only where the length field before it ends in its QTP header or head, so
\* that its head may be cut in two, or directly behind another that is missing.
FramesAsSent ==
    at = "drain" =>
        /\ \A i, j \in DOMAIN Cut : i < j => Cut[i][1] < Cut[j][1]
        /\ \A i \in DOMAIN Cut :
            LET f == Cut[i][1] IN
            \/ Cut[i][2] = CutAt(f)
            \/ Cut[i][2] = Head1(f + 1) /\ EndsInHead(f) /\ f + 1 \notin Got
        /\ \A f \in Got : Arrived(f)
        /\ \A f \in 1..N : Arrived(f) /\ f \notin Got =>
            f > 1 /\ (f - 1 \in Got => EndsInHead(f - 1))

\* A start goes out in the framing the relay speaks, so that it is understood.  Three cases
\* remain: the relay has not answered yet; a frame is missing, and what is left of it passed
\* for a QTP header; or the length field of a wrapped frame, the one at the front or an earlier
\* one, is too large.  Its own QTP header, or the next one's, is gone then, and the head that is
\* left at the front of the stream passes for an unwrapped peer.
StartsUnderstood ==
    at = "drain" /\ StartFraming # wrapped =>
        IF wrapped THEN \E f \in 1..N : Head1(f) <= pos /\ Overrun[f] > 0
        ELSE \/ \A f \in Got : f < Answer
             \/ \E f \in 1..N : Head1(f) < pos /\ f \notin Got
=============================================================================
