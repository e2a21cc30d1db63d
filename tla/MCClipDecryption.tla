-------------------------- MODULE MCClipDecryption --------------------------
(***************************************************************************)
(* Small instances of ClipDecryption for TLC.                              *)
(***************************************************************************)
EXTENDS ClipDecryption

\* Different for every IV of two bytes nearby, and for consecutive bytes.
Stream(iv, k) == (iv[1] + 2 * iv[Len(iv)] + k) % 4

Pes == [code |-> 3, rbsp |-> <<0, 2>>]
Slices(B, n) == {<<1>> \o r : r \in UNION {[1..m -> B] : m \in 0..n}}

\* One slice of any bytes in clear and every payload of zeros and threes, then a PES header,
\* another slice or another unit, after a start code of either length.
FirstNals == [code : {3, 4}, rbsp : Slices({0, 3}, 6) \cup Slices(0..2, 4)]
LaterNals == {<<>>, <<Pes>>, <<Pes, [code |-> 4, rbsp |-> <<1, 0, 0, 0, 2, 1>>]>>,
              <<[code |-> 3, rbsp |-> <<2, 0, 0, 2, 2, 3>>]>>,
              <<[code |-> 4, rbsp |-> <<1, 3, 3, 3, 0>>]>>}

Piece(pid, from, to, starts) == [pid |-> pid, from |-> from, to |-> to, starts |-> starts]

\* A stream of n bytes in one packet, or in two with the second from byte k + 1 on.
Pieces(pid, n, k, again) ==
    IF k >= n THEN <<Piece(pid, 0, n, TRUE)>>
    ELSE <<Piece(pid, 0, k, TRUE), Piece(pid, k, n, again)>>

\* The four packets alternate, or the audio's come first.
Muxed(content, vcut, acut, first, again) ==
    LET video == Pieces("video", Len(EncryptedVideo(content)), vcut, FALSE)
        audio == Pieces("audio", Len(EncryptedAudio(content)), acut, again)
    IN [nals |-> content.nals, frames |-> content.frames, drop |-> content.drop,
        packets |-> IF first = "audio" THEN audio \o video
                    ELSE <<video[1], audio[1]>> \o Tail(video) \o Tail(audio)]

VideoContents ==
    {[nals |-> <<Pes, n>> \o later, frames |-> <<[sync |-> 2, body |-> <<1, 2, 3>>]>>, drop |-> 0]
        : n \in FirstNals, later \in LaterNals}

Payloads(n) == UNION {[1..m -> 0..3] : m \in 0..n}
Frame(sync, body) == [sync |-> sync, body |-> body]

\* Every frame of a few bytes, without a CRC and with one that looks like a frame's beginning;
\* and some to come second.
FirstFrames == {Frame(2, p) : p \in Payloads(3)} \cup {Frame(3, <<2, 3>> \o p) : p \in Payloads(2)}
SecondFrames ==
    {Frame(2, p) : p \in {<<>>, <<0>>, <<2, 2, 1>>, <<1, 2, 2, 3>>}} \cup {Frame(3, <<0, 1, 2, 1, 3>>)}

AudioContents ==
    [nals : {<<Pes, [code |-> 4, rbsp |-> <<1, 3, 0, 0, 1>>]>>},
     frames : {<<p, q>> : p \in FirstFrames, q \in SecondFrames},
     drop : {0, 1, 2}]

SmallClips ==
    {Muxed(c, v, 2, "video", TRUE) : c \in VideoContents, v \in {5, 9, 40}}
    \cup {Muxed(c, 9, a, first, again) :
            c \in AudioContents, a \in {0, 1, 4, 7}, first \in {"video", "audio"}, again \in BOOLEAN}
=============================================================================
