--------------------------- MODULE ClipDecryption ---------------------------
(***************************************************************************)
(* Decryption of a clip inside its transport stream                        *)
(* (custom_components/botslab/clip_crypto.py).  The video's and the        *)
(* audio's bytes are collected from the packets of their PIDs, decrypted   *)
(* as one stream each, and put back byte for byte, whatever the packets    *)
(* cut in two.  decrypt_annexb is the live view's decryption as well.      *)
(*                                                                         *)
(* Bytes have two bits, enough for start codes and emulation prevention:   *)
(* 1 is the header of a coded slice, 0 a PES header's stream id, 2 and 3   *)
(* other NAL units.  The encoder, the device's firmware, is external: it   *)
(* encrypts a slice's RBSP and then escapes it as H.264 wants.  Names that *)
(* ClipCache uses as well have other ones here, for one module has the     *)
(* proofs of both.                                                         *)
(***************************************************************************)
EXTENDS Naturals, FiniteSets, SequencesExt

CONSTANTS
    PayloadOff,          \* _PAYLOAD_OFF: bytes of a NAL in clear, the IV among them
    IvLen,               \* _IV_LEN
    AudioOff,            \* _AUDIO_PAYLOAD_OFF; the IV is before it
    Keystream(_, _),     \* of an IV, and the byte's number
    Recordings           \* what there is to download, see RecordingsAreClips

ASSUME OffsetsAreOffsets ==
    /\ PayloadOff \in Nat \ {0} /\ IvLen \in 1..PayloadOff
    /\ AudioOff \in Nat \ {0}

AudioHead == 2   \* _ADTS_HDR: the sync byte and the length

VARIABLES
    recording,   \* what the camera saw and said
    ts,          \* decrypt_mpegts's out: the packets
    stage        \* "video", "audio", "done": what is to be decrypted next

decryptionVars == <<recording, ts, stage>>

Bytes == 0..3
Bits(a) == {w \in {1, 2} : a \in {w, 3}}

Xor(a, b) == CHOOSE c \in Bytes : \A w \in {1, 2} : w \in Bits(c) <=> (w \in Bits(a)) # (w \in Bits(b))

\* _chacha_xor: the cipher is its own inverse.
Chacha(iv, s) == [k \in 1..Len(s) |-> Xor(s[k], Keystream(iv, k))]

-----------------------------------------------------------------------------
(* decrypt_annexb.                                                         *)

Starts(data) == {s \in 1..Len(data) - 2 : data[s] = 0 /\ data[s + 1] = 0 /\ data[s + 2] = 1}

\* The last byte of the NAL whose start code is at s: a zero there counts as the next one's.
NalLast(data, s) ==
    LET later == {t \in Starts(data) : t > s}
        last == IF later = {} THEN Len(data) ELSE (CHOOSE t \in later : \A u \in later : t <= u) - 1
    IN IF last > s + 3 /\ data[last] = 0 THEN last - 1 ELSE last

\* Mutated form of Rbsp: the raw bytes are decrypted, emulation prevention and all.
RbspRaw(data, first, last) == first..last

\* _rbsp_map: the positions of a NAL's bytes, emulation prevention left out.
Rbsp(data, first, last) ==
    {p \in first..last : ~(/\ p >= first + 2 /\ data[p] = 3
                           /\ data[p - 1] = 0 /\ data[p - 2] = 0)}

NumberOf(coded, p) == Cardinality({q \in coded : q <= p})
BeforeEnd(clear, k) == CHOOSE p \in clear : Cardinality({q \in clear : q >= p}) = k

\* The last bytes in clear.
IvIn(data, clear) == [k \in 1..IvLen |-> data[BeforeEnd(clear, IvLen + 1 - k)]]

\* The plaintext of a slice's payload, by position in data; nothing for any other NAL.
Payload(data, s) ==
    LET first == s + 3
        rbsp == Rbsp(data, first, NalLast(data, s))
        coded == {p \in rbsp : p - first >= PayloadOff}
        clear == rbsp \ coded
    IN IF coded = {} \/ data[first] # 1 \/ Cardinality(clear) < IvLen THEN <<>>
       ELSE [p \in coded |-> Xor(data[p], Keystream(IvIn(data, clear), NumberOf(coded, p)))]

AnnexbByte(data, plain, p) ==
    LET holds == {s \in DOMAIN plain : p \in DOMAIN plain[s]}
    IN IF holds = {} THEN data[p] ELSE plain[CHOOSE s \in holds : TRUE][p]

DecryptAnnexb(data) ==
    LET plain == [s \in Starts(data) |-> Payload(data, s)]
    IN [p \in 1..Len(data) |-> AnnexbByte(data, plain, p)]

-----------------------------------------------------------------------------
(* _decrypt_adts: a frame is a sync byte, its length, and the rest.  The   *)
(* sync byte is 2, or 3 when a CRC of two bytes follows the length.        *)

HeaderLen(sync) == AudioHead + (IF sync = 3 THEN 2 ELSE 0)

\* Where frames begin, from byte i on: a cut or senseless one is searched for another.
AdtsFrames(data) ==
    LET n == Len(data)
        from[i \in 1..n + 1] ==
            IF i + AudioHead > n + 1 THEN {}
            ELSE IF data[i] \notin {2, 3} \/ data[i + 1] < AudioHead \/ i + data[i + 1] > n + 1 THEN from[i + 1]
            ELSE {i} \cup from[i + data[i + 1]]
    IN from[1]

CipherAt(data, i) == i + HeaderLen(data[i]) + AudioOff

\* The frames with byte p among their encrypted ones.
Holding(data, frames, p) == {i \in frames : CipherAt(data, i) <= p /\ p < i + data[i + 1]}

AdtsByte(data, frames, p) ==
    LET i == CHOOSE f \in Holding(data, frames, p) : TRUE
    IN IF Holding(data, frames, p) = {} THEN data[p]
       ELSE LET start == CipherAt(data, i)
            IN Xor(data[p], Keystream(SubSeq(data, start - AudioOff, start - 1), p - start + 1))

DecryptAdts(data) ==
    LET frames == AdtsFrames(data) IN [p \in 1..Len(data) |-> AdtsByte(data, frames, p)]

-----------------------------------------------------------------------------
(* decrypt_mpegts on packets [pid, pes, bytes]; pes is the length of the   *)
(* PES header a packet begins with, or 0.                                  *)

\* _video_pid, _audio_pid: the last packet is not looked at.
FindsPid(packets, pid) == \E i \in 1..Len(packets) - 1 : packets[i].pid = pid /\ packets[i].pes > 0

\* Mutated form of PidPositions: the audio keeps its PES headers.
PidPositionsAll(packets, pid, strip) ==
    FlattenSeq([i \in 1..Len(packets) |->
        IF packets[i].pid # pid THEN <<>> ELSE [k \in 1..Len(packets[i].bytes) |-> <<i, k>>]])

\* _pid_payload: where a PID's bytes are.
PidPositions(packets, pid, strip) ==
    FlattenSeq([i \in 1..Len(packets) |->
        LET skip == IF strip THEN packets[i].pes ELSE 0
        IN IF packets[i].pid # pid THEN <<>>
           ELSE [k \in 1..Len(packets[i].bytes) - skip |-> <<i, skip + k>>]])

BytesAt(packets, positions) ==
    [q \in DOMAIN positions |-> packets[positions[q][1]].bytes[positions[q][2]]]

\* The packets with the byte of each position replaced by its decrypted one.
Rewritten(packets, positions, dec) ==
    LET at == [w \in ToSet(positions) |-> dec[CHOOSE q \in DOMAIN positions : positions[q] = w]]
    IN [i \in DOMAIN packets |-> [packets[i] EXCEPT !.bytes =
            [k \in DOMAIN @ |-> IF <<i, k>> \in DOMAIN at THEN at[<<i, k>>] ELSE @[k]]]]

DecryptVideo ==
    LET positions == PidPositions(ts, "video", FALSE)
    IN /\ stage = "video"
       /\ stage' = "audio"
       /\ ts' = IF FindsPid(ts, "video")
                THEN Rewritten(ts, positions, DecryptAnnexb(BytesAt(ts, positions))) ELSE ts
       /\ UNCHANGED recording

DecryptAudio ==
    LET positions == PidPositions(ts, "audio", TRUE)
    IN /\ stage = "audio"
       /\ stage' = "done"
       /\ ts' = IF FindsPid(ts, "audio")
                THEN Rewritten(ts, positions, DecryptAdts(BytesAt(ts, positions))) ELSE ts
       /\ UNCHANGED recording

DecryptionNext == DecryptVideo \/ DecryptAudio

-----------------------------------------------------------------------------
(* The camera (external).  A clip is                                       *)
(*   nals    a sequence of [code |-> 3 or 4, rbsp], PES headers among them *)
(*   frames  the audio frames, the last short of drop bytes: [sync, body], *)
(*           the CRC, if there is one, at the beginning of the body        *)
(*   packets what each carries: bytes from + 1 to `to' of its PID's stream,*)
(*           and whether a PES packet starts with it                       *)

\* What an RBSP is escaped to, after each of its bytes.
Escaped(r) ==
    LET upTo[j \in 0..Len(r)] ==
            IF j = 0 THEN <<>>
            ELSE LET e == upTo[j - 1]
                 IN IF Len(e) > 1 /\ e[Len(e)] = 0 /\ e[Len(e) - 1] = 0
                    THEN e \o <<3, r[j]>> ELSE e \o <<r[j]>>
    IN upTo

Escape(r) == Escaped(r)[Len(r)]

\* Where byte j of an RBSP is in the escaped NAL unit.
RawAt(r, j) == Len(Escaped(r)[j])

\* The first encrypted byte of an RBSP, or 0.
Boundary(r) ==
    LET past == {j \in DOMAIN r : RawAt(r, j) > PayloadOff}
    IN IF r[1] # 1 \/ past = {} THEN 0 ELSE CHOOSE j \in past : \A k \in past : j <= k

Encrypted(r) ==
    LET b == Boundary(r)
    IN IF b <= IvLen THEN r
       ELSE SubSeq(r, 1, b - 1) \o Chacha(SubSeq(r, b - IvLen, b - 1), SubSeq(r, b, Len(r)))

\* The bytes of a frame's body that stay in clear; the IV is the last of them.
ClearLen(f) == HeaderLen(f.sync) - AudioHead + AudioOff

PlainFrame(f) == <<f.sync, AudioHead + Len(f.body)>> \o f.body

EncryptedFrame(f) ==
    LET n == ClearLen(f)
        iv == SubSeq(f.body, n - AudioOff + 1, n)
    IN IF Len(f.body) <= n THEN PlainFrame(f)
       ELSE PlainFrame([f EXCEPT !.body =
                SubSeq(@, 1, n) \o Chacha(iv, SubSeq(@, n + 1, Len(@)))])

StartCode(nal) == IF nal.code = 4 THEN <<0, 0, 0, 1>> ELSE <<0, 0, 1>>

EncryptedVideo(c) ==
    FlattenSeq([i \in DOMAIN c.nals |-> StartCode(c.nals[i]) \o Escape(Encrypted(c.nals[i].rbsp))])

EncryptedAudio(c) ==
    LET full == FlattenSeq([i \in DOMAIN c.frames |-> EncryptedFrame(c.frames[i])])
    IN SubSeq(full, 1, Len(full) - c.drop)

PesHeader == <<0, 0, 1, 3>>

StreamOf(c, pid) == IF pid = "video" THEN EncryptedVideo(c) ELSE EncryptedAudio(c)

\* The video's PES headers are in its stream; the audio's come before the stream's bytes.
Encoded(c) ==
    [i \in DOMAIN c.packets |->
        LET p == c.packets[i]
            carried == SubSeq(StreamOf(c, p.pid), p.from + 1, p.to)
        IN [pid   |-> p.pid,
            pes   |-> IF p.starts THEN Len(PesHeader) ELSE 0,
            bytes |-> IF p.starts /\ p.pid = "audio" THEN PesHeader \o carried ELSE carried]]

\* The packets of a PID carry its stream from the beginning to the end, in order.
Carry(packets, pid, length) ==
    LET mine(n) == {i \in 1..n : packets[i].pid = pid}
        reach(n) == IF mine(n) = {} THEN 0 ELSE packets[Max(mine(n))].to
    IN /\ \A i \in mine(Len(packets)) :
             packets[i].from = reach(i - 1) /\ packets[i].from <= packets[i].to
       /\ reach(Len(packets)) = length

ASSUME RecordingsAreClips ==
    \A c \in Recordings :
        /\ c.nals \in Seq([code : {3, 4}, rbsp : Seq(Bytes) \ {<<>>}])
        /\ c.frames \in Seq([sync : {2, 3}, body : Seq(Bytes)]) /\ c.drop \in Nat
        /\ c.drop > 0 => /\ c.frames # <<>>
                         /\ c.drop <= AudioHead + Len(c.frames[Len(c.frames)].body)
        /\ c.packets \in Seq([pid : {"video", "audio"}, from : Nat, to : Nat, starts : BOOLEAN])
        /\ \A pid \in {"video", "audio"} : Carry(c.packets, pid, Len(StreamOf(c, pid)))

DecryptionInit ==
    /\ recording \in Recordings
    /\ ts = Encoded(recording)
    /\ stage = "video"

DecryptionSpec == DecryptionInit /\ [][DecryptionNext]_decryptionVars

-----------------------------------------------------------------------------

\* A zero that ends a slice's ciphertext counts as the next start code's, unless that code
\* brings a zero of its own.
KeepsLast(c, i) ==
    LET escaped == Escape(Encrypted(c.nals[i].rbsp))
    IN /\ Boundary(c.nals[i].rbsp) > IvLen /\ escaped[Len(escaped)] = 0
       /\ i < Len(c.nals) => c.nals[i + 1].code = 3

\* The bytes that an escaped NAL unit has at p: one, or none.
RawsAt(r, p) == {j \in DOMAIN r : RawAt(r, j) = p}

\* The bytes of the NAL as the decoder shall get them: the plain RBSP, with the encoder's
\* emulation prevention left where it stands, and a last byte that counts as another's.
PlainNal(c, i) ==
    LET r == c.nals[i].rbsp
        sent == Encrypted(r)
        escaped == Escape(sent)
    IN [p \in DOMAIN escaped |->
            IF RawsAt(sent, p) = {} \/ (KeepsLast(c, i) /\ p = Len(escaped)) THEN escaped[p]
            ELSE r[CHOOSE j \in RawsAt(sent, p) : TRUE]]

BytesOf(pid) ==
    FlattenSeq([i \in DOMAIN ts |->
        IF ts[i].pid # pid THEN <<>>
        ELSE IF pid = "audio" THEN SubSeq(ts[i].bytes, ts[i].pes + 1, Len(ts[i].bytes))
        ELSE ts[i].bytes])

\* The video's bytes are the camera's, each one: every slice is decrypted with its own IV from
\* its boundary on, whatever is escaped, wherever a packet ends; start codes, PES headers and
\* other NAL units stay as they are.
VideoRecovered ==
    stage # "video" /\ FindsPid(ts, "video") =>
        BytesOf("video") =
            FlattenSeq([i \in DOMAIN recording.nals |-> StartCode(recording.nals[i]) \o PlainNal(recording, i)])

\* Every audio frame that is in the clip to its end is decrypted, with a CRC or without, also when
\* it spans two PES packets, and the PES headers stay as they are.
AudioRecovered ==
    stage = "done" /\ FindsPid(ts, "audio") =>
        LET full == IF recording.drop = 0 THEN recording.frames ELSE Front(recording.frames)
            plain == FlattenSeq([i \in DOMAIN full |-> PlainFrame(full[i])])
        IN /\ IsPrefix(plain, BytesOf("audio"))
           /\ \A i \in DOMAIN ts : ts[i].pid = "audio" /\ ts[i].pes > 0 =>
                                   IsPrefix(PesHeader, ts[i].bytes)
=============================================================================
