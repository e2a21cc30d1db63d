--------------------------- MODULE MCQtpReassembly ---------------------------
(***************************************************************************)
(* Small instances of QtpReassembly for TLC: frames of one to five        *)
(* datagrams, keyframes among them, and every loss, order and repetition.  *)
(***************************************************************************)
EXTENDS QtpReassembly, TLC

\* A keyframe of two datagrams, a P-frame of five (room for two gaps inside), a
\* keyframe of two, an audio frame and a P-frame.
MixedFrames == (0 :> 2) @@ (2 :> 5) @@ (7 :> 2) @@ (9 :> 1) @@ (10 :> 1)
MixedKeys == {0, 7}

\* A keyframe, a P-frame and a keyframe, in six datagrams.
ShortFrames == (0 :> 2) @@ (2 :> 2) @@ (4 :> 2)
ShortKeys == {0, 4}
=============================================================================
