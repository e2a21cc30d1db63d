---------------------------- MODULE FrameChannel -----------------------------
(***************************************************************************)
(* What the media transport promises the engine: a lossy channel of whole  *)
(* frames.  A frame may be lost, but none is delivered twice, late or      *)
(* damaged.  QtpReassembly is shown to implement it over UDP.              *)
(***************************************************************************)
EXTENDS Integers, Sequences

CONSTANTS
    Frames,     \* the frames, named by numbers in the order they are sent
    Whole(_)    \* the content of a frame as it was sent

VARIABLE delivered   \* the frames handed over so far, each as its content

Init == delivered = <<>>

\* Every frame handed over so far was sent before f.
LastBefore(f) == \A i \in DOMAIN delivered : delivered[i][1] < f

Deliver(f) ==
    /\ LastBefore(f)
    /\ delivered' = Append(delivered, Whole(f))

Next == \E f \in Frames : Deliver(f)

Spec == Init /\ [][Next]_delivered
=============================================================================
