----------------------------- MODULE DelayLine ------------------------------
(***************************************************************************)
(* What the audio ring promises while the device is paced: a delay line.   *)
(* It starts full of silence; every frame posted comes out once, in order, *)
(* behind everything that was in the line before it.                       *)
(***************************************************************************)
EXTENDS Naturals, Sequences

CONSTANTS
    Capacity,   \* frames the line holds
    Request,    \* frames played at once
    Frames      \* the frames that may be posted

VARIABLES line, out

Init ==
    /\ line = [i \in 1 .. Capacity |-> 0]
    /\ out = [i \in 1 .. Request |-> 0]

Post ==
    /\ Len(line) < Capacity
    /\ \E f \in Frames : line' = Append(line, f)
    /\ UNCHANGED out

Play ==
    /\ Len(line) > Request
    /\ out' = SubSeq(line, 1, Request)
    /\ line' = SubSeq(line, Request + 1, Len(line))

Spec == Init /\ [][Post \/ Play]_<<line, out>>
=============================================================================
