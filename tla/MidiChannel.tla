----------------------------- MODULE MidiChannel -----------------------------
(***************************************************************************)
(* What the MIDI input promises, whatever carries it: a FIFO channel.  The *)
(* sender posts the bytes of Stream in order, the firmware receives each   *)
(* exactly once and in order, and never more than Capacity bytes are under *)
(* way.                                                                    *)
(***************************************************************************)
EXTENDS Naturals, Sequences

CONSTANTS Capacity, Stream

VARIABLES sent, received

vars == <<sent, received>>

Init == sent = 0 /\ received = <<>>

Send ==
    /\ sent < Len(Stream)
    /\ sent - Len(received) < Capacity
    /\ sent' = sent + 1
    /\ UNCHANGED received

Receive ==
    /\ Len(received) < sent
    /\ received' = Append(received, Stream[Len(received) + 1])
    /\ UNCHANGED sent

Next == Send \/ Receive

SafeSpec == Init /\ [][Next]_vars

Spec == SafeSpec /\ WF_vars(Send) /\ WF_vars(Receive)
=============================================================================
