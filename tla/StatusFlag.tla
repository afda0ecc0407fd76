----------------------------- MODULE StatusFlag -----------------------------
(***************************************************************************)
(* What a device promises about one status flag: firmware cannot clear a   *)
(* flag it has not read as set since the device raised it, so that no      *)
(* event passes unnoticed; and the interrupt controller holds a request    *)
(* for it only while it is raised, so that no interrupt comes for nothing. *)
(***************************************************************************)
VARIABLES raised, seen, requested

flag == <<raised, seen, requested>>

Init == raised = FALSE /\ seen = FALSE /\ requested = FALSE

\* The device raises the flag, or finds it raised, and may ask for an interrupt.
Raise == raised' = TRUE /\ requested' \in {requested, TRUE} /\ seen' = seen

\* Firmware reads it.
Observe == raised /\ seen' = TRUE /\ UNCHANGED <<raised, requested>>

\* Firmware clears it, and the request with it.
Dismiss == seen /\ raised' = FALSE /\ seen' = FALSE /\ requested' = FALSE

Next == Raise \/ Observe \/ Dismiss

Spec == Init /\ [][Next]_flag
=============================================================================
