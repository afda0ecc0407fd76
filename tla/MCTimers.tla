------------------------------ MODULE MCTimers ------------------------------
(* A byte of two values: an FRT counts to 3. *)
EXTENDS Timers

FRT1 == "frt1"
NoChannel == {}
OneFree == {FRT1}
SlowRate == {2}
AllAtOnce == {{"V", "A", "B"}}
=============================================================================
