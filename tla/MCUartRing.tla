----------------------------- MODULE MCUartRing -----------------------------
(* UartRing on the board that Mk2 names and on the other, in one run, with *)
(* the values of the schedule.                                             *)
EXTENDS UartRing

\* The second event is due with the first but does not fit beside it in a
\* ring of four; the third needs the ring's last free slot.
SeqSchedule == << [cycle |-> 1, off |-> 0, len |-> 2],
                  [cycle |-> 1, off |-> 2, len |-> 2],
                  [cycle |-> 3, off |-> 4, len |-> 3] >>

\* Two events that fit, posted while the host posts too.
ShortSchedule == << [cycle |-> 0, off |-> 0, len |-> 1],
                    [cycle |-> 1, off |-> 1, len |-> 1] >>

-----------------------------------------------------------------------------
VARIABLE other     \* the program runs the other board

Other == INSTANCE UartRing WITH Mk2 <- ~Mk2

This(A) == ~other /\ A /\ UNCHANGED other
That(A) == other /\ A /\ UNCHANGED other

BoardsInit == Init /\ other \in BOOLEAN
BoardsNext == This(Next) \/ That(Other!Next)

\* The fairness of UartRing, on the board that runs.
BoardsSpec ==
    /\ BoardsInit /\ [][BoardsNext]_<<vars, other>>
    /\ WF_vars(This(WorkThread)) /\ WF_vars(That(Other!WorkThread))
    /\ WF_vars(This(HostThread)) /\ WF_vars(That(Other!HostThread))
    /\ SF_vars(This(EnableRx)) /\ SF_vars(That(Other!EnableRx))
    /\ SF_vars(This(Fetch)) /\ SF_vars(That(Other!Fetch))
=============================================================================
