--------------------------- MODULE MCMcuInterrupt ---------------------------
(* IRQ0 (PCM), FRT1 OCIA (heartbeat) and UART_RX, with mixed levels. *)
EXTENDS McuInterrupt

IRQ0 == 1
FRT1_OCIA == 8
UART_RX == 19
ThreeSources == {IRQ0, FRT1_OCIA, UART_RX}
MixedLevels == [s \in ThreeSources |-> CASE s = IRQ0 -> 3 [] s = FRT1_OCIA -> 5 [] OTHER -> 3]
ClosedIrq0 == {IRQ0}
TwoTraps == {16, 18}
OpenOrShut == {0, 7}
MaybeTraced == {FALSE, TRUE}
=============================================================================
