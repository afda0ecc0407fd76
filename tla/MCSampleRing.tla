--------------------------- MODULE MCSampleRing -----------------------------
(* SampleRing with two-frame requests. *)
EXTENDS SampleRing

Plain == {FALSE}
Doubled == {TRUE}
Either == {FALSE, TRUE}
Never == {}
=============================================================================
