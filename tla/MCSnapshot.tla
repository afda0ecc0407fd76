----------------------------- MODULE MCSnapshot -----------------------------
(* Five bytes in three events, through a ring of four. *)
EXTENDS Snapshot

ThreeEvents == << [cycle |-> 0, off |-> 0, len |-> 2],
                  [cycle |-> 1, off |-> 2, len |-> 2],
                  [cycle |-> 2, off |-> 4, len |-> 1] >>
=============================================================================
