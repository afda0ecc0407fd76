------------------------------ MODULE Snapshot ------------------------------
(***************************************************************************)
(* -savesnap and -loadsnap (state_save, state_load and their triggers in   *)
(* work_thread), as far as the MIDI input goes.  The image is written      *)
(* after an instruction, field by field and without a lock against the     *)
(* MIDI callback; another process loads it before its first loop.  Its     *)
(* statics that are not in the image start from zero, and it is given      *)
(* neither a schedule nor a host port.                                     *)
(***************************************************************************)
EXTENDS UartRing

VARIABLES
    writing,     \* uart_buffer is written, the pointers are not
    image,       \* demo_snap.bin, with the history that goes with it
    loaded       \* this is the process that loaded it

snapshot == <<writing, image, loaded>>

NoImage == [buf |-> <<>>]
HasImage == image # NoImage /\ ~writing

SnapInit == Init /\ writing = FALSE /\ image = NoImage /\ loaded = FALSE

\* The work thread does nothing else while it writes the image.
Run == Next /\ (writing => UNCHANGED wpc) /\ UNCHANGED snapshot

\* The trigger follows an instruction.
SaveBuffer ==
    /\ image = NoImage /\ ~loaded
    /\ Firmware
    /\ writing' = TRUE
    /\ image' = [buf |-> buf]
    /\ UNCHANGED loaded

\* The pointers and the receiver, after the buffer; RDRF is in dev_register, the
\* request in mcu, where the firmware is in its pc.  ssr_rd is not written.
SavePointers ==
    /\ writing /\ writing' = FALSE
    /\ image' = [buf |-> image.buf, wp |-> wp, rp |-> rp,
                 gotbyte |-> gotbyte, rxByte |-> rxByte, rxOn |-> rxOn,
                 rxReq |-> rxReq, fw |-> fw, now |-> now, received |-> received, posted |-> Posted]
    /\ UNCHANGED <<vars, loaded>>

Fresh ==
    /\ wait' = 0
    /\ wpc' = "instr"
    /\ ev' = Len(Schedule) + 1 /\ idx' = 0 /\ seqTmp' = 0
    /\ hpc' = "idle" /\ hostPos' = HostBytes /\ hostTmp' = 0

\* The receiver of the sub-MCU (uart_rx_gotbyte and uart_rx_byte of submcu.cpp)
\* is not in the image; that of the main CPU is.
LoadReceiver_NoByte ==
    /\ gotbyte' = (~Mk2 /\ image.gotbyte) /\ rxByte' = 0
    /\ rxReq' = image.rxReq /\ fw' = image.fw /\ ssrRd' = FALSE
LoadReceiver_NoFlag ==
    /\ gotbyte' = FALSE /\ rxByte' = IF Mk2 THEN 0 ELSE image.rxByte
    /\ rxReq' = image.rxReq /\ fw' = image.fw /\ ssrRd' = FALSE
LoadReceiver ==
    /\ gotbyte' = (~Mk2 /\ image.gotbyte)
    /\ rxByte' = IF Mk2 THEN 0 ELSE image.rxByte
    /\ rxReq' = image.rxReq /\ fw' = image.fw /\ ssrRd' = FALSE

Load ==
    /\ HasImage /\ ~loaded
    /\ loaded' = TRUE
    /\ buf' = image.buf /\ wp' = image.wp /\ rp' = image.rp
    /\ rxOn' = image.rxOn /\ now' = image.now /\ received' = image.received
    /\ LoadReceiver
    /\ Fresh
    /\ UNCHANGED <<writing, image>>

SnapNext == Run \/ SaveBuffer \/ SavePointers \/ Load

snapVars == <<vars, snapshot>>

\* Instructions go on: the firmware fetches what it received, in either process.
SnapSpec ==
    /\ SnapInit /\ [][SnapNext]_snapVars
    /\ WF_snapVars(Run) /\ SF_snapVars(Fetch /\ Run)
    /\ SF_snapVars(EnableRx /\ Run)

-----------------------------------------------------------------------------
(* Properties, of the input of -midiseq                                    *)

\* The image was written while the receive handler had read the status and not
\* yet cleared the flag.  ssr_rd is zero in the process that loads it, so the
\* write does not withdraw the request.  A handler that clears the flag in one
\* instruction (BCLR) has no such moment.
AckCut == loaded /\ "ssr" \in image.fw

\* Saving and loading leave no gap in the input and repeat nothing of it: the
\* help of -loadsnap (mcu.cpp:2659-2660) promises the exact saved state.  But
\* after AckCut the handler goes on fetching the last byte, as nothing follows.
NoGap ==
    \A i \in 1 .. Len(received) :
        received[i] = i \/ (AckCut /\ i > image.posted /\ received[i] = image.posted)

\* What was in the ring or in the receiver when the image was written reaches
\* the firmware in the process that loaded it.
EverythingSurvives ==
    loaded ~> loaded /\ \A k \in 1 .. image.posted :
                           \E i \in 1 .. Len(received) : received[i] = k
=============================================================================
