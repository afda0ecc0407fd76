------------------------------ MODULE VoiceIrq ------------------------------
(***************************************************************************)
(* How the PCM chip starts and stops voices and tells the main CPU that    *)
(* one of them has run into its loop (pcm.cpp).  Firmware writes the voice *)
(* mask byte by byte; a read commits it.  The chip has one slot for a      *)
(* report, irq_channel, taken from irq_assert until the CPU reads register *)
(* 0x3e: a voice whose report finds it taken tries again every frame.      *)
(*                                                                         *)
(* Of a voice's address generator, only whether it is in its loop counts.  *)
(* The chip of the JV-880 goes through the gate array and is not this.     *)
(***************************************************************************)
EXTENDS Integers, FiniteSets

CONSTANTS
    Voices,      \* the slots that config_reg_3d turns on
    MaskBytes,   \* the voices of each byte of the mask
    Writes       \* bound: writes of firmware to voices and mask

ASSUME VoicesAssumption ==
    /\ Voices \subseteq Nat /\ IsFiniteSet(Voices)
    /\ MaskBytes \subseteq SUBSET Voices
    /\ Writes \in Nat

VARIABLES
    mask,        \* voice_mask
    maskPending, \* voice_mask_pending
    updating,    \* voice_mask_updating
    keyed,       \* bit 5 of ram2[7]: a frame has seen the voice on
    enabled,     \* bit 0 of ram2[6]: the voice reports
    looping,     \* irq_flag: its address has passed address_loop
    reported,    \* bit 14 of ram2[8]
    nfs,         \* a frame has gone by since the reset
    irq_assert, irq_channel,
    request,     \* interrupt_pending[IRQ0]
    left         \* bound: writes left

voiceMask == <<mask, maskPending, updating>>
voice == <<keyed, enabled, looping, reported>>
report == <<irq_assert, irq_channel, request>>
vars == <<voiceMask, voice, nfs, report, left>>

TypeOK ==
    /\ mask \subseteq Voices /\ maskPending \subseteq Voices /\ updating \in BOOLEAN
    /\ keyed \subseteq Voices /\ enabled \subseteq Voices
    /\ looping \subseteq Voices /\ reported \subseteq Voices
    /\ nfs \in BOOLEAN
    /\ irq_assert \in BOOLEAN /\ irq_channel \in Voices \cup {0}
    /\ request \in BOOLEAN /\ left \in 0 .. Writes

\* PCM_Reset clears everything.
Init ==
    /\ mask = {} /\ maskPending = {} /\ updating = FALSE
    /\ keyed = {} /\ enabled = {} /\ looping = {} /\ reported = {}
    /\ nfs = FALSE
    /\ irq_assert = FALSE /\ irq_channel = 0 /\ request = FALSE
    /\ left = Writes

-----------------------------------------------------------------------------
(* PCM_Update                                                              *)

Key_Pending == maskPending
\* Voices that are on: a voice goes off with its bit, and on with the commit.
Key == mask \cap maskPending

Active == Key \cap keyed

Waiting == {v \in Active : v \in enabled /\ v \in looping /\ v \notin reported}

\* A report is remembered from the second frame on.
MarkReported(v) == reported' = (IF nfs THEN reported \cup {v} ELSE reported) \cap Active

Report_NoRequest ==
    \E v \in Waiting :
        /\ ~irq_assert /\ \A w \in Waiting : v <= w
        /\ irq_assert' = TRUE /\ irq_channel' = v
        /\ MarkReported(v) /\ UNCHANGED request

\* The first voice of the frame takes the slot; the others find it taken.
Report ==
    \E v \in Waiting :
        /\ ~irq_assert /\ \A w \in Waiting : v <= w
        /\ irq_assert' = TRUE /\ irq_channel' = v /\ request' = TRUE
        /\ MarkReported(v)

NoReport ==
    /\ irq_assert \/ Waiting = {}
    /\ reported' = reported \cap Active
    /\ UNCHANGED report

\* A frame goes through all voices; those it plays may run into their loops.
Frame ==
    /\ Report \/ NoReport
    /\ keyed' = IF nfs THEN keyed \cup Key ELSE keyed
    /\ \E more \in SUBSET (IF nfs THEN Active ELSE {}) : looping' = looping \cup more
    /\ nfs' = TRUE
    /\ UNCHANGED <<voiceMask, enabled, left>>

-----------------------------------------------------------------------------
(* PCM_Write and PCM_Read                                                  *)

WriteMask ==
    /\ left > 0 /\ left' = left - 1 \* bound
    /\ \E byte \in MaskBytes : \E on \in SUBSET byte :
          maskPending' = (maskPending \ byte) \cup on
    /\ updating' = TRUE
    /\ UNCHANGED <<mask, voice, nfs, report>>

ReadMask ==
    /\ mask' = IF updating THEN maskPending ELSE mask
    /\ updating' = FALSE
    /\ UNCHANGED <<maskPending, voice, nfs, report, left>>

\* Registers of a voice: addresses, ram2[6], ram2[7] and ram2[8].
Program(v) ==
    /\ left > 0 /\ left' = left - 1 \* bound
    /\ enabled' \in {enabled \cup {v}, enabled \ {v}}
    /\ looping' \in {looping, looping \ {v}}
    /\ keyed' \in {keyed, keyed \ {v}}
    /\ reported' \in {reported, reported \ {v}}
    /\ UNCHANGED <<voiceMask, nfs, report>>

ReadStatus_KeepsRequest ==
    /\ irq_assert' = FALSE
    /\ UNCHANGED <<request, irq_channel, voiceMask, voice, nfs, left>>
\* Register 0x3e takes the report back; 0x3c only shows it.
ReadStatus ==
    /\ irq_assert' = FALSE
    /\ request' = IF irq_assert THEN FALSE ELSE request
    /\ UNCHANGED <<irq_channel, voiceMask, voice, nfs, left>>

Next == Frame \/ WriteMask \/ ReadMask \/ ReadStatus \/ \E v \in Voices : Program(v)

Spec == Init /\ [][Next]_vars

\* Frames go on, and the handler of IRQ0 reads register 0x3e.
FairSpec == Spec /\ WF_vars(Frame) /\ WF_vars(ReadStatus /\ request)

-----------------------------------------------------------------------------
(* Properties                                                              *)

\* IRQ0 is requested as long as a report waits to be read, and no longer: no
\* handler runs for nothing, and no report waits without a handler, in which
\* case no voice could ever report again.
RequestFollowsAssert == request <=> irq_assert

\* A report that waits to be read is not replaced by another voice's.
ChannelHeld == [][irq_assert /\ irq_assert' => irq_channel' = irq_channel]_vars

\* A voice starts only after its bit was committed, however many frames go by
\* between the writes of the four bytes.
NoneBeforeCommit == [][\A v \in Voices : v \notin keyed /\ v \in keyed' => v \in mask]_vars

\* Of voices that run into their loops at once, each gets its report through
\* the one slot, unless it is stopped or written first.
Told(v) == irq_assert /\ irq_channel = v
EveryVoiceTells == \A v \in Voices : v \in Waiting ~> Told(v) \/ v \notin Waiting

\* A voice leaves the waiting list by its report, or by the firmware's hand,
\* never because another voice was first.
NoneForgotten ==
    [][\A v \in Waiting : v \in reported' \ reported => Told(v)']_vars
=============================================================================
