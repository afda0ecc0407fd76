------------------------------ MODULE UartRing ------------------------------
(***************************************************************************)
(* The MIDI input ring of the emulator: uart_buffer with uart_write_ptr    *)
(* and uart_read_ptr (mcu.h, mcu.cpp).  Two producers fill it: the host's  *)
(* MIDI callback thread (MidiOnReceive, MIDI_Callback) and, on the work    *)
(* thread, the schedule of -midiseq (midiseq_poll), which checks the free  *)
(* space first.  One consumer empties it on the work thread: SM_UpdateUART *)
(* on the mk2 boards, MCU_UpdateUART_RX on the others.  The firmware       *)
(* fetches the received byte later: in one access of the sub-MCU, in three *)
(* of the main CPU, whose order is in part the firmware's choice.          *)
(*                                                                         *)
(* The pointers are plain ints shared by two threads, so every access that *)
(* the other thread can separate is a step of its own.  Stores become      *)
(* visible in program order (x86): see README.                             *)
(*                                                                         *)
(* Bytes are named by where they come from: the k-th byte of the schedule  *)
(* is k, the k-th byte of the host port is -k, and 0 is a slot that was    *)
(* never written.                                                          *)
(***************************************************************************)
EXTENDS Integers, Sequences

CONSTANTS
    Size,        \* uart_buffer_size
    Schedule,    \* g_midiseq_ev: records of cycle, off and len, in order
    HostBytes,   \* bytes the host port will deliver (0: -nomidi)
    HostPaced,   \* TRUE: the host waits for the schedule's end and for room
    MaxCycle,    \* the loop iterations that are told apart
    RxDelay,     \* uart_rx_delay, in loop iterations
    Mk2          \* TRUE: SM_UpdateUART, FALSE: MCU_UpdateUART_RX

\* midiseq_ev: when the event is due and which bytes of the schedule it posts.
Event == [cycle : Nat, off : Nat, len : Nat \ {0}]

Total == IF Schedule = <<>> THEN 0
         ELSE Schedule[Len(Schedule)].off + Schedule[Len(Schedule)].len

ASSUME SizeAssumption == Size \in Nat /\ Size >= 2

ASSUME ScheduleAssumption ==
    /\ Schedule \in Seq(Event)
    /\ Schedule # <<>> => Schedule[1].off = 0
    /\ \A e \in 1 .. Len(Schedule) - 1 :
          Schedule[e + 1].off = Schedule[e].off + Schedule[e].len
    /\ \A e \in 1 .. Len(Schedule) : Schedule[e].off + Schedule[e].len <= Total

ASSUME BoundAssumption ==
    /\ HostBytes \in Nat /\ MaxCycle \in Nat /\ RxDelay \in Nat
    /\ HostPaced \in BOOLEAN /\ Mk2 \in BOOLEAN

VARIABLES
    buf, wp, rp,        \* uart_buffer, uart_write_ptr, uart_read_ptr
    gotbyte, rxByte,    \* the receiver's full flag (uart_rx_gotbyte, or RDRF) and byte
    rxOn, wait,         \* receiver enabled by the firmware; uart_rx_delay - cycles
    rxReq, ssrRd, fw,   \* the request of UART_RX; bit 6 of ssr_rd; what the firmware's
                        \* receive handler has read of the main CPU's registers
    wpc, now,           \* where the work thread is; mcu.cycles
    ev, idx, seqTmp,    \* g_midiseq_pos, i of its loop, the pointer it loaded
    hpc, hostPos, hostTmp,  \* the MIDI callback thread
    received            \* history: what the firmware has read

ring == <<buf, wp, rp>>
handler == <<rxReq, ssrRd, fw>>
receiver == <<gotbyte, rxByte, rxOn, wait, rxReq, ssrRd, fw>>
sequencer == <<ev, idx, seqTmp>>
host == <<hpc, hostPos, hostTmp>>
vars == <<ring, receiver, wpc, now, sequencer, host, received>>

Slots == 0 .. Size - 1
RingTypeOK == buf \in [Slots -> Int] /\ wp \in Slots /\ rp \in Slots

ReceiverTypeOK ==
    /\ gotbyte \in BOOLEAN /\ rxByte \in Int /\ rxOn \in BOOLEAN
    /\ wait \in 0 .. RxDelay
    /\ rxReq \in BOOLEAN /\ ssrRd \in BOOLEAN /\ fw \in SUBSET {"rdr", "ssr"}
    /\ received \in Seq(Int)

SequencerTypeOK == ev \in 1 .. Len(Schedule) + 1 /\ idx \in Nat /\ seqTmp \in Slots

ThreadTypeOK ==
    /\ wpc \in {"instr", "poll", "store", "publish", "rx", "read", "advance"}
    /\ now \in 0 .. MaxCycle
    /\ hpc \in {"idle", "store", "publish"}
    /\ hostPos \in 0 .. HostBytes /\ hostTmp \in Slots

TypeOK == RingTypeOK /\ ReceiverTypeOK /\ SequencerTypeOK /\ ThreadTypeOK

\* Mutants, here and below: wrong variants of the definition that follows.
Advance(p) == (p + 1) % Size
Occupied == (wp + Size - rp) % Size
midiseq_free_bytes_OffByOne == Size - Occupied
midiseq_free_bytes == Size - 1 - Occupied

Init ==
    /\ buf = [s \in Slots |-> 0] /\ wp = 0 /\ rp = 0
    /\ gotbyte = FALSE /\ rxByte = 0 /\ rxOn = FALSE /\ wait = 0
    /\ rxReq = FALSE /\ ssrRd = FALSE /\ fw = {}
    /\ wpc = "instr" /\ now = 0
    /\ ev = 1 /\ idx = 0 /\ seqTmp = 0
    /\ hpc = "idle" /\ hostPos = 0 /\ hostTmp = 0
    /\ received = <<>>

-----------------------------------------------------------------------------
(* The firmware's instruction, as far as the receiver goes.                *)

Tick == /\ now' = IF now < MaxCycle THEN now + 1 ELSE now
        /\ wpc' = "poll"

\* The firmware turns the receiver on (UART1_CTRL bit 2, or SCR.RE).
EnableRx ==
    /\ wpc = "instr" /\ ~rxOn
    /\ rxOn' = TRUE
    /\ Tick
    /\ UNCHANGED <<ring, gotbyte, rxByte, wait, handler, sequencer, host, received>>

\* The sub-MCU reads the received byte, which empties the receiver.
ReadData ==
    /\ wpc = "instr" /\ Mk2 /\ gotbyte
    /\ gotbyte' = FALSE
    /\ received' = Append(received, rxByte)
    /\ Tick
    /\ UNCHANGED <<ring, rxByte, rxOn, wait, handler, sequencer, host>>

\* On the other boards the request starts a handler of the main CPU's firmware,
\* which reads the byte and the status, in either order, and then clears RDRF.
\* FetchLimit bounds a handler that is requested again and again.
FetchLimit == Total + HostBytes + 1

ReadRDR ==
    /\ wpc = "instr" /\ rxReq /\ "rdr" \notin fw
    /\ Len(received) < FetchLimit
    /\ received' = Append(received, rxByte)
    /\ fw' = fw \cup {"rdr"}
    /\ Tick
    /\ UNCHANGED <<ring, gotbyte, rxByte, rxOn, wait, rxReq, ssrRd, sequencer, host>>

ReadSSR ==
    /\ wpc = "instr" /\ rxReq /\ "ssr" \notin fw
    /\ ssrRd' = gotbyte
    /\ fw' = fw \cup {"ssr"}
    /\ Tick
    /\ UNCHANGED <<ring, gotbyte, rxByte, rxOn, wait, rxReq, sequencer, host, received>>

\* The write acknowledges only a flag that ssr_rd has; the register takes the
\* cleared bit in any case.
WriteSSR ==
    /\ wpc = "instr" /\ fw = {"rdr", "ssr"}
    /\ gotbyte' = FALSE
    /\ IF ssrRd THEN rxReq' = FALSE /\ wait' = RxDelay
                ELSE UNCHANGED <<rxReq, wait>>
    /\ fw' = {}
    /\ Tick
    /\ UNCHANGED <<ring, rxByte, rxOn, ssrRd, sequencer, host, received>>

OtherInstr ==
    /\ wpc = "instr"
    /\ Tick
    /\ UNCHANGED <<ring, receiver, sequencer, host, received>>

-----------------------------------------------------------------------------
(* midiseq_poll                                                            *)

Due == ev <= Len(Schedule) /\ now >= Schedule[ev].cycle

PollStop ==
    /\ wpc = "poll"
    /\ Due => midiseq_free_bytes < Schedule[ev].len
    /\ wpc' = "rx"
    /\ UNCHANGED <<ring, receiver, now, sequencer, host, received>>

PollStart ==
    /\ wpc = "poll" /\ Due
    /\ midiseq_free_bytes >= Schedule[ev].len
    /\ idx' = 0 /\ seqTmp' = wp
    /\ wpc' = "store"
    /\ UNCHANGED <<ring, receiver, now, ev, host, received>>

\* MCU_PostUART on the work thread: the store, ...
SeqStore ==
    /\ wpc = "store"
    /\ buf' = [buf EXCEPT ![seqTmp] = Schedule[ev].off + idx + 1]
    /\ wpc' = "publish"
    /\ UNCHANGED <<wp, rp, receiver, now, sequencer, host, received>>

\* ... then the new pointer; the next byte starts from the pointer in memory.
SeqPublish ==
    /\ wpc = "publish"
    /\ \E p \in {seqTmp, wp} : wp' = Advance(p)
    /\ seqTmp' = wp'
    /\ IF idx + 1 < Schedule[ev].len
       THEN idx' = idx + 1 /\ wpc' = "store" /\ UNCHANGED ev
       ELSE idx' = 0 /\ wpc' = "poll" /\ ev' = ev + 1
    /\ UNCHANGED <<buf, rp, receiver, now, host, received>>

-----------------------------------------------------------------------------
(* The receiver: SM_UpdateUART or MCU_UpdateUART_RX                        *)

CountDown == wait' = IF wait > 0 THEN wait - 1 ELSE 0

Receivable_Full == rxOn /\ wp # rp /\ wait = 0
Receivable == rxOn /\ wp # rp /\ ~gotbyte /\ wait = 0

RxSkip ==
    /\ wpc = "rx" /\ ~Receivable
    /\ CountDown
    /\ wpc' = "instr"
    /\ UNCHANGED <<ring, gotbyte, rxByte, rxOn, handler, now, sequencer, host, received>>

RxStart ==
    /\ wpc = "rx" /\ Receivable
    /\ wpc' = "read"
    /\ UNCHANGED <<ring, receiver, now, sequencer, host, received>>

RxRead ==
    /\ wpc = "read"
    /\ rxByte' = buf[rp]
    /\ wpc' = "advance"
    /\ UNCHANGED <<ring, gotbyte, rxOn, wait, handler, now, sequencer, host, received>>

RxAdvance ==
    /\ wpc = "advance"
    /\ rp' = Advance(rp)
    /\ gotbyte' = TRUE
    /\ rxReq' = ~Mk2
    /\ wait' = IF Mk2 THEN RxDelay ELSE 0
    /\ wpc' = "instr"
    /\ UNCHANGED <<buf, wp, rxByte, rxOn, ssrRd, fw, now, sequencer, host, received>>

-----------------------------------------------------------------------------
(* The MIDI callback thread: MCU_PostUART for each byte of a message.  The *)
(* code itself never looks at the free space: HostPaced is the assumption  *)
(* that the sender is slow enough and starts after the schedule's end.     *)

HostLoad ==
    /\ hpc = "idle" /\ hostPos < HostBytes
    /\ HostPaced => ev > Len(Schedule) /\ Occupied < Size - 1
    /\ hostTmp' = wp
    /\ hpc' = "store"
    /\ UNCHANGED <<ring, receiver, wpc, now, sequencer, hostPos, received>>

HostStore ==
    /\ hpc = "store"
    /\ buf' = [buf EXCEPT ![hostTmp] = -(hostPos + 1)]
    /\ hpc' = "publish"
    /\ UNCHANGED <<wp, rp, receiver, wpc, now, sequencer, hostPos, hostTmp, received>>

\* The build may keep the loaded pointer in a register or load it again.
HostPublish ==
    /\ hpc = "publish"
    /\ \E p \in {hostTmp, wp} : wp' = Advance(p)
    /\ hostPos' = hostPos + 1
    /\ hpc' = "idle"
    /\ UNCHANGED <<buf, rp, receiver, wpc, now, sequencer, hostTmp, received>>

-----------------------------------------------------------------------------
Fetch == ReadData \/ ReadRDR \/ ReadSSR \/ WriteSSR
Firmware == EnableRx \/ Fetch \/ OtherInstr
Sequencer == PollStop \/ PollStart \/ SeqStore \/ SeqPublish
Receiver == RxSkip \/ RxStart \/ RxRead \/ RxAdvance
WorkThread == Firmware \/ Sequencer \/ Receiver
HostThread == HostLoad \/ HostStore \/ HostPublish

Next == WorkThread \/ HostThread

Spec == Init /\ [][Next]_vars

\* The work thread keeps running its loop, the host's driver delivers the
\* bytes it has, and a firmware that keeps executing instructions enables its
\* receiver and carries on fetching a received byte.
Fairness ==
    /\ WF_vars(WorkThread)
    /\ WF_vars(HostThread)
    /\ SF_vars(EnableRx)
    /\ SF_vars(Fetch)

FairSpec == Spec /\ Fairness

-----------------------------------------------------------------------------
(* Properties                                                              *)

\* What a slot may hold when a post overwrites it: nothing, a byte the
\* receiver has taken, or one the firmware has read.
Taken(b) == b = 0 \/ b = rxByte \/ \E i \in 1 .. Len(received) : received[i] = b

\* midiseq_poll promises that "unread bytes are never overwritten"
\* (mcu.cpp:1781-1783).
NoUnreadOverwritten == [][\A s \in Slots : buf'[s] # buf[s] => Taken(buf[s])]_vars

\* With one producer at a time the ring is a FIFO channel of Size bytes
\* (Size - 1 in the ring and one in the receiver): nothing is lost, duplicated
\* or reordered, and everything posted is received.
Stream == [k \in 1 .. Total + HostBytes |-> IF k <= Total THEN k ELSE Total - k]
SequencerPosted == IF ev <= Len(Schedule) THEN Schedule[ev].off + idx ELSE Total
Posted == SequencerPosted + hostPos
Channel == INSTANCE MidiChannel WITH Capacity <- Size, sent <- Posted
ImplementsChannel == Channel!Spec
=============================================================================
