--------------------------- MODULE UartRingProofs ---------------------------
(***************************************************************************)
(* Proofs about the MIDI ring for every ring size, schedule and number of  *)
(* bytes from the host, whose thread runs beside the receiver's: types for *)
(* any host; with one producer at a time, no unread byte is overwritten    *)
(* and the ring implements the FIFO channel.  Then, without a host, a      *)
(* snapshot of it on the main-CPU boards, with the one case that repeats.  *)
(***************************************************************************)
EXTENDS Snapshot, TLAPS

USE SizeAssumption, BoundAssumption

\* The k-th unread slot from the read end.
Slot(k) == IF rp + k < Size THEN rp + k ELSE rp + k - Size

\* -nomidi, or a sender that starts when the schedule has ended and waits for
\* room: the two producers of the ring never run together.
OneProducer == HostBytes = 0 \/ HostPaced

\* The k-th byte of the input: the schedule's bytes, then the host's.
Byte(k) == IF k <= Total THEN k ELSE Total - k

\* The host posts after the schedule's end.  The room it found for its byte is
\* still there when it stores and publishes it: the receiver only makes more.
HostHasRoom ==
    /\ hpc # "idle" \/ hostPos > 0 => ev = Len(Schedule) + 1
    /\ hpc # "idle" => hostTmp = wp /\ Occupied < Size - 1 /\ hostPos < HostBytes
    /\ hpc = "publish" => buf[wp] = Byte(Posted + 1)

\* While an event is being posted there is room for the rest of it.
RoomForEvent ==
    wpc \in {"store", "publish"} =>
        /\ ev <= Len(Schedule) /\ idx < Schedule[ev].len
        /\ seqTmp = wp
        /\ Schedule[ev].len - idx <= midiseq_free_bytes

BetweenEvents == wpc \notin {"store", "publish"} => idx = 0

\* The bytes under way are the last ones posted, in order.
Contents ==
    /\ \A k \in 0 .. Occupied - 1 : buf[Slot(k)] = Byte(Posted - Occupied + k + 1)
    /\ wpc = "publish" => buf[wp] = Byte(Posted + 1)
    /\ wpc \in {"read", "advance"} => Occupied > 0 /\ ~gotbyte
    /\ wpc = "advance" => rxByte = Byte(Posted - Occupied + 1)
    /\ gotbyte => rxByte = Byte(Posted - Occupied)

\* What was received and what is under way add up to what was posted.
HeldIn(got, done) == IF got /\ "rdr" \notin done THEN 1 ELSE 0
Held == HeldIn(gotbyte, fw)

Received ==
    /\ Len(received) = Posted - Occupied - Held
    /\ \A i \in 1 .. Len(received) : received[i] = Byte(i)

\* The other slots hold nothing, or a byte that was received.
Distance(s) == (s + Size - rp) % Size
Old(b, n) == b = 0 \/ \E j \in 1 .. n : b = Byte(j)
Filled(s) == s = wp /\ (wpc = "publish" \/ hpc = "publish")

Stale ==
    \A s \in Slots :
        Distance(s) >= Occupied /\ ~Filled(s) => Old(buf[s], Posted - Occupied)

RingInv ==
    /\ TypeOK /\ HostHasRoom /\ RoomForEvent /\ BetweenEvents
    /\ Contents /\ Received /\ Stale

\* The handler of the main CPU runs while the receiver is full, and once it has
\* read the status its write withdraws the request.
HandlerOK ==
    /\ Mk2 => fw = {} /\ ~rxReq
    /\ ~Mk2 => (rxReq <=> gotbyte)
    /\ fw # {} => gotbyte
    /\ "ssr" \in fw => ssrRd
    /\ gotbyte \/ wpc \in {"read", "advance"} => rxOn

\* The inductive invariant: neither half is kept without the other.
IInv == RingInv /\ HandlerOK

-----------------------------------------------------------------------------
\* The pointer arithmetic modulo the ring size, as a case distinction.
LEMMA AdvanceCases ==
    ASSUME NEW p \in Slots
    PROVE  Advance(p) = IF p + 1 = Size THEN 0 ELSE p + 1
BY DEF Advance, Slots

LEMMA DistanceCases ==
    \A a, b \in Slots : (a + Size - b) % Size = IF a >= b THEN a - b ELSE a + Size - b
BY DEF Slots

\* How full the ring is, before and after a step.
LEMMA OccupiedCases ==
    /\ wp \in Slots /\ rp \in Slots =>
          Occupied = IF wp >= rp THEN wp - rp ELSE wp + Size - rp
    /\ wp' \in Slots /\ rp' \in Slots =>
          Occupied' = IF wp' >= rp' THEN wp' - rp' ELSE wp' + Size - rp'
BY DistanceCases DEF Occupied

\* Moving the write pointer on adds a byte, moving the read pointer on takes one.
LEMMA OccupiedGrows ==
    ASSUME wp \in Slots, rp \in Slots, Occupied < Size - 1,
           wp' = Advance(wp), rp' = rp
    PROVE  wp' \in Slots /\ Occupied' = Occupied + 1
BY OccupiedCases, AdvanceCases DEF Slots

LEMMA OccupiedShrinks ==
    ASSUME wp \in Slots, rp \in Slots, Occupied > 0,
           rp' = Advance(rp), wp' = wp
    PROVE  rp' \in Slots /\ Occupied' = Occupied - 1
BY OccupiedCases, AdvanceCases DEF Slots

\* The schedule's events have types, and each starts where the last one ended.
LEMMA ScheduleFacts ==
    /\ Len(Schedule) \in Nat
    /\ \A e \in 1 .. Len(Schedule) :
          /\ Schedule[e].cycle \in Nat /\ Schedule[e].off \in Nat
          /\ Schedule[e].len \in Nat \ {0}
          /\ e < Len(Schedule) => Schedule[e + 1].off = Schedule[e].off + Schedule[e].len
          /\ Schedule[e].off + Schedule[e].len <= Total
          /\ e = Len(Schedule) => Total = Schedule[e].off + Schedule[e].len
    /\ Total \in Nat
    /\ Len(Schedule) = 0 => Total = 0
    /\ Len(Schedule) > 0 => Schedule[1].off = 0
<1>1. Len(Schedule) \in Nat
  BY ScheduleAssumption
<1>2. ASSUME NEW e \in 1 .. Len(Schedule)
      PROVE  Schedule[e] \in Event
  BY <1>2, ScheduleAssumption
<1>3. Schedule = <<>> <=> Len(Schedule) = 0
  BY ScheduleAssumption
<1>4. \A e \in 1 .. Len(Schedule) : e < Len(Schedule) => e \in 1 .. Len(Schedule) - 1
  BY <1>1
<1>5. Len(Schedule) > 0 => Len(Schedule) \in 1 .. Len(Schedule)
  BY <1>1
<1>6. Total \in Nat
  BY <1>1, <1>2, <1>3, <1>5 DEF Total, Event
<1> QED
  BY <1>1, <1>2, <1>3, <1>4, <1>6, ScheduleAssumption DEF Total, Event

\* Where the post count stands in the schedule.
LEMMA PostedInEvent ==
    /\ idx \in Nat /\ hostPos \in Nat =>
          /\ ev \in 1 .. Len(Schedule) => Posted = Schedule[ev].off + idx + hostPos
          /\ ev = Len(Schedule) + 1 => Posted = Total + hostPos
    /\ idx' \in Nat /\ hostPos' \in Nat =>
          /\ ev' \in 1 .. Len(Schedule) => Posted' = Schedule[ev'].off + idx' + hostPos'
          /\ ev' = Len(Schedule) + 1 => Posted' = Total + hostPos'
BY ScheduleFacts DEF Posted, SequencerPosted

\* A byte that was received is a number, and stays one that was received.
LEMMA ByteIs ==
    /\ \A k \in Int : Byte(k) \in Int
    /\ \A k \in Int : k <= Total => Byte(k) = k
    /\ \A k \in Nat : k > 0 => Byte(Total + k) = -k
    /\ \A b, n \in Int : Old(b, n) => Old(b, n + 1)
<1>1. Total \in Nat
  BY ScheduleFacts
<1>2. ASSUME NEW b \in Int, NEW n \in Int, Old(b, n) PROVE Old(b, n + 1)
  BY <1>2 DEF Old
<1> QED
  BY <1>1, <1>2 DEF Byte

-----------------------------------------------------------------------------
(* The invariant is inductive.                                             *)

LEMMA HeldCases ==
    /\ gotbyte /\ "rdr" \notin fw => Held = 1
    /\ ~gotbyte \/ "rdr" \in fw => Held = 0
    /\ gotbyte' /\ "rdr" \notin fw' => Held' = 1
    /\ ~gotbyte' \/ "rdr" \in fw' => Held' = 0
BY DEF Held, HeldIn

LEMMA CountTypes ==
    ASSUME TypeOK
    PROVE  Occupied \in 0 .. Size - 1 /\ Posted \in Nat
<1>1. Occupied \in 0 .. Size - 1
  BY OccupiedCases DEF TypeOK, RingTypeOK, Slots
<1>2. Posted \in Nat
  <2>1. hostPos \in Nat
    BY DEF TypeOK, ThreadTypeOK
  <2> QED
    BY <2>1, ScheduleFacts, PostedInEvent DEF TypeOK, SequencerTypeOK
<1> QED
  BY <1>1, <1>2

\* What leaves the slot at the write pointer and the post count alone, and
\* makes no ring fuller, leaves the host its room.
LEMMA HostKept ==
    ASSUME TypeOK, HostHasRoom, UNCHANGED <<buf, wp, ev, host>>, Posted' = Posted,
           Occupied' \in Int, Occupied' <= Occupied
    PROVE  HostHasRoom'
<1>1. Occupied \in Int
  BY CountTypes
<1> QED
  BY <1>1 DEF HostHasRoom, host

\* During the schedule the host has posted nothing.
LEMMA HostOut ==
    ASSUME TypeOK, HostHasRoom, ev <= Len(Schedule), UNCHANGED host
    PROVE  hpc = "idle" /\ hostPos = 0 /\ hostPos' = 0 /\ HostHasRoom'
<1>1. ev # Len(Schedule) + 1 /\ hostPos \in Nat
  BY ScheduleFacts DEF TypeOK, SequencerTypeOK, ThreadTypeOK
<1>2. hpc = "idle" /\ ~(hostPos > 0)
  BY <1>1 DEF HostHasRoom
<1> QED
  BY <1>1, <1>2 DEF HostHasRoom, host

LEMMA InitIInv ==
    ASSUME Init
    PROVE  RingInv /\ HandlerOK
<1>1. TypeOK
  <2>1. RingTypeOK
    BY DEF Init, RingTypeOK, Slots
  <2>2. ReceiverTypeOK
    <3>1. gotbyte \in BOOLEAN /\ rxOn \in BOOLEAN
      BY DEF Init
    <3>2. rxByte \in Int /\ wait \in 0 .. RxDelay /\ received \in Seq(Int)
      BY DEF Init
    <3>3. rxReq \in BOOLEAN /\ ssrRd \in BOOLEAN /\ fw \in SUBSET {"rdr", "ssr"}
      BY DEF Init
    <3> QED
      BY <3>1, <3>2, <3>3 DEF ReceiverTypeOK
  <2>3. SequencerTypeOK
    BY ScheduleFacts DEF Init, SequencerTypeOK, Slots
  <2>4. ThreadTypeOK
    BY DEF Init, ThreadTypeOK, Slots
  <2> QED
    BY <2>1, <2>2, <2>3, <2>4 DEF TypeOK
<1>2. Occupied = 0
  BY OccupiedCases DEF Init, Slots
<1>3. Posted = 0
  BY ScheduleFacts, PostedInEvent DEF Init
<1>4. HostHasRoom /\ RoomForEvent /\ BetweenEvents
  BY DEF Init, HostHasRoom, RoomForEvent, BetweenEvents
<1>5. Contents
  BY <1>2 DEF Init, Contents
<1>6. Received
  <2>1. ~gotbyte /\ Len(received) = 0
    BY DEF Init
  <2> QED
    BY <1>2, <1>3, <2>1, HeldCases DEF Received
<1>7. Stale
  BY DEF Init, Stale, Old
<1>8. HandlerOK
  BY DEF Init, HandlerOK
<1> QED
  BY <1>1, <1>4, <1>5, <1>6, <1>7, <1>8 DEF RingInv

\* The receiver, the handler's progress and the request stay in step.
LEMMA HandlerStep ==
    ASSUME ReceiverTypeOK, HandlerOK, [Next]_vars, wpc = "advance" => ~gotbyte
    PROVE  HandlerOK'
<1>1. CASE EnableRx \/ OtherInstr \/ Sequencer \/ HostThread \/ RxSkip \/ RxRead \/ UNCHANGED vars
  <2>1. UNCHANGED <<gotbyte, rxReq, ssrRd, fw>>
    BY <1>1 DEF EnableRx, OtherInstr, Sequencer, PollStop, PollStart, SeqStore, SeqPublish,
       HostThread, HostLoad, HostStore, HostPublish, RxSkip, RxRead, receiver, handler, vars
  <2>2. /\ rxOn' = rxOn \/ rxOn' = TRUE
        /\ wpc' \in {"read", "advance"} => wpc \in {"read", "advance"}
    BY <1>1 DEF EnableRx, OtherInstr, Sequencer, PollStop, PollStart, SeqStore, SeqPublish,
       HostThread, HostLoad, HostStore, HostPublish, RxSkip, RxRead, receiver, Tick, vars
  <2> QED
    BY <2>1, <2>2 DEF HandlerOK
<1>2. CASE ReadData
  <2>1. Mk2 /\ ~gotbyte' /\ wpc' = "poll" /\ UNCHANGED <<rxReq, ssrRd, fw>>
    BY <1>2 DEF ReadData, Tick, handler
  <2> QED
    BY <2>1 DEF HandlerOK
<1>3. CASE ReadRDR \/ ReadSSR
  <2>1. /\ rxReq /\ wpc' = "poll" /\ UNCHANGED <<gotbyte, rxReq, rxOn>>
        /\ "ssr" \in fw' => ("ssr" \in fw /\ ssrRd' = ssrRd) \/ ssrRd' = gotbyte
    BY <1>3 DEF ReadRDR, ReadSSR, Tick
  <2> QED
    BY <2>1 DEF HandlerOK
<1>4. CASE WriteSSR
  <2>1. /\ "ssr" \in fw /\ fw' = {} /\ ~gotbyte' /\ wpc' = "poll"
        /\ ssrRd => ~rxReq'
    BY <1>4 DEF WriteSSR, Tick
  <2> QED
    BY <2>1 DEF HandlerOK
<1>5. CASE RxStart
  <2>1. rxOn /\ UNCHANGED <<gotbyte, rxReq, ssrRd, fw, rxOn>>
    BY <1>5 DEF RxStart, Receivable, receiver
  <2> QED
    BY <2>1 DEF HandlerOK
<1>6. CASE RxAdvance
  <2>1. /\ wpc = "advance" /\ gotbyte' = TRUE /\ rxReq' = ~Mk2 /\ UNCHANGED <<rxOn, ssrRd, fw>>
    BY <1>6 DEF RxAdvance
  <2> QED
    BY <2>1 DEF HandlerOK
<1> QED
  BY <1>1, <1>2, <1>3, <1>4, <1>5, <1>6
     DEF Next, WorkThread, Firmware, Fetch, Receiver

\* Steps that leave the ring and the sequencer alone keep the counts.
LEMMA RingUnchanged ==
    ASSUME UNCHANGED <<ring, ev, idx, hostPos, hpc>>
    PROVE  /\ Occupied' = Occupied /\ Posted' = Posted
           /\ midiseq_free_bytes' = midiseq_free_bytes
           /\ \A k : Slot(k)' = Slot(k)
           /\ Stale /\ wpc # "publish" => Stale'
<1>1. UNCHANGED <<buf, wp, rp, ev, idx, hostPos, hpc>>
  BY DEF ring
<1>2. Occupied' = Occupied /\ Posted' = Posted
  BY <1>1 DEF Occupied, Posted, SequencerPosted
<1>3. Stale /\ wpc # "publish" => Stale'
  BY <1>1, <1>2 DEF Stale, Distance, Filled
<1> QED
  BY <1>1, <1>2, <1>3 DEF midiseq_free_bytes, Slot

LEMMA FirmwareIInv ==
    ASSUME IInv, Firmware
    PROVE  RingInv'
<1>1. /\ UNCHANGED <<ring, sequencer, host, rxByte>>
      /\ wpc = "instr" /\ wpc' = "poll"
      /\ now' \in 0 .. MaxCycle
  BY DEF Firmware, Fetch, EnableRx, ReadData, ReadRDR, ReadSSR, WriteSSR, OtherInstr, Tick,
     IInv, RingInv, TypeOK, ThreadTypeOK, receiver
<1>2. /\ Occupied' = Occupied /\ Posted' = Posted
      /\ midiseq_free_bytes' = midiseq_free_bytes
      /\ \A k : Slot(k)' = Slot(k)
  BY <1>1, RingUnchanged DEF ring, sequencer, host
<1>3. RingTypeOK' /\ SequencerTypeOK' /\ ThreadTypeOK' /\ HostHasRoom'
  <2>1. RingTypeOK' /\ SequencerTypeOK' /\ ThreadTypeOK'
    BY <1>1 DEF IInv, RingInv, TypeOK, RingTypeOK, SequencerTypeOK, ThreadTypeOK,
       ring, sequencer, host
  <2>2. Occupied \in Int
    BY CountTypes DEF IInv, RingInv
  <2>3. HostHasRoom'
    BY <1>1, <1>2, <2>2, HostKept DEF IInv, RingInv, ring, sequencer
  <2> QED
    BY <2>1, <2>3
<1>4. RoomForEvent' /\ BetweenEvents' /\ Stale'
  <2>1. RoomForEvent' /\ BetweenEvents'
    BY <1>1 DEF IInv, RingInv, RoomForEvent, BetweenEvents, sequencer
  <2>2. Stale'
    BY <1>1, RingUnchanged DEF IInv, RingInv, ring, sequencer, host
  <2> QED
    BY <2>1, <2>2
<1>5. CASE EnableRx \/ OtherInstr
  <2>1. UNCHANGED <<gotbyte, received, wait, rxReq, ssrRd, fw>>
    BY <1>5 DEF EnableRx, OtherInstr, receiver, handler
  <2>2. ReceiverTypeOK'
    <3>1. rxOn' \in BOOLEAN
      BY <1>5 DEF EnableRx, OtherInstr, receiver, IInv, RingInv, TypeOK, ReceiverTypeOK
    <3> QED
      BY <1>1, <2>1, <3>1 DEF IInv, RingInv, TypeOK, ReceiverTypeOK
  <2>3. Contents'
    BY <1>1, <1>2, <2>1 DEF IInv, RingInv, Contents, ring
  <2>4. Received'
    BY <1>2, <2>1 DEF IInv, RingInv, Received, Held
  <2> QED
    BY <1>3, <1>4, <2>2, <2>3, <2>4 DEF IInv, RingInv, TypeOK
<1>6. CASE ReadData
  <2>1. /\ gotbyte /\ ~gotbyte' /\ received' = Append(received, rxByte)
        /\ "rdr" \notin fw /\ UNCHANGED <<rxReq, ssrRd, fw>>
    BY <1>6 DEF ReadData, IInv, RingInv, HandlerOK, handler
  <2>2. ReceiverTypeOK'
    <3>0. gotbyte' \in BOOLEAN
      BY <1>6 DEF ReadData
    <3>1. received' \in Seq(Int)
      BY <2>1 DEF IInv, RingInv, TypeOK, ReceiverTypeOK
    <3>2. rxOn' \in BOOLEAN /\ rxByte' \in Int
      BY <1>6 DEF ReadData, IInv, RingInv, TypeOK, ReceiverTypeOK
    <3>3. wait' \in 0 .. RxDelay
      BY <1>6 DEF ReadData, IInv, RingInv, TypeOK, ReceiverTypeOK
    <3> QED
      BY <2>1, <3>0, <3>1, <3>2, <3>3 DEF IInv, RingInv, TypeOK, ReceiverTypeOK
  <2>3. Contents'
    BY <1>1, <1>2, <2>1 DEF IInv, RingInv, Contents, ring
  <2>4. Received'
    <3>1. /\ Len(received) \in Nat
          /\ Len(received') = Len(received) + 1
          /\ \A i \in 1 .. Len(received') :
                received'[i] = IF i = Len(received) + 1 THEN rxByte ELSE received[i]
      BY <2>1 DEF IInv, RingInv, TypeOK, ReceiverTypeOK
    <3>2. rxByte = Byte(Posted - Occupied)
      BY <2>1 DEF IInv, RingInv, Contents
    <3>3. Posted - Occupied \in Int /\ Held = 1
      BY <2>1, CountTypes, HeldCases DEF IInv, RingInv
    <3> QED
      BY <1>2, <2>1, <3>1, <3>2, <3>3, HeldCases DEF IInv, RingInv, Received
  <2> QED
    BY <1>3, <1>4, <2>2, <2>3, <2>4 DEF IInv, RingInv, TypeOK
<1>7. CASE ReadRDR
  <2>1. /\ gotbyte /\ gotbyte' = gotbyte /\ received' = Append(received, rxByte)
        /\ "rdr" \notin fw /\ fw' = fw \cup {"rdr"} /\ UNCHANGED <<rxOn, wait, rxReq, ssrRd>>
    BY <1>7 DEF ReadRDR, IInv, HandlerOK
  <2>2. ReceiverTypeOK'
    <3>1. received' \in Seq(Int) /\ fw' \in SUBSET {"rdr", "ssr"}
      BY <2>1 DEF IInv, RingInv, TypeOK, ReceiverTypeOK
    <3> QED
      BY <1>1, <2>1, <3>1 DEF IInv, RingInv, TypeOK, ReceiverTypeOK
  <2>3. Contents'
    BY <1>1, <1>2, <2>1 DEF IInv, RingInv, Contents, ring
  <2>4. Received'
    <3>1. /\ Len(received) \in Nat
          /\ Len(received') = Len(received) + 1
          /\ \A i \in 1 .. Len(received') :
                received'[i] = IF i = Len(received) + 1 THEN rxByte ELSE received[i]
      BY <2>1 DEF IInv, RingInv, TypeOK, ReceiverTypeOK
    <3>2. rxByte = Byte(Posted - Occupied)
      BY <2>1 DEF IInv, RingInv, Contents
    <3>3. Posted - Occupied \in Int /\ Held = 1 /\ Held' = 0
      BY <2>1, CountTypes, HeldCases DEF IInv, RingInv
    <3> QED
      BY <1>2, <3>1, <3>2, <3>3 DEF IInv, RingInv, Received
  <2> QED
    BY <1>3, <1>4, <2>2, <2>3, <2>4 DEF RingInv, TypeOK
<1>8. CASE ReadSSR \/ WriteSSR
  <2>1. /\ UNCHANGED <<rxOn, received>>
        /\ \/ gotbyte' = gotbyte /\ ("rdr" \in fw' <=> "rdr" \in fw)
           \/ ~gotbyte' /\ "rdr" \in fw
    BY <1>8 DEF ReadSSR, WriteSSR
  <2>2. ReceiverTypeOK'
    <3>1. gotbyte' \in BOOLEAN /\ ssrRd' \in BOOLEAN
      BY <1>8 DEF ReadSSR, WriteSSR, IInv, RingInv, TypeOK, ReceiverTypeOK
    <3>2. rxReq' \in BOOLEAN /\ fw' \in SUBSET {"rdr", "ssr"}
      BY <1>8 DEF ReadSSR, WriteSSR, IInv, RingInv, TypeOK, ReceiverTypeOK
    <3>3. wait' = wait \/ wait' = RxDelay
      BY <1>8 DEF ReadSSR, WriteSSR
    <3>4. wait' \in 0 .. RxDelay
      BY <3>3 DEF IInv, RingInv, TypeOK, ReceiverTypeOK
    <3> QED
      BY <1>1, <2>1, <3>1, <3>2, <3>4 DEF IInv, RingInv, TypeOK, ReceiverTypeOK
  <2>3. Contents'
    BY <1>1, <1>2, <2>1 DEF IInv, RingInv, Contents, ring
  <2>4. Received'
    <3>1. Held' = Held
      BY <2>1 DEF Held, HeldIn
    <3> QED
      BY <1>2, <2>1, <3>1 DEF IInv, RingInv, Received
  <2> QED
    BY <1>3, <1>4, <2>2, <2>3, <2>4 DEF RingInv, TypeOK
<1> QED
  BY <1>5, <1>6, <1>7, <1>8 DEF Firmware, Fetch

\* The unread bytes occupy distinct slots, the next post goes to the one after.
LEMMA SlotFacts ==
    ASSUME RingTypeOK
    PROVE  /\ \A k \in 0 .. Occupied - 1 : Slot(k) \in Slots /\ Slot(k) # wp
           /\ Slot(Occupied) = wp
           /\ Slot(0) = rp
           /\ wp # rp => Occupied > 0
BY OccupiedCases DEF RingTypeOK, Slots, Slot

\* The byte behind k others of the last n of m is the m-th.
LEMMA LastOne == \A m, n \in Int : m - n + n + 1 = m + 1
  OBVIOUS

\* Publishing a byte moves the post count on by one, within an event and
\* from one event to the next.
LEMMA PublishPosts ==
    ASSUME IInv, SeqPublish
    PROVE  Posted' = Posted + 1
<1>1. wpc = "publish" /\ ev <= Len(Schedule) /\ idx < Schedule[ev].len
  BY DEF SeqPublish, IInv, RingInv, RoomForEvent
<1>2. /\ ev \in 1 .. Len(Schedule) /\ idx \in Nat /\ Schedule[ev].len \in Nat
      /\ Schedule[ev].off \in Nat
  BY <1>1, ScheduleFacts DEF IInv, RingInv, TypeOK, SequencerTypeOK
<1>3. \/ idx + 1 < Schedule[ev].len /\ idx' = idx + 1 /\ ev' = ev
      \/ idx + 1 = Schedule[ev].len /\ idx' = 0 /\ ev' = ev + 1
  BY <1>1, <1>2 DEF SeqPublish
<1>0. hostPos = 0 /\ hostPos' = 0 /\ hostPos \in Nat /\ idx' \in Nat
  <2>1. hostPos = 0 /\ hostPos' = 0
    BY <1>1, HostOut DEF IInv, RingInv, SeqPublish
  <2> QED
    BY <1>2, <1>3, <2>1
<1>4. Posted = Schedule[ev].off + idx
  BY <1>0, <1>2, PostedInEvent
<1>5. CASE ev' = ev /\ idx' = idx + 1
  BY <1>0, <1>2, <1>4, <1>5, PostedInEvent
<1>6. CASE ev' = ev + 1 /\ idx' = 0 /\ idx + 1 = Schedule[ev].len /\ ev < Len(Schedule)
  <2>1. ev + 1 \in 1 .. Len(Schedule)
    BY <1>2, <1>6, ScheduleFacts
  <2>2. Schedule[ev'].off = Schedule[ev].off + Schedule[ev].len
    BY <1>2, <1>6, ScheduleFacts
  <2>3. Posted' = Schedule[ev'].off + idx' + hostPos'
    BY <1>0, <1>6, <2>1, PostedInEvent
  <2>4. idx' = 0 /\ idx + 1 = Schedule[ev].len
    BY <1>6
  <2> QED
    BY <1>0, <1>2, <1>4, <2>2, <2>3, <2>4
<1>7. CASE ev' = ev + 1 /\ idx' = 0 /\ idx + 1 = Schedule[ev].len /\ ev = Len(Schedule)
  <2>1. Total = Schedule[ev].off + Schedule[ev].len
    BY <1>2, <1>7, ScheduleFacts
  <2>2. Posted' = Total + hostPos' /\ Total \in Nat
    BY <1>0, <1>2, <1>7, PostedInEvent, ScheduleFacts
  <2> QED
    BY <1>0, <1>2, <1>4, <1>7, <2>1, <2>2
<1> QED
  BY <1>2, <1>3, <1>5, <1>6, <1>7, ScheduleFacts

\* Never more is posted than the schedule and the host hold.
LEMMA PostedBound ==
    ASSUME IInv
    PROVE  Posted <= Total + hostPos /\ hostPos \in 0 .. HostBytes
<1>0. hostPos \in 0 .. HostBytes /\ hostPos \in Nat /\ idx \in Nat
  BY DEF IInv, RingInv, TypeOK, ThreadTypeOK, SequencerTypeOK
<1>1. CASE ev = Len(Schedule) + 1
  BY <1>0, <1>1, PostedInEvent, ScheduleFacts
<1>2. CASE ev \in 1 .. Len(Schedule)
  <2>1. Posted = Schedule[ev].off + idx + hostPos
    BY <1>0, <1>2, PostedInEvent
  <2>2. idx <= Schedule[ev].len
    <3>1. wpc \in {"store", "publish"} => idx < Schedule[ev].len
      BY DEF IInv, RingInv, RoomForEvent
    <3>2. wpc \notin {"store", "publish"} => idx = 0
      BY DEF IInv, RingInv, BetweenEvents
    <3> QED
      BY <1>0, <1>2, <3>1, <3>2, ScheduleFacts
  <2>3. /\ Schedule[ev].off + Schedule[ev].len <= Total /\ Total \in Nat
        /\ Schedule[ev].off \in Nat /\ Schedule[ev].len \in Nat
    BY <1>2, ScheduleFacts
  <2> QED
    BY <1>0, <2>1, <2>2, <2>3
<1> QED
  BY <1>1, <1>2, ScheduleFacts DEF IInv, RingInv, TypeOK, SequencerTypeOK

LEMMA SequencerIInv ==
    ASSUME IInv, Sequencer
    PROVE  RingInv'
<1>1. /\ UNCHANGED <<rp, receiver, host, now, received>>
      /\ wpc' \in {"rx", "store", "publish", "poll"}
  BY DEF Sequencer, PollStop, PollStart, SeqStore, SeqPublish, ring
<1>2. ReceiverTypeOK' /\ ThreadTypeOK'
  BY <1>1 DEF IInv, RingInv, TypeOK, ReceiverTypeOK, ThreadTypeOK, receiver, host
<1>3. Occupied \in 0 .. Size - 1 /\ Posted \in Nat
  BY CountTypes DEF IInv, RingInv
<1>4. CASE PollStop
  <2>1. UNCHANGED <<ring, sequencer, hostPos, hpc>> /\ wpc = "poll" /\ wpc' = "rx"
    BY <1>4 DEF PollStop, host
  <2>2. /\ Occupied' = Occupied /\ Posted' = Posted
        /\ \A k : Slot(k)' = Slot(k)
        /\ Stale'
    BY <2>1, RingUnchanged DEF sequencer, IInv, RingInv
  <2>3. RingTypeOK' /\ SequencerTypeOK'
    BY <2>1 DEF IInv, RingInv, TypeOK, RingTypeOK, SequencerTypeOK, ring, sequencer
  <2>4. RoomForEvent' /\ BetweenEvents'
    BY <2>1 DEF IInv, RingInv, RoomForEvent, BetweenEvents, sequencer
  <2>5. Contents'
    BY <1>1, <2>1, <2>2 DEF IInv, RingInv, Contents, ring, receiver
  <2>6. Received'
    BY <1>1, <2>2 DEF IInv, RingInv, Received, Held, receiver
  <2>7. HostHasRoom'
    BY <1>1, <1>3, <2>1, <2>2, HostKept DEF IInv, RingInv, ring, sequencer
  <2> QED
    BY <1>2, <2>2, <2>3, <2>4, <2>5, <2>6, <2>7 DEF IInv, RingInv, TypeOK
<1>5. CASE PollStart
  <2>1. /\ UNCHANGED <<ring, ev, hostPos, hpc>> /\ wpc = "poll" /\ wpc' = "store"
        /\ idx = 0 /\ idx' = 0 /\ seqTmp' = wp
        /\ ev <= Len(Schedule) /\ Schedule[ev].len <= midiseq_free_bytes
    <3>1. ev \in 1 .. Len(Schedule)
      BY <1>5, ScheduleFacts DEF PollStart, Due, IInv, RingInv, TypeOK, SequencerTypeOK
    <3>2. midiseq_free_bytes \in Nat /\ Schedule[ev].len \in Nat
      BY <1>3, <3>1, ScheduleFacts DEF midiseq_free_bytes
    <3> QED
      BY <1>5, <3>1, <3>2, ScheduleFacts DEF PollStart, host, IInv, RingInv, BetweenEvents
  <2>2. /\ Occupied' = Occupied /\ Posted' = Posted
        /\ midiseq_free_bytes' = midiseq_free_bytes
        /\ \A k : Slot(k)' = Slot(k)
        /\ Stale'
    BY <2>1, RingUnchanged DEF IInv, RingInv
  <2>3. RingTypeOK' /\ SequencerTypeOK'
    BY <2>1 DEF IInv, RingInv, TypeOK, RingTypeOK, SequencerTypeOK, ring
  <2>4. RoomForEvent' /\ BetweenEvents'
    <3>1. ev \in 1 .. Len(Schedule)
      BY <2>1, ScheduleFacts DEF IInv, RingInv, TypeOK, SequencerTypeOK
    <3>2. Schedule[ev].len \in Nat /\ Schedule[ev].len > 0
      BY <3>1, ScheduleFacts
    <3> QED
      BY <2>1, <2>2, <3>2 DEF RoomForEvent, BetweenEvents, ring
  <2>5. Contents'
    BY <1>1, <2>1, <2>2 DEF IInv, RingInv, Contents, ring, receiver
  <2>6. Received'
    BY <1>1, <2>2 DEF IInv, RingInv, Received, Held, receiver
  <2>7. HostHasRoom'
    BY <1>1, <1>3, <2>1, <2>2, HostKept DEF IInv, RingInv, ring
  <2> QED
    BY <1>2, <2>2, <2>3, <2>4, <2>5, <2>6, <2>7 DEF IInv, RingInv, TypeOK
<1>6. CASE SeqStore
  <2>0. hostPos = 0 /\ hpc = "idle" /\ ev <= Len(Schedule) /\ HostHasRoom'
    BY <1>1, <1>6, HostOut DEF SeqStore, IInv, RingInv, RoomForEvent
  <2>1. /\ UNCHANGED <<wp, rp, sequencer, hostPos>> /\ wpc = "store" /\ wpc' = "publish"
        /\ seqTmp = wp /\ buf' = [buf EXCEPT ![wp] = Schedule[ev].off + idx + 1]
    BY <1>6 DEF SeqStore, host, IInv, RingInv, RoomForEvent
  <2>2. /\ Posted = Schedule[ev].off + idx /\ Posted' = Posted
        /\ Byte(Posted + 1) = Posted + 1 /\ Posted + 1 \in Int
    <3>1. ev \in 1 .. Len(Schedule) /\ idx \in Nat
      BY <2>1, ScheduleFacts DEF IInv, RingInv, RoomForEvent, TypeOK, SequencerTypeOK
    <3>2. Posted = Schedule[ev].off + idx /\ Posted' = Posted
      BY <2>0, <2>1, <3>1, PostedInEvent, ScheduleFacts DEF sequencer
    <3>3. idx < Schedule[ev].len
      BY <2>1 DEF IInv, RingInv, RoomForEvent
    <3>4. /\ Schedule[ev].off \in Nat /\ Schedule[ev].len \in Nat /\ Total \in Nat
          /\ Schedule[ev].off + Schedule[ev].len <= Total
      BY <3>1, ScheduleFacts
    <3>5. Posted \in Int /\ Posted + 1 <= Total
      BY <3>1, <3>2, <3>3, <3>4
    <3> QED
      BY <3>2, <3>5, ByteIs
  <2>3. /\ Occupied' = Occupied
        /\ midiseq_free_bytes' = midiseq_free_bytes
        /\ \A k : Slot(k)' = Slot(k)
    BY <2>1 DEF Occupied, midiseq_free_bytes, Slot
  <2>4. RingTypeOK' /\ SequencerTypeOK'
    BY <1>3, <2>1, <2>2 DEF IInv, RingInv, TypeOK, RingTypeOK, SequencerTypeOK, sequencer
  <2>5. RoomForEvent' /\ BetweenEvents'
    BY <2>1, <2>3 DEF IInv, RingInv, RoomForEvent, BetweenEvents, sequencer
  <2>6. Contents'
    <3>1. /\ \A k \in 0 .. Occupied - 1 : buf'[Slot(k)] = buf[Slot(k)]
          /\ buf'[wp] = Byte(Posted + 1)
      BY <2>1, <2>2, SlotFacts DEF IInv, RingInv, TypeOK, RingTypeOK
    <3> QED
      BY <1>1, <2>1, <2>2, <2>3, <3>1 DEF IInv, RingInv, Contents, receiver
  <2>7. Received'
    BY <1>1, <2>2, <2>3 DEF IInv, RingInv, Received, Held, receiver
  <2>8. Stale'
    <3>1. \A s \in Slots : s # wp => buf'[s] = buf[s]
      BY <2>1 DEF IInv, RingInv, TypeOK, RingTypeOK
    <3>2. \A s \in Slots : ~Filled(s)' => s # wp /\ ~Filled(s)
      BY <2>1 DEF Filled
    <3> QED
      BY <2>1, <2>2, <2>3, <3>1, <3>2 DEF IInv, RingInv, Stale, Distance
  <2> QED
    BY <1>2, <2>0, <2>4, <2>5, <2>6, <2>7, <2>8 DEF IInv, RingInv, TypeOK
<1>7. CASE SeqPublish
  <2>1. /\ UNCHANGED <<buf, rp>> /\ wpc = "publish"
        /\ wp' = Advance(wp) /\ seqTmp' = wp'
        /\ ev <= Len(Schedule) /\ idx < Schedule[ev].len
        /\ Schedule[ev].len - idx <= midiseq_free_bytes
    BY <1>7 DEF SeqPublish, IInv, RingInv, RoomForEvent
  <2>2. /\ ev \in 1 .. Len(Schedule) /\ idx \in Nat /\ Schedule[ev].len \in Nat
        /\ Schedule[ev].off \in Nat
    BY <2>1, ScheduleFacts DEF IInv, RingInv, TypeOK, SequencerTypeOK
  <2>3. Occupied < Size - 1
    BY <1>3, <2>1, <2>2 DEF midiseq_free_bytes
  <2>4. wp' \in Slots /\ Occupied' = Occupied + 1 /\ midiseq_free_bytes' = midiseq_free_bytes - 1
    BY <1>3, <2>1, <2>3, OccupiedGrows DEF IInv, RingInv, TypeOK, RingTypeOK, midiseq_free_bytes
  <2>5. \/ /\ idx + 1 < Schedule[ev].len /\ idx' = idx + 1 /\ wpc' = "store" /\ ev' = ev
        \/ /\ idx + 1 = Schedule[ev].len /\ idx' = 0 /\ wpc' = "poll" /\ ev' = ev + 1
    BY <1>7, <2>1, <2>2 DEF SeqPublish
  <2>6. Posted' = Posted + 1
    BY <1>7, PublishPosts
  <2>7. RingTypeOK' /\ SequencerTypeOK'
    <3>1. ev' \in 1 .. Len(Schedule) + 1 /\ idx' \in Nat
      BY <2>2, <2>5, ScheduleFacts
    <3> QED
      BY <2>1, <2>4, <3>1 DEF IInv, RingInv, TypeOK, RingTypeOK, SequencerTypeOK
  <2>8. RoomForEvent' /\ BetweenEvents'
    <3>1. midiseq_free_bytes \in Nat
      BY <1>3 DEF midiseq_free_bytes
    <3>2. CASE wpc' = "store" /\ ev' = ev /\ idx' = idx + 1 /\ idx + 1 < Schedule[ev].len
      BY <2>1, <2>2, <2>4, <3>1, <3>2 DEF RoomForEvent, BetweenEvents
    <3>3. CASE wpc' = "poll" /\ idx' = 0
      BY <3>3 DEF RoomForEvent, BetweenEvents
    <3> QED
      BY <2>5, <3>2, <3>3
  <2>9. Contents'
    <3>1. \A k \in 0 .. Occupied : Slot(k)' = Slot(k)
      BY <2>1 DEF Slot
    <3>2. \A k \in 0 .. Occupied : buf[Slot(k)] = Byte(Posted - Occupied + k + 1)
      BY <1>3, <2>1, SlotFacts, LastOne DEF IInv, RingInv, Contents, TypeOK
    <3>3. wpc' \in {"store", "poll"} /\ UNCHANGED <<gotbyte, rxByte>>
      BY <1>1, <2>5 DEF receiver
    <3>4. gotbyte => rxByte = Byte(Posted - Occupied)
      BY DEF IInv, RingInv, Contents
    <3>5. Posted' - Occupied' = Posted - Occupied /\ Occupied' - 1 = Occupied
      BY <1>3, <2>4, <2>6
    <3> QED
      BY <2>1, <3>1, <3>2, <3>3, <3>4, <3>5 DEF Contents
  <2>10. Received'
    <3>1. Posted' - Occupied' = Posted - Occupied
      BY <1>3, <2>4, <2>6
    <3>2. Held' = Held /\ received' = received
      BY <1>1 DEF Held, receiver
    <3> QED
      BY <3>1, <3>2 DEF IInv, RingInv, Received
  <2>11. Stale'
    <3>1. \A s \in Slots : Distance(s)' = Distance(s) /\ Distance(s) \in Int
      BY <2>1, DistanceCases DEF Distance, IInv, RingInv, TypeOK, RingTypeOK, Slots
    <3>2. Distance(wp) = Occupied
      BY DEF Distance, Occupied
    <3>3. Posted' - Occupied' = Posted - Occupied
      BY <1>3, <2>4, <2>6
    <3>4. \A s \in Slots : Distance(s)' >= Occupied' =>
                             Distance(s) >= Occupied /\ ~Filled(s)
      BY <1>3, <2>4, <3>1, <3>2 DEF Filled
    <3> QED
      BY <2>1, <3>3, <3>4 DEF IInv, RingInv, Stale
  <2>12. HostHasRoom'
    BY <1>1, <2>1, HostOut DEF IInv, RingInv
  <2> QED
    BY <1>2, <2>7, <2>8, <2>9, <2>10, <2>11, <2>12 DEF IInv, RingInv, TypeOK
<1> QED
  BY <1>4, <1>5, <1>6, <1>7 DEF Sequencer

LEMMA ReceiverIInv ==
    ASSUME IInv, Receiver
    PROVE  RingInv'
<1>1. /\ UNCHANGED <<buf, wp, rxOn, sequencer, host, now, received>>
      /\ wpc \in {"rx", "read", "advance"} /\ wpc' \in {"read", "advance", "instr"}
  BY DEF Receiver, RxSkip, RxStart, RxRead, RxAdvance, ring, receiver
<1>2. SequencerTypeOK' /\ ThreadTypeOK'
  BY <1>1 DEF IInv, RingInv, TypeOK, SequencerTypeOK, ThreadTypeOK, sequencer, host
<1>3. RoomForEvent' /\ BetweenEvents'
  BY <1>1 DEF IInv, RingInv, RoomForEvent, BetweenEvents, sequencer
<1>4. Occupied \in 0 .. Size - 1 /\ Posted \in Nat
  BY CountTypes DEF IInv, RingInv
<1>5. wait' \in 0 .. RxDelay
  <2>1. CASE RxSkip
    BY <2>1 DEF RxSkip, CountDown, IInv, RingInv, TypeOK, ReceiverTypeOK
  <2>2. CASE RxStart \/ RxRead
    BY <2>2 DEF RxStart, RxRead, receiver, IInv, RingInv, TypeOK, ReceiverTypeOK
  <2>3. CASE RxAdvance
    BY <2>3 DEF RxAdvance
  <2> QED
    BY <2>1, <2>2, <2>3 DEF Receiver
<1>9. UNCHANGED <<ssrRd, fw>> /\ rxReq' \in BOOLEAN
  <2>1. UNCHANGED <<ssrRd, fw>> /\ (rxReq' = rxReq \/ rxReq' = ~Mk2)
    BY DEF Receiver, RxSkip, RxStart, RxRead, RxAdvance, receiver, handler
  <2> QED
    BY <2>1, Zenon DEF IInv, RingInv, TypeOK, ReceiverTypeOK
<1>6. CASE RxSkip \/ RxStart
  <2>1. UNCHANGED <<ring, gotbyte, rxByte, ev, idx, hostPos, hpc>>
    BY <1>1, <1>6 DEF RxSkip, RxStart, receiver, sequencer, host
  <2>2. /\ Occupied' = Occupied /\ Posted' = Posted /\ \A k : Slot(k)' = Slot(k)
        /\ Stale'
    BY <1>1, <2>1, RingUnchanged DEF IInv, RingInv
  <2>3. RingTypeOK' /\ ReceiverTypeOK'
    BY <1>1, <1>5, <1>9, <2>1 DEF IInv, RingInv, TypeOK, RingTypeOK, ReceiverTypeOK, ring
  <2>4. wpc' = "instr" \/ (wpc' = "read" /\ Occupied > 0 /\ ~gotbyte)
    <3>1. CASE RxSkip
      BY <3>1 DEF RxSkip
    <3>2. CASE RxStart
      <4>1. wpc' = "read" /\ wp # rp /\ ~gotbyte
        BY <3>2 DEF RxStart, Receivable
      <4> QED
        BY <4>1, SlotFacts DEF IInv, RingInv, TypeOK
    <3> QED
      BY <1>6, <3>1, <3>2
  <2>5. Contents'
    BY <2>1, <2>2, <2>4 DEF IInv, RingInv, Contents, ring
  <2>6. Received'
    BY <1>1, <1>9, <2>1, <2>2 DEF IInv, RingInv, Received, Held
  <2>7. HostHasRoom'
    BY <1>1, <1>4, <2>1, <2>2, HostKept DEF IInv, RingInv, ring
  <2> QED
    BY <1>2, <1>3, <2>2, <2>3, <2>5, <2>6, <2>7 DEF IInv, RingInv, TypeOK
<1>7. CASE RxRead
  <2>1. /\ UNCHANGED <<ring, gotbyte, ev, idx, hostPos, hpc>>
        /\ rxByte' = buf[rp] /\ wpc = "read" /\ wpc' = "advance"
    BY <1>1, <1>7 DEF RxRead, sequencer, host
  <2>2. /\ Occupied' = Occupied /\ Posted' = Posted /\ \A k : Slot(k)' = Slot(k)
        /\ Stale'
    BY <1>1, <2>1, RingUnchanged DEF IInv, RingInv
  <2>3. Occupied > 0 /\ ~gotbyte /\ rxByte' = Byte(Posted - Occupied + 1) /\ rxByte' \in Int
    <3>1. Occupied > 0 /\ ~gotbyte
      BY <2>1 DEF IInv, RingInv, Contents
    <3>2. buf[Slot(0)] = Byte(Posted - Occupied + 0 + 1) /\ Posted - Occupied + 0 + 1 = Posted - Occupied + 1
      BY <1>4, <3>1 DEF IInv, RingInv, Contents
    <3>3. Byte(Posted - Occupied + 1) \in Int
      BY <1>4, ByteIs
    <3> QED
      BY <2>1, <3>1, <3>2, <3>3, SlotFacts DEF IInv, RingInv, TypeOK
  <2>4. RingTypeOK' /\ ReceiverTypeOK'
    BY <1>1, <1>4, <1>5, <1>9, <2>1, <2>3 DEF IInv, RingInv, TypeOK, RingTypeOK, ReceiverTypeOK, ring
  <2>5. Contents'
    BY <2>1, <2>2, <2>3 DEF IInv, RingInv, Contents, ring
  <2>6. Received'
    BY <1>1, <1>9, <2>1, <2>2 DEF IInv, RingInv, Received, Held
  <2>7. HostHasRoom'
    BY <1>1, <1>4, <2>1, <2>2, HostKept DEF IInv, RingInv, ring
  <2> QED
    BY <1>2, <1>3, <2>2, <2>4, <2>5, <2>6, <2>7 DEF IInv, RingInv, TypeOK
<1>8. CASE RxAdvance
  <2>1. /\ UNCHANGED <<buf, wp, rxByte, ev, idx, hostPos, hpc>>
        /\ rp' = Advance(rp) /\ wpc = "advance" /\ wpc' = "instr"
    BY <1>1, <1>8 DEF RxAdvance, sequencer, host
  <2>2. gotbyte' /\ gotbyte' \in BOOLEAN
    BY <1>8 DEF RxAdvance
  <2>3. Occupied > 0 /\ ~gotbyte /\ rxByte = Byte(Posted - Occupied + 1)
    BY <2>1 DEF IInv, RingInv, Contents
  <2>4. rp' \in Slots /\ Occupied' = Occupied - 1
    BY <2>1, <2>3, OccupiedShrinks DEF IInv, RingInv, TypeOK, RingTypeOK
  <2>5. Posted' = Posted
    BY <2>1 DEF Posted, SequencerPosted
  <2>6. \A k \in 0 .. Occupied - 2 : Slot(k)' = Slot(k + 1)
    BY <1>4, <2>1, AdvanceCases, OccupiedCases DEF Slot, IInv, RingInv, TypeOK, RingTypeOK, Slots
  <2>7. RingTypeOK' /\ ReceiverTypeOK'
    BY <1>1, <1>5, <1>9, <2>1, <2>2, <2>4 DEF IInv, RingInv, TypeOK, RingTypeOK, ReceiverTypeOK
  <2>8. Contents'
    <3>0. Posted' - Occupied' = Posted - Occupied + 1 /\ Occupied' - 1 = Occupied - 2
      BY <1>4, <2>4, <2>5
    <3>1. \A k \in 0 .. Occupied' - 1 : buf'[Slot(k)'] = Byte(Posted' - Occupied' + k + 1)
      <4>1. SUFFICES ASSUME NEW k \in 0 .. Occupied - 2
                     PROVE  buf[Slot(k + 1)] = Byte((Posted - Occupied + 1) + k + 1)
        BY <2>1, <2>6, <3>0
      <4>2. k + 1 \in 0 .. Occupied - 1
        BY <1>4
      <4>3. buf[Slot(k + 1)] = Byte(Posted - Occupied + (k + 1) + 1)
        BY <4>2 DEF IInv, RingInv, Contents
      <4>4. Posted - Occupied + (k + 1) + 1 = (Posted - Occupied + 1) + k + 1
        BY <1>4, <4>2
      <4> QED
        BY <4>3, <4>4
    <3>2. rxByte' = Byte(Posted' - Occupied')
      BY <2>1, <2>3, <3>0
    <3> QED
      BY <2>1, <3>1, <3>2 DEF Contents
  <2>9. Received'
    <3>0. fw = {} /\ fw' = {}
      BY <1>9, <2>3 DEF IInv, HandlerOK
    <3>1. Held = 0 /\ Held' = 1
      BY <2>2, <2>3, <3>0, HeldCases
    <3>2. Posted' - Occupied' - Held' = Posted - Occupied - Held
      BY <1>4, <2>4, <2>5, <3>1
    <3> QED
      BY <1>1, <3>2 DEF IInv, RingInv, Received
  <2>10. Stale'
    <3>1. buf[rp] = Byte(Posted - Occupied + 1)
      <4>1. buf[Slot(0)] = Byte(Posted - Occupied + 0 + 1)
        BY <1>4, <2>3 DEF IInv, RingInv, Contents
      <4>2. Posted - Occupied + 0 + 1 = Posted - Occupied + 1
        BY <1>4
      <4> QED
        BY <4>1, <4>2, SlotFacts DEF IInv, RingInv, TypeOK
    <3>2. \A s \in Slots : s # rp => Distance(s)' = Distance(s) - 1 /\ Distance(s) \in Int
      <4>1. SUFFICES ASSUME NEW s \in Slots, s # rp
                     PROVE  Distance(s)' = Distance(s) - 1 /\ Distance(s) \in Int
        OBVIOUS
      <4>2. rp \in Slots /\ rp' = IF rp + 1 = Size THEN 0 ELSE rp + 1
        BY <2>1, AdvanceCases DEF IInv, RingInv, TypeOK, RingTypeOK
      <4>3. Distance(s) = IF s >= rp THEN s - rp ELSE s + Size - rp
        BY <4>2, DistanceCases DEF Distance
      <4>4. Distance(s)' = IF s >= rp' THEN s - rp' ELSE s + Size - rp'
        BY <2>4, DistanceCases DEF Distance
      <4> QED
        BY <4>1, <4>2, <4>3, <4>4 DEF Slots
    <3>3. \A s \in Slots :
             s # rp /\ Distance(s)' >= Occupied' /\ ~Filled(s)' =>
                Old(buf[s], Posted - Occupied)
      <4>1. \A s \in Slots : s # rp /\ Distance(s)' >= Occupied' => Distance(s) >= Occupied
        BY <1>4, <2>4, <3>2
      <4>2. \A s : Filled(s) => Filled(s)'
        BY <2>1 DEF Filled
      <4> QED
        BY <4>1, <4>2 DEF IInv, RingInv, Stale
    <3>4. Posted' - Occupied' = Posted - Occupied + 1 /\ Posted - Occupied \in Int
      BY <1>4, <2>4, <2>5
    <3>5. 0 <= Posted - Occupied
      BY <2>3, <3>4, HeldCases DEF IInv, RingInv, Received, TypeOK, ReceiverTypeOK
    <3>6. Old(buf[rp], Posted - Occupied + 1)
      <4>1. Posted - Occupied + 1 \in 1 .. Posted - Occupied + 1
        BY <3>4, <3>5
      <4> QED
        BY <3>1, <4>1 DEF Old
    <3>7. \A s \in Slots : Old(buf[s], Posted - Occupied) => Old(buf[s], Posted - Occupied + 1)
      BY <3>4, ByteIs DEF IInv, RingInv, TypeOK, RingTypeOK
    <3> QED
      BY <2>1, <3>3, <3>4, <3>6, <3>7 DEF Stale
  <2>11. HostHasRoom'
    BY <1>1, <1>4, <2>1, <2>4, <2>5, HostKept DEF IInv, RingInv
  <2> QED
    BY <1>2, <1>3, <2>7, <2>8, <2>9, <2>10, <2>11 DEF IInv, RingInv, TypeOK
<1> QED
  BY <1>6, <1>7, <1>8 DEF Receiver

\* The host's thread, at any step of the receiver.
LEMMA HostIInv ==
    ASSUME OneProducer, IInv, HostThread
    PROVE  RingInv'
<1>1. /\ UNCHANGED <<rp, receiver, wpc, now, sequencer, received>>
      /\ hpc' \in {"idle", "store", "publish"}
  BY DEF HostThread, HostLoad, HostStore, HostPublish, ring
<1>2. Occupied \in 0 .. Size - 1 /\ Posted \in Nat
  BY CountTypes DEF IInv, RingInv
<1>3. ReceiverTypeOK' /\ SequencerTypeOK'
  BY <1>1 DEF IInv, RingInv, TypeOK, ReceiverTypeOK, SequencerTypeOK, receiver, sequencer
<1>4. ev = Len(Schedule) + 1 /\ hostPos \in Nat /\ hostPos < HostBytes /\ idx \in Nat
  <2>1. CASE HostLoad
    <3>1. HostPaced /\ hostPos < HostBytes
      BY <2>1 DEF HostLoad, OneProducer, IInv, RingInv, TypeOK, ThreadTypeOK
    <3> QED
      BY <2>1, <3>1, ScheduleFacts
         DEF HostLoad, IInv, RingInv, TypeOK, ThreadTypeOK, SequencerTypeOK
  <2>2. CASE HostStore \/ HostPublish
    BY <2>2 DEF HostStore, HostPublish, IInv, RingInv, HostHasRoom, TypeOK, ThreadTypeOK, SequencerTypeOK
  <2> QED
    BY <2>1, <2>2 DEF HostThread
<1>5. wpc \notin {"store", "publish"} /\ idx = 0
  BY <1>4, ScheduleFacts DEF IInv, RingInv, RoomForEvent, BetweenEvents
<1>6. RoomForEvent' /\ BetweenEvents'
  BY <1>1, <1>5 DEF RoomForEvent, BetweenEvents, sequencer
<1>7. Posted = Total + hostPos
  BY <1>4, PostedInEvent
<1>8. CASE HostLoad
  <2>1. /\ UNCHANGED <<ring, hostPos>> /\ hpc = "idle" /\ hpc' = "store" /\ hostTmp' = wp
        /\ Occupied < Size - 1
    BY <1>8 DEF HostLoad, OneProducer, IInv, RingInv, TypeOK, ThreadTypeOK
  <2>2. Occupied' = Occupied /\ Posted' = Posted /\ \A k : Slot(k)' = Slot(k)
    BY <1>1, <2>1 DEF Occupied, Posted, SequencerPosted, Slot, ring, sequencer
  <2>3. RingTypeOK' /\ ThreadTypeOK'
    BY <1>1, <2>1 DEF IInv, RingInv, TypeOK, RingTypeOK, ThreadTypeOK, ring
  <2>4. HostHasRoom'
    BY <1>1, <1>4, <2>1, <2>2 DEF HostHasRoom, ring, sequencer
  <2>5. Contents'
    BY <1>1, <2>1, <2>2 DEF IInv, RingInv, Contents, ring, receiver
  <2>6. Received'
    BY <1>1, <2>2 DEF IInv, RingInv, Received, Held, receiver
  <2>7. Stale'
    <3>1. \A s : Distance(s)' = Distance(s) /\ (Filled(s)' <=> Filled(s))
      BY <1>1, <2>1 DEF Distance, Filled, ring
    <3> QED
      BY <2>1, <2>2, <3>1 DEF IInv, RingInv, Stale, ring
  <2> QED
    BY <1>3, <1>6, <2>3, <2>4, <2>5, <2>6, <2>7 DEF IInv, RingInv, TypeOK
<1>9. CASE HostStore
  <2>1. /\ UNCHANGED <<wp, rp, hostPos, hostTmp>> /\ hpc = "store" /\ hpc' = "publish"
        /\ hostTmp = wp /\ Occupied < Size - 1
        /\ buf' = [buf EXCEPT ![wp] = -(hostPos + 1)]
    BY <1>9 DEF HostStore, IInv, RingInv, HostHasRoom
  <2>2. Byte(Posted + 1) = -(hostPos + 1) /\ Byte(Posted + 1) \in Int
    <3>1. Posted + 1 = Total + (hostPos + 1) /\ hostPos + 1 \in Nat /\ hostPos + 1 > 0
          /\ Posted + 1 \in Int
      BY <1>2, <1>4, <1>7, ScheduleFacts
    <3> QED
      BY <3>1, ByteIs
  <2>3. Occupied' = Occupied /\ Posted' = Posted /\ \A k : Slot(k)' = Slot(k)
    BY <1>1, <2>1 DEF Occupied, Posted, SequencerPosted, Slot, sequencer
  <2>4. RingTypeOK' /\ ThreadTypeOK'
    BY <1>1, <2>1, <2>2 DEF IInv, RingInv, TypeOK, RingTypeOK, ThreadTypeOK
  <2>5. /\ \A s \in Slots : s # wp => buf'[s] = buf[s]
        /\ buf'[wp] = Byte(Posted + 1)
    BY <2>1, <2>2 DEF IInv, RingInv, TypeOK, RingTypeOK
  <2>6. HostHasRoom'
    BY <1>1, <1>4, <2>1, <2>3, <2>5 DEF HostHasRoom, sequencer
  <2>7. Contents'
    <3>1. \A k \in 0 .. Occupied - 1 : buf'[Slot(k)] = buf[Slot(k)]
      BY <2>5, SlotFacts DEF IInv, RingInv, TypeOK
    <3> QED
      BY <1>1, <1>5, <2>3, <3>1 DEF IInv, RingInv, Contents, receiver
  <2>8. Received'
    BY <1>1, <2>3 DEF IInv, RingInv, Received, Held, receiver
  <2>9. Stale'
    <3>1. \A s \in Slots : ~Filled(s)' => s # wp /\ ~Filled(s)
      BY <2>1 DEF Filled
    <3>2. \A s : Distance(s)' = Distance(s)
      BY <2>1 DEF Distance
    <3> QED
      BY <2>3, <2>5, <3>1, <3>2 DEF IInv, RingInv, Stale
  <2> QED
    BY <1>3, <1>6, <2>4, <2>6, <2>7, <2>8, <2>9 DEF IInv, RingInv, TypeOK
<1>10. CASE HostPublish
  <2>1. /\ UNCHANGED <<buf, hostTmp>> /\ hpc = "publish" /\ hpc' = "idle"
        /\ wp' = Advance(wp) /\ hostPos' = hostPos + 1
        /\ Occupied < Size - 1 /\ buf[wp] = Byte(Posted + 1)
    BY <1>10 DEF HostPublish, IInv, RingInv, HostHasRoom
  <2>2. wp' \in Slots /\ Occupied' = Occupied + 1
    BY <1>1, <2>1, OccupiedGrows DEF IInv, RingInv, TypeOK, RingTypeOK
  <2>3. Posted' = Posted + 1
    <3>1. ev' = Len(Schedule) + 1 /\ idx' \in Nat /\ hostPos' \in Nat
      BY <1>1, <1>4, <2>1 DEF sequencer
    <3> QED
      BY <1>4, <1>7, <2>1, <3>1, PostedInEvent, ScheduleFacts
  <2>4. Posted' - Occupied' = Posted - Occupied /\ Occupied' - 1 = Occupied
    BY <1>2, <2>2, <2>3
  <2>5. RingTypeOK' /\ ThreadTypeOK'
    <3>1. hostPos' \in 0 .. HostBytes
      BY <1>4, <2>1
    <3> QED
      BY <1>1, <2>1, <2>2, <3>1 DEF IInv, RingInv, TypeOK, RingTypeOK, ThreadTypeOK
  <2>6. HostHasRoom'
    BY <1>1, <1>4, <2>1 DEF HostHasRoom, sequencer
  <2>7. Contents'
    <3>1. \A k \in 0 .. Occupied : Slot(k)' = Slot(k)
      BY <1>1 DEF Slot
    <3>2. \A k \in 0 .. Occupied : buf[Slot(k)] = Byte(Posted - Occupied + k + 1)
      BY <1>2, <2>1, SlotFacts, LastOne DEF IInv, RingInv, Contents, TypeOK
    <3>3. UNCHANGED <<wpc, gotbyte, rxByte>>
      BY <1>1 DEF receiver
    <3>4. Occupied > 0 => Occupied' > 0
      BY <1>2, <2>2
    <3> QED
      BY <1>5, <2>1, <2>4, <3>1, <3>2, <3>3, <3>4 DEF IInv, RingInv, Contents
  <2>8. Received'
    BY <1>1, <2>4 DEF IInv, RingInv, Received, Held, receiver
  <2>9. Stale'
    <3>1. \A s \in Slots : Distance(s)' = Distance(s) /\ Distance(s) \in Int
      BY <1>1, DistanceCases DEF Distance, IInv, RingInv, TypeOK, RingTypeOK, Slots
    <3>2. Distance(wp) = Occupied
      BY DEF Distance, Occupied
    <3>3. \A s \in Slots : Distance(s)' >= Occupied' =>
                             Distance(s) >= Occupied /\ ~Filled(s)
      BY <1>2, <2>2, <3>1, <3>2 DEF Filled
    <3> QED
      BY <2>1, <2>4, <3>3 DEF IInv, RingInv, Stale
  <2> QED
    BY <1>3, <1>6, <2>5, <2>6, <2>7, <2>8, <2>9 DEF IInv, RingInv, TypeOK
<1> QED
  BY <1>8, <1>9, <1>10 DEF HostThread

LEMMA StepIInv ==
    ASSUME OneProducer, IInv, [Next]_vars
    PROVE  IInv'
<1>0. HandlerOK'
  BY HandlerStep DEF IInv, RingInv, TypeOK, Contents
<1>1. CASE WorkThread
  BY <1>0, <1>1, FirmwareIInv, SequencerIInv, ReceiverIInv DEF WorkThread, IInv
<1>2. CASE HostThread
  BY <1>0, <1>2, HostIInv DEF IInv
<1>3. CASE UNCHANGED vars
  <2>1. UNCHANGED <<ring, gotbyte, rxByte, rxOn, wait, rxReq, ssrRd, fw, wpc, now,
                   ev, idx, seqTmp, host, received>>
    BY <1>3 DEF vars, receiver, sequencer
  <2>2. /\ Occupied' = Occupied /\ Posted' = Posted
        /\ midiseq_free_bytes' = midiseq_free_bytes
        /\ \A k : Slot(k)' = Slot(k)
    BY <2>1, RingUnchanged DEF host
  <2>3. TypeOK' /\ HostHasRoom'
    BY <2>1, <2>2 DEF IInv, RingInv, TypeOK, RingTypeOK, ReceiverTypeOK, SequencerTypeOK, ThreadTypeOK,
       HostHasRoom, ring, host
  <2>4. RoomForEvent' /\ BetweenEvents'
    BY <2>1, <2>2 DEF IInv, RingInv, RoomForEvent, BetweenEvents, ring
  <2>5. Contents' /\ Received'
    BY <2>1, <2>2 DEF IInv, RingInv, Contents, Received, Held, ring
  <2>6. Stale'
    BY <2>1, <2>2 DEF IInv, RingInv, Stale, Distance, Filled, ring, host
  <2> QED
    BY <1>0, <2>3, <2>4, <2>5, <2>6 DEF IInv, RingInv
<1> QED
  BY <1>1, <1>2, <1>3 DEF Next

\* With one producer at a time every reachable state satisfies the invariant.
THEOREM Invariant ==
    ASSUME OneProducer
    PROVE  Spec => []IInv
<1>1. Init => IInv
  BY InitIInv DEF IInv
<1>2. IInv /\ [Next]_vars => IInv'
  BY StepIInv
<1> QED
  BY <1>1, <1>2, PTL DEF Spec

-----------------------------------------------------------------------------
(* Types, whatever the host does.                                          *)

\* An event under way has a byte left, and so has a post of the host.
TypeInv ==
    /\ TypeOK
    /\ wpc \in {"store", "publish"} => ev <= Len(Schedule) /\ idx < Schedule[ev].len
    /\ hpc # "idle" => hostPos < HostBytes

LEMMA FirmwareTypeInv ==
    ASSUME TypeInv, Firmware
    PROVE  TypeInv'
<1>1. UNCHANGED <<ring, sequencer, host, rxByte>> /\ wpc' = "poll"
      /\ now' = IF now < MaxCycle THEN now + 1 ELSE now
  BY DEF Firmware, Fetch, EnableRx, ReadData, ReadRDR, ReadSSR, WriteSSR, OtherInstr, Tick, receiver
<1>2. gotbyte' \in BOOLEAN /\ rxOn' \in BOOLEAN /\ wait' \in 0 .. RxDelay
  <2>1. wait' = wait \/ wait' = RxDelay
    BY DEF Firmware, Fetch, EnableRx, ReadData, ReadRDR, ReadSSR, WriteSSR, OtherInstr, receiver
  <2>2. /\ gotbyte' = gotbyte \/ gotbyte' = FALSE
        /\ rxOn' = rxOn \/ rxOn' = TRUE
    BY DEF Firmware, Fetch, EnableRx, ReadData, ReadRDR, ReadSSR, WriteSSR, OtherInstr, receiver
  <2>3. gotbyte' \in BOOLEAN /\ rxOn' \in BOOLEAN
    BY <2>2, Zenon DEF TypeInv, TypeOK, ReceiverTypeOK
  <2>4. wait' \in 0 .. RxDelay
    BY <2>1 DEF TypeInv, TypeOK, ReceiverTypeOK
  <2> QED
    BY <2>3, <2>4
<1>3. received' \in Seq(Int)
  <2>1. received' = received \/ received' = Append(received, rxByte)
    BY DEF Firmware, Fetch, EnableRx, ReadData, ReadRDR, ReadSSR, WriteSSR, OtherInstr
  <2> QED
    BY <2>1 DEF TypeInv, TypeOK, ReceiverTypeOK
<1>7. rxReq' \in BOOLEAN /\ ssrRd' \in BOOLEAN /\ fw' \in SUBSET {"rdr", "ssr"}
  <2>1. /\ rxReq' = rxReq \/ rxReq' = FALSE
        /\ ssrRd' = ssrRd \/ ssrRd' = gotbyte
        /\ fw' = fw \/ fw' = {} \/ fw' = fw \cup {"rdr"} \/ fw' = fw \cup {"ssr"}
    BY DEF Firmware, Fetch, EnableRx, ReadData, ReadRDR, ReadSSR, WriteSSR, OtherInstr,
       receiver, handler
  <2>2. rxReq' \in BOOLEAN /\ ssrRd' \in BOOLEAN
    BY <2>1, Zenon DEF TypeInv, TypeOK, ReceiverTypeOK
  <2>3. fw' \in SUBSET {"rdr", "ssr"}
    BY <2>1 DEF TypeInv, TypeOK, ReceiverTypeOK
  <2> QED
    BY <2>2, <2>3
<1>4. now' \in 0 .. MaxCycle
  BY <1>1 DEF TypeInv, TypeOK, ThreadTypeOK
<1>5. RingTypeOK' /\ SequencerTypeOK'
  BY <1>1 DEF TypeInv, TypeOK, RingTypeOK, SequencerTypeOK, ring, sequencer
<1>6. ReceiverTypeOK' /\ ThreadTypeOK'
  BY <1>1, <1>2, <1>3, <1>4, <1>7 DEF TypeInv, TypeOK, ReceiverTypeOK, ThreadTypeOK, host
<1> QED
  BY <1>1, <1>5, <1>6 DEF TypeInv, TypeOK, host

LEMMA SequencerTypeInv ==
    ASSUME TypeInv, Sequencer
    PROVE  TypeInv'
<1>1. UNCHANGED <<rp, receiver, now, host, received>> /\ wp \in Slots /\ seqTmp \in Slots
  BY DEF Sequencer, PollStop, PollStart, SeqStore, SeqPublish, ring,
         TypeInv, TypeOK, RingTypeOK, SequencerTypeOK
<1>2. ReceiverTypeOK'
  BY <1>1 DEF TypeInv, TypeOK, ReceiverTypeOK, receiver
<1>3. (wpc' \in {"poll", "rx", "store", "publish"}) => ThreadTypeOK'
  BY <1>1 DEF TypeInv, TypeOK, ThreadTypeOK, host
<1>4. CASE PollStop
  BY <1>1, <1>2, <1>3, <1>4
     DEF PollStop, TypeInv, TypeOK, RingTypeOK, SequencerTypeOK, ring, sequencer, host
<1>5. CASE PollStart
  <2>1. ev \in 1 .. Len(Schedule)
    BY <1>5, ScheduleFacts DEF PollStart, Due, TypeInv, TypeOK, SequencerTypeOK
  <2>2. 0 < Schedule[ev].len
    BY <2>1, ScheduleFacts
  <2> QED
    BY <1>1, <1>2, <1>3, <1>5, <2>1, <2>2, ScheduleFacts
       DEF PollStart, TypeInv, TypeOK, RingTypeOK, SequencerTypeOK, ring, host
<1>6. CASE SeqStore
  <2>1. Schedule[ev].off + idx + 1 \in Int
    BY <1>6, ScheduleFacts DEF SeqStore, TypeInv, TypeOK, SequencerTypeOK
  <2> QED
    BY <1>1, <1>2, <1>3, <1>6, <2>1
       DEF SeqStore, TypeInv, TypeOK, RingTypeOK, SequencerTypeOK, sequencer, host
<1>7. CASE SeqPublish
  <2>1. wp' \in Slots /\ seqTmp' \in Slots
    BY <1>1, <1>7, AdvanceCases DEF SeqPublish, Slots
  <2>2. ev \in 1 .. Len(Schedule) /\ idx \in Nat
    BY <1>7, ScheduleFacts DEF SeqPublish, TypeInv, TypeOK, SequencerTypeOK
  <2>3. /\ wpc' \in {"store", "poll"} /\ ev' \in 1 .. Len(Schedule) + 1 /\ idx' \in Nat
        /\ wpc' = "store" => ev' <= Len(Schedule) /\ idx' < Schedule[ev'].len
    BY <1>7, <2>2, ScheduleFacts DEF SeqPublish
  <2> QED
    BY <1>1, <1>2, <1>3, <1>7, <2>1, <2>3
       DEF SeqPublish, TypeInv, TypeOK, RingTypeOK, SequencerTypeOK, host
<1> QED
  BY <1>4, <1>5, <1>6, <1>7 DEF Sequencer

LEMMA ReceiverTypeInv ==
    ASSUME TypeInv, Receiver
    PROVE  TypeInv'
<1>1. UNCHANGED <<buf, wp, now, sequencer, host, received, rxOn>>
      /\ wpc' \in {"instr", "read", "advance"}
  BY DEF Receiver, RxSkip, RxStart, RxRead, RxAdvance, ring, receiver
<1>2. rp' \in Slots
  <2>1. rp \in Slots
    BY DEF TypeInv, TypeOK, RingTypeOK
  <2>2. Advance(rp) \in Slots
    BY <2>1, AdvanceCases DEF Slots
  <2>3. rp' = rp \/ rp' = Advance(rp)
    BY DEF Receiver, RxSkip, RxStart, RxRead, RxAdvance, ring
  <2> QED
    BY <2>1, <2>2, <2>3
<1>3. gotbyte' \in BOOLEAN /\ rxByte' \in Int
  <2>1. /\ gotbyte' = gotbyte \/ gotbyte' = TRUE
        /\ rxByte' = rxByte \/ rxByte' = buf[rp]
    BY DEF Receiver, RxSkip, RxStart, RxRead, RxAdvance, receiver
  <2>2. gotbyte' \in BOOLEAN
    BY <2>1, Zenon DEF TypeInv, TypeOK, ReceiverTypeOK
  <2>3. rxByte' \in Int
    BY <2>1 DEF TypeInv, TypeOK, RingTypeOK, ReceiverTypeOK
  <2> QED
    BY <2>2, <2>3
<1>4. wait' \in 0 .. RxDelay
  <2>1. \/ wait' = wait \/ wait' = 0 \/ wait' = RxDelay
        \/ wait > 0 /\ wait' = wait - 1
    BY DEF Receiver, RxSkip, RxStart, RxRead, RxAdvance, CountDown, receiver
  <2>2. wait \in 0 .. RxDelay
    BY DEF TypeInv, TypeOK, ReceiverTypeOK
  <2> QED
    BY <2>1, <2>2
<1>7. rxReq' \in BOOLEAN /\ UNCHANGED <<ssrRd, fw>>
  <2>1. (rxReq' = rxReq \/ rxReq' = ~Mk2) /\ UNCHANGED <<ssrRd, fw>>
    BY DEF Receiver, RxSkip, RxStart, RxRead, RxAdvance, receiver, handler
  <2> QED
    BY <2>1, Zenon DEF TypeInv, TypeOK, ReceiverTypeOK
<1>5. RingTypeOK' /\ SequencerTypeOK'
  BY <1>1, <1>2 DEF TypeInv, TypeOK, RingTypeOK, SequencerTypeOK, sequencer
<1>6. ReceiverTypeOK' /\ ThreadTypeOK'
  BY <1>1, <1>3, <1>4, <1>7 DEF TypeInv, TypeOK, ReceiverTypeOK, ThreadTypeOK, host
<1> QED
  BY <1>1, <1>5, <1>6 DEF TypeInv, TypeOK, host

LEMMA HostTypeInv ==
    ASSUME TypeInv, HostThread
    PROVE  TypeInv'
<1>1. UNCHANGED <<rp, receiver, wpc, now, sequencer, received>>
  BY DEF HostThread, HostLoad, HostStore, HostPublish, ring
<1>2. wp \in Slots /\ hostTmp \in Slots /\ hostPos \in 0 .. HostBytes
  BY DEF TypeInv, TypeOK, RingTypeOK, ThreadTypeOK
<1>3. wp' \in Slots /\ hostTmp' \in Slots
  BY <1>2, AdvanceCases DEF HostThread, HostLoad, HostStore, HostPublish, ring, Slots
<1>4. buf' \in [Slots -> Int]
  <2>1. -(hostPos + 1) \in Int
    BY <1>2
  <2>2. buf' = buf \/ buf' = [buf EXCEPT ![hostTmp] = -(hostPos + 1)]
    BY DEF HostThread, HostLoad, HostStore, HostPublish, ring
  <2> QED
    BY <2>1, <2>2 DEF TypeInv, TypeOK, RingTypeOK
<1>5. /\ hpc' \in {"idle", "store", "publish"} /\ hostPos' \in 0 .. HostBytes
      /\ hpc' # "idle" => hostPos' < HostBytes
  BY <1>2 DEF HostThread, HostLoad, HostStore, HostPublish, TypeInv
<1>6. RingTypeOK' /\ ThreadTypeOK'
  BY <1>1, <1>3, <1>4, <1>5 DEF TypeInv, TypeOK, RingTypeOK, ThreadTypeOK
<1>7. ReceiverTypeOK' /\ SequencerTypeOK'
  BY <1>1 DEF TypeInv, TypeOK, ReceiverTypeOK, SequencerTypeOK, receiver, sequencer
<1> QED
  BY <1>1, <1>5, <1>6, <1>7 DEF TypeInv, TypeOK, sequencer

\* Type correctness of the ring, its receiver, the sequencer and the host, for
\* a host that floods the ring while the schedule runs as well.
THEOREM TypeCorrect == Spec => []TypeOK
<1>1. Init => TypeInv
  BY InitIInv DEF IInv, RingInv, TypeInv, Init
<1>2. TypeInv /\ [Next]_vars => TypeInv'
  <2>1. ASSUME TypeInv, UNCHANGED vars PROVE TypeInv'
    BY <2>1 DEF vars, ring, receiver, sequencer, host, TypeInv, TypeOK,
                RingTypeOK, ReceiverTypeOK, SequencerTypeOK, ThreadTypeOK
  <2> QED
    BY <2>1, FirmwareTypeInv, SequencerTypeInv, ReceiverTypeInv, HostTypeInv
       DEF Next, WorkThread
<1> QED
  BY <1>1, <1>2, PTL DEF Spec, TypeInv

-----------------------------------------------------------------------------
(* What follows from it.                                                   *)

\* "Unread bytes are never overwritten": the sequencer and the host store at
\* the write pointer, and the slot there is not among the unread ones.
THEOREM NeverOverwritten ==
    ASSUME OneProducer
    PROVE  Spec => NoUnreadOverwritten
<1>1. ASSUME IInv, [Next]_vars, NEW s \in Slots, buf'[s] # buf[s]
      PROVE  Taken(buf[s])
  <2>1. SeqStore \/ HostStore
    BY <1>1 DEF vars, ring, receiver, Next, WorkThread, HostThread, Firmware, Sequencer, Receiver,
       Fetch, EnableRx, ReadData, ReadRDR, ReadSSR, WriteSSR, OtherInstr, PollStop, PollStart,
       SeqPublish, RxSkip,
       RxStart, RxRead, RxAdvance, HostLoad, HostPublish
  <2>2. (\E b : buf' = [buf EXCEPT ![wp] = b]) /\ wpc # "publish" /\ hpc # "publish"
    <3>1. CASE SeqStore
      <4>1. wpc = "store" /\ seqTmp = wp /\ ev <= Len(Schedule) /\ UNCHANGED host
        BY <1>1, <3>1 DEF SeqStore, IInv, RingInv, RoomForEvent
      <4>2. hpc = "idle"
        BY <1>1, <4>1, HostOut DEF IInv, RingInv
      <4> QED
        BY <3>1, <4>1, <4>2 DEF SeqStore
    <3>2. CASE HostStore
      <4>1. hpc = "store" /\ hostTmp = wp /\ ev = Len(Schedule) + 1
        BY <1>1, <3>2 DEF HostStore, IInv, RingInv, HostHasRoom
      <4>2. wpc # "publish"
        BY <1>1, <4>1, ScheduleFacts DEF IInv, RingInv, RoomForEvent
      <4> QED
        BY <3>2, <4>1, <4>2 DEF HostStore
    <3> QED
      BY <2>1, <3>1, <3>2
  <2>3. s = wp
    BY <1>1, <2>2 DEF IInv, RingInv, TypeOK, RingTypeOK
  <2>4. Occupied \in Int /\ Posted \in Int /\ Len(received) \in Nat
    BY <1>1, CountTypes DEF IInv, RingInv, TypeOK, ReceiverTypeOK
  <2>5. Old(buf[s], Posted - Occupied)
    <3>1. Distance(wp) = Occupied /\ ~Filled(wp)
      BY <2>2 DEF Distance, Occupied, Filled
    <3> QED
      BY <1>1, <2>3, <2>4, <3>1 DEF IInv, RingInv, Stale
  <2>6. Len(received) = Posted - Occupied - Held
        /\ \A i \in 1 .. Len(received) : received[i] = Byte(i)
    BY <1>1 DEF IInv, RingInv, Received
  <2>7. ASSUME NEW j \in 1 .. Posted - Occupied, buf[s] = Byte(j) PROVE Taken(buf[s])
    <3>1. j \in 1 .. Len(received) \/ (gotbyte /\ j = Posted - Occupied)
      BY <2>4, <2>6, HeldCases
    <3>2. gotbyte => rxByte = Byte(Posted - Occupied)
      BY <1>1 DEF IInv, RingInv, Contents
    <3> QED
      BY <2>6, <2>7, <3>1, <3>2 DEF Taken
  <2> QED
    BY <2>5, <2>7 DEF Old, Taken
<1>2. IInv /\ [Next]_vars => [\A s \in Slots : buf'[s] # buf[s] => Taken(buf[s])]_vars
  BY <1>1
<1> QED
  BY <1>2, Invariant, PTL DEF Spec, NoUnreadOverwritten

\* The ring implements the FIFO channel: a byte that either thread publishes is
\* a Send, one the firmware reads is a Receive, and every other step stutters.
THEOREM RingImplementsChannel ==
    ASSUME OneProducer
    PROVE  Spec => Channel!SafeSpec
<1>1. Init => Channel!Init
  BY PostedInEvent, ScheduleFacts DEF Init, Channel!Init
<1>0. /\ Total \in Nat /\ HostBytes \in Nat /\ Len(Stream) = Total + HostBytes
      /\ \A k \in 1 .. Total + HostBytes : Stream[k] = Byte(k)
  <2>1. Total \in Nat /\ Total + HostBytes \in Nat
    BY ScheduleFacts
  <2>2. Stream \in Seq(Int)
    BY <2>1 DEF Stream
  <2> QED
    BY <2>1, <2>2 DEF Stream, Byte
<1>2. ASSUME IInv, [Next]_vars
      PROVE  [Channel!Next]_(Channel!vars)
  <2>1. Occupied \in 0 .. Size - 1 /\ Posted \in Nat /\ Len(received) \in Nat
    BY <1>2, CountTypes DEF IInv, RingInv, TypeOK, ReceiverTypeOK
  <2>2. hostPos \in Nat /\ hostPos <= HostBytes
    BY <1>2 DEF IInv, RingInv, TypeOK, ThreadTypeOK
  <2>3. Len(received) = Posted - Occupied - Held
    BY <1>2 DEF IInv, RingInv, Received
  <2>4. CASE SeqPublish \/ HostPublish
    <3>1. /\ Occupied < Size - 1 /\ Posted < Total + HostBytes
          /\ Posted' = Posted + 1 /\ received' = received
      <4>1. CASE SeqPublish
        <5>1. /\ ev \in 1 .. Len(Schedule) /\ idx < Schedule[ev].len /\ idx \in Nat
              /\ Schedule[ev].len - idx <= midiseq_free_bytes
          BY <1>2, <4>1, ScheduleFacts
             DEF SeqPublish, IInv, RingInv, RoomForEvent, TypeOK, SequencerTypeOK
        <5>2. /\ Schedule[ev].off \in Nat /\ Schedule[ev].len \in Nat
              /\ Schedule[ev].off + Schedule[ev].len <= Total
          BY <5>1, ScheduleFacts
        <5>6. Occupied < Size - 1
          BY <2>1, <5>1, <5>2 DEF midiseq_free_bytes
        <5>3. hostPos = 0
          BY <1>2, <4>1, <5>1, HostOut, ScheduleFacts DEF IInv, RingInv, SeqPublish
        <5>4. Posted = Schedule[ev].off + idx + hostPos
          BY <2>2, <5>1, PostedInEvent
        <5>5. Posted < Total + HostBytes
          BY <1>0, <5>1, <5>2, <5>3, <5>4
        <5> QED
          BY <1>2, <4>1, <5>5, <5>6, PublishPosts DEF SeqPublish
      <4>2. CASE HostPublish
        <5>1. /\ ev = Len(Schedule) + 1 /\ Occupied < Size - 1 /\ hostPos < HostBytes
              /\ hostPos' = hostPos + 1 /\ UNCHANGED <<sequencer, received>>
          BY <1>2, <4>2 DEF HostPublish, IInv, RingInv, HostHasRoom
        <5>2. idx \in Nat /\ ev' = ev /\ idx' = idx
          BY <1>2, <5>1 DEF IInv, RingInv, TypeOK, SequencerTypeOK, sequencer
        <5>3. Posted = Total + hostPos /\ Posted' = Total + hostPos'
          BY <2>2, <5>1, <5>2, PostedInEvent
        <5> QED
          BY <1>0, <2>2, <5>1, <5>3
      <4> QED
        BY <2>4, <4>1, <4>2
    <3>2. Posted - Len(received) < Size
      BY <2>1, <2>3, <3>1, HeldCases
    <3> QED
      BY <1>0, <3>1, <3>2 DEF Channel!Next, Channel!Send
  <2>5. CASE ReadData \/ ReadRDR
    <3>1. /\ gotbyte /\ "rdr" \notin fw
          /\ received' = Append(received, rxByte) /\ Posted' = Posted
      BY <1>2, <2>5 DEF ReadData, ReadRDR, Posted, SequencerPosted, sequencer, host,
         IInv, HandlerOK
    <3>2. Len(received) = Posted - Occupied - 1 /\ rxByte = Byte(Posted - Occupied)
      BY <1>2, <2>1, <2>3, <3>1, HeldCases DEF IInv, RingInv, Contents
    <3>3. Len(received) < Posted /\ Len(received) + 1 = Posted - Occupied
      BY <2>1, <3>2
    <3>4. Posted <= Total + HostBytes
      BY <1>0, <1>2, <2>1, <2>2, PostedBound
    <3>5. Stream[Len(received) + 1] = rxByte
      BY <1>0, <2>1, <3>2, <3>3, <3>4
    <3> QED
      BY <3>1, <3>3, <3>5 DEF Channel!Next, Channel!Receive
  <2>6. CASE ~SeqPublish /\ ~HostPublish /\ ~ReadData /\ ~ReadRDR
    <3>1. UNCHANGED <<ev, idx, hostPos, received>>
      <4>1. CASE UNCHANGED vars
        BY <4>1 DEF vars, sequencer, host
      <4>2. CASE EnableRx \/ OtherInstr \/ ReadSSR \/ WriteSSR \/ Receiver
        BY <4>2 DEF EnableRx, OtherInstr, ReadSSR, WriteSSR, Receiver, RxSkip, RxStart, RxRead, RxAdvance,
           sequencer, host
      <4>3. CASE PollStop \/ PollStart \/ SeqStore
        BY <1>2, <4>3 DEF PollStop, PollStart, SeqStore, sequencer, host, IInv, RingInv, BetweenEvents
      <4>4. CASE HostLoad \/ HostStore
        BY <4>4 DEF HostLoad, HostStore, sequencer
      <4> QED
        BY <1>2, <2>6, <4>1, <4>2, <4>3, <4>4 DEF Next, WorkThread, HostThread, Firmware, Fetch,
           Sequencer
    <3> QED
      BY <3>1 DEF Posted, SequencerPosted, Channel!vars
  <2> QED
    BY <2>4, <2>5, <2>6
<1> QED
  BY <1>1, <1>2, Invariant, PTL DEF Spec, Channel!SafeSpec

-----------------------------------------------------------------------------
(* A snapshot, on the boards whose main CPU receives MIDI.                 *)

\* p bytes were posted: the ring and the receiver hold the last of them.
Holds(b, w, r, got, byte, p) ==
    LET many == (w + Size - r) % Size
    IN /\ \A k \in 0 .. many - 1 :
             b[IF r + k < Size THEN r + k ELSE r + k - Size] = p - many + k + 1
       /\ got => byte = p - many

\* The firmware has read the other ones, in order.
ReadRest(w, r, got, done, read, p) ==
    /\ Len(read) = p - ((w + Size - r) % Size) - HeldIn(got, done)
    /\ \A i \in 1 .. Len(read) : read[i] = i

ImageSound ==
    /\ image.buf \in [Slots -> Int] /\ image.wp \in Slots /\ image.rp \in Slots
    /\ image.gotbyte \in BOOLEAN /\ image.rxByte \in Int /\ image.rxOn \in BOOLEAN
    /\ image.rxReq \in BOOLEAN /\ image.fw \in SUBSET {"rdr", "ssr"}
    /\ image.received \in Seq(Int) /\ image.posted \in Nat
    /\ image.rxReq <=> image.gotbyte
    /\ image.fw # {} => image.gotbyte
    /\ image.gotbyte => image.rxOn
    /\ Holds(image.buf, image.wp, image.rp, image.gotbyte, image.rxByte, image.posted)
    /\ ReadRest(image.wp, image.rp, image.gotbyte, image.fw, image.received, image.posted)

\* The process that loaded the image posts nothing: it hands on what it found.
Quiet ==
    /\ RingTypeOK /\ ReceiverTypeOK /\ image.posted \in Nat
    /\ ev = Len(Schedule) + 1 /\ hpc = "idle" /\ hostPos = 0
    /\ wpc \in {"instr", "poll", "rx", "read", "advance"}
Phases ==
    /\ wpc \in {"read", "advance"} => Occupied > 0 /\ ~gotbyte
    /\ wpc = "advance" => rxByte = image.posted - Occupied + 1
    /\ gotbyte \/ wpc \in {"read", "advance"} => rxOn

\* A request that outlived its byte: only AckCut leaves one, and at the next
\* instruction it has found its next byte or there is none left.
Outlived == rxReq /\ ~gotbyte
Requests ==
    /\ gotbyte \/ fw # {} => rxReq
    /\ Outlived => "ssr" \in image.fw
    /\ Outlived => Occupied = 0 \/ (wpc # "instr" /\ rxOn /\ wait = 0 /\ fw = {})
    /\ "ssr" \in fw => IF gotbyte THEN ssrRd \/ ("ssr" \in image.fw /\ wait = 0)
                                  ELSE ~ssrRd

\* What the firmware has read: everything the ring and the receiver do not hold,
\* and after that, for a request that outlived all of it, the last byte again.
Fetched ==
    /\ ~(Outlived /\ Occupied = 0) =>
          /\ Len(received) = image.posted - Occupied - Held
          /\ \A i \in 1 .. Len(received) : received[i] = i
    /\ Outlived /\ Occupied = 0 =>
          /\ rxByte = image.posted /\ Len(received) >= image.posted
          /\ \A i \in 1 .. Len(received) :
                received[i] = IF i <= image.posted THEN i ELSE image.posted

Holding ==
    /\ \A k \in 0 .. Occupied - 1 : buf[Slot(k)] = image.posted - Occupied + k + 1
    /\ gotbyte => rxByte = image.posted - Occupied

Replayed == Quiet /\ Phases /\ Requests /\ Fetched /\ Holding

\* The image is whole although it is written in two parts: between them no
\* instruction runs, and there is no host port.
SnapInv ==
    /\ ~loaded => IInv
    /\ loaded => Replayed /\ ~writing
    /\ writing => wpc = "poll" /\ image.buf = buf
    /\ ~writing => image = NoImage \/ ImageSound

\* In the process that loaded the image, the receiver and the handler hand the
\* bytes on.
LEMMA ReplayStep ==
    ASSUME HostBytes = 0, ~Mk2, Replayed, [Next]_vars, image' = image
    PROVE  Replayed'
<1> DEFINE p == image.posted
<1>0. p' = p /\ p \in Int /\ Occupied \in 0 .. Size - 1 /\ image'.fw = image.fw
  BY OccupiedCases DEF Replayed, Quiet, RingTypeOK, Slots
<1>1. \/ ReadRDR \/ ReadSSR \/ WriteSSR \/ RxRead \/ RxAdvance
      \/ EnableRx \/ OtherInstr \/ PollStop \/ RxSkip \/ RxStart \/ UNCHANGED vars
  <2>1. ~Due
    BY ScheduleFacts DEF Due, Replayed, Quiet
  <2> QED
    BY <2>1 DEF Next, WorkThread, HostThread, Firmware, Fetch, ReadData, Sequencer, Receiver,
       PollStart, SeqStore, SeqPublish, HostLoad, HostStore, HostPublish, Replayed, Quiet
<1>2. UNCHANGED <<buf, wp>> /\ UNCHANGED <<ev, hpc, hostPos>>
  BY <1>1 DEF ReadRDR, ReadSSR, WriteSSR, RxRead, RxAdvance, EnableRx, OtherInstr, PollStop,
     RxSkip, RxStart, vars, ring, sequencer, host
<1>3. /\ wpc' \in {"instr", "poll", "rx", "read", "advance"}
      /\ wait' \in 0 .. RxDelay /\ rxOn' \in BOOLEAN
  <2>1. wait \in 0 .. RxDelay /\ rxOn \in BOOLEAN /\ RxDelay \in Nat
        /\ wpc \in {"instr", "poll", "rx", "read", "advance"}
    BY DEF Replayed, Quiet, ReceiverTypeOK
  <2>2. CASE ReadRDR \/ ReadSSR \/ WriteSSR \/ EnableRx \/ OtherInstr
    <3>1. wpc' = "poll" /\ (wait' = wait \/ wait' = RxDelay)
      BY <2>2 DEF ReadRDR, ReadSSR, WriteSSR, EnableRx, OtherInstr, Tick, receiver
    <3>2. rxOn' = TRUE \/ rxOn' = rxOn
      BY <2>2 DEF ReadRDR, ReadSSR, WriteSSR, EnableRx, OtherInstr, receiver
    <3>3. wait' \in 0 .. RxDelay
      BY <2>1, <3>1
    <3> QED
      BY <2>1, <3>1, <3>2, <3>3
  <2>3. CASE PollStop \/ RxRead \/ RxStart \/ UNCHANGED vars
    <3>1. wait' = wait /\ rxOn' = rxOn
      BY <2>3 DEF PollStop, RxRead, RxStart, receiver, vars
    <3>2. wpc' = wpc \/ wpc' \in {"rx", "read", "advance"}
      BY <2>3 DEF PollStop, RxRead, RxStart, vars
    <3> QED
      BY <2>1, <3>1, <3>2
  <2>4. CASE RxSkip \/ RxAdvance
    BY <2>1, <2>4 DEF RxSkip, RxAdvance, CountDown
  <2> QED
    BY <1>1, <2>2, <2>3, <2>4
<1>4. CASE EnableRx \/ OtherInstr \/ PollStop \/ RxSkip \/ RxStart \/ UNCHANGED vars
  <2>1. UNCHANGED <<rp, gotbyte, rxByte, received, rxReq, ssrRd, fw>>
    BY <1>4 DEF EnableRx, OtherInstr, PollStop, RxSkip, RxStart, vars, ring, receiver, handler
  <2>2. Quiet'
    BY <1>0, <1>2, <1>3, <2>1 DEF Replayed, Quiet, RingTypeOK, ReceiverTypeOK
  <2>3. Occupied' = Occupied /\ Held' = Held /\ (\A k : Slot(k)' = Slot(k)) /\ Outlived' = Outlived
    BY <1>2, <2>1 DEF Occupied, Held, Slot, Outlived
  <2>4. /\ rxOn => rxOn'
        /\ wpc' \in {"read", "advance"} => wpc' = wpc \/ (wpc' = "read" /\ wp # rp /\ ~gotbyte /\ rxOn)
        /\ wpc' = "instr" => \/ wpc = "instr"
                             \/ ~Receivable
        /\ wait = 0 => wait' = 0
    BY <1>4 DEF EnableRx, OtherInstr, PollStop, RxSkip, RxStart, Receivable, CountDown, Tick,
       vars, receiver
  <2>5. Phases'
    <3>1. wp # rp => Occupied > 0
      BY SlotFacts DEF Replayed, Quiet
    <3> QED
      BY <1>0, <2>1, <2>3, <2>4, <3>1 DEF Replayed, Phases
  <2>6. Requests'
    <3>1. Outlived /\ ~(Occupied = 0) => wpc' # "instr" /\ rxOn' /\ wait' = 0 /\ fw' = {}
      <4> SUFFICES ASSUME Outlived, ~(Occupied = 0)
                   PROVE  wpc' # "instr" /\ rxOn' /\ wait' = 0 /\ fw' = {}
        OBVIOUS
      <4>1. wpc # "instr" /\ rxOn /\ wait = 0 /\ fw = {} /\ ~gotbyte
        BY DEF Replayed, Requests, Outlived
      <4>2. wp # rp
        BY OccupiedCases DEF Replayed, Quiet, RingTypeOK, Slots
      <4> QED
        BY <2>1, <2>4, <4>1, <4>2 DEF Receivable
    <3> QED
      BY <1>0, <2>1, <2>3, <2>4, <3>1 DEF Replayed, Requests
  <2>7. Fetched' /\ Holding'
    BY <1>0, <1>2, <2>1, <2>3 DEF Replayed, Fetched, Holding
  <2> QED
    BY <2>2, <2>5, <2>6, <2>7 DEF Replayed
<1>5. CASE ReadRDR
  <2>1. /\ wpc = "instr" /\ rxReq /\ "rdr" \notin fw /\ fw' = fw \cup {"rdr"}
        /\ received' = Append(received, rxByte) /\ wpc' = "poll"
        /\ UNCHANGED <<rp, rxByte, gotbyte, rxOn, wait, rxReq, ssrRd>>
    BY <1>5 DEF ReadRDR, Tick, ring
  <2>2. Occupied' = Occupied /\ (\A k : Slot(k)' = Slot(k)) /\ Outlived' = Outlived
    BY <1>2, <2>1 DEF Occupied, Slot, Outlived
  <2>3. /\ Len(received) \in Nat /\ received' \in Seq(Int)
        /\ Len(received') = Len(received) + 1
        /\ \A i \in 1 .. Len(received') :
              received'[i] = IF i = Len(received) + 1 THEN rxByte ELSE received[i]
    BY <2>1 DEF Replayed, Quiet, ReceiverTypeOK
  <2>4. Quiet'
    <3>1. fw' \in SUBSET {"rdr", "ssr"}
      BY <2>1 DEF Replayed, Quiet, ReceiverTypeOK
    <3> QED
      BY <1>0, <1>2, <1>3, <2>1, <2>3, <3>1 DEF Replayed, Quiet, RingTypeOK, ReceiverTypeOK
  <2>5. Phases' /\ Holding'
    BY <1>0, <1>2, <2>1, <2>2 DEF Replayed, Phases, Holding
  <2>6. ~gotbyte => Outlived /\ Occupied = 0
    BY <2>1 DEF Replayed, Requests, Outlived
  <2>7. Requests'
    BY <1>0, <2>1, <2>2, <2>6 DEF Replayed, Requests
  <2>8. Fetched'
    <3> HIDE DEF p
    <3>1. CASE gotbyte
      <4>1. Held = 1 /\ Held' = 0 /\ ~Outlived
        BY <2>1, <3>1, HeldCases DEF Outlived
      <4>2. /\ Len(received) = p - Occupied - 1 /\ rxByte = p - Occupied
            /\ \A i \in 1 .. Len(received) : received[i] = i
        BY <3>1, <4>1 DEF Replayed, Fetched, Holding, p
      <4>3. Len(received') = p - Occupied - 0
        BY <1>0, <2>3, <4>2
      <4>4. \A i \in 1 .. Len(received') : received'[i] = i
        BY <1>0, <2>3, <4>2
      <4> QED
        BY <1>0, <2>2, <4>1, <4>3, <4>4 DEF Fetched, p
    <3>2. CASE ~gotbyte
      <4>1. /\ rxByte = p /\ Len(received) >= p /\ Outlived' /\ Occupied' = 0
            /\ \A i \in 1 .. Len(received) : received[i] = IF i <= p THEN i ELSE p
        BY <2>2, <2>6, <3>2 DEF Replayed, Fetched, p
      <4>2. /\ Len(received') >= p
            /\ \A i \in 1 .. Len(received') : received'[i] = IF i <= p THEN i ELSE p
        BY <1>0, <2>3, <4>1
      <4> QED
        BY <1>0, <2>1, <4>1, <4>2 DEF Fetched, p
    <3> QED
      BY <3>1, <3>2
  <2> QED
    BY <2>4, <2>5, <2>7, <2>8 DEF Replayed
<1>8. CASE ReadSSR
  <2>1. /\ wpc = "instr" /\ rxReq /\ fw' = fw \cup {"ssr"} /\ ssrRd' = gotbyte /\ wpc' = "poll"
        /\ UNCHANGED <<rp, received, rxByte, gotbyte, rxOn, wait, rxReq>>
    BY <1>8 DEF ReadSSR, Tick, ring
  <2>2. Occupied' = Occupied /\ (\A k : Slot(k)' = Slot(k)) /\ Outlived' = Outlived
        /\ Held' = Held
    BY <1>2, <2>1 DEF Occupied, Slot, Outlived, Held, HeldIn
  <2>3. Quiet'
    <3>1. fw' \in SUBSET {"rdr", "ssr"}
      BY <2>1 DEF Replayed, Quiet, ReceiverTypeOK
    <3>2. gotbyte \in BOOLEAN /\ ssrRd' \in BOOLEAN
      BY <2>1 DEF Replayed, Quiet, ReceiverTypeOK
    <3> QED
      BY <1>0, <1>2, <1>3, <2>1, <3>1, <3>2 DEF Replayed, Quiet, RingTypeOK, ReceiverTypeOK
  <2>4. Phases' /\ Holding' /\ Fetched'
    BY <1>0, <1>2, <2>1, <2>2 DEF Replayed, Phases, Holding, Fetched
  <2>5. ~gotbyte => Occupied = 0
    BY <2>1 DEF Replayed, Requests, Outlived
  <2>6. Requests'
    BY <1>0, <2>1, <2>2, <2>5 DEF Replayed, Requests, Outlived
  <2> QED
    BY <2>3, <2>4, <2>6 DEF Replayed
<1>9. CASE WriteSSR
  <2>1. /\ wpc = "instr" /\ fw = {"rdr", "ssr"} /\ fw' = {} /\ gotbyte' = FALSE /\ wpc' = "poll"
        /\ UNCHANGED <<rp, received, rxByte, rxOn, ssrRd>>
        /\ ssrRd => rxReq' = FALSE
        /\ ~ssrRd => rxReq' = rxReq /\ wait' = wait
    BY <1>9 DEF WriteSSR, Tick, ring
  <2>2. Occupied' = Occupied /\ (\A k : Slot(k)' = Slot(k)) /\ Held = 0 /\ Held' = 0
    BY <1>2, <2>1 DEF Occupied, Slot, Held, HeldIn
  <2>3. Quiet'
    <3>1. rxReq' \in BOOLEAN
      BY <2>1 DEF Replayed, Quiet, ReceiverTypeOK
    <3> QED
      BY <1>0, <1>2, <1>3, <2>1, <3>1 DEF Replayed, Quiet, RingTypeOK, ReceiverTypeOK
  <2>4. Phases' /\ Holding'
    BY <1>0, <1>2, <2>1, <2>2 DEF Replayed, Phases, Holding
  <2>5. /\ rxReq /\ (~gotbyte => ~ssrRd /\ Outlived /\ Occupied = 0)
        /\ ~ssrRd /\ gotbyte => "ssr" \in image.fw /\ wait = 0 /\ rxOn
    BY <2>1 DEF Replayed, Requests, Phases, Outlived
  <2>6. Requests'
    <3>1. Outlived' <=> ~ssrRd
      BY <2>1, <2>5 DEF Outlived
    <3>2. Outlived' => "ssr" \in image.fw
      BY <2>5, <3>1 DEF Replayed, Requests
    <3> QED
      BY <1>0, <2>1, <2>2, <2>5, <3>1, <3>2 DEF Requests
  <2>7. Fetched'
    <3> HIDE DEF p
    <3>1. CASE gotbyte
      <4>1. /\ Len(received) = p - Occupied - 0 /\ rxByte = p - Occupied
            /\ \A i \in 1 .. Len(received) : received[i] = i
        BY <2>2, <3>1 DEF Replayed, Fetched, Holding, Outlived, p
      <4>2. Occupied = 0 => rxByte = p /\ Len(received) = p
        BY <1>0, <4>1
      <4>3. Occupied = 0 => \A i \in 1 .. Len(received) : received[i] = IF i <= p THEN i ELSE p
        BY <1>0, <4>1, <4>2
      <4> QED
        BY <1>0, <2>1, <2>2, <4>1, <4>2, <4>3 DEF Fetched, p
    <3>2. CASE ~gotbyte
      <4>1. Outlived' /\ Outlived /\ Occupied = 0
        BY <2>1, <2>5, <3>2 DEF Outlived
      <4> QED
        BY <1>0, <2>1, <2>2, <4>1 DEF Replayed, Fetched, p
    <3> QED
      BY <3>1, <3>2
  <2> QED
    BY <2>3, <2>4, <2>6, <2>7 DEF Replayed
<1>6. CASE RxRead
  <2>1. /\ wpc = "read" /\ wpc' = "advance" /\ rxByte' = buf[rp]
        /\ UNCHANGED <<rp, gotbyte, received, rxOn, wait, rxReq, ssrRd, fw>>
    BY <1>6 DEF RxRead, ring, handler
  <2>2. Occupied' = Occupied /\ (\A k : Slot(k)' = Slot(k)) /\ Held' = Held
        /\ Outlived' = Outlived
    BY <1>2, <2>1 DEF Occupied, Slot, Held, Outlived
  <2>3. Occupied > 0 /\ ~gotbyte
    BY <2>1 DEF Replayed, Phases
  <2>5. rxByte' = p - Occupied + 1
    <3> HIDE DEF p
    <3>1. buf[Slot(0)] = p - Occupied + 0 + 1
      BY <1>0, <2>3 DEF Replayed, Holding, p
    <3> QED
      BY <1>0, <2>1, <3>1, SlotFacts DEF Replayed, Quiet
  <2>6. Quiet'
    <3>1. rxByte' \in Int
      BY <1>0, <2>5
    <3> QED
      BY <1>0, <1>2, <1>3, <2>1, <3>1 DEF Replayed, Quiet, RingTypeOK, ReceiverTypeOK
  <2>7. Phases'
    BY <1>0, <2>1, <2>2, <2>3, <2>5 DEF Replayed, Phases
  <2>8. Requests'
    BY <1>0, <2>1, <2>2 DEF Replayed, Requests
  <2>9. Fetched' /\ Holding'
    BY <1>0, <1>2, <2>1, <2>2, <2>3 DEF Replayed, Fetched, Holding
  <2> QED
    BY <2>6, <2>7, <2>8, <2>9 DEF Replayed
<1>7. CASE RxAdvance
  <2>1. /\ wpc = "advance" /\ wpc' = "instr" /\ rp' = Advance(rp) /\ gotbyte' = TRUE
        /\ rxReq' = TRUE /\ UNCHANGED <<rxByte, received, rxOn, ssrRd, fw>>
    BY <1>7 DEF RxAdvance
  <2>2. Occupied > 0 /\ ~gotbyte /\ rxByte = p - Occupied + 1 /\ rxOn
    BY <2>1 DEF Replayed, Phases
  <2>3. rp' \in Slots /\ Occupied' = Occupied - 1
    BY <1>2, <2>1, <2>2, OccupiedShrinks DEF Replayed, Quiet, RingTypeOK
  <2>4. \A k \in 0 .. Occupied - 2 : Slot(k)' = Slot(k + 1)
    BY <1>0, <2>1, AdvanceCases, OccupiedCases DEF Slot, Replayed, Quiet, RingTypeOK, Slots
  <2>5. fw = {} /\ Held = 0 /\ Held' = 1 /\ ~(Outlived /\ Occupied = 0) /\ ~Outlived'
    <3>1. fw = {}
      BY <2>1, <2>2 DEF Replayed, Requests, Outlived
    <3> QED
      BY <1>0, <2>1, <2>2, <3>1, HeldCases DEF Outlived
  <2>6. Holding'
    <3> HIDE DEF p
    <3>1. \A k \in 0 .. Occupied - 1 : buf[Slot(k)] = p - Occupied + k + 1
      BY DEF Replayed, Holding, p
    <3>2. ASSUME NEW k \in 0 .. Occupied - 2
          PROVE  buf[Slot(k + 1)] = p - (Occupied - 1) + k + 1
      <4>1. k + 1 \in 0 .. Occupied - 1
        BY <1>0
      <4> QED
        BY <1>0, <3>1, <4>1
    <3>3. \A k \in 0 .. Occupied' - 1 : buf'[Slot(k)'] = p - Occupied' + k + 1
      BY <1>0, <1>2, <2>3, <2>4, <3>2
    <3>4. rxByte' = p - Occupied'
      BY <1>0, <2>1, <2>2, <2>3
    <3> QED
      BY <1>0, <3>3, <3>4 DEF Holding, p
  <2>7. Fetched'
    <3> HIDE DEF p
    <3>1. Len(received) = p - Occupied - 0 /\ \A i \in 1 .. Len(received) : received[i] = i
      BY <2>5 DEF Replayed, Fetched, p
    <3>2. Len(received') = p - Occupied' - Held'
      BY <1>0, <2>1, <2>3, <2>5, <3>1
    <3> QED
      BY <1>0, <2>1, <2>5, <3>1, <3>2 DEF Fetched, p
  <2>8. Quiet'
    BY <1>0, <1>2, <1>3, <2>1, <2>3 DEF Replayed, Quiet, RingTypeOK, ReceiverTypeOK
  <2>9. Phases' /\ Requests'
    BY <2>1, <2>2, <2>5 DEF Phases, Requests
  <2> QED
    BY <2>6, <2>7, <2>8, <2>9 DEF Replayed
<1> QED
  BY <1>1, <1>4, <1>5, <1>6, <1>7, <1>8, <1>9

\* Without a host the bytes are those of the schedule, and none is missing.
LEMMA NoGapNow ==
    ASSUME HostBytes = 0, IInv
    PROVE  /\ Len(received) = Posted - Occupied - Held
           /\ \A i \in 1 .. Len(received) : received[i] = i
<1>1. Posted \in Nat /\ Occupied \in Nat /\ Posted <= Total /\ Total \in Nat
  BY CountTypes, PostedBound, ScheduleFacts DEF IInv, RingInv
<1>2. Len(received) = Posted - Occupied - Held /\ Len(received) \in Nat
      /\ \A i \in 1 .. Len(received) : received[i] = Byte(i)
  BY DEF IInv, RingInv, Received, TypeOK, ReceiverTypeOK
<1>3. Len(received) <= Total
  BY <1>1, <1>2, HeldCases
<1> QED
  BY <1>1, <1>2, <1>3, ByteIs

LEMMA ReadRestNow ==
    ASSUME NEW n
    PROVE  /\ ReadRest(wp, rp, gotbyte, fw, received, n) <=>
                 /\ Len(received) = n - Occupied - Held
                 /\ \A i \in 1 .. Len(received) : received[i] = i
           /\ ReadRest(wp', rp', gotbyte', fw', received', n) <=>
                 /\ Len(received') = n - Occupied' - Held'
                 /\ \A i \in 1 .. Len(received') : received'[i] = i
BY DEF ReadRest, Occupied, Held

\* What the pointers, the receiver and the history add to the buffer's copy
\* makes a whole image.
LEMMA SavedWhole ==
    ASSUME HostBytes = 0, ~Mk2, IInv, writing, image.buf = buf, wpc = "poll", SavePointers
    PROVE  ImageSound'
<1>1. /\ image'.buf = buf /\ image'.wp = wp /\ image'.rp = rp
      /\ image'.gotbyte = gotbyte /\ image'.rxByte = rxByte /\ image'.rxOn = rxOn
      /\ image'.rxReq = rxReq /\ image'.fw = fw
      /\ image'.received = received /\ image'.posted = Posted
  BY DEF SavePointers
<1>2. Posted \in Nat /\ Occupied \in 0 .. Size - 1
  BY CountTypes DEF IInv, RingInv
<1>3. Holds(buf, wp, rp, gotbyte, rxByte, Posted)
  <2>1. \A k \in Int : k <= Posted => Byte(k) = k
    BY <1>2, PostedBound, ByteIs, ScheduleFacts
  <2>2. \A k \in 0 .. Occupied - 1 : buf[Slot(k)] = Posted - Occupied + k + 1
    BY <1>2, <2>1 DEF IInv, RingInv, Contents
  <2>3. gotbyte => rxByte = Posted - Occupied
    BY <1>2, <2>1 DEF IInv, RingInv, Contents
  <2> QED
    BY <2>2, <2>3 DEF Holds, Occupied, Slot
<1>4. ReadRest(wp, rp, gotbyte, fw, received, Posted)
  BY NoGapNow, ReadRestNow
<1>5. RingTypeOK /\ ReceiverTypeOK /\ HandlerOK
  BY DEF IInv, RingInv, TypeOK
<1>6. (rxReq <=> gotbyte) /\ (fw # {} => gotbyte) /\ (gotbyte => rxOn)
  BY <1>5 DEF HandlerOK
<1> QED
  BY <1>1, <1>2, <1>3, <1>4, <1>5, <1>6 DEF ImageSound, RingTypeOK, ReceiverTypeOK

\* Loading it puts everything back but ssr_rd: on these boards RDRF and the byte
\* are saved.
LEMMA LoadedWhole ==
    ASSUME HostBytes = 0, ~Mk2, ImageSound, Load
    PROVE  Replayed'
<1>1. /\ buf' = image.buf /\ wp' = image.wp /\ rp' = image.rp
      /\ rxOn' = image.rxOn /\ received' = image.received /\ image' = image
      /\ rxByte' = image.rxByte /\ rxReq' = image.rxReq /\ fw' = image.fw /\ ssrRd' = FALSE
  BY DEF Load, LoadReceiver
<1>2. gotbyte' = image.gotbyte /\ gotbyte' \in BOOLEAN
  <2>1. gotbyte' = (~Mk2 /\ image.gotbyte) /\ image.gotbyte \in BOOLEAN
    BY DEF Load, LoadReceiver, ImageSound
  <2> QED
    BY <2>1
<1>3. /\ wait' = 0 /\ wpc' = "instr" /\ ev' = Len(Schedule) + 1
      /\ hpc' = "idle" /\ hostPos' = 0
  BY DEF Load, Fresh
<1>4. Quiet'
  <2>1. RingTypeOK' /\ image'.posted \in Nat
    BY <1>1 DEF RingTypeOK, ImageSound
  <2>2. rxReq' \in BOOLEAN /\ rxOn' \in BOOLEAN /\ ssrRd' \in BOOLEAN
    BY <1>1, Zenon DEF ImageSound
  <2>3. /\ rxByte' \in Int /\ wait' \in 0 .. RxDelay /\ received' \in Seq(Int)
        /\ fw' \in SUBSET {"rdr", "ssr"}
    BY <1>1, <1>3 DEF ImageSound
  <2>4. ReceiverTypeOK'
    BY <1>2, <2>2, <2>3, Zenon DEF ReceiverTypeOK
  <2> QED
    BY <1>3, <2>1, <2>4 DEF Quiet
<1>5. Phases'
  <2>1. gotbyte' => rxOn'
    BY <1>1, <1>2 DEF ImageSound
  <2> QED
    BY <1>3, <2>1 DEF Phases
<1>6. ~Outlived' /\ Requests'
  <2>1. ~Outlived'
    BY <1>1, <1>2 DEF Outlived, ImageSound
  <2> QED
    BY <1>1, <1>2, <1>3, <2>1 DEF Requests, ImageSound
<1>7. Holding'
  BY <1>1, <1>2 DEF Holding, ImageSound, Holds, Occupied, Slot
<1>8. Fetched'
  <2>1. ReadRest(wp', rp', gotbyte', fw', received', image.posted)
    BY <1>1, <1>2 DEF ImageSound
  <2> QED
    BY <1>1, <1>6, <2>1, ReadRestNow DEF Fetched
<1> QED
  BY <1>4, <1>5, <1>6, <1>7, <1>8 DEF Replayed

(* state_save and state_load on the boards whose main CPU receives MIDI,   *)
(* for every ring size and schedule and whatever instruction the snapshot  *)
(* follows, those between two accesses of the receive handler included:    *)
(* the bytes the firmware has read, before it and in the process that      *)
(* loaded it, are the first ones of the input, without gap or repeat. Only *)
(* an image written between the handler's read of SSR and its write, whose *)
(* ssr_rd is lost, lets the last byte of the input be read again.          *)
THEOREM SnapshotKeepsInput ==
    ASSUME HostBytes = 0, ~Mk2
    PROVE  SnapSpec => []NoGap
<1>1. SnapInit => SnapInv
  BY InitIInv DEF IInv, SnapInit, SnapInv
<1>2. SnapInv /\ [SnapNext]_snapVars => SnapInv'
  <2> SUFFICES ASSUME SnapInv, [SnapNext]_snapVars PROVE SnapInv'
    OBVIOUS
  <2>1. CASE Run
    <3>0. UNCHANGED <<writing, image, loaded>> /\ Next
      BY <2>1 DEF Run, snapshot
    <3>1. UNCHANGED <<writing, image, loaded>> /\ Next /\ (HostThread \/ (WorkThread /\ ~writing))
      <4>1. writing => wpc' = wpc /\ wpc = "poll"
        BY <2>1 DEF Run, SnapInv
      <4>2. WorkThread /\ wpc = "poll" => PollStop \/ PollStart
        BY DEF WorkThread, Firmware, Fetch, EnableRx, ReadData, ReadRDR, ReadSSR, WriteSSR,
           OtherInstr, Sequencer, SeqStore, SeqPublish, Receiver, RxSkip, RxStart, RxRead, RxAdvance
      <4>3. PollStop \/ PollStart => wpc' \in {"rx", "store"}
        BY DEF PollStop, PollStart
      <4> QED
        BY <3>0, <4>1, <4>2, <4>3 DEF Next
    <3>2. ~HostThread
      <4>1. loaded => hpc = "idle" /\ hostPos = 0
        BY DEF SnapInv, Replayed, Quiet
      <4>2. ~loaded => hpc = "idle" /\ hostPos \in Nat
        BY DEF SnapInv, IInv, RingInv, HostHasRoom, TypeOK, ThreadTypeOK
      <4> QED
        BY <4>1, <4>2 DEF HostThread, HostLoad, HostStore, HostPublish
    <3>3. ~loaded => IInv'
      BY <3>1, StepIInv DEF SnapInv, OneProducer
    <3>4. loaded => Replayed'
      BY <3>1, ReplayStep DEF SnapInv
    <3> QED
      BY <3>1, <3>2, <3>3, <3>4 DEF SnapInv, ImageSound
  <2>2. CASE SaveBuffer
    <3>1. Firmware /\ writing' = TRUE /\ image' = [buf |-> buf] /\ ~loaded /\ loaded' = loaded
      BY <2>2 DEF SaveBuffer
    <3>2. wpc' = "poll" /\ buf' = buf
      BY <3>1 DEF Firmware, Fetch, EnableRx, ReadData, ReadRDR, ReadSSR, WriteSSR, OtherInstr,
         Tick, ring
    <3>3. IInv'
      BY <3>1, StepIInv DEF SnapInv, OneProducer, Next, WorkThread
    <3> QED
      BY <3>1, <3>2, <3>3 DEF SnapInv
  <2>3. CASE SavePointers
    <3>1. writing /\ writing' = FALSE /\ ~loaded /\ loaded' = loaded /\ UNCHANGED vars
      BY <2>3 DEF SavePointers, SnapInv
    <3>2. IInv'
      BY <3>1, StepIInv DEF SnapInv, OneProducer
    <3>3. ImageSound'
      BY <2>3, <3>1, SavedWhole DEF SnapInv
    <3> QED
      BY <3>1, <3>2, <3>3 DEF SnapInv
  <2>4. CASE Load
    <3>1. ~writing /\ image # NoImage /\ loaded' /\ UNCHANGED <<writing, image>>
      BY <2>4 DEF Load, HasImage
    <3>2. ImageSound
      BY <3>1 DEF SnapInv
    <3>3. Replayed'
      BY <2>4, <3>2, LoadedWhole
    <3> QED
      BY <3>1, <3>2, <3>3 DEF SnapInv, ImageSound
  <2>5. CASE UNCHANGED snapVars
    <3>1. UNCHANGED vars /\ UNCHANGED <<writing, image, loaded>>
      BY <2>5 DEF snapVars, snapshot
    <3>2. ~loaded => IInv'
      BY <3>1, StepIInv DEF SnapInv, OneProducer
    <3>3. loaded => Replayed'
      BY <3>1, ReplayStep DEF SnapInv
    <3>4. wpc' = wpc /\ buf' = buf
      BY <3>1 DEF vars, ring
    <3> QED
      BY <3>1, <3>2, <3>3, <3>4 DEF SnapInv, ImageSound
  <2> QED
    BY <2>1, <2>2, <2>3, <2>4, <2>5 DEF SnapNext
<1>3. SnapInv => NoGap
  <2> SUFFICES ASSUME SnapInv PROVE NoGap
    OBVIOUS
  <2>1. CASE ~loaded
    BY <2>1, NoGapNow DEF SnapInv, NoGap
  <2>2. CASE loaded /\ ~(Outlived /\ Occupied = 0)
    BY <2>2 DEF SnapInv, Replayed, Fetched, NoGap
  <2>3. CASE loaded /\ Outlived /\ Occupied = 0
    <3>1. AckCut /\ image.posted \in Nat
      BY <2>3 DEF SnapInv, Replayed, Quiet, Requests, AckCut
    <3>2. \A i \in 1 .. Len(received) :
             received[i] = IF i <= image.posted THEN i ELSE image.posted
      BY <2>3 DEF SnapInv, Replayed, Fetched
    <3>3. Len(received) \in Nat
      BY <2>3 DEF SnapInv, Replayed, Quiet, ReceiverTypeOK
    <3> QED
      BY <3>1, <3>2, <3>3 DEF NoGap
  <2> QED
    BY <2>1, <2>2, <2>3
<1> QED
  BY <1>1, <1>2, <1>3, PTL DEF SnapSpec
=============================================================================
