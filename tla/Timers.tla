------------------------------- MODULE Timers -------------------------------
(***************************************************************************)
(* The free-running timers FRT1-FRT3 and the 8-bit timer of the main CPU   *)
(* (mcu_timer.cpp): counters with two compare registers and an overflow,   *)
(* three flags each, and a request to the interrupt controller for every   *)
(* raised flag that is enabled.  The 16-bit registers are reached by two   *)
(* byte accesses through one temporary register that all FRTs share.       *)
(*                                                                         *)
(* The CPU's accesses and the rounds of TIMER_Clock come in any order; in  *)
(* the program several rounds pass between two instructions.               *)
(***************************************************************************)
EXTENDS Integers, FiniteSets

CONSTANTS
    Free,        \* the free-running timers
    Byte,        \* the 8-bit timer
    Half,        \* values of a byte (256)
    Rates,       \* clock divisions
    ResetRate,   \* the one of a FRT after reset
    Period,      \* bound: timer_cycles is kept modulo this
    Enables,     \* sets of interrupts the firmware enables
    MaxWrites    \* bound: writes to control, counter and compare registers

ASSUME TimersAssumption ==
    /\ Free \cap Byte = {} /\ Half \in Nat \ {0}
    /\ Rates \subseteq Nat \ {0} /\ ResetRate \in Rates
    /\ Period \in Nat \ {0} /\ \A r \in Rates : Period % r = 0
    /\ MaxWrites \in Nat

\* Flags: overflow and the two compare matches (FOV, OCFA, OCFB).
Flags == {"V", "A", "B"}

ASSUME EnablesAssumption == Enables \subseteq SUBSET Flags

Channels == Free \cup Byte

VARIABLES
    cycles,      \* timer_cycles
    count,       \* frc, tcnt
    compare,     \* ocra and ocrb, tcora and tcorb
    rate,        \* clock select of tcr; 0 while the 8-bit timer is stopped
    clearedBy,   \* the match that clears the counter, if any
    enabled,     \* interrupt enables of tcr
    flags,       \* the flags of tcsr
    status_rd,   \* the flags firmware has read as set
    pending,     \* requests at the interrupt controller
    tempreg,     \* timer_tempreg
    word,        \* history: what the CPU got of a 16-bit register so far
    writes       \* bound: register writes left

settings == <<compare, rate, clearedBy, enabled>>
status == <<flags, status_rd, pending>>
access == <<tempreg, word>>
vars == <<cycles, count, settings, status, access, writes>>

Top(c) == IF c \in Free THEN Half * Half - 1 ELSE Half - 1
RatesOf(c) == IF c \in Free THEN Rates ELSE Rates \cup {0}
ClearsOf(c) == IF c \in Free THEN {"never", "A"} ELSE {"never", "A", "B"}
NoWord == [owner |-> {}, register |-> "none", high |-> 0, whole |-> 0]

TypeOK ==
    /\ cycles \in 0 .. Period - 1
    /\ DOMAIN count = Channels /\ \A c \in Channels : count[c] \in 0 .. Top(c)
    /\ DOMAIN compare = Channels
    /\ \A c \in Channels : compare[c] \in [{"A", "B"} -> 0 .. Top(c)]
    /\ DOMAIN rate = Channels /\ \A c \in Channels : rate[c] \in RatesOf(c)
    /\ DOMAIN clearedBy = Channels /\ \A c \in Channels : clearedBy[c] \in ClearsOf(c)
    /\ enabled \in [Channels -> SUBSET Flags]
    /\ flags \in [Channels -> SUBSET Flags]
    /\ status_rd \in [Channels -> SUBSET Flags]
    /\ pending \subseteq Channels \X Flags
    /\ tempreg \in 0 .. Half - 1
    /\ writes \in 0 .. MaxWrites

\* Statics start from zero, as TIMER_Reset, which nothing calls, would set them.
Init ==
    /\ cycles = 0
    /\ count = [c \in Channels |-> 0]
    /\ compare = [c \in Channels |-> [r \in {"A", "B"} |-> 0]]
    /\ rate = [c \in Channels |-> IF c \in Free THEN ResetRate ELSE 0]
    /\ clearedBy = [c \in Channels |-> "never"]
    /\ enabled = [c \in Channels |-> {}]
    /\ flags = [c \in Channels |-> {}]
    /\ status_rd = [c \in Channels |-> {}]
    /\ pending = {}
    /\ tempreg = 0 /\ word = NoWord
    /\ writes = MaxWrites

-----------------------------------------------------------------------------
(* TIMER_Clock                                                             *)

Running(c) == rate[c] # 0 /\ cycles % rate[c] = 0

Matches(c) == {r \in {"A", "B"} : count[c] = compare[c][r]}

Step_Saturates(c) ==
    IF clearedBy[c] \in Matches(c) THEN 0
    ELSE IF count[c] = Top(c) THEN Top(c) ELSE count[c] + 1
\* The counter after this round, one more than Top(c) when it overflows.
Step(c) == IF clearedBy[c] \in Matches(c) THEN 0 ELSE count[c] + 1

Raised(c) ==
    IF Running(c)
    THEN Matches(c) \cup (IF Step(c) > Top(c) THEN {"V"} ELSE {})
    ELSE {}

Requests_Edge(c) == (Raised(c) \ flags[c]) \cap enabled[c]
\* Requests follow the level of a flag, not its edge: one enabled late counts.
Requests(c) == IF Running(c) THEN (flags[c] \cup Raised(c)) \cap enabled[c] ELSE {}

\* One round of the loop.
Tick ==
    /\ cycles' = (cycles + 1) % Period
    /\ count' = [c \in Channels |->
                   IF Running(c) THEN Step(c) % (Top(c) + 1) ELSE count[c]]
    /\ flags' = [c \in Channels |-> flags[c] \cup Raised(c)]
    /\ pending' = pending \cup {p \in Channels \X Flags : p[2] \in Requests(p[1])}
    /\ UNCHANGED <<settings, status_rd, access, writes>>

-----------------------------------------------------------------------------
(* The CPU's accesses                                                      *)

\* TCSR of an FRT also holds CCLRA.
WriteStatus(c) ==
    \E zeros \in SUBSET Flags :
        LET cleared == zeros \cap status_rd[c] IN
        /\ flags' = [flags EXCEPT ![c] = @ \ cleared]
        /\ status_rd' = [status_rd EXCEPT ![c] = @ \ cleared]
        /\ pending' = pending \ ({c} \X cleared)
        /\ IF c \in Free
           THEN \E m \in ClearsOf(c) : clearedBy' = [clearedBy EXCEPT ![c] = m]
           ELSE UNCHANGED clearedBy
        /\ UNCHANGED <<cycles, count, compare, rate, enabled, access, writes>>

ReadStatus_All(c) ==
    /\ status_rd' = [status_rd EXCEPT ![c] = Flags]
    /\ UNCHANGED <<cycles, count, settings, flags, pending, access, writes>>
ReadStatus(c) ==
    /\ status_rd' = [status_rd EXCEPT ![c] = @ \cup flags[c]]
    /\ UNCHANGED <<cycles, count, settings, flags, pending, access, writes>>

\* TCR: a request already made stays, whatever is disabled.
WriteControl(c) ==
    /\ writes > 0 /\ writes' = writes - 1 \* bound
    /\ \E e \in Enables : enabled' = [enabled EXCEPT ![c] = e]
    /\ \E r \in RatesOf(c) : rate' = [rate EXCEPT ![c] = r]
    /\ IF c \in Byte
       THEN \E m \in ClearsOf(c) : clearedBy' = [clearedBy EXCEPT ![c] = m]
       ELSE UNCHANGED clearedBy
    /\ UNCHANGED <<cycles, count, compare, status, access>>

Registers == {"count", "A", "B"}
Value(c, r) == IF r = "count" THEN count[c] ELSE compare[c][r]

WriteHigh ==
    /\ tempreg' \in 0 .. Half - 1
    /\ word' = NoWord
    /\ UNCHANGED <<cycles, count, settings, status, writes>>

\* The low byte of an FRT register, or the register of the 8-bit timer.
WriteLow(c, r) ==
    /\ writes > 0 /\ writes' = writes - 1 \* bound
    /\ \E low \in 0 .. Half - 1 :
          LET value == IF c \in Free THEN tempreg * Half + low ELSE low IN
          IF r = "count"
          THEN count' = [count EXCEPT ![c] = value] /\ UNCHANGED compare
          ELSE compare' = [compare EXCEPT ![c][r] = value] /\ UNCHANGED count
    /\ UNCHANGED <<cycles, rate, clearedBy, enabled, status, access>>

ReadHigh(c, r) ==
    /\ c \in Free
    /\ tempreg' = Value(c, r) % Half
    /\ word' = [owner |-> {c}, register |-> r,
                high |-> Value(c, r) \div Half, whole |-> Value(c, r)]
    /\ UNCHANGED <<cycles, count, settings, status, writes>>

LowByte_Live(c, r) == Value(c, r) % Half
\* What a read of a low byte returns.
LowByte(c, r) == tempreg

Access ==
    \/ WriteHigh
    \/ \E c \in Channels :
          \/ WriteStatus(c) \/ ReadStatus(c) \/ WriteControl(c)
          \/ \E r \in Registers : WriteLow(c, r) \/ ReadHigh(c, r)

Next == Tick \/ Access

Spec == Init /\ [][Next]_vars

\* The host loop calls TIMER_Clock after every instruction.
FairSpec == Spec /\ WF_vars(Tick)

-----------------------------------------------------------------------------
(* Properties                                                              *)

\* Every flag of every timer keeps the promise of StatusFlag: no write to TCSR
\* clears a flag the firmware has not read as set, whatever rounds of the clock
\* fall between the reading and the write, and no request outlives its flag.
Flag(c, f) == INSTANCE StatusFlag WITH
    raised <- f \in flags[c], seen <- f \in status_rd[c],
    requested <- <<c, f>> \in pending
FlagsAcknowledged ==
    /\ \A c \in Channels, f \in Flags : Flag(c, f)!Init
    /\ [][\A c \in Channels, f \in Flags : [Flag(c, f)!Next]_(Flag(c, f)!flag)]_vars

\* The two bytes of a 16-bit read are of one and the same value, although the
\* counter runs between them.
WordsWhole ==
    \A c \in word.owner :
        word.high * Half + LowByte(c, word.register) = word.whole

\* A flag that is raised and enabled asks for its interrupt, even when it was
\* raised before it was enabled, unless firmware takes one of these back.
Asks(c, f) == f \in flags[c] \cap enabled[c] /\ rate[c] # 0
EveryFlagAsks ==
    \A c \in Channels, f \in Flags : Asks(c, f) ~> <<c, f>> \in pending \/ ~Asks(c, f)

\* A free-running timer whose match A is enabled for good beats for ever: its
\* request comes again after every acknowledgement.
HeartbeatGoesOn ==
    \A c \in Free :
        <>[]("A" \in enabled[c]) => []<>(<<c, "A">> \in pending)
=============================================================================
