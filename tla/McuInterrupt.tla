---------------------------- MODULE McuInterrupt ----------------------------
(***************************************************************************)
(* How the main CPU takes traps, exceptions and interrupts                 *)
(* (mcu_interrupt.cpp, the loop of work_thread, and the instructions of    *)
(* mcu_opcodes.cpp that touch SR).  A request stays pending after it was   *)
(* taken, until firmware clears it at the device: only the mask keeps a    *)
(* handler from being entered again.                                       *)
(*                                                                         *)
(* One round of the host loop is poll, execute, clock the devices.         *)
(* An L1 routine of mk2cpp may run several instructions in one round and   *)
(* poll between them through MK2CPP_HandBoundary.                          *)
(***************************************************************************)
EXTENDS Integers, Sequences, FiniteSets

CONSTANTS
    Sources,     \* interrupt sources, by their number in mcu_interrupt.h
    Level,       \* their levels in IPRA..IPRD
    Closed,      \* IRQ0 and IRQ1, while P1CR does not let them through
    Vectors,     \* TRAPA vectors the firmware uses
    Masks,       \* interrupt masks the firmware writes
    Traces,      \* values it gives to the T bit
    Routines,    \* TRUE: L1 routines run
    Raises,      \* bound: requests a source raises
    MaxTraps     \* bound: frames on the stack when a trap or a trace is asked for

ASSUME ControllerAssumption ==
    /\ Sources \subseteq Nat /\ Vectors \subseteq Nat /\ IsFiniteSet(Sources)
    /\ Level \in [Sources -> 0 .. 7] /\ Closed \subseteq Sources
    /\ Masks \subseteq 0 .. 7 /\ Traces \subseteq BOOLEAN /\ Routines \in BOOLEAN
    /\ Raises \in Nat /\ MaxTraps \in Nat

VARIABLES
    trapa,       \* trapa_pending
    exception,   \* exception_pending: one slot
    pending,     \* interrupt_pending
    mask, traced,\* the interrupt mask and the T bit of SR
    exIgnore,    \* ex_ignore
    sleep,
    stack,       \* frames pushed by MCU_Interrupt_Start, the newest first
    step,        \* where the round is
    left,        \* bound: requests left to each source
    shadow       \* history: the last instruction wrote SR

requests == <<trapa, exception, pending>>
sr == <<mask, traced>>
vars == <<requests, sr, exIgnore, sleep, stack, step, left, shadow>>

\* What pushed a frame, when it was no interrupt source.
ByTrap == -1
ByException == -2
Frames == [from : Sources \cup {ByTrap, ByException}, mask : 0 .. 7, traced : BOOLEAN]

TypeOK ==
    /\ trapa \subseteq Vectors /\ pending \subseteq Sources
    /\ exception \in {"none", "fault", "trace"}
    /\ mask \in 0 .. 7 /\ traced \in BOOLEAN
    /\ exIgnore \in BOOLEAN /\ sleep \in BOOLEAN
    /\ stack \in Seq(Frames)
    /\ step \in {"poll", "execute", "boundary", "devices"}
    /\ left \in [Sources -> 0 .. Raises]
    /\ shadow \in BOOLEAN

\* MCU_Init and the reset vector: firmware starts with every interrupt masked.
Init ==
    /\ trapa = {} /\ exception = "none" /\ pending = {}
    /\ mask = 7 /\ traced = FALSE /\ exIgnore = FALSE /\ sleep = FALSE
    /\ stack = <<>> /\ step = "poll"
    /\ left = [s \in Sources |-> Raises]
    /\ shadow = FALSE

-----------------------------------------------------------------------------
(* MCU_Interrupt_Handle                                                    *)

\* MCU_Interrupt_Start: push, drop T, raise the mask, wake up.
Start(from, newMask) ==
    /\ stack' = <<[from |-> from, mask |-> mask, traced |-> traced]>> \o stack
    /\ mask' = newMask
    /\ traced' = FALSE
    /\ sleep' = FALSE

Deliverable_NotStrict == {s \in pending \ Closed : Level[s] >= mask}
Deliverable_Return ==
    {s \in pending \ Closed : Level[s] > mask /\ \A t \in pending : s <= t}
\* Sources the scan does not pass over.
Deliverable == {s \in pending \ Closed : Level[s] > mask}

\* Both scans go by number.
IsFirst(n, S) == \A m \in S : n <= m

TakeTrap ==
    /\ \E v \in trapa : IsFirst(v, trapa) /\ trapa' = trapa \ {v}
    /\ Start(ByTrap, mask)
    /\ UNCHANGED <<exception, pending>>

TakeException ==
    /\ trapa = {} /\ exception # "none"
    /\ exception' = "none"
    /\ Start(ByException, mask)
    /\ UNCHANGED <<trapa, pending>>

\* The first source of the enumeration, whatever the levels; it stays pending.
TakeInterrupt ==
    /\ trapa = {} /\ exception = "none"
    /\ \E s \in Deliverable : IsFirst(s, Deliverable) /\ Start(s, Level[s])
    /\ UNCHANGED requests

TakeNothing ==
    /\ trapa = {} /\ exception = "none" /\ Deliverable = {}
    /\ UNCHANGED <<requests, sr, sleep, stack>>

Handle == TakeTrap \/ TakeException \/ TakeInterrupt \/ TakeNothing

-----------------------------------------------------------------------------
(* The host loop, and the poll inside a routine                            *)

Poll ==
    /\ step = "poll" /\ step' = "execute"
    /\ \/ ~exIgnore /\ Handle
       \/ exIgnore /\ UNCHANGED <<requests, sr, sleep, stack>>
    /\ exIgnore' = FALSE
    /\ UNCHANGED <<left, shadow>>

Asleep ==
    /\ step = "execute" /\ sleep
    /\ step' = "devices"
    /\ UNCHANGED <<requests, sr, exIgnore, sleep, stack, left, shadow>>

\* MK2CPP_HandBoundary: the routine goes on, or returns because something was
\* taken; the host then clocks the devices and polls again.
Boundary ==
    /\ step = "boundary"
    /\ \/ /\ exIgnore /\ UNCHANGED <<requests, sr, sleep, stack>>
          /\ step' = "execute"
       \/ /\ ~exIgnore /\ Handle
          /\ step' = IF stack' = stack THEN "execute" ELSE "devices"
    /\ exIgnore' = FALSE
    /\ UNCHANGED <<left, shadow>>

\* TIMER_Clock, UART, PCM, gate array: they raise requests, and never wait.
Devices ==
    /\ step = "devices" /\ step' = "poll"
    /\ \E raised \in SUBSET {s \in Sources \ pending : left[s] > 0} :
          /\ pending' = pending \cup raised
          /\ left' = [s \in Sources |-> IF s \in raised THEN left[s] - 1 ELSE left[s]]
    /\ UNCHANGED <<trapa, exception, sr, exIgnore, sleep, stack, shadow>>

-----------------------------------------------------------------------------
(* MCU_ReadInstruction: the instructions that matter to the controller     *)

\* The T bit, looked at after the instruction, overwrites any other exception.
Executes(raising) ==
    /\ step = "execute" /\ ~sleep
    /\ step' \in IF Routines THEN {"boundary", "devices"} ELSE {"devices"}
    /\ exception' = IF traced' THEN "trace" ELSE raising
    /\ UNCHANGED left

Plain ==
    /\ shadow' = FALSE
    /\ UNCHANGED <<trapa, pending, sr, exIgnore, sleep, stack>>
    /\ Executes(exception)

\* An invalid instruction or an odd address.
Fault ==
    /\ Len(stack) < MaxTraps \* bound
    /\ shadow' = FALSE
    /\ UNCHANGED <<trapa, pending, sr, exIgnore, sleep, stack>>
    /\ Executes("fault")

Trapa ==
    /\ Len(stack) < MaxTraps \* bound
    /\ \E v \in Vectors : trapa' = trapa \cup {v}
    /\ shadow' = FALSE
    /\ UNCHANGED <<pending, sr, exIgnore, sleep, stack>>
    /\ Executes(exception)

\* Firmware sleeps in its main loop, every level let through.
Sleep ==
    /\ stack = <<>> /\ mask = 0
    /\ sleep' = TRUE
    /\ shadow' = FALSE
    /\ UNCHANGED <<trapa, pending, sr, exIgnore, stack>>
    /\ Executes(exception)

\* LDC, ORC, ANDC to SR.  Firmware lowers its mask in the main program only.
WriteSR ==
    /\ \E m \in Masks : mask' = m /\ (stack # <<>> => m >= mask)
    /\ traced' \in Traces
    /\ traced' => Len(stack) < MaxTraps \* bound
    /\ exIgnore' = TRUE
    /\ shadow' = TRUE
    /\ UNCHANGED <<trapa, pending, sleep, stack>>
    /\ Executes(exception)

Rte_NoShadow ==
    /\ stack # <<>>
    /\ mask' = Head(stack).mask /\ traced' = Head(stack).traced
    /\ stack' = Tail(stack)
    /\ UNCHANGED exIgnore
    /\ shadow' = TRUE
    /\ UNCHANGED <<trapa, pending, sleep>>
    /\ Executes(exception)
Rte ==
    /\ stack # <<>>
    /\ mask' = Head(stack).mask /\ traced' = Head(stack).traced
    /\ stack' = Tail(stack)
    /\ exIgnore' = TRUE
    /\ shadow' = TRUE
    /\ UNCHANGED <<trapa, pending, sleep>>
    /\ Executes(exception)

\* A handler clears its request at the device before it returns.
Acknowledge ==
    /\ stack # <<>> /\ Head(stack).from \in pending
    /\ pending' = pending \ {Head(stack).from}
    /\ shadow' = FALSE
    /\ UNCHANGED <<trapa, sr, exIgnore, sleep, stack>>
    /\ Executes(exception)

-----------------------------------------------------------------------------
Execute == Plain \/ Fault \/ Trapa \/ Sleep \/ WriteSR \/ Rte \/ Acknowledge

Next == Poll \/ Asleep \/ Boundary \/ Devices \/ Execute

Spec == Init /\ [][Next]_vars

\* Faults, traps and traces happen, but a program does not live on them.
FaultsCease ==
    <>[][Len(stack') > Len(stack) => Head(stack').from \in Sources]_vars

\* The work thread runs on.  A handler does its job: it acknowledges what it
\* serves and returns.  The main program lets every level through again and
\* again, and does something else than writing SR (or sleeps) then.
FairSpec ==
    /\ Spec /\ WF_vars(Next)
    /\ SF_vars(Acknowledge)
    /\ \A depth \in 1 .. MaxTraps + Cardinality(Sources) :
          SF_vars(Rte /\ Len(stack) = depth /\ Head(stack).from \notin pending)
    /\ SF_vars(WriteSR /\ stack = <<>> /\ mask' = 0)
    /\ SF_vars((Plain \/ Sleep) /\ stack = <<>> /\ mask = 0)
    /\ FaultsCease

-----------------------------------------------------------------------------
(* Properties                                                              *)

\* No handler is entered again before it has returned, although its request
\* is still pending while it runs: on the stack, a source occurs once.
NeverReentered ==
    \A i, j \in 1 .. Len(stack) :
        i # j /\ stack[i].from \in Sources => stack[i].from # stack[j].from

\* After an instruction that wrote SR (RTE included) one instruction runs
\* before anything is taken, so that "unmask; sleep" cannot be split and an
\* interrupted program moves on even if requests never cease.
ShadowRespected == [][Len(stack') > Len(stack) => ~shadow]_vars

\* Every request that can be delivered is served, a closed one ahead of it in
\* the scan or not: its handler is entered.
InService(s) == \E i \in 1 .. Len(stack) : stack[i].from = s
Served(s) == s \in pending /\ s \notin Closed /\ Level[s] > 0 ~> InService(s)
EveryRequestServed == \A s \in Sources : Served(s)
=============================================================================
