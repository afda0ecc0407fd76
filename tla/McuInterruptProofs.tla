------------------------- MODULE McuInterruptProofs -------------------------
(***************************************************************************)
(* No handler is re-entered, for every set of sources, whatever their      *)
(* levels, with traps, exceptions, tracing and L1 routines, and nothing is *)
(* taken right after a write to SR.                                        *)
(***************************************************************************)
EXTENDS McuInterrupt, TLAPS

Types ==
    /\ mask \in 0 .. 7 /\ traced \in BOOLEAN
    /\ stack \in Seq(Frames)
    /\ pending \subseteq Sources

\* From the newest frame to the oldest the saved masks fall, and a source is
\* above the mask it interrupted and not above any mask set since.
Ordered ==
    /\ \A i \in 1 .. Len(stack) : stack[i].mask <= mask
    /\ \A i, j \in 1 .. Len(stack) : i < j => stack[j].mask <= stack[i].mask
    /\ \A i \in 1 .. Len(stack) : stack[i].from \in Sources =>
          /\ stack[i].mask < Level[stack[i].from]
          /\ Level[stack[i].from] <= mask
          /\ \A k \in 1 .. i - 1 : Level[stack[i].from] <= stack[k].mask

IInv == Types /\ Ordered

-----------------------------------------------------------------------------
\* Pushing a frame whose source is above the mask keeps the order.
LEMMA StartKeepsOrder ==
    ASSUME IInv, NEW from \in Sources \cup {ByTrap, ByException}, NEW m \in 0 .. 7,
           Start(from, m), mask <= m, pending' \subseteq Sources,
           from \in Sources => mask < Level[from] /\ Level[from] <= m
    PROVE  IInv'
<1> DEFINE f == [from |-> from, mask |-> mask, traced |-> traced]
<1>1. f \in Frames
  BY DEF IInv, Types, Frames
<1>2. stack' = <<f>> \o stack /\ mask' = m
  BY DEF Start
<1>3. f.from = from /\ f.mask = mask
  OBVIOUS
<1> HIDE DEF f
<1>4. stack \in Seq(Frames) /\ mask \in 0 .. 7
  BY DEF IInv, Types
<1>5. Types'
  <2>1. stack' \in Seq(Frames) /\ mask' \in 0 .. 7
    BY <1>1, <1>2, <1>4
  <2>2. traced' \in BOOLEAN
    BY Zenon DEF Start
  <2> QED BY <2>1, <2>2 DEF Types
<1>6. /\ Len(stack') = Len(stack) + 1
      /\ stack'[1] = f
      /\ \A i \in 2 .. Len(stack') : stack'[i] = stack[i - 1]
  BY <1>1, <1>2, <1>4
<1>7. \A i \in 1 .. Len(stack) : stack[i] \in Frames
  BY <1>4
<1>8. \A i \in 1 .. Len(stack) : stack[i].mask \in 0 .. 7
  BY <1>7 DEF Frames
<1>9. \A s \in Sources : Level[s] \in 0 .. 7
  BY ControllerAssumption
<1>10. Ordered'
  <2> USE DEF IInv, Ordered
  <2>1. ASSUME NEW i \in 1 .. Len(stack')
        PROVE  stack'[i].mask <= mask'
    <3>1. CASE i = 1
      BY <1>2, <1>3, <1>6, <3>1
    <3>2. CASE i # 1
      <4>1. i - 1 \in 1 .. Len(stack) /\ stack'[i] = stack[i - 1]
        BY <1>4, <1>6, <3>2
      <4>2. stack[i - 1].mask <= mask /\ stack[i - 1].mask \in 0 .. 7
        BY <1>8, <4>1
      <4> QED BY <1>2, <1>4, <4>1, <4>2
    <3> QED BY <3>1, <3>2
  <2>2. ASSUME NEW i \in 1 .. Len(stack'), NEW j \in 1 .. Len(stack'), i < j
        PROVE  stack'[j].mask <= stack'[i].mask
    <3>1. j - 1 \in 1 .. Len(stack) /\ stack'[j] = stack[j - 1]
      BY <1>4, <1>6, <2>2
    <3>2. CASE i = 1
      BY <1>3, <1>6, <3>1, <3>2
    <3>3. CASE i # 1
      <4>1. i - 1 \in 1 .. Len(stack) /\ stack'[i] = stack[i - 1] /\ i - 1 < j - 1
        BY <1>4, <1>6, <2>2, <3>3
      <4> QED BY <3>1, <4>1
    <3> QED BY <3>2, <3>3
  <2>3. ASSUME NEW i \in 1 .. Len(stack'), stack'[i].from \in Sources
        PROVE  /\ stack'[i].mask < Level[stack'[i].from]
               /\ Level[stack'[i].from] <= mask'
               /\ \A k \in 1 .. i - 1 : Level[stack'[i].from] <= stack'[k].mask
    <3>1. CASE i = 1
      BY <1>2, <1>3, <1>6, <2>3, <3>1
    <3>2. CASE i # 1
      <4>1. i - 1 \in 1 .. Len(stack) /\ stack'[i] = stack[i - 1]
        BY <1>4, <1>6, <3>2
      <4>2. stack[i - 1].from \in Sources
        BY <2>3, <4>1
      <4>3. /\ stack[i - 1].mask < Level[stack[i - 1].from]
            /\ Level[stack[i - 1].from] <= mask
        BY <4>1, <4>2
      <4>4. Level[stack[i - 1].from] <= m
        BY <1>4, <1>9, <4>2, <4>3
      <4>5. ASSUME NEW k \in 1 .. i - 1
            PROVE  Level[stack[i - 1].from] <= stack'[k].mask
        <5>1. CASE k = 1
          BY <1>3, <1>6, <4>3, <5>1
        <5>2. CASE k # 1
          <6>1. k - 1 \in 1 .. (i - 1) - 1 /\ stack'[k] = stack[k - 1]
            BY <1>4, <1>6, <4>1, <5>2
          <6> QED BY <4>1, <4>2, <6>1
        <5> QED BY <5>1, <5>2
      <4> QED BY <1>2, <4>1, <4>3, <4>4, <4>5
    <3> QED BY <3>1, <3>2
  <2> QED BY <2>1, <2>2, <2>3
<1> QED BY <1>5, <1>10 DEF IInv

\* Popping the newest frame and restoring its mask keeps it.
LEMMA RteKeepsOrder == IInv /\ Rte => IInv'
<1> SUFFICES ASSUME IInv, Rte PROVE IInv'
  OBVIOUS
<1>1. /\ stack # <<>> /\ stack' = Tail(stack) /\ pending' = pending
      /\ mask' = stack[1].mask /\ traced' = stack[1].traced
  BY DEF Rte, IInv, Types
<1>2. stack \in Seq(Frames) /\ pending \subseteq Sources
  BY DEF IInv, Types
<1>3. stack[1] \in Frames
  BY <1>1, <1>2
<1>4. Types'
  BY <1>1, <1>2, <1>3 DEF Types, Frames
<1>5. /\ Len(stack') = Len(stack) - 1
      /\ \A i \in 1 .. Len(stack') : i + 1 \in 1 .. Len(stack) /\ stack'[i] = stack[i + 1]
  BY <1>1, <1>2
<1>6. Ordered'
  <2> USE DEF IInv, Ordered
  <2>1. ASSUME NEW i \in 1 .. Len(stack')
        PROVE  stack'[i].mask <= mask'
    <3>1. stack[i + 1].mask <= stack[1].mask
      BY <1>2, <1>5
    <3> QED BY <1>1, <1>5, <3>1
  <2>2. ASSUME NEW i \in 1 .. Len(stack'), NEW j \in 1 .. Len(stack'), i < j
        PROVE  stack'[j].mask <= stack'[i].mask
    BY <1>5, <2>2
  <2>3. ASSUME NEW i \in 1 .. Len(stack'), stack'[i].from \in Sources
        PROVE  /\ stack'[i].mask < Level[stack'[i].from]
               /\ Level[stack'[i].from] <= mask'
               /\ \A k \in 1 .. i - 1 : Level[stack'[i].from] <= stack'[k].mask
    <3>1. stack[i + 1].from \in Sources
      BY <1>5, <2>3
    <3>2. /\ stack[i + 1].mask < Level[stack[i + 1].from]
          /\ \A k \in 1 .. i : Level[stack[i + 1].from] <= stack[k].mask
      BY <1>5, <3>1
    <3>3. Level[stack'[i].from] <= mask'
      BY <1>1, <1>5, <3>2
    <3>4. ASSUME NEW k \in 1 .. i - 1
          PROVE  Level[stack'[i].from] <= stack'[k].mask
      <4>1. k \in 1 .. Len(stack') /\ k + 1 \in 1 .. i
        BY <1>2, <1>5
      <4> QED BY <1>5, <3>2, <4>1
    <3> QED BY <1>5, <3>2, <3>3, <3>4
  <2> QED BY <2>1, <2>2, <2>3
<1> QED BY <1>4, <1>6 DEF IInv

\* Firmware raises the mask while a frame is on the stack.
LEMMA WriteSRKeepsOrder == IInv /\ WriteSR => IInv'
<1> SUFFICES ASSUME IInv, WriteSR PROVE IInv'
  OBVIOUS
<1>1. /\ stack' = stack /\ pending' = pending
      /\ mask' \in 0 .. 7 /\ traced' \in BOOLEAN /\ (stack # <<>> => mask' >= mask)
  BY ControllerAssumption DEF WriteSR
<1>2. /\ stack \in Seq(Frames) /\ pending \subseteq Sources /\ mask \in 0 .. 7
  BY DEF IInv, Types
<1>3. Types'
  BY <1>1, <1>2 DEF Types
<1>4. CASE stack = <<>>
  BY <1>1, <1>2, <1>3, <1>4 DEF IInv, Ordered
<1>5. CASE stack # <<>>
  <2>1. \A i \in 1 .. Len(stack) : stack[i] \in Frames
    BY <1>2
  <2>2. \A i \in 1 .. Len(stack) : stack[i].mask \in 0 .. 7
    BY <2>1 DEF Frames
  <2>3. \A s \in Sources : Level[s] \in 0 .. 7
    BY ControllerAssumption
  <2>4. mask' >= mask
    BY <1>1, <1>5
  <2>5. \A i \in 1 .. Len(stack) : stack[i].mask <= mask'
    BY <1>1, <1>2, <2>2, <2>4 DEF IInv, Ordered
  <2>6. \A i \in 1 .. Len(stack) : stack[i].from \in Sources =>
           Level[stack[i].from] <= mask'
    BY <1>1, <1>2, <2>3, <2>4 DEF IInv, Ordered
  <2>7. Ordered'
    BY <1>1, <2>5, <2>6 DEF IInv, Ordered
  <2> QED BY <1>3, <2>7 DEF IInv
<1> QED BY <1>4, <1>5

\* MCU_Interrupt_Handle enters what is above the mask, or a trap, whose mask
\* stays.
LEMMA HandleKeepsOrder == IInv /\ Handle => IInv'
<1> SUFFICES ASSUME IInv, Handle PROVE IInv'
  OBVIOUS
<1>1. mask \in 0 .. 7 /\ pending \subseteq Sources
  BY DEF IInv, Types
<1>2. ByTrap \notin Sources /\ ByException \notin Sources
  BY ControllerAssumption DEF ByTrap, ByException
<1>3. CASE TakeTrap
  <2>1. Start(ByTrap, mask) /\ pending' \subseteq Sources
    BY <1>1, <1>3 DEF TakeTrap
  <2> QED BY <1>1, <1>2, <2>1, StartKeepsOrder
<1>4. CASE TakeException
  <2>1. Start(ByException, mask) /\ pending' \subseteq Sources
    BY <1>1, <1>4 DEF TakeException
  <2> QED BY <1>1, <1>2, <2>1, StartKeepsOrder
<1>5. CASE TakeInterrupt
  <2>1. PICK s \in Deliverable : Start(s, Level[s])
    BY <1>5 DEF TakeInterrupt
  <2>2. s \in Sources /\ Level[s] > mask /\ pending' \subseteq Sources
    BY <1>1, <1>5, <2>1 DEF Deliverable, TakeInterrupt, requests
  <2>3. Level[s] \in 0 .. 7
    BY <2>2, ControllerAssumption
  <2> QED BY <1>1, <2>1, <2>2, <2>3, StartKeepsOrder
<1>6. CASE TakeNothing
  BY <1>6 DEF TakeNothing, IInv, Types, Ordered, requests, sr
<1> QED BY <1>3, <1>4, <1>5, <1>6 DEF Handle

THEOREM StackOrdered == Spec => []IInv
<1>1. Init => IInv
  <2> SUFFICES ASSUME Init PROVE IInv
    OBVIOUS
  <2>1. mask = 7 /\ traced = FALSE /\ stack = <<>> /\ pending = {}
    BY DEF Init
  <2>2. Types
    <3>1. mask \in 0 .. 7 /\ stack \in Seq(Frames) /\ pending \subseteq Sources
      BY <2>1
    <3>2. traced \in BOOLEAN
      BY <2>1, Zenon
    <3> QED BY <3>1, <3>2 DEF Types
  <2>3. Ordered
    BY <2>1 DEF Ordered
  <2> QED BY <2>2, <2>3 DEF IInv
<1>2. IInv /\ [Next]_vars => IInv'
  <2> SUFFICES ASSUME IInv, [Next]_vars PROVE IInv'
    OBVIOUS
  <2>1. CASE Poll
    BY <2>1, HandleKeepsOrder DEF Poll, IInv, Types, Ordered, requests, sr
  <2>2. CASE Boundary
    BY <2>2, HandleKeepsOrder DEF Boundary, IInv, Types, Ordered, requests, sr
  <2>3. CASE Asleep
    BY <2>3 DEF Asleep, IInv, Types, Ordered, requests, sr
  <2>4. CASE Devices
    BY <2>4 DEF Devices, IInv, Types, Ordered, sr
  <2>5. CASE Execute
    <3>1. CASE Rte
      BY <3>1, RteKeepsOrder
    <3>2. CASE WriteSR
      BY <3>2, WriteSRKeepsOrder
    <3>3. CASE Acknowledge
      BY <3>3 DEF Acknowledge, IInv, Types, Ordered, sr
    <3>4. CASE Plain \/ Fault \/ Trapa \/ Sleep
      BY <3>4 DEF Plain, Fault, Trapa, Sleep, IInv, Types, Ordered, sr
    <3> QED BY <2>5, <3>1, <3>2, <3>3, <3>4 DEF Execute
  <2>6. CASE UNCHANGED vars
    BY <2>6 DEF vars, IInv, Types, Ordered, requests, sr
  <2> QED BY <2>1, <2>2, <2>3, <2>4, <2>5, <2>6 DEF Next
<1> QED BY <1>1, <1>2, PTL DEF Spec

\* A source that occurred twice would be above a mask and not above it.
THEOREM HandlersNotReentered == Spec => []NeverReentered
<1>1. IInv => NeverReentered
  <2> SUFFICES ASSUME IInv, NEW i \in 1 .. Len(stack), NEW j \in 1 .. Len(stack),
                      i < j, stack[j].from \in Sources, stack[i].from = stack[j].from
               PROVE  FALSE
    <3>1. Len(stack) \in Nat
      BY DEF IInv, Types
    <3> QED BY <3>1 DEF NeverReentered
  <2>1. stack[i] \in Frames /\ Level[stack[i].from] \in 0 .. 7
    <3>1. stack \in Seq(Frames)
      BY DEF IInv, Types
    <3>2. \A s \in Sources : Level[s] \in 0 .. 7
      BY ControllerAssumption
    <3> QED BY <3>1, <3>2
  <2>2. stack[i].mask < Level[stack[i].from] /\ i \in 1 .. j - 1
    BY DEF IInv, Ordered
  <2>3. Level[stack[j].from] <= stack[i].mask
    BY <2>2 DEF IInv, Ordered
  <2> QED BY <2>1, <2>2, <2>3 DEF Frames
<1> QED BY <1>1, StackOrdered, PTL

-----------------------------------------------------------------------------
\* From a write to SR to the next instruction ex_ignore is set, and nothing
\* is asleep.
ShadowInv ==
    /\ shadow \in BOOLEAN /\ exIgnore \in BOOLEAN /\ sleep \in BOOLEAN
    /\ shadow => ~sleep
    /\ shadow /\ step # "execute" => exIgnore

\* What Handle does is wake up, or nothing.
LEMMA HandleWakes == Handle => sleep' = FALSE \/ sleep' = sleep
BY DEF Handle, TakeTrap, TakeException, TakeInterrupt, TakeNothing, Start

THEOREM ShadowKept == Spec => []ShadowInv
<1>1. Init => ShadowInv
  BY Zenon DEF Init, ShadowInv
<1>2. ShadowInv /\ [Next]_vars => ShadowInv'
  <2> SUFFICES ASSUME ShadowInv, [Next]_vars PROVE ShadowInv'
    OBVIOUS
  <2>1. CASE Poll
    <3>1. /\ step' = "execute" /\ exIgnore' = FALSE /\ shadow' = shadow
          /\ (sleep' = FALSE \/ sleep' = sleep)
      BY <2>1, HandleWakes DEF Poll
    <3>2. CASE sleep' = FALSE
      BY <3>1, <3>2, Zenon DEF ShadowInv
    <3>3. CASE sleep' = sleep
      BY <3>1, <3>3, Zenon DEF ShadowInv
    <3> QED BY <3>1, <3>2, <3>3
  <2>2. CASE Boundary
    <3>1. CASE exIgnore /\ UNCHANGED sleep
      <4>1. step' = "execute" /\ exIgnore' = FALSE /\ shadow' = shadow
        BY <2>2, <3>1 DEF Boundary
      <4> QED BY <3>1, <4>1, Zenon DEF ShadowInv
    <3>2. CASE ~exIgnore /\ Handle
      <4>1. ~shadow
        BY <2>2, <3>2 DEF Boundary, ShadowInv
      <4>2. exIgnore' = FALSE /\ shadow' = shadow /\ (sleep' = FALSE \/ sleep' = sleep)
        BY <2>2, <3>2, HandleWakes DEF Boundary
      <4> QED BY <4>1, <4>2, Zenon DEF ShadowInv
    <3> QED BY <2>2, <3>1, <3>2 DEF Boundary
  <2>3. CASE Asleep
    BY <2>3, Zenon DEF Asleep, ShadowInv
  <2>4. CASE Devices
    BY <2>4, Zenon DEF Devices, ShadowInv
  <2>5. CASE Execute
    <3>1. CASE WriteSR \/ Rte
      <4>1. shadow' = TRUE /\ exIgnore' = TRUE /\ sleep' = sleep /\ ~sleep
        BY <3>1 DEF WriteSR, Rte, Executes
      <4> QED BY <4>1, Zenon DEF ShadowInv
    <3>2. CASE Plain \/ Fault \/ Trapa \/ Acknowledge
      <4>1. shadow' = FALSE /\ exIgnore' = exIgnore /\ sleep' = sleep
        BY <3>2 DEF Plain, Fault, Trapa, Acknowledge
      <4> QED BY <4>1, Zenon DEF ShadowInv
    <3>3. CASE Sleep
      <4>1. shadow' = FALSE /\ exIgnore' = exIgnore /\ sleep' = TRUE
        BY <3>3 DEF Sleep
      <4> QED BY <4>1, Zenon DEF ShadowInv
    <3> QED BY <2>5, <3>1, <3>2, <3>3 DEF Execute
  <2>6. CASE UNCHANGED vars
    BY <2>6 DEF vars, ShadowInv
  <2> QED BY <2>1, <2>2, <2>3, <2>4, <2>5, <2>6 DEF Next
<1> QED BY <1>1, <1>2, PTL DEF Spec

\* Nothing is taken right after a write to SR, on the host loop or inside a
\* routine, whatever else is pending.
THEOREM ShadowAlwaysRespected == Spec => ShadowRespected
<1>1. IInv /\ ShadowInv /\ [Next]_vars => [Len(stack') > Len(stack) => ~shadow]_vars
  <2> SUFFICES ASSUME IInv, ShadowInv, [Next]_vars, Len(stack') > Len(stack)
               PROVE  ~shadow
    OBVIOUS
  <2>1. stack \in Seq(Frames) /\ ~(Len(stack) > Len(stack))
    BY DEF IInv, Types
  <2>2. CASE Poll
    <3>1. step = "poll" /\ ~exIgnore
      BY <2>1, <2>2 DEF Poll
    <3> QED BY <3>1 DEF ShadowInv
  <2>3. CASE Boundary
    <3>1. step = "boundary" /\ ~exIgnore
      BY <2>1, <2>3 DEF Boundary
    <3> QED BY <3>1 DEF ShadowInv
  <2>4. CASE Asleep \/ Devices \/ UNCHANGED vars
    BY <2>1, <2>4 DEF Asleep, Devices, vars
  <2>5. CASE Execute
    <3>1. CASE Rte
      <4>1. stack # <<>> /\ stack' = Tail(stack)
        BY <3>1 DEF Rte
      <4>2. Len(stack') = Len(stack) - 1
        BY <2>1, <4>1
      <4> QED BY <2>1, <4>2
    <3>2. CASE ~Rte
      BY <2>1, <2>5, <3>2
         DEF Execute, Plain, Fault, Trapa, Sleep, WriteSR, Acknowledge
    <3> QED BY <3>1, <3>2
  <2> QED BY <2>2, <2>3, <2>4, <2>5 DEF Next
<1> QED BY <1>1, StackOrdered, ShadowKept, PTL DEF Spec, ShadowRespected
=============================================================================
