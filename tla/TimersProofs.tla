---------------------------- MODULE TimersProofs ----------------------------
(***************************************************************************)
(* Proofs about the timers, for every number of channels, every width and  *)
(* every set of clock divisions: type correctness, and that each flag of   *)
(* each channel is a StatusFlag.                                           *)
(***************************************************************************)
EXTENDS Timers, TLAPS

\* What a counter holds after a round lies within its width.
LEMMA RemainderInRange ==
    ASSUME NEW n \in Nat, NEW m \in Nat \ {0}
    PROVE  n % m \in 0 .. m - 1
  OBVIOUS

\* The largest value of a counter is a natural number.
LEMMA TopNatural == ASSUME NEW c PROVE Top(c) \in Nat /\ Half \in Nat /\ Half >= 1
<1> DEFINE h == Half
<1>1. h \in Nat /\ h >= 1
  BY TimersAssumption
<1>2. h * h \in Nat /\ h * h >= 1
  <2> HIDE DEF h
  <2> QED
    BY <1>1
<1> QED
  BY <1>1, <1>2 DEF Top

-----------------------------------------------------------------------------
(* The flags: what the promise needs of the state is only its shape.       *)

StatusType ==
    /\ flags \in [Channels -> SUBSET Flags]
    /\ status_rd \in [Channels -> SUBSET Flags]

\* No access and no clock changes the shape of the flags.
LEMMA StatusTypeInvariant == Spec => []StatusType
<1>1. Init => StatusType
  BY DEF Init, StatusType
<1>2. StatusType /\ [Next]_vars => StatusType'
  <2> SUFFICES ASSUME StatusType, [Next]_vars PROVE StatusType'
    OBVIOUS
  <2> USE DEF StatusType
  <2>1. CASE Tick
    <3>1. \A c \in Channels : Raised(c) \subseteq Flags
      BY DEF Raised, Matches, Flags
    <3> QED
      BY <2>1, <3>1 DEF Tick
  <2>2. ASSUME NEW c \in Channels, WriteStatus(c) PROVE StatusType'
    BY <2>2 DEF WriteStatus
  <2>3. ASSUME NEW c \in Channels, ReadStatus(c) PROVE StatusType'
    BY <2>3 DEF ReadStatus
  <2>4. ASSUME UNCHANGED <<flags, status_rd>> PROVE StatusType'
    BY <2>4
  <2>5. CASE UNCHANGED vars
    BY <2>4, <2>5 DEF vars, status
  <2>6. CASE WriteHigh
    BY <2>4, <2>6 DEF WriteHigh, status
  <2>7. ASSUME NEW c \in Channels, WriteControl(c) PROVE StatusType'
    BY <2>4, <2>7 DEF WriteControl, status
  <2>8. ASSUME NEW c \in Channels, NEW r \in Registers,
               WriteLow(c, r) \/ ReadHigh(c, r)
        PROVE StatusType'
    BY <2>4, <2>8 DEF WriteLow, ReadHigh, status
  <2> QED
    BY <2>1, <2>2, <2>3, <2>5, <2>6, <2>7, <2>8 DEF Next, Access
<1> QED
  BY <1>1, <1>2, PTL DEF Spec

\* A clock round raises a flag, perhaps with a request, or leaves it alone.
LEMMA TickRaises ==
    ASSUME StatusType, Tick, NEW c \in Channels, NEW f \in Flags
    PROVE  [Flag(c, f)!Next]_(Flag(c, f)!flag)
<1> USE DEF StatusType
<1>1. /\ f \in flags'[c] <=> f \in flags[c] \cup Raised(c)
      /\ <<c, f>> \in pending' <=> <<c, f>> \in pending \/ f \in Requests(c)
      /\ status_rd' = status_rd
  BY DEF Tick
<1>2. f \in Requests(c) => f \in flags[c] \cup Raised(c)
  BY DEF Requests
<1>3. CASE f \in flags[c] \cup Raised(c)
  <2>1. (f \in flags[c])' = TRUE
    BY <1>1, <1>3
  <2>2. (<<c, f>> \in pending)' \in {(<<c, f>> \in pending), TRUE}
    <3>1. CASE (<<c, f>> \in pending)'
      <4>1. (<<c, f>> \in pending)' = TRUE
        BY <3>1
      <4> QED
        BY <4>1
    <3>2. CASE ~(<<c, f>> \in pending)'
      <4>1. (<<c, f>> \in pending)' = FALSE
        BY <3>2
      <4>2. (<<c, f>> \in pending) = FALSE
        BY <1>1, <3>2
      <4> QED
        BY <4>1, <4>2
    <3> QED
      BY <3>1, <3>2
  <2>3. (f \in status_rd[c])' = (f \in status_rd[c])
    BY <1>1
  <2> QED
    BY <2>1, <2>2, <2>3 DEF Flag!Next, Flag!Raise
<1>4. CASE f \notin flags[c] \cup Raised(c)
  BY <1>1, <1>2, <1>4 DEF Flag!flag
<1> QED
  BY <1>3, <1>4

\* A write to TCSR clears what was read as set, request and all, and no more.
LEMMA WriteDismisses ==
    ASSUME StatusType, NEW d \in Channels, WriteStatus(d),
           NEW c \in Channels, NEW f \in Flags
    PROVE  [Flag(c, f)!Next]_(Flag(c, f)!flag)
<1> USE DEF StatusType
<1>1. PICK zeros \in SUBSET Flags :
         /\ flags' = [flags EXCEPT ![d] = @ \ (zeros \cap status_rd[d])]
         /\ status_rd' = [status_rd EXCEPT ![d] = @ \ (zeros \cap status_rd[d])]
         /\ pending' = pending \ ({d} \X (zeros \cap status_rd[d]))
  BY DEF WriteStatus
<1>2. CASE c = d /\ f \in zeros \cap status_rd[d]
  <2>1. f \in status_rd[c]
    BY <1>2
  <2>2. f \notin flags'[c] /\ f \notin status_rd'[c] /\ <<c, f>> \notin pending'
    BY <1>1, <1>2
  <2>3. /\ (f \in flags[c])' = FALSE
        /\ (f \in status_rd[c])' = FALSE
        /\ (<<c, f>> \in pending)' = FALSE
    BY <2>2
  <2> QED
    BY <2>1, <2>3 DEF Flag!Next, Flag!Dismiss
<1>3. CASE ~(c = d /\ f \in zeros \cap status_rd[d])
  <2>1. /\ f \in flags'[c] <=> f \in flags[c]
        /\ f \in status_rd'[c] <=> f \in status_rd[c]
        /\ <<c, f>> \in pending' <=> <<c, f>> \in pending
    BY <1>1, <1>3
  <2> QED
    BY <2>1 DEF Flag!flag
<1> QED
  BY <1>2, <1>3

\* A read of TCSR marks what is raised.
LEMMA ReadObserves ==
    ASSUME StatusType, NEW d \in Channels, ReadStatus(d),
           NEW c \in Channels, NEW f \in Flags
    PROVE  [Flag(c, f)!Next]_(Flag(c, f)!flag)
<1> USE DEF StatusType
<1>1. /\ status_rd' = [status_rd EXCEPT ![d] = @ \cup flags[d]]
      /\ flags' = flags /\ pending' = pending
  BY DEF ReadStatus
<1>2. CASE c = d /\ f \in flags[d]
  <2>1. f \in flags[c] /\ f \in status_rd'[c]
    BY <1>1, <1>2
  <2>2. /\ (f \in status_rd[c])' = TRUE
        /\ (f \in flags[c])' = (f \in flags[c])
        /\ (<<c, f>> \in pending)' = (<<c, f>> \in pending)
    BY <1>1, <2>1
  <2> QED
    BY <2>1, <2>2 DEF Flag!Next, Flag!Observe
<1>3. CASE ~(c = d /\ f \in flags[d])
  <2>1. f \in status_rd'[c] <=> f \in status_rd[c]
    BY <1>1, <1>3
  <2> QED
    BY <1>1, <2>1 DEF Flag!flag
<1> QED
  BY <1>2, <1>3

\* Every flag of every timer keeps the promise of StatusFlag, whatever order
\* the accesses of the firmware and the rounds of TIMER_Clock come in.
THEOREM FlagsKept == Spec => FlagsAcknowledged
<1>1. Init => \A c \in Channels, f \in Flags : Flag(c, f)!Init
  BY DEF Init, Flag!Init
<1>2. StatusType /\ [Next]_vars =>
         \A c \in Channels, f \in Flags : [Flag(c, f)!Next]_(Flag(c, f)!flag)
  <2> SUFFICES ASSUME StatusType, [Next]_vars,
                      NEW c \in Channels, NEW f \in Flags
               PROVE  [Flag(c, f)!Next]_(Flag(c, f)!flag)
    OBVIOUS
  <2>1. CASE Tick
    BY <2>1, TickRaises
  <2>2. ASSUME NEW d \in Channels, WriteStatus(d)
        PROVE  [Flag(c, f)!Next]_(Flag(c, f)!flag)
    BY <2>2, WriteDismisses
  <2>3. ASSUME NEW d \in Channels, ReadStatus(d)
        PROVE  [Flag(c, f)!Next]_(Flag(c, f)!flag)
    BY <2>3, ReadObserves
  <2>4. ASSUME UNCHANGED status PROVE [Flag(c, f)!Next]_(Flag(c, f)!flag)
    BY <2>4 DEF status, Flag!flag
  <2>5. CASE UNCHANGED vars
    BY <2>4, <2>5 DEF vars
  <2>6. CASE WriteHigh
    BY <2>4, <2>6 DEF WriteHigh
  <2>7. ASSUME NEW d \in Channels, WriteControl(d)
        PROVE  [Flag(c, f)!Next]_(Flag(c, f)!flag)
    BY <2>4, <2>7 DEF WriteControl
  <2>8. ASSUME NEW d \in Channels, NEW r \in Registers,
               WriteLow(d, r) \/ ReadHigh(d, r)
        PROVE  [Flag(c, f)!Next]_(Flag(c, f)!flag)
    BY <2>4, <2>8 DEF WriteLow, ReadHigh
  <2> QED
    BY <2>1, <2>2, <2>3, <2>5, <2>6, <2>7, <2>8 DEF Next, Access
<1> QED
  BY <1>1, <1>2, StatusTypeInvariant, PTL DEF Spec, FlagsAcknowledged

-----------------------------------------------------------------------------
(* 16-bit accesses                                                         *)

\* A number is made of its quotient and its remainder.
LEMMA Division ==
    ASSUME NEW n \in Nat, NEW m \in Nat \ {0}
    PROVE  (n \div m) * m + (n % m) = n /\ n \div m \in Nat /\ n % m \in 0 .. m - 1
  OBVIOUS

\* What a counter or a compare register holds fits its width.
LEMMA ValueInRange ==
    ASSUME TypeOK, NEW c \in Channels, NEW r \in Registers
    PROVE  Value(c, r) \in 0 .. Top(c) /\ Value(c, r) \in Nat
<1>1. count[c] \in 0 .. Top(c) /\ compare[c] \in [{"A", "B"} -> 0 .. Top(c)]
  BY DEF TypeOK
<1>2. Value(c, r) \in 0 .. Top(c)
  BY <1>1 DEF Value, Registers
<1> QED
  BY <1>2, TopNatural

\* What firmware puts together from two bytes fits the width of the register.
LEMMA WrittenInRange ==
    ASSUME TypeOK, NEW c \in Channels, NEW low \in 0 .. Half - 1
    PROVE  (IF c \in Free THEN tempreg * Half + low ELSE low) \in 0 .. Top(c)
<1> DEFINE h == Half
           t == tempreg
<1>1. h \in Nat /\ h >= 1 /\ t \in 0 .. h - 1
  BY TimersAssumption DEF TypeOK
<1>2. low \in 0 .. h - 1
  OBVIOUS
<1>3. t * h + low \in 0 .. h * h - 1
  <2> HIDE DEF h, t
  <2>1. t * h \in Nat /\ t * h <= (h - 1) * h
    BY <1>1
  <2>2. (h - 1) * h = h * h - h
    BY <1>1
  <2>3. h * h \in Nat
    BY <1>1
  <2> QED
    BY <1>1, <1>2, <2>1, <2>2, <2>3
<1>4. CASE c \in Free
  BY <1>3, <1>4 DEF Top
<1>5. CASE c \notin Free
  BY <1>2, <1>5 DEF Top
<1> QED
  BY <1>4, <1>5

\* A round of the clock keeps every register within its width.
LEMMA TickTyped == ASSUME TypeOK, Tick PROVE TypeOK'
<1>1. cycles' \in 0 .. Period - 1
  <2>1. cycles + 1 \in Nat /\ Period \in Nat \ {0}
    BY TimersAssumption DEF TypeOK
  <2>2. (cycles + 1) % Period \in 0 .. Period - 1
    <3> DEFINE n == cycles + 1
    <3>1. n \in Nat
      BY <2>1
    <3> HIDE DEF n
    <3>2. n % Period \in 0 .. Period - 1
      BY <2>1, <3>1, RemainderInRange
    <3> QED
      BY <3>2 DEF n
  <2> QED
    BY <2>2 DEF Tick
<1>2. DOMAIN count' = Channels /\ \A c \in Channels : count'[c] \in 0 .. Top(c)
  <2>1. DOMAIN count' = Channels
    BY DEF Tick
  <2>2. ASSUME NEW c \in Channels PROVE count'[c] \in 0 .. Top(c)
    <3>1. count[c] \in 0 .. Top(c) /\ Top(c) \in Nat
      BY TopNatural DEF TypeOK
    <3>2. Step(c) \in Nat
      BY <3>1 DEF Step
    <3>3. Step(c) % (Top(c) + 1) \in 0 .. Top(c)
      <4> DEFINE n == Step(c)
                 m == Top(c) + 1
      <4>1. n \in Nat /\ m \in Nat \ {0} /\ m - 1 = Top(c)
        BY <3>1, <3>2
      <4>2. n % m \in 0 .. m - 1
        <5> HIDE DEF n, m
        <5> QED
          BY <4>1, RemainderInRange
      <4> QED
        BY <4>1, <4>2
    <3>4. count'[c] = IF Running(c) THEN Step(c) % (Top(c) + 1) ELSE count[c]
      BY DEF Tick
    <3> QED
      BY <3>1, <3>3, <3>4
  <2> QED
    BY <2>1, <2>2
<1>3. flags' \in [Channels -> SUBSET Flags]
  <2>1. \A c \in Channels : Raised(c) \subseteq Flags
    BY DEF Raised, Matches, Flags
  <2> QED
    BY <2>1 DEF Tick, TypeOK
<1>4. pending' \subseteq Channels \X Flags
  BY DEF Tick, TypeOK
<1>5. UNCHANGED <<settings, status_rd, access, writes>>
  BY DEF Tick
<1> QED
  BY <1>1, <1>2, <1>3, <1>4, <1>5 DEF TypeOK, settings, access, RatesOf, ClearsOf

\* No access takes a register out of its width.
LEMMA AccessTyped ==
    ASSUME TypeOK, NEW c \in Channels, NEW r \in Registers,
           \/ WriteStatus(c) \/ ReadStatus(c) \/ WriteControl(c)
           \/ WriteLow(c, r) \/ ReadHigh(c, r) \/ WriteHigh
    PROVE  TypeOK'
<1>1. CASE WriteStatus(c)
  <2>1. /\ flags' \in [Channels -> SUBSET Flags]
        /\ status_rd' \in [Channels -> SUBSET Flags]
        /\ pending' \subseteq Channels \X Flags
    BY <1>1 DEF WriteStatus, TypeOK
  <2>2. DOMAIN clearedBy' = Channels /\ \A d \in Channels : clearedBy'[d] \in ClearsOf(d)
    BY <1>1 DEF WriteStatus, TypeOK
  <2>3. UNCHANGED <<cycles, count, compare, rate, enabled, access, writes>>
    BY <1>1 DEF WriteStatus
  <2> QED
    BY <2>1, <2>2, <2>3 DEF TypeOK, access, RatesOf
<1>2. CASE ReadStatus(c)
  <2>1. status_rd' \in [Channels -> SUBSET Flags]
    BY <1>2 DEF ReadStatus, TypeOK
  <2>2. UNCHANGED <<cycles, count, settings, flags, pending, access, writes>>
    BY <1>2 DEF ReadStatus
  <2> QED
    BY <2>1, <2>2 DEF TypeOK, settings, access, RatesOf, ClearsOf
<1>3. CASE WriteControl(c)
  <2>1. writes' \in 0 .. MaxWrites
    BY <1>3, TimersAssumption DEF WriteControl, TypeOK
  <2>2. enabled' \in [Channels -> SUBSET Flags]
    BY <1>3, EnablesAssumption DEF WriteControl, TypeOK
  <2>3. DOMAIN rate' = Channels /\ \A d \in Channels : rate'[d] \in RatesOf(d)
    BY <1>3 DEF WriteControl, TypeOK
  <2>4. DOMAIN clearedBy' = Channels /\ \A d \in Channels : clearedBy'[d] \in ClearsOf(d)
    BY <1>3 DEF WriteControl, TypeOK
  <2>5. UNCHANGED <<cycles, count, compare, status, access>>
    BY <1>3 DEF WriteControl
  <2> QED
    BY <2>1, <2>2, <2>3, <2>4, <2>5 DEF TypeOK, status, access
<1>4. CASE WriteLow(c, r)
  <2>1. writes' \in 0 .. MaxWrites
    BY <1>4, TimersAssumption DEF WriteLow, TypeOK
  <2>2. PICK low \in 0 .. Half - 1 :
           LET value == IF c \in Free THEN tempreg * Half + low ELSE low IN
           IF r = "count"
           THEN count' = [count EXCEPT ![c] = value] /\ UNCHANGED compare
           ELSE compare' = [compare EXCEPT ![c][r] = value] /\ UNCHANGED count
    BY <1>4 DEF WriteLow
  <2> DEFINE value == IF c \in Free THEN tempreg * Half + low ELSE low
  <2>3. value \in 0 .. Top(c)
    BY WrittenInRange
  <2>4. IF r = "count"
        THEN count' = [count EXCEPT ![c] = value] /\ UNCHANGED compare
        ELSE compare' = [compare EXCEPT ![c][r] = value] /\ UNCHANGED count
    BY <2>2
  <2> HIDE DEF value
  <2>5. DOMAIN count' = Channels /\ \A d \in Channels : count'[d] \in 0 .. Top(d)
    BY <2>3, <2>4 DEF TypeOK
  <2>6. DOMAIN compare' = Channels
        /\ \A d \in Channels : compare'[d] \in [{"A", "B"} -> 0 .. Top(d)]
    <3>1. CASE r = "count"
      BY <2>4, <3>1 DEF TypeOK
    <3>2. CASE r # "count"
      <4>1. compare' = [compare EXCEPT ![c] = [compare[c] EXCEPT ![r] = value]]
        BY <2>4, <3>2
      <4>2. r \in {"A", "B"} /\ compare[c] \in [{"A", "B"} -> 0 .. Top(c)]
        BY <3>2 DEF Registers, TypeOK
      <4>3. [compare[c] EXCEPT ![r] = value] \in [{"A", "B"} -> 0 .. Top(c)]
        BY <2>3, <4>2
      <4> QED
        BY <4>1, <4>3 DEF TypeOK
    <3> QED
      BY <3>1, <3>2
  <2>7. UNCHANGED <<cycles, rate, clearedBy, enabled, status, access>>
    BY <1>4 DEF WriteLow
  <2> QED
    BY <2>1, <2>5, <2>6, <2>7 DEF TypeOK, status, access, RatesOf, ClearsOf
<1>5. CASE ReadHigh(c, r)
  <2>1. tempreg' \in 0 .. Half - 1
    <3> DEFINE n == Value(c, r)
    <3>1. n \in Nat /\ Half \in Nat \ {0}
      BY ValueInRange, TimersAssumption
    <3> HIDE DEF n
    <3>2. n % Half \in 0 .. Half - 1
      BY <3>1, RemainderInRange
    <3> QED
      BY <1>5, <3>2 DEF n, ReadHigh
  <2>2. UNCHANGED <<cycles, count, settings, status, writes>>
    BY <1>5 DEF ReadHigh
  <2> QED
    BY <2>1, <2>2 DEF TypeOK, settings, status, RatesOf, ClearsOf
<1>6. CASE WriteHigh
  BY <1>6 DEF WriteHigh, TypeOK, settings, status, RatesOf, ClearsOf
<1> QED
  BY <1>1, <1>2, <1>3, <1>4, <1>5, <1>6

\* Every register of every timer stays within its width, for every width.
THEOREM TypeCorrect == Spec => []TypeOK
<1>1. Init => TypeOK
  <2> SUFFICES ASSUME Init PROVE TypeOK
    OBVIOUS
  <2>1. \A c \in Channels : Top(c) \in Nat /\ Half >= 1 /\ Half \in Nat
    BY TopNatural
  <2>2. DOMAIN count = Channels /\ \A c \in Channels : count[c] \in 0 .. Top(c)
    BY <2>1 DEF Init
  <2>3. DOMAIN compare = Channels
        /\ \A c \in Channels : compare[c] \in [{"A", "B"} -> 0 .. Top(c)]
    BY <2>1 DEF Init
  <2>4. DOMAIN rate = Channels /\ \A c \in Channels : rate[c] \in RatesOf(c)
    BY TimersAssumption DEF Init, RatesOf, Channels
  <2>5. DOMAIN clearedBy = Channels /\ \A c \in Channels : clearedBy[c] \in ClearsOf(c)
    BY DEF Init, ClearsOf
  <2>6. cycles \in 0 .. Period - 1 /\ tempreg \in 0 .. Half - 1 /\ writes \in 0 .. MaxWrites
    BY TimersAssumption DEF Init
  <2> QED
    BY <2>2, <2>3, <2>4, <2>5, <2>6 DEF Init, TypeOK
<1>2. TypeOK /\ [Next]_vars => TypeOK'
  <2> SUFFICES ASSUME TypeOK, [Next]_vars PROVE TypeOK'
    OBVIOUS
  <2>1. CASE Tick
    BY <2>1, TickTyped
  <2>2. ASSUME NEW c \in Channels,
               WriteStatus(c) \/ ReadStatus(c) \/ WriteControl(c)
        PROVE  TypeOK'
    <3>1. "count" \in Registers
      BY DEF Registers
    <3> QED
      BY <2>2, <3>1, AccessTyped
  <2>3. ASSUME NEW c \in Channels, NEW r \in Registers, WriteLow(c, r) \/ ReadHigh(c, r)
        PROVE  TypeOK'
    BY <2>3, AccessTyped
  <2>4. CASE WriteHigh
    BY <2>4 DEF WriteHigh, TypeOK, settings, status, RatesOf, ClearsOf
  <2>5. CASE UNCHANGED vars
    BY <2>5 DEF vars, TypeOK, settings, status, access, RatesOf, ClearsOf
  <2> QED
    BY <2>1, <2>2, <2>3, <2>4, <2>5 DEF Next, Access
<1> QED
  BY <1>1, <1>2, PTL DEF Spec

\* The two bytes the CPU gets of a 16-bit register are of one value, whatever
\* the clock does between them.
THEOREM ReadsWhole == Spec => []WordsWhole
<1>1. Init => WordsWhole
  BY DEF Init, WordsWhole, NoWord
<1>2. TypeOK /\ WordsWhole /\ [Next]_vars => WordsWhole'
  <2> SUFFICES ASSUME TypeOK, WordsWhole, [Next]_vars PROVE WordsWhole'
    OBVIOUS
  <2>1. ASSUME UNCHANGED access PROVE WordsWhole'
    BY <2>1 DEF WordsWhole, LowByte, access
  <2>2. ASSUME NEW c \in Channels, NEW r \in Registers, ReadHigh(c, r)
        PROVE  WordsWhole'
    <3> DEFINE n == Value(c, r)
    <3>1. n \in Nat /\ Half \in Nat \ {0}
      BY ValueInRange, TimersAssumption
    <3>2. /\ tempreg' = n % Half
          /\ word'.high = n \div Half /\ word'.whole = n
      BY <2>2 DEF ReadHigh
    <3> HIDE DEF n
    <3>3. (n \div Half) * Half + (n % Half) = n
      BY <3>1, Division
    <3> QED
      BY <3>2, <3>3 DEF WordsWhole, LowByte
  <2>3. CASE WriteHigh
    BY <2>3 DEF WriteHigh, WordsWhole, NoWord
  <2>4. CASE Tick
    BY <2>1, <2>4 DEF Tick
  <2>5. ASSUME NEW c \in Channels,
               WriteStatus(c) \/ ReadStatus(c) \/ WriteControl(c)
        PROVE  WordsWhole'
    BY <2>1, <2>5 DEF WriteStatus, ReadStatus, WriteControl
  <2>6. ASSUME NEW c \in Channels, NEW r \in Registers, WriteLow(c, r)
        PROVE  WordsWhole'
    BY <2>1, <2>6 DEF WriteLow
  <2>7. CASE UNCHANGED vars
    BY <2>1, <2>7 DEF vars
  <2> QED
    BY <2>2, <2>3, <2>4, <2>5, <2>6, <2>7 DEF Next, Access
<1> QED
  BY <1>1, <1>2, TypeCorrect, PTL DEF Spec
=============================================================================
