-------------------------- MODULE VoiceSoundProofs --------------------------
(***************************************************************************)
(* What a voice's arithmetic does for every word, tone and setting, where  *)
(* the runs try a few: products and quotients of the H8 in pieces, the     *)
(* limits of the controllers, the time factor of a velocity, the octaves   *)
(* below the table.                                                        *)
(***************************************************************************)
EXTENDS VoiceSound, TLAPS

-----------------------------------------------------------------------------
(* Words.                                                                  *)

\* The upper word of a product, computed in two halves.
LEMMA HighIsProduct ==
    ASSUME NEW a \in Nat, NEW b \in Nat PROVE High(a, b) = (a * b) \div Bit16
<1> DEFINE x == a \div 256
           y == a % 256
           p == x * b
           q == y * b
<1>1. a = 256 * x + y /\ x \in Nat /\ y \in Nat
  OBVIOUS
<1>2. p \in Nat /\ q \in Nat
  <2> HIDE DEF x, y
  <2> QED BY <1>1
<1>3. a * b = 256 * p + q
  <2> HIDE DEF x, y
  <2>1. a * b = (256 * x + y) * b
    BY <1>1
  <2> QED BY <1>1, <2>1
<1>4. High(a, b) = (p + q \div 256) \div 256
  BY DEF High, Bit8
<1> HIDE DEF p, q
<1>5. (p + q \div 256) \div 256 = (256 * p + q) \div 65536
  BY <1>2
<1> QED BY <1>3, <1>4, <1>5 DEF Bit16

\* A quotient does not fall when the number divided grows.
LEMMA HighGrows ==
    ASSUME NEW a \in Nat, NEW c \in Nat, NEW b \in Nat, a <= c
    PROVE  High(a, b) \in Nat /\ High(a, b) <= (c * b) \div Bit16
<1>1. a * b \in Nat /\ c * b \in Nat /\ a * b <= c * b
  <2>1. PICK d \in Nat : c = a + d
    BY c - a \in Nat
  <2>2. c * b = a * b + d * b /\ d * b \in Nat /\ a * b \in Nat
    BY <2>1
  <2> QED BY <2>2
<1>2. High(a, b) = (a * b) \div Bit16
  BY HighIsProduct
<1> DEFINE m == a * b
           n == c * b
<1> HIDE DEF m, n
<1>3. m \div 65536 \in Nat /\ m \div 65536 <= n \div 65536
  BY <1>1 DEF m, n
<1> QED BY <1>2, <1>3 DEF m, n, Bit16

-----------------------------------------------------------------------------
(* The octaves below the table.                                            *)

\* Quotient and remainder of the magnitude, turned round, are those of the
\* number.
LEMMA SplitIsFloor ==
    ASSUME NEW d \in Int, d < 0
    PROVE  FloorSplit(d) = [octaves |-> -(d \div Octave), part |-> d % Octave]
<1> DEFINE q == (-d) \div 12000
           r == (-d) % 12000
<1>1. q \in Int /\ r \in 0 .. 11999 /\ -d = 12000 * q + r
  OBVIOUS
<1>2. FloorSplit(d) = IF r = 0 THEN [octaves |-> q, part |-> 0]
                      ELSE [octaves |-> q + 1, part |-> 12000 - r]
  BY DEF FloorSplit, Octave
<1> HIDE DEF q, r
<1>3. CASE r = 0
  <2>1. -(d \div 12000) = q /\ d % 12000 = 0
    BY <1>1, <1>3
  <2> QED BY <1>2, <1>3, <2>1 DEF Octave
<1>4. CASE r # 0
  <2>1. -(d \div 12000) = q + 1 /\ d % 12000 = 12000 - r
    BY <1>1, <1>4
  <2> QED BY <1>2, <1>4, <2>1 DEF Octave
<1> QED BY <1>3, <1>4, SMT

\* Below the table the step is that of the pitch some octaves higher, halved
\* for each of them, also a whole number of octaves below: at a tick
\* (dsp_rate.cpp:1497), at a loop, and within 24 bits.
THEOREM StepHalvesByOctave ==
    ASSUME NEW d \in Int, -8388608 <= d, d < 0
    PROVE  /\ Step(Signed24(d)) = ShiftRight(Ratio(d % Octave), -(d \div Octave))
           /\ LoopStep(Signed24(d)) = Step(Signed24(d))
<1>1. Signed24(d) = d
  BY SMT DEF Signed24, Bit24
<1>2. FloorSplit(d).part = d % Octave /\ FloorSplit(d).octaves = -(d \div Octave)
  BY SplitIsFloor, SMT
<1> QED BY <1>1, <1>2, SMT DEF Step, StepBelow, LoopStep

-----------------------------------------------------------------------------
(* What moves to a goal.                                                   *)

\* The portamento ends at zero from either side and never passes it, for every
\* step up to half of 24 bits (dsp_rate.cpp:1251).
THEOREM GlideEndsAtZero ==
    ASSUME NEW offset \in Int, -8388608 < offset, offset < 8388608,
           NEW step \in Nat, step < 8388608
    PROVE  Glides(offset, Glide(offset, step))
<1>1. CASE offset < 0
  <2>1. Signed24(-offset - step) = -offset - step
    BY <1>1, SMT DEF Signed24, Bit24
  <2> QED BY <1>1, <2>1, SMT DEF Glide, Glides, Floor0, Larger
<1>2. CASE offset >= 0
  <2>1. Signed24(offset - step) = offset - step
    BY <1>2, SMT DEF Signed24, Bit24
  <2> QED BY <1>2, <2>1, SMT DEF Glide, Glides, Floor0, Larger
<1> QED BY <1>1, <1>2, SMT

\* A random wave stays between where it was and its target (pcm_interp.cpp:3373).
THEOREM SlewStaysBetween ==
    ASSUME NEW from \in Int, NEW to \in Int, NEW by \in Nat
    PROVE  /\ Slew(from, to, by) >= Smaller(from, to)
           /\ Slew(from, to, by) <= Larger(from, to)
BY DEF Slew, Smaller, Larger

-----------------------------------------------------------------------------
(* What the controllers add.                                               *)

\* Whatever the sum, what is added is within the limit on either side.
LEMMA LimitedIsLimited ==
    ASSUME NEW sum \in Int, NEW limit \in Nat, NEW scale \in Nat, NEW factor \in Nat
    PROVE  /\ Limited(sum, limit, scale, factor) \in Int
           /\ Magnitude(Limited(sum, limit, scale, factor)) <= (limit * scale * factor) \div Bit16
<1> DEFINE m == Smaller(Magnitude(sum), limit)
<1>1. m \in Nat /\ m <= limit
  BY DEF Smaller, Magnitude
<1>2. Limited(sum, limit, scale, factor) = WithSign(sum < 0, High(m * scale, factor))
  BY DEF Limited
<1> HIDE DEF m
<1>3. m * scale \in Nat /\ limit * scale \in Nat /\ m * scale <= limit * scale
  <2>1. PICK k \in Nat : limit = m + k
    BY <1>1, limit - m \in Nat
  <2>2. limit * scale = m * scale + k * scale /\ k * scale \in Nat /\ m * scale \in Nat
    BY <1>1, <2>1
  <2> QED BY <2>2
<1> DEFINE h == High(m * scale, factor)
           top == (limit * scale * factor) \div Bit16
<1>4. h \in Nat /\ h <= top
  BY <1>3, HighGrows
<1>5. top \in Int
  <2>1. limit * scale * factor \in Int
    OBVIOUS
  <2> QED BY <2>1 DEF Bit16
<1> HIDE DEF h, top
<1>6. WithSign(sum < 0, h) \in Int /\ Magnitude(WithSign(sum < 0, h)) <= top
  BY <1>4, <1>5, SMT DEF WithSign, Magnitude
<1> QED BY <1>2, <1>6 DEF h, top

\* The eleven limits, whatever part and key ask for.
Within(added) ==
    /\ Magnitude(added["pitch"]) <= 2 * Octave
    /\ \A d \in {"level", "level1", "level2"} : Magnitude(added[d]) <= TremoloLimit
    /\ \A d \in {"pitch1", "pitch2"} : Magnitude(added[d]) <= SwingLimit
    /\ \A d \in {"rate1", "rate2"} : 2 * Magnitude(added[d]) <= FastestRate

LEMMA EachIsWithin ==
    ASSUME NEW sum \in Int
    PROVE  /\ Magnitude(PitchAdded(sum)) <= 2 * Octave
           /\ Magnitude(LevelAdded(sum)) <= TremoloLimit
           /\ Magnitude(Level1Added(sum)) <= TremoloLimit
           /\ Magnitude(Level2Added(sum)) <= TremoloLimit
           /\ Magnitude(Pitch1Added(sum)) <= SwingLimit
           /\ Magnitude(Pitch2Added(sum)) <= SwingLimit
           /\ 2 * Magnitude(Rate1Added(sum)) <= FastestRate
           /\ 2 * Magnitude(Rate2Added(sum)) <= FastestRate
<1>1. Magnitude(Limited(sum, 3048, 8, 64504)) <= 24000
  BY LimitedIsLimited, SMT DEF Bit16
<1>2. Magnitude(Limited(sum, 4000, 16, 33293)) <= 32512
  BY LimitedIsLimited, SMT DEF Bit16
<1>3. Magnitude(Limited(sum, 4032, 16, 33029)) <= 32512
  BY LimitedIsLimited, SMT DEF Bit16
<1>4. Magnitude(Limited(sum, 4032, 2, 48762)) <= 6000
  BY LimitedIsLimited, SMT DEF Bit16
<1>5. 2 * Magnitude(Limited(sum, 4000, 2, 42951)) <= 10486
  <2> DEFINE l == Limited(sum, 4000, 2, 42951)
  <2>1. l \in Int /\ Magnitude(l) <= 5243
    BY LimitedIsLimited, SMT DEF Bit16
  <2> HIDE DEF l
  <2>2. 2 * Magnitude(l) <= 10486
    BY <2>1, SMT DEF Magnitude
  <2> QED BY <2>2 DEF l
<1> QED BY <1>1, <1>2, <1>3, <1>4, <1>5, SMT
        DEF PitchAdded, LevelAdded, Level1Added, Level2Added, Pitch1Added, Pitch2Added,
            Rate1Added, Rate2Added, PitchLimit, CutoffLimit, SwayLimit, Octave,
            TremoloLimit, SwingLimit, FastestRate

-----------------------------------------------------------------------------
(* The time factor of a velocity.                                          *)

\* A quotient does not grow with its divisor.
LEMMA QuotientFalls ==
    ASSUME NEW n \in Nat, NEW p \in Nat \ {0}, NEW q \in Nat \ {0}, p <= q
    PROVE  n \div q \in Nat /\ n \div q <= n \div p
<1> DEFINE a == n \div p
           b == n \div q
<1>1. a \in Nat /\ b \in Nat /\ n < p * (a + 1) /\ q * b <= n
  BY SMT
<1> HIDE DEF a, b
<1>2. ASSUME b > a PROVE FALSE
  <2>1. p * (a + 1) <= q * (a + 1) /\ q * (a + 1) <= q * b
    BY <1>1, <1>2, SMT
  <2>2. p * (a + 1) \in Int /\ q * (a + 1) \in Int /\ q * b \in Int
    BY <1>1
  <2> QED BY <1>1, <2>1, <2>2
<1>3. b <= a
  BY <1>1, <1>2
<1> QED BY <1>1, <1>3 DEF a, b

\* By how much a note is softer than the hardest, in 127ths of the setting.
Soft(setting, velocity) == (127 - velocity) * Factor[Magnitude(setting - 64)]

LEMMA SoftRange ==
    ASSUME NEW setting \in Nat, setting <= 127, NEW velocity \in Nat,
           NEW harder \in Nat, velocity <= harder, harder <= 127
    PROVE  /\ Soft(setting, velocity) \in Nat /\ Soft(setting, velocity) <= 8128
           /\ Soft(setting, harder) \in Nat
           /\ Soft(setting, harder) <= Soft(setting, velocity)
<1>1. Magnitude(setting - 64) \in 0 .. 64
  BY DEF Magnitude
<1> DEFINE f == Factor[Magnitude(setting - 64)]
<1>2. f \in 0 .. 64
  <2>1. Factor \in [0 .. 64 -> 0 .. 64]
    BY VoiceSetupAssumption, Zenon
  <2> QED BY <1>1, <2>1, Zenon
<1> HIDE DEF f
<1>3. ASSUME NEW n \in Nat, n <= 127 PROVE n * f \in Nat /\ n * f <= 8128
  <2>1. 127 * f = n * f + (127 - n) * f
    BY <1>2, <1>3
  <2>2. n * f \in Nat /\ (127 - n) * f \in Nat
    BY <1>2, <1>3
  <2>3. 127 * f <= 8128
    BY <1>2
  <2> QED BY <2>1, <2>2, <2>3
<1>4. (127 - velocity) * f \in Nat /\ (127 - velocity) * f <= 8128
  <2>1. 127 - velocity \in Nat /\ 127 - velocity <= 127
    OBVIOUS
  <2> QED BY <1>3, <2>1
<1>5. (127 - harder) * f <= (127 - velocity) * f
  <2>1. (127 - velocity) * f = (127 - harder) * f + (harder - velocity) * f
    BY <1>2
  <2>2. /\ harder - velocity \in Nat /\ harder - velocity <= 127
        /\ 127 - harder \in Nat /\ 127 - harder <= 127
    OBVIOUS
  <2>3. (harder - velocity) * f \in Nat /\ (127 - harder) * f \in Nat
    BY <1>3, <2>2
  <2> QED BY <2>1, <2>3
<1>6. (127 - harder) * f \in Nat
  <2>1. 127 - harder \in Nat /\ 127 - harder <= 127
    OBVIOUS
  <2> QED BY <1>3, <2>1
<1> QED BY <1>4, <1>5, <1>6 DEF Soft, f

\* Settings below 64 shorten, by a share.
ShareOf(soft) == IF soft > 8000 THEN 4 ELSE High(8128 - soft, 2064)

LEMMA ShareRange ==
    ASSUME NEW soft \in Nat, soft <= 8128, NEW less \in Nat, less <= soft
    PROVE  /\ ShareOf(soft) \in Nat /\ ShareOf(soft) >= 4 /\ ShareOf(soft) <= 255
           /\ ShareOf(soft) <= ShareOf(less)
<1>1. ASSUME NEW x \in Nat, x <= 8000
      PROVE  ShareOf(x) \in Nat /\ ShareOf(x) >= 4 /\ ShareOf(x) <= 255
  <2>1. High(8128 - x, 2064) = ((8128 - x) * 2064) \div 65536
    <3>1. 8128 - x \in Nat
      BY <1>1
    <3> QED BY <3>1, HighIsProduct DEF Bit16
  <2>2. /\ ((8128 - x) * 2064) \div 65536 \in Nat
        /\ ((8128 - x) * 2064) \div 65536 >= 4 /\ ((8128 - x) * 2064) \div 65536 <= 255
    BY <1>1, SMT
  <2> QED BY <1>1, <2>1, <2>2, SMT DEF ShareOf
<1>2. CASE soft > 8000
  BY <1>1, <1>2 DEF ShareOf
<1>3. CASE soft <= 8000
  <2>1. High(8128 - soft, 2064) <= ((8128 - less) * 2064) \div 65536
    <3>1. 8128 - soft \in Nat /\ 8128 - less \in Nat /\ 8128 - soft <= 8128 - less
      BY <1>3
    <3> QED BY <3>1, HighGrows DEF Bit16
  <2>2. High(8128 - less, 2064) = ((8128 - less) * 2064) \div 65536
    <3>1. 8128 - less \in Nat
      BY <1>3
    <3> QED BY <3>1, HighIsProduct DEF Bit16
  <2>3. ShareOf(soft) \in Nat /\ ShareOf(soft) >= 4 /\ ShareOf(soft) <= 255
    BY <1>1, <1>3
  <2> QED BY <1>3, <2>1, <2>2, <2>3, SMT DEF ShareOf
<1> QED BY <1>2, <1>3

\* Settings above 64 stretch, by a reciprocal that still fits into a word.
InverseOf(soft) == IF soft > 8096 THEN Top ELSE 2080768 \div (8128 - soft)

LEMMA InverseFalls ==
    ASSUME NEW p \in Nat \ {0}, NEW q \in Nat \ {0}, p <= q
    PROVE  2080768 \div q <= 2080768 \div p
<1> DEFINE n == 2080768
<1>1. n \in Nat
  BY SMT
<1> HIDE DEF n
<1>2. n \div q <= n \div p
  BY <1>1, QuotientFalls
<1> QED BY <1>2, SMT DEF n

LEMMA InverseRange ==
    ASSUME NEW soft \in Nat, soft <= 8128, NEW less \in Nat, less <= soft
    PROVE  /\ InverseOf(soft) \in Nat /\ InverseOf(soft) >= 256 /\ InverseOf(soft) <= Top
           /\ InverseOf(less) <= InverseOf(soft)
<1>1. ASSUME NEW x \in Nat, x <= 8096
      PROVE  /\ 2080768 \div (8128 - x) \in Nat
             /\ 2080768 \div (8128 - x) >= 256 /\ 2080768 \div (8128 - x) <= 65024
  <2>1. 2080768 \div (8128 - x) <= 2080768 \div 32
    BY <1>1, QuotientFalls, SMT
  <2>2. 2080768 \div 8128 <= 2080768 \div (8128 - x)
    BY <1>1, QuotientFalls, SMT
  <2>3. 2080768 \div (8128 - x) \in Nat
    BY <1>1, QuotientFalls, SMT
  <2>4. 2080768 \div 32 = 65024 /\ 2080768 \div 8128 = 256
    BY SMT
  <2> DEFINE y == 2080768 \div (8128 - x)
  <2> HIDE DEF y
  <2>5. y \in Nat /\ y >= 256 /\ y <= 65024
    BY <2>1, <2>2, <2>3, <2>4, SMT DEF y
  <2> QED BY <2>5 DEF y
<1>2. CASE soft > 8096
  BY <1>1, <1>2, SMT DEF InverseOf, Top, Bit16
<1>3. CASE soft <= 8096
  <2>1. 2080768 \div (8128 - less) <= 2080768 \div (8128 - soft)
    <3>1. /\ 8128 - soft \in Nat \ {0} /\ 8128 - less \in Nat \ {0}
          /\ 8128 - soft <= 8128 - less
      BY <1>3
    <3> DEFINE p == 8128 - soft
               q == 8128 - less
    <3>2. p \in Nat \ {0} /\ q \in Nat \ {0} /\ p <= q
      BY <3>1
    <3> HIDE DEF p, q
    <3>3. 2080768 \div q <= 2080768 \div p
      BY <3>2, InverseFalls
    <3> QED BY <3>3, SMT DEF p, q
  <2> QED BY <1>1, <1>3, <2>1, SMT DEF InverseOf, Top, Bit16
<1> QED BY <1>2, <1>3, SMT

\* A harder note is nearer to the neutral factor, and none has a factor of
\* zero (note_on_setup.cpp:2998).
LEMMA VelocityTimeNears ==
    ASSUME NEW setting \in Nat, setting <= 127, NEW velocity \in Nat,
           NEW harder \in Nat, velocity <= harder, harder <= 127
    PROVE  /\ VelocityTime(setting, velocity) \in Nat
           /\ VelocityTime(setting, velocity) >= 4 /\ VelocityTime(setting, velocity) <= Top
           /\ Magnitude(VelocityTime(setting, harder) - Neutral)
                <= Magnitude(VelocityTime(setting, velocity) - Neutral)
<1> DEFINE soft == Soft(setting, velocity)
           less == Soft(setting, harder)
<1>1. soft \in Nat /\ soft <= 8128 /\ less \in Nat /\ less <= soft
  BY SoftRange
<1>2. CASE setting = 64
  BY <1>2, SMT DEF VelocityTime, Neutral, Top, Bit16, Magnitude
<1>3. CASE setting < 64
  <2>1. VelocityTime(setting, velocity) = ShareOf(soft)
        /\ VelocityTime(setting, harder) = ShareOf(less)
    BY <1>3 DEF VelocityTime, ShareOf, Soft
  <2> HIDE DEF soft, less
  <2>2. /\ ShareOf(soft) \in Nat /\ ShareOf(soft) >= 4 /\ ShareOf(soft) <= ShareOf(less)
    BY <1>1, ShareRange
  <2>3. ShareOf(less) \in Nat /\ ShareOf(less) <= 255
    BY <1>1, ShareRange
  <2> QED BY <2>1, <2>2, <2>3, SMT DEF Neutral, Magnitude, Top, Bit16
<1>4. CASE setting > 64
  <2>1. VelocityTime(setting, velocity) = InverseOf(soft)
        /\ VelocityTime(setting, harder) = InverseOf(less)
    BY <1>4 DEF VelocityTime, InverseOf, Soft
  <2> HIDE DEF soft, less
  <2>2. /\ InverseOf(soft) \in Nat /\ InverseOf(soft) <= Top
        /\ InverseOf(less) <= InverseOf(soft)
    BY <1>1, InverseRange
  <2>3. InverseOf(less) \in Nat /\ InverseOf(less) >= 256
    BY <1>1, InverseRange
  <2> QED BY <2>1, <2>2, <2>3, SMT DEF Neutral, Magnitude, Top, Bit16
<1> QED BY <1>2, <1>3, <1>4

-----------------------------------------------------------------------------
(* The voice.                                                              *)

\* What the routines of the voice rely on: its record and the part's have
\* their fields, the part keeps its controllers, the note one of the tones.
\* And what they keep: what is added is within the limits, and the time of the
\* attack is that of the note.
Settled ==
    /\ {"pressure", "volume", "depth", "setting", "controls"} \subseteq DOMAIN part
    /\ part.controls = StartPart.controls /\ part.pressure \in Int
    /\ note.tone \in Patches /\ note.velocity \in Velocities
Kept ==
    /\ {"added", "attack"} \subseteq DOMAIN sound
    /\ sound.attack = AttackByVelocity(note.tone, note.velocity)
    /\ Within(sound.added)
IInv == Settled /\ Kept

\* The sums are whole numbers, whatever the words are.
LEMMA SumsAreWhole ==
    ASSUME NEW own \in Int, NEW words \in Int PROVE Total(own, words) \in Int
<1>1. (own + words) % 65536 \in Int
  OBVIOUS
<1> QED BY <1>1 DEF Total, Signed, Bit16

LEMMA SharesAreWhole ==
    ASSUME NEW sense \in Int, NEW pressure \in Int
    PROVE  /\ Pressed(sense, pressure) \in Int /\ Halved(sense, pressure) \in Int
           /\ Quartered(sense, pressure) \in Int
<1>1. (64 - sense) * pressure \in Int /\ (sense - 64) * pressure \in Int
      /\ sense * pressure \in Int
  OBVIOUS
<1>2. /\ ((64 - sense) * pressure) \div 2 \in Int /\ ((sense - 64) * pressure) \div 2 \in Int
      /\ (sense * pressure) \div 4 \in Int
  BY <1>1
<1> QED BY <1>1, <1>2 DEF Pressed, Halved, Quartered

LEMMA PartSumsAreWhole ==
    ASSUME NEW pressure \in Int
    PROVE  LET c == StartPart.controls
           IN /\ PitchSum(c, pressure) \in Int /\ LevelSum(c, pressure) \in Int
              /\ Rate1Sum(c, pressure) \in Int /\ Rate2Sum(c, pressure) \in Int
              /\ Pitch1Sum(c, pressure) \in Int /\ Level1Sum(c, pressure) \in Int
              /\ Pitch2Sum(c, pressure) \in Int /\ Level2Sum(c, pressure) \in Int
<1> DEFINE c == StartPart.controls
<1>1. \A d \in Destinations : c.sense[d] \in Int /\ c.words[d] \in Int
  BY PartAssumption
<1> HIDE DEF c
<1>2. /\ PitchSum(c, pressure) \in Int /\ LevelSum(c, pressure) \in Int
      /\ Rate1Sum(c, pressure) \in Int /\ Rate2Sum(c, pressure) \in Int
      /\ Pitch1Sum(c, pressure) \in Int /\ Level1Sum(c, pressure) \in Int
      /\ Pitch2Sum(c, pressure) \in Int /\ Level2Sum(c, pressure) \in Int
  BY <1>1, SumsAreWhole, SharesAreWhole
     DEF PitchSum, LevelSum, Rate1Sum, Rate2Sum, Pitch1Sum, Level1Sum, Pitch2Sum, Level2Sum,
         Destinations
<1> QED BY <1>2 DEF c

\* The controllers' routine keeps to the limits, for every part and pressure.
LEMMA ControlledIsWithin ==
    ASSUME NEW v, "added" \in DOMAIN v, NEW pressure \in Int
    PROVE  Within(Controlled(v, StartPart.controls, pressure).added)
<1> DEFINE c == StartPart.controls
<1>2. /\ PitchSum(c, pressure) \in Int /\ LevelSum(c, pressure) \in Int
      /\ Rate1Sum(c, pressure) \in Int /\ Rate2Sum(c, pressure) \in Int
      /\ Pitch1Sum(c, pressure) \in Int /\ Level1Sum(c, pressure) \in Int
      /\ Pitch2Sum(c, pressure) \in Int /\ Level2Sum(c, pressure) \in Int
  BY PartSumsAreWhole
<1> HIDE DEF c
<1> DEFINE added == Controlled(v, c, pressure).added
<1>3. /\ added["pitch"] = PitchAdded(PitchSum(c, pressure))
      /\ added["level"] = LevelAdded(LevelSum(c, pressure))
      /\ added["rate1"] = Rate1Added(Rate1Sum(c, pressure))
      /\ added["rate2"] = Rate2Added(Rate2Sum(c, pressure))
      /\ added["pitch1"] = Pitch1Added(Pitch1Sum(c, pressure))
      /\ added["level1"] = Level1Added(Level1Sum(c, pressure))
      /\ added["pitch2"] = Pitch2Added(Pitch2Sum(c, pressure))
      /\ added["level2"] = Level2Added(Level2Sum(c, pressure))
  BY DEF Controlled
<1> HIDE DEF added
<1>4. Within(added)
  BY <1>2, <1>3, EachIsWithin DEF Within
<1> QED BY <1>4 DEF added, c

LEMMA ControlledKeeps ==
    ASSUME NEW v, NEW c, NEW pressure
    PROVE  /\ DOMAIN Controlled(v, c, pressure) = DOMAIN v
           /\ "attack" \in DOMAIN v => Controlled(v, c, pressure).attack = v.attack
BY DEF Controlled

\* A note that starts.
LEMMA StruckIsWithin ==
    ASSUME NEW t, NEW velocity, NEW chip, NEW s, s = Struck(t, StartPart, velocity, chip)
    PROVE  /\ {"added", "attack"} \subseteq DOMAIN s
           /\ s.attack = AttackByVelocity(t, velocity) /\ Within(s.added)
<1> DEFINE c == Controlled([added |-> NothingAdded], StartPart.controls, StartPart.pressure)
<1>1. Within(c.added)
  <2>1. StartPart.pressure \in Int
    BY PartAssumption
  <2>2. "added" \in DOMAIN [added |-> NothingAdded]
    OBVIOUS
  <2> QED BY <2>1, <2>2, ControlledIsWithin
<1> HIDE DEF c
<1>2. s.added = c.added /\ s.attack = AttackByVelocity(t, velocity)
      /\ {"added", "attack"} \subseteq DOMAIN s
  BY DEF Struck, c
<1> QED BY <1>1, <1>2

\* A tick writes the sums anew; the attack stays the note's.
LEMMA TickIsKept ==
    ASSUME IInv, NEW elapsed, Tick(elapsed) PROVE IInv'
<1>1. PICK chip \in Chip :
        LET c == Controlled(sound, part.controls, part.pressure)
            w == [c EXCEPT !.osc1 = FirstTick(@, part, c.added["rate1"], elapsed, chip),
                           !.osc2 = Swaying(@, c.added["rate2"], elapsed, chip)]
            pair == [osc1 |-> PairTick(w.second.osc1, w.osc1, part.depth),
                     osc2 |-> Following(w.second.osc2, w.osc2),
                     added |-> CopiedFrom(w.second, w).added]
        IN sound' = [w EXCEPT !.second = pair, !.level = Leveled(w, part, note.tone),
                              !.env = Pitched(w, elapsed)]
  BY DEF Tick
<1>2. part' = part /\ note' = note
  BY DEF Tick
<1> DEFINE c == Controlled(sound, part.controls, part.pressure)
           w == [c EXCEPT !.osc1 = FirstTick(@, part, c.added["rate1"], elapsed, chip),
                          !.osc2 = Swaying(@, c.added["rate2"], elapsed, chip)]
           pair == [osc1 |-> PairTick(w.second.osc1, w.osc1, part.depth),
                    osc2 |-> Following(w.second.osc2, w.osc2),
                    added |-> CopiedFrom(w.second, w).added]
           level == Leveled(w, part, note.tone)
           env == Pitched(w, elapsed)
<1>3. sound' = [w EXCEPT !.second = pair, !.level = level, !.env = env]
  BY <1>1
<1>4. /\ {"added", "attack"} \subseteq DOMAIN c /\ c.attack = sound.attack
      /\ Within(c.added)
  BY ControlledIsWithin, ControlledKeeps DEF IInv, Settled, Kept
<1> HIDE DEF c
<1>5. {"added", "attack"} \subseteq DOMAIN w /\ w.attack = c.attack /\ w.added = c.added
  BY <1>4
<1> HIDE DEF w, pair, level, env
<1>6. /\ {"added", "attack"} \subseteq DOMAIN sound'
      /\ sound'.attack = w.attack /\ sound'.added = w.added
  BY <1>3, <1>5
<1> QED BY <1>2, <1>4, <1>5, <1>6 DEF IInv, Settled, Kept

\* A tie and a loop leave both alone.
LEMMA OthersAreKept ==
    ASSUME IInv, Tie \/ Loop PROVE IInv'
<1>1. part' = part /\ note' = note
  BY DEF Tie, Loop
<1>2. /\ {"added", "attack"} \subseteq DOMAIN sound'
      /\ sound'.attack = sound.attack /\ sound'.added = sound.added
  <2>1. CASE Tie
    <3>1. PICK chip \in Chip : sound' = Tied(sound, note.tone, chip)
      BY <2>1 DEF Tie
    <3> DEFINE at == Addresses(Sample, TRUE)
               mode == Mode(at, Sample, 3)
               osc2 == SecondOf(note.tone, sound.added["rate2"], chip)
               v == [sound EXCEPT !.osc2 = osc2, !.at = at, !.mode = mode]
    <3>2. sound' = Parked(v)
      BY <3>1 DEF Tied
    <3> HIDE DEF at, mode, osc2
    <3>3. /\ {"added", "attack"} \subseteq DOMAIN v
          /\ v.attack = sound.attack /\ v.added = sound.added
      BY DEF IInv, Kept
    <3> HIDE DEF v
    <3> QED BY <3>2, <3>3 DEF Parked
  <2>2. CASE Loop
    <3> DEFINE env == Looped(sound.env, note.tone.loopKey)
    <3>1. sound' = [sound EXCEPT !.env = env]
      BY <2>2 DEF Loop
    <3> HIDE DEF env
    <3> QED BY <3>1 DEF IInv, Kept
  <2> QED BY <2>1, <2>2
<1> QED BY <1>1, <1>2 DEF IInv, Settled, Kept

\* A setting that is turned is one of numbers, and the controllers stay.
LEMMA TurnIsKept == IInv /\ Turn => IInv'
<1> SUFFICES ASSUME IInv, Turn PROVE IInv'
  OBVIOUS
<1>1. sound' = sound /\ note' = note
  BY DEF Turn
<1>2. \/ \E x \in Pressures : part' = [part EXCEPT !.pressure = x]
      \/ \E x \in Volumes : part' = [part EXCEPT !.volume = x]
      \/ \E x \in Depths : part' = [part EXCEPT !.depth = x]
      \/ \E x \in Settings : part' = [part EXCEPT !.setting = x]
  BY DEF Turn
<1>3. \A x \in Pressures : x \in Int
  BY InputAssumption
<1>4. DOMAIN part' = DOMAIN part /\ part'.controls = part.controls /\ part'.pressure \in Int
  BY <1>2, <1>3 DEF IInv, Settled
<1> QED BY <1>1, <1>4 DEF IInv, Settled, Kept

THEOREM VoiceKept == SoundSpec => []IInv
<1>1. SoundInit => IInv
  <2> SUFFICES ASSUME SoundInit PROVE IInv
    OBVIOUS
  <2>1. PICK t \in Patches, velocity \in Velocities, chip \in Chip :
           note = Note(t, velocity) /\ sound = Struck(t, part, velocity, chip)
    BY DEF SoundInit
  <2>2. part = StartPart
    BY DEF SoundInit
  <2>3. Settled
    BY <2>1, <2>2, PartAssumption DEF Settled, Note
  <2> QED BY <2>1, <2>2, <2>3, StruckIsWithin DEF IInv, Kept, Note
<1>2. IInv /\ [SoundNext]_soundVars => IInv'
  <2> SUFFICES ASSUME IInv, [SoundNext]_soundVars PROVE IInv'
    OBVIOUS
  <2>1. ASSUME NEW t \in Patches, NEW velocity \in Velocities, Strike(t, velocity)
        PROVE  IInv'
    <3>1. PICK chip \in Chip : sound' = Struck(t, StartPart, velocity, chip)
      BY <2>1 DEF Strike
    <3>2. note' = Note(t, velocity) /\ part' = StartPart
      BY <2>1 DEF Strike
    <3>3. Settled'
      BY <3>2, PartAssumption DEF Settled, Note
    <3> QED BY <3>1, <3>2, <3>3, StruckIsWithin DEF IInv, Kept, Note
  <2>2. ASSUME NEW elapsed \in Elapsed, Tick(elapsed) PROVE IInv'
    BY <2>2, TickIsKept
  <2>3. CASE Tie \/ Loop
    BY <2>3, OthersAreKept
  <2>4. CASE Turn
    BY <2>4, TurnIsKept
  <2>5. CASE UNCHANGED soundVars
    BY <2>5 DEF soundVars, IInv, Settled, Kept
  <2> QED BY <2>1, <2>2, <2>3, <2>4, <2>5 DEF SoundNext
<1> QED BY <1>1, <1>2, PTL DEF SoundSpec

\* For every tone, part, and history of settings: what the controllers add
\* never exceeds what its reader may sum up.
THEOREM AddedAlwaysWithin == SoundSpec => []AddedWithinLimits
<1>1. IInv => AddedWithinLimits
  BY DEF IInv, Kept, Within, AddedWithinLimits
<1> QED BY <1>1, VoiceKept, PTL

LEMMA AttackFields ==
    \A x \in Patches : x.attackVelocity \in Nat /\ x.attackVelocity <= 127
<1> SUFFICES ASSUME NEW x \in Patches PROVE x.attackVelocity \in 0 .. 127
  OBVIOUS
<1> QED BY PatchAssumption

\* For every tone and any two velocities: the harder note's time factor is
\* nearer to neutral, and none is zero.
THEOREM HarderAlwaysNearer == SoundSpec => HarderIsNearer
<1>1. ASSUME IInv, IInv', [SoundNext]_soundVars
      PROVE  [odd' # odd =>
               /\ sound'.attack \in 4 .. Top
               /\ note'.tone = note.tone /\ note'.velocity > note.velocity =>
                    Magnitude(sound'.attack - Neutral)
                      <= Magnitude(sound.attack - Neutral)]_soundVars
  <2> DEFINE s == note.tone.attackVelocity
             t == note'.tone.attackVelocity
             u == note.velocity
             v == note'.velocity
  <2>1. /\ s \in Nat /\ s <= 127 /\ t \in Nat /\ t <= 127
        /\ u \in Nat /\ u <= 127 /\ v \in Nat /\ v <= 127
    <3>1. \A x \in Patches : x.attackVelocity \in Nat /\ x.attackVelocity <= 127
      BY AttackFields
    <3>2. \A x \in Velocities : x \in Nat /\ x <= 127
      BY InputAssumption
    <3> QED BY <1>1, <3>1, <3>2 DEF IInv, Settled
  <2>2. sound.attack = VelocityTime(s, u) /\ sound'.attack = VelocityTime(t, v)
    BY <1>1 DEF IInv, Kept, AttackByVelocity
  <2>3. note'.tone = note.tone => s = t
    OBVIOUS
  <2> HIDE DEF s, t, u, v
  <2>4. VelocityTime(t, v) \in 4 .. Top
    <3> DEFINE x == VelocityTime(t, v)
    <3>1. x \in Nat /\ x >= 4 /\ x <= Top
      <4>1. v <= v
        BY <2>1
      <4> QED BY <2>1, <4>1, VelocityTimeNears
    <3> HIDE DEF x
    <3>2. Top \in Int
      BY DEF Top, Bit16
    <3>3. x \in 4 .. Top
      BY <3>1, <3>2
    <3> QED BY <3>3 DEF x
  <2>5. u <= v => Magnitude(VelocityTime(s, v) - Neutral)
                    <= Magnitude(VelocityTime(s, u) - Neutral)
    BY <2>1, VelocityTimeNears
  <2>6. v > u => u <= v
    BY <2>1
  <2> QED BY <2>2, <2>3, <2>4, <2>5, <2>6, Zenon DEF u, v
<1> QED BY <1>1, VoiceKept, PTL DEF SoundSpec, HarderIsNearer

-----------------------------------------------------------------------------
(* The oscillators.                                                        *)

\* An oscillator's record: its fields, the words among them, and a swell
\* that has not begun before the delay is over.
Fields == {"wave", "phase", "target", "slewed", "out", "wait", "fade", "scaled",
           "pace", "fadeRate", "rate", "shift", "depths", "pitchDepth"}
Oscillates(l) ==
    /\ Fields \subseteq DOMAIN l
    /\ l.wave \in Waves /\ l.target \in Int /\ l.slewed \in Int
    /\ l.wait \in Nat /\ l.wait <= Top /\ l.fade \in Nat /\ l.fade <= Top
    /\ l.pace \in Nat /\ l.fadeRate \in Nat /\ l.pitchDepth \in 0 .. 255
    /\ l.depths \in [1 .. 3 -> Int] /\ l.scaled \in [1 .. 3 -> Int]
    /\ l.wait # Top => \A i \in 1 .. 3 : l.scaled[i] = 0
\* None of the three depths is beyond what the swell has come to.
Swollen(l) ==
    \A i \in 1 .. 3 :
       Magnitude(l.scaled[i]) <= IF l.fade = Top THEN Magnitude(l.depths[i])
                                 ELSE High(Magnitude(l.depths[i]), l.fade)

\* The upper word of a product with a word is not above the other factor, and
\* grows with the word.
LEMMA HighIsShare ==
    ASSUME NEW a \in Nat, NEW b \in Nat, b <= Top
    PROVE  High(a, b) \in Nat /\ High(a, b) <= a
<1>1. a * b \in Nat /\ a * b <= a * 65536
  <2>1. PICK d \in Nat : 65536 = b + d
    BY SMT, 65536 - b \in Nat DEF Top, Bit16
  <2>2. a * 65536 = a * b + a * d /\ a * d \in Nat /\ a * b \in Nat
    BY <2>1
  <2> QED BY <2>2
<1>2. High(a, b) = (a * b) \div 65536
  BY HighIsProduct DEF Bit16
<1> DEFINE m == a * b
<1> HIDE DEF m
<1>3. m \in Nat /\ m <= a * 65536
  BY <1>1 DEF m
<1>4. m \div 65536 \in Nat /\ m \div 65536 <= a
  BY <1>3
<1> QED BY <1>2, <1>4 DEF m

LEMMA ShareGrows ==
    ASSUME NEW a \in Nat, NEW b \in Nat, NEW c \in Nat, b <= c
    PROVE  High(a, b) <= High(a, c)
<1>1. High(a, b) = (a * b) \div 65536 /\ High(a, c) = (a * c) \div 65536
  BY HighIsProduct DEF Bit16
<1>2. a * b \in Nat /\ a * c \in Nat /\ a * b <= a * c
  <2>1. PICK d \in Nat : c = b + d
    BY c - b \in Nat
  <2>2. a * c = a * b + a * d /\ a * d \in Nat /\ a * b \in Nat
    BY <2>1
  <2> QED BY <2>2
<1> DEFINE m == a * b
           n == a * c
<1> HIDE DEF m, n
<1>3. m \div 65536 <= n \div 65536
  BY <1>2 DEF m, n
<1> QED BY <1>1, <1>3 DEF m, n

\* A depth of either sign, scaled.
LEMMA ScaledIsShare ==
    ASSUME NEW depth \in Int, NEW phase \in Nat, phase <= Top
    PROVE  /\ Scaled(depth, phase) \in Int
           /\ Magnitude(Scaled(depth, phase)) = High(Magnitude(depth), phase)
           /\ Magnitude(Scaled(depth, phase)) <= Magnitude(depth)
<1>1. Magnitude(depth) \in Nat
  BY DEF Magnitude
<1> DEFINE h == High(Magnitude(depth), phase)
<1>2. h \in Nat /\ h <= Magnitude(depth)
  BY <1>1, HighIsShare
<1>3. Scaled(depth, phase) = IF depth < 0 THEN -h ELSE h
  BY Zenon DEF Scaled, WithSign
<1> HIDE DEF h
<1>4. Scaled(depth, phase) \in Int /\ Magnitude(Scaled(depth, phase)) = h
  <2>1. CASE depth < 0
    BY <2>1, <1>2, <1>3 DEF Magnitude
  <2>2. CASE ~(depth < 0)
    BY <2>2, <1>2, <1>3 DEF Magnitude
  <2> QED BY <2>1, <2>2
<1> QED BY <1>2, <1>4 DEF h

\* A phase goes on to its end and stops there.
LEMMA PhaseEnds ==
    ASSUME NEW elapsed \in Nat, NEW pace \in Nat, NEW was \in Nat, was <= Top
    PROVE  /\ Smaller(elapsed * pace + was, Top) \in Nat
           /\ Smaller(elapsed * pace + was, Top) <= Top
           /\ was <= Smaller(elapsed * pace + was, Top)
<1> DEFINE by == elapsed * pace
<1>1. by \in Nat
  OBVIOUS
<1> HIDE DEF by
<1>2. Top \in Nat
  BY DEF Top, Bit16
<1>3. /\ Smaller(by + was, Top) \in Nat /\ Smaller(by + was, Top) <= Top
      /\ was <= Smaller(by + was, Top)
  <2>1. CASE by + was < Top
    BY <2>1, <1>1, <1>2 DEF Smaller
  <2>2. CASE ~(by + was < Top)
    BY <2>2, <1>1, <1>2 DEF Smaller
  <2> QED BY <2>1, <2>2
<1> QED BY <1>3 DEF by

\* What the swell and the wave each leave alone.
SameWave(l, m) == m.wave = l.wave /\ m.target = l.target /\ m.slewed = l.slewed
Swelled(l, m) ==
    /\ l.wait <= m.wait /\ l.fade <= m.fade /\ m.depths = l.depths
    /\ Swollen(l) => \A i \in 1 .. 3 : Magnitude(l.scaled[i]) <= Magnitude(m.scaled[i])

LEMMA FadeInSwells ==
    ASSUME NEW l, Oscillates(l), l.wait = Top, NEW elapsed \in Nat
    PROVE  LET m == FadeIn(l, elapsed)
           IN Oscillates(m) /\ Swollen(m) /\ SameWave(l, m) /\ Swelled(l, m)
<1> DEFINE m == FadeIn(l, elapsed)
<1>1. Top \in Nat /\ l.depths \in [1 .. 3 -> Int] /\ l.fade \in Nat /\ l.fade <= Top
  BY DEF Oscillates, Top, Bit16
<1>2. \A i \in 1 .. 3 : l.depths[i] \in Int /\ Magnitude(l.depths[i]) \in Nat
  BY <1>1 DEF Magnitude
<1>3. CASE l.fade = Top
  <2>1. m = [l EXCEPT !.scaled = l.depths]
    BY <1>3 DEF FadeIn
  <2>2. /\ DOMAIN m = DOMAIN l /\ m.scaled = l.depths
        /\ \A f \in Fields \ {"scaled"} : m[f] = l[f]
    BY <2>1 DEF Oscillates, Fields
  <2> HIDE DEF m
  <2>3. /\ m.wave = l.wave /\ m.target = l.target /\ m.slewed = l.slewed /\ m.wait = l.wait
        /\ m.fade = l.fade /\ m.pace = l.pace /\ m.fadeRate = l.fadeRate /\ m.depths = l.depths
        /\ m.pitchDepth = l.pitchDepth
    BY <2>2 DEF Fields
  <2>4. Oscillates(m)
    BY <2>2, <2>3 DEF Oscillates
  <2>5. \A i \in 1 .. 3 : Magnitude(m.scaled[i]) = Magnitude(l.depths[i])
    BY <2>2
  <2>6. Swollen(m)
    BY <2>3, <2>5, <1>2, <1>3 DEF Swollen
  <2>7. Swelled(l, m)
    BY <2>3, <2>5, <1>1, <1>3 DEF Swelled, Swollen, Oscillates
  <2> QED BY <2>3, <2>4, <2>6, <2>7 DEF SameWave, m
<1>4. CASE l.fade # Top
  <2> DEFINE there == FadedIn(l, elapsed)
             scaled == [i \in 1 .. 3 |-> Scaled(l.depths[i], there)]
  <2>1. m = [l EXCEPT !.fade = there, !.scaled = scaled]
    BY <1>4 DEF FadeIn
  <2>2. there \in Nat /\ there <= Top /\ l.fade <= there
    BY <1>1, PhaseEnds DEF FadedIn, Oscillates
  <2> HIDE DEF there
  <2>3. \A i \in 1 .. 3 : /\ scaled[i] \in Int
                          /\ Magnitude(scaled[i]) = High(Magnitude(l.depths[i]), there)
                          /\ Magnitude(scaled[i]) <= Magnitude(l.depths[i])
    BY <1>2, <2>2, ScaledIsShare
  <2>4. scaled \in [1 .. 3 -> Int]
    BY <2>3
  <2> HIDE DEF scaled
  <2>5. /\ DOMAIN m = DOMAIN l /\ m.scaled = scaled /\ m.fade = there
        /\ \A f \in Fields \ {"scaled", "fade"} : m[f] = l[f]
    BY <2>1 DEF Oscillates, Fields
  <2> HIDE DEF m
  <2>6. /\ m.wave = l.wave /\ m.target = l.target /\ m.slewed = l.slewed /\ m.wait = l.wait
        /\ m.pace = l.pace /\ m.fadeRate = l.fadeRate /\ m.depths = l.depths
        /\ m.pitchDepth = l.pitchDepth
    BY <2>5 DEF Fields
  <2>7. Oscillates(m)
    BY <2>2, <2>4, <2>5, <2>6 DEF Oscillates
  <2>8. Swollen(m)
    <3>1. \A i \in 1 .. 3 : /\ Magnitude(m.scaled[i]) = High(Magnitude(m.depths[i]), m.fade)
                            /\ Magnitude(m.scaled[i]) <= Magnitude(m.depths[i])
      BY <2>3, <2>5, <2>6
    <3>2. \A i \in 1 .. 3 : Magnitude(m.scaled[i]) \in Nat
      BY <2>3, <2>5 DEF Magnitude
    <3>3. CASE m.fade = Top
      BY <3>1, <3>3, Zenon DEF Swollen
    <3>4. CASE m.fade # Top
      BY <3>1, <3>2, <3>4 DEF Swollen
    <3> QED BY <3>3, <3>4
  <2>9. ASSUME Swollen(l), NEW i \in 1 .. 3
        PROVE  Magnitude(l.scaled[i]) <= Magnitude(m.scaled[i])
    <3>1. Magnitude(l.scaled[i]) <= High(Magnitude(l.depths[i]), l.fade)
      BY <2>9, <1>4 DEF Swollen
    <3>2. High(Magnitude(l.depths[i]), l.fade) <= High(Magnitude(l.depths[i]), there)
      BY <1>1, <1>2, <2>2, ShareGrows
    <3>3. /\ Magnitude(l.scaled[i]) \in Int
          /\ High(Magnitude(l.depths[i]), l.fade) \in Int
          /\ High(Magnitude(l.depths[i]), there) \in Int
      <4>1. l.scaled[i] \in Int
        BY DEF Oscillates
      <4>2. Magnitude(l.scaled[i]) \in Int
        BY <4>1 DEF Magnitude
      <4>3. Magnitude(l.depths[i]) \in Nat /\ l.fade \in Nat /\ l.fade <= Top
        BY <1>1, <1>2
      <4>4. /\ High(Magnitude(l.depths[i]), l.fade) \in Nat
            /\ High(Magnitude(l.depths[i]), there) \in Nat
        BY <4>3, <2>2, HighIsShare
      <4> QED BY <4>2, <4>4, SMT
    <3>4. Magnitude(m.scaled[i]) = High(Magnitude(l.depths[i]), there)
      BY <2>3, <2>5
    <3> QED BY <3>1, <3>2, <3>3, <3>4
  <2>10. Swelled(l, m)
    BY <2>2, <2>5, <2>6, <2>9, <1>1 DEF Swelled, Oscillates
  <2> QED BY <2>6, <2>7, <2>8, <2>10 DEF SameWave, m
<1> QED BY <1>3, <1>4

LEMMA OnsetSwells ==
    ASSUME NEW l, Oscillates(l), NEW elapsed \in Nat
    PROVE  LET m == Onset(l, elapsed)
           IN Oscillates(m) /\ Swollen(m) /\ SameWave(l, m) /\ Swelled(l, m)
<1> DEFINE there == IF l.wait = Top THEN Top ELSE Delayed(l, elapsed)
           d == [l EXCEPT !.wait = there]
<1>1. there \in Nat /\ there <= Top /\ l.wait <= there /\ (there # Top => l.wait # Top)
  <2>1. Top \in Nat
    BY DEF Top, Bit16
  <2>2. CASE l.wait = Top
    BY <2>1, <2>2
  <2>3. CASE l.wait # Top
    <3>1. there = Delayed(l, elapsed)
      BY <2>3
    <3>2. /\ Delayed(l, elapsed) \in Nat /\ Delayed(l, elapsed) <= Top
          /\ l.wait <= Delayed(l, elapsed)
      BY PhaseEnds DEF Delayed, Oscillates
    <3> QED BY <2>3, <3>1, <3>2
  <2> QED BY <2>2, <2>3
<1>2. Onset(l, elapsed) = IF there = Top THEN FadeIn(d, elapsed) ELSE d
  BY DEF Onset
<1> HIDE DEF there
<1>3. /\ DOMAIN d = DOMAIN l /\ d.wait = there
      /\ \A f \in Fields \ {"wait"} : d[f] = l[f]
  BY DEF Oscillates, Fields
<1> HIDE DEF d
<1>4. /\ d.wave = l.wave /\ d.target = l.target /\ d.slewed = l.slewed /\ d.fade = l.fade
      /\ d.pace = l.pace /\ d.fadeRate = l.fadeRate /\ d.depths = l.depths
      /\ d.scaled = l.scaled /\ d.pitchDepth = l.pitchDepth
  BY <1>3 DEF Fields
<1>5. Oscillates(d)
  BY <1>1, <1>3, <1>4 DEF Oscillates
<1>6. Swollen(l) => Swollen(d)
  BY <1>4 DEF Swollen
<1>7. CASE there = Top
  <2> DEFINE m == FadeIn(d, elapsed)
  <2>1. Oscillates(m) /\ Swollen(m) /\ SameWave(d, m) /\ Swelled(d, m)
    BY <1>3, <1>5, <1>7, FadeInSwells
  <2> HIDE DEF m
  <2>2. d.wait <= m.wait /\ m.wait \in Int /\ l.wait \in Int
    BY <2>1, <1>5 DEF Swelled, Oscillates
  <2>3. SameWave(l, m)
    BY <2>1, <1>4 DEF SameWave
  <2>4. l.wait <= m.wait
    BY <2>2, <1>1, <1>3
  <2>5. Swelled(l, m)
    BY <2>1, <2>4, <1>4, <1>6 DEF Swelled
  <2> QED BY <2>1, <2>3, <2>5, <1>2, <1>7 DEF m
<1>8. CASE there # Top
  <2>1. \A i \in 1 .. 3 : l.scaled[i] = 0 /\ d.scaled[i] = 0
    BY <1>1, <1>4, <1>8 DEF Oscillates
  <2>2. Swollen(d)
    <3> SUFFICES ASSUME NEW i \in 1 .. 3
                 PROVE  Magnitude(d.scaled[i]) <= IF d.fade = Top THEN Magnitude(d.depths[i])
                                                  ELSE High(Magnitude(d.depths[i]), d.fade)
      BY DEF Swollen
    <3>1. d.depths[i] \in Int /\ d.fade \in Nat /\ d.fade <= Top
      BY <1>5 DEF Oscillates
    <3>2. Magnitude(d.depths[i]) \in Nat
      BY <3>1 DEF Magnitude
    <3>3. High(Magnitude(d.depths[i]), d.fade) \in Nat
      BY <3>1, <3>2, HighIsShare
    <3>4. Magnitude(d.scaled[i]) = 0
      BY <2>1 DEF Magnitude
    <3> HIDE DEF Magnitude
    <3> QED BY <3>2, <3>3, <3>4
  <2>3. SameWave(l, d)
    BY <1>4 DEF SameWave
  <2>4. l.fade \in Int
    BY DEF Oscillates
  <2>5. Swelled(l, d)
    BY <1>1, <1>3, <1>4, <2>1, <2>4 DEF Swelled, Magnitude
  <2> QED BY <2>2, <2>3, <2>5, <1>2, <1>5, <1>8
<1> QED BY <1>7, <1>8

\* The wave moves on between where it was and where it goes; nothing of the
\* swell changes.
LEMMA WaveNears ==
    ASSUME NEW l, Oscillates(l), NEW elapsed \in Nat, NEW chip \in Int
    PROVE  LET m == Wave(l, elapsed, chip)
           IN /\ Oscillates(m) /\ (Swollen(l) => Swollen(m)) /\ Nears(l, m)
              /\ m.wait = l.wait /\ m.fade = l.fade /\ m.depths = l.depths
              /\ m.scaled = l.scaled
<1> DEFINE m == Wave(l, elapsed, chip)
           step == elapsed * Rate(l.rate, l.shift)
<1>1. CASE l.wave = "sine"
  <2> DEFINE there == (step + l.phase) % Bit16
             out == Sine(there)
  <2>1. m = [l EXCEPT !.phase = there, !.out = out]
    BY <1>1 DEF Wave
  <2> HIDE DEF there, out
  <2>2. DOMAIN m = DOMAIN l /\ \A f \in Fields \ {"phase", "out"} : m[f] = l[f]
    BY <2>1 DEF Oscillates, Fields
  <2> HIDE DEF m
  <2>3. /\ m.wave = l.wave /\ m.target = l.target /\ m.slewed = l.slewed /\ m.wait = l.wait
        /\ m.fade = l.fade /\ m.pace = l.pace /\ m.fadeRate = l.fadeRate
        /\ m.depths = l.depths /\ m.scaled = l.scaled /\ m.pitchDepth = l.pitchDepth
    BY <2>2 DEF Fields
  <2>4. Oscillates(m)
    BY <2>2, <2>3 DEF Oscillates
  <2>5. Swollen(l) => Swollen(m)
    BY <2>3 DEF Swollen
  <2>6. Nears(l, m)
    BY <2>3 DEF Nears, Smaller, Larger, Oscillates
  <2> QED BY <2>3, <2>4, <2>5, <2>6 DEF m
<1>2. CASE l.wave # "sine"
  <2> DEFINE by == SlewStep[l.wave]
             there == 2 * step + l.phase
             phase == there % Bit16
             target == IF there >= Bit16 THEN chip ELSE l.target
             level == Slew(l.slewed, target, by)
  <2>1. m = [l EXCEPT !.phase = phase, !.target = target, !.slewed = level, !.out = level]
    BY <1>2 DEF Wave, Random
  <2>2. by \in Nat
    <3>1. l.wave \in {"slow", "fast"}
      BY <1>2 DEF Oscillates, Waves
    <3>2. SlewStep \in [{"slow", "fast"} -> Positive]
      BY VoiceLfoAssumption
    <3>3. SlewStep[l.wave] \in Positive
      BY <3>1, <3>2, Zenon
    <3> QED BY <3>3 DEF Positive
  <2>3. target \in Int /\ l.slewed \in Int
    <3>1. l.target \in Int /\ l.slewed \in Int
      BY DEF Oscillates
    <3> HIDE DEF there
    <3> QED BY <3>1, Zenon
  <2> HIDE DEF there, by, phase, target
  <2>4. level \in Int
    BY <2>2, <2>3 DEF Slew, Smaller, Larger
  <2>5. level >= Smaller(l.slewed, target) /\ level <= Larger(l.slewed, target)
    BY <2>2, <2>3, SlewStaysBetween
  <2> HIDE DEF level
  <2>6. /\ DOMAIN m = DOMAIN l /\ m.target = target /\ m.slewed = level
        /\ \A f \in Fields \ {"phase", "target", "slewed", "out"} : m[f] = l[f]
    BY <2>1 DEF Oscillates, Fields
  <2> HIDE DEF m
  <2>7. /\ m.wave = l.wave /\ m.wait = l.wait
        /\ m.fade = l.fade /\ m.pace = l.pace /\ m.fadeRate = l.fadeRate
        /\ m.depths = l.depths /\ m.scaled = l.scaled /\ m.pitchDepth = l.pitchDepth
    BY <2>6 DEF Fields
  <2>8. Oscillates(m)
    BY <2>3, <2>4, <2>6, <2>7 DEF Oscillates
  <2>9. Swollen(l) => Swollen(m)
    BY <2>7 DEF Swollen
  <2>10. Nears(l, m)
    BY <2>5, <2>6 DEF Nears
  <2> QED BY <2>7, <2>8, <2>9, <2>10 DEF m
<1> QED BY <1>1, <1>2

LEMMA TickSwells ==
    ASSUME NEW l, Oscillates(l), NEW elapsed \in Nat, NEW chip \in Int
    PROVE  LET m == LfoTick(l, elapsed, chip)
           IN Oscillates(m) /\ Swollen(m) /\ Nears(l, m) /\ Swelled(l, m)
<1> DEFINE n == Onset(l, elapsed)
           m == Wave(n, elapsed, chip)
<1>1. Oscillates(n) /\ Swollen(n) /\ SameWave(l, n) /\ Swelled(l, n)
  BY OnsetSwells
<1>2. LfoTick(l, elapsed, chip) = m
  BY DEF LfoTick
<1> HIDE DEF n
<1>3. /\ Oscillates(m) /\ Swollen(m) /\ Nears(n, m)
      /\ m.wait = n.wait /\ m.fade = n.fade /\ m.depths = n.depths /\ m.scaled = n.scaled
  BY <1>1, WaveNears
<1> HIDE DEF m
<1>4. Nears(l, m)
  BY <1>1, <1>3 DEF Nears, SameWave
<1>5. Swelled(l, m)
  BY <1>1, <1>3 DEF Swelled
<1> QED BY <1>2, <1>3, <1>4, <1>5

\* With what the controllers add to the rate.
LEMMA SwayingSwells ==
    ASSUME NEW l, Oscillates(l), NEW elapsed \in Nat, NEW chip \in Int, NEW shift
    PROVE  LET m == Swaying(l, shift, elapsed, chip)
           IN Oscillates(m) /\ Swollen(m) /\ Nears(l, m) /\ Swelled(l, m)
<1> DEFINE k == [l EXCEPT !.shift = shift]
           m == LfoTick(k, elapsed, chip)
<1>1. DOMAIN k = DOMAIN l /\ \A f \in Fields \ {"shift"} : k[f] = l[f]
  BY DEF Oscillates, Fields
<1>2. Swaying(l, shift, elapsed, chip) = m
  BY DEF Swaying
<1> HIDE DEF k
<1>3. /\ k.wave = l.wave /\ k.target = l.target /\ k.slewed = l.slewed /\ k.wait = l.wait
      /\ k.fade = l.fade /\ k.pace = l.pace /\ k.fadeRate = l.fadeRate
      /\ k.depths = l.depths /\ k.scaled = l.scaled /\ k.pitchDepth = l.pitchDepth
  BY <1>1 DEF Fields
<1>4. Oscillates(k) /\ (Swollen(l) => Swollen(k))
  BY <1>1, <1>3 DEF Oscillates, Swollen
<1>5. Oscillates(m) /\ Swollen(m) /\ Nears(k, m) /\ Swelled(k, m)
  BY <1>4, TickSwells
<1> HIDE DEF m
<1>6. Nears(l, m) /\ Swelled(l, m)
  BY <1>3, <1>4, <1>5 DEF Nears, Swelled
<1> QED BY <1>2, <1>5, <1>6

\* What a part makes of the depth of the vibrato.
LEMMA DepthIsWhole ==
    ASSUME NEW own \in 0 .. 255, NEW p \in 0 .. 127
    PROVE  Depth(own, p) \in Int
<1>1. \A a, b \in Int : \A limit \in {0, 127} : ByteSum(a, b, limit) \in 0 .. 127
  <2> SUFFICES ASSUME NEW a \in Int, NEW b \in Int, NEW limit \in {0, 127}
               PROVE  ByteSum(a, b, limit) \in 0 .. 127
    OBVIOUS
  <2> DEFINE s == (a + b) % 256
  <2>1. s \in Nat
    OBVIOUS
  <2>2. ByteSum(a, b, limit) = IF s < 128 THEN s ELSE limit
    BY DEF ByteSum, Bit8
  <2> HIDE DEF s
  <2>3. CASE s < 128
    BY <2>1, <2>2, <2>3
  <2>4. CASE ~(s < 128)
    BY <2>2, <2>4
  <2> QED BY <2>3, <2>4
<1>2. DepthUp(own, p) \in 0 .. 127
  <2>1. 2 * (p - 64) \in Int /\ -2 * (64 - p) \in Int /\ own \in Int
    OBVIOUS
  <2>2. ByteSum(own, 2 * (p - 64), 127) \in 0 .. 127 /\ ByteSum(own, -2 * (64 - p), 0) \in 0 .. 127
    BY <1>1, <2>1
  <2> QED BY <2>2, Zenon DEF DepthUp
<1> DEFINE turned == own - 128
<1>3. turned \in Int
  OBVIOUS
<1> HIDE DEF turned
<1>4. DepthDown(turned, p) \in 0 .. 127
  <2>1. 2 * (64 - p) \in Int /\ -2 * (p - 64) \in Int
    OBVIOUS
  <2>2. /\ ByteSum(turned, -2 * (p - 64), 0) \in 0 .. 127
        /\ ByteSum(turned, 2 * (64 - p), 127) \in 0 .. 127
    BY <1>1, <1>3, <2>1
  <2> QED BY <2>2, Zenon DEF DepthDown
<1>5. DepthOf \in [0 .. 127 -> Positive]
  BY VoiceLfoAssumption
<1>6. \A x \in Positive : x \in Int
  BY DEF Positive
<1>7. DepthOf[DepthUp(own, p)] \in Int /\ DepthOf[DepthDown(turned, p)] \in Int
  <2> DEFINE above == DepthUp(own, p)
             below == DepthDown(turned, p)
  <2>1. above \in 0 .. 127 /\ below \in 0 .. 127
    BY <1>2, <1>4
  <2> HIDE DEF above, below
  <2>2. DepthOf[above] \in Positive /\ DepthOf[below] \in Positive
    BY <2>1, <1>5
  <2> QED BY <2>2, <1>6 DEF above, below
<1> DEFINE up == DepthOf[DepthUp(own, p)]
           down == DepthOf[DepthDown(turned, p)]
<1>8. Depth(own, p) = IF own >= 128 THEN -down ELSE up
  BY Zenon DEF Depth, turned
<1>9. up \in Int /\ down \in Int
  BY <1>7
<1> HIDE DEF up, down
<1>10. CASE own >= 128
  BY <1>8, <1>9, <1>10
<1>11. CASE ~(own >= 128)
  BY <1>8, <1>9, <1>11
<1> QED BY <1>10, <1>11

\* The first oscillator, whose depth the part may have changed: then the
\* swell starts from what it was and is compared with the new depth only.
LEMMA FirstSwells ==
    ASSUME NEW l, Oscillates(l), NEW elapsed \in Nat, NEW chip \in Int, NEW shift,
           NEW p, p.depth \in 0 .. 127
    PROVE  LET m == FirstTick(l, p, shift, elapsed, chip)
           IN /\ Oscillates(m) /\ Swollen(m) /\ Nears(l, m) /\ (Swollen(l) => Swells(l, m))
              /\ m.depths[3] = Depth(l.pitchDepth, p.depth)
<1> DEFINE depth == Depth(l.pitchDepth, p.depth)
           rate == RateIndex(l.ownRate, p.rate)
           k == [l EXCEPT !.rate = rate, !.depths[3] = depth]
           m == Swaying(k, shift, elapsed, chip)
<1>1. FirstTick(l, p, shift, elapsed, chip) = m
  BY DEF FirstTick
<1>2. depth \in Int
  BY DepthIsWhole DEF Oscillates
<1> HIDE DEF depth, rate
<1>3. /\ DOMAIN k = DOMAIN l /\ k.depths = [l.depths EXCEPT ![3] = depth]
      /\ \A f \in Fields \ {"rate", "depths"} : k[f] = l[f]
  BY DEF Oscillates, Fields
<1> HIDE DEF k
<1>4. /\ k.wave = l.wave /\ k.target = l.target /\ k.slewed = l.slewed /\ k.wait = l.wait
      /\ k.fade = l.fade /\ k.pace = l.pace /\ k.fadeRate = l.fadeRate
      /\ k.scaled = l.scaled /\ k.pitchDepth = l.pitchDepth
  BY <1>3 DEF Fields
<1>5. k.depths \in [1 .. 3 -> Int]
  BY <1>2, <1>3 DEF Oscillates
<1>6. Oscillates(k)
  BY <1>3, <1>4, <1>5 DEF Oscillates
<1>7. Oscillates(m) /\ Swollen(m) /\ Nears(k, m) /\ Swelled(k, m)
  BY <1>6, SwayingSwells
<1> HIDE DEF m
<1>8. Nears(l, m)
  BY <1>4, <1>7 DEF Nears
<1>9. ASSUME Swollen(l) PROVE Swells(l, m)
  <2>1. l.wait <= m.wait /\ l.fade <= m.fade /\ m.depths = k.depths
    BY <1>4, <1>7 DEF Swelled
  <2>2. ASSUME l.depths = m.depths, NEW i \in 1 .. 3
        PROVE  Magnitude(l.scaled[i]) <= Magnitude(m.scaled[i])
    <3>1. Swollen(k)
      BY <1>4, <1>9, <2>1, <2>2 DEF Swollen
    <3> QED BY <1>4, <1>7, <3>1 DEF Swelled
  <2> QED BY <2>1, <2>2 DEF Swells
<1>10. m.depths[3] = Depth(l.pitchDepth, p.depth)
  <2>1. m.depths = k.depths
    BY <1>7 DEF Swelled
  <2>2. 3 \in DOMAIN l.depths
    BY DEF Oscillates
  <2>3. k.depths[3] = depth
    BY <1>3, <2>2
  <2> QED BY <2>1, <2>3 DEF depth
<1> QED BY <1>1, <1>7, <1>8, <1>9, <1>10

\* Depths of a tone are of either sign.
LEMMA DepthsAreWhole ==
    ASSUME NEW own, own.level \in 0 .. 255, own.cutoff \in 0 .. 255, own.pitch \in 0 .. 255
    PROVE  ToneDepths(own) \in [1 .. 3 -> Int]
<1>1. \A b \in BOOLEAN : \A x \in Int : WithSign(b, x) \in Int
  BY DEF WithSign
<1>2. \A b \in 0 .. 255 : b % 128 \in 0 .. 127 /\ (b % 128) * Bit8 \in Int /\ (b >= 128) \in BOOLEAN
  BY DEF Bit8
<1>3. /\ DepthOf \in [0 .. 127 -> Positive] /\ CutoffDepthOf \in [0 .. 127 -> Positive]
      /\ \A x \in Positive : x \in Int
  <2>1. \A x \in Positive : x \in Int
    BY DEF Positive
  <2>2. DepthOf \in [0 .. 127 -> Positive] /\ CutoffDepthOf \in [0 .. 127 -> Positive]
    BY VoiceLfoAssumption
  <2> QED BY <2>1, <2>2
<1>4. LevelDepth(own.level) \in Int
  BY <1>1, <1>2 DEF LevelDepth
<1>5. \A i \in 0 .. 127 : DepthOf[i] \in Int /\ CutoffDepthOf[i] \in Int
  BY <1>3, Zenon
<1>6. CutoffDepth(own.cutoff) \in Int
  BY <1>1, <1>2, <1>5, Zenon DEF CutoffDepth
<1>7. PitchDepth(own.pitch) \in Int
  BY <1>1, <1>2, <1>5, Zenon DEF PitchDepth
<1> QED BY <1>4, <1>6, <1>7 DEF ToneDepths

LEMMA TimesAreWords ==
    ASSUME NEW t \in Patches, NEW own \in 0 .. 127
    PROVE  /\ FirstTimes(t, own).pace \in Nat /\ FirstTimes(t, own).fadeRate \in Nat
           /\ SecondTimes(t).pace \in Nat /\ SecondTimes(t).fadeRate \in Nat
<1>1. LfoTimeOf \in [0 .. 127 -> Word] /\ \A w \in Word : w \in Nat
  <2>1. \A w \in Word : w \in Nat
    BY DEF Word
  <2>2. LfoTimeOf \in [0 .. 127 -> Word]
    BY VoiceSetupAssumption
  <2> QED BY <2>1, <2>2
<1>2. \A i \in 0 .. 127 : LfoTimeOf[i] \in Nat
  BY <1>1, Zenon
<1>3. t.fade1 \in 0 .. 127 /\ t.fade2 \in 0 .. 127 /\ t.delay1 \in 0 .. 255 /\ t.delay2 \in 0 .. 255
  BY PatchAssumption
<1>4. DelayIndex(t.delay1, own) \in 0 .. 127
  <2> DEFINE s == t.delay1 + 2 * (own - 64)
  <2>1. s \in Int
    BY <1>3
  <2> HIDE DEF s
  <2>2. Floor0(s) \in Int /\ Floor0(s) >= 0
    BY <2>1 DEF Floor0, Larger
  <2>3. Smaller(Floor0(s), 127) \in 0 .. 127
    BY <2>2 DEF Smaller
  <2> QED BY <2>3 DEF DelayIndex, s
<1>5. FirstTimes(t, own).pace \in Nat
  <2>1. LfoTimeOf[DelayIndex(t.delay1, own)] \in Nat /\ 0 \in Nat
    BY <1>2, <1>4
  <2> QED BY <2>1, Zenon DEF FirstTimes
<1>6. SecondTimes(t).pace \in Nat
  <2>1. CASE t.delay2 >= 128
    BY <2>1 DEF SecondTimes
  <2>2. CASE ~(t.delay2 >= 128)
    <3>1. t.delay2 \in 0 .. 127
      BY <2>2, <1>3
    <3> QED BY <2>2, <3>1, <1>2 DEF SecondTimes
  <2> QED BY <2>1, <2>2
<1>7. FirstTimes(t, own).fadeRate \in Nat /\ SecondTimes(t).fadeRate \in Nat
  BY <1>2, <1>3 DEF FirstTimes, SecondTimes
<1> QED BY <1>5, <1>6, <1>7

\* An oscillator as a note starts it.
LEMMA FreshOscillates ==
    ASSUME NEW wave \in Waves, NEW phase, NEW chip \in Int,
           NEW times, times.pace \in Nat, times.fadeRate \in Nat,
           NEW own, own.level \in 0 .. 255, own.cutoff \in 0 .. 255, own.pitch \in 0 .. 255
    PROVE  Oscillates(WithTimes(Fresh(wave, phase, chip), times, own))
<1> DEFINE f == Fresh(wave, phase, chip)
           depths == ToneDepths(own)
           l == WithTimes(f, times, own)
<1>1. /\ f.wave = wave /\ f.target = chip /\ f.slewed = chip /\ f.wait = 0 /\ f.fade = 0
      /\ f.scaled = [i \in 1 .. 3 |-> 0]
  BY DEF Fresh
<1>2. depths \in [1 .. 3 -> Int]
  BY DepthsAreWhole
<1> HIDE DEF f, depths
<1>3. /\ Fields \subseteq DOMAIN l
      /\ l.wave = wave /\ l.target = chip /\ l.slewed = chip /\ l.wait = 0 /\ l.fade = 0
      /\ l.scaled = [i \in 1 .. 3 |-> 0] /\ l.depths = depths /\ l.pitchDepth = own.pitch
      /\ l.pace = times.pace /\ l.fadeRate = times.fadeRate
  BY <1>1 DEF WithTimes, Fields, depths
<1>4. 0 <= Top
  BY DEF Top, Bit16
<1> HIDE DEF l
<1>5. Oscillates(l)
  BY <1>2, <1>3, <1>4 DEF Oscillates
<1> QED BY <1>5 DEF l, f

LEMMA FirstStarts ==
    ASSUME NEW t \in Patches, NEW chip \in Int, NEW shift,
           NEW p, p.depth \in 0 .. 127, p.lfoDelay \in 0 .. 127
    PROVE  LET l == FirstOf(t, p, shift, chip) IN Oscillates(l) /\ Swollen(l)
<1> DEFINE times == FirstTimes(t, p.lfoDelay)
           wave == WaveOf[t.flags1 % 16]
           phase == (t.flags1 \div 64) * 16384
           f == WithTimes(Fresh(wave, phase, chip), times, t.sway1)
<1>1. wave \in Waves
  <2>1. t.flags1 \in 0 .. 255
    BY PatchAssumption
  <2>2. t.flags1 % 16 \in 0 .. 15
    BY <2>1
  <2>3. \A i \in 0 .. 15 : WaveOf[i] \in Waves
    BY InputAssumption, Zenon
  <2> QED BY <2>2, <2>3
<1>2. times.pace \in Nat /\ times.fadeRate \in Nat
  BY TimesAreWords
<1>3. /\ t.sway1.level \in 0 .. 255 /\ t.sway1.cutoff \in 0 .. 255
      /\ t.sway1.pitch \in 0 .. 255
  <2>1. \A own \in {t.sway1, t.sway2} :
           own.level \in 0 .. 255 /\ own.cutoff \in 0 .. 255 /\ own.pitch \in 0 .. 255
    BY PatchAssumption
  <2> QED BY <2>1
<1>4. FirstOf(t, p, shift, chip) = FirstTick(f, p, shift, 1, chip)
  BY DEF FirstOf, FirstLfo
<1> HIDE DEF times, wave, phase
<1>5. Oscillates(f)
  BY <1>1, <1>2, <1>3, FreshOscillates
<1> HIDE DEF f
<1> QED BY <1>4, <1>5, FirstSwells

LEMMA SecondStarts ==
    ASSUME NEW t \in Patches, NEW chip \in Int, NEW shift
    PROVE  LET l == SecondOf(t, shift, chip) IN Oscillates(l) /\ Swollen(l)
<1> DEFINE times == SecondTimes(t)
           wave == WaveOf[t.flags2 % 16]
           phase == (t.flags2 \div 64) * 16384
           f == WithTimes(Fresh(wave, phase, chip), times, t.sway2)
<1>1. wave \in Waves
  <2>1. t.flags2 \in 0 .. 255
    BY PatchAssumption
  <2>2. t.flags2 % 16 \in 0 .. 15
    BY <2>1
  <2>3. \A i \in 0 .. 15 : WaveOf[i] \in Waves
    BY InputAssumption, Zenon
  <2> QED BY <2>2, <2>3
<1>2. times.pace \in Nat /\ times.fadeRate \in Nat
  BY TimesAreWords, 0 \in 0 .. 127
<1>3. /\ t.sway2.level \in 0 .. 255 /\ t.sway2.cutoff \in 0 .. 255
      /\ t.sway2.pitch \in 0 .. 255
  <2>1. \A own \in {t.sway1, t.sway2} :
           own.level \in 0 .. 255 /\ own.cutoff \in 0 .. 255 /\ own.pitch \in 0 .. 255
    BY PatchAssumption
  <2> QED BY <2>1
<1>4. SecondOf(t, shift, chip) = Swaying(f, shift, 1, chip)
  BY DEF SecondOf, SecondLfo
<1> HIDE DEF times, wave, phase
<1>5. Oscillates(f)
  BY <1>1, <1>2, <1>3, FreshOscillates
<1> HIDE DEF f
<1> QED BY <1>4, <1>5, SwayingSwells

-----------------------------------------------------------------------------
(* Portamento, tick by tick.                                               *)

\* The step stays below half of 24 bits as long as a tick is at most 127 long.
LEMMA GlideStepIsSmall ==
    ASSUME NEW time \in 0 .. 127, NEW elapsed \in Elapsed
    PROVE  GlideStep(time, elapsed) \in Nat /\ GlideStep(time, elapsed) < 8388608
<1>1. GlideRate[time] \in Word
  <2>1. GlideRate \in [0 .. 127 -> Word]
    BY VoicePitchAssumption
  <2> QED BY <2>1, Zenon
<1> DEFINE rate == GlideRate[time]
<1>2. rate \in Nat /\ rate <= 65535
  <2>1. rate \in Int /\ 0 <= rate /\ rate <= Top
    BY <1>1 DEF Word
  <2>2. Top = 65535
    BY SMT DEF Top, Bit16
  <2> QED BY <2>1, <2>2
<1>3. elapsed \in Nat /\ elapsed <= 127
  BY InputAssumption
<1> HIDE DEF rate
<1>4. elapsed * rate \in Nat /\ elapsed * rate <= 127 * rate
  <2>1. PICK d \in Nat : 127 = elapsed + d
    BY <1>3, 127 - elapsed \in Nat
  <2>2. 127 * rate = elapsed * rate + d * rate /\ d * rate \in Nat /\ elapsed * rate \in Nat
    BY <2>1, <1>2, <1>3
  <2> QED BY <2>2
<1>5. GlideStep(time, elapsed) = elapsed * rate
  BY DEF GlideStep, rate
<1> DEFINE x == elapsed * rate
<1> HIDE DEF x
<1>6. x \in Nat /\ x <= 127 * rate
  BY <1>4 DEF x
<1>7. x < 8388608
  BY <1>2, <1>6, SMT
<1> QED BY <1>5, <1>6, <1>7 DEF x

Far(offset) == offset \in Int /\ Magnitude(offset) <= HighestPitch

LEMMA PitchTickGlides ==
    ASSUME NEW v, "offset" \in DOMAIN v, Far(v.offset), NEW p, p.time \in 0 .. 127,
           NEW elapsed \in Elapsed
    PROVE  LET w == PitchTick(v, p, elapsed)
           IN "offset" \in DOMAIN w /\ Far(w.offset) /\ Glides(v.offset, w.offset)
<1> DEFINE offset == IF v.offset = 0 THEN 0 ELSE Glide(v.offset, GlideStep(p.time, elapsed))
           w == PitchTick(v, p, elapsed)
<1>1. DOMAIN Advance(v, elapsed) = DOMAIN v
  BY DEF Advance
<1>2. "offset" \in DOMAIN w /\ w.offset = offset
  BY <1>1 DEF PitchTick
<1> HIDE DEF w
<1>3. Glides(v.offset, offset) /\ offset \in Int
  <2>1. CASE v.offset = 0
    BY <2>1 DEF Glides
  <2>2. CASE v.offset # 0
    <3> DEFINE step == GlideStep(p.time, elapsed)
    <3>1. step \in Nat /\ step < 8388608
      BY GlideStepIsSmall
    <3>2. v.offset \in Int /\ -8388608 < v.offset /\ v.offset < 8388608
      BY SMT DEF Far, Magnitude, HighestPitch
    <3>3. offset = Glide(v.offset, step)
      BY <2>2
    <3> HIDE DEF step, offset
    <3>4. Glides(v.offset, offset)
      BY <3>1, <3>2, <3>3, GlideEndsAtZero
    <3>5. \A x \in Int : Signed24(x) \in Int
      BY SMT DEF Signed24, Bit24
    <3>6. \A x \in Int : Floor0(x) \in Int
      BY DEF Floor0, Larger
    <3>7. -v.offset - step \in Int /\ v.offset - step \in Int
      BY <3>1, <3>2
    <3>8. offset \in Int
      <4>1. /\ Floor0(Signed24(-v.offset - step)) \in Int
            /\ Floor0(Signed24(v.offset - step)) \in Int
        BY <3>5, <3>6, <3>7
      <4> QED BY <4>1, <3>3 DEF Glide
    <3> QED BY <3>4, <3>8
  <2> QED BY <2>1, <2>2
<1> HIDE DEF offset
<1>4. Far(offset)
  BY <1>3, SMT DEF Far, Glides, Magnitude, HighestPitch
<1> QED BY <1>2, <1>3, <1>4 DEF w

LEMMA PitchedGlides ==
    ASSUME NEW s, "offset" \in DOMAIN s.env, Far(s.env.offset), part.time \in 0 .. 127,
           NEW elapsed \in Elapsed
    PROVE  LET e == Pitched(s, elapsed)
           IN "offset" \in DOMAIN e /\ Far(e.offset) /\ Glides(s.env.offset, e.offset)
<1> DEFINE a == s.added["pitch"]   b == s.osc1.scaled[3]   c == s.added["pitch1"]
           d == s.osc1.out         f == s.osc2.scaled[3]   g == s.added["pitch2"]
           h == s.osc2.out
           v == [s.env EXCEPT !.detune = a, !.lfo1 = b, !.add1 = c, !.depth1 = d,
                              !.lfo2 = f, !.add2 = g, !.depth2 = h]
<1>1. Pitched(s, elapsed) = PitchTick(v, part, elapsed)
  BY DEF Pitched
<1> HIDE DEF a, b, c, d, f, g, h
<1>2. "offset" \in DOMAIN v /\ v.offset = s.env.offset
  OBVIOUS
<1> HIDE DEF v
<1> QED BY <1>1, <1>2, PitchTickGlides

-----------------------------------------------------------------------------
(* The voice's motion.                                                     *)

\* Both oscillators swell as their records say, the way to the key is one that
\* 24 bits hold, and the part's settings are bytes.
Moving ==
    /\ {"osc1", "osc2", "env"} \subseteq DOMAIN sound
    /\ Oscillates(sound.osc1) /\ Swollen(sound.osc1)
    /\ Oscillates(sound.osc2) /\ Swollen(sound.osc2)
    /\ "offset" \in DOMAIN sound.env /\ Far(sound.env.offset)
    /\ {"depth", "time"} \subseteq DOMAIN part
    /\ part.depth \in 0 .. 127 /\ part.time \in 0 .. 127
    /\ ticks \in Int /\ odd \in BOOLEAN

\* A note that starts.
LEMMA StruckMoves ==
    ASSUME NEW t \in Patches, NEW velocity, NEW chip \in Chip, NEW s,
           s = Struck(t, StartPart, velocity, chip)
    PROVE  /\ {"osc1", "osc2", "env"} \subseteq DOMAIN s
           /\ Oscillates(s.osc1) /\ Swollen(s.osc1)
           /\ Oscillates(s.osc2) /\ Swollen(s.osc2)
           /\ "offset" \in DOMAIN s.env /\ Far(s.env.offset)
<1> DEFINE c == Controlled([added |-> NothingAdded], StartPart.controls, StartPart.pressure)
           shift1 == c.added["rate1"]
           shift2 == c.added["rate2"]
<1>1. /\ {"osc1", "osc2", "env"} \subseteq DOMAIN s
      /\ s.osc1 = FirstOf(t, StartPart, shift1, chip)
      /\ s.osc2 = SecondOf(t, shift2, chip) /\ s.env = Envelope(t)
  BY DEF Struck
<1> HIDE DEF c, shift1, shift2
<1>2. chip \in Int /\ StartPart.depth \in 0 .. 127 /\ StartPart.lfoDelay \in 0 .. 127
  BY InputAssumption, PartAssumption
<1>3. Oscillates(s.osc1) /\ Swollen(s.osc1)
  BY <1>1, <1>2, FirstStarts
<1>4. Oscillates(s.osc2) /\ Swollen(s.osc2)
  BY <1>1, <1>2, SecondStarts
<1>5. "offset" \in DOMAIN Envelope(t) /\ Envelope(t).offset = t.glide
  BY DEF Envelope
<1>6. Far(t.glide)
  BY PatchAssumption DEF Far
<1> QED BY <1>1, <1>3, <1>4, <1>5, <1>6

\* A tick moves everything to its side.
LEMMA TickMoves ==
    ASSUME IInv, Moving, NEW elapsed \in Elapsed, Tick(elapsed)
    PROVE  /\ Moving'
           /\ Swells(sound.osc1, sound'.osc1) /\ Nears(sound.osc1, sound'.osc1)
           /\ Swells(sound.osc2, sound'.osc2) /\ Nears(sound.osc2, sound'.osc2)
           /\ Glides(sound.env.offset, sound'.env.offset)
<1>1. PICK chip \in Chip :
        LET c == Controlled(sound, part.controls, part.pressure)
            w == [c EXCEPT !.osc1 = FirstTick(@, part, c.added["rate1"], elapsed, chip),
                           !.osc2 = Swaying(@, c.added["rate2"], elapsed, chip)]
            pair == [osc1 |-> PairTick(w.second.osc1, w.osc1, part.depth),
                     osc2 |-> Following(w.second.osc2, w.osc2),
                     added |-> CopiedFrom(w.second, w).added]
        IN sound' = [w EXCEPT !.second = pair, !.level = Leveled(w, part, note.tone),
                              !.env = Pitched(w, elapsed)]
  BY DEF Tick
<1> DEFINE c == Controlled(sound, part.controls, part.pressure)
           shift1 == c.added["rate1"]
           shift2 == c.added["rate2"]
           osc1 == FirstTick(c.osc1, part, shift1, elapsed, chip)
           osc2 == Swaying(c.osc2, shift2, elapsed, chip)
           w == [c EXCEPT !.osc1 = osc1, !.osc2 = osc2]
           pair == [osc1 |-> PairTick(w.second.osc1, w.osc1, part.depth),
                    osc2 |-> Following(w.second.osc2, w.osc2),
                    added |-> CopiedFrom(w.second, w).added]
           level == Leveled(w, part, note.tone)
           env == Pitched(w, elapsed)
<1>2. sound' = [w EXCEPT !.second = pair, !.level = level, !.env = env]
  BY <1>1
<1>3. /\ DOMAIN c = DOMAIN sound
      /\ c.osc1 = sound.osc1 /\ c.osc2 = sound.osc2 /\ c.env = sound.env
  BY DEF Controlled
<1> HIDE DEF c, shift1, shift2
<1>4. chip \in Int /\ elapsed \in Nat
  BY InputAssumption
<1>5. /\ Oscillates(osc1) /\ Swollen(osc1)
      /\ Nears(sound.osc1, osc1) /\ Swells(sound.osc1, osc1)
  BY <1>3, <1>4, FirstSwells DEF Moving
<1>6. /\ Oscillates(osc2) /\ Swollen(osc2)
      /\ Nears(sound.osc2, osc2) /\ Swelled(sound.osc2, osc2)
  BY <1>3, <1>4, SwayingSwells DEF Moving
<1>7. Swells(sound.osc2, osc2)
  BY <1>6 DEF Moving, Swelled, Swells
<1> HIDE DEF osc1, osc2
<1>8. /\ DOMAIN w = DOMAIN sound
      /\ w.osc1 = osc1 /\ w.osc2 = osc2 /\ w.env = sound.env
  BY <1>3 DEF Moving
<1> HIDE DEF w
<1>9. "offset" \in DOMAIN env /\ Far(env.offset) /\ Glides(sound.env.offset, env.offset)
  <2>1. "offset" \in DOMAIN w.env /\ Far(w.env.offset) /\ part.time \in 0 .. 127
    BY <1>8 DEF Moving
  <2> QED BY <1>8, <2>1, PitchedGlides
<1> HIDE DEF pair, level, env
<1>10. /\ DOMAIN sound' = DOMAIN sound
       /\ sound'.osc1 = osc1 /\ sound'.osc2 = osc2 /\ sound'.env = env
  BY <1>2, <1>8 DEF Moving
<1>11. part' = part /\ odd' = odd /\ ticks' = ticks + 1
  BY DEF Tick
<1>12. Moving'
  BY <1>5, <1>6, <1>9, <1>10, <1>11 DEF Moving
<1> QED BY <1>5, <1>6, <1>7, <1>9, <1>10, <1>12

\* A tie gives the voice a new second oscillator, a loop another step.
LEMMA OthersMove ==
    ASSUME IInv, Moving, Tie \/ Loop PROVE Moving'
<1>1. part' = part /\ odd' = ~odd /\ ticks' = 2
  BY DEF Tie, Loop
<1>2. ticks' \in Int /\ odd' \in BOOLEAN
  BY <1>1 DEF Moving
<1>3. CASE Tie
  <2>1. PICK chip \in Chip : sound' = Tied(sound, note.tone, chip)
    BY <1>3 DEF Tie
  <2> DEFINE at == Addresses(Sample, TRUE)
             mode == Mode(at, Sample, 3)
             shift == sound.added["rate2"]
             osc2 == SecondOf(note.tone, shift, chip)
             v == [sound EXCEPT !.osc2 = osc2, !.at = at, !.mode = mode]
  <2>2. sound' = Parked(v)
    BY <2>1 DEF Tied
  <2>3. Oscillates(osc2) /\ Swollen(osc2)
    <3>1. note.tone \in Patches /\ chip \in Int
      BY InputAssumption DEF IInv, Settled
    <3> HIDE DEF shift
    <3> QED BY <3>1, SecondStarts
  <2> HIDE DEF at, mode, osc2
  <2>4. DOMAIN v = DOMAIN sound /\ v.osc1 = sound.osc1 /\ v.osc2 = osc2 /\ v.env = sound.env
    BY DEF Moving
  <2> HIDE DEF v
  <2>5. /\ DOMAIN sound' = DOMAIN sound
        /\ sound'.osc1 = sound.osc1 /\ sound'.osc2 = osc2 /\ sound'.env = sound.env
    BY <2>2, <2>4 DEF Parked
  <2> QED BY <1>1, <1>2, <2>3, <2>5 DEF Moving
<1>4. CASE Loop
  <2> DEFINE key == note.tone.loopKey
             env == Looped(sound.env, key)
  <2>1. sound' = [sound EXCEPT !.env = env]
    BY <1>4 DEF Loop
  <2> HIDE DEF key
  <2>2. "offset" \in DOMAIN env /\ env.offset = sound.env.offset
    BY DEF Looped, Moving
  <2> HIDE DEF env
  <2>3. /\ DOMAIN sound' = DOMAIN sound
        /\ sound'.osc1 = sound.osc1 /\ sound'.osc2 = sound.osc2 /\ sound'.env = env
    BY <2>1 DEF Moving
  <2> QED BY <1>1, <1>2, <2>2, <2>3 DEF Moving
<1> QED BY <1>3, <1>4

LEMMA TurnMoves == IInv /\ Moving /\ Turn => Moving'
<1> SUFFICES ASSUME IInv, Moving, Turn PROVE Moving'
  OBVIOUS
<1>1. sound' = sound /\ ticks' = ticks /\ odd' = odd
  BY DEF Turn
<1>2. \/ \E x \in Pressures : part' = [part EXCEPT !.pressure = x]
      \/ \E x \in Volumes : part' = [part EXCEPT !.volume = x]
      \/ \E x \in Depths : part' = [part EXCEPT !.depth = x]
      \/ \E x \in Settings : part' = [part EXCEPT !.setting = x]
  BY DEF Turn
<1>3. \A x \in Depths : x \in 0 .. 127
  BY InputAssumption
<1>4. {"depth", "time"} \subseteq DOMAIN part /\ part.depth \in 0 .. 127 /\ part.time \in 0 .. 127
  BY DEF Moving
<1>5. part'.depth \in 0 .. 127 /\ part'.time = part.time /\ DOMAIN part' = DOMAIN part
  <2>1. ASSUME NEW x \in Pressures, part' = [part EXCEPT !.pressure = x]
        PROVE  part'.depth = part.depth /\ part'.time = part.time /\ DOMAIN part' = DOMAIN part
    BY <1>4, <2>1
  <2>2. ASSUME NEW x \in Volumes, part' = [part EXCEPT !.volume = x]
        PROVE  part'.depth = part.depth /\ part'.time = part.time /\ DOMAIN part' = DOMAIN part
    BY <1>4, <2>2
  <2>3. ASSUME NEW x \in Depths, part' = [part EXCEPT !.depth = x]
        PROVE  part'.depth = x /\ part'.time = part.time /\ DOMAIN part' = DOMAIN part
    BY <1>4, <2>3
  <2>4. ASSUME NEW x \in Settings, part' = [part EXCEPT !.setting = x]
        PROVE  part'.depth = part.depth /\ part'.time = part.time /\ DOMAIN part' = DOMAIN part
    BY <1>4, <2>4
  <2> QED BY <1>2, <1>3, <1>4, <2>1, <2>2, <2>3, <2>4
<1>6. /\ {"depth", "time"} \subseteq DOMAIN part'
      /\ part'.depth \in 0 .. 127 /\ part'.time \in 0 .. 127
  BY <1>4, <1>5
<1> QED BY <1>1, <1>6 DEF Moving

THEOREM VoiceMoves == SoundSpec => []Moving
<1>1. SoundInit => Moving
  <2> SUFFICES ASSUME SoundInit PROVE Moving
    OBVIOUS
  <2>1. PICK t \in Patches, velocity \in Velocities, chip \in Chip :
           sound = Struck(t, part, velocity, chip)
    BY DEF SoundInit
  <2>2. part = StartPart /\ ticks = 0 /\ odd = FALSE
    BY DEF SoundInit
  <2>3. /\ {"depth", "time"} \subseteq DOMAIN StartPart
        /\ StartPart.depth \in 0 .. 127 /\ StartPart.time \in 0 .. 127
    BY PartAssumption
  <2>4. sound = Struck(t, StartPart, velocity, chip)
    BY <2>1, <2>2
  <2>5. /\ {"osc1", "osc2", "env"} \subseteq DOMAIN sound
        /\ Oscillates(sound.osc1) /\ Swollen(sound.osc1)
        /\ Oscillates(sound.osc2) /\ Swollen(sound.osc2)
        /\ "offset" \in DOMAIN sound.env /\ Far(sound.env.offset)
    BY <2>4, StruckMoves
  <2>6. ticks \in Int
    BY <2>2
  <2>7. odd \in BOOLEAN
    BY <2>2, Zenon
  <2> QED BY <2>2, <2>3, <2>5, <2>6, <2>7 DEF Moving
<1>2. IInv /\ Moving /\ [SoundNext]_soundVars => Moving'
  <2> SUFFICES ASSUME IInv, Moving, [SoundNext]_soundVars PROVE Moving'
    OBVIOUS
  <2>1. ASSUME NEW t \in Patches, NEW velocity \in Velocities, Strike(t, velocity)
        PROVE  Moving'
    <3>1. PICK chip \in Chip : sound' = Struck(t, StartPart, velocity, chip)
      BY <2>1 DEF Strike
    <3>2. part' = StartPart /\ ticks' = 0 /\ odd' = ~odd
      BY <2>1 DEF Strike
    <3>3. /\ {"depth", "time"} \subseteq DOMAIN StartPart
          /\ StartPart.depth \in 0 .. 127 /\ StartPart.time \in 0 .. 127
      BY PartAssumption
    <3>4. /\ {"osc1", "osc2", "env"} \subseteq DOMAIN sound'
          /\ Oscillates(sound'.osc1) /\ Swollen(sound'.osc1)
          /\ Oscillates(sound'.osc2) /\ Swollen(sound'.osc2)
          /\ "offset" \in DOMAIN sound'.env /\ Far(sound'.env.offset)
      BY <3>1, StruckMoves
    <3>5. ticks' \in Int /\ odd' \in BOOLEAN
      BY <3>2 DEF Moving
    <3> QED BY <3>2, <3>3, <3>4, <3>5 DEF Moving
  <2>2. ASSUME NEW elapsed \in Elapsed, Tick(elapsed) PROVE Moving'
    BY <2>2, TickMoves
  <2>3. CASE Tie \/ Loop
    BY <2>3, OthersMove
  <2>4. CASE Turn
    BY <2>4, TurnMoves
  <2>5. CASE UNCHANGED soundVars
    BY <2>5 DEF soundVars, Moving
  <2> QED BY <2>1, <2>2, <2>3, <2>4, <2>5 DEF SoundNext
<1> QED BY <1>1, <1>2, VoiceKept, PTL DEF SoundSpec

\* Only a tick of the same note counts ticks.
LEMMA OnlyTicksTick ==
    ASSUME Moving, [SoundNext]_soundVars, Ticks
    PROVE  \E elapsed \in Elapsed : Tick(elapsed)
<1>1. odd' = odd /\ odd' # ~odd /\ ticks' # ticks
  BY DEF Ticks, Moving
<1> QED BY <1>1 DEF SoundNext, Strike, Tie, Loop, Turn, soundVars

\* For every tone, part and length of a tick: delay and swell go on only, and
\* a swell whose depth is left alone never falls back.
THEOREM OnsetKeepsOn == SoundSpec => OnsetNeverReturns
<1>1. ASSUME IInv, Moving, [SoundNext]_soundVars
      PROVE  [Ticks => /\ Swells(sound.osc1, sound'.osc1)
                       /\ Swells(sound.osc2, sound'.osc2)]_soundVars
  BY <1>1, OnlyTicksTick, TickMoves
<1> QED BY <1>1, VoiceKept, VoiceMoves, PTL DEF SoundSpec, OnsetNeverReturns

\* For every tone, part and length of a tick up to 127: the portamento stops at
\* its key, and the random waves at their targets.
THEOREM AllEndsWhereItGoes == SoundSpec => NothingOvershoots
<1>1. ASSUME IInv, Moving, [SoundNext]_soundVars
      PROVE  [Ticks => /\ Glides(sound.env.offset, sound'.env.offset)
                       /\ Nears(sound.osc1, sound'.osc1)
                       /\ Nears(sound.osc2, sound'.osc2)]_soundVars
  BY <1>1, OnlyTicksTick, TickMoves
<1> QED BY <1>1, VoiceKept, VoiceMoves, PTL DEF SoundSpec, NothingOvershoots

-----------------------------------------------------------------------------
(* The pitch of a voice and the step it is read with.                      *)

\* Beside the swell: what an oscillator needs for its wave to be a number.
Runs(l) ==
    /\ {"phase", "rate", "ownRate", "shift", "out"} \subseteq DOMAIN l
    /\ l.phase \in Int /\ l.out \in Int /\ l.shift \in Int
    /\ l.rate \in 0 .. 127 /\ l.ownRate \in Int

LEMMA RateIsWhole ==
    ASSUME NEW index \in 0 .. 127, NEW shift \in Int PROVE Rate(index, shift) \in Int
<1>1. RateOf[index] \in Int
  <2>1. RateOf \in [0 .. 127 -> 0 .. FastestRate]
    BY VoiceLfoAssumption
  <2>2. \A x \in 0 .. FastestRate : x \in Int
    OBVIOUS
  <2>3. RateOf[index] \in 0 .. FastestRate
    BY <2>1, Zenon
  <2> QED BY <2>2, <2>3
<1> DEFINE sum == (RateOf[index] + shift) % Bit16
<1>2. sum \in Int
  BY <1>1 DEF Bit16
<1>3. Rate(index, shift) \in {sum, 0, FastestRate}
  BY DEF Rate
<1> QED BY <1>2, <1>3 DEF FastestRate

LEMMA SineValues == \A i \in 0 .. 129 : SineOf[i] \in Int
<1>1. SineOf \in [0 .. 129 -> 0 .. 255]
  BY VoiceLfoAssumption
<1> SUFFICES ASSUME NEW i \in 0 .. 129 PROVE SineOf[i] \in Int
  OBVIOUS
<1>2. SineOf[i] \in 0 .. 255
  BY <1>1, Zenon
<1>3. \A x \in 0 .. 255 : x \in Int
  OBVIOUS
<1> QED BY <1>2, <1>3, Zenon

LEMMA SineIsWhole ==
    ASSUME NEW phase \in Int, 0 <= phase, phase < 65536 PROVE Sine(phase) \in Int
<1> DEFINE far == Magnitude(phase - 32768)
           i == far \div 256
<1>1. far \in Int /\ 0 <= far /\ far <= 32768
  BY DEF Magnitude
<1> HIDE DEF far
<1>2. i \in Int /\ 0 <= i /\ i <= 128 /\ far % 256 \in Int
  BY <1>1
<1> HIDE DEF i
<1>3. SineOf[i] \in Int /\ SineOf[i + 1] \in Int
  <2>1. i \in 0 .. 129 /\ i + 1 \in 0 .. 129
    BY <1>2
  <2> QED BY <2>1, SineValues
<1>4. HalfWave(far) = (SineOf[i] * 256 + (far % 256) * (SineOf[i + 1] - SineOf[i])) \div 2
  BY DEF HalfWave, Bit8, i
<1> DEFINE x == SineOf[i]   y == SineOf[i + 1]   z == far % 256
<1>5. x \in Int /\ y \in Int /\ z \in Int /\ HalfWave(far) = (x * 256 + z * (y - x)) \div 2
  BY <1>2, <1>3, <1>4
<1> HIDE DEF x, y, z
<1> DEFINE whole == x * 256 + z * (y - x)
<1>6. whole \in Int /\ HalfWave(far) = whole \div 2
  BY <1>5
<1> HIDE DEF whole
<1>7. HalfWave(far) \in Int
  BY <1>6
<1> DEFINE w == HalfWave(far)
<1>8. Sine(phase) = w \/ Sine(phase) = -w
  BY DEF Sine, far
<1> HIDE DEF w
<1>9. w \in Int
  BY <1>7 DEF w
<1> QED BY <1>8, <1>9

LEMMA WaveRuns ==
    ASSUME NEW l, Oscillates(l), Runs(l), NEW elapsed \in Nat, NEW chip \in Int
    PROVE  Runs(Wave(l, elapsed, chip))
<1> DEFINE m == Wave(l, elapsed, chip)
           step == elapsed * Rate(l.rate, l.shift)
<1>1. step \in Int /\ l.phase \in Int
  <2>1. Rate(l.rate, l.shift) \in Int /\ l.phase \in Int
    BY RateIsWhole DEF Runs
  <2> HIDE DEF m
  <2> QED BY <2>1
<1>2. m = IF l.wave = "sine" THEN [l EXCEPT !.phase = (step + l.phase) % Bit16,
                                            !.out = Sine((step + l.phase) % Bit16)]
          ELSE Random(l, step, chip, SlewStep[l.wave])
  BY DEF Wave
<1> HIDE DEF step, m
<1>3. CASE l.wave = "sine"
  <2> DEFINE there == (step + l.phase) % 65536
             out == Sine(there)
  <2>1. there \in Int /\ 0 <= there /\ there < 65536
    BY <1>1
  <2>2. out \in Int
    BY <2>1, SineIsWhole
  <2>3. m = [l EXCEPT !.phase = there, !.out = out]
    BY <1>2, <1>3 DEF Bit16
  <2> HIDE DEF there, out
  <2> QED BY <2>1, <2>2, <2>3 DEF Runs, m
<1>4. CASE l.wave # "sine"
  <2> DEFINE by == SlewStep[l.wave]
             there == 2 * step + l.phase
             phase == there % 65536
             target == IF there >= Bit16 THEN chip ELSE l.target
             level == Slew(l.slewed, target, by)
  <2>1. m = [l EXCEPT !.phase = phase, !.target = target, !.slewed = level, !.out = level]
    BY <1>2, <1>4 DEF Random, Bit16
  <2>2. by \in Nat
    <3>1. l.wave \in {"slow", "fast"}
      BY <1>4 DEF Oscillates, Waves
    <3>2. SlewStep \in [{"slow", "fast"} -> Positive]
      BY VoiceLfoAssumption
    <3>3. SlewStep[l.wave] \in Positive
      BY <3>1, <3>2, Zenon
    <3> QED BY <3>3 DEF Positive
  <2>3. phase \in Int
    BY <1>1
  <2>4. target \in Int /\ l.slewed \in Int
    <3>1. l.target \in Int /\ l.slewed \in Int
      BY DEF Oscillates
    <3> HIDE DEF there
    <3> QED BY <3>1, Zenon
  <2> HIDE DEF there, by, phase, target
  <2>5. level \in Int
    BY <2>2, <2>4 DEF Slew, Smaller, Larger
  <2> HIDE DEF level
  <2> QED BY <2>1, <2>3, <2>5 DEF Runs, m
<1> QED BY <1>3, <1>4 DEF m

\* Delay and swell leave all of it alone.
LEMMA OnsetRuns ==
    ASSUME NEW l, Runs(l), NEW elapsed PROVE Runs(Onset(l, elapsed))
<1> DEFINE there == IF l.wait = Top THEN Top ELSE Delayed(l, elapsed)
           m == [l EXCEPT !.wait = there]
<1>1. Onset(l, elapsed) = IF there = Top THEN FadeIn(m, elapsed) ELSE m
  BY DEF Onset
<1> HIDE DEF there
<1>2. Runs(m)
  BY DEF Runs
<1> HIDE DEF m
<1> DEFINE grown == FadedIn(m, elapsed)
           shares == [i \in 1 .. 3 |-> Scaled(m.depths[i], grown)]
<1>3. FadeIn(m, elapsed) = IF m.fade = Top THEN [m EXCEPT !.scaled = m.depths]
                           ELSE [m EXCEPT !.fade = grown, !.scaled = shares]
  BY DEF FadeIn
<1> HIDE DEF grown, shares
<1>4. Runs(FadeIn(m, elapsed))
  <2>1. CASE m.fade = Top
    BY <1>2, <1>3, <2>1 DEF Runs
  <2>2. CASE m.fade # Top
    BY <1>2, <1>3, <2>2 DEF Runs
  <2> QED BY <2>1, <2>2
<1> QED BY <1>1, <1>2, <1>4

LEMMA SwayingRuns ==
    ASSUME NEW l, Oscillates(l), Runs(l), NEW elapsed \in Nat, NEW chip \in Int,
           NEW shift \in Int
    PROVE  Runs(Swaying(l, shift, elapsed, chip))
<1> DEFINE k == [l EXCEPT !.shift = shift]
           n == Onset(k, elapsed)
<1>1. Swaying(l, shift, elapsed, chip) = Wave(n, elapsed, chip)
  BY DEF Swaying, LfoTick
<1>2. DOMAIN k = DOMAIN l /\ \A f \in Fields \ {"shift"} : k[f] = l[f]
  BY DEF Oscillates, Fields
<1>3. Runs(k)
  BY DEF Runs
<1> HIDE DEF k
<1>4. /\ k.wave = l.wave /\ k.target = l.target /\ k.slewed = l.slewed /\ k.wait = l.wait
      /\ k.fade = l.fade /\ k.pace = l.pace /\ k.fadeRate = l.fadeRate
      /\ k.depths = l.depths /\ k.scaled = l.scaled /\ k.pitchDepth = l.pitchDepth
  BY <1>2 DEF Fields
<1>5. Oscillates(k)
  BY <1>2, <1>4 DEF Oscillates
<1>6. Oscillates(n) /\ Runs(n)
  BY <1>3, <1>5, OnsetSwells, OnsetRuns
<1> HIDE DEF n
<1> QED BY <1>1, <1>6, WaveRuns

LEMMA FirstRuns ==
    ASSUME NEW l, Oscillates(l), Runs(l), NEW elapsed \in Nat, NEW chip \in Int,
           NEW shift \in Int, NEW p, p.depth \in 0 .. 127, p.rate \in Int
    PROVE  Runs(FirstTick(l, p, shift, elapsed, chip))
<1> DEFINE depth == Depth(l.pitchDepth, p.depth)
           rate == RateIndex(l.ownRate, p.rate)
           k == [l EXCEPT !.rate = rate, !.depths[3] = depth]
<1>1. FirstTick(l, p, shift, elapsed, chip) = Swaying(k, shift, elapsed, chip)
  BY DEF FirstTick
<1>2. depth \in Int
  BY DepthIsWhole DEF Oscillates
<1>3. rate \in 0 .. 127
  BY DEF Runs, RateIndex, Smaller, Floor0, Larger
<1> HIDE DEF depth, rate
<1>4. /\ DOMAIN k = DOMAIN l /\ k.depths = [l.depths EXCEPT ![3] = depth]
      /\ \A f \in Fields \ {"rate", "depths"} : k[f] = l[f]
  BY DEF Oscillates, Fields
<1>5. Runs(k)
  BY <1>3 DEF Runs
<1> HIDE DEF k
<1>6. /\ k.wave = l.wave /\ k.target = l.target /\ k.slewed = l.slewed /\ k.wait = l.wait
      /\ k.fade = l.fade /\ k.pace = l.pace /\ k.fadeRate = l.fadeRate
      /\ k.scaled = l.scaled /\ k.pitchDepth = l.pitchDepth
  BY <1>4 DEF Fields
<1>7. k.depths \in [1 .. 3 -> Int]
  BY <1>2, <1>4 DEF Oscillates
<1>8. Oscillates(k)
  BY <1>4, <1>6, <1>7 DEF Oscillates
<1> QED BY <1>1, <1>5, <1>8, SwayingRuns

\* Records as notes start them.
LEMMA FreshRuns ==
    ASSUME NEW wave, NEW phase \in Int, NEW chip, NEW times, times.rate \in 0 .. 127, NEW own
    PROVE  Runs(WithTimes(Fresh(wave, phase, chip), times, own))
<1> DEFINE f == Fresh(wave, phase, chip)
           l == WithTimes(f, times, own)
<1>1. f.phase = phase /\ f.out = 0
  BY DEF Fresh
<1> HIDE DEF f
<1>2. /\ {"phase", "rate", "ownRate", "shift", "out"} \subseteq DOMAIN l
      /\ l.phase = f.phase /\ l.out = f.out /\ l.shift = 0
      /\ l.rate = times.rate /\ l.ownRate = times.rate
  BY DEF WithTimes
<1> HIDE DEF l
<1>3. l.rate \in Int
  BY <1>2
<1> QED BY <1>1, <1>2, <1>3 DEF Runs, l, f

LEMMA FirstIsRunning ==
    ASSUME NEW t \in Patches, NEW chip \in Int, NEW shift \in Int,
           NEW p, p.depth \in 0 .. 127, p.lfoDelay \in 0 .. 127, p.rate \in Int
    PROVE  Runs(FirstOf(t, p, shift, chip))
<1> DEFINE times == FirstTimes(t, p.lfoDelay)
           wave == WaveOf[t.flags1 % 16]
           phase == (t.flags1 \div 64) * 16384
           f == WithTimes(Fresh(wave, phase, chip), times, t.sway1)
<1>1. wave \in Waves
  <2>1. t.flags1 \in 0 .. 255
    BY PatchAssumption
  <2>2. t.flags1 % 16 \in 0 .. 15
    BY <2>1
  <2>3. \A i \in 0 .. 15 : WaveOf[i] \in Waves
    BY InputAssumption, Zenon
  <2> QED BY <2>2, <2>3
<1>2. times.pace \in Nat /\ times.fadeRate \in Nat
  BY TimesAreWords
<1>3. /\ t.sway1.level \in 0 .. 255 /\ t.sway1.cutoff \in 0 .. 255
      /\ t.sway1.pitch \in 0 .. 255
  <2>1. \A own \in {t.sway1, t.sway2} :
           own.level \in 0 .. 255 /\ own.cutoff \in 0 .. 255 /\ own.pitch \in 0 .. 255
    BY PatchAssumption
  <2> QED BY <2>1
<1>4. FirstOf(t, p, shift, chip) = FirstTick(f, p, shift, 1, chip)
  BY DEF FirstOf, FirstLfo
<1>5. times.rate \in 0 .. 127 /\ phase \in Int
  <2>1. t.rate1 \in 0 .. 127 /\ t.flags1 \in 0 .. 255
    BY PatchAssumption
  <2> QED BY <2>1 DEF FirstTimes
<1> HIDE DEF times, wave, phase
<1>6. Runs(f)
  BY <1>5, FreshRuns
<1>7. Oscillates(f)
  BY <1>1, <1>2, <1>3, FreshOscillates
<1> HIDE DEF f
<1> QED BY <1>4, <1>6, <1>7, FirstRuns

LEMMA SecondIsRunning ==
    ASSUME NEW t \in Patches, NEW chip \in Int, NEW shift \in Int
    PROVE  Runs(SecondOf(t, shift, chip))
<1> DEFINE times == SecondTimes(t)
           wave == WaveOf[t.flags2 % 16]
           phase == (t.flags2 \div 64) * 16384
           f == WithTimes(Fresh(wave, phase, chip), times, t.sway2)
<1>1. wave \in Waves
  <2>1. t.flags2 \in 0 .. 255
    BY PatchAssumption
  <2>2. t.flags2 % 16 \in 0 .. 15
    BY <2>1
  <2>3. \A i \in 0 .. 15 : WaveOf[i] \in Waves
    BY InputAssumption, Zenon
  <2> QED BY <2>2, <2>3
<1>2. times.pace \in Nat /\ times.fadeRate \in Nat
  BY TimesAreWords, 0 \in 0 .. 127
<1>3. /\ t.sway2.level \in 0 .. 255 /\ t.sway2.cutoff \in 0 .. 255
      /\ t.sway2.pitch \in 0 .. 255
  <2>1. \A own \in {t.sway1, t.sway2} :
           own.level \in 0 .. 255 /\ own.cutoff \in 0 .. 255 /\ own.pitch \in 0 .. 255
    BY PatchAssumption
  <2> QED BY <2>1
<1>4. SecondOf(t, shift, chip) = Swaying(f, shift, 1, chip)
  BY DEF SecondOf, SecondLfo
<1>5. times.rate \in 0 .. 127 /\ phase \in Int
  <2>1. t.rate2 \in 0 .. 127 /\ t.flags2 \in 0 .. 255
    BY PatchAssumption
  <2> QED BY <2>1 DEF SecondTimes
<1> HIDE DEF times, wave, phase
<1>6. Runs(f)
  BY <1>5, FreshRuns
<1>7. Oscillates(f)
  BY <1>1, <1>2, <1>3, FreshOscillates
<1> HIDE DEF f
<1> QED BY <1>4, <1>6, <1>7, SwayingRuns

\* What controllers add to pitch, level, vibrato and rate is a whole number.
Whole(added) ==
    \A d \in {"pitch", "level", "pitch1", "pitch2", "rate1", "rate2"} : added[d] \in Int

LEMMA ControlledIsWhole ==
    ASSUME NEW v, "added" \in DOMAIN v, NEW pressure \in Int
    PROVE  Whole(Controlled(v, StartPart.controls, pressure).added)
<1> DEFINE c == StartPart.controls
<1>2. /\ PitchSum(c, pressure) \in Int /\ LevelSum(c, pressure) \in Int
      /\ Rate1Sum(c, pressure) \in Int /\ Rate2Sum(c, pressure) \in Int
      /\ Pitch1Sum(c, pressure) \in Int /\ Pitch2Sum(c, pressure) \in Int
  BY PartSumsAreWhole
<1> HIDE DEF c
<1>3. ASSUME NEW sum \in Int
      PROVE  /\ PitchAdded(sum) \in Int /\ Pitch1Added(sum) \in Int /\ Pitch2Added(sum) \in Int
             /\ Rate1Added(sum) \in Int /\ Rate2Added(sum) \in Int
             /\ LevelAdded(sum) \in Int
  <2>1. \A limit, scale, factor \in Nat : Limited(sum, limit, scale, factor) \in Int
    <3> TAKE limit, scale, factor \in Nat
    <3> QED BY LimitedIsLimited
  <2> QED BY <2>1 DEF PitchAdded, LevelAdded, Pitch1Added, Pitch2Added, Rate1Added, Rate2Added,
                      PitchLimit, CutoffLimit, SwayLimit
<1> DEFINE added == Controlled(v, c, pressure).added
<1>4. /\ added["pitch"] = PitchAdded(PitchSum(c, pressure))
      /\ added["level"] = LevelAdded(LevelSum(c, pressure))
      /\ added["rate1"] = Rate1Added(Rate1Sum(c, pressure))
      /\ added["rate2"] = Rate2Added(Rate2Sum(c, pressure))
      /\ added["pitch1"] = Pitch1Added(Pitch1Sum(c, pressure))
      /\ added["pitch2"] = Pitch2Added(Pitch2Sum(c, pressure))
  BY DEF Controlled
<1> HIDE DEF added
<1>5. Whole(added)
  BY <1>2, <1>3, <1>4 DEF Whole
<1> QED BY <1>5 DEF added, c

\* A shift by less than a word divides by a positive number.
LEMMA PowersAreWhole ==
    ASSUME NEW q \in Nat, q <= 15 PROVE 2 ^ q \in Nat /\ 2 ^ q > 0
<1>1. CASE q = 0
  BY <1>1
<1>2. CASE q = 1
  BY <1>2
<1>3. CASE q = 2
  BY <1>3
<1>4. CASE q = 3
  BY <1>4
<1>5. CASE q = 4
  BY <1>5
<1>6. CASE q = 5
  BY <1>6
<1>7. CASE q = 6
  BY <1>7
<1>8. CASE q = 7
  BY <1>8
<1>9. CASE q = 8
  BY <1>9
<1>10. CASE q = 9
  BY <1>10
<1>11. CASE q = 10
  BY <1>11
<1>12. CASE q = 11
  BY <1>12
<1>13. CASE q = 12
  BY <1>13
<1>14. CASE q = 13
  BY <1>14
<1>15. CASE q = 14
  BY <1>15
<1>16. CASE q = 15
  BY <1>16
<1> QED BY <1>1, <1>2, <1>3, <1>4, <1>5, <1>6, <1>7, <1>8,
          <1>9, <1>10, <1>11, <1>12, <1>13, <1>14, <1>15, <1>16

\* The beat of the middle setting is none, since no unit of it is zero: a note
\* starts with that setting and no beat (pcm_fraction_div.cpp:248).
LEMMA MiddleIsStill == ASSUME NEW key \in Int PROVE Beat(128, key) = 0
<1> DEFINE d == key - BeatKey
           unit == IF d < 0 THEN BeatBelow(d) ELSE BeatAbove(d)
<1>1. d \in Int
  BY DEF BeatKey
<1>2. Beat(128, key) =
         WithSign(128 < 128, IF Magnitude(128 - 128) >= unit THEN 32767
                             ELSE Smaller(Fraction(Magnitude(128 - 128), unit), 32767))
  BY DEF Beat
<1> HIDE DEF d
<1>4. ASSUME NEW x \in Int, 0 <= x, x < Octave PROVE Ratio(x) \in Nat /\ Ratio(x) # 0
  <2>1. x \in 0 .. Octave - 1
    <3>1. Octave \in Int
      BY DEF Octave
    <3> QED BY <1>4, <3>1
  <2>2. Ratio(x) # 0
    BY <2>1, RatioAssumption
  <2>3. Ratio(x) \in Nat
    <3> DEFINE i == x \div 256   j == x % 256
    <3>1. i \in Int /\ 0 <= i /\ i <= 46 /\ j \in Int /\ 0 <= j /\ j <= 255
      BY <1>4 DEF Octave
    <3> HIDE DEF i, j
    <3>2. i \in 0 .. 46 /\ j \in 0 .. 255
      BY <3>1
    <3>3. Fine[j] \in Word /\ Coarse[i] \in Word
      <4>1. Fine \in [0 .. 255 -> Word] /\ Coarse \in [0 .. 46 -> Word]
        BY VoicePitchAssumption
      <4> QED BY <3>2, <4>1, Zenon
    <3> DEFINE a == Fine[j]   c == Coarse[i]   h == High(a, c)
    <3>4. a \in Nat /\ c \in Nat
      BY <3>3 DEF Word
    <3>5. h \in Nat
      <4> DEFINE p == a * c
      <4>1. h = p \div 65536
        BY <3>4, HighIsProduct DEF Bit16
      <4>2. p \in Nat
        BY <3>4
      <4> HIDE DEF p, h
      <4> QED BY <4>1, <4>2
    <3>6. Ratio(x) = (c + h \div 64) % 65536
      BY DEF Ratio, i, j, Bit8, Bit16
    <3> HIDE DEF a, c, h
    <3> DEFINE s == c + h \div 64
    <3>7. s \in Int
      BY <3>4, <3>5
    <3> HIDE DEF s
    <3>8. s % 65536 \in Nat
      BY <3>7
    <3> QED BY <3>6, <3>8 DEF s
  <2> QED BY <2>2, <2>3
<1>5. unit \in Int /\ unit > 0
  <2>1. CASE d < 0
    <3> DEFINE w == ShiftRight(Ratio(FloorSplit(d).part), FloorSplit(d).octaves)
    <3>1. /\ FloorSplit(d).octaves = -(d \div 12000) /\ FloorSplit(d).part = d % 12000
          /\ -(d \div 12000) > 0 /\ d % 12000 \in Int /\ 0 <= d % 12000 /\ d % 12000 < 12000
      BY <1>1, <2>1, SplitIsFloor DEF Octave
    <3>2. w \in Nat
      <4> DEFINE r == Ratio(d % 12000)   q == -(d \div 12000)
      <4>1. r \in Nat
        BY <1>4, <3>1 DEF Octave
      <4>2. w = IF q > 15 THEN 0 ELSE r \div 2 ^ q
        BY <3>1 DEF ShiftRight
      <4>3. q \in Nat
        BY <1>1, <3>1
      <4> HIDE DEF r, q, w
      <4>4. q <= 15 => 2 ^ q \in Nat /\ 2 ^ q > 0
        BY <4>3, PowersAreWhole
      <4> DEFINE p == 2 ^ q
      <4> HIDE DEF p
      <4>5. q <= 15 => p \in Nat /\ p > 0 /\ w = r \div p
        BY <4>2, <4>3, <4>4 DEF p
      <4> QED BY <4>1, <4>2, <4>3, <4>5
    <3>3. unit = Larger(w, 1)
      BY <2>1, <3>1 DEF BeatBelow
    <3> HIDE DEF w, unit
    <3> QED BY <3>2, <3>3 DEF Larger
  <2>2. CASE ~(d < 0)
    <3>1. unit = IF d >= Octave THEN Top ELSE Ratio(d)
      BY <2>2 DEF BeatAbove
    <3>2. Top \in Nat /\ Top > 0
      BY DEF Top, Bit16
    <3> HIDE DEF unit
    <3>3. CASE d >= Octave
      BY <3>1, <3>2, <3>3
    <3>4. CASE ~(d >= Octave)
      <4>1. 0 <= d /\ d < Octave
        BY <1>1, <2>2, <3>4 DEF Octave
      <4>2. Ratio(d) \in Nat /\ Ratio(d) # 0
        BY <1>1, <1>4, <4>1
      <4> QED BY <3>1, <3>4, <4>2
    <3> QED BY <3>3, <3>4
  <2> QED BY <2>1, <2>2
<1> HIDE DEF unit
<1>6. Fraction(0, unit) = 0
  BY <1>5 DEF Fraction, Bit8
<1>7. Magnitude(128 - 128) = 0 /\ ~(128 < 128) /\ ~(0 >= unit)
  BY <1>5 DEF Magnitude
<1> QED BY <1>2, <1>6, <1>7 DEF Smaller, WithSign

\* The pitch part of a voice's record: numbers, and the beat of the setting and
\* the key in use unless the setting has been cleared.  The pitch is not far
\* below zero, which is what keeps the distance to the key within 24 bits.
PitchFields == {"phase", "left", "rate", "from", "to", "falling", "key", "offset", "pitch",
                "setting", "beat", "step", "detune", "lfo1", "add1", "depth1", "lfo2",
                "add2", "depth2"}
Lowest == -65535
Placed(e) ==
    /\ PitchFields \subseteq DOMAIN e
    /\ e.phase \in Nat /\ e.phase <= Top /\ e.left \in Nat /\ e.rate \in Nat
    /\ e.from \in Nat /\ e.to \in Nat /\ e.key \in Nat /\ e.key <= HighestPitch
    /\ e.pitch \in Int /\ e.pitch >= Lowest - HighestPitch
    /\ e.setting # 0 => e.beat = Beat(e.setting, e.key)
StepIsHalved(e) ==
    LET d == e.pitch - e.key - Octave
    IN d < 0 => e.step = Beating(ShiftRight(Ratio(d % Octave), -(d \div Octave)), e.beat)

LEMMA AdvanceStays ==
    ASSUME NEW v, Placed(v), NEW elapsed \in Nat
    PROVE  LET w == Advance(v, elapsed)
           IN /\ DOMAIN w = DOMAIN v
              /\ w.phase \in Nat /\ w.phase <= Top /\ w.left \in Nat
              /\ \A f \in PitchFields \ {"phase", "left"} : w[f] = v[f]
<1> DEFINE x == (elapsed + v.left) % 65536
           there == x * v.rate + v.phase
           w == Advance(v, elapsed)
<1>1. /\ v.left \in Nat /\ v.rate \in Nat /\ v.phase \in Nat /\ v.phase <= Top
      /\ PitchFields \subseteq DOMAIN v
  BY DEF Placed
<1>2. x \in Nat
  BY <1>1
<1>3. w = IF there < Bit16 THEN [v EXCEPT !.phase = there, !.left = 0]
          ELSE [v EXCEPT !.phase = Top, !.left = (there - Top) \div v.rate]
  BY DEF Advance, Bit16
<1> HIDE DEF x
<1> DEFINE by == x * v.rate
<1>4. by \in Nat /\ (v.rate = 0 => by = 0)
  BY <1>1, <1>2
<1>5. there = by + v.phase
  OBVIOUS
<1> HIDE DEF by, w
<1>6. CASE there < Bit16
  <2>1. w = [v EXCEPT !.phase = there, !.left = 0]
    BY <1>3, <1>6
  <2>2. there \in Nat /\ there <= Top
    BY <1>1, <1>4, <1>5, <1>6 DEF Top, Bit16
  <2> HIDE DEF there
  <2>3. DOMAIN w = DOMAIN v /\ \A f \in PitchFields \ {"phase", "left"} : w[f] = v[f]
    BY <1>1, <2>1
  <2>4. w.phase = there /\ w.left = 0
    BY <1>1, <2>1 DEF PitchFields
  <2>5. w.phase \in Nat /\ w.phase <= Top /\ w.left \in Nat
    BY <2>2, <2>4
  <2> QED BY <2>3, <2>5 DEF w
<1>7. CASE ~(there < Bit16)
  <2> DEFINE left == (there - Top) \div v.rate
  <2>1. w = [v EXCEPT !.phase = Top, !.left = left]
    BY <1>3, <1>7
  <2>2. v.rate # 0 /\ there - Top \in Nat
    BY <1>1, <1>4, <1>5, <1>7 DEF Top, Bit16
  <2>3. left \in Nat
    <3> DEFINE more == there - Top
    <3>1. more \in Nat /\ left = more \div v.rate
      BY <2>2
    <3> DEFINE rate == v.rate
    <3>2. rate \in Nat /\ rate > 0 /\ left = more \div rate
      BY <1>1, <2>2, <3>1
    <3> HIDE DEF more, left, rate
    <3> QED BY <3>1, <3>2
  <2>4. Top \in Nat /\ Top <= Top
    BY DEF Top, Bit16
  <2> HIDE DEF left
  <2> QED BY <1>1, <2>1, <2>3, <2>4 DEF PitchFields, w
<1> QED BY <1>6, <1>7

\* A falling segment may undershoot its end by what the lower words lose.
LEMMA BetweenIsAbove ==
    ASSUME NEW v, v.from \in Nat, v.to \in Nat, v.phase \in Nat, v.phase <= Top
    PROVE  Between(v) \in Int /\ Between(v) >= Lowest
<1> DEFINE up == (v.to - v.from) % 65536
           down == (v.from - v.to) % 65536
<1>1. up \in Nat /\ down \in Nat /\ down <= 65535
  OBVIOUS
<1>2. Between(v) = IF ~v.falling THEN v.from + High(up, v.phase)
                   ELSE v.from - High(down, v.phase)
  BY DEF Between, Bit16
<1> HIDE DEF up, down
<1>3. /\ High(up, v.phase) \in Nat /\ High(down, v.phase) \in Nat
      /\ High(down, v.phase) <= down
  BY <1>1, HighIsShare
<1> DEFINE h == High(up, v.phase)   k == High(down, v.phase)
<1>4. h \in Nat /\ k \in Nat /\ k <= 65535
  BY <1>1, <1>3
<1>5. Between(v) = v.from + h \/ Between(v) = v.from - k
  BY <1>2
<1> HIDE DEF h, k
<1> QED BY <1>4, <1>5 DEF Lowest

LEMMA SwingIsWhole ==
    ASSUME NEW own \in Int, NEW added \in Int PROVE Swing(own, added) \in Int
<1>1. (-own - added) % Bit16 \in Int
  BY DEF Bit16
<1> DEFINE w == (-own - added) % Bit16
<1>2. \/ Swing(own, added) = Smaller(own + added, SwingLimit)
      \/ Swing(own, added) = -Smaller(w, SwingLimit)
      \/ Swing(own, added) = own + added
  BY DEF Swing
<1> HIDE DEF w
<1>3. w \in Int
  BY <1>1 DEF w
<1> QED BY <1>2, <1>3 DEF Smaller, SwingLimit

\* No vibrato takes a pitch further below zero than it was.
LEMMA SwungIsAbove ==
    ASSUME NEW pitch \in Int, pitch >= Lowest, NEW swing \in Int, NEW depth \in Int
    PROVE  Swung(pitch, swing, depth) \in Int /\ Swung(pitch, swing, depth) >= Lowest
<1> DEFINE twice == (2 * Magnitude(depth)) % 65536
           size == Magnitude(swing)
           p == size * twice
           by == (p + 32768) \div 65536
<1>1. size \in Nat /\ Magnitude(depth) \in Nat
  BY DEF Magnitude
<1>2. twice \in Nat
  BY <1>1
<1>3. Swung(pitch, swing, depth) = IF (swing < 0) = (depth < 0) THEN pitch + by
                                   ELSE Floor0(pitch - by)
  BY DEF Swung, Bit16
<1> HIDE DEF size, twice
<1>4. p \in Nat
  BY <1>1, <1>2
<1> HIDE DEF p
<1>5. by \in Nat
  BY <1>4
<1> HIDE DEF by
<1>6. Swung(pitch, swing, depth) = pitch + by \/ Swung(pitch, swing, depth) = Floor0(pitch - by)
  BY <1>3, Zenon
<1>7. /\ pitch + by \in Int /\ pitch + by >= Lowest
      /\ Floor0(pitch - by) \in Int /\ Floor0(pitch - by) >= Lowest
  BY <1>5 DEF Floor0, Larger, Lowest
<1> QED BY <1>6, <1>7

LEMMA KeptIsAbove ==
    ASSUME NEW pitch \in Int, pitch >= Lowest, NEW tune \in Int, NEW bend \in Int
    PROVE  LET kept == Bent(Tuned(pitch, tune), bend) IN kept \in Int /\ kept >= Lowest
<1> DEFINE w == (tune - 1024) % 65536
           by == Signed(w)
           tuned == Tuned(pitch, tune)
<1>1. w \in Int
  OBVIOUS
<1>2. tuned = IF by < 0 THEN Floor0(pitch + by) ELSE pitch + by
  BY DEF Tuned, Bit16
<1> HIDE DEF w, tuned
<1>3. by \in Int
  BY <1>1 DEF Signed, Bit16
<1> HIDE DEF by
<1>4. tuned \in Int /\ tuned >= Lowest
  BY <1>2, <1>3 DEF Floor0, Larger, Lowest
<1>5. Bent(tuned, bend) \in Int /\ Bent(tuned, bend) >= Lowest
  BY <1>4 DEF Bent, Floor0, Larger, Lowest
<1> QED BY <1>5 DEF tuned

LEMMA DetunedIsAbove ==
    ASSUME NEW pitch \in Int, pitch >= Lowest, NEW detune \in Int
    PROVE  Detuned(pitch, detune) \in Int /\ Detuned(pitch, detune) >= Lowest
BY DEF Detuned, Floor0, Larger, Smaller, HighestPitch, Lowest

\* What the tick finds besides: the vibratos' and the controllers' part.
Swayed(v) ==
    /\ v.detune \in Int /\ v.lfo1 \in Int /\ v.add1 \in Int /\ v.depth1 \in Int
    /\ v.lfo2 \in Int /\ v.add2 \in Int /\ v.depth2 \in Int

\* A tick leaves a step that is halved for every octave below the table, with
\* the beat of the setting it has come to use.
LEMMA PitchTickFollows ==
    ASSUME NEW v, Placed(v), Far(v.offset), Swayed(v),
           NEW p, p.time \in 0 .. 127, p.tune \in Int, p.bend \in Int,
           NEW elapsed \in Elapsed
    PROVE  Placed(PitchTick(v, p, elapsed)) /\ StepIsHalved(PitchTick(v, p, elapsed))
<1> DEFINE a == Advance(v, elapsed)
           along == Between(a)
           base == Detuned(along, v.detune)
           swing1 == Swing(v.lfo1, v.add1)
           swing2 == Swing(v.lfo2, v.add2)
           sway1 == Swung(base, swing1, v.depth1)
           sway2 == Swung(sway1, swing2, v.depth2)
           kept == Bent(Tuned(sway2, p.tune), p.bend)
           offset == IF v.offset = 0 THEN 0 ELSE Glide(v.offset, GlideStep(p.time, elapsed))
           pitch == kept + offset
           beat == IF p.setting = v.setting THEN v.beat ELSE Beat(p.setting, v.key)
           step == Step(Signed24(pitch - v.key - Octave))
           w == PitchTick(v, p, elapsed)
<1>1. w = [a EXCEPT !.pitch = pitch, !.offset = offset, !.setting = p.setting,
                    !.beat = beat, !.step = Beating(step, beat)]
  BY DEF PitchTick
<1>2. Far(offset)
  <2>1. "offset" \in DOMAIN v
    BY DEF Placed, PitchFields
  <2>2. "offset" \in DOMAIN w /\ Far(w.offset)
    BY <2>1, PitchTickGlides
  <2>3. DOMAIN a = DOMAIN v
    BY DEF Advance
  <2> HIDE DEF w, a, pitch, offset, beat, step
  <2>4. w.offset = offset
    BY <1>1, <2>1, <2>3
  <2> QED BY <2>2, <2>4
<1>3. /\ DOMAIN a = DOMAIN v
      /\ a.phase \in Nat /\ a.phase <= Top /\ a.left \in Nat
      /\ \A f \in PitchFields \ {"phase", "left"} : a[f] = v[f]
  <2>1. elapsed \in Nat
    BY InputAssumption
  <2> QED BY <2>1, AdvanceStays
<1> HIDE DEF a, w, offset
<1>4. /\ a.from \in Nat /\ a.to \in Nat /\ a.rate \in Nat /\ a.key = v.key
      /\ v.key \in Nat /\ v.key <= HighestPitch
  BY <1>3 DEF Placed, PitchFields
<1>5. along \in Int /\ along >= Lowest
  BY <1>3, <1>4, BetweenIsAbove
<1> HIDE DEF along
<1>6. base \in Int /\ base >= Lowest
  BY <1>5, DetunedIsAbove DEF Swayed
<1> HIDE DEF base
<1>7. swing1 \in Int /\ swing2 \in Int
  BY SwingIsWhole DEF Swayed
<1> HIDE DEF swing1, swing2
<1>8. sway1 \in Int /\ sway1 >= Lowest
  BY <1>6, <1>7, SwungIsAbove DEF Swayed
<1> HIDE DEF sway1
<1>9. sway2 \in Int /\ sway2 >= Lowest
  BY <1>7, <1>8, SwungIsAbove DEF Swayed
<1> HIDE DEF sway2
<1>10. kept \in Int /\ kept >= Lowest
  BY <1>9, KeptIsAbove
<1> HIDE DEF kept
<1>11. pitch \in Int /\ pitch >= Lowest - HighestPitch
  BY <1>2, <1>10 DEF Far, Magnitude, Lowest, HighestPitch
<1> HIDE DEF pitch
<1> DEFINE d == pitch - v.key - Octave
<1>12. d \in Int /\ -8388608 <= d
  BY <1>4, <1>11, SMT DEF Lowest, HighestPitch, Octave
<1>13. d < 0 => step = ShiftRight(Ratio(d % Octave), -(d \div Octave))
  <2> HIDE DEF d
  <2>1. step = Step(Signed24(d))
    BY DEF d
  <2> QED BY <1>12, <2>1, StepHalvesByOctave
<1>14. p.setting # 0 => beat = Beat(p.setting, v.key)
  BY DEF Placed
<1> HIDE DEF step, beat
<1> DEFINE beaten == Beating(step, beat)
<1>15. /\ DOMAIN w = DOMAIN v /\ w.pitch = pitch /\ w.setting = p.setting /\ w.beat = beat
       /\ w.step = beaten /\ w.key = v.key
       /\ \A f \in {"phase", "left", "rate", "from", "to"} : w[f] = a[f]
  <2>1. {"pitch", "setting", "beat", "step", "offset", "key", "phase", "left", "rate",
         "from", "to"} \subseteq DOMAIN a
    BY <1>3 DEF Placed, PitchFields
  <2> HIDE DEF beaten
  <2>2. w = [a EXCEPT !.pitch = pitch, !.offset = offset, !.setting = p.setting,
                      !.beat = beat, !.step = beaten]
    BY <1>1 DEF beaten
  <2> QED BY <1>3, <1>4, <2>1, <2>2
<1>16. Placed(w)
  <2>1. PitchFields \subseteq DOMAIN w
    BY <1>15 DEF Placed
  <2> HIDE DEF beaten, d
  <2> QED BY <1>3, <1>4, <1>11, <1>14, <1>15, <2>1 DEF Placed
<1>17. StepIsHalved(w)
  BY <1>13, <1>15 DEF StepIsHalved
<1> QED BY <1>16, <1>17 DEF w

LEMMA PitchedFollows ==
    ASSUME NEW s, Placed(s.env), Far(s.env.offset), Whole(s.added),
           s.osc1.out \in Int, s.osc2.out \in Int,
           s.osc1.scaled[3] \in Int, s.osc2.scaled[3] \in Int,
           part.time \in 0 .. 127, part.tune \in Int, part.bend \in Int,
           NEW elapsed \in Elapsed
    PROVE  Placed(Pitched(s, elapsed)) /\ StepIsHalved(Pitched(s, elapsed))
<1> DEFINE a == s.added["pitch"]   b == s.osc1.scaled[3]   c == s.added["pitch1"]
           d == s.osc1.out         f == s.osc2.scaled[3]   g == s.added["pitch2"]
           h == s.osc2.out
           v == [s.env EXCEPT !.detune = a, !.lfo1 = b, !.add1 = c, !.depth1 = d,
                              !.lfo2 = f, !.add2 = g, !.depth2 = h]
<1>1. Pitched(s, elapsed) = PitchTick(v, part, elapsed)
  BY DEF Pitched
<1>2. /\ a \in Int /\ b \in Int /\ c \in Int /\ d \in Int /\ f \in Int /\ g \in Int
      /\ h \in Int
  BY DEF Whole
<1> HIDE DEF a, b, c, d, f, g, h
<1>3. PitchFields \subseteq DOMAIN s.env
  BY DEF Placed
<1>4. /\ DOMAIN v = DOMAIN s.env
      /\ \A x \in PitchFields \ {"detune", "lfo1", "add1", "depth1", "lfo2", "add2", "depth2"} :
            v[x] = s.env[x]
      /\ v.detune = a /\ v.lfo1 = b /\ v.add1 = c /\ v.depth1 = d
      /\ v.lfo2 = f /\ v.add2 = g /\ v.depth2 = h
  BY <1>3 DEF PitchFields
<1> HIDE DEF v
<1>5. /\ v.phase = s.env.phase /\ v.left = s.env.left /\ v.rate = s.env.rate
      /\ v.from = s.env.from /\ v.to = s.env.to /\ v.key = s.env.key
      /\ v.pitch = s.env.pitch /\ v.setting = s.env.setting /\ v.beat = s.env.beat
      /\ v.offset = s.env.offset
  BY <1>4 DEF PitchFields
<1>6. Placed(v)
  BY <1>3, <1>4, <1>5 DEF Placed
<1>7. Swayed(v)
  BY <1>2, <1>4 DEF Swayed
<1> QED BY <1>1, <1>5, <1>6, <1>7, PitchTickFollows

\* A loop takes the step of the key it was recorded at, with the old beat, and
\* clears the setting.
LEMMA LoopedFollows ==
    ASSUME NEW e, Placed(e), NEW key \in Nat, key <= HighestPitch
    PROVE  Placed(Looped(e, key)) /\ StepIsHalved(Looped(e, key))
<1> DEFINE d == e.pitch - key - Octave
           step == LoopStep(Signed24(d))
           beaten == Beating(step, e.beat)
           w == Looped(e, key)
<1>1. e.pitch \in Int /\ e.pitch >= Lowest - HighestPitch
  BY DEF Placed
<1>2. d \in Int /\ -8388608 <= d
  BY <1>1, SMT DEF Lowest, HighestPitch, Octave
<1>3. d < 0 => step = ShiftRight(Ratio(d % Octave), -(d \div Octave))
  <2> HIDE DEF d
  <2> QED BY <1>2, StepHalvesByOctave
<1>4. w = [e EXCEPT !.key = key, !.setting = 0, !.step = beaten]
  BY DEF Looped
<1> HIDE DEF d, step, beaten, w
<1>5. /\ DOMAIN w = DOMAIN e /\ w.key = key /\ w.setting = 0 /\ w.step = beaten
      /\ \A f \in PitchFields \ {"key", "setting", "step"} : w[f] = e[f]
  BY <1>4 DEF Placed, PitchFields
<1>6. /\ w.phase = e.phase /\ w.left = e.left /\ w.rate = e.rate /\ w.from = e.from
      /\ w.to = e.to /\ w.pitch = e.pitch /\ w.beat = e.beat
  BY <1>5 DEF PitchFields
<1>7. Placed(w)
  BY <1>5, <1>6 DEF Placed
<1>8. StepIsHalved(w)
  BY <1>3, <1>5, <1>6 DEF StepIsHalved, d, beaten
<1> QED BY <1>7, <1>8 DEF w

LEMMA EnvelopeIsPlaced == ASSUME NEW t \in Patches PROVE Placed(Envelope(t))
<1>1. /\ t.envRate \in Nat /\ t.envFrom \in Nat /\ t.envTo \in Nat /\ t.key \in Nat
      /\ t.key <= HighestPitch
  <2>1. t.envRate \in Word /\ {t.envFrom, t.envTo, t.key} \subseteq 0 .. HighestPitch
    BY PatchAssumption
  <2>2. \A x \in 0 .. HighestPitch : x \in Nat /\ x <= HighestPitch
    <3>1. HighestPitch \in Int
      BY DEF HighestPitch
    <3> QED BY <3>1
  <2>3. t.envRate \in Nat
    BY <2>1 DEF Word
  <2> QED BY <2>1, <2>2, <2>3
<1>2. Beat(128, t.key) = 0
  BY <1>1, MiddleIsStill
<1> DEFINE e == Envelope(t)
<1>3. /\ PitchFields \subseteq DOMAIN e
      /\ e.phase = 0 /\ e.left = 0 /\ e.rate = t.envRate /\ e.from = t.envFrom
      /\ e.to = t.envTo /\ e.key = t.key /\ e.pitch = 0 /\ e.setting = 128 /\ e.beat = 0
  BY DEF Envelope, PitchFields
<1> HIDE DEF e
<1>4. 0 <= Top /\ 0 >= Lowest - HighestPitch
  BY DEF Top, Bit16, Lowest, HighestPitch
<1>5. Placed(e)
  BY <1>1, <1>2, <1>3, <1>4 DEF Placed
<1> QED BY <1>5 DEF e

-----------------------------------------------------------------------------
(* The voice's pitch, tick by tick.                                        *)

\* The waves run, the record of the pitch is one a tick can come from, and once
\* a tick has come, the step follows it.
Pitching ==
    /\ {"osc1", "osc2", "env", "added"} \subseteq DOMAIN sound
    /\ Runs(sound.osc1) /\ Runs(sound.osc2) /\ Placed(sound.env) /\ Whole(sound.added)
    /\ {"rate", "tune", "bend"} \subseteq DOMAIN part
    /\ part.rate \in Int /\ part.tune \in Int /\ part.bend \in Int
    /\ ticks > 0 => StepIsHalved(sound.env)

LEMMA StruckPitches ==
    ASSUME NEW t \in Patches, NEW velocity, NEW chip \in Chip, NEW s,
           s = Struck(t, StartPart, velocity, chip)
    PROVE  /\ {"osc1", "osc2", "env", "added"} \subseteq DOMAIN s
           /\ Runs(s.osc1) /\ Runs(s.osc2) /\ Placed(s.env) /\ Whole(s.added)
<1> DEFINE c == Controlled([added |-> NothingAdded], StartPart.controls, StartPart.pressure)
           shift1 == c.added["rate1"]
           shift2 == c.added["rate2"]
<1>1. /\ {"osc1", "osc2", "env", "added"} \subseteq DOMAIN s
      /\ s.osc1 = FirstOf(t, StartPart, shift1, chip)
      /\ s.osc2 = SecondOf(t, shift2, chip) /\ s.env = Envelope(t) /\ s.added = c.added
  BY DEF Struck
<1>2. Whole(c.added)
  <2>1. StartPart.pressure \in Int
    BY PartAssumption
  <2>2. "added" \in DOMAIN [added |-> NothingAdded]
    OBVIOUS
  <2> QED BY <2>1, <2>2, ControlledIsWhole
<1> HIDE DEF c
<1>3. shift1 \in Int /\ shift2 \in Int
  BY <1>2 DEF Whole
<1> HIDE DEF shift1, shift2
<1>4. /\ chip \in Int /\ StartPart.depth \in 0 .. 127 /\ StartPart.lfoDelay \in 0 .. 127
      /\ StartPart.rate \in Int
  <2>1. StartPart.rate \in 0 .. 127
    BY PartAssumption
  <2> QED BY <2>1, InputAssumption, PartAssumption
<1>5. Runs(s.osc1)
  BY <1>1, <1>3, <1>4, FirstIsRunning
<1>6. Runs(s.osc2)
  BY <1>1, <1>3, <1>4, SecondIsRunning
<1> QED BY <1>1, <1>2, <1>5, <1>6, EnvelopeIsPlaced

LEMMA StartPartPitches ==
    /\ {"rate", "tune", "bend"} \subseteq DOMAIN StartPart
    /\ StartPart.rate \in Int /\ StartPart.tune \in Int /\ StartPart.bend \in Int
<1>1. /\ {"rate", "tune", "bend"} \subseteq DOMAIN StartPart
      /\ StartPart.rate \in 0 .. 127 /\ StartPart.tune \in Word /\ StartPart.bend \in Int
  BY PartAssumption
<1>2. StartPart.tune \in Int
  BY <1>1 DEF Word
<1> QED BY <1>1, <1>2

LEMMA TickPitches ==
    ASSUME IInv, Moving, Pitching, NEW elapsed \in Elapsed, Tick(elapsed)
    PROVE  Pitching'
<1>1. PICK chip \in Chip :
        LET c == Controlled(sound, part.controls, part.pressure)
            w == [c EXCEPT !.osc1 = FirstTick(@, part, c.added["rate1"], elapsed, chip),
                           !.osc2 = Swaying(@, c.added["rate2"], elapsed, chip)]
            pair == [osc1 |-> PairTick(w.second.osc1, w.osc1, part.depth),
                     osc2 |-> Following(w.second.osc2, w.osc2),
                     added |-> CopiedFrom(w.second, w).added]
        IN sound' = [w EXCEPT !.second = pair, !.level = Leveled(w, part, note.tone),
                              !.env = Pitched(w, elapsed)]
  BY DEF Tick
<1> DEFINE c == Controlled(sound, part.controls, part.pressure)
           shift1 == c.added["rate1"]
           shift2 == c.added["rate2"]
           osc1 == FirstTick(c.osc1, part, shift1, elapsed, chip)
           osc2 == Swaying(c.osc2, shift2, elapsed, chip)
           w == [c EXCEPT !.osc1 = osc1, !.osc2 = osc2]
           pair == [osc1 |-> PairTick(w.second.osc1, w.osc1, part.depth),
                    osc2 |-> Following(w.second.osc2, w.osc2),
                    added |-> CopiedFrom(w.second, w).added]
           level == Leveled(w, part, note.tone)
           env == Pitched(w, elapsed)
<1>2. sound' = [w EXCEPT !.second = pair, !.level = level, !.env = env]
  BY <1>1
<1>3. /\ DOMAIN c = DOMAIN sound
      /\ c.osc1 = sound.osc1 /\ c.osc2 = sound.osc2 /\ c.env = sound.env
  BY DEF Controlled
<1>4. Whole(c.added)
  <2>1. "added" \in DOMAIN sound /\ part.pressure \in Int
        /\ part.controls = StartPart.controls
    BY DEF IInv, Settled, Kept
  <2> QED BY <2>1, ControlledIsWhole
<1> HIDE DEF c
<1>5. shift1 \in Int /\ shift2 \in Int
  BY <1>4 DEF Whole
<1> HIDE DEF shift1, shift2
<1>6. chip \in Int /\ elapsed \in Nat
  BY InputAssumption
<1>7. Runs(osc1) /\ Oscillates(osc1)
  <2>1. Oscillates(sound.osc1) /\ Swollen(sound.osc1) /\ part.depth \in 0 .. 127
    BY DEF Moving
  <2>2. Runs(sound.osc1) /\ part.rate \in Int
    BY DEF Pitching
  <2>3. Oscillates(osc1)
    BY <1>3, <1>6, <2>1, FirstSwells
  <2> QED BY <1>3, <1>5, <1>6, <2>1, <2>2, <2>3, FirstRuns
<1>8. Runs(osc2) /\ Oscillates(osc2)
  <2>1. Oscillates(sound.osc2) /\ Swollen(sound.osc2)
    BY DEF Moving
  <2>2. Runs(sound.osc2)
    BY DEF Pitching
  <2>3. Oscillates(osc2)
    BY <1>3, <1>6, <2>1, SwayingSwells
  <2> QED BY <1>3, <1>5, <1>6, <2>1, <2>2, <2>3, SwayingRuns
<1> HIDE DEF osc1, osc2
<1>9. /\ DOMAIN w = DOMAIN sound
      /\ w.osc1 = osc1 /\ w.osc2 = osc2 /\ w.env = sound.env /\ w.added = c.added
  BY <1>3 DEF Pitching
<1> HIDE DEF w
<1>10. Placed(env) /\ StepIsHalved(env)
  <2>1. Placed(w.env) /\ Far(w.env.offset) /\ part.time \in 0 .. 127
    BY <1>9 DEF Pitching, Moving
  <2>2. part.tune \in Int /\ part.bend \in Int
    BY DEF Pitching
  <2>3. w.osc1.out \in Int /\ w.osc2.out \in Int
    BY <1>7, <1>8, <1>9 DEF Runs
  <2>4. w.osc1.scaled[3] \in Int /\ w.osc2.scaled[3] \in Int
    BY <1>7, <1>8, <1>9 DEF Oscillates
  <2>5. Whole(w.added)
    BY <1>4, <1>9
  <2> QED BY <2>1, <2>2, <2>3, <2>4, <2>5, PitchedFollows
<1> HIDE DEF pair, level, env
<1>11. /\ DOMAIN sound' = DOMAIN sound
       /\ sound'.osc1 = osc1 /\ sound'.osc2 = osc2 /\ sound'.env = env
       /\ sound'.added = c.added
  BY <1>2, <1>9 DEF Pitching
<1>12. part' = part
  BY DEF Tick
<1> QED BY <1>4, <1>7, <1>8, <1>10, <1>11, <1>12 DEF Pitching

LEMMA OthersPitch ==
    ASSUME IInv, Moving, Pitching, Tie \/ Loop PROVE Pitching'
<1>1. part' = part /\ ticks' = 2 /\ ticks = 1
  BY DEF Tie, Loop
<1>2. StepIsHalved(sound.env)
  BY <1>1 DEF Pitching
<1>3. CASE Tie
  <2>1. PICK chip \in Chip : sound' = Tied(sound, note.tone, chip)
    BY <1>3 DEF Tie
  <2> DEFINE at == Addresses(Sample, TRUE)
             mode == Mode(at, Sample, 3)
             shift == sound.added["rate2"]
             osc2 == SecondOf(note.tone, shift, chip)
             v == [sound EXCEPT !.osc2 = osc2, !.at = at, !.mode = mode]
  <2>2. sound' = Parked(v)
    BY <2>1 DEF Tied
  <2>3. Runs(osc2)
    <3>1. note.tone \in Patches /\ chip \in Int
      BY InputAssumption DEF IInv, Settled
    <3>2. shift \in Int
      BY DEF Pitching, Whole
    <3> HIDE DEF shift
    <3> QED BY <3>1, <3>2, SecondIsRunning
  <2> HIDE DEF at, mode, osc2
  <2>4. DOMAIN v = DOMAIN sound /\ v.osc1 = sound.osc1 /\ v.osc2 = osc2
        /\ v.env = sound.env /\ v.added = sound.added
    BY DEF Pitching
  <2> HIDE DEF v
  <2>5. /\ DOMAIN sound' = DOMAIN sound
        /\ sound'.osc1 = sound.osc1 /\ sound'.osc2 = osc2 /\ sound'.env = sound.env
        /\ sound'.added = sound.added
    BY <2>2, <2>4 DEF Parked
  <2> QED BY <1>1, <1>2, <2>3, <2>5 DEF Pitching
<1>4. CASE Loop
  <2> DEFINE key == note.tone.loopKey
             env == Looped(sound.env, key)
  <2>1. sound' = [sound EXCEPT !.env = env]
    BY <1>4 DEF Loop
  <2>2. key \in Nat /\ key <= HighestPitch
    <3>1. key \in 0 .. HighestPitch
      BY PatchAssumption DEF IInv, Settled
    <3>2. HighestPitch \in Int
      BY DEF HighestPitch
    <3> HIDE DEF key
    <3> QED BY <3>1, <3>2
  <2> HIDE DEF key
  <2>3. Placed(env) /\ StepIsHalved(env)
    BY <2>2, LoopedFollows DEF Pitching
  <2> HIDE DEF env
  <2>4. /\ DOMAIN sound' = DOMAIN sound
        /\ sound'.osc1 = sound.osc1 /\ sound'.osc2 = sound.osc2 /\ sound'.env = env
        /\ sound'.added = sound.added
    BY <2>1 DEF Pitching
  <2> QED BY <1>1, <2>3, <2>4 DEF Pitching
<1> QED BY <1>3, <1>4

LEMMA TurnPitches == Pitching /\ Turn => Pitching'
<1> SUFFICES ASSUME Pitching, Turn PROVE Pitching'
  OBVIOUS
<1>1. sound' = sound /\ ticks' = ticks
  BY DEF Turn
<1>2. \/ \E x \in Pressures : part' = [part EXCEPT !.pressure = x]
      \/ \E x \in Volumes : part' = [part EXCEPT !.volume = x]
      \/ \E x \in Depths : part' = [part EXCEPT !.depth = x]
      \/ \E x \in Settings : part' = [part EXCEPT !.setting = x]
  BY DEF Turn
<1>3. {"rate", "tune", "bend"} \subseteq DOMAIN part
  BY DEF Pitching
<1>4. /\ DOMAIN part' = DOMAIN part
      /\ part'.rate = part.rate /\ part'.tune = part.tune /\ part'.bend = part.bend
  BY <1>2, <1>3
<1> QED BY <1>1, <1>4 DEF Pitching

THEOREM VoicePitches == SoundSpec => []Pitching
<1>1. SoundInit => Pitching
  <2> SUFFICES ASSUME SoundInit PROVE Pitching
    OBVIOUS
  <2>1. PICK t \in Patches, velocity \in Velocities, chip \in Chip :
           sound = Struck(t, part, velocity, chip)
    BY DEF SoundInit
  <2>2. part = StartPart /\ ~(ticks > 0)
    BY DEF SoundInit
  <2>3. sound = Struck(t, StartPart, velocity, chip)
    BY <2>1, <2>2
  <2>4. /\ {"osc1", "osc2", "env", "added"} \subseteq DOMAIN sound
        /\ Runs(sound.osc1) /\ Runs(sound.osc2) /\ Placed(sound.env) /\ Whole(sound.added)
    BY <2>3, StruckPitches
  <2> QED BY <2>2, <2>4, StartPartPitches DEF Pitching
<1>2. IInv /\ Moving /\ Pitching /\ [SoundNext]_soundVars => Pitching'
  <2> SUFFICES ASSUME IInv, Moving, Pitching, [SoundNext]_soundVars PROVE Pitching'
    OBVIOUS
  <2>1. ASSUME NEW t \in Patches, NEW velocity \in Velocities, Strike(t, velocity)
        PROVE  Pitching'
    <3>1. PICK chip \in Chip : sound' = Struck(t, StartPart, velocity, chip)
      BY <2>1 DEF Strike
    <3>2. part' = StartPart /\ ~(ticks' > 0)
      BY <2>1 DEF Strike
    <3>3. /\ {"osc1", "osc2", "env", "added"} \subseteq DOMAIN sound'
          /\ Runs(sound'.osc1) /\ Runs(sound'.osc2) /\ Placed(sound'.env)
          /\ Whole(sound'.added)
      BY <3>1, StruckPitches
    <3> QED BY <3>2, <3>3, StartPartPitches DEF Pitching
  <2>2. ASSUME NEW elapsed \in Elapsed, Tick(elapsed) PROVE Pitching'
    BY <2>2, TickPitches
  <2>3. CASE Tie \/ Loop
    BY <2>3, OthersPitch
  <2>4. CASE Turn
    BY <2>4, TurnPitches
  <2>5. CASE UNCHANGED soundVars
    BY <2>5 DEF soundVars, Pitching
  <2> QED BY <2>1, <2>2, <2>3, <2>4, <2>5 DEF SoundNext
<1> QED BY <1>1, <1>2, VoiceKept, VoiceMoves, PTL DEF SoundSpec

\* For every tone, part, table and length of a tick up to 127: the step is the
\* one of the pitch some octaves higher, halved for each of them, and what
\* beats is of the setting and the key in use.
THEOREM StepAlwaysFollows == SoundSpec => []StepFollowsPitch
<1>1. Pitching => StepFollowsPitch
  BY DEF Pitching, Placed, StepIsHalved, StepFollowsPitch
<1> QED BY <1>1, VoicePitches, PTL

-----------------------------------------------------------------------------
(* Settings that work one way.                                             *)

LEMMA DepthsRise ==
    ASSUME NEW i \in 0 .. 127, NEW j \in 0 .. 127, i <= j
    PROVE  DepthOf[i] \in Int /\ DepthOf[j] \in Int /\ DepthOf[i] <= DepthOf[j]
<1>1. DepthOf \in [0 .. 127 -> Positive]
  BY VoiceLfoAssumption
<1>2. DepthOf[i] \in Positive /\ DepthOf[j] \in Positive
  BY <1>1, Zenon
<1>3. \A x \in Positive : x \in Int
  BY DEF Positive
<1>4. DepthOf[i] <= DepthOf[j]
  BY DepthAssumption
<1> QED BY <1>2, <1>3, <1>4, Zenon

\* What the part asks for moves a depth to its own side, in bytes that are out
\* of range above or below, and also where the wave is reversed.
LEMMA DepthMovesOneWay ==
    ASSUME NEW own \in 0 .. 255, NEW p \in 0 .. 127
    PROVE  IF p >= 64 THEN Depth(own, p) >= PitchDepth(own)
           ELSE Depth(own, p) <= PitchDepth(own)
<1> DEFINE o == own % 128
           up == DepthUp(own, p)
           down == DepthDown(own - 128, p)
<1>1. own \in Int /\ 0 <= own /\ own <= 255 /\ p \in Int /\ 0 <= p /\ p <= 127
  OBVIOUS
<1>2. own < 128 => /\ p >= 64 => up \in Int /\ own <= up /\ up <= 127
                   /\ p < 64 => up \in Int /\ 0 <= up /\ up <= own
  BY <1>1 DEF DepthUp, ByteSum, Bit8
<1>3. own >= 128 => /\ p >= 64 => down \in Int /\ 0 <= down /\ down <= own - 128
                    /\ p < 64 => down \in Int /\ own - 128 <= down /\ down <= 127
  BY <1>1 DEF DepthDown, ByteSum, Bit8
<1>4. CASE own < 128
  <2>1. o = own /\ PitchDepth(own) = DepthOf[o] /\ Depth(own, p) = DepthOf[up]
    BY <1>1, <1>4 DEF PitchDepth, Depth, WithSign
  <2> HIDE DEF up
  <2>2. CASE p >= 64
    <3>1. own \in 0 .. 127 /\ up \in 0 .. 127 /\ own <= up
      BY <1>1, <1>2, <1>4, <2>2
    <3>2. /\ DepthOf[own] <= DepthOf[up]
          /\ DepthOf[own] \in Int /\ DepthOf[up] \in Int
      BY <3>1, DepthsRise
    <3> HIDE DEF o
    <3> QED BY <2>1, <2>2, <3>2
  <2>3. CASE ~(p >= 64)
    <3>1. own \in 0 .. 127 /\ up \in 0 .. 127 /\ up <= own
      BY <1>1, <1>2, <1>4, <2>3
    <3>2. DepthOf[up] <= DepthOf[own]
      BY <3>1, DepthsRise
    <3> HIDE DEF o
    <3> QED BY <2>1, <2>3, <3>2
  <2> QED BY <2>2, <2>3
<1>5. CASE ~(own < 128)
  <2>1. o = own - 128 /\ own >= 128 /\ o \in 0 .. 127
    BY <1>1, <1>5
  <2>2. PitchDepth(own) = -DepthOf[o] /\ Depth(own, p) = -DepthOf[down]
    BY <2>1 DEF PitchDepth, Depth, WithSign
  <2> HIDE DEF up, down, o
  <2>3. o \in 0 .. 127
    BY <2>1
  <2>4. CASE p >= 64
    <3>1. down \in 0 .. 127 /\ down <= o
      BY <1>1, <1>3, <2>1, <2>4
    <3>2. /\ DepthOf[down] <= DepthOf[o]
          /\ DepthOf[down] \in Int /\ DepthOf[o] \in Int
      BY <2>3, <3>1, DepthsRise
    <3> QED BY <2>2, <2>4, <3>2
  <2>5. CASE ~(p >= 64)
    <3>1. down \in 0 .. 127 /\ o <= down
      BY <1>1, <1>3, <2>1, <2>5
    <3>2. /\ DepthOf[o] <= DepthOf[down]
          /\ DepthOf[down] \in Int /\ DepthOf[o] \in Int
      BY <2>3, <3>1, DepthsRise
    <3> QED BY <2>2, <2>5, <3>2
  <2> QED BY <2>4, <2>5
<1> QED BY <1>4, <1>5

LEMMA PlainIsWhole ==
    ASSUME NEW volume \in 0 .. 127, NEW tone \in 0 .. 127
    PROVE  KeyLevel(PartLevel(volume, tone, 127), FALSE, 0) \in Nat
<1> DEFINE p == volume * tone
           level == PartLevel(volume, tone, 127)
<1>1. p \in Nat
  OBVIOUS
<1>2. level = ((p * 127 * 4) \div 256) % 65536
  BY DEF PartLevel, Bit8, Bit16
<1> HIDE DEF p, level
<1>3. level \in Nat
  BY <1>1, <1>2
<1>4. ToneScale \in Nat
  BY DEF ToneScale
<1> DEFINE h == High(level, ToneScale)
           q == level * ToneScale
           k == ((q % Bit16) * 2) \div Bit16
<1>5. KeyLevel(level, FALSE, 0) = 2 * h + k
  BY Zenon DEF KeyLevel
<1>6. h \in Nat
  BY <1>3, <1>4, HighGrows
<1>7. q \in Nat
  BY <1>3, <1>4
<1> HIDE DEF h, q
<1>8. k \in Nat
  BY <1>7 DEF Bit16
<1> HIDE DEF k
<1> DEFINE whole == KeyLevel(level, FALSE, 0)
<1>9. whole = 2 * h + k
  BY <1>5
<1> HIDE DEF whole
<1>10. whole \in Nat
  BY <1>6, <1>8, <1>9
<1> QED BY <1>10 DEF whole, level

\* A tremolo of nothing makes no level louder.
LEMMA NoneIsNotLouder ==
    ASSUME NEW level \in Nat, NEW depth \in Int
    PROVE  /\ Tremolo(level, TremoloSum(0, 0), depth) \in Nat
           /\ Tremolo(level, TremoloSum(0, 0), depth) <= level
<1>1. TremoloSum(0, 0) = 0
  BY DEF TremoloSum, Smaller, TremoloLimit
<1> DEFINE m == Magnitude(depth) % 65536
<1>2. m \in Int
  BY DEF Magnitude
<1>3. Tremolo(level, 0, depth) =
         IF (0 < 0) = (depth < 0)
         THEN (level + (Magnitude(0) * m + 32767) \div 32768) % 65536
         ELSE Floor0(level - (Magnitude(0) * m + 32767) \div 32768)
  BY DEF Tremolo, Bit16
<1> HIDE DEF m
<1>4. Magnitude(0) * m = 0
  BY <1>2 DEF Magnitude
<1> DEFINE by == (Magnitude(0) * m + 32767) \div 32768
<1>5. by = 0
  BY <1>4
<1>6. \/ Tremolo(level, 0, depth) = (level + 0) % 65536
      \/ Tremolo(level, 0, depth) = Floor0(level - 0)
  <2>1. Tremolo(level, 0, depth) = IF (0 < 0) = (depth < 0) THEN (level + by) % 65536
                                   ELSE Floor0(level - by)
    BY <1>3
  <2> HIDE DEF by
  <2>2. CASE (0 < 0) = (depth < 0)
    BY <1>5, <2>1, <2>2
  <2>3. CASE ~((0 < 0) = (depth < 0))
    BY <1>5, <2>1, <2>3
  <2> QED BY <2>2, <2>3
<1>7. /\ (level + 0) % 65536 \in Nat /\ (level + 0) % 65536 <= level
      /\ Floor0(level - 0) = level
  BY DEF Floor0, Larger
<1> QED BY <1>1, <1>6, <1>7

\* The square grows, across the step to full scale too.
LEMMA SquaredGrows ==
    ASSUME NEW a \in Nat, NEW b \in Nat, a <= b
    PROVE  0 <= Squared(a) /\ Squared(a) <= Squared(b)
<1> DEFINE x == High(a, a)   y == High(b, b)
<1>1. x \in Nat /\ y \in Nat /\ x <= y
  <2> DEFINE m == a * a   n == b * b
  <2>1. m \in Nat /\ n \in Nat /\ m <= n
    <3>1. PICK d \in Nat : b = a + d
      BY b - a \in Nat
    <3>2. n = m + 2 * (a * d) + d * d /\ a * d \in Nat /\ d * d \in Nat /\ m \in Nat
      BY <3>1
    <3> QED BY <3>2
  <2>2. x = m \div 65536 /\ y = n \div 65536
    BY HighIsProduct DEF Bit16
  <2> HIDE DEF m, n, x, y
  <2> QED BY <2>1, <2>2
<1>2. /\ Squared(a) = IF (x * 520) \div 65536 >= 255 THEN 65535 ELSE (x * 520) \div 256
      /\ Squared(b) = IF (y * 520) \div 65536 >= 255 THEN 65535 ELSE (y * 520) \div 256
  BY DEF Squared, Top, Bit8, Bit16
<1> HIDE DEF x, y
<1> QED BY <1>1, <1>2

\* Turned down and without tremolo, a voice is not louder than its volumes.
LEMMA TurnedDownIsQuieter ==
    ASSUME NEW s, NoTremolo(s), s.added["level"] \in Int, s.added["level"] < 0,
           s.osc1.out \in Int, s.osc2.out \in Int,
           NEW p, p.volume \in 0 .. 127, NEW t, t.volume \in 0 .. 127
    PROVE  Leveled(s, p, t) <= Squared(KeyLevel(PartLevel(p.volume, t.volume, 127), FALSE, 0))
<1> DEFINE plain == KeyLevel(PartLevel(p.volume, t.volume, 127), FALSE, 0)
           by == s.added["level"]
           d1 == s.osc1.out   d2 == s.osc2.out
           moved == Offset(plain, by)
           once == Tremolo(moved, TremoloSum(0, 0), d1)
           twice == Tremolo(once, TremoloSum(0, 0), d2)
<1>1. Leveled(s, p, t) = IF plain = 0 THEN 0 ELSE Squared(twice)
  BY DEF Leveled, LevelTick, NoDrum, NoTremolo
<1>2. plain \in Nat
  BY PlainIsWhole
<1>3. by \in Int /\ by < 0 /\ d1 \in Int /\ d2 \in Int
  OBVIOUS
<1> HIDE DEF plain, by, d1, d2
<1>4. moved \in Nat /\ moved <= plain
  BY <1>2, <1>3 DEF Offset, Floor0, Larger
<1> HIDE DEF moved
<1>5. once \in Nat /\ once <= moved
  BY <1>3, <1>4, NoneIsNotLouder
<1> HIDE DEF once
<1>6. twice \in Nat /\ twice <= once
  BY <1>3, <1>5, NoneIsNotLouder
<1> HIDE DEF twice
<1>7. twice <= plain
  BY <1>2, <1>4, <1>5, <1>6
<1>8. Squared(twice) <= Squared(plain) /\ 0 <= Squared(plain)
  BY <1>2, <1>6, <1>7, SquaredGrows
<1>9. Leveled(s, p, t) <= Squared(plain)
  <2>1. CASE plain = 0
    BY <1>1, <1>8, <2>1
  <2>2. CASE plain # 0
    BY <1>1, <1>8, <2>2
  <2> QED BY <2>1, <2>2
<1> QED BY <1>9 DEF plain

\* A voice has a level, and its part a volume of 7 bits.
Audible ==
    /\ "level" \in DOMAIN sound
    /\ "volume" \in DOMAIN part /\ part.volume \in 0 .. 127

\* What a tick writes: the level is that of the oscillators it has moved.
LEMMA TickWrites ==
    ASSUME Pitching, Audible, NEW elapsed, Tick(elapsed)
    PROVE  LET shift == Controlled(sound, part.controls, part.pressure).added["rate1"]
           IN /\ sound'.level = Leveled(sound', part, note.tone)
              /\ DOMAIN sound' = DOMAIN sound
              /\ \E chip \in Chip :
                    sound'.osc1 = FirstTick(sound.osc1, part, shift, elapsed, chip)
<1>1. PICK chip \in Chip :
        LET c == Controlled(sound, part.controls, part.pressure)
            w == [c EXCEPT !.osc1 = FirstTick(@, part, c.added["rate1"], elapsed, chip),
                           !.osc2 = Swaying(@, c.added["rate2"], elapsed, chip)]
            pair == [osc1 |-> PairTick(w.second.osc1, w.osc1, part.depth),
                     osc2 |-> Following(w.second.osc2, w.osc2),
                     added |-> CopiedFrom(w.second, w).added]
        IN sound' = [w EXCEPT !.second = pair, !.level = Leveled(w, part, note.tone),
                              !.env = Pitched(w, elapsed)]
  BY DEF Tick
<1> DEFINE c == Controlled(sound, part.controls, part.pressure)
           shift == c.added["rate1"]
           osc1 == FirstTick(c.osc1, part, shift, elapsed, chip)
           osc2 == Swaying(c.osc2, c.added["rate2"], elapsed, chip)
           w == [c EXCEPT !.osc1 = osc1, !.osc2 = osc2]
           pair == [osc1 |-> PairTick(w.second.osc1, w.osc1, part.depth),
                    osc2 |-> Following(w.second.osc2, w.osc2),
                    added |-> CopiedFrom(w.second, w).added]
           level == Leveled(w, part, note.tone)
           env == Pitched(w, elapsed)
<1>2. sound' = [w EXCEPT !.second = pair, !.level = level, !.env = env]
  BY <1>1
<1>3. DOMAIN c = DOMAIN sound /\ c.osc1 = sound.osc1
  BY DEF Controlled
<1>4. osc1 = FirstTick(sound.osc1, part, shift, elapsed, chip)
  BY <1>3
<1> HIDE DEF osc1, osc2
<1>5. DOMAIN w = DOMAIN sound /\ w.osc1 = osc1
  BY <1>3 DEF Pitching
<1> HIDE DEF c, w, pair, level, env
<1>6. /\ sound'.osc1 = w.osc1 /\ sound'.osc2 = w.osc2 /\ sound'.added = w.added
  BY <1>2, <1>5 DEF Pitching
<1>7. sound'.level = level /\ DOMAIN sound' = DOMAIN sound
  BY <1>2, <1>5 DEF Audible
<1>8. Leveled(sound', part, note.tone) = level
  BY <1>6, Zenon DEF Leveled, level
<1> QED BY <1>4, <1>5, <1>6, <1>7, <1>8 DEF c

THEOREM VoiceIsAudible == SoundSpec => []Audible
<1>1. /\ "volume" \in DOMAIN StartPart /\ StartPart.volume \in 0 .. 127
      /\ \A x \in Volumes : x \in 0 .. 127
  BY PartAssumption, InputAssumption
<1>2. ASSUME NEW t, NEW p, NEW velocity, NEW chip
      PROVE  "level" \in DOMAIN Struck(t, p, velocity, chip)
  BY DEF Struck
<1>3. SoundInit => Audible
  BY <1>1, <1>2 DEF SoundInit, Audible
<1>4. Pitching /\ Audible /\ [SoundNext]_soundVars => Audible'
  <2> SUFFICES ASSUME Pitching, Audible, [SoundNext]_soundVars PROVE Audible'
    OBVIOUS
  <2>1. ASSUME NEW t \in Patches, NEW velocity \in Velocities, Strike(t, velocity)
        PROVE  Audible'
    BY <1>1, <1>2, <2>1 DEF Strike, Audible
  <2>2. ASSUME NEW elapsed \in Elapsed, Tick(elapsed) PROVE Audible'
    <3>1. part' = part
      BY <2>2 DEF Tick
    <3>2. DOMAIN sound' = DOMAIN sound
      BY <2>2, TickWrites
    <3> QED BY <3>1, <3>2 DEF Audible
  <2>3. CASE Tie
    <3>1. PICK chip \in Chip : sound' = Tied(sound, note.tone, chip)
      BY <2>3 DEF Tie
    <3> DEFINE at == Addresses(Sample, TRUE)
               mode == Mode(at, Sample, 3)
               osc2 == SecondOf(note.tone, sound.added["rate2"], chip)
               v == [sound EXCEPT !.osc2 = osc2, !.at = at, !.mode = mode]
    <3>2. sound' = Parked(v)
      BY <3>1 DEF Tied
    <3>3. DOMAIN v = DOMAIN sound
      OBVIOUS
    <3> HIDE DEF v
    <3>4. DOMAIN sound' = DOMAIN sound
      BY <3>2, <3>3 DEF Parked
    <3>5. part' = part
      BY <2>3 DEF Tie
    <3> QED BY <3>4, <3>5 DEF Audible
  <2>4. CASE Loop
    <3> DEFINE env == Looped(sound.env, note.tone.loopKey)
    <3>1. sound' = [sound EXCEPT !.env = env] /\ part' = part
      BY <2>4 DEF Loop
    <3> HIDE DEF env
    <3> QED BY <3>1 DEF Audible
  <2>5. CASE Turn
    <3>1. sound' = sound
      BY <2>5 DEF Turn
    <3>2. \/ \E x \in Pressures : part' = [part EXCEPT !.pressure = x]
          \/ \E x \in Volumes : part' = [part EXCEPT !.volume = x]
          \/ \E x \in Depths : part' = [part EXCEPT !.depth = x]
          \/ \E x \in Settings : part' = [part EXCEPT !.setting = x]
      BY <2>5 DEF Turn
    <3>3. DOMAIN part' = DOMAIN part /\ part'.volume \in {part.volume} \cup Volumes
      BY <3>2 DEF Audible
    <3> QED BY <1>1, <3>1, <3>3 DEF Audible
  <2>6. CASE UNCHANGED soundVars
    BY <2>6 DEF soundVars, Audible
  <2> QED BY <2>1, <2>2, <2>3, <2>4, <2>5, <2>6 DEF SoundNext
<1> QED BY <1>3, <1>4, VoicePitches, PTL DEF SoundSpec

\* For every tone, part and pressure: what the part asks for moves the depth of
\* the vibrato to its own side of the tone's, also of a reversed one; turned
\* down by the controllers, a voice without tremolo is not louder than its
\* volumes make it.
THEOREM SettingsOnlyOneWay == SoundSpec => SettingsWorkOneWay
<1>1. ASSUME IInv, Moving, Pitching, Audible, Pitching', Moving', NEW elapsed \in Elapsed,
             Tick(elapsed)
      PROVE  /\ DepthOnItsSide(PitchDepth(sound.osc1.pitchDepth), sound'.osc1.depths[3])
             /\ NoTremolo(sound') /\ sound'.added["level"] < 0 =>
                  sound'.level <= Squared(KeyLevel(PartLevel(part.volume, note.tone.volume, 127),
                                                   FALSE, 0))
  <2> DEFINE shift == Controlled(sound, part.controls, part.pressure).added["rate1"]
             own == sound.osc1.pitchDepth
  <2>1. sound'.level = Leveled(sound', part, note.tone)
    BY <1>1, TickWrites
  <2>2. PICK chip \in Chip : sound'.osc1 = FirstTick(sound.osc1, part, shift, elapsed, chip)
    BY <1>1, TickWrites
  <2> HIDE DEF shift
  <2>3. chip \in Int /\ elapsed \in Nat
    BY InputAssumption
  <2>4. /\ Oscillates(sound.osc1) /\ Swollen(sound.osc1)
        /\ part.depth \in 0 .. 127 /\ own \in 0 .. 255
    BY <1>1 DEF Moving, Oscillates
  <2>5. sound'.osc1.depths[3] = Depth(own, part.depth)
    <3> DEFINE m == FirstTick(sound.osc1, part, shift, elapsed, chip)
    <3>1. m.depths[3] = Depth(own, part.depth)
      BY <2>3, <2>4, FirstSwells
    <3> HIDE DEF m
    <3> QED BY <2>2, <3>1 DEF m
  <2>6. DepthOnItsSide(PitchDepth(own), sound'.osc1.depths[3])
    <3> HIDE DEF own
    <3> QED BY <2>4, <2>5, DepthMovesOneWay DEF DepthOnItsSide
  <2>7. ASSUME NoTremolo(sound'), sound'.added["level"] < 0
        PROVE  Leveled(sound', part, note.tone) <=
                 Squared(KeyLevel(PartLevel(part.volume, note.tone.volume, 127), FALSE, 0))
    <3>1. /\ sound'.added["level"] \in Int
          /\ sound'.osc1.out \in Int /\ sound'.osc2.out \in Int
      BY <1>1 DEF Pitching, Whole, Runs
    <3>2. part.volume \in 0 .. 127 /\ note.tone.volume \in 0 .. 127
      BY <1>1, PatchAssumption DEF Audible, IInv, Settled
    <3> QED BY <2>7, <3>1, <3>2, TurnedDownIsQuieter
  <2> QED BY <2>1, <2>6, <2>7
<1>2. ASSUME IInv, Moving, Pitching, Audible, Pitching', Moving', [SoundNext]_soundVars
      PROVE  [Ticks =>
                /\ DepthOnItsSide(PitchDepth(sound.osc1.pitchDepth), sound'.osc1.depths[3])
                /\ NoTremolo(sound') /\ sound'.added["level"] < 0 =>
                     sound'.level <=
                       Squared(KeyLevel(PartLevel(part.volume, note.tone.volume, 127),
                                        FALSE, 0))]_soundVars
  BY <1>1, <1>2, OnlyTicksTick
<1> QED BY <1>2, VoiceKept, VoiceMoves, VoicePitches, VoiceIsAudible, PTL
        DEF SoundSpec, SettingsWorkOneWay

=============================================================================
