------------------------------ MODULE VoiceLfo ------------------------------
(***************************************************************************)
(* The two low-frequency oscillators of a voice: a delay, a fade-in of the *)
(* three depths (pitch, level, filter), and the wave (0x3709, 0x37fe).     *)
(*                                                                         *)
(*   wait, pace       phase of the delay and its step per tick             *)
(*   fade, fadeRate   phase of the fade-in                                 *)
(*   depths, scaled   of level, cutoff, pitch: at full strength, faded in  *)
(*   rate, shift      index of the rate and what the controllers add       *)
(*   wave, phase, target, slewed, out                                      *)
(***************************************************************************)
EXTENDS Words, Sequences

CONSTANTS RateOf,     \* ROM: 6d86
          DepthOf,    \* ROM: 7086, of the pitch
          CutoffDepthOf, \* ROM: 6f86
          SineOf,     \* ROM: 7186, a half wave and one entry more
          SlewStep    \* of the two random waves (movi r6 at 3a54, 3a57)

FastestRate == 10486  \* 0x28f6

ASSUME VoiceLfoAssumption == /\ RateOf \in [0 .. 127 -> 0 .. FastestRate]
                             /\ DepthOf \in [0 .. 127 -> Positive]
                             /\ CutoffDepthOf \in [0 .. 127 -> Positive]
                             /\ SineOf \in [0 .. 129 -> 0 .. 255]
                             /\ SlewStep \in [{"slow", "fast"} -> Positive]

(* A deeper setting is never a shallower vibrato.                          *)
ASSUME DepthAssumption == \A i, j \in 0 .. 127 : i <= j => DepthOf[i] <= DepthOf[j]

Waves == {"sine", "slow", "fast"}  \* the wave forms the source translates

-----------------------------------------------------------------------------
(* Indices of rate and depth, with what the part asks for (64: nothing).   *)

RateIndex(own, part) == Smaller(Floor0(own + part - 64), 127)

(* Bytes: a result with bit 7 set is out of range, above or below as the   *)
(* code expects it.                                                        *)
ByteSum(a, b, limit) ==
  LET s == (a + b) % Bit8 IN IF s < 128 THEN s ELSE limit

DepthUp(own, part) ==
  IF part >= 64 THEN ByteSum(own, 2 * (part - 64), 127)
  ELSE ByteSum(own, -2 * (64 - part), 0)
(* Mutant: a reversed depth is moved the other way.                        *)
DepthDown_AsUp(own, part) ==
  IF part >= 64 THEN ByteSum(own, 2 * (part - 64), 0)
  ELSE ByteSum(own, -2 * (64 - part), 127)
DepthDown(own, part) ==
  IF part >= 64 THEN ByteSum(own, -2 * (part - 64), 0)
  ELSE ByteSum(own, 2 * (64 - part), 127)

(* Bit 7 of the depth reverses the wave.                                   *)
Depth(own, part) ==
  IF own >= 128 THEN -DepthOf[DepthDown(own - 128, part)]
  ELSE DepthOf[DepthUp(own, part)]

(* The depths of a tone.                                                   *)
LevelDepth(b) == WithSign(b >= 128, (b % 128) * Bit8)
CutoffDepth(b) == WithSign(b >= 128, CutoffDepthOf[b % 128])
PitchDepth(b) == WithSign(b >= 128, DepthOf[b % 128])
ToneDepths(t) == <<LevelDepth(t.level), CutoffDepth(t.cutoff), PitchDepth(t.pitch)>>

-----------------------------------------------------------------------------
(* Delay and fade-in.                                                      *)

(* Mutant: the carry of the sum is not looked at.                          *)
Delayed_Wraps(l, elapsed) == (elapsed * l.pace + l.wait) % Bit16

Delayed(l, elapsed) == Smaller(elapsed * l.pace + l.wait, Top)
FadedIn(l, elapsed) == Smaller(elapsed * l.fadeRate + l.fade, Top)

Scaled(depth, phase) == WithSign(depth < 0, High(Magnitude(depth), phase))

(* In the tick that ends it the depths are still one too small.            *)
FadeIn(l, elapsed) ==
  IF l.fade = Top THEN [l EXCEPT !.scaled = l.depths]
  ELSE LET there == FadedIn(l, elapsed)
       IN [l EXCEPT !.fade = there,
                    !.scaled = [i \in 1 .. 3 |-> Scaled(l.depths[i], there)]]

(* The tick that ends the delay counts for the fade-in too.                *)
Onset(l, elapsed) ==
  LET there == IF l.wait = Top THEN Top ELSE Delayed(l, elapsed)
      m == [l EXCEPT !.wait = there]
  IN IF there = Top THEN FadeIn(m, elapsed) ELSE m

-----------------------------------------------------------------------------
(* The waves.                                                              *)

Rate(index, shift) ==
  LET sum == (RateOf[index] + shift) % Bit16
  IN IF sum <= FastestRate THEN sum ELSE IF shift < 0 THEN 0 ELSE FastestRate

(* 0x8000 * sin, by the distance from the middle of the period.            *)
HalfWave(far) ==
  LET i == far \div Bit8
      step == SineOf[i + 1] - SineOf[i]
  IN (SineOf[i] * Bit8 + (far % Bit8) * step) \div 2

Sine(phase) ==
  LET w == HalfWave(Magnitude(phase - 32768))
  IN IF phase > 32768 THEN -w ELSE w

(* To the target in steps of by; a step that passes it, or 2^15, ends on   *)
(* it.                                                                     *)
Slew(from, to, by) ==
  IF to >= from THEN Smaller(from + by, to) ELSE Larger(from - by, to)

(* Random: twice a period the wave goes to a new target, which is read     *)
(* from a register of the chip.                                            *)
Random(l, step, chip, by) ==
  LET there == 2 * step + l.phase
      target == IF there >= Bit16 THEN chip ELSE l.target
      level == Slew(l.slewed, target, by)
  IN [l EXCEPT !.phase = there % Bit16, !.target = target, !.slewed = level,
               !.out = level]

Wave(l, elapsed, chip) ==
  LET step == elapsed * Rate(l.rate, l.shift)
      there == (step + l.phase) % Bit16
  IN IF l.wave = "sine" THEN [l EXCEPT !.phase = there, !.out = Sine(there)]
     ELSE Random(l, step, chip, SlewStep[l.wave])

-----------------------------------------------------------------------------
(* An oscillator taken over from another voice.                            *)

(* When a note starts: everything but the depths; then, tick by tick.      *)
TakenOver(l, other) == [other EXCEPT !.depths = l.depths]
Following(l, other) ==
  [l EXCEPT !.phase = other.phase, !.target = other.target,
            !.slewed = other.slewed, !.out = other.out, !.wait = other.wait,
            !.fade = other.fade, !.scaled = other.scaled]

(* The first oscillator of the second voice of a pair: the wave of the     *)
(* first voice, the depths its own, that of the pitch as the part asks.    *)
PairCopied(l, other) ==
  [l EXCEPT !.phase = other.phase, !.target = other.target,
            !.slewed = other.slewed, !.out = other.out, !.wait = other.wait,
            !.fade = other.fade, !.shift = other.shift]
PairFaded(l) ==
  IF l.wait # Top THEN [i \in 1 .. 3 |-> 0]
  ELSE [i \in 1 .. 3 |-> IF l.fade = Top /\ i # 3 THEN l.depths[i]
                         ELSE Scaled(l.depths[i], l.fade)]
PairDepth(l, part) == Depth(l.pitchDepth, part)
PairTick(l, other, part) ==
  LET m == PairCopied(l, other)
      n == IF m.wait = Top THEN [m EXCEPT !.depths[3] = PairDepth(l, part)] ELSE m
  IN [n EXCEPT !.scaled = PairFaded(n)]

(* One tick.                                                               *)
LfoTick(l, elapsed, chip) == Wave(Onset(l, elapsed), elapsed, chip)
=============================================================================
