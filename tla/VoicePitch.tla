----------------------------- MODULE VoicePitch -----------------------------
(***************************************************************************)
(* From the pitch envelope, the vibratos, bend, tuning and portamento of a *)
(* voice to the step with which the chip reads its sample (0x4de7, with    *)
(* the helper at 0x50ef).                                                  *)
(*                                                                         *)
(* Pitch is in thousandths of a semitone, 24 bits, computed in parts of 16 *)
(* and 8 bits with the carry between them.  Here it is an integer, with    *)
(* the width put back where a result may leave it.                         *)
(***************************************************************************)
EXTENDS Words

CONSTANTS Fine, Coarse,   \* ROM: 78ee and 7aee, the step within an octave
          GlideRate       \* ROM: 77a6, by the portamento time of the part

ASSUME VoicePitchAssumption == /\ Fine \in [0 .. 255 -> Word]
                               /\ Coarse \in [0 .. 46 -> Word]
                               /\ GlideRate \in [0 .. 127 -> Word]

Octave == 12000
HighestPitch == 127000   \* 0x1f018
SwingLimit == 6000       \* 0x1770
BeatKey == 81000         \* 0x13c68

-----------------------------------------------------------------------------
(* The pitch envelope.                                                     *)

(* One tick of the phase.  Ticks that a segment does not use up are left   *)
(* for the next one.                                                       *)
Advance(v, elapsed) ==
  LET there == ((elapsed + v.left) % Bit16) * v.rate + v.phase
  IN IF there < Bit16 THEN [v EXCEPT !.phase = there, !.left = 0]
     ELSE [v EXCEPT !.phase = Top, !.left = (there - Top) \div v.rate]

(* The code keeps the lower words of both ends and the upper byte of the   *)
(* first: the distance is less than 2^16.                                  *)
Between(v) ==
  IF ~v.falling
  THEN v.from + High((v.to - v.from) % Bit16, v.phase)
  ELSE v.from - High((v.from - v.to) % Bit16, v.phase)

Detuned(pitch, detune) ==
  IF detune < 0 THEN Floor0(pitch + detune)
  ELSE Smaller(pitch + detune, HighestPitch)

-----------------------------------------------------------------------------
(* The two vibratos.                                                       *)

(* What the oscillator has and what the coefficients add, of like signs,   *)
(* is limited; of unlike signs it cannot be too large.                     *)
Swing(own, added) ==
  CASE own >= 0 /\ added >= 0 -> Smaller(own + added, SwingLimit)
    [] own < 0 /\ added < 0 -> -Smaller((-own - added) % Bit16, SwingLimit)
    [] OTHER -> own + added

(* |swing| * |depth| * 2 / 2^16, rounded, with the sign of the product;    *)
(* the lowest depth doubles to zero.                                       *)
Swung(pitch, swing, depth) ==
  LET twice == (2 * Magnitude(depth)) % Bit16
      by == (Magnitude(swing) * twice + 32768) \div Bit16
  IN IF (swing < 0) = (depth < 0) THEN pitch + by ELSE Floor0(pitch - by)

-----------------------------------------------------------------------------
(* Master tune, bend of the part.                                          *)

Tuned(pitch, tune) ==
  LET by == Signed((tune - 1024) % Bit16)
  IN IF by < 0 THEN Floor0(pitch + by) ELSE pitch + by

Bent(pitch, bend) == IF bend < 0 THEN Floor0(pitch + bend) ELSE pitch + bend

-----------------------------------------------------------------------------
(* Portamento: what is left of the way to the key goes to zero and stays.  *)

GlideStep(time, elapsed) == elapsed * GlideRate[time]

(* Mutant: the end is looked for before the step.                          *)
Glide_Passes(offset, step) ==
  IF offset < 0 THEN Signed24(offset + step) ELSE Signed24(offset - step)

Glide(offset, step) ==
  IF offset < 0 THEN -Floor0(Signed24(-offset - step))
  ELSE Floor0(Signed24(offset - step))

-----------------------------------------------------------------------------
(* From pitch to step: a power of two from two tables, and a shift for     *)
(* every octave below.                                                     *)

Ratio(part) ==
  LET c == Coarse[part \div Bit8]
  IN (c + High(Fine[part % Bit8], c) \div 64) % Bit16

(* Nowhere in the octave does the sample stand still.                      *)
ASSUME RatioAssumption == \A part \in 0 .. Octave - 1 : Ratio(part) # 0

ShiftRight(w, n) == IF n > 15 THEN 0 ELSE w \div 2 ^ n

(* The code divides the magnitude and turns quotient and remainder round.  *)
(* Mutant: also where nothing is left over.                                *)
FloorSplit_Always(d) ==
  LET q == (-d) \div Octave
      r == (-d) % Octave
  IN [octaves |-> q + 1, part |-> Octave - r]

FloorSplit(d) ==
  LET q == (-d) \div Octave
      r == (-d) % Octave
  IN IF r = 0 THEN [octaves |-> q, part |-> 0]
     ELSE [octaves |-> q + 1, part |-> Octave - r]

StepBelow(d) == LET s == FloorSplit(d)
                IN ShiftRight(Ratio(s.part), s.octaves)
StepAbove(d) == IF d >= Octave THEN Top ELSE Ratio(d)

(* d: distance above the octave over the key the sample was recorded at.   *)
Step(d) == IF d < 0 THEN StepBelow(d) ELSE StepAbove(d)

-----------------------------------------------------------------------------
(* An offset of the step that beats evenly in every key: computed anew     *)
(* when the setting (P46+7) changes.                                       *)

BeatBelow(d) == LET s == FloorSplit(d)
                    w == ShiftRight(Ratio(s.part), s.octaves)
                IN IF s.octaves # 0 THEN Larger(w, 1) ELSE w
BeatAbove(d) == IF d >= Octave THEN Top ELSE Ratio(d)

Beat(setting, key) ==
  LET d == key - BeatKey
      unit == IF d < 0 THEN BeatBelow(d) ELSE BeatAbove(d)
      by == Magnitude(setting - 128)
      much == IF by >= unit THEN 32767 ELSE Smaller(Fraction(by, unit), 32767)
  IN WithSign(setting < 128, much)

Beating(step, beat) ==
  IF beat < 0 THEN Floor0(step + beat) ELSE Smaller(step + beat, Top)

-----------------------------------------------------------------------------
(* The sample has come to its loop, which was recorded at another key      *)
(* (0x2669): a step for that key at once, with the beat of the old one,    *)
(* and the setting cleared to have the beat computed at the next tick.     *)

\* The code divides and shifts once more, apart from the tick's.
LoopStep(d) == IF d < 0 THEN StepBelow(d) ELSE StepAbove(d)

(* Mutant: the setting stays.                                              *)
Looped_KeepsSetting(v, key) ==
  [v EXCEPT !.key = key,
            !.step = Beating(LoopStep(Signed24(v.pitch - key - Octave)), v.beat)]

Looped(v, key) ==
  [v EXCEPT !.key = key, !.setting = 0,
            !.step = Beating(LoopStep(Signed24(v.pitch - key - Octave)), v.beat)]

-----------------------------------------------------------------------------
(* The whole routine, for one tick of a voice v of a part p.               *)

PitchTick(v, p, elapsed) ==
  LET w == Advance(v, elapsed)
      base == Detuned(Between(w), v.detune)
      sway1 == Swung(base, Swing(v.lfo1, v.add1), v.depth1)
      sway2 == Swung(sway1, Swing(v.lfo2, v.add2), v.depth2)
      kept == Bent(Tuned(sway2, p.tune), p.bend)
      offset == IF v.offset = 0 THEN 0
                ELSE Glide(v.offset, GlideStep(p.time, elapsed))
      pitch == kept + offset
      beat == IF p.setting = v.setting THEN v.beat ELSE Beat(p.setting, v.key)
      step == Step(Signed24(pitch - v.key - Octave))
  IN [w EXCEPT !.pitch = pitch, !.offset = offset, !.setting = p.setting,
               !.beat = beat, !.step = Beating(step, beat)]
=============================================================================
