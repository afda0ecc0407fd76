----------------------------- MODULE VoiceSetup -----------------------------
(***************************************************************************)
(* What a voice is given when its note starts (0x272e): second oscillator, *)
(* addresses of the sample, levels and time factors of the envelope from   *)
(* key and velocity, sends, pan, and the level with which it starts.       *)
(*                                                                         *)
(*   t   the tone: bytes of ROM or of the user's memory                    *)
(*   s   the sample's entry       p   the part       v   the voice         *)
(***************************************************************************)
EXTENDS VoiceLevel

CONSTANTS Attenuation,  \* ROM: 6883, a volume or a velocity in 3/8 dB
          Loudness,     \* ROM: 6903, and back to 7 bits
          Factor,       \* ROM: 650e, by the distance of a setting from 64
          KeyLevelOf,   \* ROM: 673a
          KeyTimeOf,    \* ROM: 653a, words about entry 128
          DelayOf,      \* ROM: 6c86, milliseconds * 8
          LfoTimeOf,    \* ROM: 6e86
          PanGain,      \* ROM: 6a03
          WaveOf        \* ROM: 7207

ASSUME VoiceSetupAssumption ==
  /\ Attenuation \in [0 .. 127 -> 0 .. 255] /\ Loudness \in [0 .. 255 -> 0 .. 127]
  /\ Factor \in [0 .. 64 -> 0 .. 64]   \* 0x1fc0 is 127 * 64
  /\ KeyLevelOf \in [0 .. 64 -> 0 .. 255] /\ KeyTimeOf \in [64 .. 192 -> Word]
  /\ DelayOf \in [0 .. 127 -> Word] /\ LfoTimeOf \in [0 .. 127 -> Word]
  /\ PanGain \in [0 .. 128 -> 0 .. 255] /\ DOMAIN WaveOf = 0 .. 15

Neutral == 256   \* of a time factor

-----------------------------------------------------------------------------
(* The oscillators, where no other voice's is taken over: two bits of      *)
(* phase to start with and four for the wave; a random wave starts from    *)
(* what the chip has.                                                      *)

Fresh(wave, phase, chip) ==
  [wave |-> wave, phase |-> phase, target |-> chip, slewed |-> chip, out |-> 0,
   wait |-> 0, fade |-> 0, scaled |-> [i \in 1 .. 3 |-> 0]]

FirstLfo(t, chip) == Fresh(WaveOf[t.flags1 % 16], (t.flags1 \div 64) * 16384, chip)
SecondLfo(t, chip) == Fresh(WaveOf[t.flags2 % 16], (t.flags2 \div 64) * 16384, chip)

(* The part moves the delay of the first oscillator.                       *)
DelayIndex(own, part) == Smaller(Floor0(own + 2 * (part - 64)), 127)

FirstTimes(t, part) ==
  [pace |-> IF t.delay1 >= 128 THEN 0 ELSE LfoTimeOf[DelayIndex(t.delay1, part)],
   fadeRate |-> LfoTimeOf[t.fade1], rate |-> t.rate1]
SecondTimes(t) ==
  [pace |-> IF t.delay2 >= 128 THEN 0 ELSE LfoTimeOf[t.delay2],
   fadeRate |-> LfoTimeOf[t.fade2], rate |-> t.rate2]

-----------------------------------------------------------------------------
(* The sample: where it starts, ends, and loops back to.  A tied note      *)
(* enters it behind the attack.                                            *)

Addresses(s, tied) ==
  LET end == (s.base + s.length) % Bit24
  IN [start |-> IF tied THEN (s.base + s.offset) % Bit24 ELSE s.base,
      end |-> end, loop |-> (end - s.loop) % Bit24]

(* Bank of the sample, direction, and the number of the voice.             *)
Mode(a, s, slot) ==
  [bank |-> (a.loop \div Bit16) \div 16, oneWay |-> s.flags % 2 = 1,
   slot |-> slot, keeps |-> (s.flags \div 2) % 2 = 1]

(* A tied note leaves the voice as it is: level and filter are held where  *)
(* they have come to, and the stage of the envelope is put aside.          *)
Parked(v) ==
  [v EXCEPT !.goals = v.ramps,
            !.kept = IF v.stage = "parked" THEN @ ELSE v.stage,
            !.stage = "parked"]

-----------------------------------------------------------------------------
(* Levels, in steps of 3/8 dB below 255.                                   *)

Less(level, by) == IF level > by THEN level - by ELSE 1

ToneLevel(t) == Less(255, Attenuation[t.volume])

(* By the curve of the key, towards the side the setting asks for.         *)
KeyedLevel(level, setting, curve) ==
  LET by == KeyLevelOf[(Magnitude(curve - 128) * Factor[Magnitude(setting - 64)] * 2) \div Bit8]
  IN IF (setting < 64) = (curve < 128) THEN Smaller(level + by, 255)
     ELSE Less(level, by)

PlayedLevel(level, velocity, sampleVolume, partialVolume) ==
  Less(Less(Less(level, Attenuation[velocity]), Attenuation[sampleVolume]),
       Attenuation[partialVolume])

NoteLevel(t, s, velocity, curve) ==
  PlayedLevel(KeyedLevel(ToneLevel(t), t.keyLevel, curve), velocity, s.volume, t.partial)

(* The four levels the envelope goes to.                                   *)
EnvLevels(level, t) ==
  [i \in 1 .. 4 |-> Loudness[Floor0(level - Attenuation[t.levels[i]])]]

-----------------------------------------------------------------------------
(* Time factors: attack, then decay; by key, then by velocity.             *)

(* A setting below 64 turns the curve round; 0 has no counterpart.         *)
TurnedCurve(setting, curve) ==
  IF setting >= 64 THEN curve ELSE IF curve = 0 THEN 255 ELSE 256 - curve

KeyTime(setting, curve) ==
  LET c == TurnedCurve(setting, curve)
      by == (Magnitude(c - 128) * Factor[Magnitude(setting - 64)] * 2) \div Bit8
  IN IF setting = 64 \/ c = 128 THEN Neutral
     ELSE KeyTimeOf[IF c < 128 THEN 128 - by ELSE 128 + by]

(* Mutant: the shortest time is not looked for.                            *)
VelocityTime_NoFloor(setting, velocity) ==
  LET soft == (127 - velocity) * Factor[Magnitude(setting - 64)]
  IN CASE setting = 64 -> Neutral
       [] setting < 64 -> High((8128 - soft) % Bit16, 2064)
       [] OTHER -> IF soft > 8096 THEN Top ELSE 2080768 \div (8128 - soft)

(* Softer notes by a share of 8128 = 127 * 64, or by its reciprocal.       *)
VelocityTime(setting, velocity) ==
  LET soft == (127 - velocity) * Factor[Magnitude(setting - 64)]
  IN CASE setting = 64 -> Neutral
       [] setting < 64 -> IF soft > 8000 THEN 4 ELSE High(8128 - soft, 2064)
       [] OTHER -> IF soft > 8096 THEN Top ELSE 2080768 \div (8128 - soft)

AttackByKey(t, curves) == KeyTime(t.attackKey, curves.attack)
DecayByKey(t, curves) == KeyTime(t.decayKey, curves.decay)
AttackByVelocity(t, velocity) == VelocityTime(t.attackVelocity, velocity)
DecayByVelocity(t, velocity) == VelocityTime(t.decayVelocity, velocity)

(* Bit 7 of a time tells whether the segment is a straight line.           *)
Segments(t) ==
  [i \in 1 .. 5 |-> [line |-> t.times[i] >= 128, time |-> t.times[i] % 128]]

-----------------------------------------------------------------------------
(* The delay before the note is heard.  No delay ends at once; bit 7 waits *)
(* for the key to be released.                                             *)

Delay(t) ==
  IF t.wait >= 128 THEN [phase |-> 0, pace |-> 0]
  ELSE LET ticks == (DelayOf[t.wait] + 4) \div 8
       IN IF ticks = 0 THEN [phase |-> Top, pace |-> 0]
          ELSE [phase |-> 0, pace |-> Top \div ticks]

-----------------------------------------------------------------------------
(* Sends, pan and level.                                                   *)

Sends(p, drum) ==
  IF ~drum.is THEN [reverb |-> p.reverb, chorus |-> p.chorus]
  ELSE [reverb |-> (p.reverb * drum.reverb * 2 + 255) \div Bit8,
        chorus |-> (p.chorus * drum.chorus * 2 + 255) \div Bit8]

(* Where in the stereo field: of the tone, of the key, or by a table.      *)
TonePan(t, panCurve) == IF t.panTable % 4 = 0 THEN t.pan ELSE panCurve

PannedBy(pan, by) == Smaller(Floor0(pan + by - 64), 127)

(* 0 stands for a random place, of the part, and of the drum.              *)
Pan(p, drum, tonePan, master, chip) ==
  IF p.pan = 0 \/ (drum.is /\ drum.pan = 0) THEN chip \div 512
  ELSE LET part == IF drum.is THEN PannedBy(p.pan, drum.pan) ELSE p.pan
           tone == PannedBy(tonePan, part)
       IN IF master = 0 THEN tone ELSE PannedBy(tone, master)

PanGains(pan) == [left |-> PanGain[pan], right |-> PanGain[128 - pan]]
=============================================================================
