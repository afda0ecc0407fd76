--------------------------- MODULE VoiceControls ---------------------------
(***************************************************************************)
(* What the controllers add to a voice (0x5998): the pressure on its own   *)
(* key, and five words of the part, one for every other controller.  Each  *)
(* of the eleven destinations has a sum, a limit for it, and a factor that *)
(* brings it to the scale of the routine that reads it.                    *)
(*                                                                         *)
(*   c.sense[d]   what the part lets key pressure do to destination d      *)
(*   c.words[d]   the sum of the other five words, not reduced             *)
(***************************************************************************)
EXTENDS Words

Destinations == {"pitch", "level", "cutoff", "rate1", "rate2",
                 "pitch1", "level1", "cutoff1", "pitch2", "level2", "cutoff2"}

CutoffLimit == 4000    \* 0x0fa0, of the level and the rates too
PitchLimit == 3048     \* 0x0be8
SwayLimit == 4032      \* 0x0fc0

(* sense about 64, or from zero upwards, by the pressure.                  *)
Pressed(sense, pressure) ==
  IF sense < 64 THEN -((64 - sense) * pressure) ELSE (sense - 64) * pressure
Halved(sense, pressure) ==
  IF sense < 64 THEN -(((64 - sense) * pressure) \div 2)
  ELSE ((sense - 64) * pressure) \div 2
Quartered(sense, pressure) == (sense * pressure) \div 4

(* Words are added up without a test for an overflow.                      *)
Total(own, words) == Signed((own + words) % Bit16)

(* Mutant: the limit holds for the magnitude of positive sums only.        *)
Limited_OneSide(sum, limit, scale, factor) ==
  IF sum < 0 THEN -High((-sum * scale) % Bit16, factor)
  ELSE High(Smaller(sum, limit) * scale, factor)

Limited(sum, limit, scale, factor) ==
  WithSign(sum < 0, High(Smaller(Magnitude(sum), limit) * scale, factor))

-----------------------------------------------------------------------------
(* The sum for every destination.                                          *)

PitchSum(c, pressure) == Total(Pressed(c.sense["pitch"], pressure), c.words["pitch"])
LevelSum(c, pressure) == Total(Halved(c.sense["level"], pressure), c.words["level"])
CutoffSum(c, pressure) == Total(Halved(c.sense["cutoff"], pressure), c.words["cutoff"])
Rate1Sum(c, pressure) == Total(Halved(c.sense["rate1"], pressure), c.words["rate1"])
Rate2Sum(c, pressure) == Total(Halved(c.sense["rate2"], pressure), c.words["rate2"])
Pitch1Sum(c, pressure) == Total(Quartered(c.sense["pitch1"], pressure), c.words["pitch1"])
Level1Sum(c, pressure) == Total(Quartered(c.sense["level1"], pressure), c.words["level1"])
Cutoff1Sum(c, pressure) == Total(Quartered(c.sense["cutoff1"], pressure), c.words["cutoff1"])
Pitch2Sum(c, pressure) == Total(Quartered(c.sense["pitch2"], pressure), c.words["pitch2"])
Level2Sum(c, pressure) == Total(Quartered(c.sense["level2"], pressure), c.words["level2"])
Cutoff2Sum(c, pressure) == Total(Quartered(c.sense["cutoff2"], pressure), c.words["cutoff2"])

(* And as the voice gets it.                                               *)

PitchAdded(sum) == Limited(sum, PitchLimit, 8, 64504)
LevelAdded(sum) == Limited(sum, CutoffLimit, 16, 33293)
CutoffAdded(sum) == Limited(sum, CutoffLimit, 8, 50332)
Rate1Added(sum) == Limited(sum, CutoffLimit, 2, 42951)
Rate2Added(sum) == Limited(sum, CutoffLimit, 2, 42951)
Pitch1Added(sum) == Limited(sum, SwayLimit, 2, 48762)
Level1Added(sum) == Limited(sum, SwayLimit, 16, 33029)
Cutoff1Added(sum) == Limited(sum, SwayLimit, 2, 49933)
Pitch2Added(sum) == Limited(sum, SwayLimit, 2, 48762)
Level2Added(sum) == Limited(sum, SwayLimit, 16, 33029)
Cutoff2Added(sum) == Limited(sum, SwayLimit, 2, 49933)

-----------------------------------------------------------------------------
(* The whole routine.                                                      *)

Controlled(v, c, pressure) ==
  [v EXCEPT !.added =
     [pitch |-> PitchAdded(PitchSum(c, pressure)),
      level |-> LevelAdded(LevelSum(c, pressure)),
      cutoff |-> CutoffAdded(CutoffSum(c, pressure)),
      rate1 |-> Rate1Added(Rate1Sum(c, pressure)),
      rate2 |-> Rate2Added(Rate2Sum(c, pressure)),
      pitch1 |-> Pitch1Added(Pitch1Sum(c, pressure)),
      level1 |-> Level1Added(Level1Sum(c, pressure)),
      cutoff1 |-> Cutoff1Added(Cutoff1Sum(c, pressure)),
      pitch2 |-> Pitch2Added(Pitch2Sum(c, pressure)),
      level2 |-> Level2Added(Level2Sum(c, pressure)),
      cutoff2 |-> Cutoff2Added(Cutoff2Sum(c, pressure))]]

(* The second voice of a pair gets what was computed for the first.        *)
CopiedFrom(v, first) == [v EXCEPT !.added = first.added]
=============================================================================
