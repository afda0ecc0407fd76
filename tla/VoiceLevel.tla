----------------------------- MODULE VoiceLevel -----------------------------
(***************************************************************************)
(* The level of a voice: volumes of part, tone and master, then of the     *)
(* drum key, an offset of the controllers and two tremolos, squared        *)
(* (0x2d95, with the helper at 0x2e25).                                    *)
(***************************************************************************)
EXTENDS Words

TremoloLimit == 32512      \* 0x7f00
DrumScale == 33550         \* 0x830e
ToneScale == 33288         \* 0x8208

(* Three volumes of at most 127 each: the middle of their product.         *)
PartLevel(part, tone, master) == ((part * tone * master * 4) \div Bit8) % Bit16

(* key = 0: not a drum, whose volumes are in a table of their own.         *)
KeyLevel(level, isDrum, key) ==
  IF isDrum
  THEN LET l == ((level * key * 2) \div Bit8) % Bit16
       IN 2 * High(l, DrumScale) + ((l * DrumScale % Bit16) * 2) \div Bit16
  ELSE 2 * High(level, ToneScale) + ((level * ToneScale % Bit16) * 2) \div Bit16

(* The offset is added without a test for an overflow.                     *)
Offset(level, by) ==
  IF by < 0 THEN Floor0(level + by) ELSE (level + by) % Bit16

TremoloSum(own, added) ==
  CASE own >= 0 /\ added >= 0 -> Smaller(own + added, TremoloLimit)
    [] own < 0 /\ added < 0 -> -Smaller((-own - added) % Bit16, TremoloLimit)
    [] OTHER -> own + added

(* |sum| * |depth| * 2 / 2^16, rounded up; only the difference has a floor.*)
Tremolo(level, sum, depth) ==
  LET amount == Magnitude(sum) * (Magnitude(depth) % Bit16)
      by == (amount + 32767) \div 32768
  IN IF (sum < 0) = (depth < 0) THEN (level + by) % Bit16
     ELSE Floor0(level - by)

(* The square, times 520 / 2^24 of full scale, and full scale from there.  *)
Squared(level) ==
  LET square == High(level, level) * 520
  IN IF square \div Bit16 >= 255 THEN Top ELSE square \div Bit8

(* The whole routine, for a voice v of a part p.                           *)
LevelTick(v, p) ==
  LET plain == KeyLevel(PartLevel(p.volume, p.tone, p.master), v.drum, v.keyLevel)
      moved == Offset(plain, v.levelOffset)
      once == Tremolo(moved, TremoloSum(v.trem1, v.tremAdd1), v.depth1)
      twice == Tremolo(once, TremoloSum(v.trem2, v.tremAdd2), v.depth2)
  IN IF plain = 0 THEN 0 ELSE Squared(twice)
=============================================================================
