------------------------------ MODULE VoiceSound ------------------------------
(***************************************************************************)
(* One voice of a part, from the note on, tick by tick: what the           *)
(* controllers add, the two oscillators, level and pitch, in the order of  *)
(* the time-slot scan (0x5869).  Between the ticks another task turns the  *)
(* settings of the part, the key is pressed harder, or the voice gets the  *)
(* next note.                                                              *)
(*                                                                         *)
(*   sound   the voice's record     part   the settings of its part        *)
(*   note    what the note was started with                                *)
(***************************************************************************)
EXTENDS VoicePitch, VoiceSetup, VoiceLfo, VoiceControls

CONSTANTS Patches,     \* the tones a note may have
          Sample,      \* the sample's entry
          StartPart,   \* the settings to begin with
          Velocities, Pressures, Volumes, Depths, Settings,
          Elapsed,     \* time between two ticks
          Chip,        \* what the register of random numbers may read
          MaxTicks, MaxTurns   \* bounds, of every note

\* Fields of a tone are bytes, what a key and a part give has 7 bits; a delay
\* has 7 bits, and bit 7 when it never ends.  Pitches and keys are between zero
\* and the highest, where the code has brought them.
ASSUME PatchAssumption ==
  \A t \in Patches :
    /\ t.attackVelocity \in 0 .. 127
    /\ t.flags1 \in 0 .. 255 /\ t.delay1 \in 0 .. 255 /\ t.fade1 \in 0 .. 127
    /\ t.flags2 \in 0 .. 255 /\ t.delay2 \in 0 .. 255 /\ t.fade2 \in 0 .. 127
    /\ \A own \in {t.sway1, t.sway2} :
         own.level \in 0 .. 255 /\ own.cutoff \in 0 .. 255 /\ own.pitch \in 0 .. 255
    /\ t.rate1 \in 0 .. 127 /\ t.rate2 \in 0 .. 127
    /\ t.glide \in Int /\ Magnitude(t.glide) <= HighestPitch
    /\ t.envRate \in Word /\ t.volume \in 0 .. 127
    /\ {t.envFrom, t.envTo, t.key, t.loopKey} \subseteq 0 .. HighestPitch

ASSUME InputAssumption ==
  /\ Velocities \subseteq 0 .. 127 /\ Pressures \subseteq 0 .. 127 /\ Volumes \subseteq 0 .. 127
  /\ Depths \subseteq 0 .. 127 /\ Elapsed \subseteq 1 .. 127 /\ Chip \subseteq Int
  /\ \A i \in 0 .. 15 : WaveOf[i] \in Waves

ASSUME PartAssumption ==
  /\ {"pressure", "volume", "depth", "setting", "controls", "time", "rate", "tune", "bend"}
       \subseteq DOMAIN StartPart
  /\ StartPart.pressure \in 0 .. 127 /\ StartPart.volume \in 0 .. 127
  /\ StartPart.depth \in 0 .. 127
  /\ StartPart.lfoDelay \in 0 .. 127 /\ StartPart.time \in 0 .. 127
  /\ StartPart.rate \in 0 .. 127 /\ StartPart.tune \in Word /\ StartPart.bend \in Int
  /\ StartPart.controls.sense \in [Destinations -> 0 .. 255]
  /\ StartPart.controls.words \in [Destinations -> Int]

VARIABLES sound, part, note, ticks, turns,
          odd    \* changes with every note

soundVars == <<sound, part, note, ticks, turns, odd>>

Centre == [attack |-> 128, decay |-> 40, level |-> 200]
NoDrum == [is |-> FALSE, key |-> 0, pan |-> 0, reverb |-> 127, chorus |-> 127]

Swaying(l, shift, elapsed, chip) ==
  LfoTick([l EXCEPT !.shift = shift], elapsed, chip)

(* Rate and depth of the first oscillator are what the part makes of them. *)
FirstTick(l, p, shift, elapsed, chip) ==
  LET depth == Depth(l.pitchDepth, p.depth)
  IN Swaying([l EXCEPT !.rate = RateIndex(l.ownRate, p.rate), !.depths[3] = depth],
             shift, elapsed, chip)

Leveled(s, p, t) ==
  LevelTick([drum |-> NoDrum.is, keyLevel |-> NoDrum.key, levelOffset |-> s.added["level"],
             trem1 |-> s.osc1.scaled[1], tremAdd1 |-> s.added["level1"], depth1 |-> s.osc1.out,
             trem2 |-> s.osc2.scaled[1], tremAdd2 |-> s.added["level2"], depth2 |-> s.osc2.out],
            [volume |-> p.volume, tone |-> t.volume, master |-> 127])

-----------------------------------------------------------------------------
(* Note on.                                                                *)

WithTimes(l, times, own) ==
  [wave |-> l.wave, phase |-> l.phase, target |-> l.target, slewed |-> l.slewed,
   out |-> l.out, wait |-> l.wait, fade |-> l.fade, scaled |-> l.scaled,
   pace |-> times.pace, fadeRate |-> times.fadeRate, ownRate |-> times.rate,
   rate |-> times.rate, shift |-> 0, depths |-> ToneDepths(own),
   pitchDepth |-> own.pitch]

NothingAdded == [d \in Destinations |-> 0]

Envelope(t) ==
  [phase |-> 0, left |-> 0, rate |-> t.envRate, from |-> t.envFrom, to |-> t.envTo,
   falling |-> t.envTo < t.envFrom, key |-> t.key, offset |-> t.glide,
   pitch |-> 0, setting |-> 128, beat |-> 0, step |-> 0,
   detune |-> 0, lfo1 |-> 0, add1 |-> 0, depth1 |-> 0, lfo2 |-> 0, add2 |-> 0, depth2 |-> 0]

(* Both oscillators have a first tick of their own.                        *)
FirstOf(t, p, shift, chip) ==
  FirstTick(WithTimes(FirstLfo(t, chip), FirstTimes(t, p.lfoDelay), t.sway1),
            p, shift, 1, chip)
SecondOf(t, shift, chip) ==
  Swaying(WithTimes(SecondLfo(t, chip), SecondTimes(t), t.sway2), shift, 1, chip)

(* A note of tone t: what goes to the chip as it is, is kept with the rest.*)
Struck(t, p, velocity, chip) ==
  LET c == Controlled([added |-> NothingAdded], p.controls, p.pressure)
      osc1 == FirstOf(t, p, c.added["rate1"], chip)
      osc2 == SecondOf(t, c.added["rate2"], chip)
      at == Addresses(Sample, FALSE)
      heard == [osc1 |-> osc1, osc2 |-> osc2, added |-> c.added]
  IN [osc1 |-> osc1, osc2 |-> osc2, added |-> c.added, second |-> heard,
      env |-> Envelope(t),
      stage |-> "attack", kept |-> "none", goals |-> <<>>,
      ramps |-> EnvLevels(NoteLevel(t, Sample, velocity, Centre.level), t),
      segments |-> Segments(t),
      attack |-> AttackByVelocity(t, velocity), decay |-> DecayByVelocity(t, velocity),
      byKey |-> <<AttackByKey(t, Centre), DecayByKey(t, Centre)>>,
      delay |-> Delay(t), at |-> at, mode |-> Mode(at, Sample, 3),
      sends |-> Sends(p, NoDrum),
      gains |-> PanGains(Pan(p, NoDrum, TonePan(t, 70), 0, chip)),
      level |-> Leveled(heard, p, t)]

(* The key is tied to the one before: the voice goes on with a new second  *)
(* oscillator, behind the attack of the sample.                            *)
Tied(v, t, chip) ==
  LET at == Addresses(Sample, TRUE)
  IN Parked([v EXCEPT !.osc2 = SecondOf(t, v.added["rate2"], chip), !.at = at, !.mode = Mode(at, Sample, 3)])

Note(t, velocity) == [tone |-> t, velocity |-> velocity]

SoundInit ==
  /\ part = StartPart
  /\ \E t \in Patches, velocity \in Velocities, chip \in Chip :
       note = Note(t, velocity) /\ sound = Struck(t, part, velocity, chip)
  /\ ticks = 0 /\ turns = 0 /\ odd = FALSE

(* The next note is one of another part, whose settings are untouched.     *)
Strike(t, velocity) ==
  /\ ticks = MaxTicks /\ odd' = ~odd \* bound
  /\ note' = Note(t, velocity) /\ part' = StartPart
  /\ \E chip \in Chip : sound' = Struck(t, part', velocity, chip)
  /\ ticks' = 0 /\ turns' = 0

-----------------------------------------------------------------------------
(* The tick.                                                               *)

Pitched(s, elapsed) ==
  LET e == s.env
  IN PitchTick([e EXCEPT !.detune = s.added["pitch"],
                         !.lfo1 = s.osc1.scaled[3], !.add1 = s.added["pitch1"],
                         !.depth1 = s.osc1.out,
                         !.lfo2 = s.osc2.scaled[3], !.add2 = s.added["pitch2"],
                         !.depth2 = s.osc2.out],
               part, elapsed)

Tick(elapsed) ==
  /\ ticks < MaxTicks /\ ticks' = ticks + 1 \* bound
  /\ \E chip \in Chip :
       LET c == Controlled(sound, part.controls, part.pressure)
           w == [c EXCEPT !.osc1 = FirstTick(@, part, c.added["rate1"], elapsed, chip),
                          !.osc2 = Swaying(@, c.added["rate2"], elapsed, chip)]
           pair == [osc1 |-> PairTick(w.second.osc1, w.osc1, part.depth),
                    osc2 |-> Following(w.second.osc2, w.osc2),
                    added |-> CopiedFrom(w.second, w).added]
       IN sound' = [w EXCEPT !.second = pair, !.level = Leveled(w, part, note.tone),
                             !.env = Pitched(w, elapsed)]
  /\ UNCHANGED <<part, note, turns, odd>>

(* A tie comes between two ticks; it counts as one.                        *)
Tie ==
  /\ ticks = 1 /\ ticks' = 2 \* bound
  /\ odd' = ~odd
  /\ \E chip \in Chip : sound' = Tied(sound, note.tone, chip)
  /\ UNCHANGED <<part, note, turns>>

(* The chip reports the loop of a sample whose report does not end the     *)
(* voice; that counts as a tick too.                                       *)
Loop ==
  /\ ~sound.mode.keeps
  /\ ticks = 1 /\ ticks' = 2 \* bound
  /\ odd' = ~odd
  /\ sound' = [sound EXCEPT !.env = Looped(@, note.tone.loopKey)]
  /\ UNCHANGED <<part, note, turns>>

-----------------------------------------------------------------------------
(* The settings of the part.                                               *)

Turn ==
  /\ turns < MaxTurns /\ turns' = turns + 1 \* bound
  /\ \/ \E x \in Pressures : part' = [part EXCEPT !.pressure = x]
     \/ \E x \in Volumes : part' = [part EXCEPT !.volume = x]
     \/ \E x \in Depths : part' = [part EXCEPT !.depth = x]
     \/ \E x \in Settings : part' = [part EXCEPT !.setting = x]
  /\ UNCHANGED <<sound, note, ticks, odd>>

SoundNext ==
  \/ \E t \in Patches, velocity \in Velocities : Strike(t, velocity)
  \/ \E elapsed \in Elapsed : Tick(elapsed)
  \/ Tie \/ Loop \/ Turn

SoundSpec == SoundInit /\ [][SoundNext]_soundVars

-----------------------------------------------------------------------------
(* Properties.                                                             *)

(* A tick of the same note.                                                *)
Ticks == ticks' > ticks /\ odd' = odd

(* Pitches below the table read it an octave, or more, higher, also where  *)
(* the pitch is a whole number of octaves below (dsp_rate.cpp:1497), at a  *)
(* tick and at the loop.  What beats is of the setting and the key in use, *)
(* but where the setting is 0: a loop clears it to have the beat computed  *)
(* anew, which a part that is set to 0 does not notice                     *)
(* (pcm_fraction_div.cpp:248).                                             *)
StepFollowsPitch ==
  ticks > 0 =>
    LET e == sound.env
        d == e.pitch - e.key - Octave
    IN /\ d < 0 => e.step = Beating(ShiftRight(Ratio(d % Octave), -(d \div Octave)), e.beat)
       /\ e.setting # 0 => e.beat = Beat(e.setting, e.key)

(* An oscillator swells to its full depth, and neither the delay nor the   *)
(* swell starts again, or falls back, whatever time a tick takes.          *)
Swells(l, m) ==
  /\ l.wait <= m.wait /\ l.fade <= m.fade
  /\ l.depths = m.depths =>
       \A i \in 1 .. 3 : Magnitude(l.scaled[i]) <= Magnitude(m.scaled[i])
OnsetNeverReturns ==
  [][Ticks => /\ Swells(sound.osc1, sound'.osc1)
                       /\ Swells(sound.osc2, sound'.osc2)]_soundVars

(* What moves to a goal ends there and never passes it, however long the   *)
(* tick was: the portamento at zero, from either side (dsp_rate.cpp:1251), *)
(* and a random wave at its target, which may have changed sides since the *)
(* tick before (pcm_interp.cpp:3373).                                      *)
Glides(was, is) == IF was < 0 THEN was <= is /\ is <= 0 ELSE 0 <= is /\ is <= was
Nears(l, m) ==
  /\ m.slewed >= Smaller(l.slewed, m.target)
  /\ m.slewed <= Larger(l.slewed, m.target)
NothingOvershoots ==
  [][Ticks => /\ Glides(sound.env.offset, sound'.env.offset)
              /\ Nears(sound.osc1, sound'.osc1)
              /\ Nears(sound.osc2, sound'.osc2)]_soundVars

(* A harder key moves the time factor of the attack one way only, towards  *)
(* neutral; the softest never makes it zero (note_on_setup.cpp:2998).      *)
HarderIsNearer ==
  [][odd' # odd =>
       /\ sound'.attack \in 4 .. Top
       /\ note'.tone = note.tone /\ note'.velocity > note.velocity =>
            Magnitude(sound'.attack - Neutral) <= Magnitude(sound.attack - Neutral)]_soundVars

(* What the controllers add never exceeds what its reader may sum up: two  *)
(* octaves of pitch, and the limits of vibrato and tremolo, to either side.*)
AddedWithinLimits ==
  ticks > 0 =>
    /\ Magnitude(sound.added["pitch"]) <= 2 * Octave
    /\ \A d \in {"level", "level1", "level2"} : Magnitude(sound.added[d]) <= TremoloLimit
    /\ \A d \in {"pitch1", "pitch2"} : Magnitude(sound.added[d]) <= SwingLimit
    /\ \A d \in {"rate1", "rate2"} : 2 * Magnitude(sound.added[d]) <= FastestRate

(* A setting works one way.  That of the part moves the depth of the       *)
(* vibrato to its own side of what the tone has, also of a reversed one    *)
(* (pcm_interp.cpp:963); turned down by the controllers, a voice without   *)
(* tremolo is not louder (pitch_env.cpp:390).                              *)
DepthOnItsSide(own, made) == IF part.depth >= 64 THEN made >= own ELSE made <= own
NoTremolo(s) == /\ s.osc1.scaled[1] = 0 /\ s.added["level1"] = 0
                /\ s.osc2.scaled[1] = 0 /\ s.added["level2"] = 0
SettingsWorkOneWay ==
  [][Ticks =>
       /\ DepthOnItsSide(PitchDepth(sound.osc1.pitchDepth), sound'.osc1.depths[3])
       /\ NoTremolo(sound') /\ sound'.added["level"] < 0 =>
            sound'.level <= Squared(KeyLevel(PartLevel(part.volume, note.tone.volume, 127),
                                             FALSE, 0))]_soundVars
=============================================================================
