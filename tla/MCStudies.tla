------------------------------ MODULE MCStudies ------------------------------
(***************************************************************************)
(* Four studies in one run: the reports of the chip (VoiceIrq), oscillators*)
(* in step (LfoSync), the sound of one voice (VoiceSound), and the front   *)
(* panel (Panel).  They share no state; a behaviour is of one of them, so  *)
(* that the states add up instead of multiplying.                          *)
(*                                                                         *)
(* The tables of the ROM are not in the repository: what stands here has   *)
(* their domains, their range, and their direction.                        *)
(***************************************************************************)
EXTENDS VoiceIrq, LfoSync, VoiceSound, Panel

ThreeVoices == {0, 1, 2}
TwoBytes == {{0, 1}, {2}}

RampFine == [i \in 0 .. 255 |-> 244 * i]
RampCoarse == [i \in 0 .. 46 |-> 16384 + 356 * i]
RampGlide == [i \in 0 .. 127 |-> Top \div (i + 1)]
RampRate == [i \in 0 .. 127 |-> 82 * i]
RampDepth == [i \in 0 .. 127 |-> 47 * i]
RampCutoffDepth == [i \in 0 .. 127 |-> 48 * i]
ArcSine == [i \in 0 .. 129 |-> Floor0(255 - ((i - 64) * (i - 64) * 255) \div 4096)]
Slews == [w \in {"slow", "fast"} |-> IF w = "slow" THEN 500 ELSE 9000]
RampAttenuation == [i \in 0 .. 127 |-> 255 - 2 * i]
RampLoudness == [i \in 0 .. 255 |-> i \div 2]
RampFactor == [i \in 0 .. 64 |-> i]
RampKeyTime == [i \in 64 .. 192 |-> 512 - 2 * i]
RampDelay == [i \in 0 .. 127 |-> 160 * i]
RampLfoTime == [i \in 0 .. 127 |-> Top \div (2 * i + 1)]
RampPan == [i \in 0 .. 128 |-> (i * 255) \div 128]
ThreeWaves == [i \in 0 .. 15 |-> IF i = 5 THEN "slow" ELSE IF i = 6 THEN "fast" ELSE "sine"]

Wood == [base |-> 16777000, length |-> 400, offset |-> 20, loop |-> 100, flags |-> 0,
         volume |-> 120]
Room == [pressure |-> 0, volume |-> 100, depth |-> 64, rate |-> 64, lfoDelay |-> 64,
         reverb |-> 40, chorus |-> 30, pan |-> 30, tune |-> 1024, bend |-> -2500,
         setting |-> 100, time |-> 3,
         controls |->
           [sense |-> [d \in Destinations |->
                         CASE d \in {"pitch", "cutoff1"} -> 127
                           [] d \in {"level", "rate2", "level1", "level2"} -> 0
                           [] OTHER -> 70],
            words |-> [d \in Destinations |->
                         CASE d \in {"rate1", "cutoff2", "pitch1"} -> -5000
                           [] d = "pitch2" -> 5000
                           [] OTHER -> 0]]]

(* A slow swell and a long glide; random waves; a vibrato turned round;    *)
(* one that stands still, whole octaves below its sample.                  *)
Plain == [flags1 |-> 64, flags2 |-> 192, delay1 |-> 3, fade1 |-> 2, rate1 |-> 40,
          delay2 |-> 130, fade2 |-> 1, rate2 |-> 90,
          sway1 |-> [level |-> 0, cutoff |-> 20, pitch |-> 100],
          sway2 |-> [level |-> 0, cutoff |-> 148, pitch |-> 0],
          envRate |-> 9000, envFrom |-> 48000, envTo |-> 24000, key |-> 60000, loopKey |-> 62040,
          glide |-> 90000, volume |-> 100, keyLevel |-> 80, partial |-> 127,
          levels |-> <<127, 100, 90, 0>>, attackKey |-> 70, decayKey |-> 50,
          attackVelocity |-> 127, decayVelocity |-> 10,
          times |-> <<0, 130, 20, 30, 127>>, wait |-> 0, pan |-> 64, panTable |-> 0]
Windy == [Plain EXCEPT !.flags1 = 5, !.flags2 = 6, !.delay2 = 0, !.rate1 = 127,
                       !.rate2 = 100, !.sway1.level = 100, !.glide = -90000,
                       !.envTo = 60000, !.attackVelocity = 0, !.wait = 130,
                       !.keyLevel = 30]
Turned == [Plain EXCEPT !.sway1.pitch = 228, !.delay1 = 0, !.fade1 = 0, !.glide = 0,
                        !.envTo = 48000, !.envRate = 0, !.wait = 100, !.panTable = 1]
Still == [Plain EXCEPT !.flags1 = 128, !.flags2 = 128, !.rate1 = 0, !.rate2 = 0,
                       !.glide = 0, !.envFrom = 50500, !.envTo = 50500]
\* Two keys of one button, as T and the right arrow are of PART_R.
PanelKeys == [k \in {"t", "right", "q"} |-> IF k = "q" THEN {<<1, 0>>} ELSE {<<0, 1>>}]
PanelDemo == <<{<<0, 1>>, <<1, 0>>}, {}>>

FourPatches == {Plain, Windy, Turned, Still}
-----------------------------------------------------------------------------
VARIABLE study

allVars == <<study, vars, syncVars, soundVars, panelVars>>

MCInit ==
  /\ study \in {"reports", "sync", "sound", "panel"}
  /\ Init /\ SyncInit /\ PanelInit
  /\ IF study = "sound" THEN SoundInit
     ELSE sound = 0 /\ part = 0 /\ note = 0 /\ ticks = 0 /\ turns = 0 /\ odd = FALSE

Reports == study = "reports" /\ UNCHANGED <<study, syncVars, soundVars, panelVars>>
Sync == study = "sync" /\ UNCHANGED <<study, vars, soundVars, panelVars>>
Sound == study = "sound" /\ UNCHANGED <<study, vars, syncVars, panelVars>>
Front == study = "panel" /\ UNCHANGED <<study, vars, syncVars, soundVars>>

MCNext ==
  \/ Reports /\ Next
  \/ Sync /\ SyncNext
  \/ Sound /\ SoundNext
  \/ Front /\ PanelNext

MCSpec ==
  /\ MCInit /\ [][MCNext]_allVars
  /\ WF_vars(Reports /\ Frame)
  /\ WF_vars(Reports /\ ReadStatus /\ request)
  /\ WF_panelVars(Front /\ (ScanRow \/ Wake))
=============================================================================
