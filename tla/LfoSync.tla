------------------------------- MODULE LfoSync -------------------------------
(***************************************************************************)
(* Oscillators in step.  A tone may ask that its voices sway together: a   *)
(* new voice looks for one that sounds with the same tone and takes over   *)
(* its oscillator.  With the second oscillator it then copies that voice,  *)
(* tick by tick, until the voice it copies ends: it computes the           *)
(* oscillator itself from then on, and those that copied the same voice    *)
(* copy it instead.  With the first the new voice gets the table entry and *)
(* the gate of the voice it found, and as no gate is ever set, each of     *)
(* them computes its own from the same start.                              *)
(*                                                                         *)
(*   stage   the state word: held (0x00, 0x02), released (0x0c), or above  *)
(*   tone    what the words and bytes at 98..9e tell                       *)
(*   leader, gate   the table (cdc6, cdfe); whether the voice copies       *)
(*   turn    voice the tick has come to, None between two ticks            *)
(*   opened  the tick let interrupts in halfway through a voice            *)
(***************************************************************************)
EXTENDS FiniteSetsExt, Integers

CONSTANTS NumVoices, Tones,
          First    \* TRUE: the first oscillator (0x3615), FALSE: the second

ASSUME LfoSyncAssumption ==
  NumVoices \in Nat \ {0} /\ Tones # {} /\ First \in BOOLEAN

VARIABLES stage, tone, leader, gate, turn, opened

syncVars == <<stage, tone, leader, gate, turn, opened>>

Slots == 0 .. NumVoices - 1
Nobody == -1

SyncTypeOK ==
  /\ stage \in [Slots -> {"held", "released", "silent"}]
  /\ gate \in [Slots -> BOOLEAN] /\ tone \in [Slots -> Tones]
  /\ leader \in [Slots -> Slots \cup {Nobody}]
  /\ turn \in Slots \cup {Nobody} /\ opened \in BOOLEAN

SyncInit ==
  /\ stage = [v \in Slots |-> "silent"] /\ gate = [v \in Slots |-> FALSE]
  /\ tone = [v \in Slots |-> CHOOSE t \in Tones : TRUE]
  /\ leader = [v \in Slots |-> Nobody]
  /\ turn = Nobody /\ opened = FALSE

Sounds(v) == stage[v] # "silent"

-----------------------------------------------------------------------------
(* Note on: the search, from the last voice down.                          *)

(* The second oscillator's search compares the state word with 0x0c.       *)
Matches(v, t) == {i \in Slots \ {v} : Sounds(i) /\ tone[i] = t}

StartSecond(v, t) ==
  LET m == Matches(v, t) IN
  /\ stage' = [stage EXCEPT ![v] = "held"]
  /\ gate' = [gate EXCEPT ![v] = m # {}]
  /\ leader' = [leader EXCEPT ![v] = IF m = {} THEN Nobody ELSE Max(m)]

(* The first's stores 0x0c there, in every voice down to the one it takes. *)
(* The branch after it sees the comparison before, of the addresses of the *)
(* two records: only voices below v can be taken.                          *)
Taken(v, t) == {i \in Slots : i < v /\ tone[i] = t}

StartFirst(v, t) ==
  LET m == Taken(v, t)
      passed == {i \in Slots \ {v} : m = {} \/ i >= Max(m)} IN
  /\ stage' = [i \in Slots |-> IF i = v THEN "held"
                               ELSE IF i \in passed THEN "released" ELSE stage[i]]
  /\ gate' = [gate EXCEPT ![v] = m # {} /\ gate[Max(m)]]
  /\ leader' = [leader EXCEPT ![v] = IF m = {} THEN Nobody ELSE leader[Max(m)]]

Start(v, t) ==
  /\ ~Sounds(v)
  /\ tone' = [tone EXCEPT ![v] = t]
  /\ IF First THEN StartFirst(v, t) ELSE StartSecond(v, t)
  /\ UNCHANGED <<turn, opened>>

(* The key is released, or the voice ends or is stopped; tasks of a higher *)
(* priority than the tick, or an interrupt.                                *)
Fade(v) ==
  /\ Sounds(v)
  /\ stage' \in {[stage EXCEPT ![v] = s] : s \in {"released", "silent"}}
  /\ UNCHANGED <<tone, leader, gate, turn, opened>>

-----------------------------------------------------------------------------
(* The tick, from the last voice down.                                     *)

BeginTick ==
  /\ turn = Nobody
  /\ turn' = NumVoices - 1
  /\ UNCHANGED <<stage, tone, leader, gate, opened>>

Follows(v) == gate[v] /\ Sounds(leader[v]) /\ tone[leader[v]] = tone[v]

(* Nothing to do, or the oscillator is computed, or copied.                *)
Pass ==
  /\ turn # Nobody /\ ~opened
  /\ ~Sounds(turn) \/ ~gate[turn] \/ Follows(turn)
  /\ turn' = turn - 1
  /\ UNCHANGED <<stage, tone, leader, gate, opened>>

(* Mutant: the search for those that copied the same voice finds itself.   *)
Promote_Itself ==
  /\ turn # Nobody /\ ~opened /\ Sounds(turn) /\ gate[turn] /\ ~Follows(turn)
  /\ leader' = [i \in Slots |-> IF leader[i] = leader[turn] THEN turn ELSE leader[i]]
  /\ opened' = TRUE
  /\ UNCHANGED <<stage, tone, gate, turn>>

Promote ==
  /\ turn # Nobody /\ ~opened /\ Sounds(turn) /\ gate[turn] /\ ~Follows(turn)
  /\ gate' = [gate EXCEPT ![turn] = FALSE]
  /\ leader' = [i \in Slots |-> IF i = turn THEN Nobody
                                ELSE IF leader[i] = leader[turn] THEN turn
                                ELSE leader[i]]
  /\ opened' = TRUE
  /\ UNCHANGED <<stage, tone, turn>>

(* The oscillator is computed if the state is what it was before.          *)
Resume ==
  /\ opened
  /\ opened' = FALSE
  /\ turn' = turn - 1
  /\ UNCHANGED <<stage, tone, leader, gate>>

SyncNext ==
  \/ \E v \in Slots : Fade(v) \/ \E t \in Tones : Start(v, t)
  \/ BeginTick \/ Pass \/ Promote \/ Resume

SyncSpec == SyncInit /\ [][SyncNext]_syncVars

-----------------------------------------------------------------------------
(* Properties.                                                             *)

(* Voices that copy each other in a ring: none computes, all stand still.  *)
Frozen == \E s \in (SUBSET Slots) \ {{}} :
            \A v \in s : Sounds(v) /\ Follows(v) /\ leader[v] \in s

Starts(v) == ~Sounds(v) /\ Sounds(v)'

(* No tick makes voices wait for each other (0x386f, pcm_interp.cpp:1674), *)
(* whoever ends while the tick goes round.  Only a voice that starts again *)
(* before the tick has seen it end can choose one of its own followers.    *)
FrozenOnlyByRestart ==
  [][~Frozen /\ Frozen' =>
       \E v \in Slots : Starts(v) /\ \E u \in Slots : gate[u] /\ leader[u] = v]_syncVars

(* To look for a voice to sway with leaves the others as they are: the     *)
(* instruction at 0x3645 is a comparison (voice_materialize.cpp:2624).     *)
SearchOnlyLooks ==
  [][\A v \in Slots : Starts(v) => \A u \in Slots \ {v} : stage'[u] = stage[u]]_syncVars
=============================================================================
