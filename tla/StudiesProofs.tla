---------------------------- MODULE StudiesProofs ----------------------------
(***************************************************************************)
(* The reports of the PCM chip, for every set of voices and bytes of the   *)
(* mask; and the oscillators in step: however many voices there are, no    *)
(* tick makes some of them wait for each other, and a ring of followers is *)
(* closed by a restart only.                                               *)
(***************************************************************************)
EXTENDS VoiceIrq, LfoSync, WellFoundedInduction, TLAPS

-----------------------------------------------------------------------------
(* VoiceIrq: the report slot and the voice mask. *)

\* Every action keeps the ranges.
LEMMA TypeStep == ASSUME TypeOK, [Next]_vars PROVE TypeOK'
<1> USE DEF TypeOK
<1>1. CASE Frame
  <2>1. Key \subseteq Voices /\ Active \subseteq Voices /\ Waiting \subseteq Voices
    BY DEF Key, Active, Waiting
  <2>2. keyed' \subseteq Voices /\ looping' \subseteq Voices /\ nfs' \in BOOLEAN
    BY <1>1, <2>1 DEF Frame
  <2>3. /\ UNCHANGED <<mask, maskPending, updating, enabled, left>>
        /\ Report \/ NoReport
    BY <1>1 DEF Frame, voiceMask
  <2>4. CASE Report
    BY <2>1, <2>2, <2>3, <2>4 DEF Report, MarkReported
  <2>5. CASE NoReport
    BY <2>1, <2>2, <2>3, <2>5 DEF NoReport, report
  <2> QED BY <2>3, <2>4, <2>5
<1>2. CASE WriteMask
  <2>1. maskPending' \subseteq Voices /\ left' \in 0 .. Writes /\ updating' \in BOOLEAN
    BY <1>2, VoicesAssumption DEF WriteMask
  <2> QED BY <1>2, <2>1 DEF WriteMask, voice, report
<1>3. CASE ReadMask
  <2>1. mask' \subseteq Voices
    BY <1>3 DEF ReadMask
  <2> QED BY <1>3, <2>1 DEF ReadMask, voice, report
<1>4. CASE ReadStatus
  <2>1. request' \in BOOLEAN /\ irq_assert' \in BOOLEAN
    <3>1. CASE irq_assert
      BY <1>4, <3>1 DEF ReadStatus
    <3>2. CASE ~irq_assert
      BY <1>4, <3>2 DEF ReadStatus
    <3> QED BY <3>1, <3>2
  <2> QED BY <1>4, <2>1 DEF ReadStatus, voiceMask, voice
<1>5. ASSUME NEW v \in Voices, Program(v) PROVE TypeOK'
  <2>1. left' \in 0 .. Writes
    BY <1>5, VoicesAssumption DEF Program
  <2> QED BY <1>5, <2>1 DEF Program, voiceMask, report
<1>6. CASE UNCHANGED vars
  BY <1>6 DEF vars, voiceMask, voice, report
<1> QED BY <1>1, <1>2, <1>3, <1>4, <1>5, <1>6 DEF Next

\* Every variable keeps its range.
THEOREM TypeCorrect == Spec => []TypeOK
<1>1. ASSUME Init PROVE TypeOK
  <2>1. left \in 0 .. Writes
    BY <1>1, VoicesAssumption DEF Init
  <2>2. updating \in BOOLEAN /\ nfs \in BOOLEAN /\ irq_assert \in BOOLEAN /\ request \in BOOLEAN
    BY <1>1, Zenon DEF Init
  <2> QED BY <1>1, <2>1, <2>2 DEF Init, TypeOK
<1>2. TypeOK /\ [Next]_vars => TypeOK'
  BY TypeStep
<1> QED BY <1>1, <1>2, PTL DEF Spec

-----------------------------------------------------------------------------
\* The request at IRQ0 and the report waiting in the slot (PCM_Update raises
\* both, the read of register 0x3e takes back both) never part.
THEOREM RequestMirrorsAssert == Spec => []RequestFollowsAssert
<1>1. Init => RequestFollowsAssert
  BY DEF Init, RequestFollowsAssert
<1>2. ASSUME RequestFollowsAssert, [Next]_vars PROVE RequestFollowsAssert'
  <2> USE <1>2 DEF RequestFollowsAssert
  <2>1. CASE Frame
    BY <2>1 DEF Frame, Report, NoReport, report
  <2>2. CASE ReadStatus
    <3>1. CASE irq_assert
      BY <2>2, <3>1 DEF ReadStatus
    <3>2. CASE ~irq_assert
      BY <2>2, <3>2 DEF ReadStatus
    <3> QED BY <3>1, <3>2
  <2>3. CASE WriteMask \/ ReadMask \/ \E v \in Voices : Program(v)
    BY <2>3 DEF WriteMask, ReadMask, Program, report
  <2>4. CASE UNCHANGED vars
    BY <2>4 DEF vars, report
  <2> QED BY <2>1, <2>2, <2>3, <2>4 DEF Next
<1> QED BY <1>1, <1>2, PTL DEF Spec

\* A frame with many voices at their loops (PCM_Update's loop over the slots)
\* never replaces a report the CPU has not read.
THEOREM ReportKept == Spec => ChannelHeld
<1>1. ASSUME [Next]_vars, irq_assert, irq_assert' PROVE irq_channel' = irq_channel
  <2>1. CASE Frame
    BY <1>1, <2>1 DEF Frame, Report, NoReport, report
  <2>2. CASE ReadStatus
    BY <2>2 DEF ReadStatus
  <2>3. CASE WriteMask \/ ReadMask \/ \E v \in Voices : Program(v)
    BY <2>3 DEF WriteMask, ReadMask, Program, report
  <2>4. CASE UNCHANGED vars
    BY <2>4 DEF vars, report
  <2> QED BY <1>1, <2>1, <2>2, <2>3, <2>4 DEF Next
<1>2. [Next]_vars => [irq_assert /\ irq_assert' => irq_channel' = irq_channel]_vars
  BY <1>1
<1> QED BY <1>2, PTL DEF Spec, ChannelHeld

\* No voice is marked as reported on behalf of another one's report.
THEOREM ReportsAreOwn == Spec => NoneForgotten
<1> DEFINE A == \A v \in Waiting : v \in reported' \ reported => Told(v)'
<1>1. ASSUME [Next]_vars, NEW v \in Waiting, v \in reported' \ reported PROVE Told(v)'
  <2>1. CASE Frame
    <3>1. CASE Report
      BY <1>1, <3>1 DEF Report, MarkReported, Told
    <3>2. CASE NoReport
      BY <1>1, <3>2 DEF NoReport
    <3> QED BY <2>1, <3>1, <3>2 DEF Frame
  <2>2. CASE WriteMask \/ ReadMask \/ ReadStatus \/ UNCHANGED vars
    BY <1>1, <2>2 DEF WriteMask, ReadMask, ReadStatus, vars, voice
  <2>3. CASE \E w \in Voices : Program(w)
    BY <1>1, <2>3 DEF Program
  <2> QED BY <1>1, <2>1, <2>2, <2>3 DEF Next
<1>2. [Next]_vars => [A]_vars
  BY <1>1
<1> QED BY <1>2, PTL DEF Spec, NoneForgotten

\* No frame starts a voice whose bit firmware has not committed (PCM_Read).
THEOREM StartsCommitted == Spec => NoneBeforeCommit
<1> DEFINE A == \A v \in Voices : v \notin keyed /\ v \in keyed' => v \in mask
<1>1. ASSUME [Next]_vars, NEW v \in Voices, v \notin keyed, v \in keyed' PROVE v \in mask
  <2>1. CASE Frame
    BY <1>1, <2>1 DEF Frame, Key
  <2>2. CASE WriteMask \/ ReadMask \/ ReadStatus \/ UNCHANGED vars
    BY <1>1, <2>2 DEF WriteMask, ReadMask, ReadStatus, vars, voice
  <2>3. CASE \E w \in Voices : Program(w)
    BY <1>1, <2>3 DEF Program
  <2> QED BY <1>1, <2>1, <2>2, <2>3 DEF Next
<1>2. [Next]_vars => [A]_vars
  BY <1>1
<1> QED BY <1>2, PTL DEF Spec, NoneBeforeCommit
-----------------------------------------------------------------------------
(* LfoSync: oscillators in step. *)

\* With the first oscillator no gate is ever set; a tick that let interrupts
\* in has come to some voice.
IInv ==
    /\ SyncTypeOK
    /\ First => \A v \in Slots : ~gate[v]
    /\ opened => turn # Nobody

\* Each voice of s copies another of s.
Ring(s) == /\ s \subseteq Slots /\ s # {}
           /\ \A v \in s : Sounds(v) /\ Follows(v) /\ leader[v] \in s

-----------------------------------------------------------------------------
\* The largest of some voices is one of them.
LEMMA LargestIsMember ==
    ASSUME NEW m \in SUBSET Slots, m # {} PROVE Max(m) \in m
<1>1. NumVoices \in Nat /\ \A i \in m : i \in Nat /\ i < NumVoices
  BY LfoSyncAssumption DEF Slots
<1> DEFINE R == {p \in Nat \X Nat : p[1] < p[2]}
           T == {n \in Nat : NumVoices - n \in m}
<1>2. IsWellFoundedOn(R, Nat)
  BY NatLessThanWellFounded DEF OpToRel
<1>3. T # {}
  <2>1. PICK i \in m : TRUE
    OBVIOUS
  <2>2. NumVoices - i \in Nat /\ NumVoices - (NumVoices - i) = i
    BY <1>1
  <2> QED BY <2>1, <2>2
<1>4. PICK n \in T : \A k \in T : <<k, n>> \notin R
  <2> HIDE DEF R, T
  <2>1. T \subseteq Nat
    BY DEF T
  <2> QED BY <1>2, <1>3, <2>1, WFMin
<1>5. \A i \in m : NumVoices - n >= i
  <2> TAKE i \in m
  <2>1. NumVoices - i \in T
    <3>1. NumVoices - i \in Nat /\ NumVoices - (NumVoices - i) = i
      BY <1>1
    <3> QED BY <3>1
  <2>2. ~(NumVoices - i < n)
    BY <1>4, <2>1
  <2> QED BY <1>1, <2>2
<1>6. NumVoices - n \in m
  OBVIOUS
<1> QED BY <1>5, <1>6 DEF Max

-----------------------------------------------------------------------------
\* A voice that leads is never the one that has just started.
LEMMA MatchesAreOthers ==
    ASSUME NEW v \in Slots, NEW t, Matches(v, t) # {}
    PROVE  Max(Matches(v, t)) \in Slots \ {v}
<1>1. Matches(v, t) \in SUBSET Slots
  BY DEF Matches
<1>2. Max(Matches(v, t)) \in Matches(v, t)
  BY <1>1, LargestIsMember
<1> QED BY <1>2 DEF Matches

LEMMA TakenAreOthers ==
    ASSUME NEW v \in Slots, NEW t, Taken(v, t) # {}
    PROVE  Max(Taken(v, t)) \in Slots
<1>1. Taken(v, t) \in SUBSET Slots
  BY DEF Taken
<1>2. Max(Taken(v, t)) \in Taken(v, t)
  BY <1>1, LargestIsMember
<1> QED BY <1>2 DEF Taken

LEMMA StartKeepsTypes ==
    ASSUME IInv, NEW v \in Slots, NEW t \in Tones, Start(v, t) PROVE IInv'
<1>1. SyncTypeOK /\ (First => \A u \in Slots : ~gate[u])
  BY DEF IInv
<1>2. tone' \in [Slots -> Tones] /\ turn' = turn /\ opened' = opened
  BY <1>1 DEF SyncTypeOK, Start
<1>3. CASE ~First
  <2>1. StartSecond(v, t)
    BY <1>3 DEF Start
  <2>2. /\ stage' \in [Slots -> {"held", "released", "silent"}]
        /\ gate' \in [Slots -> BOOLEAN]
    BY <1>1, <2>1, Zenon DEF StartSecond, SyncTypeOK
  <2>3. leader' \in [Slots -> Slots \cup {Nobody}]
    <3>1. CASE Matches(v, t) = {}
      BY <1>1, <2>1, <3>1 DEF StartSecond, SyncTypeOK
    <3>2. CASE Matches(v, t) # {}
      <4>1. Max(Matches(v, t)) \in Slots
        BY <3>2, MatchesAreOthers
      <4>2. leader' = [leader EXCEPT ![v] = Max(Matches(v, t))]
        BY <2>1, <3>2 DEF StartSecond
      <4> HIDE DEF Slots
      <4> QED BY <1>1, <4>1, <4>2 DEF SyncTypeOK
    <3> QED BY <3>1, <3>2
  <2> QED BY <1>1, <1>2, <1>3, <2>2, <2>3 DEF IInv, SyncTypeOK
<1>4. CASE First
  <2>1. StartFirst(v, t)
    BY <1>4 DEF Start
  <2>2. stage' \in [Slots -> {"held", "released", "silent"}]
    BY <1>1, <2>1, Zenon DEF StartFirst, SyncTypeOK
  <2>3. CASE Taken(v, t) = {}
    <3>1. gate' = [gate EXCEPT ![v] = FALSE] /\ leader' = [leader EXCEPT ![v] = Nobody]
      BY <2>1, <2>3 DEF StartFirst
    <3>2. /\ gate' \in [Slots -> BOOLEAN] /\ leader' \in [Slots -> Slots \cup {Nobody}]
          /\ \A u \in Slots : ~gate'[u]
      BY <1>1, <1>4, <3>1, Zenon DEF SyncTypeOK
    <3> QED BY <1>1, <1>2, <2>2, <3>2 DEF IInv, SyncTypeOK
  <2>4. CASE Taken(v, t) # {}
    <3> DEFINE u == Max(Taken(v, t))
    <3>1. u \in Slots
      BY <2>4, TakenAreOthers
    <3> HIDE DEF u
    <3>2. ~gate[u] /\ leader[u] \in Slots \cup {Nobody}
      BY <1>1, <1>4, <3>1 DEF SyncTypeOK
    <3>3. gate' = [gate EXCEPT ![v] = FALSE] /\ leader' = [leader EXCEPT ![v] = leader[u]]
      BY <2>1, <2>4, <3>2 DEF StartFirst, u
    <3>4. /\ gate' \in [Slots -> BOOLEAN] /\ leader' \in [Slots -> Slots \cup {Nobody}]
          /\ \A w \in Slots : ~gate'[w]
      BY <1>1, <1>4, <3>2, <3>3, Zenon DEF SyncTypeOK
    <3> QED BY <1>1, <1>2, <2>2, <3>4 DEF IInv, SyncTypeOK
  <2> QED BY <2>3, <2>4
<1> QED BY <1>3, <1>4

THEOREM SyncTypeCorrect == SyncSpec => []IInv
<1>1. SyncInit => IInv
  <2> SUFFICES ASSUME SyncInit PROVE IInv
    OBVIOUS
  <2>1. gate \in [Slots -> BOOLEAN] /\ opened \in BOOLEAN /\ \A v \in Slots : ~gate[v]
    BY Zenon DEF SyncInit
  <2>2. tone \in [Slots -> Tones]
    BY LfoSyncAssumption DEF SyncInit
  <2> QED BY <2>1, <2>2 DEF SyncInit, IInv, SyncTypeOK
<1>2. IInv /\ [SyncNext]_syncVars => IInv'
  <2> SUFFICES ASSUME IInv, [SyncNext]_syncVars PROVE IInv'
    OBVIOUS
  <2>1. ASSUME NEW v \in Slots, Fade(v) PROVE IInv'
    BY <2>1 DEF Fade, IInv, SyncTypeOK
  <2>2. ASSUME NEW v \in Slots, NEW t \in Tones, Start(v, t) PROVE IInv'
    BY <2>2, StartKeepsTypes
  <2>3. CASE BeginTick
    BY <2>3, LfoSyncAssumption DEF BeginTick, IInv, SyncTypeOK, Slots, Nobody
  <2>4. CASE Pass
    BY <2>4, LfoSyncAssumption DEF Pass, IInv, SyncTypeOK, Slots, Nobody
  <2>5. CASE Promote
    BY <2>5 DEF Promote, IInv, SyncTypeOK
  <2>6. CASE Resume
    <3>1. /\ turn \in Slots /\ turn' = turn - 1 /\ opened' = FALSE
          /\ UNCHANGED <<stage, tone, leader, gate>>
      BY <2>6, Zenon DEF Resume, IInv, SyncTypeOK
    <3>2. turn' \in Slots \cup {Nobody}
      BY <3>1, LfoSyncAssumption DEF Slots, Nobody
    <3>3. opened' \in BOOLEAN
      BY <3>1, Zenon
    <3> QED BY <3>1, <3>2, <3>3 DEF IInv, SyncTypeOK
  <2>7. CASE UNCHANGED syncVars
    BY <2>7 DEF syncVars, IInv, SyncTypeOK
  <2> QED BY <2>1, <2>2, <2>3, <2>4, <2>5, <2>6, <2>7 DEF SyncNext
<1> QED BY <1>1, <1>2, PTL DEF SyncSpec

-----------------------------------------------------------------------------
\* What the property calls frozen is a ring somewhere.
LEMMA FrozenIsRing == Frozen <=> \E s \in SUBSET Slots : Ring(s)
BY DEF Frozen, Ring

\* Voices that only fall silent, and a turn that goes on, close none.
LEMMA OthersCloseNone ==
    ASSUME IInv, NEW s \in SUBSET Slots, Ring(s)',
           \/ \E v \in Slots : Fade(v)
           \/ BeginTick \/ Pass \/ Resume \/ UNCHANGED syncVars
    PROVE  Ring(s)
<1>1. s # {} /\ tone' = tone /\ gate' = gate /\ leader' = leader
  BY DEF Ring, Fade, BeginTick, Pass, Resume, syncVars
<1>2. \A v \in Slots : stage'[v] # "silent" => stage[v] # "silent"
  <2>1. CASE \E v \in Slots : Fade(v)
    BY <2>1 DEF Fade, Sounds, IInv, SyncTypeOK
  <2> QED BY <2>1 DEF BeginTick, Pass, Resume, syncVars
<1> QED BY <1>1, <1>2 DEF Ring, Follows, Sounds

\* The promoted voice copies nobody, and whoever it took over copies it.
LEMMA PromoteClosesNone ==
    ASSUME IInv, NEW s \in SUBSET Slots, Ring(s)', Promote PROVE Ring(s)
<1>1. turn \in Slots /\ gate'[turn] = FALSE
  BY DEF Promote, IInv, SyncTypeOK
<1>2. turn \notin s
  BY <1>1, Zenon DEF Ring, Follows
<1>3. \A v \in s : v \in Slots /\ leader'[v] \in s /\ leader'[v] # turn /\ v # turn
  BY <1>2 DEF Ring
<1>4. \A v \in s : leader'[v] = leader[v] /\ gate'[v] = gate[v]
  BY <1>3 DEF Promote, IInv, SyncTypeOK
<1>5. tone' = tone /\ stage' = stage
  BY DEF Promote
<1> QED BY <1>4, <1>5 DEF Ring, Follows, Sounds

\* A started voice is held, whichever search it made.
LEMMA StartHolds ==
    ASSUME IInv, NEW v \in Slots, NEW t \in Tones, Start(v, t)
    PROVE  stage'[v] = "held"
BY Zenon DEF Start, StartFirst, StartSecond, IInv, SyncTypeOK

\* A voice that starts closes a ring only if some other copies it already.
LEMMA StartClosesOwnOnly ==
    ASSUME IInv, NEW v \in Slots, NEW t \in Tones, Start(v, t),
           NEW s \in SUBSET Slots, Ring(s)',
           ~\E u \in Slots : gate[u] /\ leader[u] = v
    PROVE  Ring(s \ {v})
<1>1. ~First
  <2> SUFFICES ASSUME First PROVE FALSE
    OBVIOUS
  <2>1. \A u \in Slots : ~gate'[u]
    BY StartKeepsTypes DEF IInv
  <2> QED BY <2>1 DEF Ring, Follows
<1>2. StartSecond(v, t)
  BY <1>1 DEF Start
<1>3. \A u \in Slots \ {v} : /\ stage'[u] = stage[u] /\ tone'[u] = tone[u]
                             /\ gate'[u] = gate[u] /\ leader'[u] = leader[u]
  BY <1>2 DEF Start, StartSecond, IInv, SyncTypeOK
<1>4. \A u \in s \ {v} : u \in Slots /\ gate[u] /\ leader[u] \in s /\ leader[u] # v
  BY <1>3 DEF Ring, Follows
<1>5. \A u \in s \ {v} : Sounds(u) /\ Follows(u) /\ leader[u] \in s \ {v}
  <2> TAKE u \in s \ {v}
  <2>1. leader[u] \in s \ {v} /\ leader[u] \in Slots \ {v}
    BY <1>4
  <2> QED BY <1>3, <1>4, <2>1 DEF Ring, Follows, Sounds
<1>6. s \ {v} # {}
  <2>1. CASE v \notin s
    BY <2>1 DEF Ring
  <2>2. CASE v \in s
    <3>1. gate'[v] /\ leader'[v] \in s
      BY <2>2 DEF Ring, Follows
    <3>2. Matches(v, t) # {} /\ leader'[v] = Max(Matches(v, t))
      <4>1. gate'[v] = (Matches(v, t) # {})
        BY <1>2, Zenon DEF StartSecond, IInv, SyncTypeOK
      <4>2. Matches(v, t) # {}
        BY <3>1, <4>1
      <4> QED BY <1>2, <4>2 DEF StartSecond, IInv, SyncTypeOK
    <3>3. leader'[v] # v
      BY <3>2, MatchesAreOthers
    <3> QED BY <3>1, <3>3
  <2> QED BY <2>1, <2>2
<1> QED BY <1>5, <1>6 DEF Ring

\* For any number of voices and either oscillator: only a voice that starts
\* again while others copy it can close a ring (0x386f and the two searches).
THEOREM RingsByRestartOnly == SyncSpec => FrozenOnlyByRestart
<1>1. IInv /\ [SyncNext]_syncVars
        => [~Frozen /\ Frozen' =>
              \E v \in Slots : Starts(v) /\ \E u \in Slots : gate[u] /\ leader[u] = v]_syncVars
  <2> SUFFICES ASSUME IInv, [SyncNext]_syncVars, ~Frozen, Frozen'
               PROVE  \E v \in Slots :
                         Starts(v) /\ \E u \in Slots : gate[u] /\ leader[u] = v
    OBVIOUS
  <2>1. PICK s \in SUBSET Slots : Ring(s)'
    BY DEF Frozen, Ring
  <2>2. ~Ring(s)
    BY FrozenIsRing
  <2>3. PICK v \in Slots, t \in Tones : Start(v, t)
    <3>1. ~Promote
      BY <2>1, <2>2, PromoteClosesNone
    <3>2. ~(\/ \E v \in Slots : Fade(v)
            \/ BeginTick \/ Pass \/ Resume \/ UNCHANGED syncVars)
      BY <2>1, <2>2, OthersCloseNone
    <3> QED BY <3>1, <3>2 DEF SyncNext
  <2>4. Starts(v)
    <3>1. stage'[v] = "held"
      BY <2>3, StartHolds
    <3> QED BY <2>3, <3>1 DEF Start, Starts, Sounds
  <2>5. \E u \in Slots : gate[u] /\ leader[u] = v
    <3>1. ~Ring(s \ {v})
      BY FrozenIsRing
    <3> QED BY <2>1, <2>3, <3>1, StartClosesOwnOnly
  <2> QED BY <2>4, <2>5
<1> QED BY <1>1, SyncTypeCorrect, PTL DEF FrozenOnlyByRestart, SyncSpec
=============================================================================
