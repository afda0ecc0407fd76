----------------------------- MODULE VoiceTasks -----------------------------
(***************************************************************************)
(* The three firmware tasks that share the voices, and the voice interrupt.*)
(*                                                                         *)
(*   voice task   takes notes, releases voices, asks for them to be played *)
(*                or stopped (d0e0), hears which voice has ended (a1f6)    *)
(*   PCM task     serves d0e0 and the chip's reports (d15c); waits in      *)
(*                param_ack until the old sound of a voice has faded       *)
(*   tick task    moves every sounding voice on, sees the ending ones end  *)
(*                                                                         *)
(* The kernel is not in the source; the three are taken to be preemptive   *)
(* in this order of priority, as the code's own windows (IML 0, four NOPs, *)
(* IML 7, test again) assume.  A stretch of code between two IML 0 points  *)
(* is one action, and so is a whole handler of the voice task, which no    *)
(* other task interrupts.                                                  *)
(***************************************************************************)
EXTENDS Naturals, Sequences

CONSTANTS Size,       \* voices (28)
          Sections,   \* IML 7 stretches of voice_param per voice (6)
          MaxNotes    \* bound: notes, ties, releases and key-offs in a run

ASSUME VoiceTasksAssumption == /\ Size \in Nat \ {0} /\ Sections \in Nat \ {0}
                               /\ MaxNotes \in Nat

Voices == 1 .. Size
None == 0

(* The state word at P+0.                                                  *)
Watched == {"start", "run", "off"}                  \* 0x00, 0x02, 0x0c
Scanned == Watched \cup {"dying"}                   \* 0x0e and 0x10
Fading == {"dying", "cut", "parked"}                \* cut: 0x12 and 0x14
States == Watched \cup Fading \cup {"dead"}         \* parked 0x18, dead 0x16

VARIABLES cmd, state, saved,   \* d0e0, P+0, P+6
          fresh, anew,         \* ad0e = 0xff; play asked with cf90 bit 7
          owned, mate,         \* a3a0 bit 7 clear; a3f4 and a410
          before, after,       \* d0a8 and d0c4: the pair played as one
          off,                 \* acf2
          ended, told,         \* a1f6 while it may be read, event 1 of the voice task
          rep, events,         \* d15c, events of the PCM task
          armed, silent,       \* chip: has yet to report, is at zero
          pcm, play, tick, seen,
          notes,               \* counts towards MaxNotes
          strays, lost,        \* history: taken from a note; end unheard
          bared,               \* history: a note that goes on lost its mark
                               \* before the end of the one before was heard
          torn                 \* history: mask_tail has put a voice back that
                               \* was cut after it had looked

noteVars  == <<owned, mate, anew, notes>>
pairVars  == <<before, after>>
soundVars == <<state, saved, fresh>>
chipVars  == <<armed, silent>>
endVars   == <<ended, told>>
pcmVars   == <<pcm, play>>
tickVars  == <<tick, seen>>
pastVars  == <<strays, lost, bared, torn>>
vars == <<noteVars, pairVars, soundVars, chipVars, endVars, pcmVars, tickVars,
          pastVars, cmd, off, rep, events>>

Cut(link, S) == [v \in Voices |-> IF v \in S \/ link[v] \in S THEN None
                                              ELSE link[v]]
Mark(f, S, x) == [v \in Voices |-> IF v \in S THEN x ELSE f[v]]
Highest(S) == CHOOSE v \in S : \A u \in S : u <= v
Members(s) == {s[i] : i \in DOMAIN s}

NoteOf(v) == {v} \cup ({mate[v]} \ {None})
PlayOrder(v) == IF before[v] # None THEN <<before[v], v>>
                ELSE IF after[v] # None THEN <<v, after[v]>> ELSE <<v>>
Asked == {v \in Voices : cmd[v] # "none"}

NoPlay == [voices |-> <<>>, anew |-> {}, at |-> 1, left |-> <<>>]
NoTick == [pc |-> "idle", at |-> 0, todo |-> <<>>, sec |-> 1]

(* After reset, or with some notes sounding, two of them perhaps a pair,   *)
(* and perhaps asked to go on.                                             *)
Pair(on, i, j) == [v \in Voices |-> IF on /\ v = i THEN j ELSE None]

Init ==
  /\ \E sung \in SUBSET Voices, on \in BOOLEAN, tied \in SUBSET Voices :
       /\ on => {1, 2} \subseteq sung
       /\ tied \subseteq sung /\ (on => (1 \in tied <=> 2 \in tied))
       /\ cmd = [v \in Voices |-> IF v \in tied THEN "play" ELSE "none"]
       /\ events = IF tied = {} THEN {} ELSE {0}
       /\ owned = sung /\ silent = Voices \ sung
       /\ state = [v \in Voices |-> IF v \in sung THEN "run" ELSE "dead"]
       /\ after = Pair(on, 1, 2) /\ before = Pair(on, 2, 1)
       /\ mate = [v \in Voices |-> Pair(on, 1, 2)[v] + Pair(on, 2, 1)[v]]
       /\ armed = sung
  /\ saved = [v \in Voices |-> "none"]
  /\ fresh = {} /\ anew = {} /\ off = {} /\ seen = {}
  /\ ended = None /\ told = FALSE /\ rep = {} /\ notes = 0
  /\ pcm = "wait" /\ play = NoPlay /\ tick = NoTick
  /\ strays = {} /\ lost = {} /\ bared = FALSE /\ torn = FALSE

-----------------------------------------------------------------------------
(* Voice task.                                                             *)

Counted == notes < MaxNotes /\ notes' = notes + 1

(* pcm_start: the old sound is faded out, its report withdrawn.            *)
PcmStart(S) ==
  /\ rep' = rep \ S
  /\ state' = Mark(state, S, "cut")
  /\ armed' = armed \ S

(* desc_setup and note_fill for a note of one or two free voices.          *)
NoteOn(vs) ==
  LET S == Members(vs)
      pair == Len(vs) = 2
  IN /\ Counted /\ S \cap owned = {}
     /\ PcmStart(S)
     /\ cmd' = Mark(cmd, S, "play")
     /\ owned' = owned \cup S /\ anew' = anew \cup S /\ off' = off \ S
     /\ after' = IF pair THEN [after EXCEPT ![vs[1]] = vs[2]] ELSE after
     /\ before' = IF pair THEN [before EXCEPT ![vs[2]] = vs[1]] ELSE before
     /\ mate' = IF pair THEN [mate EXCEPT ![vs[1]] = vs[2], ![vs[2]] = vs[1]]
                        ELSE mate
     /\ strays' = strays \ S /\ lost' = lost \ S
     /\ events' = events \cup {0}
     /\ UNCHANGED <<saved, fresh, silent, endVars, pcmVars, tickVars, bared, torn>>

(* note_fill of a partial without a sample: cut, and freed again at once.  *)
NoteEmpty(v) ==
  /\ Counted /\ v \notin owned
  /\ PcmStart({v})
  /\ owned' = IF v \in fresh THEN owned \cup {v} ELSE owned
  /\ UNCHANGED <<cmd, off, mate, anew, pairVars, saved, fresh, silent,
                 endVars, pcmVars, tickVars, pastVars, events>>

(* note_fill without pcm_start: the note goes on with new parameters.  The *)
(* code that chooses this (a1d1 bit 7 clear) is not in the source; here it *)
(* takes a note that sounds, or is parked and has not been cut before.     *)
Tie(v) ==
  /\ Counted /\ v \in owned
  /\ state[v] \in Watched \/ (state[v] = "parked" /\ saved[v] # "cut")
  /\ cmd' = Mark(cmd, NoteOf(v), "play")
  /\ anew' = anew \ NoteOf(v) /\ off' = off \ NoteOf(v)
  /\ events' = events \cup {0}
  /\ UNCHANGED <<owned, mate, pairVars, soundVars, chipVars, endVars, pcmVars,
                 tickVars, pastVars, rep>>

(* Mutant: the pair is not taken apart.                                    *)
Release_KeepsPair(v) ==
  LET S == NoteOf(v) IN
  /\ Counted /\ v \in owned
  /\ PcmStart(S)
  /\ cmd' = Mark(cmd, S, "stop")
  /\ fresh' = fresh \ S /\ owned' = owned \ S
  /\ mate' = Cut(mate, S) /\ UNCHANGED pairVars
  /\ events' = events \cup {0}
  /\ UNCHANGED <<anew, off, saved, silent, endVars, pcmVars, tickVars,
                 pastVars>>

(* note_helper, release_a and release_b: every voice of the note.          *)
Release(v) ==
  LET S == NoteOf(v) IN
  /\ Counted /\ v \in owned
  /\ PcmStart(S)
  /\ cmd' = Mark(cmd, S, "stop")
  /\ fresh' = fresh \ S /\ owned' = owned \ S
  /\ before' = Cut(before, S) /\ after' = Cut(after, S) /\ mate' = Cut(mate, S)
  /\ events' = events \cup {0}
  /\ UNCHANGED <<anew, off, saved, silent, endVars, pcmVars, tickVars,
                 pastVars>>

(* Key off, and the mask_acc that passes it on.                            *)
KeyOff(v) ==
  /\ Counted /\ v \in owned
  /\ off' = off \cup NoteOf(v)
  /\ UNCHANGED <<owned, mate, anew, pairVars, soundVars, chipVars, endVars,
                 pcmVars, tickVars, pastVars, cmd, rep, events>>

(* Mutant: the mark 0xff is not looked at.                                 *)
HearEnd_Unmarked ==
  /\ told /\ told' = FALSE
  /\ ended' = IF tick.pc = "end" THEN ended ELSE None
  /\ IF ended \in owned
     THEN /\ owned' = owned \ {ended}
          /\ before' = Cut(before, {ended}) /\ after' = Cut(after, {ended})
          /\ mate' = Cut(mate, {ended})
          /\ strays' = IF cmd[ended] = "play" THEN strays \cup {ended}
                       ELSE strays
          /\ lost' = lost \ {ended} /\ UNCHANGED <<bared, torn>>
     ELSE UNCHANGED <<owned, mate, pairVars, pastVars>>
  /\ UNCHANGED <<anew, notes, soundVars, chipVars, pcmVars, tickVars, cmd, off,
                 rep, events>>

(* free_voice for the voice in a1f6, unless that is free already or has    *)
(* been materialized for a new note.                                       *)
HearEnd ==
  /\ told /\ told' = FALSE
  /\ ended' = IF tick.pc = "end" THEN ended ELSE None
  /\ IF ended \in owned \ fresh
     THEN /\ owned' = owned \ {ended}
          /\ before' = Cut(before, {ended}) /\ after' = Cut(after, {ended})
          /\ mate' = Cut(mate, {ended})
          /\ strays' = IF cmd[ended] = "play" THEN strays \cup {ended}
                       ELSE strays
          /\ lost' = lost \ {ended} /\ UNCHANGED <<bared, torn>>
     ELSE UNCHANGED <<owned, mate, pairVars, pastVars>>
  /\ UNCHANGED <<anew, notes, soundVars, chipVars, pcmVars, tickVars, cmd, off,
                 rep, events>>

-----------------------------------------------------------------------------
(* Interrupt and chip.                                                     *)

(* The chip reports, once, a voice whose envelope has reached its target,  *)
(* and IRQ0 takes the report at once or after the stretch at IML 7.        *)
(* irq_service ignores reports of other voices; they are left out.         *)
IrqDispatch(v) ==
  /\ v \in armed /\ state[v] \in Watched /\ armed' = armed \ {v}
  /\ rep' = rep \cup {v} /\ events' = events \cup {1}
  /\ UNCHANGED <<noteVars, pairVars, soundVars, silent, endVars, pcmVars,
                 tickVars, pastVars, cmd, off>>

(* A voice on its way to zero gets there; so may one whose state was put   *)
(* back, unless the tick moves it on first.                                *)
Fade(v) ==
  /\ v \notin silent /\ (state[v] \in Fading \/ torn)
  /\ silent' = silent \cup {v}
  /\ UNCHANGED <<noteVars, pairVars, soundVars, armed, endVars, pcmVars,
                 tickVars, pastVars, cmd, off, rep, events>>

-----------------------------------------------------------------------------
(* PCM task.                                                               *)

PcmRuns(pc) == ~told /\ pcm = pc

WaitCommands ==
  /\ PcmRuns("wait") /\ 0 \in events
  /\ events' = events \ {0} /\ pcm' = "commands"
  /\ UNCHANGED <<noteVars, pairVars, soundVars, chipVars, endVars, play,
                 tickVars, pastVars, cmd, off, rep>>

WaitReports ==
  /\ PcmRuns("wait") /\ 0 \notin events /\ 1 \in events
  /\ events' = events \ {1} /\ pcm' = "reports"
  /\ UNCHANGED <<noteVars, pairVars, soundVars, chipVars, endVars, play,
                 tickVars, pastVars, cmd, off, rep>>

ReportsDone ==
  /\ PcmRuns("reports") /\ rep = {} /\ pcm' = "wait"
  /\ UNCHANGED <<noteVars, pairVars, soundVars, chipVars, endVars, play,
                 tickVars, pastVars, cmd, off, rep, events>>

(* irq_service of the highest voice reported: a report that ends the voice *)
(* (P-17) starts its fade and takes it out of its pair.                    *)
ReportService ==
  /\ PcmRuns("reports") /\ rep # {}
  /\ LET v == Highest(rep) IN
     /\ rep' = rep \ {v}
     /\ \/ UNCHANGED <<state, pairVars>>
        \/ /\ state[v] \in Watched
           /\ state' = [state EXCEPT ![v] = "dying"]
           /\ before' = Cut(before, {v}) /\ after' = Cut(after, {v})
  /\ UNCHANGED <<noteVars, saved, fresh, chipVars, endVars, pcmVars,
                 tickVars, pastVars, cmd, off, events>>

CommandsDone ==
  /\ PcmRuns("commands") /\ Asked = {} /\ pcm' = "wait"
  /\ UNCHANGED <<noteVars, pairVars, soundVars, chipVars, endVars, play,
                 tickVars, pastVars, cmd, off, rep, events>>

(* The end of voice v as the two lower tasks write it, to be signalled in  *)
(* a later step.                                                           *)
EndVoice(v) ==
  /\ state' = [state EXCEPT ![v] = "dead"]
  /\ before' = Cut(before, {v}) /\ after' = Cut(after, {v})
  /\ ended' = v

(* pcm_stop.                                                               *)
PcmStop(v) ==
  /\ PcmRuns("commands") /\ Asked # {} /\ v = Highest(Asked) /\ cmd[v] = "stop"
  /\ cmd' = [cmd EXCEPT ![v] = "none"] /\ fresh' = fresh \ {v}
  /\ IF v \in silent
     THEN /\ EndVoice(v) /\ pcm' = "end"
          /\ lost' = IF tick.pc = "end" THEN lost \cup ({ended} \ {v}) ELSE lost
     ELSE /\ state' = [state EXCEPT ![v] = "dying"]
          /\ UNCHANGED <<pairVars, ended, pcm, lost>>
  /\ UNCHANGED <<noteVars, saved, chipVars, told, play, tickVars, strays, bared,
                 torn, off, rep, events>>

(* Mutant: the task waits again without looking for more commands.         *)
PcmSignal_Waits ==
  /\ PcmRuns("end") /\ told' = TRUE /\ pcm' = "wait"
  /\ UNCHANGED <<noteVars, pairVars, soundVars, chipVars, ended, play,
                 tickVars, pastVars, cmd, off, rep, events>>

PcmSignal ==
  /\ PcmRuns("end") /\ told' = TRUE /\ pcm' = "commands"
  /\ UNCHANGED <<noteVars, pairVars, soundVars, chipVars, ended, play,
                 tickVars, pastVars, cmd, off, rep, events>>

(* pcm_play up to its first IML 0: the command of both voices of a pair is *)
(* taken, and a voice that starts anew is marked as not to be freed.       *)
PcmPlay(v) ==
  LET vs == PlayOrder(v) IN
  /\ PcmRuns("commands") /\ Asked # {} /\ v = Highest(Asked) /\ cmd[v] = "play"
  /\ cmd' = Mark(cmd, Members(vs), "none")
  /\ fresh' = fresh \cup (Members(vs) \cap anew)
  /\ play' = [NoPlay EXCEPT !.voices = vs, !.anew = Members(vs) \cap anew]
  /\ pcm' = "mask" /\ anew' = anew \ Members(vs)
  /\ UNCHANGED <<owned, mate, notes, pairVars, state, saved, chipVars, endVars,
                 tickVars, pastVars, off, rep, events>>

Playing == play.voices[play.at]
Withdrawn == cmd[Playing] # "none"
GoOn(here, next) ==
  IF play.at < Len(play.voices)
  THEN play' = [play EXCEPT !.at = @ + 1] /\ pcm' = here
  ELSE play' = [play EXCEPT !.at = 1] /\ pcm' = next
Abandon == pcm' = "tail" /\ play' = [play EXCEPT !.left = play.voices]

(* mask_set.                                                               *)
MaskSet ==
  /\ PcmRuns("mask")
  /\ IF Withdrawn THEN Abandon ELSE pcm' = "park" /\ play' = play
  /\ UNCHANGED <<noteVars, pairVars, soundVars, chipVars, endVars, tickVars,
                 pastVars, cmd, off, rep, events>>

(* note_on_setup of a note that goes on parks its voice (0x28e0), whatever *)
(* has happened to that since mask_set looked; of a new one it forgets     *)
(* what was kept (0x2925).                                                 *)
Park ==
  /\ PcmRuns("park") /\ pcm' = "setup" /\ play' = play
  /\ IF Playing \in play.anew
     THEN state' = state /\ saved' = [saved EXCEPT ![Playing] = "none"]
     ELSE /\ state' = [state EXCEPT ![Playing] = "parked"]
          /\ saved' = IF state[Playing] = "parked" THEN saved
                      ELSE [saved EXCEPT ![Playing] = state[Playing]]
  /\ UNCHANGED <<noteVars, pairVars, fresh, chipVars, endVars, tickVars,
                 pastVars, cmd, off, rep, events>>

(* The test that ends note_on_setup.                                       *)
Setup ==
  /\ PcmRuns("setup")
  /\ IF Withdrawn THEN Abandon ELSE GoOn("mask", "ack")
  /\ UNCHANGED <<noteVars, pairVars, soundVars, chipVars, endVars, tickVars,
                 pastVars, cmd, off, rep, events>>

(* param_ack: on when the old sound has faded, else wait for event 7,      *)
(* which comes with time.                                                  *)
ParamAck ==
  /\ PcmRuns("ack")
  /\ IF Withdrawn THEN Abandon
     ELSE IF Playing \in silent THEN GoOn("ack", "write")
     ELSE pcm' = "waitack" /\ play' = play
  /\ UNCHANGED <<noteVars, pairVars, soundVars, chipVars, endVars, tickVars,
                 pastVars, cmd, off, rep, events>>

WaitAck ==
  /\ PcmRuns("waitack") /\ pcm' = "ack"
  /\ UNCHANGED <<noteVars, pairVars, soundVars, chipVars, endVars, play,
                 tickVars, pastVars, cmd, off, rep, events>>

(* flush_off looks at the first voice once more; then param_write for each *)
(* voice, flush_on and loop_write, all at IML 7.                           *)
Resumed(v) == IF v \in play.anew THEN {"start", "run"} ELSE {saved[v]}

(* Mutant: flush_off does not ask once more.                               *)
ParamWrite_NoTest ==
  LET S == Members(play.voices) IN
  /\ PcmRuns("write")
  /\ IF FALSE
     THEN Abandon /\ UNCHANGED <<state, saved, rep, armed, silent>>
     ELSE /\ \E new \in [S -> States] :
               /\ \A v \in S : new[v] \in Resumed(v)
               /\ state' = [v \in Voices |-> IF v \in S THEN new[v]
                                                       ELSE state[v]]
          /\ saved' = Mark(saved, S \ play.anew, "none")
          /\ rep' = rep \ S /\ armed' = armed \cup S /\ silent' = silent \ S
          /\ pcm' = "commands" /\ play' = NoPlay
  /\ UNCHANGED <<noteVars, pairVars, fresh, endVars, tickVars, pastVars, cmd,
                 off, events>>

ParamWrite ==
  LET S == Members(play.voices) IN
  /\ PcmRuns("write")
  /\ IF Withdrawn
     THEN Abandon /\ UNCHANGED <<state, saved, rep, armed, silent>>
     ELSE /\ \E new \in [S -> States] :
               /\ \A v \in S : new[v] \in Resumed(v)
               /\ state' = [v \in Voices |-> IF v \in S THEN new[v]
                                                       ELSE state[v]]
          /\ saved' = Mark(saved, S \ play.anew, "none")
          /\ rep' = rep \ S /\ armed' = armed \cup S /\ silent' = silent \ S
          /\ pcm' = "commands" /\ play' = NoPlay
  /\ UNCHANGED <<noteVars, pairVars, fresh, endVars, tickVars, pastVars, cmd,
                 off, events>>

(* mask_tail of a play given up looks at each of its voices (0x549b,       *)
(* 0x54b5), all of it at IML 0: ...                                        *)
MaskTail ==
  /\ PcmRuns("tail") /\ play' = play
  /\ pcm' = IF state[Head(play.left)] = "parked" THEN "putback" ELSE "unmark"
  /\ UNCHANGED <<noteVars, pairVars, soundVars, chipVars, endVars, tickVars,
                 pastVars, cmd, off, rep, events>>

TailDone == IF Len(play.left) > 1
            THEN pcm' = "tail" /\ play' = [play EXCEPT !.left = Tail(@)]
            ELSE pcm' = "commands" /\ play' = NoPlay

(* ... a parked one goes back to what it was, though the voice task may    *)
(* have cut it since (0x54a5, 0x54bf), ...                                 *)
PutBack ==
  LET v == Head(play.left) IN
  /\ PcmRuns("putback") /\ TailDone
  /\ state' = [state EXCEPT ![v] = saved[v]]
  /\ torn' = (torn \/ state[v] # "parked")
  /\ UNCHANGED <<noteVars, pairVars, saved, fresh, chipVars, endVars, tickVars,
                 strays, lost, bared, cmd, off, rep, events>>

(* ... and for any other the voice in r1 loses its mark (0x54aa, 0x54c5).  *)
Unmark ==
  /\ PcmRuns("unmark") /\ TailDone
  /\ fresh' = fresh \ {Playing}
  /\ bared' = (bared \/ (ended = Playing /\ Playing \in fresh \ play.anew))
  /\ UNCHANGED <<noteVars, pairVars, state, saved, chipVars, endVars, tickVars,
                 strays, lost, torn, cmd, off, rep, events>>

-----------------------------------------------------------------------------
(* Tick task.  It runs while the PCM task waits.                           *)

TickRuns(pc) == /\ ~told /\ tick.pc = pc
                /\ \/ pcm = "wait" /\ events = {}
                   \/ pcm = "waitack"

NextVoice == [NoTick EXCEPT !.pc = "scan", !.at = tick.at - 1]

(* ts_scan: from the highest voice down, a pair at a time, none twice.     *)
(* Voices it only passes over are passed over with the step to the next    *)
(* one, and a tick that finds none is left out.                            *)
Due(from) == {v \in 1 .. from : v \notin seen /\ state[v] \in Scanned}
Look(from) ==
  /\ tick' = [NoTick EXCEPT !.pc = "param", !.at = Highest(Due(from)),
                            !.todo = PlayOrder(Highest(Due(from)))]
  /\ seen' = seen

TickStart ==
  /\ TickRuns("idle") /\ Due(Size) # {} /\ Look(Size)
  /\ UNCHANGED <<noteVars, pairVars, soundVars, chipVars, endVars, pcmVars,
                 pastVars, cmd, off, rep, events>>

TickScan ==
  /\ TickRuns("scan")
  /\ IF Due(tick.at) = {} THEN tick' = NoTick /\ seen' = {} ELSE Look(tick.at)
  /\ UNCHANGED <<noteVars, pairVars, soundVars, chipVars, endVars, pcmVars,
                 pastVars, cmd, off, rep, events>>

AfterSection ==
  IF tick.sec < Sections THEN [tick EXCEPT !.sec = @ + 1]
  ELSE IF Len(tick.todo) > 1
  THEN [tick EXCEPT !.sec = 1, !.todo = Tail(@)]
  ELSE NextVoice

(* voice_param, first section: level, then the key-off.                    *)
FirstSection(v) ==
  LET key == v \in off IN
  /\ seen' = seen \cup {v} /\ off' = off \ {v}
  /\ \/ /\ key /\ state[v] = "start" /\ fresh' = fresh \ {v}
        /\ EndVoice(v) /\ tick' = [tick EXCEPT !.pc = "end"]
     \/ /\ key /\ state[v] \in {"start", "run"}
        /\ fresh' = IF state[v] = "start" THEN fresh ELSE fresh \ {v}
        /\ state' = [state EXCEPT ![v] = IF @ = "start" THEN "run" ELSE "off"]
        /\ tick' = AfterSection /\ UNCHANGED <<pairVars, ended>>
     \/ /\ ~key \/ state[v] = "off"
        /\ fresh' = IF state[v] = "start" THEN fresh ELSE fresh \ {v}
        /\ tick' = AfterSection /\ UNCHANGED <<state, pairVars, ended>>

LaterSection ==
  /\ tick' = AfterSection
  /\ UNCHANGED <<seen, off, fresh, state, pairVars, ended>>

(* Mutant: the voice task is not told.                                     *)
Leave_Quietly(v) ==
  /\ seen' = seen \cup {v} /\ UNCHANGED off
  /\ IF state[v] = "dying" /\ v \in silent
     THEN /\ EndVoice(v) /\ fresh' = fresh \ {v}
          /\ tick' = NextVoice
     ELSE /\ fresh' = IF state[v] = "dying" THEN fresh \ {v} ELSE fresh
          /\ tick' = NextVoice /\ UNCHANGED <<state, pairVars, ended>>

(* The exit at 0x3061: an ending voice whose envelope is at zero ends.  It *)
(* leaves the loop, also for the other voice of a pair.                    *)
Leave(v) ==
  /\ seen' = seen \cup {v} /\ UNCHANGED off
  /\ IF state[v] = "dying" /\ v \in silent
     THEN /\ EndVoice(v) /\ fresh' = fresh \ {v}
          /\ tick' = [tick EXCEPT !.pc = "end"]
     ELSE /\ fresh' = IF state[v] = "dying" THEN fresh \ {v} ELSE fresh
          /\ tick' = NextVoice /\ UNCHANGED <<state, pairVars, ended>>

(* Mutant: the first stretch relies on the test of the scan.               *)
VoiceParam_TestsLate ==
  LET v == tick.todo[1] IN
  /\ TickRuns("param")
  /\ IF tick.sec > 1 /\ state[v] \notin Watched THEN Leave(v)
     ELSE IF tick.sec = 1 THEN FirstSection(v) ELSE LaterSection
  /\ UNCHANGED <<noteVars, saved, chipVars, told, pcmVars, pastVars, cmd, rep,
                 events>>

VoiceParam ==
  LET v == tick.todo[1] IN
  /\ TickRuns("param")
  /\ IF state[v] \notin Watched THEN Leave(v)
     ELSE IF tick.sec = 1 THEN FirstSection(v) ELSE LaterSection
  /\ UNCHANGED <<noteVars, saved, chipVars, told, pcmVars, pastVars, cmd, rep,
                 events>>

TickSignal ==
  /\ TickRuns("end") /\ told' = TRUE /\ tick' = NextVoice
  /\ UNCHANGED <<noteVars, pairVars, soundVars, chipVars, ended, pcmVars, seen,
                 pastVars, cmd, off, rep, events>>

-----------------------------------------------------------------------------
NewNote == \/ \E v \in Voices : NoteOn(<<v>>) \/ NoteEmpty(v) \/ Tie(v)
                                \/ Release(v) \/ KeyOff(v)
           \/ \E v, w \in Voices : v # w /\ NoteOn(<<v, w>>)
Chip == \E v \in Voices : IrqDispatch(v) \/ Fade(v)
PcmTask == \/ WaitCommands \/ WaitReports \/ ReportsDone \/ ReportService
           \/ CommandsDone \/ PcmSignal \/ MaskSet \/ Park \/ Setup
           \/ ParamAck \/ WaitAck \/ ParamWrite
           \/ MaskTail \/ PutBack \/ Unmark
           \/ \E v \in Voices : PcmStop(v) \/ PcmPlay(v)
TickTask == TickStart \/ TickScan \/ VoiceParam \/ TickSignal

Next == NewNote \/ HearEnd \/ Chip \/ PcmTask \/ TickTask

Spec == Init /\ [][Next]_vars

(* Every task that can run does in the end, an interrupt is taken, time    *)
(* passes, and a fade ends.  New notes and reports need not come.          *)
FairSpec == /\ Spec
            /\ WF_vars(PcmTask) /\ WF_vars(TickTask)
            /\ WF_vars(HearEnd)
            /\ \A v \in Voices : WF_vars(Fade(v) /\ state[v] \in Fading)
-----------------------------------------------------------------------------
(* Properties.                                                             *)

GivenUp == pcm \in {"tail", "putback", "unmark"}

TypeOK ==
  /\ cmd \in [Voices -> {"none", "play", "stop"}]
  /\ state \in [Voices -> States] /\ saved \in [Voices -> States \cup {"none"}]
  /\ \A link \in {mate, before, after} : link \in [Voices -> 0 .. Size]
  /\ \A S \in {fresh, anew, owned, off, rep, armed, silent, seen, strays, lost} :
       S \subseteq Voices
  /\ ended \in 0 .. Size /\ told \in BOOLEAN
  /\ events \subseteq {0, 1} /\ notes \in 0 .. MaxNotes
  /\ bared \in BOOLEAN /\ torn \in BOOLEAN
  /\ pcm \in {"wait", "commands", "reports", "mask", "park", "setup", "ack",
              "waitack", "write", "tail", "putback", "unmark", "end"}
  /\ Members(play.voices) \subseteq Voices /\ Len(play.voices) <= 2
  /\ tick.pc \in {"idle", "scan", "param", "end"} /\ tick.at \in 0 .. Size

(* A stop never waits on a voice that is still half of a pair: pcm_play of *)
(* the other half would clear it (0x52e0, 0x52ed) and the sound would stay.*)
NoStopOnPair == \A v \in Voices : cmd[v] = "stop" =>
                  before[v] = None /\ after[v] = None

(* A free voice sounds only if the end of the note before came late, while *)
(* the new note was still waiting to be materialized, and took the voice   *)
(* from it; or if mask_tail has erred, which the code lets it in two ways. *)
(* It has put a voice back that was cut after it had looked (torn, 0x549b  *)
(* to 0x54a5), or it has taken the mark of a note that was started and     *)
(* tied before the end of the one before was heard (bared, 0x54aa).        *)
NoOrphan == \A v \in Voices \ owned :
              state[v] \in Watched => v \in strays \/ bared \/ torn

(* The mark 0xff in ad0e is what keeps free_voice away from a voice that   *)
(* is being played: its whole way through pcm_play the voice carries it,   *)
(* whatever the tick task does meanwhile, until it is taken away again.    *)
(* Once mask_tail has erred (as in NoOrphan) the tick may take it before.  *)
MarkedInPlay == \A v \in Members(play.voices) \cap play.anew :
                  cmd[v] = "none" /\ ~GivenUp =>
                    v \in fresh \/ bared \/ torn

(* param_write never starts a voice that has been told to stop, although   *)
(* flush_off asks only about the first of a pair; unless mask_tail has     *)
(* erred (as in NoOrphan), and one of the pair was freed without the other.*)
NoPlayAfterStop ==
  [][\A v \in Voices : v \in silent \ silent' => cmd[v] # "stop" \/ bared \/ torn]_vars

(* Every command is taken and every play comes to its end: the PCM task    *)
(* never waits for ever in param_ack, unless mask_tail has put back a      *)
(* voice that was cut, which the tick may then keep sounding.              *)
Unserved == Asked # {} \/ play # NoPlay
CommandsServed == Unserved ~> ~Unserved \/ torn

(* The voice of a note that has ended gets free, unless pcm_stop wrote the *)
(* number of another voice over it between the store and the signal.       *)
Unheard == {v \in owned \ lost : state[v] = "dead" /\ cmd[v] = "none"}
EndsHeard == Unheard # {} ~> Unheard = {}
=============================================================================
