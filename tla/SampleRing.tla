----------------------------- MODULE SampleRing -----------------------------
(***************************************************************************)
(* The audio ring (mcu.cpp) and the lock around it: sample_buffer with     *)
(* sample_write_ptr, moved by the work thread in MCU_PostSample, and       *)
(* sample_read_ptr, moved by SDL's audio thread in audio_callback.  Equal  *)
(* pointers mean that the ring is full: it starts full of silence, and the *)
(* work thread lets go of work_thread_lock and polls until the callback    *)
(* has moved on, which is the only time the main thread can draw.          *)
(*                                                                         *)
(* The code counts shorts; here a slot is a stereo frame (two shorts).     *)
(* Frames are numbered in the order they are produced; 0 is silence.       *)
(***************************************************************************)
EXTENDS Integers, Sequences

CONSTANTS
    PageFrames,    \* audio_page_size / 2
    PageNum,       \* pages in the ring
    MaxFrames,     \* bound: frame numbers
    Wrap,          \* TRUE: numbers start again; FALSE: production stops
    StartModes,    \* bit 6 of config_reg_3c (oversampling) at the start
    Switches,      \* and the values the firmware may write to it later
    Paced          \* TRUE: the device never asks for more than was produced

N == PageFrames * PageNum          \* audio_buffer_size, in frames
Request == PageFrames \div 2       \* what one callback plays: spec.samples

\* -ab takes any numbers; with these the callback's requests tile the ring
\* and the frame pairs of oversampling tile the requests.
ASSUME GeometryAssumption ==
    /\ PageFrames \in Nat /\ PageNum \in Nat /\ MaxFrames \in Nat
    /\ Request > 0 /\ Request % 2 = 0 /\ PageFrames = 2 * Request /\ PageNum > 0
    /\ MaxFrames > 0 /\ Wrap \in BOOLEAN /\ Paced \in BOOLEAN
    /\ StartModes \subseteq BOOLEAN /\ Switches \subseteq BOOLEAN

VARIABLES
    buf, wp, rp,       \* sample_buffer, sample_write_ptr, sample_read_ptr
    oversampling,      \* config_reg_3c & 0x40
    wpc, posts,        \* the work thread, and the frames left to post this time
    lock,              \* work_thread_lock: absent, free, or its holder
    run,               \* work_thread_run
    mpc, working,      \* the main thread in MCU_Run, and its loop flag
    quit,              \* lcd_quit_requested
    apc,               \* the audio callback
    count,             \* the last frame produced
    out,               \* history: the last page handed to the device
    ahead              \* history: frames the callback has yet to play

ring == <<buf, wp, rp, oversampling, count, out, ahead>>
main == <<mpc, working, quit>>
vars == <<ring, main, wpc, posts, lock, run, apc>>

Slots == 0 .. N - 1
Frames == 1 .. MaxFrames
Full == rp = wp

TypeOK ==
    /\ buf \in [Slots -> {0} \cup Frames] /\ wp \in Slots /\ rp \in Slots
    /\ oversampling \in BOOLEAN
    /\ wpc \in {"create", "enter", "align", "check", "spin", "relock", "instr",
                "post", "done"}
    /\ posts \in 0 .. 2
    /\ lock \in {"absent", "free", "work", "main"}
    /\ run \in BOOLEAN /\ working \in BOOLEAN /\ quit \in BOOLEAN
    /\ mpc \in {"poll", "lock", "draw", "bare", "stop", "join", "exit"}
    /\ apc \in {"idle", "clear", "move"}
    /\ count \in 0 .. MaxFrames
    /\ out \in Seq({0} \cup Frames)
    /\ ahead \in 0 .. N + 1

Init ==
    /\ buf = [s \in Slots |-> 0] /\ wp = 0 /\ rp = 0
    /\ oversampling \in StartModes
    /\ wpc = "create" /\ posts = 0 /\ lock = "absent" /\ run = TRUE
    /\ mpc = "poll" /\ working = TRUE /\ quit = FALSE
    /\ apc = "idle" /\ count = 0
    /\ out = [i \in 1 .. Request |-> 0] /\ ahead = N

-----------------------------------------------------------------------------
(* work_thread                                                             *)

CreateLock ==
    /\ wpc = "create"
    /\ lock' = "free"
    /\ wpc' = "enter"
    /\ UNCHANGED <<ring, main, posts, run, apc>>

EnterLoop ==
    /\ wpc = "enter" /\ lock = "free"
    /\ lock' = "work"
    /\ wpc' = "align"
    /\ UNCHANGED <<ring, main, posts, run, apc>>

\* The write pointer is rounded down to a whole frame, or to a whole pair.
Align_Never(p) == p
Align(p) == IF oversampling THEN p - (p % 2) ELSE p

\* The top of the loop.  On the way out the lock is released and destroyed.
LoopTop ==
    /\ wpc = "align"
    /\ IF run
       THEN /\ wp' = Align(wp)
            /\ ahead' = ahead - (wp - wp')
            /\ wpc' = "check"
            /\ UNCHANGED lock
       ELSE /\ wpc' = "done"
            /\ lock' = "absent"
            /\ UNCHANGED <<wp, ahead>>
    /\ UNCHANGED <<buf, rp, oversampling, count, out, main, posts, run, apc>>

CheckFull_Blind ==
    /\ wpc = "check"
    /\ wpc' = "instr"
    /\ UNCHANGED <<ring, main, posts, lock, run, apc>>
CheckFull ==
    /\ wpc = "check"
    /\ wpc' = IF Full THEN "spin" ELSE "instr"
    /\ lock' = IF Full THEN "free" ELSE lock
    /\ UNCHANGED <<ring, main, posts, run, apc>>

\* The poll looks at the pointers only, never at work_thread_run.
SpinExit_Deaf ==
    /\ wpc = "spin" /\ ~Full /\ wp # 0
    /\ wpc' = "relock"
    /\ UNCHANGED <<ring, main, posts, lock, run, apc>>
SpinExit ==
    /\ wpc = "spin" /\ ~Full
    /\ wpc' = "relock"
    /\ UNCHANGED <<ring, main, posts, lock, run, apc>>

Relock_Skipped ==
    /\ wpc = "relock"
    /\ wpc' = "instr"
    /\ UNCHANGED <<ring, main, posts, lock, run, apc>>
Relock ==
    /\ wpc = "relock" /\ lock = "free"
    /\ lock' = "work"
    /\ wpc' = "instr"
    /\ UNCHANGED <<ring, main, posts, run, apc>>

\* One instruction, which may write config_reg_3c, and PCM_Update: no sample
\* is due yet, or one is, which posts a frame, or two when oversampling.
Instr ==
    /\ wpc = "instr"
    /\ oversampling' \in {oversampling} \cup Switches
    /\ posts' \in {0, IF oversampling' THEN 2 ELSE 1}
    /\ Wrap \/ count + posts' <= MaxFrames
    /\ wpc' = IF posts' = 0 THEN "align" ELSE "post"
    /\ UNCHANGED <<buf, wp, rp, count, out, ahead, main, lock, run, apc>>

NextFrame == IF count = MaxFrames THEN 1 ELSE count + 1

\* MCU_PostSample
PostSample ==
    /\ wpc = "post"
    /\ buf' = [buf EXCEPT ![wp] = NextFrame]
    /\ wp' = (wp + 1) % N
    /\ count' = NextFrame
    /\ ahead' = ahead + 1
    /\ posts' = posts - 1
    /\ wpc' = IF posts = 1 THEN "align" ELSE "post"
    /\ UNCHANGED <<rp, oversampling, out, main, lock, run, apc>>

-----------------------------------------------------------------------------
(* audio_callback: copy, clear, move the read pointer                      *)

CallbackCopy ==
    /\ apc = "idle"
    /\ Paced => ahead > Request
    /\ out' = [i \in 1 .. Request |-> buf[rp + i - 1]]
    /\ apc' = "clear"
    /\ UNCHANGED <<buf, wp, rp, oversampling, count, ahead, main, wpc, posts, lock, run>>

CallbackClear_Skipped ==
    /\ apc = "clear"
    /\ apc' = "move"
    /\ UNCHANGED <<ring, main, wpc, posts, lock, run>>
CallbackClear ==
    /\ apc = "clear"
    /\ buf' = [s \in Slots |-> IF s \in rp .. rp + Request - 1 THEN 0 ELSE buf[s]]
    /\ apc' = "move"
    /\ UNCHANGED <<wp, rp, oversampling, count, out, ahead, main, wpc, posts, lock, run>>

\* A request that overtakes the writer adds a lap: the writer sees a ring
\* (nearly) full of silence.
CallbackMove ==
    /\ apc = "move"
    /\ rp' = (rp + Request) % N
    /\ ahead' = IF ahead >= Request THEN ahead - Request ELSE ahead - Request + N
    /\ apc' = "idle"
    /\ UNCHANGED <<buf, wp, oversampling, count, out, main, wpc, posts, lock, run>>

-----------------------------------------------------------------------------
(* The main thread: MCU_Run and LCD_Update.  Locking a mutex that does not *)
(* exist yet and unlocking one that another thread holds do nothing: it    *)
(* may draw bare until the work thread has created the mutex.              *)

MainPoll ==
    /\ mpc = "poll"
    /\ working' = ~quit
    /\ mpc' = "lock"
    /\ UNCHANGED <<ring, quit, wpc, posts, lock, run, apc>>

MainLock ==
    /\ mpc = "lock" /\ lock \in {"absent", "free"}
    /\ lock' = IF lock = "free" THEN "main" ELSE lock
    /\ mpc' = IF lock = "free" THEN "draw" ELSE "bare"
    /\ UNCHANGED <<ring, working, quit, wpc, posts, run, apc>>

\* The lock is released after the picture is made; the events polled then
\* may ask to quit.
MainUnlock ==
    /\ mpc \in {"draw", "bare"}
    /\ lock' = IF lock = "main" THEN "free" ELSE lock
    /\ quit' \in {quit, TRUE}
    /\ mpc' = IF working THEN "poll" ELSE "stop"
    /\ UNCHANGED <<ring, working, wpc, posts, run, apc>>

MainStop_Forgotten ==
    /\ mpc = "stop"
    /\ mpc' = "join"
    /\ UNCHANGED <<ring, working, quit, wpc, posts, lock, run, apc>>
MainStop ==
    /\ mpc = "stop"
    /\ run' = FALSE
    /\ mpc' = "join"
    /\ UNCHANGED <<ring, working, quit, wpc, posts, lock, apc>>

MainJoin ==
    /\ mpc = "join" /\ wpc = "done"
    /\ mpc' = "exit"
    /\ UNCHANGED <<ring, working, quit, wpc, posts, lock, run, apc>>

-----------------------------------------------------------------------------
WorkThread ==
    \/ CreateLock \/ EnterLoop \/ LoopTop \/ CheckFull \/ SpinExit \/ Relock
    \/ Instr \/ PostSample
AudioThread == CallbackCopy \/ CallbackClear \/ CallbackMove
MainThread == MainPoll \/ MainLock \/ MainUnlock \/ MainStop \/ MainJoin

Next == WorkThread \/ AudioThread \/ MainThread

Spec == Init /\ [][Next]_vars

\* Every thread runs whenever it can, SDL keeps calling back, and a thread
\* that waits for the mutex gets it if it is free again and again: the spin
\* sleeps with the mutex free.
FairSpec ==
    /\ Spec /\ WF_vars(WorkThread) /\ WF_vars(AudioThread) /\ WF_vars(MainThread)
    /\ SF_vars(Relock) /\ SF_vars(EnterLoop) /\ SF_vars(MainLock)

-----------------------------------------------------------------------------
(* Properties                                                              *)

\* How far apart the code sees the pointers; equal pointers are a full ring.
Occupied == IF Full THEN N ELSE (wp + N - rp) % N

\* Where the work thread decides whether the ring is full (mcu.cpp:1829) the
\* two pointers tell the truth: the distance it sees is the number of frames
\* still to be played, and not a lap less because the writer passed the reader,
\* also when the switch to oversampling let it write one frame too many.  Only
\* a ring drained to the last frame is taken for a full one.
NoLapLost == wpc = "check" => Occupied = IF ahead = 0 THEN N ELSE ahead

\* A picture shows the emulator between instructions: once the mutex exists,
\* the main thread draws only while the work thread is not inside one.
DrawsAlone == mpc = "draw" => wpc \notin {"instr", "post"}

\* Whatever the device's pace, no frame is heard twice: once the callback has
\* returned, nothing that it played is left in the ring.  (A starved device
\* may lose a frame, or hear one a lap late: one posted while the callback
\* was passing it.)
HeardOnce ==
    apc = "idle" => \A i \in 1 .. Request, s \in Slots : out[i] # 0 => buf[s] # out[i]

\* While the device is paced, the ring is a delay line: one ring of silence,
\* then every frame, once and in order, none dropped, none overwritten.
Unplayed ==
    LET played == IF apc = "idle" THEN 0 ELSE Request
    IN [i \in 1 .. ahead - played |-> buf[(rp + played + i - 1) % N]]
Line == INSTANCE DelayLine WITH
    Capacity <- N, Frames <- Frames, line <- Unplayed, out <- out
ImplementsDelayLine == Line!Spec

\* If the ring keeps filling up, the window that was asked to close closes:
\* the main thread gets the lock, and the work thread leaves its poll and
\* its loop so that the main thread can join it.
QuitHonoured == ([]<>(wpc = "spin" \/ ~run)) => (quit ~> (mpc = "exit"))

\* Once work_thread_run is cleared the work thread ends, although its poll
\* on the full ring never looks at the flag.
WorkThreadEnds == ~run ~> wpc = "done"
=============================================================================
