# A verification development for Nuked-SC55

TLA+ models of the SC-55 emulator under `src/` (the emulator proper, C++) and of
its static recompilation under `mk2cpp/`: the host side, and those parts of the
firmware that the repository holds as hand-written routines in
`mk2cpp/src/hand/`. TLC checks them on small instances; TLAPS checks theorems for
every value of the constants. Paths are relative to the repository; those into
`mk2cpp/` stand below its `src/`.

## 1. The system

The program emulates a sound module. Several CPUs' worth of state advance in one
loop on one thread; two more threads feed it and drain it, a third shows it and
reads the keyboard. On the emulated CPU runs the firmware, which on the mk2 the
recompilation replaces routine by routine: three of its tasks share 28 voices.

```
 MIDI port ──callback thread──▶ uart_buffer ──┐
 -midiseq schedule ──midiseq_poll────────────▶│
                                              ▼
        work_thread:  poll interrupts ▸ one instruction ▸ midiseq_poll ▸
                      PCM_Update ▸ TIMER_Clock ▸ SM_Update / MCU_UpdateUART ▸
                      MCU_UpdateAnalog ▸ gate array
                            │ MCU_PostSample
                            ▼
                      sample_buffer ──SDL audio thread (audio_callback)──▶ device
 main thread:  LCD_Update under work_thread_lock ▸ events ▸ quit ▸ join
        key events ──▶ mcu_button_pressed ──▶ port 1, read by the firmware

 firmware:   note ──▶ voice task ──d0e0 (play, stop)──▶ PCM task ──▶ chip
                        ▲  ▲ lists of voices              ▲  d15c (reports)
                        │  └──a1f6 (a voice ended)────────┤◀── voice interrupt
                        └──────── tick task: every sounding voice, every tick
             panel task: rows of the button matrix ──▶ events
```

### Inventory

| component | state | operations | talks to | what is hard | what makes it correct |
|---|---|---|---|---|---|
| **MIDI input ring** `src/mcu.cpp:395-401, 1109-1150, 1675-1799`, `src/submcu.cpp:1388-1413`, `src/midi_*.cpp` | `uart_buffer`, two pointers, receiver flag and byte, delay | post a byte, poll the schedule, receive, read the data register | MIDI callback thread ↔ work thread, no lock | plain shared ints, store before publish, two producers, ring full | FIFO, nothing lost or invented, everything received |
| **Audio sample ring and threads** `src/mcu.cpp:1801-1837, 2046-2064, 2138-2287`, `src/lcd.cpp:431-562` | `sample_buffer`, two pointers, `work_thread_lock`, `work_thread_run`, quit flag | post a frame, callback, lock/unlock, poll on full, stop, join | work thread, SDL audio thread, main thread | full = equal pointers, oversampling posts pairs, mutex created late, poll ignores the run flag | a delay line while paced; drawing alone; shutdown ends |
| **Interrupt controller and host loop** `src/mcu_interrupt.cpp`, `src/mcu.cpp:1823-1972`, `src/mcu_opcodes.cpp` (SR, TRAPA, SLEEP, RTE), `mk2cpp.cpp:147-164` | pending requests, traps, one exception slot, SR mask and T, `ex_ignore`, `sleep`, stack | request, poll, trap, return, write SR, sleep | every device; L1 routines | requests outlive their entry; shadow of RTE; closed source ahead in the scan | no re-entry, shadows kept, every request served |
| **Timers** `src/mcu_timer.cpp` | 3 FRTs, one 8-bit timer, shared byte latch | clock, register access by bytes | interrupt controller, firmware | flag raised between read and write; counter runs between byte accesses | no flag lost, 16-bit reads whole, heartbeat goes on |
| **PCM voice control** `src/pcm.cpp:71-263, 541, 1117-1147, 1474-1615` | voice mask (pending, committed), key/report bits, one report slot | write mask bytes, commit, frame, read report | firmware, interrupt controller | many voices, one slot; half-written mask | no report lost or replaced, no start before the commit |
| **Snapshot** `src/mcu.cpp:1196-1283, 1807-1821, 1922-1934` | the image | save after an instruction, load at start | everything; MIDI thread while writing | fields left out; no lock | exact saved state |
| **Buttons** `src/lcd.cpp:556-585`, `src/mcu.cpp:1880-1905, 2083-2097`, `hand/maint_table_walk_d1d6.cpp`, `hand/reset_init.cpp` | `mcu_button_pressed`, row selected, masks told | key event, demo step, read port 1, scan a row, sleep | main thread, work thread, panel task | read-modify-write against another thread; a scan that stops at the first change | what stays pressed is told |
| **Voice pool and notes** `hand/native_pool.cpp`, `native_allocfree.cpp`, `note_chain_tail.cpp`, `note_path.cpp` | 20 byte arrays: idle list, voices of a note, notes of a part; counts, pedals, sostenuto table | note on (retrigger, steal, set up, fill), key off, two pedals, end of a voice | voice task only | several linked lists kept consistent by hand; late ends; three reasons to keep a note alive | lists whole, no voice lost, no stuck note, reserves respected |
| **Voice tasks** `hand/voice_materialize.cpp`, `voice_param.cpp`, `pcm_irq_service.cpp`, `ts_scan.cpp`, `pcm_dispatch.cpp`, `mask_acc.cpp` | state word and command of each voice, pairs, masks of voices on and reported, one mailbox a1f6 | materialize, release, stop, play, wait for silence, report, tick | voice task, PCM task, tick task, voice interrupt | windows of IML 0 inside each routine, voice reused meanwhile | no command or end lost, nobody waits for ever, no freed voice sounds |
| **Sound of a voice** `hand/note_on_setup.cpp`, `voice_materialize.cpp`, `pcm_interp.cpp`, `dsp_rate.cpp`, `pitch_env.cpp`, `voice_param.cpp`, `pcm_fraction_div.cpp` | a voice's record: oscillators, times, levels, pitch, what controllers add | set up, tie, tick | the three tasks; the part's settings | carries and signs in 8, 16 and 24 bits; elapsed time unbounded | limits respected, nothing starts again or passes its end |
| **Oscillators in step** `hand/note_on_setup.cpp:706-861`, `voice_materialize.cpp:2502-2692`, `pcm_interp.cpp:1203-1352, 1674-1934` | table of leaders, gates | find a leader, follow, promote | voices of one tone | leader ends in the middle of a tick that lets others in | no ring of followers |
| **Main CPU serial status, A/D** `src/mcu.cpp:480-522, 614-646` | SSR/SCR, `ssr_rd`, ADCSR, `adf_rd`, conversion delay | register access, conversion, transmit | firmware, interrupts | read-before-clear latches | same promise as a timer's flag |
| **Gate array and encoder** `src/mcu.cpp:700-775, 2288-2307` | `ga_int`, enables, one trigger | raise, acknowledge, encoder step, LCD counter | PCM (JV-880), sub-MCU, main thread | one trigger slot for several lines | a raised line is told |
| **Sub-MCU** `src/submcu.cpp` | 6502-like CPU, RAM, mailbox, timer, UART | execute, interrupts, mailbox, timer | main CPU | mailbox races | no command lost |
| **LCD** `src/lcd.cpp` | display RAM | write, draw | main thread ↔ work thread | drawn while written | the mutex |
| **PCM sound generation** `src/pcm.cpp:264-537, 555-1116, 1150-1473, 1486-1583` | voice RAM, filters, envelopes, effects | one frame | sample ring | arithmetic | bit-exactness (the repository's own comparators) |
| **Main CPU interpreter** `src/mcu_opcodes.cpp`, `src/mcu.cpp:524-1067` | registers, RAM | instructions, memory map | all devices | sequential | co-simulation |
| **Command line, schedule parser, ROM loading** | options, `g_midiseq_ev` | parse once | ring | – | well-formed schedule |
| **Observers** (trace, hash dump, WAV capture) | files | write | – | `.meta` file last | – |
| **mk2cpp dispatch** `mk2cpp.cpp`, `hand/hand_registry.cpp` | table of routines | register, look up, fall back | interpreter, interrupts | which tier runs an address | same state as the interpreter |
| tools, third party, build | – | – | – | – | – |

`PROJECT.json` lists the components with their status, and the hazards (what can
go wrong and a test would hardly reach) with the line where each bites and the
properties that watch it.

### Plan

The order follows what everything else hangs on: input, output, control, time,
voices, sound.

1. *Done:* `UartRing` (refines `MidiChannel`), `SampleRing` (refines `DelayLine`),
   `McuInterrupt`, `Timers` (refines `StatusFlag`), `Snapshot` (composed with
   `UartRing`), `VoiceIrq`, with proofs.
2. *Done:* the firmware's voices: `VoicePool` and `VoiceNotes` (refine
   `VoiceAllocator`), `VoiceTasks`, `LfoSync`, and the arithmetic of a voice
   (`Words`, `VoicePitch`, `VoiceLevel`, `VoiceLfo`, `VoiceControls`,
   `VoiceSetup`) composed in `VoiceSound`; `Panel`. Proofs about `VoiceNotes`,
   `VoiceTasks`, `LfoSync` and `VoiceSound`.
3. *Left:* status bits of the serial port and the A/D converter as further
   refinements of `StatusFlag`; the gate array with `VoiceIrq` for the JV-880; the
   sub-MCU's mailbox; the envelopes' segments of filter and level; the routine
   table of mk2cpp and its fallback.
4. *Proofs left:* none of a safety property; liveness is beyond the prover (section 4).

## 2. Modules and how they correspond to the code

| module | models | checked through |
|---|---|---|
| `MidiChannel` | nothing in the code: the FIFO channel the input promises | `ImplementsChannel` |
| `UartRing` | the MIDI ring with both producers and both receivers | `MCUartRing` |
| `DelayLine` | nothing in the code: the promise of the audio ring | `ImplementsDelayLine` |
| `SampleRing` | audio ring, mutex, three threads | `MCSampleRing` |
| `McuInterrupt` | controller, host loop, instructions that touch SR, boundary polls | `MCMcuInterrupt` |
| `StatusFlag` | nothing in the code: a flag that is read before it is cleared | `FlagsAcknowledged` |
| `Timers` | FRT1–3 and the 8-bit timer | `MCTimers` |
| `Snapshot` | save and load, extends `UartRing` | `MCSnapshot` |
| `VoiceIrq` | voice mask, key-on, reports | `MCStudies` |
| `VoiceAllocator` | nothing in the code: what a pool of voices promises | `ImplementsAllocator` |
| `VoicePool` | the lists and the operations on them, as functions of a pool | `VoiceNotes` |
| `VoiceNotes` | the handlers of the voice task over the lists | `MCVoiceNotes` |
| `VoiceTasks` | voice task, PCM task, tick task, voice interrupt | itself |
| `LfoSync` | oscillators that copy each other | itself, `MCStudies` |
| `Words` | the H8's words: widths, signs, MULXU and DIVXU | the four below |
| `VoicePitch` | pitch, portamento, bend, beat, step | `VoiceSound` |
| `VoiceLevel` | volumes, tremolo, squaring | `VoiceSound` |
| `VoiceLfo` | delay, fade-in and wave of an oscillator | `VoiceSound` |
| `VoiceControls` | eleven destinations of the controllers | `VoiceSound` |
| `VoiceSetup` | what a voice is given when its note starts | `VoiceSound` |
| `VoiceSound` | one voice from note on through ties and ticks | `MCStudies` |
| `Panel` | keys, button mask, port 1, the firmware's scan | `MCStudies` |
| `UartRingProofs`, `SampleRingProofs`, `McuInterruptProofs`, `TimersProofs`, `VoiceNotesProofs`, `VoiceTasksProofs`, `VoiceSoundProofs` | theorems about the module of that name; the first also about `Snapshot` | |
| `StudiesProofs` | theorems about `VoiceIrq` and `LfoSync` | |

`PROJECT.json` maps every definition to its lines. Definitions named
`X_Something` that stand before `X` are wrong variants of `X`, kept to show that
the properties notice them; nothing uses them.

**UartRing.** The work thread's program counter `wpc` goes round
`instr → poll → (store → publish)* → rx → (read → advance) → instr`, one step per
access the other thread can separate; the MIDI callback thread (`hpc`) goes
`load → store → publish` for each byte. `wp`/`rp` are the code's pointers,
`midiseq_free_bytes` its test. A byte is a number that tells who posted it and
in which place. The pointers are plain `int`s in C++, a data race: the model
allows what an x86 build does, where stores become visible in program order, and
lets each increment use either the pointer it loaded or the one in memory, since
the compiler may do either. `EnableRx` and the actions of `Fetch` are the
firmware's accesses, each an instruction of its own: the sub-MCU empties its
receiver by reading it (`ReadData`); the main CPU's handler reads RDR and SSR, in
either order, and then writes SSR (`fw` is what it has read, `rxReq` the request,
`ssrRd` bit 6 of `ssr_rd`). The write withdraws the request and starts
`uart_rx_delay` only if `ssr_rd` has the flag, and clears the flag in any case.
That the handler is started by the request, and does all three, is an assumption
about the firmware; one that clears the flag with BCLR makes two of them one.

**SampleRing.** A slot is a stereo frame (two shorts of the code). `wpc` follows
`work_thread` from the creation of the mutex to its end, `apc` the callback's
copy, clear and move, `mpc` `MCU_Run` and `LCD_Update`. `ahead`, a history
variable, counts the frames the callback has yet to play; the code has only the
pointers, and the properties say when the pointers tell the truth about it.
SDL's mutex calls on a mutex that is `NULL` or not held by the caller do nothing
harmful; that is how the first picture, drawn before the work thread created the
mutex, is modelled (`bare`).

**McuInterrupt.** `step` is the place in the round: poll, execute, devices; an L1
routine may go `execute → boundary → execute` inside one round. `Handle` has one
disjunct per outcome of `MCU_Interrupt_Handle`. Of an instruction, only what it
does to SR, traps, exceptions, sleep and requests is kept. `stack` holds the
frames `MCU_Interrupt_Start` pushed, with who pushed them, which the code does not
record. Firmware is assumed to lower its mask in the main program only, to sleep
there with every level open, and to clear a request at its device before it
returns; these are the guards of `WriteSR`, `Sleep` and the fairness. NMI, which
nothing raises, is left out.

**Timers.** `Tick` is one round of `TIMER_Clock`'s loop for all channels; the rest
is one action per kind of register access. Flags are a set per channel; the
clock division is a number, 0 for a stopped 8-bit timer. `word` is a history of
the 16-bit read under way. Writes to TCR that disable an interrupt leave its
request pending, as in the code.

**Snapshot.** `SaveBuffer` follows an instruction and writes the buffer;
`SavePointers` writes the rest, so that the callback thread can come between.
`Load` is another process: what the image has comes back (the firmware's place in
its handler and the request included), all other statics start from zero:
`uart_rx_delay`, `ssr_rd`, and the sub-MCU's receiver.

**VoiceIrq.** `Frame` is one turn of `PCM_Update`'s outer loop, over all slots. Of
a voice's address generator only "it has entered its loop" is kept; a frame may
let any playing voice enter it. Firmware writes ram2[7] with bit 5 clear or as
it read it (`Program`): key-on by hand is not modelled.

**VoicePool, VoiceNotes.** The 20 byte arrays are one record `pool`; the module's
header names the address of each field. A list cell 0xff is `None`. `VoicePool`
has one operator per routine, from a pool to a pool; `VoiceNotes` composes them
into the voice task's handlers. A handler is one action, since no other task
touches the lists and the voice task's handlers follow each other; filling the
voices of a new note, which the code does later and may break off, is another.
The levels by which the quietest voice is found are written by the PCM task and
enter as an input. A loop of the code is its turn taken as often as the longest
list needs (`Loop`), a turn that finds nothing to do changing nothing, so that a
circular list would not hang the model either; a list is read by following its
links from the start (`Walk`).

**VoiceTasks.** The firmware's kernel is not in the source. The routines' own
windows (IML 0, four NOPs, IML 7, look again) tell where they expect to be
interrupted, and the model takes preemptive tasks of the priority voice > PCM >
tick: an action of a lower task is a stretch between two such points, a handler
of the voice task is whole. The point between the test of `mask_tail` (0x549b) and
its stores (0x54a5) is one of them (`Unmark`, `PutBack`). `state` and `saved` are the words at P+0, `cmd` d0e0,
`ended` a1f6, `before`/`after`/`mate` the links of a pair, `off`, `rep`, `fresh`
the masks. Notes may be sounding at the start, some already asked to go on
(`Init`). Voices are tied (`Tie`) only while they sound or are parked, as the
callers make sure. Four histories keep what the code forgets: `strays` (voices
a late end took from a note not yet materialized), `lost` (ends overwritten in
a1f6), `bared` (a tied voice lost its mark while an older end was unheard), `torn`
(`mask_tail` has put back a voice that was cut after it had looked).

**LfoSync.** `stage` is the state word, `leader` and `gate` the two tables, `turn`
the voice the tick has come to; `opened` says that the tick has let others in
halfway through a voice. `First` chooses the first oscillator, whose search is
that of the finding below, or the second.

**VoiceSound.** `Struck` is `note_on_setup` with its helpers, `Tied` what a note
that goes on keeps, `Tick` the part of the time-slot scan that moves a voice on,
`Turn` another task changing a setting of the part between two ticks, `Loop` the
voice interrupt when the sample enters its loop. Numbers are words of the width
the code gives them; carries between the parts of a 24-bit number are taken
together where the code propagates them and kept apart where it looks at one.
Waves other than the sine and the two random ones, filter and the segments of
the envelopes are not in it. The ROM's tables are constants.

**Panel.** The main thread loads and stores the mask in two steps (`KeyEvent`,
`StoreMask`); `DemoStep` stores another in between. `ScanRow` selects a row, reads
its columns and tells the changes (`Tell`); the first row that has changed ends
the scan, and the task sleeps for ten ticks (`Wake`).

## 3. What TLC checks

| run | question | bounds, and why they are enough |
|---|---|---|
| `uart_channel` | do the schedule, and then a host that never gets a whole ring ahead, pass through the ring as through a channel, on either board? | `MCUartRing` runs one board or the other (`other`), with the fairness of the one it runs; ring of 4 (3 usable); events of 2, 2 and 3 bytes: one that fits, one due at once that has to wait, one that needs every free slot; three bytes of the host: the pointer wraps twice |
| `uart_mixed` ✗ | is "unread bytes are never overwritten" (`mcu.cpp:1781-1783`) true with a port open? | finding: no |
| `ring_paced` | is the ring a delay line, does drawing stay between instructions, does shutdown get through? | 8 frames in 4 requests, plain or oversampling; 13 frame numbers that start again, so a frame kept or lost for a lap is noticed |
| `ring_starved` | is the full test truthful, is nothing heard twice, whatever the device does and when oversampling is switched on in the middle? | the same ring, seven frames: both parities of the write pointer at the switch |
| `irq` | are handlers never re-entered, shadows respected, all requests served? | IRQ0 (closed by P1CR, level 3) ahead of FRT1 OCIA (5) and UART RX (3), raised twice each: served and served again; one trap, faults, T bit, L1 routines |
| `timers_frt` | do flags, requests and 16-bit reads survive every order of clock and firmware? | a byte has two values, so the counter wraps at 4 and its bytes differ; every match and overflow occurs, and two register writes set them up |
| `snap_main` | does an image lose or repeat a byte (main-CPU boards)? | five bytes through a ring of 4, the image after any instruction, between the handler's accesses too |
| `snap_sub` ✗ | and on the mk2 boards? | finding: it loses the byte the sub-MCU's receiver holds |
| `voice_pool` | do the lists stay whole, do they implement the allocator, are stealing and letting go right? | three voices (a note takes one or two, so that one note's voices surround another's); two parts, one that gives up its oldest note and stacks repeated keys, one its quietest and repeats in place; two keys; a table of two; reserves 1 and 2, so that each part comes to stand below its reserve, at it and above it; states that differ only in the numbers of voices and descriptors, or in cells that are written before they are read, are one (`MCView`) |
| `voice_tasks` | is any command or end of a voice lost, does a freed voice sound, does anyone wait for ever? | two voices, alone or as a pair; two notes and what comes between, enough for a release and a new note inside `mask_tail` (`torn`); two sections of a tick instead of six: one to be in, one still to come |
| `studies` | four questions whose states add up: reports, oscillators in step, the sound of a voice, the panel | below |
| `lfo_search` ✗ | does a search only look? | finding: at 0x3645 it stores |

`studies` is one run of four systems that share nothing; a behaviour is of one of
them. *Reports:* three voices, so that two wait while one is in the slot; two
mask bytes; four writes, enough to start all three, or to stop one and start it
again. *Oscillators:* three voices, two tones: the smallest number with a leader
and two followers. *Sound:* four patches (a slow swell and a long glide; random
waves; a vibrato turned round; one that stands still whole octaves below its
sample), the softest and the hardest key, ticks of 1 and of 20 units, three
ticks, one change of settings. *Panel:* two rows, three keys of which two press
one button, two masks of the demo. ROM tables are not in the repository: what
stands in `MCStudies` has their domain, range and direction.

Runs marked ✗ are expected to find a violation:

* **uart_mixed.** The comment above `midiseq_poll` promises that a schedule never
  overwrites unread bytes. With a MIDI port open, the callback thread and the
  work thread run `MCU_PostUART` on the same unsynchronised pointer. In TLC's
  trace the host has stored its byte and not yet moved the pointer when the
  schedule stores its own in the same slot: the host's byte was posted, is
  overwritten before anyone could read it, and is never received.
* **snap_sub.** The help of `-loadsnap` promises "the exact saved state".
  `uart_rx_gotbyte` and `uart_rx_byte` of the sub-MCU are not in the image while
  `uart_read_ptr` is past the byte. (`mk2cpp/docs/04_cosim_spec.md` lists fields
  that are missing from snapshots for co-simulation.)
* **lfo_search.** `voice_materialize.cpp:2624` carries the comment
  `/* 0x3645 SUB @r2+0 #0x000c */`, and the same search for the second oscillator
  compares; here the code stores 0x000c, "released", into the state word of every
  other voice it passes.

Every property of a passing run has a mutant in `PROJECT.json`: a plausible bug
in the code, with which TLC finds the property violated.

Deadlock is checked except in the `SampleRing` runs, where the program ends, and
in `voice_tasks`, where the notes run out and every task waits.

### The properties, briefly

* Refinements: `ImplementsChannel` (safety and liveness), `ImplementsDelayLine`,
  `FlagsAcknowledged` (each flag of each timer is a `StatusFlag`),
  `ImplementsAllocator`.
* Input, output, control: `NoUnreadOverwritten`, `DrawsAlone`, `NoLapLost`,
  `HeardOnce`, `NeverReentered`, `ShadowRespected`, `WordsWhole`, `NoGap`; to
  happen in the end: `QuitHonoured`, `WorkThreadEnds`, `EveryRequestServed`,
  `EveryFlagAsks`, `HeartbeatGoesOn`, `EverythingSurvives`.
* Voices: `NoneBeforeCommit`, `PoolSound`, `LowestIsCurrent`, `NoStuckNote`,
  `ReserveKept`, `RefusedForAReason`, `NoStopOnPair`, `NoOrphan`, `MarkedInPlay`,
  `NoPlayAfterStop`, `FrozenOnlyByRestart`; in the end: `EveryVoiceTells`,
  `CommandsServed`, `EndsHeard`.
* Sound: `AddedWithinLimits`, `StepFollowsPitch`, `NothingOvershoots`,
  `OnsetNeverReturns`, `HarderIsNearer`, `SettingsWorkOneWay`.
* Panel: `EveryButtonTold`, in the end.

Some properties name, as an exception, a behaviour of the code that a reader may
not expect:

* `RefusedForAReason`: the test before a part may steal from itself reads the
  carry of another comparison, so that part 0 below its reserve refuses notes. A
  part's own turn ends as soon as it is down to its reserve
  (`note_chain_tail.cpp:361-365, 389-391, 471-475`): the note it stole for may then be refused,
  though the stolen one is gone.
* `ReserveKept`: a note that is freed gives both its voices, so a part above its
  reserve may end one below it; it then loses nothing more.
* `EndsHeard`: a second voice that ends before the first has been taken from
  a1f6 overwrites it, and the first stays owned (`lost`).
* `NoOrphan`: the end of an old note that comes late, while the new one waits to
  be materialized, takes the voice from it (`strays`).
* `NoOrphan`, `MarkedInPlay`, `NoPlayAfterStop`: a voice started and then tied
  before the end of its older note was heard loses its mark when the tie is given
  up (`mask_tail`, 0x54aa), and that end frees it while it sounds (`bared`). It
  takes a release, a new note and two ties within one stretch of the tick task,
  four notes: the run's two do not reach it, the search for an inductive
  invariant did. After it the three properties say nothing.
* `NoOrphan`, `MarkedInPlay`, `NoPlayAfterStop`, `CommandsServed`: `mask_tail`
  tests a parked voice at 0x549b and stores its old state at 0x54a5, at interrupt
  level 0. A release, a new note or a stop in between is undone: a free voice
  sounds on, or a voice that is to be played is in its old state and the play
  waits for a silence that does not come (`torn`). The run goes through this.
  Without the exception TLC finds `NoOrphan` violated within two notes,
  `MarkedInPlay` and `CommandsServed` within three; `NoPlayAfterStop` still holds
  with three. After it the four properties say nothing, `NoStopOnPair` and
  `EndsHeard` all they said.
* `NoGap`: an image written after the receive handler has read SSR and before it
  has written it comes back with `ssr_rd` zero. The handler's write then clears
  the flag and leaves the request, so the handler starts again; when nothing is
  left in the ring it reads the last byte again and again (`AckCut`). Nothing is
  lost by it. The help of `-loadsnap` promises the exact saved state here too;
  whether the firmware has two instructions there is for its ROM to say.
* `FrozenOnlyByRestart`: a voice that ends and starts again within a tick may
  choose its own follower as leader; then neither moves.
* `StepFollowsPitch`: a part whose beat is set to 0 keeps the beat of the old key
  over a loop.
* `SettingsWorkOneWay` looks at a voice without tremolo: with one, the sum of
  tremolo and controllers may overflow to the other side.
* `EveryButtonTold` speaks of the mask. A key event between two of the demo's
  masks may restore the older one; and of two keys for one button the first to
  be released releases it.
* `NoLapLost`: a request that drains the ring exactly makes it look full, and a
  lap of silence is played; frames are late then and none is lost.
* `LowestIsCurrent` is checked on keys below 127: a chain of nothing but key 127
  has no lowest note. The sostenuto table (16 keys) is as large as the keys in
  play: with more, pedalling ends at the first key that does not fit.

### Fairness and why the code justifies it

* The work thread is a loop without a wait, except for the full audio ring, which
  `SampleRing` models: WF on its steps. SDL's callback and the driver's MIDI
  callback run on threads of their own: WF on theirs.
* A thread waiting for `work_thread_lock` gets it if it is free again and again
  (SF on `Relock`, `EnterLoop`, `MainLock`): the poll sleeps with the mutex free.
  `QuitHonoured` states as a premise what the code does not ensure: that the ring
  fills up again and again, because the mutex is free only then.
* Firmware that can enable its receiver, or fetch a byte, at one of infinitely
  many instructions does so (SF on `EnableRx` and on the accesses of `Fetch`); a handler acknowledges
  its device and returns, the main program opens its mask again and again, and
  faults and traps come to an end (`FaultsCease` in `McuInterrupt`); the handler of
  IRQ0 reads register 0x3e (`VoiceIrq`). These are assumptions about the firmware
  in the ROM, not about the code under `src/`.
* `TIMER_Clock` is called after every instruction: WF on `Tick`. Firmware's
  accesses have no fairness at all.
* The PCM task waits for events and the tick task for time only; each runs when
  it can (WF on `PcmTask`, `TickTask`), a signal to the voice task is taken (WF on
  `HearEnd`) and a voice that is turned off fades in the end (WF on `Fade`). New
  notes need not come, and neither need reports.
* The panel task is a loop with a wait of ten ticks (WF on `ScanRow` and `Wake`).
  Keys, and the demo, may do what they like for ever.

## 4. What is proved

All for every value of the constants that the named assumptions admit.

| theorem | says | invariant and why it is needed |
|---|---|---|
| `UartRingProofs!TypeCorrect`, `NeverOverwritten`, `RingImplementsChannel` | for every ring size, schedule and number of host bytes: types, whatever the host does; with one producer at a time (`OneProducer`), on either kind of board, at every interleaving of host and receiver, no unread byte overwritten, and the ring implements the safety of the channel | `TypeInv`; `IInv`: that the free space tested before an event lasts for the whole event (`RoomForEvent`), that the host posts after the schedule's end and the room it found is there until it publishes (`HostHasRoom`), that the occupied slots hold exactly the last bytes posted, in order (`Contents`), that received plus held plus occupied is posted (`Received`), that every other slot is stale (`Stale`), and that request, flag and the handler's progress agree (`HandlerOK`) |
| `SampleRingProofs!DrawsSafely` | the main thread draws only between instructions | `LockInv`: who holds the lock, by program counter |
| `SampleRingProofs!FullTestTruthful` | the distance the work thread tests is the number of frames to be played, also across a switch to oversampling and with a starved device | `RingInv`: the pointers are `ahead` apart up to laps, and how far ahead the writer can be at each step (one beyond the ring after a pair from an odd slot) |
| `SampleRingProofs!NothingHeardTwice` | what a request has played is nowhere in the ring any more, with any device and any switch of oversampling, as long as frame numbers do not recur (`~Wrap`) | `PlayedInv`: requests tile the ring, so that none is split by its end (`Tiled`); frames in the ring have different numbers (`Numbered`); those just played are in the request being cleared and nowhere else (`Behind`) |
| `SampleRingProofs!PacedIsDelayLine` | while the device is paced and firmware leaves oversampling alone, the ring with its threads and lock implements `DelayLine` | `PacedInv`: `RingInv`, tiling, whole pairs while oversampling, and never more than a ring ahead. It brings the ring into the line's order (`LineReads`); then one lemma per step: a post enters at the back, a copy takes the front, and clear, move, lock and the main thread stutter |
| `McuInterruptProofs!HandlersNotReentered` | no source is twice on the stack, for any sources and levels | `Ordered`: saved masks fall from newest to oldest, and each source lies above the mask it interrupted and not above any set since |
| `McuInterruptProofs!ShadowAlwaysRespected` | nothing is taken right after a write to SR | `ShadowInv`: from a write to SR to the next instruction `ex_ignore` is set, and nothing is asleep |
| `TimersProofs!FlagsKept`, `ReadsWhole`, `TypeCorrect` | every flag is a `StatusFlag`; 16-bit reads are whole; ranges | a request implies its flag, a read flag is raised |
| `UartRingProofs!SnapshotKeepsInput` | with `-nomidi`, on the boards whose main CPU receives MIDI: what the firmware reads before a snapshot and in the process that loads it is the input without gap or repeat, whichever instruction the snapshot follows, those inside the receive handler included; only after `AckCut`, when everything has been read, the last byte may come again | `SnapInv`: nothing but the other half follows the first half of an image (`writing`), an image holds the first bytes of the input, read, received and unread (`ImageSound`), and the process that loaded it goes on from there (`Replayed`): a request that outlived its byte (`Outlived`) has a next byte in the receiver before the next instruction, or the ring is empty |
| `StudiesProofs!RequestMirrorsAssert`, `ReportKept`, `ReportsAreOwn`, `StartsCommitted` | the report slot is requested exactly while taken, never replaced, and marks only its own voice; no start before the commit | the properties are inductive by themselves |
| `VoiceNotesProofs!ListsHangTogether`, `TypesHold` | for any number of voices, parts and keys, any reserves, ceiling and ways of stealing and of repeating a key: after every handler each voice is idle or in exactly one note, each descriptor free or in exactly one chain, both ends and all backward links agree, and the counters count; every index is in range | `IInv`, explained below |
| `VoiceNotesProofs!CurrentIsLowest` | for any number of voices and parts, and keys below 0x7f: the current note of a part has its lowest key, a part without notes has none | `CurrentOK`, a part of the same invariant: the chain `Elect` searches must be the whole chain, and the closed note gone from it |
| `VoiceNotesProofs!NoNoteIsStuck` | for any number of voices and parts, while no sostenuto table is full without a key that is played (`[]EveryTableRoomy`): a note whose key is up has been let go with all its voices or is held by a pedal that is down; one whose key is down has not; no idle voice is marked | `MInv`: `IInv`, and of each sounding voice alone what its mark, the state of its note, the pedal and the table say together (`Marked`), see below |
| `VoiceNotesProofs!ReservesAreKept` | for any number of voices and parts, any reserves, ceiling, ways of stealing and levels: a note takes voices only from other parts that have more than their reserve, and from none above the ceiling | `IInv`, and that what the loops of stealing leave is sound and has eased no part but those they were called for (`GN`, `SparedIs`) |
| `VoiceNotesProofs!RefusalsHaveReasons` | for any number of voices and parts, any reserves, ceiling, ways of stealing and measured levels: a note is left short only for a reason `RefusedForAReason` names | `IInv`, and that stealing from a part ends: each loop lowers a measure (`LoopEnds`), so it stops with nothing short, with no voice left in the part, or at the reserve with voices given (`Gave`) |
| `VoiceNotesProofs!PoolIsAllocator` | for any number of voices and parts and any settings: the pool implements `VoiceAllocator`. Each handler puts voices of notes before or behind the queue and then gives its first one or two to a note that has none; none is given twice, none is lost | the same `IInv`: without it the queue that is read from the links would not be the queue there is. Each lemma on a handler also says what has become of the queue (`Moved`, `Given`), see below |
| `VoiceTasksProofs!NeverStopOnPair` | for any number of voices and notes, also after `torn` and `bared`: no stop waits on half of a pair | links are mutual and stay within the note (`Paired`) |
| `VoiceTasksProofs!VoicesSound`, `NoVoiceOrphaned`, `PlayKeepsMark`, `NoStoppedVoiceStarts` | for any number of voices and notes, `mask_tail` interrupted wherever the code allows it: a voice without a note sounds only after a late end; the mark against `free_voice` lasts as long as the play; a stopped voice is not started; each until one of the two errors of `mask_tail` its statement names (`torn`, `bared`) has happened | `IInv`, either one of the two has happened or `Sound`, in parts: the two of a pair have the same orders (`Ordered`), which is why one test speaks for both; a voice whose end is in a1f6 is being started anew, marked, or silent (`Hearing`); what a play has done with each of its voices by program counter (`Staged`); a voice without a note is neither sounding nor about to be played or put back (`Freed`) |
| `StudiesProofs!RingsByRestartOnly` | for any number of voices and tones: a ring of followers begins only where a voice starts again before the tick has seen it end | types, and that a tick which has let others in is at some voice. The argument is on sets: a closed ring after a step is closed before it, since whoever is promoted leads itself and whoever starts is nobody's leader |
| `VoiceSoundProofs!AddedAlwaysWithin`, `HarderAlwaysNearer` | for every patch, setting and elapsed time: controllers stay within their limits; a harder key is nearer to neutral | `IInv`: the destinations' sums are whole numbers within their limits, and the attack's factor is that of the note, patch and velocity: a tick and a change of settings leave it |
| `VoiceSoundProofs!OnsetKeepsOn`, `AllEndsWhereItGoes` | for every patch and part, and every tick of up to 127 units: delay and swell only go on; portamento and random waves end where they go | `Moving`: the oscillators' records are whole, a depth in use is nothing until the delay is over and never more than what the swell has come to, and the way to the key fits 24 bits. A tick that scales the depths anew gives the share of a swell that has grown, so it can only be larger |
| `VoiceSoundProofs!StepAlwaysFollows` | for every tone, part and tables: after a tick, a tie or a loop the step is that of the pitch some octaves higher, halved, with the beat of the setting and the key in use | `Pitching`: the record of the pitch is one a tick can start from (`Placed`): its beat is that of its setting unless that is 0, its phase has not passed the end, and its pitch is not far enough below zero for the distance to the key to leave 24 bits, through detune, vibratos, tune, bend and what is left of the glide; both waves are numbers (`Runs`). A note starts with the middle setting and no beat, which agree only because no unit of the beat is zero |
| `VoiceSoundProofs!SettingsOnlyOneWay` | for every tone, part and pressure: the part's setting moves a depth to its own side; turned down, a voice without tremolo is not louder than its volumes | besides the above, `Audible`: the part's volume has 7 bits, so that the product of the volumes is not cut. Bytes out of range end at the limit each branch expects; the square grows, also across the step to full scale |
| `VoiceSoundProofs!StepHalvesByOctave`, `GlideEndsAtZero`, `SlewStaysBetween` | of the operators: the step below the table, portamento, the slewed wave, over their whole widths | arithmetic: quotient and remainder of the octave in 24 bits; a clamp after a sum that cannot wrap |

**The lists of the pool.** `PoolSound` reads lists out of the tables, and what it
reads after one wrong link is a matter of luck; it also says nothing between two
writes of a handler. The invariant of `VoiceNotesProofs` therefore says that
*there are* lists which the tables hold: the idle voices `f`, the free
descriptors `e`, a chain `c[part]` of notes for each part, and `home[d]`, the part
descriptor `d` is with or `None` when it is free (`Sound`). On top of that, counts
are cardinalities (`CountOK`), the free bits are those of the idle voices and of
voices given to a note not yet filled (`BitsOK`), and at most two voices wait to
be filled. `Sound` has one more argument, the notes that are opened and have no
voice yet, because a new note is in its chain before it has one.

The proof has four layers. *Lists*: what taking the first cell, putting one in
front, appending one and unlinking one does to a linked list (`ListPop`,
`ListPush`, `ListAppend`, `ListWithout`), and that `Walk` reads the list there is
(`WalkIs`). *Routines*: which lists there are after `H1`, `AppendFree`,
`PushFree`, `PoolPop`, `H2`, `OpenDesc`, `Link`, given those before. *Handlers*:
a voice given back goes through three of them (`BackKeeps`), a note that is opened
and filled through the others (`DescSetupKeeps`); the loops keep the set `GN` of
sound pools in which no note is half filled and enough voices are idle or counted
as missing (`Looped`); key off and the pedals move marks and no list (`Kept`).
Last, `Inductive` has one step per handler. Two facts carry it that no routine
tests: `DescSetup` takes a descriptor without asking whether one is free, which is
safe because notes without a voice do not exist and there are as many descriptors
as voices (`SpareDesc`), and it takes a voice without asking, which is safe because
`AllocScan` was answered that none is missing (`AllocScanKeeps`).

The refinement maps the queue to the idle list and the owner of a voice to the
note of its `desc` cell, unless it is idle: the cell of an idle voice keeps the
note it was last with. The abstract step is the whole handler, so the lemmas carry
from routine to routine what the queue is in terms of the one the handler began
with: `Moved`, some voices before it and some behind, no `desc` cell written
(`MovedBack`: a voice given back keeps that true, at either end); `Given`, the
first `n` are gone from it and name the new note. `Steps` collects both for every
handler (`Handled`), and `OneHandler` shows that this is a step of
`VoiceAllocator`: the voices put before and behind are distinct, because the
queue holds none twice afterwards, and were busy, because they were not in it.

`ReservesAreKept` and `NoNoteIsStuck` rest on one relation between the pool a
handler began with and the one it has come to: `Eased(p, o, P)`, only voices of the parts `P` have
become idle, their marks are cleared, and of all voices still sounding marks, notes
and states are what they were. The loops of stealing keep it (`GN` has it as a
conjunct), and counts, being cardinalities, follow from it (`CountsEased`). For
the reserves the scan over the parts is taken apart once more: a part is added to
`P` in its own turn only, after the test of its reserve, and its count is then
still the one it had at first.

`RefusalsHaveReasons` needs more than that each turn of stealing keeps the pool
sound: that the loops end for the right reason within the turns they are given.
`LoopEnds` says so once, of a loop whose turns lower a measure. For the oldest
note first the measure is the count of the part, as each turn frees the first note
of the chain; for the quietest first it is the count and the passes left, and that
no note remains after the last pass is `SlotSelectAll` (a set of measured voices
has a quietest one, `LeastPair`) or, where the pass is skipped, `NoCurrent` (a part
with a note names a current one; with key 127 that note may be the wrong one, but
there is one, so no assumption on the keys is needed).

`NoStuckNote` looks at notes; the invariant `Marked` looks at voices, since a note
may lose one of its two at any time (`VoiceEnd`). A voice that is given back takes
its mark away with it and leaves the other's as it was, so `Marked` survives every
step that eases. What remains are the steps of keys and pedals, which write marks
and no list: `KillA` and the pedals set those of the tail and of the voice next to
it, and `NoteVoices` says that these are all voices the note has. Pedal up visits
the notes of a part one by one; that the notes behind one are visited too is where
`EveryTableRoomy` is needed.

`CurrentIsLowest` needs `TopKey \notin Keys`. `Elect` starts its search at 0x7f and
compares strictly: in a chain of notes that all have key 127 it elects none, and
`a200` keeps a descriptor that may be free. The theorem says what holds for all
other keys; the case is listed as a hazard.

Assumptions: `SizeAssumption`, `ScheduleAssumption` (events tile the schedule, as
`midiseq_push_ev` builds it), `BoundAssumption`; `GeometryAssumption` (the
callback's request is even and tiles the ring: `-ab` is not checked by the code,
see the hazards); `ControllerAssumption`; `TimersAssumption`, `EnablesAssumption`;
`VoicesAssumption`; `VoicePoolAssumption`, `VoiceNotesAssumption` (at least one
voice and part, keys up to the highest, settings a part can have);
`VoiceTasksAssumption`; `LfoSyncAssumption`; `VoicePitchAssumption`,
`VoiceLfoAssumption`, `VoiceSetupAssumption` (the ranges of the ROM's tables:
`Factor` has values to 64, because the setting beside it is its index),
`RatioAssumption` and `DepthAssumption` (of the same tables, which the repository
does not contain: the step within an octave is nowhere zero, where a sample would
stand still and the middle setting beat, and the vibrato's depth does not fall
with its setting), and
`PatchAssumption`, `PartAssumption`, `InputAssumption` (fields of a tone are
bytes, settings of a part and keys have 7 bits, pitches and keys of samples are
at most the highest pitch the code itself knows, a tick takes at most 127 units:
the code bounds it nowhere, and a longer one could carry the portamento past 24
bits). TLC evaluates each on the runs of its module.

Hypotheses of single theorems: `OneProducer`, no host or one that starts after the
schedule's end and waits for room (with both posting, or a host that floods the
ring, the properties are false, `uart_mixed`); `HostBytes = 0` for the snapshot
(with a port open an image may be torn); `~Mk2` (false there,
`snap_sub`); `~Wrap`, because numbers that recur cannot tell a frame heard twice;
a paced device, since with a starved one the ring is no delay line;
`[]EveryTableRoomy`, because the search of a full sostenuto table for a key it
lacks ends the scan of pedal up (`native_pool.cpp:1562`), and the notes behind
stay. It says less than that the table has room: one that is full may hold every
key that is played, as in `voice_pool`, whose states all satisfy it.

Only model-checked: all liveness (out of the prover's reach, as is `ENABLED`), and
the panel. The 8-bit timer is covered by the theorems, which
hold for every set of timers of either kind, and by no run.

## 5. What is not modelled

* Arithmetic of the CPU and of the sound generator (sequential, compared bit by
  bit by the repository's own tools); the offline tools; start-up, files and
  drawing; the gate array, the A/D converter, the main CPU's serial status bits,
  and the sub-MCU but for its receiver, which the plan lists as left.
* The firmware's kernel, which is in the ROM and not in the source: its
  priorities and signals are assumed, and so are the callers of the tick (0x2669)
  and of the routine at 0x2e83. What a button means (0x43574, 0x43532, with the
  repetition of a held key) is in the ROM too.
* Of the hand-written routines: filter and level envelopes (`dsp_rate.cpp`,
  `pitch_env.cpp` beyond what `VoiceSound` uses), the saw, square and triangle
  waves (in the ROM), the ring of commands (`cmd_ring.cpp`), `a2f8`/`a4a5`,
  `cleanup_seq`, the partial bits of `a34c`, the level meters in
  `pcm_dispatch.cpp`, and the start of the firmware (`reset_init.cpp`).
* Addresses of records are assumed to ascend with the index, as the tables in ROM
  lay them out.

The bounds (`MaxCycle`, `FetchLimit`, `MaxFrames`, `Raises`, `MaxTraps`, `MaxWrites`, `Writes`,
`MaxNotes`, `MaxTicks`, `MaxTurns`, and the sets of inputs) exist for TLC alone.
