-------------------------------- MODULE Panel --------------------------------
(***************************************************************************)
(* The front panel, from the host's keyboard to the firmware's events.     *)
(*                                                                         *)
(*   main thread   turns SDL's key events into mcu_button_pressed, which   *)
(*                 it loads and stores in two steps (lcd.cpp)              *)
(*   work thread   the scripted demo stores a mask of its own (mcu.cpp)       *)
(*   panel task    selects one row of the matrix after the other in port 0 *)
(*                 and reads its columns in port 1 (0x434cb)               *)
(*                                                                         *)
(* A button is a pair of its row and its column.                           *)
(***************************************************************************)
EXTENDS Integers, Sequences

CONSTANTS Rows,        \* the last row of the matrix; the first is 0
          Keys,        \* keys of the host's keyboard
          ButtonsOf,   \* button_map: what each key presses
          DemoMasks    \* demo_mask: what the demo presses, in order

ASSUME PanelAssumption == /\ Rows \in Nat
                          /\ \A k \in Keys : \A b \in ButtonsOf[k] : b[1] \in 0 .. Rows

VARIABLES pressed,       \* mcu_button_pressed
          keys, loaded,  \* keys held; what the main thread has made of it
          demo,          \* demo_step
          scan,          \* the row to be read next; Rows + 1: the task sleeps
          raw, taken,    \* d1da, d1d6: columns as read last, and as reported
          told           \* history: buttons that the events say are pressed

panelVars == <<pressed, keys, loaded, demo, scan, raw, taken, told>>

Idle == [is |-> FALSE, buttons |-> {}]

PanelInit ==
  /\ pressed = {} /\ keys = {} /\ loaded = Idle /\ demo = 0
  /\ scan = 0 /\ told = {}
  /\ raw = [r \in 0 .. Rows |-> {}] /\ taken = [r \in 0 .. Rows |-> {}]

-----------------------------------------------------------------------------
(* The host.                                                               *)

\* SDL_KEYDOWN and SDL_KEYUP; the repeats of a held key are passed over.
KeyEvent(k) ==
  /\ ~loaded.is
  /\ keys' = IF k \in keys THEN keys \ {k} ELSE keys \cup {k}
  /\ loaded' = [is |-> TRUE, buttons |-> IF k \in keys THEN pressed \ ButtonsOf[k]
                                       ELSE pressed \cup ButtonsOf[k]]
  /\ UNCHANGED <<pressed, demo, scan, raw, taken, told>>

StoreMask ==
  /\ loaded.is
  /\ pressed' = loaded.buttons /\ loaded' = Idle
  /\ UNCHANGED <<keys, demo, scan, raw, taken, told>>

\* Not a change of the mask but a new one; a store of the main thread that
\* loaded before it undoes it.
DemoStep ==
  /\ demo < Len(DemoMasks)
  /\ demo' = demo + 1 /\ pressed' = DemoMasks[demo + 1]
  /\ UNCHANGED <<keys, loaded, scan, raw, taken, told>>

-----------------------------------------------------------------------------
(* The panel task.                                                         *)

\* What port 1 reads with one row selected.
Columns(r) == {b \in pressed : b[1] = r}

\* One event for each button that is not as reported: its number, with bit 7
\* if it was let go.
Tell(r, read) == told' = (told \ (taken[r] \ read)) \cup (read \ taken[r])

(* Mutant: columns that have just changed are not kept to compare with.    *)
ScanRow_KeepsRaw ==
  /\ scan <= Rows
  /\ LET read == Columns(scan) IN
     IF read = raw[scan] /\ read # taken[scan]
     THEN /\ Tell(scan, read)
          /\ taken' = [taken EXCEPT ![scan] = read]
          /\ scan' = Rows + 1 /\ UNCHANGED raw
     ELSE /\ scan' = scan + 1 /\ UNCHANGED <<raw, taken, told>>
  /\ UNCHANGED <<pressed, keys, loaded, demo>>

(* A row counts if it reads as in the scan before.  One that has changed is*)
(* reported and ends the scan: the rows behind it wait for the next one.   *)
ScanRow ==
  /\ scan <= Rows
  /\ LET read == Columns(scan) IN
     /\ raw' = [raw EXCEPT ![scan] = read]
     /\ IF read = raw[scan] /\ read # taken[scan]
        THEN /\ Tell(scan, read)
             /\ taken' = [taken EXCEPT ![scan] = read]
             /\ scan' = Rows + 1
        ELSE scan' = scan + 1 /\ UNCHANGED <<taken, told>>
  /\ UNCHANGED <<pressed, keys, loaded, demo>>

\* Ten ticks later.
Wake ==
  /\ scan = Rows + 1 /\ scan' = 0
  /\ UNCHANGED <<pressed, keys, loaded, demo, raw, taken, told>>

PanelNext ==
  \/ \E k \in Keys : KeyEvent(k)
  \/ StoreMask \/ DemoStep
  \/ ScanRow \/ Wake

-----------------------------------------------------------------------------
(* Properties.                                                             *)

(* What is pressed long enough is told, and so is its release, however much*)
(* the rows before it change.  Needs a task that goes on scanning.         *)
EveryButtonTold ==
  \A b \in UNION {ButtonsOf[k] : k \in Keys} : []<>((b \in pressed) = (b \in told))
=============================================================================
