--------------------------- MODULE VoiceAllocator ---------------------------
(***************************************************************************)
(* What the firmware's voice pool promises, whatever lists it keeps.  The  *)
(* idle voices wait in a queue.  One handler of the voice task             *)
(*   - may take voices away from notes: those of a note that is retriggered*)
(*     go to the front of the queue, all others to its back;               *)
(*   - then may give the first one or two voices of the queue to a note    *)
(*     that has none.                                                      *)
(* So the voice that has been idle longest is used next, a voice is never  *)
(* given to two notes, and no voice is lost.                               *)
(***************************************************************************)
EXTENDS Integers, Sequences, FiniteSets

CONSTANTS Voice,    \* the voices
          Note,     \* the note descriptors
          NoNote    \* the owner of an idle voice

NoNoteAssumption == NoNote \notin Note

VARIABLES queue,    \* the idle voices, the next one to be used first
          owner     \* the note that sounds on each voice

vars == <<queue, owner>>

MaxPerNote == 2     \* a tone has at most two partials

Elements(s) == {s[i] : i \in 1 .. Len(s)}

InQueue == Elements(queue)

(* Sequences of distinct busy voices: what one handler may take away.      *)
Takeable == {v \in Voice : owner[v] # NoNote}

TakeOrders == UNION {{s \in [1 .. n -> Takeable] :
                        \A i, j \in 1 .. n : s[i] = s[j] => i = j} :
                      n \in 0 .. Cardinality(Takeable)}

TypeOK == /\ queue \in Seq(Voice)
          /\ owner \in [Voice -> Note \cup {NoNote}]

Init == /\ queue \in Seq(Voice)
        /\ owner = [v \in Voice |-> NoNote]
        /\ InQueue = Voice
        /\ \A i, j \in 1 .. Len(queue) : queue[i] = queue[j] => i = j

Taken(front, back, v) == v \in Elements(front) \cup Elements(back)

(* The voices of `front` are put before the queue, those of `back` behind  *)
(* it; the first n of the result go to note d, the rest is the new queue.  *)
Handle(front, back, n, d) ==
  LET q     == (front \o queue) \o back
      given == {q[i] : i \in 1 .. n}
  IN /\ n <= Len(q)
     /\ queue' = SubSeq(q, n + 1, Len(q))
     /\ owner' = [v \in Voice |-> IF v \in given THEN d
                                  ELSE IF Taken(front, back, v) THEN NoNote
                                  ELSE owner[v]]

Next == \E taken \in TakeOrders, n \in 0 .. MaxPerNote, d \in Note :
          \E m \in 0 .. Len(taken) :
            LET front == SubSeq(taken, 1, m)
                back  == SubSeq(taken, m + 1, Len(taken))
            IN /\ \A v \in Voice : (n > 0 /\ owner[v] = d) => v \in Elements(taken)
               /\ Handle(front, back, n, d)

Spec == Init /\ [][Next]_vars

-----------------------------------------------------------------------------
(* A voice waits in the queue exactly when no note owns it, and only once. *)
NoVoiceLost == InQueue = {v \in Voice : owner[v] = NoNote}

QueueDistinct == \A i, j \in 1 .. Len(queue) : queue[i] = queue[j] => i = j

(* No two positions of a note's voices: a note owns at most two voices.    *)
AtMostTwo == \A d \in Note, u, v, w \in Voice :
               (owner[u] = d /\ owner[v] = d /\ owner[w] = d)
                 => (u = v \/ v = w \/ u = w)
=============================================================================
