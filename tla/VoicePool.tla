------------------------------ MODULE VoicePool ------------------------------
(***************************************************************************)
(* The voice pool of the mk2 firmware (mk2cpp/src/hand): the linked lists  *)
(* that say which voice is idle and which voices sound for which note, and *)
(* the handlers of the voice task that work on them: note on (retrigger,   *)
(* stealing, descriptor set-up, fill), key off, the two pedals, and the    *)
(* end of a voice.  The voice task runs its handlers one after the other,  *)
(* so a handler is one action; filling the voices of a new note, which may *)
(* give them back, is an action of its own.                                *)
(*                                                                         *)
(* A list cell 0xff is None.  The levels the PCM tasks last measured       *)
(* (ad0e) are an input of the handlers that read them; what the handlers   *)
(* write for the PCM tasks (d0e0, a4b4, ad0e, the chip) is VoiceTasks'.    *)
(*                                                                         *)
(*   freeHead a42f   freeTail a430   freeNext a3d8  freeCount a42d         *)
(*   free a3a0.7     part a368       desc a384      gateOff a3bc           *)
(*   toTail a3f4     toHead a410     head a2c0      tail a2dc              *)
(*   descFree a42e   descNext a250   descPrev a26c  state a288             *)
(*   held a2a4.0     again a2a4.2    key a314       canOff a330.0          *)
(*   first a220      last a230       count a210     current a200           *)
(*   hold a240.0     table a090      short a42c     fresh a4ab, a4aa       *)
(***************************************************************************)
EXTENDS Integers, Sequences, FiniteSets

CONSTANTS Voices,      \* voices of the chip, and note descriptors: 28
          Parts,       \* MIDI parts: 16
          Keys,        \* the keys the parts are played with
          TopKey,      \* the highest key number: 0x7f
          TableSize,   \* keys a part's sostenuto table holds: 16
          Reserve,     \* 8018: the voices a part keeps when others need some
          StealBy,     \* a040: how a part gives voices up, per part
          Retrigger,   \* record[5]: what a repeated key does, per part
          Ceiling      \* 8028: the highest part to steal from, 0 when off

ASSUME VoicePoolAssumption ==
  /\ Voices \in Nat \ {0} /\ Parts \in Nat \ {0} /\ TableSize \in Nat \ {0}
  /\ TopKey \in Nat /\ Keys \subseteq 0 .. TopKey
  /\ Ceiling \in 0 .. Parts - 1
  /\ Reserve \in [0 .. Parts - 1 -> Nat]
  /\ StealBy \in [0 .. Parts - 1 -> {"oldest", "quietest", "nothing"}]
  /\ Retrigger \in [0 .. Parts - 1 -> {"same", "stack", "nothing"}]

VARIABLE pool

None  == -1
Voice == 0 .. Voices - 1
Desc  == 0 .. Voices - 1
Part  == 0 .. Parts - 1
Fresh == 255           \* ad0e = 0xff: no level measured yet

-----------------------------------------------------------------------------
(* pool_init: the voices in one list, highest number first; the            *)
(* descriptors in another, lowest number first; empty chains and tables.   *)
IdleOrder   == [v \in Voice |-> v - 1]
DescOrder   == [d \in Desc |-> IF d = Voices - 1 THEN None ELSE d + 1]
AllVoices(x) == [v \in Voice |-> x]
AllDescs(x)  == [d \in Desc |-> x]
AllParts(x)  == [part \in Part |-> x]
EmptyTables  == [part \in Part |-> <<>>]

PoolInit ==
  [freeHead |-> Voices - 1, freeTail |-> 0, freeCount |-> Voices,
   freeNext |-> IdleOrder, free |-> AllVoices(TRUE),
   part |-> AllVoices(None), desc |-> AllVoices(None),
   gateOff |-> AllVoices(FALSE),
   toTail |-> AllVoices(None), toHead |-> AllVoices(None),
   head |-> AllDescs(None), tail |-> AllDescs(None),
   descFree |-> 0, descPrev |-> AllDescs(None), descNext |-> DescOrder,
   state |-> AllDescs("free"), held |-> AllDescs(FALSE),
   again |-> AllDescs(FALSE), key |-> AllDescs(None),
   canOff |-> AllDescs(FALSE),
   first |-> AllParts(None), last |-> AllParts(None),
   count |-> AllParts(0), current |-> AllParts(None),
   hold |-> AllParts(FALSE), table |-> EmptyTables,
   short |-> 0, fresh |-> <<>>]

-----------------------------------------------------------------------------
(* The loops of the handlers run over lists.  A loop is its turn, taken as *)
(* often as the longest list needs: a turn that finds the work done        *)
(* changes nothing.  So it also ends on lists a mistake has made circular. *)
Loop(turn(_), x, n) ==
  LET after[k \in 0 .. n] == IF k = 0 THEN x ELSE turn(after[k - 1])
  IN after[n]

(* Reading the lists. *)
Walk(next, start) ==
  LET at[k \in 0 .. Voices] == IF k = 0 THEN start
                               ELSE LET i == at[k - 1] IN
                                    IF i = None THEN None ELSE next[i]
      n == Cardinality({k \in 0 .. Voices - 1 : at[k] # None})
  IN [k \in 1 .. n |-> at[k - 1]]

FreeList(p)    == Walk(p.freeNext, p.freeHead)
DescList(p)    == Walk(p.descNext, p.descFree)
Chain(p, part) == Walk(p.descNext, p.first[part])
VoicesOf(p, d) == Walk(p.toHead, p.tail[d])

Elements(s) == {s[i] : i \in 1 .. Len(s)}

-----------------------------------------------------------------------------
(* The list operations of native_allocfree.                                *)

PoolPop(p) ==      \* takes p.freeHead
  LET next == p.freeNext[p.freeHead] IN
  [p EXCEPT !.freeHead = next,
            !.freeTail = IF next = None THEN None ELSE @,
            !.freeCount = @ - 1]

Link_KeepsOwner(p, v, d, part) ==
  LET old == p.tail[d]
      q == IF old = None
           THEN [p EXCEPT !.head[d] = v, !.toHead[v] = None]
           ELSE [p EXCEPT !.head[d] = old, !.toTail[old] = v,
                          !.toHead[v] = old, !.toHead[old] = None]
  IN [q EXCEPT !.tail[d] = v, !.toTail[v] = None, !.part[v] = part]
Link(p, v, d, part) ==
  LET old == p.tail[d]
      q == IF old = None
           THEN [p EXCEPT !.head[d] = v, !.toHead[v] = None]
           ELSE [p EXCEPT !.head[d] = old, !.toTail[old] = v,
                          !.toHead[v] = old, !.toHead[old] = None]
  IN [q EXCEPT !.tail[d] = v, !.toTail[v] = None,
               !.part[v] = part, !.desc[v] = d]

H1(p, v, d) ==     \* takes v out of the voices of d
  LET t == p.toTail[v]  h == p.toHead[v] IN
  IF t # None
  THEN [p EXCEPT !.head[d] = t, !.toHead[t] = None, !.toTail[v] = None]
  ELSE IF h # None
  THEN [p EXCEPT !.toHead[v] = None, !.toTail[h] = None, !.tail[d] = h]
  ELSE [p EXCEPT !.head[d] = None, !.tail[d] = None]

Unlink_Forward(p, d, part) ==
  LET n == p.descNext[d]  b == p.descPrev[d]
      q == IF b = None THEN [p EXCEPT !.first[part] = n]
                       ELSE [p EXCEPT !.descNext[b] = n]
  IN IF n = None THEN [q EXCEPT !.last[part] = b] ELSE q
Unlink(p, d, part) ==
  LET n == p.descNext[d]  b == p.descPrev[d]
      q == IF b = None THEN [p EXCEPT !.first[part] = n]
                       ELSE [p EXCEPT !.descNext[b] = n]
  IN IF n = None THEN [q EXCEPT !.last[part] = b]
                 ELSE [q EXCEPT !.descPrev[n] = b]

Elect_Highest(p, part, d) ==
  LET c   == Chain(p, part)
      best == CHOOSE i \in 1 .. Len(c) : \A j \in 1 .. Len(c) :
                p.key[c[i]] >= p.key[c[j]]
  IN IF c = <<>> THEN None ELSE c[best]
(* The descriptor that a200 gets when its own is freed: the first of the   *)
(* lowest key below 0x7f.  A chain that holds nothing but key 0x7f elects  *)
(* nobody, and a200 keeps the freed descriptor d.                          *)
Lowest(p, c, d) ==
  LET low == {i \in 1 .. Len(c) : p.key[c[i]] < TopKey}
      best == CHOOSE i \in low : \A j \in low : p.key[c[i]] < p.key[c[j]]
                                   \/ (p.key[c[i]] = p.key[c[j]] /\ i <= j)
  IN IF c = <<>> THEN None ELSE IF low = {} THEN d ELSE c[best]
Elect(p, part, d) == Lowest(p, Chain(p, part), d)

H2(p, d, part) ==  \* a voice of d has gone
  LET q == [Unlink(p, d, part) EXCEPT !.descNext[d] = p.descFree,
                                      !.descFree = d, !.state[d] = "free"]
      r == IF p.head[d] # None THEN p
           ELSE [q EXCEPT !.current[part] =
                            IF @ = d THEN Elect(q, part, d) ELSE @]
  IN [r EXCEPT !.count[part] = @ - 1]

H3(p, d, part) ==  \* d is the newest note of the part
  LET cur == p.current[part] IN
  [p EXCEPT !.state[d] = "down", !.held[d] = FALSE, !.again[d] = FALSE,
            !.current[part] = IF cur # None /\ p.key[d] > p.key[cur]
                              THEN cur ELSE d]

AppendFree(p, v) ==
  LET old == p.freeTail
      q == IF old = None THEN [p EXCEPT !.freeHead = v]
                         ELSE [p EXCEPT !.freeNext[old] = v]
  IN [q EXCEPT !.freeNext[v] = None, !.freeTail = v,
               !.free[v] = TRUE, !.freeCount = @ + 1]

PushFree(p, v) ==
  LET old == p.freeHead IN
  [p EXCEPT !.freeNext[v] = old, !.freeHead = v,
            !.freeTail = IF old = None THEN v ELSE @,
            !.free[v] = TRUE, !.freeCount = @ + 1]

LessShort_Below(p) == [p EXCEPT !.short = @ - 1]
LessShort(p) == [p EXCEPT !.short = IF @ > 0 THEN @ - 1 ELSE 0]

(* Release A puts the voice at the end of the free list, release B at its  *)
(* front.                                                                  *)
ReleaseA(p, v, d, part) ==
  LessShort(H2(AppendFree(H1([p EXCEPT !.gateOff[v] = FALSE], v, d), v),
               d, part))

ReleaseB(p, v, d, part) ==
  LessShort(H2(PushFree(H1([p EXCEPT !.gateOff[v] = FALSE], v, d), v),
               d, part))

(* The end of a voice: ignored when the voice is free already, or when it  *)
(* has been started so lately that no level was measured.                  *)
FreeVoice(p, v, level) ==
  LET d == p.desc[v] IN
  IF p.free[v] \/ level = Fresh THEN p
  ELSE H2(AppendFree(H1([p EXCEPT !.gateOff[v] = FALSE], v, d), v),
          d, p.part[v])

(* note_helper and aux_alloc: all voices of d, from its tail.              *)
NoteHelper(p, d, part) ==
  LET turn(q) == IF q.tail[d] = None THEN q
                 ELSE ReleaseA(q, q.tail[d], d, part)
  IN Loop(turn, ReleaseA(p, p.tail[d], d, part), Voices)

AuxAlloc(p, d, part) ==
  LET turn(q) == IF q.tail[d] = None THEN q
                 ELSE ReleaseB(q, q.tail[d], d, part)
  IN Loop(turn, ReleaseB(p, p.tail[d], d, part), Voices)
=============================================================================
