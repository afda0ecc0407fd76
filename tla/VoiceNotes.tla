------------------------------ MODULE VoiceNotes ------------------------------
(***************************************************************************)
(* The handlers of the voice task, on the lists of VoicePool.              *)
(***************************************************************************)
EXTENDS VoicePool

CONSTANTS OneShot,     \* the parts whose notes ignore key off (a1e0.0 clear)
          Pedalled,    \* bound: the parts whose pedals are used
          Levels       \* bound: the levels ad0e is read with

ASSUME VoiceNotesAssumption == /\ OneShot \subseteq Part /\ Pedalled \subseteq Part
                               /\ Levels \subseteq 0 .. Fresh

(* Conditional stealing ends when nothing is short any more, or when the   *)
(* part is down to its reserve.                                            *)
Reserved_Below(p, part) == p.count[part] < Reserve[part]
Reserved(p, part) == p.count[part] <= Reserve[part]
Enough(p) == p.short <= 0

-----------------------------------------------------------------------------
(* steal: oldest note first.  The first walk frees notes whose key is up,  *)
(* and skips the note after each one it frees; the second frees any note.  *)
(* The first walk that finds the part down to its reserve still goes on to *)
(* the second, which frees a note before it looks.                         *)
StealKeyUp(p, part) ==
  LET turn(w) ==
        LET q == w.pool  d == w.at IN
        IF d = None THEN w
        ELSE IF q.state[d] = "down" THEN [w EXCEPT !.at = q.descNext[d]]
        ELSE LET r == NoteHelper(q, d, part)  next == q.descNext[d] IN
             [pool |-> r,
              at |-> IF Enough(r) \/ Reserved(r, part) \/ next = None
                     THEN None ELSE r.descNext[next]]
  IN Loop(turn, [pool |-> p, at |-> p.first[part]], Voices).pool

StealOldest(p, part) ==
  LET turn(w) ==
        LET q == w.pool  d == w.at IN
        IF d = None THEN w
        ELSE LET r == NoteHelper(q, d, part) IN
             [pool |-> r,
              at |-> IF Enough(r) \/ Reserved(r, part) THEN None
                     ELSE q.descNext[d]]
  IN Loop(turn, [pool |-> p, at |-> p.first[part]], Voices).pool

StealRest(p, part) == IF Enough(p) THEN p ELSE StealOldest(p, part)
Steal(p, part) == StealRest(StealKeyUp(p, part), part)

(* slot_select: the quietest voice of the notes a pass may take.  Pass 0   *)
(* leaves notes whose key is down and note `cur`, pass 1 only `cur`.       *)
SlotSelect(p, part, pass, cur, level) ==
  LET c    == Chain(p, part)
      takes(d) == /\ pass = 0 => p.state[d] # "down"
                  /\ pass < 2 => d # cur
      on == [i \in 1 .. Len(c) |-> VoicesOf(p, c[i])]
      voices == {x \in (1 .. Len(c)) \X (1 .. 2) :
                   takes(c[x[1]]) /\ x[2] <= Len(on[x[1]])}
      voice(x) == on[x[1]][x[2]]
      before(x, y) == x[1] < y[1] \/ (x[1] = y[1] /\ x[2] < y[2])
      heard == {x \in voices : level[voice(x)] # Fresh}
      best == {x \in heard : \A y \in heard \ {x} :
                 \/ level[voice(x)] < level[voice(y)]
                 \/ level[voice(x)] = level[voice(y)] /\ before(x, y)}
  IN IF best = {} THEN None ELSE voice(CHOOSE x \in best : TRUE)

(* key_on: quietest note first, in up to three passes; pass 3 is the end.  *)
KeyOn(p, part, level) ==
  LET cur == p.current[part]
      turn(w) ==
        LET q == w.pool
            v == SlotSelect(q, part, w.pass, cur, level)
            r == NoteHelper(q, q.desc[v], part)
        IN IF w.pass = 3 THEN w
           ELSE IF v # None
           THEN [pool |-> r,
                 pass |-> IF Enough(r) \/ Reserved(r, part) THEN 3 ELSE w.pass]
           ELSE IF w.pass = 0 \/ (w.pass = 1 /\ q.current[part] # None)
           THEN [w EXCEPT !.pass = w.pass + 1]
           ELSE [w EXCEPT !.pass = 3]
  IN Loop(turn, [pool |-> p, pass |-> 0], Voices + 3).pool

NoteDisp(p, part, level) ==
  CASE StealBy[part] = "oldest"   -> Steal(p, part)
    [] StealBy[part] = "quietest" -> KeyOn(p, part, level)
    [] OTHER                      -> p

-----------------------------------------------------------------------------
(* alloc_scan: what is missing for `need` voices is taken from the parts   *)
(* above their reserve, highest number first, then from the own part.  The *)
(* BLS before the own part's turn also reads the carry that the compare of *)
(* part 0 left: with part 0 below its reserve the own part is passed over. *)
PartDone(r, part) == [pool |-> r, part |-> IF Enough(r) THEN -1 ELSE part - 1]
ScanParts(p, from, level) ==
  LET turn(w) ==
        LET q == w.pool  part == w.part IN
        IF part = -1 THEN w
        ELSE IF Reserved(q, part) THEN [w EXCEPT !.part = part - 1]
        ELSE PartDone(NoteDisp(q, part, level), part)
  IN Loop(turn, [pool |-> p, part |-> from], Parts).pool

Carry_Equal(p) == p.count[0] <= Reserve[0]
Carry(p) == \/ p.count[0] < Reserve[0]
            \/ StealBy[0] = "nothing" /\ ~Reserved(p, 0)

ScanFrom(own) == IF Ceiling # 0 /\ own <= Ceiling THEN Ceiling ELSE Parts - 1

ScanOwn(p, own, level) ==
  IF Enough(p) \/ Carry(p) \/ p.short > p.count[own] THEN p
  ELSE NoteDisp(p, own, level)

AllocScan(p, own, need, level) ==
  LET short == need - p.freeCount IN
  IF short <= 0 THEN [p EXCEPT !.short = 0]
  ELSE ScanOwn(ScanParts([p EXCEPT !.short = short], ScanFrom(own), level),
               own, level)

(* The repeated key.  "same" frees the first note of that key, its voices  *)
(* to the front of the free list; "stack" marks the notes of the key and   *)
(* frees the first one that was marked before, unless sostenuto holds it.  *)
InTable(p, part, key) == key \in Elements(p.table[part])

Least(S) == CHOOSE i \in S : \A j \in S : i <= j

Again(p, c, S) == [p EXCEPT !.again = [d \in Desc |->
                     p.again[d] \/ \E i \in S : c[i] = d]]

Restack(p, part, c, same) ==
  LET marked == {i \in same : p.again[c[i]]} IN
  IF marked = {} THEN Again(p, c, same)
  ELSE NoteHelper(Again(p, c, {i \in same : i < Least(marked)}),
                  c[Least(marked)], part)

Recut(p, part, c, same) ==
  IF same = {} THEN p ELSE AuxAlloc(p, c[Least(same)], part)

Repeat(p, part, key) ==
  LET c    == Chain(p, part)
      same == {i \in 1 .. Len(c) : p.key[c[i]] = key}
  IN CASE Retrigger[part] = "same" -> Recut(p, part, c, same)
       [] Retrigger[part] = "stack" /\ ~InTable(p, part, key) ->
            Restack(p, part, c, same)
       [] OTHER -> p

(* desc_setup: the free descriptor goes to the end of the part's chain and *)
(* gets n voices; the first one taken is that of the second partial.       *)
OpenDesc(p, part, key, canOff) ==
  LET d == p.descFree
      t == p.last[part]
      q == IF t = None THEN [p EXCEPT !.first[part] = d]
                       ELSE [p EXCEPT !.descNext[t] = d]
  IN H3([q EXCEPT !.descFree = p.descNext[d], !.last[part] = d,
                  !.descPrev[d] = t, !.descNext[d] = None,
                  !.key[d] = key, !.canOff[d] = canOff], d, part)

GiveVoice(p, d, part) ==
  LET v == p.freeHead IN
  [Link(PoolPop(p), v, d, part) EXCEPT !.count[part] = @ + 1,
                                       !.fresh = <<v>> \o @]

GiveVoices(p, d, part, n) ==
  LET turn(q) == GiveVoice(q, d, part) IN Loop(turn, p, n)

DescSetup(p, part, key, canOff, n) ==
  GiveVoices(OpenDesc(p, part, key, canOff), p.descFree, part, n)

Granted(p, part, key, canOff, n) ==
  IF p.short > 0 THEN p ELSE DescSetup(p, part, key, canOff, n)
NoteCmd(p, part, key, canOff, n, level) ==
  Granted(AllocScan(Repeat(p, part, key), part, n, level), part, key, canOff, n)

(* note_fill: the voice is in use; a note that may not sound gives it back.*)
NoteFill(p, v, mute) ==
  LET q == [p EXCEPT !.free[v] = FALSE, !.fresh = Tail(@)] IN
  IF mute THEN FreeVoice(q, v, 0) ELSE q

-----------------------------------------------------------------------------
(* Key off and pedals.  A note is let go by setting gateOff of its tail    *)
(* and of the voice next to it.                                            *)
LetGo_TailOnly(p, D) ==
  [p EXCEPT !.gateOff = [v \in Voice |-> @[v] \/ \E d \in D : p.tail[d] = v]]
LetGo(p, D) ==
  LET tails == {p.tail[d] : d \in D}
      nexts == {p.toHead[v] : v \in tails} \ {None}
  IN [p EXCEPT !.gateOff = [v \in Voice |-> @[v] \/ v \in tails \cup nexts]]

KillA(p, d, part) ==
  LET q == [p EXCEPT !.state[d] = "up"] IN
  IF p.hold[part] THEN [q EXCEPT !.held[d] = TRUE]
  ELSE IF InTable(p, part, p.key[d]) THEN q ELSE LetGo(q, {d})

ScanA(p, part, key) ==       \* key off
  LET c  == Chain(p, part)
      on == {i \in 1 .. Len(c) : /\ p.state[c[i]] = "down"
                                 /\ p.key[c[i]] = key /\ p.canOff[c[i]]}
  IN IF on = {} THEN p
     ELSE KillA(p, c[Least(on)], part)

ScanB(p, part) ==            \* hold pedal up
  LET D    == Elements(Chain(p, part))
      held == {d \in D : p.held[d]}
      q    == [p EXCEPT !.hold[part] = FALSE,
                        !.held = [d \in Desc |-> @[d] /\ d \notin D]]
  IN IF ~p.hold[part] THEN p
     ELSE LetGo(q, {d \in held : ~InTable(p, part, p.key[d])})

(* Sostenuto down: the keys held down are entered into the table, each     *)
(* once, until it is full.                                                 *)
Enter(p, table, c) ==
  LET turn(w) ==
        LET key == p.key[c[w.at]] IN
        [at |-> w.at + 1,
         table |-> IF \/ Len(w.table) = TableSize \/ p.state[c[w.at]] # "down"
                      \/ key \in Elements(w.table)
                   THEN w.table ELSE Append(w.table, key)]
  IN Loop(turn, [at |-> 1, table |-> table], Len(c)).table

PoolScanE(p, part) ==
  [p EXCEPT !.table[part] = Enter(p, @, Chain(p, part))]

(* Sostenuto up: notes of the table whose key is up are let go, unless the *)
(* hold pedal holds them.  In a full table the search for a key that is    *)
(* not there ends the whole scan.                                          *)
PoolKillF(p, part) ==
  LET c    == Chain(p, part)
      up(i) == p.state[c[i]] = "up"
      in(i) == InTable(p, part, p.key[c[i]])
      full == Len(p.table[part]) = TableSize
      seen == {i \in 1 .. Len(c) :
                 ~(full /\ \E j \in 1 .. i : up(j) /\ ~in(j))}
      go   == {c[i] : i \in {k \in seen : up(k) /\ in(k) /\ ~p.held[c[k]]}}
  IN [LetGo(p, go) EXCEPT !.table[part] = <<>>]

State16(p, part) == PoolKillF(ScanB(p, part), part)

-----------------------------------------------------------------------------
(* The messages of the voice task.  A new note is filled before the next   *)
(* message is looked at.                                                   *)
Idle == pool.fresh = <<>>

(* The levels a handler finds.  It reads them when voices are missing, and *)
(* of the notes of the parts that give up the quietest first.              *)
Compared(v, n) ==
  /\ n > pool.freeCount /\ ~pool.free[v]
  /\ StealBy[pool.part[v]] = "quietest"

LevelsFor(n) ==
  LET C == {v \in Voice : Compared(v, n)} IN
  {[v \in Voice |-> IF v \in C THEN level[v] ELSE 0] : level \in [C -> Levels]}

NoteOn(part, key, n, level) ==
  Idle /\ pool' = NoteCmd(pool, part, key, part \notin OneShot, n, level)

Fill(mute) == /\ ~Idle
              /\ pool' = NoteFill(pool, Head(pool.fresh), mute)

Handler(result) == Idle /\ pool' = result

KeyOff(part, key)   == Handler(ScanA(pool, part, key))
HoldDown(part)      == Handler([pool EXCEPT !.hold[part] = TRUE])
HoldUp(part)        == Handler(ScanB(pool, part))
SostenutoDown(part) == Handler(PoolScanE(pool, part))
SostenutoUp(part)   == Handler(PoolKillF(pool, part))
ResetPart(part)     == Handler(State16(pool, part))
VoiceEnd(v, level)  == Handler(FreeVoice(pool, v, level))

Init == pool = PoolInit

Next == \/ \E part \in Part, key \in Keys, n \in 1 .. 2 :
             \E level \in LevelsFor(n) : NoteOn(part, key, n, level)
        \/ \E mute \in BOOLEAN : Fill(mute)
        \/ \E part \in Part, key \in Keys : KeyOff(part, key)
        \/ \E part \in Pedalled : \/ HoldDown(part) \/ HoldUp(part)
                                  \/ SostenutoDown(part) \/ SostenutoUp(part)
                                  \/ ResetPart(part)
        \/ \E v \in Voice, level \in {0, Fresh} : VoiceEnd(v, level)

Spec == Init /\ [][Next]_pool

-----------------------------------------------------------------------------
OrNone(S) == S \cup {None}

TypeOK ==
  /\ pool.freeHead \in OrNone(Voice) /\ pool.freeTail \in OrNone(Voice)
  /\ pool.freeNext \in [Voice -> OrNone(Voice)]
  /\ pool.toTail \in [Voice -> OrNone(Voice)]
  /\ pool.toHead \in [Voice -> OrNone(Voice)]
  /\ pool.head \in [Desc -> OrNone(Voice)]
  /\ pool.tail \in [Desc -> OrNone(Voice)]
  /\ pool.descNext \in [Desc -> OrNone(Desc)]
  /\ pool.descPrev \in [Desc -> OrNone(Desc)]
  /\ pool.state \in [Desc -> {"free", "down", "up"}]
  /\ pool.current \in [Part -> OrNone(Desc)]
  /\ pool.gateOff \in [Voice -> BOOLEAN] /\ pool.free \in [Voice -> BOOLEAN]
  /\ pool.held \in [Desc -> BOOLEAN] /\ pool.again \in [Desc -> BOOLEAN]
  /\ pool.hold \in [Part -> BOOLEAN]
  /\ pool.freeCount \in 0 .. Voices /\ pool.count \in [Part -> 0 .. Voices]
  /\ pool.short \in 0 .. 2 /\ Len(pool.fresh) <= 2

Distinct(s) == \A i, j \in 1 .. Len(s) : s[i] = s[j] => i = j

(* The lists hang together: every voice is either in the free list or in   *)
(* the voices of exactly one descriptor, every descriptor either free or   *)
(* in exactly one part's chain; the two ends and the backward links agree; *)
(* the counters count.  No handler leaves a cell behind, whatever order    *)
(* notes are started, stolen, retriggered and ended in.                    *)
FreeListSound ==
  LET f == FreeList(pool) IN
  /\ Distinct(f) /\ Len(f) = pool.freeCount
  /\ pool.freeTail = IF f = <<>> THEN None ELSE f[Len(f)]
  /\ {v \in Voice : pool.free[v]} = Elements(f) \cup Elements(pool.fresh)

VoicesSound ==
  LET idle == Elements(FreeList(pool))
      on   == [d \in Desc |-> Elements(VoicesOf(pool, d))]
  IN \A v \in Voice : {d \in Desc : v \in on[d]} =
                        IF v \in idle THEN {} ELSE {pool.desc[v]}

DescsSound ==
  LET spare == Elements(DescList(pool))
      notes == [part \in Part |-> Elements(Chain(pool, part))]
  IN \A d \in Desc :
    LET s == VoicesOf(pool, d)
        P == {part \in Part : d \in notes[part]} IN
    IF d \in spare
    THEN pool.state[d] = "free" /\ s = <<>> /\ P = {}
    ELSE /\ pool.state[d] # "free" /\ Len(s) \in 1 .. 2
         /\ P = {pool.part[s[1]]} /\ pool.head[d] = s[Len(s)]
         /\ pool.toTail[s[1]] = None
         /\ Len(s) = 2 => pool.toTail[s[2]] = s[1]

ChainsSound ==
  /\ Distinct(DescList(pool))
  /\ \A part \in Part :
       LET c == Chain(pool, part) IN
       /\ Distinct(c)
       /\ pool.last[part] = IF c = <<>> THEN None ELSE c[Len(c)]
       /\ \A i \in 1 .. Len(c) : pool.descPrev[c[i]] = IF i = 1 THEN None
                                                       ELSE c[i - 1]
       /\ pool.count[part] = Cardinality({v \in Voice :
              \E i \in 1 .. Len(c) : v \in Elements(VoicesOf(pool, c[i]))})

PoolSound == FreeListSound /\ VoicesSound /\ DescsSound /\ ChainsSound

(* H2 and H3 together keep a200 on a note of the part's lowest key, which  *)
(* key_on spares as long as it can.                                        *)
LowestIsCurrent ==
  \A part \in Part :
    LET C == Elements(Chain(pool, part))  cur == pool.current[part] IN
    IF C = {} THEN cur = None
    ELSE cur \in C /\ \A d \in C : pool.key[cur] <= pool.key[d]

(* A note whose key is up has been let go, or a pedal that is down still   *)
(* holds it; a note whose key is down has not been let go, and no idle     *)
(* voice starts its next note let go.                                      *)
NoStuckNote ==
  /\ \A part \in Part : \A d \in Elements(Chain(pool, part)) :
       LET on  == Elements(VoicesOf(pool, d))
           off == {v \in on : pool.gateOff[v]} IN
       CASE pool.state[d] = "down" -> off = {}
         [] pool.state[d] = "up" ->
              \/ off = on
              \/ pool.held[d] /\ pool.hold[part]
              \/ InTable(pool, part, pool.key[d])
  /\ \A v \in Elements(FreeList(pool)) : ~pool.gateOff[v]

(* Whatever the levels: a part within its reserve loses nothing to another *)
(* part's note, and neither does one above the ceiling.                    *)
Spared(p, own) ==
  \A part \in Part \ {own} :
    p.count[part] < pool.count[part]
      => pool.count[part] > Reserve[part] /\ part <= ScanFrom(own)
ReserveKept ==
  Idle => \A own \in Part, n \in 1 .. 2 : \A level \in LevelsFor(n) :
            Spared(AllocScan(pool, own, n, level), own)

(* When every voice has been measured, a note is refused only if its own   *)
(* part has fewer voices than are still missing, if that part's turn gave  *)
(* some and ended at the part's reserve, if a part that gives nothing up   *)
(* is in the way - or if part 0 is below its reserve, whose compare leaves *)
(* the carry that the test before the own part's turn reads.               *)
Excused(p, own) ==
  p.short > 0 => \/ p.count[own] < p.short \/ p.count[0] < Reserve[0]
                 \/ Reserved(p, own) /\ p.count[own] < pool.count[own]
                 \/ StealBy[own] = "nothing" \/ StealBy[0] = "nothing"
Measured(level) == \A v \in Voice : level[v] # Fresh
RefusedForAReason ==
  Idle => \A own \in Part, n \in 1 .. 2 : \A level \in LevelsFor(n) :
            Measured(level) => Excused(AllocScan(pool, own, n, level), own)

(* The lists implement the allocator's promise.                            *)
Allocator == INSTANCE VoiceAllocator WITH
               Note <- Desc, NoNote <- None,
               queue <- FreeList(pool),
               owner <- LET idle == Elements(FreeList(pool)) IN
                        [v \in Voice |-> IF v \in idle THEN None
                                         ELSE pool.desc[v]]

ImplementsAllocator == Allocator!Spec
=============================================================================
