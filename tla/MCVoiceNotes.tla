---------------------------- MODULE MCVoiceNotes ----------------------------
(***************************************************************************)
(* Three voices and two parts.  Part 0 gives up its oldest note, keeps one *)
(* voice in reserve and stacks repeated keys; part 1, whose pedals are     *)
(* used, gives up its quietest note, keeps two voices and cuts them.       *)
(***************************************************************************)
EXTENDS VoiceNotes

MCKeys      == {60, 64}
MCReserve   == [part \in 0 .. 1 |-> IF part = 0 THEN 1 ELSE 2]
MCStealBy   == [part \in 0 .. 1 |-> IF part = 0 THEN "oldest" ELSE "quietest"]
MCRetrigger == [part \in 0 .. 1 |-> IF part = 0 THEN "stack" ELSE "same"]

(* What the next steps can tell apart.  Fields of idle voices and of free  *)
(* descriptors are written before they are read again, and no handler      *)
(* looks at a voice's or a descriptor's number: they are renamed to the    *)
(* place at which the lists reach them.                                    *)
Places(s) == LET at(x) == {i \in 1 .. Len(s) : s[i] = x} IN
             [x \in Voice \cup {None} |->
                IF x = None THEN None ELSE
                IF at(x) = {} THEN 100 + x
                ELSE CHOOSE i \in at(x) : \A j \in at(x) : i <= j]

RECURSIVE Joined(_, _)
Joined(Op(_), s) == IF s = <<>> THEN <<>> ELSE Op(Head(s)) \o Joined(Op, Tail(s))

MCView ==
  LET parts  == [i \in 1 .. Parts |-> i - 1]
      chains == Joined(LAMBDA part : Chain(pool, part), parts)
      idle   == FreeList(pool)
      spare  == DescList(pool)
      V == Voice \ Elements(idle)
      D == Desc \ Elements(spare)
      vn == Places(idle \o Joined(LAMBDA d : VoicesOf(pool, d), chains))
      dn == Places(spare \o chains)
      ofVoice(f) == {<<vn[v], f[v]>> : v \in V}
      toVoice(f) == {<<vn[v], vn[f[v]]>> : v \in V}
      ofDesc(f)  == {<<dn[d], f[d]>> : d \in D}
      toDesc(f)  == {<<dn[d], dn[f[d]]>> : d \in D}
      named(f)   == [part \in Part |-> dn[f[part]]]
  IN <<Len(idle), Len(spare), pool.freeCount,
       vn[pool.freeHead], vn[pool.freeTail], dn[pool.descFree],
       ofVoice(pool.part), {<<vn[v], dn[pool.desc[v]]>> : v \in V},
       toVoice(pool.toTail), toVoice(pool.toHead),
       {<<dn[d], vn[pool.head[d]], vn[pool.tail[d]]>> : d \in D},
       toDesc(pool.descNext), toDesc(pool.descPrev), ofDesc(pool.key),
       {vn[v] : v \in {u \in Voice : pool.gateOff[u]}},
       {vn[v] : v \in {u \in Voice : pool.free[u]}},
       ofDesc(pool.state), ofDesc(pool.held), ofDesc(pool.again),
       named(pool.first), named(pool.last), pool.count,
       named(pool.current), pool.hold, pool.table, pool.short,
       [i \in 1 .. Len(pool.fresh) |-> vn[pool.fresh[i]]]>>
=============================================================================
