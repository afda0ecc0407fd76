-------------------------- MODULE VoiceNotesProofs --------------------------
(***************************************************************************)
(* The lists of the voice pool hold together for any number of voices and  *)
(* parts, whatever messages the voice task takes and in whatever order.    *)
(*                                                                         *)
(* The tables of the firmware are lists only if nobody has written a wrong *)
(* link.  The invariant therefore says that lists exist which the tables   *)
(* hold: the idle voices f, the free descriptors e, a chain c[part] of     *)
(* notes for each part, and for each descriptor the part home[d] it is     *)
(* with, or None when it is free.  Every handler is made of a few writes:  *)
(* a voice taken out of its note (H1), returned to the idle list           *)
(* (AppendFree, PushFree), a note closed (H2), opened (OpenDesc), a voice  *)
(* given to it (GiveVoice).  A lemma on each says what lists there are     *)
(* after it, in terms of those before.  The loops of the handlers keep a   *)
(* set of sound pools, pass by pass.                                       *)
(*                                                                         *)
(* Beside the lists, the lemmas say what has become of the queue of idle   *)
(* voices since the handler began (Moved, Given): so each handler is a     *)
(* step of VoiceAllocator.                                                 *)
(***************************************************************************)
EXTENDS VoiceNotes, FiniteSetTheorems, SequenceTheorems, WellFoundedInduction, TLAPS

(* Cells 0, 1 .. n, one after the other. *)
LEMMA UpTo == ASSUME NEW n \in Nat, NEW S, 0 \in S,
                     \A k \in 1 .. n : k - 1 \in S => k \in S
              PROVE  \A k \in 0 .. n : k \in S
<1> DEFINE R == OpToRel(<, Nat)
           T == {k \in 0 .. n : k \notin S}
<1>1. IsWellFoundedOn(R, Nat)
  BY NatLessThanWellFounded
<1>2. \A x, y \in Nat : x < y => <<x, y>> \in R
  BY DEF OpToRel
<1>3. T \subseteq Nat
  OBVIOUS
<1> HIDE DEF R
<1>4. ASSUME T # {} PROVE FALSE
  <2>1. PICK x \in T : \A y \in T : ~(<<y, x>> \in R)
    BY <1>1, <1>3, <1>4, WFMin
  <2>2. x \in 1 .. n /\ x - 1 \in 0 .. n /\ x \notin S
    BY <2>1
  <2>3. x - 1 \in T
    BY <2>2
  <2>4. <<x - 1, x>> \in R
    BY <2>2, <1>2
  <2> QED BY <2>1, <2>3, <2>4
<1> QED BY <1>4

\* n rounds of s from x, in G throughout.
HasLaps(G, x, s, n) ==
  \E f \in [0 .. n -> G] : f[0] = x /\ \A k \in 1 .. n : f[k] = s[f[k - 1]]

\* A step that stays in G can be repeated any number of times.
LEMMA Iteration ==
  ASSUME NEW G, NEW x \in G, NEW s \in [G -> G], NEW n \in Nat
  PROVE  HasLaps(G, x, s, n)
<1> USE DEF HasLaps
<1> DEFINE P(m) == \E f \in [0 .. m -> G] :
                      f[0] = x /\ \A k \in 1 .. m : f[k] = s[f[k - 1]]
           S == {m \in Nat : P(m)}
<1>1. P(0)
  <2> DEFINE f == [k \in 0 .. 0 |-> x]
  <2>1. f \in [0 .. 0 -> G] /\ f[0] = x
    OBVIOUS
  <2>2. \A k \in 1 .. 0 : f[k] = s[f[k - 1]]
    OBVIOUS
  <2> HIDE DEF f
  <2> QED BY <2>1, <2>2
<1>2. ASSUME NEW m \in Nat, P(m) PROVE P(m + 1)
  <2>1. PICK f \in [0 .. m -> G] : f[0] = x /\ \A k \in 1 .. m : f[k] = s[f[k - 1]]
    BY <1>2
  <2> DEFINE g == [k \in 0 .. m + 1 |-> IF k = m + 1 THEN s[f[m]] ELSE f[k]]
  <2>2. g \in [0 .. m + 1 -> G] /\ g[0] = x
    BY <2>1
  <2>3. ASSUME NEW k \in 1 .. m + 1 PROVE g[k] = s[g[k - 1]]
    <3>1. CASE k = m + 1
      BY <3>1
    <3>2. CASE k # m + 1
      <4>1. k \in 1 .. m
        BY <3>2
      <4> QED BY <4>1, <2>1
    <3> QED BY <3>1, <3>2
  <2> QED BY <2>2, <2>3
<1>3. \A k \in 0 .. n : k \in S
  <2>1. 0 \in S
    BY <1>1
  <2>2. \A k \in 1 .. n : k - 1 \in S => k \in S
    <3> SUFFICES ASSUME NEW k \in 1 .. n, k - 1 \in S PROVE k \in S
      OBVIOUS
    <3> DEFINE m == k - 1
    <3>1. m \in Nat /\ P(m) /\ k = m + 1
      OBVIOUS
    <3>2. P(m + 1)
      BY <3>1, <1>2
    <3> QED BY <3>1, <3>2
  <2> HIDE DEF S
  <2> QED BY <2>1, <2>2, UpTo
<1> QED BY <1>3

(* A nonempty set of naturals has a least member. *)
LEMMA HasLeast == ASSUME NEW S \in SUBSET Nat, S # {}
                  PROVE  \E x \in S : \A y \in S : x <= y
<1> DEFINE R == OpToRel(<, Nat)
<1>1. IsWellFoundedOn(R, Nat)
  BY NatLessThanWellFounded
<1>2. \A x, y \in Nat : x < y => <<x, y>> \in R
  BY DEF OpToRel
<1> HIDE DEF R
<1>3. PICK x \in S : \A y \in S : ~(<<y, x>> \in R)
  BY <1>1, WFMin
<1>4. ASSUME NEW y \in S PROVE x <= y
  <2>1. x \in Nat /\ y \in Nat /\ ~(<<y, x>> \in R)
    BY <1>3
  <2>2. ~(y < x)
    BY <1>2, <2>1
  <2> QED BY <2>1, <2>2
<1> QED BY <1>4

\* Least answers with a member.
LEMMA LeastIs == ASSUME NEW S \in SUBSET Nat, S # {} PROVE Least(S) \in S
  BY HasLeast DEF Least

-----------------------------------------------------------------------------
(* Lists *)

\* A linked list read into s: no cell twice, start is its first cell, and each
\* cell names the next.
ListOf(s, next, start) ==
  /\ Distinct(s)
  /\ start = IF s = <<>> THEN None ELSE s[1]
  /\ \A i \in 1 .. Len(s) : next[s[i]] = IF i = Len(s) THEN None ELSE s[i + 1]

\* The list without its cell k.
Without(s, k) == [i \in 1 .. Len(s) - 1 |-> IF i < k THEN s[i] ELSE s[i + 1]]

\* There is a voice and a part.
LEMMA Sizes == Voices \in Nat \ {0} /\ Parts \in Nat \ {0}
  BY VoicePoolAssumption

\* The terminator of a list (0xff) is the number of no voice, descriptor or
\* part.
LEMMA NoneIsNone == None \notin Voice /\ None \notin Desc /\ None \notin Part
  BY Sizes DEF None, Voice, Desc, Part

\* A list is empty when its length is zero.
LEMMA NoCells == ASSUME NEW S, NEW s \in Seq(S)
                  PROVE  Len(s) \in Nat /\ (s = <<>> <=> Len(s) = 0)
  OBVIOUS

\* What is left of a list without its first cell.
LEMMA TailOf ==
  ASSUME NEW S, NEW s \in Seq(S), s # <<>>, Distinct(s)
  PROVE  /\ Tail(s) \in Seq(S) /\ Len(Tail(s)) = Len(s) - 1 /\ Distinct(Tail(s))
         /\ Elements(Tail(s)) = Elements(s) \ {s[1]}
         /\ \A i \in 1 .. Len(Tail(s)) : Tail(s)[i] = s[i + 1]
<1> DEFINE t == Tail(s)
<1>1. /\ t \in Seq(S) /\ Len(t) = Len(s) - 1 /\ Len(s) \in Nat
      /\ \A i \in 1 .. Len(t) : t[i] = s[i + 1]
  OBVIOUS
<1>2. Len(s) # 0
  BY NoCells
<1>3. \A i, j \in 1 .. Len(s) : s[i] = s[j] => i = j
  BY DEF Distinct
<1> HIDE DEF t
<1>4. Distinct(t)
  BY <1>1, <1>3 DEF Distinct
<1>5. Elements(t) = Elements(s) \ {s[1]}
  <2>1. ASSUME NEW x \in Elements(t) PROVE x \in Elements(s) \ {s[1]}
    <3>1. PICK i \in 1 .. Len(t) : x = t[i]
      BY DEF Elements
    <3>2. i + 1 \in 1 .. Len(s) /\ x = s[i + 1] /\ 1 \in 1 .. Len(s) /\ i + 1 # 1
      BY <1>1, <3>1
    <3> QED BY <1>3, <3>2 DEF Elements
  <2>2. ASSUME NEW x \in Elements(s) \ {s[1]} PROVE x \in Elements(t)
    <3>1. PICK i \in 1 .. Len(s) : x = s[i]
      BY DEF Elements
    <3>2. i - 1 \in 1 .. Len(t) /\ x = t[i - 1]
      BY <1>1, <3>1, <2>2
    <3> QED BY <3>2 DEF Elements
  <2> QED BY <2>1, <2>2
<1> QED BY <1>1, <1>4, <1>5 DEF t

\* Taking the first cell off a linked list.
LEMMA ListPop ==
  ASSUME NEW S, NEW s \in Seq(S), NEW next, NEW start, ListOf(s, next, start),
         s # <<>>
  PROVE  /\ Tail(s) \in Seq(S) /\ ListOf(Tail(s), next, next[start])
         /\ Elements(Tail(s)) = Elements(s) \ {start}
         /\ Len(Tail(s)) = Len(s) - 1
<1> DEFINE t == Tail(s)
<1>1. /\ t \in Seq(S) /\ Len(t) = Len(s) - 1 /\ Len(s) \in Nat
      /\ \A i \in 1 .. Len(t) : t[i] = s[i + 1]
  OBVIOUS
<1>2. start = s[1]
  BY DEF ListOf
<1>3. \A i, j \in 1 .. Len(s) : s[i] = s[j] => i = j
  BY DEF ListOf, Distinct
<1>4. \A i \in 1 .. Len(s) : next[s[i]] = IF i = Len(s) THEN None ELSE s[i + 1]
  BY DEF ListOf
<1>5. t = <<>> <=> Len(s) = 1
  <2> HIDE DEF t
  <2>1. t = <<>> <=> Len(t) = 0
    BY <1>1, NoCells
  <2> QED BY <1>1, <2>1
<1>6. Distinct(t) /\ Elements(t) = Elements(s) \ {s[1]}
  BY TailOf DEF ListOf
<1> HIDE DEF t
<1>7. next[start] = IF t = <<>> THEN None ELSE t[1]
  <2>1. CASE Len(s) = 1
    BY <2>1, <1>2, <1>4, <1>5
  <2>2. CASE Len(s) # 1
    <3>1. 1 \in 1 .. Len(s) /\ 1 \in 1 .. Len(t) /\ 1 # Len(s) /\ 1 + 1 = 2
      BY <2>2, <1>1
    <3>2. next[s[1]] = s[2] /\ t[1] = s[2]
      BY <3>1, <1>1, <1>4
    <3> QED BY <3>2, <2>2, <1>2, <1>5
  <2> QED BY <2>1, <2>2
<1>8. \A i \in 1 .. Len(t) : next[t[i]] = IF i = Len(t) THEN None ELSE t[i + 1]
  BY <1>1, <1>4, SMTT(30)
<1> QED BY <1>1, <1>2, <1>6, <1>7, <1>8 DEF ListOf, t

\* A cell put in front of a list.
LEMMA PushedOn ==
  ASSUME NEW S, NEW s \in Seq(S), Distinct(s), NEW v \in S, v \notin Elements(s)
  PROVE  /\ <<v>> \o s \in Seq(S) /\ Distinct(<<v>> \o s)
         /\ Elements(<<v>> \o s) = Elements(s) \cup {v}
         /\ Len(<<v>> \o s) = Len(s) + 1
<1> DEFINE t == <<v>> \o s
<1>1. /\ t \in Seq(S) /\ Len(t) = Len(s) + 1 /\ Len(s) \in Nat
      /\ t[1] = v /\ \A i \in 1 .. Len(s) : t[i + 1] = s[i]
  OBVIOUS
<1>2. \A i \in 2 .. Len(t) : i - 1 \in 1 .. Len(s) /\ t[i] = s[i - 1]
  <2> SUFFICES ASSUME NEW i \in 2 .. Len(t)
               PROVE  i - 1 \in 1 .. Len(s) /\ t[i] = s[i - 1]
    OBVIOUS
  <2>1. i - 1 \in 1 .. Len(s) /\ (i - 1) + 1 = i
    BY <1>1
  <2> HIDE DEF t
  <2> QED BY <2>1, <1>1
<1> HIDE DEF t
<1>3. \A i, j \in 1 .. Len(s) : s[i] = s[j] => i = j
  BY DEF Distinct
<1>5. \A i \in 1 .. Len(s) : s[i] # v
  BY DEF Elements
<1>6. Distinct(t)
  <2> SUFFICES ASSUME NEW i \in 1 .. Len(t), NEW j \in 1 .. Len(t), t[i] = t[j]
               PROVE  i = j
    BY DEF Distinct
  <2>1. CASE i = 1 /\ j = 1
    BY <2>1
  <2>2. CASE i = 1 /\ j # 1
    <3>1. j \in 2 .. Len(t)
      BY <1>1, <2>2
    <3> QED BY <3>1, <2>2, <1>1, <1>2, <1>5
  <2>3. CASE i # 1 /\ j = 1
    <3>1. i \in 2 .. Len(t)
      BY <1>1, <2>3
    <3> QED BY <3>1, <2>3, <1>1, <1>2, <1>5
  <2>4. CASE i # 1 /\ j # 1
    <3>1. i \in 2 .. Len(t) /\ j \in 2 .. Len(t)
      BY <1>1, <2>4
    <3>2. i - 1 = j - 1
      BY <3>1, <1>2, <1>3
    <3> QED BY <3>2
  <2> QED BY <2>1, <2>2, <2>3, <2>4
<1>9. Elements(t) = Elements(s) \cup {v}
  <2>1. ASSUME NEW x \in Elements(t) PROVE x \in Elements(s) \cup {v}
    <3>1. PICK i \in 1 .. Len(t) : x = t[i]
      BY DEF Elements
    <3>2. CASE i = 1
      BY <3>1, <3>2, <1>1
    <3>3. CASE i # 1
      <4>1. i \in 2 .. Len(t)
        BY <3>3, <1>1
      <4> QED BY <3>1, <4>1, <1>2 DEF Elements
    <3> QED BY <3>2, <3>3
  <2>2. v \in Elements(t)
    <3>1. 1 \in 1 .. Len(t)
      BY <1>1
    <3> QED BY <3>1, <1>1 DEF Elements
  <2>3. ASSUME NEW x \in Elements(s) PROVE x \in Elements(t)
    <3>1. PICK i \in 1 .. Len(s) : x = s[i]
      BY DEF Elements
    <3>2. i + 1 \in 1 .. Len(t)
      BY <1>1, <3>1
    <3> QED BY <3>1, <3>2, <1>1 DEF Elements
  <2> QED BY <2>1, <2>2, <2>3
<1> QED BY <1>1, <1>6, <1>9 DEF t

\* A new first cell that names the old one makes the longer linked list.
LEMMA ListPush ==
  ASSUME NEW S, NEW s \in Seq(S), NEW next, NEW start, ListOf(s, next, start),
         NEW v \in S, v \notin Elements(s), None \notin S,
         NEW nxt, nxt[v] = start,
         \A i \in 1 .. Len(s) : nxt[s[i]] = next[s[i]]
  PROVE  /\ <<v>> \o s \in Seq(S) /\ ListOf(<<v>> \o s, nxt, v)
         /\ Elements(<<v>> \o s) = Elements(s) \cup {v}
         /\ Len(<<v>> \o s) = Len(s) + 1
<1> DEFINE t == <<v>> \o s
<1>1. /\ t \in Seq(S) /\ Len(t) = Len(s) + 1 /\ Len(s) \in Nat
      /\ t[1] = v /\ \A i \in 1 .. Len(s) : t[i + 1] = s[i]
  OBVIOUS
<1>2. \A i \in 2 .. Len(t) : i - 1 \in 1 .. Len(s) /\ t[i] = s[i - 1]
  <2> SUFFICES ASSUME NEW i \in 2 .. Len(t)
               PROVE  i - 1 \in 1 .. Len(s) /\ t[i] = s[i - 1]
    OBVIOUS
  <2>1. i - 1 \in 1 .. Len(s) /\ (i - 1) + 1 = i
    BY <1>1
  <2> HIDE DEF t
  <2> QED BY <2>1, <1>1
<1>6. Distinct(t) /\ Elements(t) = Elements(s) \cup {v}
  BY PushedOn DEF ListOf
<1> HIDE DEF t
<1>3. \A i, j \in 1 .. Len(s) : s[i] = s[j] => i = j
  BY DEF ListOf, Distinct
<1>4. \A i \in 1 .. Len(s) : next[s[i]] = IF i = Len(s) THEN None ELSE s[i + 1]
  BY DEF ListOf
<1>5. \A i \in 1 .. Len(s) : s[i] # v
  BY DEF Elements
<1>7. t # <<>> /\ (s = <<>> <=> Len(s) = 0)
  BY <1>1, NoCells
<1>8. \A i \in 1 .. Len(t) : nxt[t[i]] = IF i = Len(t) THEN None ELSE t[i + 1]
  <2> SUFFICES ASSUME NEW i \in 1 .. Len(t)
               PROVE  nxt[t[i]] = IF i = Len(t) THEN None ELSE t[i + 1]
    OBVIOUS
  <2>1. CASE i = 1
    <3>1. CASE Len(s) = 0
      BY <2>1, <3>1, <1>1, <1>7 DEF ListOf
    <3>2. CASE Len(s) # 0
      <4>1. 1 \in 1 .. Len(s) /\ i # Len(t)
        BY <3>2, <1>1, <2>1
      <4>2. start = s[1] /\ t[1 + 1] = s[1]
        BY <3>2, <4>1, <1>1, <1>7 DEF ListOf
      <4> QED BY <2>1, <4>1, <4>2, <1>1
    <3> QED BY <3>1, <3>2
  <2>2. CASE i # 1
    <3> DEFINE k == i - 1
    <3>1. i \in 2 .. Len(t)
      BY <2>2, <1>1
    <3>2. k \in 1 .. Len(s) /\ t[i] = s[k] /\ i = k + 1 /\ k \in Nat
      BY <3>1, <1>2
    <3> HIDE DEF k
    <3>3. nxt[t[i]] = IF k = Len(s) THEN None ELSE s[k + 1]
      BY <3>2, <1>4
    <3>4. k = Len(s) <=> i = Len(t)
      BY <3>2, <1>1
    <3>5. CASE k # Len(s)
      <4>1. k + 1 \in 1 .. Len(s)
        BY <3>2, <3>5, <1>1
      <4>2. t[i + 1] = s[k + 1]
        BY <3>2, <4>1, <1>1
      <4> QED BY <3>3, <3>4, <3>5, <4>2
    <3> QED BY <3>3, <3>4, <3>5
  <2> QED BY <2>1, <2>2
<1>10. ListOf(t, nxt, v)
  BY <1>1, <1>6, <1>7, <1>8 DEF ListOf
<1> QED BY <1>1, <1>6, <1>10 DEF t

\* A new last cell that the old one names makes the longer linked list.
LEMMA ListAppend ==
  ASSUME NEW S, NEW s \in Seq(S), NEW next, NEW start, ListOf(s, next, start),
         NEW v \in S, v \notin Elements(s),
         NEW nxt, nxt[v] = None,
         \A i \in 1 .. Len(s) - 1 : nxt[s[i]] = next[s[i]],
         s # <<>> => nxt[s[Len(s)]] = v,
         NEW from, from = IF s = <<>> THEN v ELSE start
  PROVE  /\ Append(s, v) \in Seq(S) /\ ListOf(Append(s, v), nxt, from)
         /\ Elements(Append(s, v)) = Elements(s) \cup {v}
         /\ Len(Append(s, v)) = Len(s) + 1
<1> DEFINE t == Append(s, v)
           n == Len(s)
<1>1. /\ t \in Seq(S) /\ Len(t) = n + 1 /\ n \in Nat
      /\ t[n + 1] = v /\ \A i \in 1 .. n : t[i] = s[i]
  OBVIOUS
<1>2. s = <<>> <=> n = 0
  BY NoCells
<1> HIDE DEF t
<1>3. \A i, j \in 1 .. n : s[i] = s[j] => i = j
  BY DEF ListOf, Distinct
<1>4. \A i \in 1 .. n : next[s[i]] = IF i = n THEN None ELSE s[i + 1]
  BY DEF ListOf
<1>5. \A i \in 1 .. n : s[i] # v
  BY DEF Elements
<1> HIDE DEF n
<1>6. Distinct(t)
  <2> SUFFICES ASSUME NEW i \in 1 .. Len(t), NEW j \in 1 .. Len(t), t[i] = t[j]
               PROVE  i = j
    BY DEF Distinct
  <2>1. CASE i = n + 1 /\ j = n + 1
    BY <2>1
  <2>2. CASE i = n + 1 /\ j # n + 1
    <3>1. j \in 1 .. n
      BY <1>1, <2>2
    <3> QED BY <3>1, <2>2, <1>1, <1>5
  <2>3. CASE i # n + 1 /\ j = n + 1
    <3>1. i \in 1 .. n
      BY <1>1, <2>3
    <3> QED BY <3>1, <2>3, <1>1, <1>5
  <2>4. CASE i # n + 1 /\ j # n + 1
    <3>1. i \in 1 .. n /\ j \in 1 .. n
      BY <1>1, <2>4
    <3> QED BY <3>1, <1>1, <1>3
  <2> QED BY <2>1, <2>2, <2>3, <2>4
<1>7. from = IF t = <<>> THEN None ELSE t[1]
  <2>1. t # <<>>
    BY <1>1, NoCells
  <2>2. CASE n = 0
    BY <2>1, <2>2, <1>1, <1>2
  <2>3. CASE n # 0
    <3>1. 1 \in 1 .. n
      BY <2>3, <1>1
    <3> QED BY <2>1, <2>3, <3>1, <1>1, <1>2 DEF ListOf
  <2> QED BY <2>2, <2>3
<1>8. \A i \in 1 .. Len(t) : nxt[t[i]] = IF i = Len(t) THEN None ELSE t[i + 1]
  <2> SUFFICES ASSUME NEW i \in 1 .. Len(t)
               PROVE  nxt[t[i]] = IF i = Len(t) THEN None ELSE t[i + 1]
    OBVIOUS
  <2>1. CASE i = n + 1
    BY <2>1, <1>1
  <2>2. CASE i = n
    BY <2>2, <1>1, <1>2 DEF n
  <2>3. CASE i # n + 1 /\ i # n
    <3>1. i \in 1 .. n - 1 /\ i \in 1 .. n /\ i + 1 \in 1 .. n
      BY <2>3, <1>1
    <3>2. nxt[s[i]] = next[s[i]]
      BY <3>1 DEF n
    <3>3. next[s[i]] = s[i + 1]
      BY <3>1, <2>3, <1>4
    <3> QED BY <3>1, <3>2, <3>3, <2>3, <1>1
  <2> QED BY <2>1, <2>2, <2>3
<1>9. Elements(t) = Elements(s) \cup {v}
  <2>1. ASSUME NEW x \in Elements(t) PROVE x \in Elements(s) \cup {v}
    <3>1. PICK i \in 1 .. Len(t) : x = t[i]
      BY DEF Elements
    <3>2. CASE i = n + 1
      BY <3>1, <3>2, <1>1
    <3>3. CASE i # n + 1
      <4>1. i \in 1 .. n
        BY <3>3, <1>1
      <4> QED BY <3>1, <4>1, <1>1 DEF Elements, n
    <3> QED BY <3>2, <3>3
  <2>2. v \in Elements(t)
    <3>1. n + 1 \in 1 .. Len(t)
      BY <1>1
    <3> QED BY <3>1, <1>1 DEF Elements
  <2>3. ASSUME NEW x \in Elements(s) PROVE x \in Elements(t)
    <3>1. PICK i \in 1 .. n : x = s[i]
      BY DEF Elements, n
    <3>2. i \in 1 .. Len(t)
      BY <1>1, <3>1
    <3> QED BY <3>1, <3>2, <1>1 DEF Elements
  <2> QED BY <2>1, <2>2, <2>3
<1>10. ListOf(t, nxt, from)
  BY <1>1, <1>6, <1>7, <1>8 DEF ListOf
<1> QED BY <1>1, <1>9, <1>10 DEF t, n

\* The cells of a list that has lost its cell k.
LEMMA WithoutIs ==
  ASSUME NEW S, NEW s \in Seq(S), NEW k \in 1 .. Len(s)
  PROVE  LET t == Without(s, k) IN
         /\ t \in Seq(S) /\ Len(t) = Len(s) - 1
         /\ \A i \in 1 .. k - 1 : i \in 1 .. Len(t) /\ t[i] = s[i]
         /\ \A i \in k .. Len(t) : i \in 1 .. Len(t) /\ t[i] = s[i + 1]
<1> DEFINE n == Len(s)
           t == Without(s, k)
<1>1. n \in Nat /\ n - 1 \in Nat /\ k \in Nat /\ 1 <= k /\ k <= n
  OBVIOUS
<1>2. \A i \in 1 .. n : s[i] \in S
  OBVIOUS
<1> HIDE DEF n
<1>3. t = [i \in 1 .. n - 1 |-> IF i < k THEN s[i] ELSE s[i + 1]]
  BY DEF Without, n
<1> HIDE DEF t
<1>4. ASSUME NEW i \in 1 .. n - 1 PROVE (IF i < k THEN s[i] ELSE s[i + 1]) \in S
  <2>1. i \in 1 .. n /\ i + 1 \in 1 .. n
    BY <1>1
  <2> QED BY <2>1, <1>2
<1>5. t \in [1 .. n - 1 -> S]
  BY <1>3, <1>4
<1>6. t \in Seq(S) /\ Len(t) = n - 1
  BY <1>1, <1>5
<1>7. \A i \in 1 .. k - 1 : i \in 1 .. n - 1 /\ t[i] = s[i]
  BY <1>1, <1>3
<1>8. \A i \in k .. n - 1 : i \in 1 .. n - 1 /\ t[i] = s[i + 1]
  BY <1>1, <1>3
<1> QED BY <1>6, <1>7, <1>8 DEF t, n

\* A cell is unlinked when the one before it, or the start, names the one
\* behind it.
LEMMA ListWithout ==
  ASSUME NEW S, NEW s \in Seq(S), NEW next, NEW start, ListOf(s, next, start),
         NEW k \in 1 .. Len(s), NEW nxt,
         k # 1 => nxt[s[k - 1]] = next[s[k]],
         \A i \in 1 .. Len(s) : (i # k /\ i # k - 1) => nxt[s[i]] = next[s[i]],
         NEW from, from = IF k = 1 THEN next[start] ELSE start
  PROVE  /\ ListOf(Without(s, k), nxt, from)
         /\ Elements(Without(s, k)) = Elements(s) \ {s[k]}
<1> DEFINE n == Len(s)
           t == Without(s, k)
<1>1. n \in Nat /\ k \in Nat /\ 1 <= k /\ k <= n
  OBVIOUS
<1>2. /\ t \in Seq(S) /\ Len(t) = n - 1
      /\ \A i \in 1 .. k - 1 : i \in 1 .. Len(t) /\ t[i] = s[i]
      /\ \A i \in k .. Len(t) : i \in 1 .. Len(t) /\ t[i] = s[i + 1]
  BY WithoutIs
<1>3. \A i, j \in 1 .. n : s[i] = s[j] => i = j
  BY DEF ListOf, Distinct
<1>4. \A i \in 1 .. n : next[s[i]] = IF i = n THEN None ELSE s[i + 1]
  BY DEF ListOf
<1>5. s # <<>> /\ start = s[1]
  BY <1>1, NoCells DEF ListOf
<1>6. t = <<>> <=> n = 1
  <2> HIDE DEF t, n
  <2> QED BY <1>1, <1>2, NoCells
<1>7. /\ k # 1 => nxt[s[k - 1]] = next[s[k]]
      /\ \A i \in 1 .. n : (i # k /\ i # k - 1) => nxt[s[i]] = next[s[i]]
  OBVIOUS
<1> HIDE DEF t, n
<1>8. ASSUME NEW i \in 1 .. n, i # k
      PROVE  \E j \in 1 .. Len(t) : t[j] = s[i] /\ j = IF i < k THEN i ELSE i - 1
  <2>1. CASE i < k
    <3>1. i \in 1 .. k - 1
      BY <2>1, <1>1
    <3> QED BY <3>1, <2>1, <1>2
  <2>2. CASE ~(i < k)
    <3> DEFINE j == i - 1
    <3>1. j \in k .. Len(t) /\ j + 1 = i
      BY <2>2, <1>1, <1>2, <1>8
    <3> HIDE DEF j
    <3>2. j \in 1 .. Len(t) /\ t[j] = s[i]
      BY <3>1, <1>2
    <3> QED BY <3>2, <2>2 DEF j
  <2> QED BY <2>1, <2>2
<1>9. ASSUME NEW j \in 1 .. Len(t)
      PROVE  \E i \in 1 .. n : t[j] = s[i] /\ i # k /\ i = IF j < k THEN j ELSE j + 1
  <2>1. CASE j < k
    <3>1. j \in 1 .. k - 1 /\ j \in 1 .. n
      BY <2>1, <1>1
    <3> QED BY <3>1, <2>1, <1>2
  <2>2. CASE ~(j < k)
    <3>1. j \in k .. Len(t) /\ j + 1 \in 1 .. n /\ j + 1 # k
      BY <2>2, <1>1, <1>2
    <3> QED BY <3>1, <2>2, <1>2
  <2> QED BY <2>1, <2>2
<1>10. Elements(t) = Elements(s) \ {s[k]}
  <2>1. ASSUME NEW x \in Elements(t) PROVE x \in Elements(s) \ {s[k]}
    <3>1. PICK j \in 1 .. Len(t) : x = t[j]
      BY DEF Elements
    <3>2. PICK i \in 1 .. n : t[j] = s[i] /\ i # k
      BY <1>9
    <3>3. s[i] # s[k]
      BY <3>2, <1>1, <1>3
    <3> QED BY <3>1, <3>2, <3>3 DEF Elements, n
  <2>2. ASSUME NEW x \in Elements(s) \ {s[k]} PROVE x \in Elements(t)
    <3>1. PICK i \in 1 .. n : x = s[i]
      BY DEF Elements, n
    <3>2. PICK j \in 1 .. Len(t) : t[j] = s[i]
      BY <3>1, <2>2, <1>8
    <3> QED BY <3>1, <3>2 DEF Elements
  <2> QED BY <2>1, <2>2
<1>11. Distinct(t)
  <2> SUFFICES ASSUME NEW j \in 1 .. Len(t), NEW m \in 1 .. Len(t), t[j] = t[m]
               PROVE  j = m
    BY DEF Distinct
  <2>1. PICK i \in 1 .. n : t[j] = s[i] /\ i # k /\ i = IF j < k THEN j ELSE j + 1
    BY <1>9
  <2>2. PICK l \in 1 .. n : t[m] = s[l] /\ l # k /\ l = IF m < k THEN m ELSE m + 1
    BY <1>9
  <2>3. i = l
    <3>1. s[i] = s[l]
      BY <2>1, <2>2, Zenon
    <3> QED BY <3>1, <1>3, Zenon
  <2>4. j \in Nat /\ m \in Nat
    OBVIOUS
  <2> QED BY <2>1, <2>2, <2>3, <2>4, <1>1
<1>12. from = IF t = <<>> THEN None ELSE t[1]
  <2>1. CASE k # 1
    <3>1. 1 \in 1 .. k - 1 /\ n # 1
      BY <2>1, <1>1
    <3> QED BY <3>1, <2>1, <1>2, <1>5, <1>6
  <2>2. CASE k = 1
    <3>1. from = IF n = 1 THEN None ELSE s[2]
      <4>1. 1 \in 1 .. n /\ 1 + 1 = 2
        BY <1>1
      <4> QED BY <4>1, <2>2, <1>4, <1>5
    <3>2. n # 1 => t[1] = s[2]
      <4> SUFFICES ASSUME n # 1 PROVE t[1] = s[2]
        OBVIOUS
      <4>1. 1 \in k .. Len(t) /\ 1 + 1 = 2
        BY <2>2, <1>1, <1>2
      <4> QED BY <4>1, <1>2
    <3> QED BY <3>1, <3>2, <1>6
  <2> QED BY <2>1, <2>2
<1>13. ASSUME NEW j \in 1 .. Len(t)
       PROVE  nxt[t[j]] = IF j = Len(t) THEN None ELSE t[j + 1]
  <2>0. j \in Nat /\ 1 <= j /\ j <= n - 1
    BY <1>1, <1>2
  <2>1. CASE j < k - 1
    <3>1. /\ j \in 1 .. k - 1 /\ j + 1 \in 1 .. k - 1 /\ j \in 1 .. n
          /\ j # k /\ j # k - 1 /\ j # n /\ j # Len(t)
      BY <2>0, <2>1, <1>1, <1>2
    <3>2. t[j] = s[j] /\ t[j + 1] = s[j + 1]
      BY <3>1, <1>2
    <3>3. nxt[s[j]] = next[s[j]]
      BY <3>1, <1>7
    <3> QED BY <3>1, <3>2, <3>3, <1>4
  <2>2. CASE j = k - 1
    <3>1. j \in 1 .. k - 1 /\ k # 1 /\ k \in 1 .. n /\ j + 1 = k
      BY <2>0, <2>2, <1>1
    <3>2. t[j] = s[k - 1] /\ nxt[t[j]] = next[s[k]]
      BY <3>1, <2>2, <1>2, <1>7
    <3>3. next[s[k]] = IF k = n THEN None ELSE s[k + 1]
      BY <3>1, <1>4
    <3>4. k = n <=> j = Len(t)
      BY <2>2, <1>1, <1>2
    <3>5. k # n => t[j + 1] = s[k + 1]
      <4> SUFFICES ASSUME k # n PROVE t[k] = s[k + 1]
        BY <3>1
      <4>1. k \in k .. Len(t)
        BY <1>1, <1>2
      <4> QED BY <4>1, <1>2
    <3> QED BY <3>2, <3>3, <3>4, <3>5
  <2>3. CASE j >= k
    <3> DEFINE i == j + 1
    <3>1. /\ j \in k .. Len(t) /\ i \in 1 .. n /\ i # k /\ i # k - 1
          /\ (i = n <=> j = Len(t)) /\ i \in Nat
      BY <2>0, <2>3, <1>1, <1>2
    <3>2. t[j] = s[i]
      BY <3>1, <1>2
    <3>3. i # n => t[j + 1] = s[i + 1]
      <4> SUFFICES ASSUME i # n PROVE t[i] = s[i + 1]
        OBVIOUS
      <4>1. i \in k .. Len(t)
        BY <3>1, <2>0, <2>3, <1>1, <1>2
      <4> QED BY <4>1, <1>2
    <3> HIDE DEF i
    <3>4. nxt[s[i]] = next[s[i]] /\ next[s[i]] = IF i = n THEN None ELSE s[i + 1]
      BY <3>1, <1>4, <1>7
    <3> QED BY <3>1, <3>2, <3>3, <3>4
  <2> QED BY <2>0, <2>1, <2>2, <2>3, <1>1
<1> QED BY <1>10, <1>11, <1>12, <1>13 DEF ListOf, t

\* A list is the same while the links of its own cells are.
LEMMA ListSame ==
  ASSUME NEW S, NEW s \in Seq(S), NEW next, NEW start, ListOf(s, next, start),
         NEW nxt, \A i \in 1 .. Len(s) : nxt[s[i]] = next[s[i]]
  PROVE  ListOf(s, nxt, start)
  BY DEF ListOf

\* A list that holds no voice twice is no longer than there are voices.
LEMMA ListLength ==
  ASSUME NEW s \in Seq(Voice), Distinct(s)
  PROVE  Len(s) \in 0 .. Voices
<1>1. Len(s) \in Nat /\ s \in [1 .. Len(s) -> Voice] /\ Voices \in Nat
  BY Sizes
<1>2. IsFiniteSet(Voice) /\ Cardinality(Voice) = Voices
  BY Sizes, FS_Interval DEF Voice
<1>3. IsFiniteSet(1 .. Len(s)) /\ Cardinality(1 .. Len(s)) = Len(s)
  BY <1>1, FS_Interval
<1>4. ASSUME Voices < Len(s) PROVE FALSE
  <2>1. PICK i, j \in 1 .. Len(s) : i # j /\ s[i] = s[j]
    BY <1>1, <1>2, <1>3, <1>4, FS_PigeonHole
  <2> QED BY <2>1 DEF Distinct
<1> QED BY <1>1, <1>4

\* The walk of the model along the links reads the list.
LEMMA WalkIs ==
  ASSUME NEW s \in Seq(Voice), NEW next, NEW start, ListOf(s, next, start)
  PROVE  Walk(next, start) = s
<1> DEFINE n == Len(s)
           Steps(f) == [k \in 0 .. Voices |->
                          IF k = 0 THEN start
                          ELSE LET i == f[k - 1] IN
                               IF i = None THEN None ELSE next[i]]
           at == CHOOSE f : f = Steps(f)
           g == [k \in 0 .. Voices |-> IF k < n THEN s[k + 1] ELSE None]
           cells == {k \in 0 .. Voices - 1 : at[k] # None}
<1>1. Voices \in Nat /\ Voices # 0 /\ n \in Nat /\ n <= Voices
  BY Sizes, ListLength DEF ListOf
<1>2. \A i \in 1 .. n : s[i] \in Voice /\ s[i] # None
  BY NoneIsNone
<1>3. \A i \in 1 .. n : next[s[i]] = IF i = n THEN None ELSE s[i + 1]
  BY DEF ListOf
<1>4. start = IF n = 0 THEN None ELSE s[1]
  BY NoCells DEF ListOf
<1>5. Walk(next, start) = [k \in 1 .. Cardinality(cells) |-> at[k - 1]]
  BY DEF Walk
<1>6. s \in [1 .. n -> Voice]
  OBVIOUS
<1> HIDE DEF n
<1>8. ASSUME NEW k \in 1 .. Voices
      PROVE  g[k] = IF g[k - 1] = None THEN None ELSE next[g[k - 1]]
  <2>1. k - 1 \in 0 .. Voices /\ k \in 0 .. Voices /\ (k - 1) + 1 = k
    BY <1>1
  <2>2. CASE k - 1 < n
    <3>1. g[k - 1] = s[k] /\ k \in 1 .. n
      BY <2>1, <2>2, <1>1
    <3>2. next[s[k]] = IF k = n THEN None ELSE s[k + 1]
      BY <3>1, <1>3
    <3>3. g[k] = IF k < n THEN s[k + 1] ELSE None
      BY <2>1
    <3>4. k < n <=> k # n
      BY <3>1, <1>1
    <3> QED BY <3>1, <3>2, <3>3, <3>4, <1>2
  <2>3. CASE ~(k - 1 < n)
    <3>1. g[k - 1] = None /\ g[k] = None
      BY <2>1, <2>3, <1>1
    <3> QED BY <3>1
  <2> QED BY <2>2, <2>3
<1>9. g[0] = start
  BY <1>1, <1>4
<1>10. g = Steps(g)
  <2>1. ASSUME NEW k \in 0 .. Voices PROVE g[k] = Steps(g)[k]
    <3>1. CASE k = 0
      BY <3>1, <1>9
    <3>2. CASE k # 0
      <4>1. k \in 1 .. Voices
        BY <3>2, <1>1
      <4> QED BY <4>1, <3>2, <1>8
    <3> QED BY <3>1, <3>2
  <2> QED BY <2>1
<1>11. at = Steps(at)
  BY <1>10
<1> HIDE DEF at, g
<1>12. at[0] = start /\ \A k \in 1 .. Voices :
                          at[k] = IF at[k - 1] = None THEN None ELSE next[at[k - 1]]
  <2>1. 0 \in 0 .. Voices
    BY <1>1
  <2>2. at[0] = start
    BY <2>1, <1>11
  <2>3. ASSUME NEW k \in 1 .. Voices
        PROVE  at[k] = IF at[k - 1] = None THEN None ELSE next[at[k - 1]]
    <3>1. k \in 0 .. Voices /\ k # 0
      BY <1>1
    <3> QED BY <3>1, <1>11
  <2> QED BY <2>2, <2>3
<1>13. \A k \in 0 .. Voices : at[k] = g[k]
  <2> DEFINE S == {k \in 0 .. Voices : at[k] = g[k]}
  <2>1. 0 \in S
    BY <1>1, <1>9, <1>12
  <2>2. \A k \in 1 .. Voices : k - 1 \in S => k \in S
    BY <1>1, <1>8, <1>12
  <2> HIDE DEF S
  <2>3. \A k \in 0 .. Voices : k \in S
    BY <2>1, <2>2, <1>1, UpTo
  <2> QED BY <2>3 DEF S
<1>14. cells = 0 .. n - 1
  <2>1. ASSUME NEW k \in 0 .. Voices - 1 PROVE at[k] # None <=> k \in 0 .. n - 1
    <3>1. k \in 0 .. Voices /\ at[k] = IF k < n THEN s[k + 1] ELSE None
      BY <1>1, <1>13 DEF g
    <3>2. CASE k < n
      <4>1. k + 1 \in 1 .. n
        BY <1>1, <3>2
      <4> QED BY <3>1, <3>2, <4>1, <1>1, <1>2
    <3>3. CASE ~(k < n)
      BY <3>1, <3>3, <1>1
    <3> QED BY <3>2, <3>3
  <2>2. 0 .. n - 1 \subseteq 0 .. Voices - 1
    BY <1>1
  <2> QED BY <2>1, <2>2
<1>15. Cardinality(cells) = n
  <2>1. Cardinality(0 .. n - 1) = n
    BY <1>1, FS_Interval
  <2> QED BY <2>1, <1>14
<1>16. ASSUME NEW k \in 1 .. n PROVE at[k - 1] = s[k]
  <2>1. k - 1 \in 0 .. Voices /\ k - 1 < n /\ (k - 1) + 1 = k
    BY <1>1
  <2> QED BY <2>1, <1>13 DEF g
<1> QED BY <1>5, <1>6, <1>15, <1>16

-----------------------------------------------------------------------------
\* A table with a cell for each voice, descriptor or part.
VoiceTo(T) == [Voice -> T]
DescTo(T)  == [Desc -> T]
PartTo(T)  == [Part -> T]

\* The fields of the pool and their ranges.
Pools ==
  [freeHead : OrNone(Voice), freeTail : OrNone(Voice), freeCount : Int,
   freeNext : VoiceTo(OrNone(Voice)), free : VoiceTo(BOOLEAN),
   part : VoiceTo(OrNone(Part)), desc : VoiceTo(OrNone(Desc)),
   gateOff : VoiceTo(BOOLEAN),
   toTail : VoiceTo(OrNone(Voice)), toHead : VoiceTo(OrNone(Voice)),
   head : DescTo(OrNone(Voice)), tail : DescTo(OrNone(Voice)),
   descFree : OrNone(Desc), descPrev : DescTo(OrNone(Desc)),
   descNext : DescTo(OrNone(Desc)), state : DescTo({"free", "down", "up"}),
   held : DescTo(BOOLEAN), again : DescTo(BOOLEAN),
   key : DescTo(OrNone(Keys)), canOff : DescTo(BOOLEAN),
   first : PartTo(OrNone(Desc)), last : PartTo(OrNone(Desc)),
   count : PartTo(Int), current : PartTo(OrNone(Desc)),
   hold : PartTo(BOOLEAN), table : PartTo(Seq(OrNone(Keys))),
   short : Int, fresh : Seq(Voice)]

(* What an operation leaves alone. *)
SameIdle(q, p) == /\ q.freeHead = p.freeHead /\ q.freeNext = p.freeNext
                  /\ q.freeTail = p.freeTail /\ q.freeCount = p.freeCount
SameVoices(q, p) == /\ q.tail = p.tail /\ q.head = p.head
                    /\ q.toTail = p.toTail /\ q.toHead = p.toHead
                    /\ q.desc = p.desc /\ q.part = p.part
SameNotes(q, p) == /\ q.descNext = p.descNext /\ q.descPrev = p.descPrev
                   /\ q.first = p.first /\ q.last = p.last
                   /\ q.descFree = p.descFree /\ q.state = p.state
                   /\ q.key = p.key
SameMarks(q, p) == /\ q.gateOff = p.gateOff /\ q.held = p.held
                   /\ q.hold = p.hold /\ q.table = p.table
                   /\ q.fresh = p.fresh /\ q.short = p.short
SameCount(q, p) == q.count = p.count /\ q.current = p.current

\* Writing the idle list stays within the ranges.
LEMMA FreeCells ==
  ASSUME NEW p \in Pools, NEW a \in OrNone(Voice), NEW b \in OrNone(Voice),
         NEW x \in VoiceTo(OrNone(Voice)), NEW y \in VoiceTo(BOOLEAN), NEW n \in Int
  PROVE  [p EXCEPT !.freeHead = a, !.freeNext = x, !.freeTail = b,
                   !.free = y, !.freeCount = n] \in Pools
  BY Zenon DEF Pools

\* Writing the voices of a note stays within the ranges.
LEMMA NoteCells ==
  ASSUME NEW p \in Pools, NEW a \in DescTo(OrNone(Voice)),
         NEW b \in DescTo(OrNone(Voice)), NEW x \in VoiceTo(OrNone(Voice)),
         NEW y \in VoiceTo(OrNone(Voice))
  PROVE  [p EXCEPT !.head = a, !.tail = b, !.toHead = x, !.toTail = y] \in Pools
  BY Zenon DEF Pools

\* Writing the two ends and the count of the idle list stays within the ranges.
LEMMA EndCells ==
  ASSUME NEW p \in Pools, NEW a \in OrNone(Voice), NEW b \in OrNone(Voice),
         NEW n \in Int
  PROVE  [p EXCEPT !.freeHead = a, !.freeTail = b, !.freeCount = n] \in Pools
  BY Zenon DEF Pools

\* f is the idle list: head, tail, links and count say so.
IdleOK(p, f) ==
  /\ f \in Seq(Voice) /\ ListOf(f, p.freeNext, p.freeHead)
  /\ p.freeTail = IF f = <<>> THEN None ELSE f[Len(f)]
  /\ p.freeCount = Len(f)

\* A note has its tail and its head, linked both ways and naming note and part;
\* the descriptors of X are opened and have no voice yet. I are the idle
\* voices, home the part of each note.
VoicesOK(p, I, home, X) ==
  /\ \A d \in Desc : (home[d] = None \/ d \in X) =>
                       p.tail[d] = None /\ p.head[d] = None
  /\ \A d \in Desc : ~(home[d] = None \/ d \in X) =>
       LET t == p.tail[d]  h == p.head[d] IN
       /\ t \in Voice \ I /\ h \in Voice \ I
       /\ p.toTail[t] = None /\ p.toHead[h] = None
       /\ h # t => p.toHead[t] = h /\ p.toTail[h] = t
       /\ p.desc[t] = d /\ p.desc[h] = d
       /\ p.part[t] = home[d] /\ p.part[h] = home[d]
  /\ \A v \in Voice \ I : /\ p.desc[v] \in Desc \ X /\ home[p.desc[v]] # None
                          /\ v \in {p.tail[p.desc[v]], p.head[p.desc[v]]}

(* What H1 writes, one field at a time. *)
H1Head(p, v, d) == IF p.toTail[v] # None THEN [p.head EXCEPT ![d] = p.toTail[v]]
                   ELSE IF p.toHead[v] # None THEN p.head
                   ELSE [p.head EXCEPT ![d] = None]
H1Tail(p, v, d) == IF p.toTail[v] # None THEN p.tail
                   ELSE [p.tail EXCEPT ![d] = p.toHead[v]]
H1ToHead(p, v) == IF p.toTail[v] # None
                  THEN [p.toHead EXCEPT ![p.toTail[v]] = None]
                  ELSE IF p.toHead[v] # None THEN [p.toHead EXCEPT ![v] = None]
                  ELSE p.toHead
H1ToTail(p, v) == IF p.toTail[v] # None THEN [p.toTail EXCEPT ![v] = None]
                  ELSE IF p.toHead[v] # None
                  THEN [p.toTail EXCEPT ![p.toHead[v]] = None]
                  ELSE p.toTail

\* H1 is these four tables.
LEMMA H1Shape ==
  ASSUME NEW p \in Pools, NEW v \in Voice, NEW d \in Desc
  PROVE  /\ H1Head(p, v, d) \in DescTo(OrNone(Voice))
         /\ H1Tail(p, v, d) \in DescTo(OrNone(Voice))
         /\ H1ToHead(p, v) \in VoiceTo(OrNone(Voice))
         /\ H1ToTail(p, v) \in VoiceTo(OrNone(Voice))
         /\ H1(p, v, d) = [p EXCEPT !.head = H1Head(p, v, d),
                                    !.tail = H1Tail(p, v, d),
                                    !.toHead = H1ToHead(p, v),
                                    !.toTail = H1ToTail(p, v)]
<1>0. /\ p.head \in [Desc -> OrNone(Voice)] /\ p.tail \in [Desc -> OrNone(Voice)]
      /\ p.toHead \in [Voice -> OrNone(Voice)]
      /\ p.toTail \in [Voice -> OrNone(Voice)]
  BY DEF Pools, VoiceTo, DescTo
<1>1. p.toTail[v] \in OrNone(Voice) /\ p.toHead[v] \in OrNone(Voice)
      /\ None \in OrNone(Voice)
  BY <1>0 DEF OrNone
<1>2. CASE p.toTail[v] # None
  BY <1>0, <1>1, <1>2 DEF H1, H1Head, H1Tail, H1ToHead, H1ToTail, Pools, VoiceTo, DescTo
<1>3. CASE p.toTail[v] = None /\ p.toHead[v] # None
  BY <1>0, <1>1, <1>3, ZenonT(60) DEF H1, H1Head, H1Tail, H1ToHead, H1ToTail, Pools, VoiceTo, DescTo
<1>4. CASE p.toTail[v] = None /\ p.toHead[v] = None
  BY <1>0, <1>1, <1>4 DEF H1, H1Head, H1Tail, H1ToHead, H1ToTail, Pools, VoiceTo, DescTo
<1> QED BY <1>2, <1>3, <1>4

\* What H1 leaves: the voice belongs to no note, and its note may have none.
H1Done(q, p, v, d, I, home) ==
  /\ d \in Desc /\ q \in Pools
  /\ VoicesOK(q, I \cup {v}, home, IF q.head[d] = None THEN {d} ELSE {})
  /\ SameIdle(q, p) /\ SameNotes(q, p) /\ SameMarks(q, p) /\ SameCount(q, p)
  /\ q.free = p.free /\ q.part = p.part /\ q.desc = p.desc
  /\ \A c \in Desc \ {d} : q.tail[c] = p.tail[c]

(* H1 takes voice v out of the voices of its note: the other voice of the  *)
(* note, if there is one, is its only voice then.                          *)
LEMMA H1Keeps ==
  ASSUME NEW p \in Pools, NEW I \in SUBSET Voice, NEW home \in [Desc -> OrNone(Part)],
         VoicesOK(p, I, home, {}), NEW v \in Voice \ I, NEW d, d = p.desc[v],
         NEW q, q = H1(p, v, d)
  PROVE  H1Done(q, p, v, d, I, home)
<1> DEFINE t == p.tail[d]
           h == p.head[d]
<1>1. d \in Desc /\ home[d] # None /\ v \in {t, h}
  BY DEF VoicesOK
<1>2. /\ t \in Voice \ I /\ h \in Voice \ I
      /\ p.toTail[t] = None /\ p.toHead[h] = None
      /\ h # t => p.toHead[t] = h /\ p.toTail[h] = t
      /\ p.desc[t] = d /\ p.desc[h] = d
      /\ p.part[t] = home[d] /\ p.part[h] = home[d]
  BY <1>1 DEF VoicesOK
<1>3. None \notin Voice /\ None \notin Desc
  BY NoneIsNone
<1>4. /\ q = [p EXCEPT !.head = H1Head(p, v, d), !.tail = H1Tail(p, v, d),
                       !.toHead = H1ToHead(p, v), !.toTail = H1ToTail(p, v)]
      /\ H1Head(p, v, d) \in DescTo(OrNone(Voice))
      /\ H1Tail(p, v, d) \in DescTo(OrNone(Voice))
      /\ H1ToHead(p, v) \in VoiceTo(OrNone(Voice))
      /\ H1ToTail(p, v) \in VoiceTo(OrNone(Voice))
  BY <1>1, H1Shape
<1>5. /\ q \in Pools
      /\ q.head = H1Head(p, v, d) /\ q.tail = H1Tail(p, v, d)
      /\ q.toHead = H1ToHead(p, v) /\ q.toTail = H1ToTail(p, v)
      /\ q.desc = p.desc /\ q.part = p.part
  <2>0. [p EXCEPT !.head = H1Head(p, v, d), !.tail = H1Tail(p, v, d),
                  !.toHead = H1ToHead(p, v), !.toTail = H1ToTail(p, v)] \in Pools
    BY <1>4, NoteCells, Zenon
  <2>1. q \in Pools
    BY <1>4, <2>0, Zenon
  <2>2. /\ q.head = H1Head(p, v, d) /\ q.tail = H1Tail(p, v, d)
        /\ q.toHead = H1ToHead(p, v) /\ q.toTail = H1ToTail(p, v)
        /\ q.desc = p.desc /\ q.part = p.part
    BY <1>4 DEF Pools
  <2> QED BY <2>1, <2>2
<1>6. /\ p.head \in [Desc -> OrNone(Voice)] /\ p.tail \in [Desc -> OrNone(Voice)]
      /\ p.toHead \in [Voice -> OrNone(Voice)]
      /\ p.toTail \in [Voice -> OrNone(Voice)]
  BY DEF Pools, VoiceTo, DescTo
<1> DEFINE X == IF q.head[d] = None THEN {d} ELSE {}
<1>7. /\ h # t => /\ q.tail[d] = q.head[d]
                  /\ q.head[d] \in {t, h} \ {v}
                  /\ q.toHead[q.head[d]] = None /\ q.toTail[q.head[d]] = None
      /\ h = t => q.head[d] = None /\ q.tail[d] = None
  <2>1. CASE h = t
    BY <1>1, <1>2, <1>3, <1>5, <1>6, <2>1 DEF H1Head, H1Tail
  <2>2. CASE h # t /\ v = h
    <3>1. p.toTail[v] = t /\ t # None
      BY <1>2, <1>3, <2>2
    <3>2. q.head = [p.head EXCEPT ![d] = t] /\ q.tail = p.tail
          /\ q.toHead = [p.toHead EXCEPT ![t] = None]
          /\ q.toTail = [p.toTail EXCEPT ![v] = None]
      BY <3>1, <1>5 DEF H1Head, H1Tail, H1ToHead, H1ToTail
    <3>3. t \in Voice /\ h \in Voice /\ p.toTail[t] = None /\ p.tail[d] = t
      BY <1>2
    <3> HIDE DEF t, h
    <3>4. q.head[d] = t /\ q.tail[d] = t /\ q.toHead[t] = None
      BY <3>2, <3>3, <1>6, <1>1
    <3>5. q.toTail[t] = None
      BY <3>2, <3>3, <1>6
    <3> QED BY <3>4, <3>5, <2>2
  <2>3. CASE h # t /\ v = t
    <3>1. p.toTail[v] = None /\ p.toHead[v] = h /\ h # None
      BY <1>2, <1>3, <2>3
    <3>2. q.head = p.head /\ q.tail = [p.tail EXCEPT ![d] = h]
          /\ q.toHead = [p.toHead EXCEPT ![v] = None]
          /\ q.toTail = [p.toTail EXCEPT ![h] = None]
      BY <3>1, <1>5 DEF H1Head, H1Tail, H1ToHead, H1ToTail
    <3>3. t \in Voice /\ h \in Voice /\ p.toHead[h] = None /\ p.head[d] = h
      BY <1>2
    <3> HIDE DEF t, h
    <3>4. q.head[d] = h /\ q.tail[d] = h /\ q.toTail[h] = None
      BY <3>2, <3>3, <1>6, <1>1
    <3>5. q.toHead[h] = None
      BY <3>2, <3>3, <1>6
    <3> QED BY <3>4, <3>5, <2>3
  <2> QED BY <2>1, <2>2, <2>3, <1>1
<1>8. \A u \in Voice : u \notin {t, h} => q.toHead[u] = p.toHead[u] /\ q.toTail[u] = p.toTail[u]
  BY <1>1, <1>2, <1>5, <1>6, SMTT(30) DEF H1ToHead, H1ToTail
<1>9. \A c \in Desc \ {d} : q.tail[c] = p.tail[c] /\ q.head[c] = p.head[c]
  BY <1>1, <1>5, <1>6 DEF H1Head, H1Tail
<1> HIDE DEF t, h
<1>10. VoicesOK(q, I \cup {v}, home, X)
  <2>1. ASSUME NEW c \in Desc, home[c] = None \/ c \in X
        PROVE  q.tail[c] = None /\ q.head[c] = None
    <3>1. CASE c = d
      BY <3>1, <2>1, <1>1, <1>2, <1>3, <1>7
    <3>2. CASE c # d
      BY <3>2, <2>1, <1>9 DEF VoicesOK
    <3> QED BY <3>1, <3>2
  <2>2. ASSUME NEW c \in Desc, ~(home[c] = None \/ c \in X)
        PROVE  LET t2 == q.tail[c]  h2 == q.head[c] IN
               /\ t2 \in Voice \ (I \cup {v}) /\ h2 \in Voice \ (I \cup {v})
               /\ q.toTail[t2] = None /\ q.toHead[h2] = None
               /\ h2 # t2 => q.toHead[t2] = h2 /\ q.toTail[h2] = t2
               /\ q.desc[t2] = c /\ q.desc[h2] = c
               /\ q.part[t2] = home[c] /\ q.part[h2] = home[c]
    <3>1. CASE c = d
      <4>1. h # t
        BY <3>1, <2>2, <1>7
      <4> QED BY <4>1, <3>1, <1>2, <1>5, <1>7
    <3>2. CASE c # d
      <4>1. LET t2 == p.tail[c]  h2 == p.head[c] IN
            /\ t2 \in Voice \ I /\ h2 \in Voice \ I
            /\ p.toTail[t2] = None /\ p.toHead[h2] = None
            /\ h2 # t2 => p.toHead[t2] = h2 /\ p.toTail[h2] = t2
            /\ p.desc[t2] = c /\ p.desc[h2] = c
            /\ p.part[t2] = home[c] /\ p.part[h2] = home[c]
        BY <2>2 DEF VoicesOK
      <4>2. p.tail[c] \notin {t, h, v} /\ p.head[c] \notin {t, h, v}
        BY <4>1, <3>2, <1>1, <1>2
      <4> QED BY <4>1, <4>2, <3>2, <1>5, <1>8, <1>9
    <3> QED BY <3>1, <3>2
  <2>3. ASSUME NEW u \in Voice \ (I \cup {v})
        PROVE  /\ q.desc[u] \in Desc \ X /\ home[q.desc[u]] # None
               /\ u \in {q.tail[q.desc[u]], q.head[q.desc[u]]}
    <3>1. /\ p.desc[u] \in Desc /\ home[p.desc[u]] # None
          /\ u \in {p.tail[p.desc[u]], p.head[p.desc[u]]}
      BY DEF VoicesOK
    <3>2. CASE p.desc[u] = d
      <4>1. h # t /\ u \in {t, h} \ {v}
        BY <3>1, <3>2, <2>3, <1>1 DEF t, h
      <4>2. q.head[d] = u
        BY <4>1, <1>1, <1>7
      <4> QED BY <3>1, <3>2, <4>1, <4>2, <1>3, <1>5
    <3>3. CASE p.desc[u] # d
      BY <3>1, <3>3, <1>5, <1>9
    <3> QED BY <3>2, <3>3
  <2> HIDE DEF X
  <2> QED BY <2>1, <2>2, <2>3 DEF VoicesOK
<1>12. /\ SameIdle(q, p) /\ SameNotes(q, p) /\ SameMarks(q, p) /\ SameCount(q, p)
       /\ q.free = p.free
  BY <1>4 DEF Pools, SameIdle, SameNotes, SameMarks, SameCount
<1> QED BY <1>1, <1>5, <1>9, <1>10, <1>12 DEF H1Done

-----------------------------------------------------------------------------
(* The free list. *)

\* A voice appended to the idle list.
LEMMA AppendFreeKeeps ==
  ASSUME NEW p \in Pools, NEW f, IdleOK(p, f), NEW v \in Voice, v \notin Elements(f),
         NEW q, q = AppendFree(p, v)
  PROVE  /\ q \in Pools /\ IdleOK(q, Append(f, v))
         /\ Elements(Append(f, v)) = Elements(f) \cup {v}
         /\ SameVoices(q, p) /\ SameNotes(q, p) /\ SameMarks(q, p) /\ SameCount(q, p)
         /\ q.free = [p.free EXCEPT ![v] = TRUE] /\ q.freeCount = p.freeCount + 1
<1> DEFINE old == p.freeTail
           from == IF old = None THEN v ELSE p.freeHead
           nxt == IF old = None THEN [p.freeNext EXCEPT ![v] = None]
                  ELSE [p.freeNext EXCEPT ![old] = v, ![v] = None]
<1>1. /\ p.freeHead \in OrNone(Voice) /\ p.freeTail \in OrNone(Voice)
      /\ p.freeNext \in [Voice -> OrNone(Voice)] /\ p.free \in [Voice -> BOOLEAN]
      /\ p.freeCount \in Int
  BY DEF Pools, VoiceTo, DescTo
<1>2. /\ f \in Seq(Voice) /\ ListOf(f, p.freeNext, p.freeHead)
      /\ p.freeTail = IF f = <<>> THEN None ELSE f[Len(f)]
      /\ p.freeCount = Len(f)
  BY DEF IdleOK
<1>3. None \notin Voice /\ None \in OrNone(Voice) /\ v \in OrNone(Voice)
  BY NoneIsNone DEF OrNone
<1>4. Len(f) \in Nat /\ (f = <<>> <=> Len(f) = 0)
  BY <1>2, NoCells
<1>5. \A i \in 1 .. Len(f) : f[i] \in Voice /\ f[i] # v
  BY <1>2 DEF Elements
<1>6. old = None <=> f = <<>>
  BY <1>2, <1>3, <1>4, <1>5
<1>7. nxt \in VoiceTo(OrNone(Voice)) /\ from \in OrNone(Voice)
  BY <1>1, <1>3 DEF VoiceTo
<1>8. q = [p EXCEPT !.freeHead = from, !.freeNext = nxt, !.freeTail = v,
                    !.free = [p.free EXCEPT ![v] = TRUE], !.freeCount = p.freeCount + 1]
  <2>1. CASE old = None
    BY <2>1 DEF AppendFree, Pools
  <2>2. CASE old # None
    BY <2>2 DEF AppendFree, Pools
  <2> QED BY <2>1, <2>2
<1>9. nxt[v] = None /\ (f # <<>> => nxt[f[Len(f)]] = v)
  <2>1. nxt[v] = None
    BY <1>1
  <2>2. CASE f # <<>>
    <3>1. old = f[Len(f)] /\ old \in Voice /\ old # v /\ old # None
      BY <2>2, <1>2, <1>4, <1>5, <1>6
    <3> QED BY <2>1, <3>1, <1>1
  <2> QED BY <2>1, <2>2
<1>10. \A i \in 1 .. Len(f) - 1 : nxt[f[i]] = p.freeNext[f[i]]
  <2> SUFFICES ASSUME NEW i \in 1 .. Len(f) - 1 PROVE nxt[f[i]] = p.freeNext[f[i]]
    OBVIOUS
  <2>1. i \in 1 .. Len(f) /\ Len(f) \in 1 .. Len(f) /\ i # Len(f) /\ f # <<>>
    BY <1>4
  <2>2. f[i] # f[Len(f)]
    BY <2>1, <1>2 DEF ListOf, Distinct
  <2>3. f[i] # v /\ f[i] # old /\ f[i] \in Voice
    BY <2>1, <2>2, <1>2, <1>5
  <2> QED BY <2>3, <1>1
<1>11. from = IF f = <<>> THEN v ELSE p.freeHead
  BY <1>6
<1> HIDE DEF old, nxt, from
<1>12. /\ Append(f, v) \in Seq(Voice) /\ ListOf(Append(f, v), nxt, from)
       /\ Elements(Append(f, v)) = Elements(f) \cup {v}
       /\ Len(Append(f, v)) = Len(f) + 1
  BY <1>2, <1>9, <1>10, <1>11, ListAppend
<1>13. /\ q \in Pools /\ q.freeHead = from /\ q.freeNext = nxt /\ q.freeTail = v
       /\ q.freeCount = p.freeCount + 1
  <2> DEFINE y == [p.free EXCEPT ![v] = TRUE]
             n == p.freeCount + 1
  <2>1. y \in VoiceTo(BOOLEAN) /\ n \in Int
    BY <1>1 DEF VoiceTo
  <2>2. q = [p EXCEPT !.freeHead = from, !.freeNext = nxt, !.freeTail = v,
                      !.free = y, !.freeCount = n]
    BY <1>8 DEF Pools
  <2> HIDE DEF y, n
  <2>5. [p EXCEPT !.freeHead = from, !.freeNext = nxt, !.freeTail = v,
                  !.free = y, !.freeCount = n] \in Pools
    BY <1>3, <1>7, <2>1, FreeCells, Zenon
  <2>3. q \in Pools
    BY <2>2, <2>5, Zenon
  <2>4. /\ q.freeHead = from /\ q.freeNext = nxt /\ q.freeTail = v
        /\ q.freeCount = n
    BY <2>2 DEF Pools
  <2> QED BY <2>3, <2>4 DEF n
<1>14. Append(f, v) # <<>> /\ Append(f, v)[Len(Append(f, v))] = v
  <2>1. Append(f, v)[Len(f) + 1] = v
    BY <1>2
  <2> QED BY <2>1, <1>4, <1>12, NoCells
<1>15. IdleOK(q, Append(f, v))
  BY <1>2, <1>12, <1>13, <1>14 DEF IdleOK
<1>16. /\ SameVoices(q, p) /\ SameNotes(q, p) /\ SameMarks(q, p) /\ SameCount(q, p)
       /\ q.free = [p.free EXCEPT ![v] = TRUE]
  BY <1>8 DEF Pools, SameVoices, SameNotes, SameMarks, SameCount
<1> QED BY <1>12, <1>13, <1>15, <1>16

\* A voice put in front of the idle list.
LEMMA PushFreeKeeps ==
  ASSUME NEW p \in Pools, NEW f, IdleOK(p, f), NEW v \in Voice, v \notin Elements(f),
         NEW q, q = PushFree(p, v)
  PROVE  /\ q \in Pools /\ IdleOK(q, <<v>> \o f)
         /\ Elements(<<v>> \o f) = Elements(f) \cup {v}
         /\ SameVoices(q, p) /\ SameNotes(q, p) /\ SameMarks(q, p) /\ SameCount(q, p)
         /\ q.free = [p.free EXCEPT ![v] = TRUE] /\ q.freeCount = p.freeCount + 1
<1> DEFINE old == p.freeHead
           nxt == [p.freeNext EXCEPT ![v] = old]
           last == IF old = None THEN v ELSE p.freeTail
<1>1. /\ p.freeHead \in OrNone(Voice) /\ p.freeTail \in OrNone(Voice)
      /\ p.freeNext \in [Voice -> OrNone(Voice)] /\ p.free \in [Voice -> BOOLEAN]
      /\ p.freeCount \in Int
  BY DEF Pools, VoiceTo, DescTo
<1>2. /\ f \in Seq(Voice) /\ ListOf(f, p.freeNext, p.freeHead)
      /\ p.freeTail = IF f = <<>> THEN None ELSE f[Len(f)]
      /\ p.freeCount = Len(f)
  BY DEF IdleOK
<1>3. None \notin Voice /\ None \in OrNone(Voice) /\ v \in OrNone(Voice)
  BY NoneIsNone DEF OrNone
<1>4. Len(f) \in Nat /\ (f = <<>> <=> Len(f) = 0)
  BY <1>2, NoCells
<1>5. \A i \in 1 .. Len(f) : f[i] \in Voice /\ f[i] # v
  BY <1>2 DEF Elements
<1>6. old = None <=> f = <<>>
  <2>1. f # <<>> => old = f[1] /\ 1 \in 1 .. Len(f)
    BY <1>2, <1>4 DEF ListOf
  <2>2. f = <<>> => old = None
    BY <1>2 DEF ListOf
  <2> QED BY <2>1, <2>2, <1>3, <1>5
<1>7. nxt \in VoiceTo(OrNone(Voice)) /\ last \in OrNone(Voice)
  BY <1>1, <1>3 DEF VoiceTo
<1>8. q = [p EXCEPT !.freeNext = nxt, !.freeHead = v, !.freeTail = last,
                    !.free = [p.free EXCEPT ![v] = TRUE], !.freeCount = p.freeCount + 1]
  <2>1. CASE old = None
    BY <2>1 DEF PushFree, Pools
  <2>2. CASE old # None
    BY <2>2 DEF PushFree, Pools
  <2> QED BY <2>1, <2>2
<1>9. nxt[v] = old
  BY <1>1
<1>10. \A i \in 1 .. Len(f) : nxt[f[i]] = p.freeNext[f[i]]
  BY <1>1, <1>5
<1>11. last = IF f = <<>> THEN v ELSE f[Len(f)]
  BY <1>2, <1>6
<1> HIDE DEF nxt, last
<1>12. /\ <<v>> \o f \in Seq(Voice) /\ ListOf(<<v>> \o f, nxt, v)
       /\ Elements(<<v>> \o f) = Elements(f) \cup {v}
       /\ Len(<<v>> \o f) = Len(f) + 1
  BY <1>2, <1>3, <1>9, <1>10, ListPush
<1>13. /\ q \in Pools /\ q.freeHead = v /\ q.freeNext = nxt /\ q.freeTail = last
       /\ q.freeCount = p.freeCount + 1
  <2> DEFINE y == [p.free EXCEPT ![v] = TRUE]
             n == p.freeCount + 1
  <2>1. y \in VoiceTo(BOOLEAN) /\ n \in Int
    BY <1>1 DEF VoiceTo
  <2>2. q = [p EXCEPT !.freeHead = v, !.freeNext = nxt, !.freeTail = last,
                      !.free = y, !.freeCount = n]
    BY <1>8 DEF Pools
  <2> HIDE DEF y, n
  <2>5. [p EXCEPT !.freeHead = v, !.freeNext = nxt, !.freeTail = last,
                  !.free = y, !.freeCount = n] \in Pools
    BY <1>3, <1>7, <2>1, FreeCells, Zenon
  <2>3. q \in Pools
    BY <2>2, <2>5, Zenon
  <2>4. /\ q.freeHead = v /\ q.freeNext = nxt /\ q.freeTail = last
        /\ q.freeCount = n
    BY <2>2 DEF Pools
  <2> QED BY <2>3, <2>4 DEF n
<1>14. /\ <<v>> \o f # <<>>
       /\ (<<v>> \o f)[Len(<<v>> \o f)] = IF f = <<>> THEN v ELSE f[Len(f)]
  <2>1. CASE f = <<>>
    BY <2>1
  <2>2. CASE f # <<>>
    BY <2>2, <1>2, <1>4
  <2> QED BY <2>1, <2>2
<1>15. IdleOK(q, <<v>> \o f)
  BY <1>2, <1>11, <1>12, <1>13, <1>14 DEF IdleOK
<1>16. /\ SameVoices(q, p) /\ SameNotes(q, p) /\ SameMarks(q, p) /\ SameCount(q, p)
       /\ q.free = [p.free EXCEPT ![v] = TRUE]
  BY <1>8 DEF Pools, SameVoices, SameNotes, SameMarks, SameCount
<1> QED BY <1>12, <1>13, <1>15, <1>16

\* The first idle voice is taken.
LEMMA PoolPopKeeps ==
  ASSUME NEW p \in Pools, NEW f, IdleOK(p, f), p.freeCount > 0,
         NEW q, q = PoolPop(p)
  PROVE  /\ p.freeHead \in Elements(f) /\ p.freeHead \in Voice
         /\ q \in Pools /\ IdleOK(q, Tail(f))
         /\ Elements(Tail(f)) = Elements(f) \ {p.freeHead}
         /\ SameVoices(q, p) /\ SameNotes(q, p) /\ SameMarks(q, p) /\ SameCount(q, p)
         /\ q.free = p.free /\ q.freeCount = p.freeCount - 1
<1> DEFINE next == p.freeNext[p.freeHead]
           last == IF next = None THEN None ELSE p.freeTail
<1>1. /\ p.freeHead \in OrNone(Voice) /\ p.freeTail \in OrNone(Voice)
      /\ p.freeNext \in [Voice -> OrNone(Voice)] /\ p.freeCount \in Int
  BY DEF Pools, VoiceTo, DescTo
<1>2. /\ f \in Seq(Voice) /\ ListOf(f, p.freeNext, p.freeHead)
      /\ p.freeTail = IF f = <<>> THEN None ELSE f[Len(f)]
      /\ p.freeCount = Len(f)
  BY DEF IdleOK
<1>3. None \notin Voice /\ None \in OrNone(Voice)
  BY NoneIsNone DEF OrNone
<1>4. Len(f) \in Nat /\ f # <<>> /\ 1 \in 1 .. Len(f) /\ Len(f) \in 1 .. Len(f)
  BY <1>2, NoCells
<1>5. p.freeHead = f[1] /\ f[1] \in Voice /\ f[1] \in Elements(f)
  BY <1>2, <1>4 DEF ListOf, Elements
<1>6. next \in OrNone(Voice) /\ last \in OrNone(Voice)
  BY <1>1, <1>3, <1>5
<1>7. q = [p EXCEPT !.freeHead = next, !.freeTail = last, !.freeCount = p.freeCount - 1]
  BY DEF PoolPop, Pools
<1>8. /\ Tail(f) \in Seq(Voice) /\ ListOf(Tail(f), p.freeNext, next)
      /\ Elements(Tail(f)) = Elements(f) \ {p.freeHead}
      /\ Len(Tail(f)) = Len(f) - 1
  BY <1>2, <1>4, ListPop
<1>9. last = IF Tail(f) = <<>> THEN None ELSE Tail(f)[Len(Tail(f))]
  <2>1. next = IF Len(f) = 1 THEN None ELSE f[2]
    <3>1. 1 + 1 = 2
      OBVIOUS
    <3> QED BY <1>2, <1>4, <1>5, <3>1 DEF ListOf
  <2>2. CASE Len(f) = 1
    <3>1. Tail(f) = <<>>
      BY <2>2, <1>8, NoCells
    <3> QED BY <3>1, <2>1, <2>2
  <2>3. CASE Len(f) # 1
    <3>1. 2 \in 1 .. Len(f) /\ Len(Tail(f)) # 0
      BY <2>3, <1>4, <1>8
    <3>0. Tail(f) # <<>>
      BY <3>1, <1>8, NoCells
    <3>2. f[2] \in Voice
      BY <3>1, <1>2
    <3>3. Tail(f)[Len(f) - 1] = f[Len(f)]
      <4> DEFINE m == Len(f) - 1
      <4>1. m \in 1 .. Len(f) - 1 /\ m + 1 = Len(f)
        BY <2>3, <1>4
      <4>2. Tail(f)[m] = f[m + 1]
        BY <4>1, <1>2, <1>4
      <4> QED BY <4>1, <4>2
    <3> QED BY <3>0, <3>1, <3>2, <3>3, <2>1, <2>3, <1>2, <1>3, <1>4, <1>8
  <2> QED BY <2>2, <2>3
<1> HIDE DEF next, last
<1>10. /\ q \in Pools /\ q.freeHead = next /\ q.freeTail = last
       /\ q.freeNext = p.freeNext /\ q.freeCount = p.freeCount - 1
  <2> DEFINE n == p.freeCount - 1
  <2>1. n \in Int
    BY <1>1
  <2> HIDE DEF n
  <2>2. q = [p EXCEPT !.freeHead = next, !.freeTail = last, !.freeCount = n]
    BY <1>7 DEF n
  <2>5. [p EXCEPT !.freeHead = next, !.freeTail = last, !.freeCount = n] \in Pools
    BY <1>6, <2>1, EndCells, Zenon
  <2>3. q \in Pools
    BY <2>2, <2>5, Zenon
  <2>4. /\ q.freeHead = next /\ q.freeTail = last
        /\ q.freeNext = p.freeNext /\ q.freeCount = n
    BY <2>2 DEF Pools
  <2> QED BY <2>3, <2>4 DEF n
<1>11. IdleOK(q, Tail(f))
  BY <1>2, <1>8, <1>9, <1>10 DEF IdleOK
<1>12. /\ SameVoices(q, p) /\ SameNotes(q, p) /\ SameMarks(q, p) /\ SameCount(q, p)
       /\ q.free = p.free
  BY <1>7 DEF Pools, SameVoices, SameNotes, SameMarks, SameCount
<1> QED BY <1>5, <1>8, <1>10, <1>11, <1>12

-----------------------------------------------------------------------------
(* The descriptors. *)

\* s is the chain of a part, linked both ways between first and last.
ChainOK(p, s, part) ==
  /\ ListOf(s, p.descNext, p.first[part])
  /\ p.last[part] = IF s = <<>> THEN None ELSE s[Len(s)]
  /\ \A i \in 1 .. Len(s) : p.descPrev[s[i]] = IF i = 1 THEN None ELSE s[i - 1]

\* e is the list of free descriptors and c[part] the chain of each part; home
\* says where a descriptor is.
NotesOK(p, e, c, home) ==
  /\ e \in Seq(Desc) /\ ListOf(e, p.descNext, p.descFree)
  /\ Elements(e) = {d \in Desc : home[d] = None}
  /\ \A part \in Part :
       /\ c[part] \in Seq(Desc) /\ ChainOK(p, c[part], part)
       /\ Elements(c[part]) = {d \in Desc : home[d] = part}
  /\ \A d \in Desc : (home[d] = None <=> p.state[d] = "free")
                     /\ (home[d] # None => p.key[d] \in Keys)

(* What closing a note writes. *)
Closed(p, d, part) ==
  [Unlink(p, d, part) EXCEPT !.descNext[d] = p.descFree, !.descFree = d,
                             !.state[d] = "free"]
\* The links, one table at a time.
ClosedNext(p, d) ==
  IF p.descPrev[d] = None THEN [p.descNext EXCEPT ![d] = p.descFree]
  ELSE [p.descNext EXCEPT ![p.descPrev[d]] = p.descNext[d], ![d] = p.descFree]
ClosedPrev(p, d) ==
  IF p.descNext[d] = None THEN p.descPrev
  ELSE [p.descPrev EXCEPT ![p.descNext[d]] = p.descPrev[d]]
ClosedFirst(p, d, part) ==
  IF p.descPrev[d] = None THEN [p.first EXCEPT ![part] = p.descNext[d]] ELSE p.first
ClosedLast(p, d, part) ==
  IF p.descNext[d] = None THEN [p.last EXCEPT ![part] = p.descPrev[d]] ELSE p.last

\* Writing the chains stays within the ranges.
LEMMA DescCells ==
  ASSUME NEW p \in Pools, NEW a \in DescTo(OrNone(Desc)),
         NEW b \in DescTo(OrNone(Desc)), NEW x \in PartTo(OrNone(Desc)),
         NEW y \in PartTo(OrNone(Desc)), NEW d \in OrNone(Desc),
         NEW s \in DescTo({"free", "down", "up"})
  PROVE  [p EXCEPT !.descNext = a, !.descPrev = b, !.first = x, !.last = y,
                   !.descFree = d, !.state = s] \in Pools
  BY Zenon DEF Pools

\* Closing a note writes these tables and nothing else.
LEMMA ClosedShape ==
  ASSUME NEW p \in Pools, NEW d \in Desc, NEW part \in Part, NEW q, q = Closed(p, d, part)
  PROVE  /\ q \in Pools
         /\ q.descNext = ClosedNext(p, d) /\ q.descPrev = ClosedPrev(p, d)
         /\ q.first = ClosedFirst(p, d, part) /\ q.last = ClosedLast(p, d, part)
         /\ q.descFree = d /\ q.state = [p.state EXCEPT ![d] = "free"]
         /\ q.key = p.key
         /\ SameIdle(q, p) /\ SameVoices(q, p) /\ SameMarks(q, p) /\ SameCount(q, p)
         /\ q.free = p.free
<1> DEFINE st == [p.state EXCEPT ![d] = "free"]
<1>0. /\ p.descNext \in [Desc -> OrNone(Desc)] /\ p.descPrev \in [Desc -> OrNone(Desc)]
      /\ p.first \in [Part -> OrNone(Desc)] /\ p.last \in [Part -> OrNone(Desc)]
      /\ p.descFree \in OrNone(Desc) /\ p.state \in [Desc -> {"free", "down", "up"}]
  BY DEF Pools, DescTo, PartTo
<1>1. p.descNext[d] \in OrNone(Desc) /\ p.descPrev[d] \in OrNone(Desc)
      /\ d \in OrNone(Desc)
  BY <1>0 DEF OrNone
<1>2. /\ ClosedNext(p, d) \in DescTo(OrNone(Desc))
      /\ ClosedPrev(p, d) \in DescTo(OrNone(Desc))
      /\ ClosedFirst(p, d, part) \in PartTo(OrNone(Desc))
      /\ ClosedLast(p, d, part) \in PartTo(OrNone(Desc))
      /\ st \in DescTo({"free", "down", "up"})
  BY <1>0, <1>1 DEF ClosedNext, ClosedPrev, ClosedFirst, ClosedLast, DescTo, PartTo
<1>3. q = [p EXCEPT !.descNext = ClosedNext(p, d), !.descPrev = ClosedPrev(p, d),
                    !.first = ClosedFirst(p, d, part), !.last = ClosedLast(p, d, part),
                    !.descFree = d, !.state = st]
  <2>1. CASE p.descNext[d] = None /\ p.descPrev[d] = None
    BY <2>1, ZenonT(60) DEF Closed, Unlink, ClosedNext, ClosedPrev, ClosedFirst, ClosedLast, Pools
  <2>2. CASE p.descNext[d] = None /\ p.descPrev[d] # None
    BY <2>2, ZenonT(60) DEF Closed, Unlink, ClosedNext, ClosedPrev, ClosedFirst, ClosedLast, Pools
  <2>3. CASE p.descNext[d] # None /\ p.descPrev[d] = None
    BY <2>3, ZenonT(60) DEF Closed, Unlink, ClosedNext, ClosedPrev, ClosedFirst, ClosedLast, Pools
  <2>4. CASE p.descNext[d] # None /\ p.descPrev[d] # None
    BY <2>4, ZenonT(60) DEF Closed, Unlink, ClosedNext, ClosedPrev, ClosedFirst, ClosedLast, Pools
  <2> QED BY <2>1, <2>2, <2>3, <2>4
<1> HIDE DEF st
<1>4. [p EXCEPT !.descNext = ClosedNext(p, d), !.descPrev = ClosedPrev(p, d),
                !.first = ClosedFirst(p, d, part), !.last = ClosedLast(p, d, part),
                !.descFree = d, !.state = st] \in Pools
  BY <1>1, <1>2, DescCells, Zenon
<1>5. q \in Pools
  BY <1>3, <1>4, Zenon
<1>6. /\ q.descNext = ClosedNext(p, d) /\ q.descPrev = ClosedPrev(p, d)
      /\ q.first = ClosedFirst(p, d, part) /\ q.last = ClosedLast(p, d, part)
      /\ q.descFree = d /\ q.state = st
  BY <1>3 DEF Pools
<1>7. /\ q.key = p.key
      /\ SameIdle(q, p) /\ SameVoices(q, p) /\ SameMarks(q, p) /\ SameCount(q, p)
      /\ q.free = p.free
  BY <1>3 DEF Pools, SameIdle, SameVoices, SameMarks, SameCount
<1> QED BY <1>5, <1>6, <1>7 DEF st

\* A note that is closed leaves its chain and heads the free descriptors.
LEMMA CloseKeeps ==
  ASSUME NEW p \in Pools, NEW e, NEW c, NEW home \in [Desc -> OrNone(Part)],
         NotesOK(p, e, c, home), NEW d \in Desc, NEW part \in Part, home[d] = part,
         NEW q, q = Closed(p, d, part)
  PROVE  /\ q \in Pools /\ q.descFree = d /\ q.key = p.key
         /\ SameIdle(q, p) /\ SameVoices(q, p) /\ SameMarks(q, p) /\ SameCount(q, p)
         /\ q.free = p.free
         /\ \E e2, c2 : NotesOK(q, e2, c2, [home EXCEPT ![d] = None])
<1> DEFINE s == c[part]
           n == Len(s)
           nxt == q.descNext
           prv == q.descPrev
           home2 == [home EXCEPT ![d] = None]
<1>1. /\ e \in Seq(Desc) /\ ListOf(e, p.descNext, p.descFree)
      /\ Elements(e) = {x \in Desc : home[x] = None}
      /\ \A r \in Part :
           /\ c[r] \in Seq(Desc) /\ ChainOK(p, c[r], r)
           /\ Elements(c[r]) = {x \in Desc : home[x] = r}
      /\ \A x \in Desc : (home[x] = None <=> p.state[x] = "free")
                         /\ (home[x] # None => p.key[x] \in Keys)
  BY DEF NotesOK
<1>2. /\ s \in Seq(Desc) /\ ListOf(s, p.descNext, p.first[part])
      /\ p.last[part] = IF s = <<>> THEN None ELSE s[Len(s)]
      /\ \A i \in 1 .. n : p.descPrev[s[i]] = IF i = 1 THEN None ELSE s[i - 1]
  BY <1>1 DEF ChainOK
<1>3. PICK k \in 1 .. n : s[k] = d
  <2>1. d \in Elements(s)
    BY <1>1
  <2> QED BY <2>1 DEF Elements
<1>4. None \notin Desc /\ None \notin Part
  BY NoneIsNone
<1>5. /\ p.descNext \in [Desc -> OrNone(Desc)] /\ p.descPrev \in [Desc -> OrNone(Desc)]
      /\ p.first \in [Part -> OrNone(Desc)] /\ p.last \in [Part -> OrNone(Desc)]
      /\ p.state \in [Desc -> {"free", "down", "up"}]
  BY DEF Pools, DescTo, PartTo
<1>6. /\ nxt = ClosedNext(p, d) /\ prv = ClosedPrev(p, d)
      /\ q.first = ClosedFirst(p, d, part) /\ q.last = ClosedLast(p, d, part)
      /\ q.descFree = d /\ q.state = [p.state EXCEPT ![d] = "free"] /\ q.key = p.key
      /\ q.free = p.free
  BY ClosedShape
<1> HIDE DEF nxt, prv
<1>7. \A i \in 1 .. n : s[i] \in Desc /\ home[s[i]] = part
  BY <1>1, <1>2 DEF Elements
<1>8. \A i, j \in 1 .. n : s[i] = s[j] => i = j
  BY <1>2 DEF ListOf, Distinct
<1> DEFINE succ == p.descNext[d]
           back == p.descPrev[d]
<1>9. n \in Nat /\ 1 <= k /\ k <= n /\ k \in Nat
  BY <1>2
<1> HIDE DEF n
<1>10. succ = IF k = n THEN None ELSE s[k + 1]
  BY <1>2, <1>3 DEF ListOf, n
<1>11. back = IF k = 1 THEN None ELSE s[k - 1]
  BY <1>2, <1>3
<1>12. /\ k # n => k + 1 \in 1 .. n /\ succ = s[k + 1] /\ succ \in Desc /\ succ # d
       /\ k # 1 => k - 1 \in 1 .. n /\ back = s[k - 1] /\ back \in Desc /\ back # d
  <2>1. ASSUME k # n PROVE k + 1 \in 1 .. n /\ succ = s[k + 1] /\ succ \in Desc /\ succ # d
    <3>1. k + 1 \in 1 .. n /\ k + 1 # k
      BY <2>1, <1>9
    <3>2. s[k + 1] # s[k]
      BY <3>1, <1>8, <1>9
    <3> QED BY <3>1, <3>2, <2>1, <1>3, <1>7, <1>10
  <2>2. ASSUME k # 1 PROVE k - 1 \in 1 .. n /\ back = s[k - 1] /\ back \in Desc /\ back # d
    <3>1. k - 1 \in 1 .. n /\ k - 1 # k
      BY <2>2, <1>9
    <3>2. s[k - 1] # s[k]
      BY <3>1, <1>8, <1>9
    <3> QED BY <3>1, <3>2, <2>2, <1>3, <1>7, <1>11
  <2> QED BY <2>1, <2>2
<1>13. (k = n <=> succ = None) /\ (k = 1 <=> back = None)
  BY <1>4, <1>10, <1>11, <1>12
<1>14. /\ nxt[d] = p.descFree
       /\ k # 1 => nxt[back] = succ
       /\ \A x \in Desc : (x # d /\ x # back) => nxt[x] = p.descNext[x]
  <2>1. CASE k = 1
    <3>1. nxt = [p.descNext EXCEPT ![d] = p.descFree]
      BY <2>1, <1>6, <1>13 DEF ClosedNext
    <3> QED BY <3>1, <2>1, <1>5
  <2>2. CASE k # 1
    <3>1. nxt = [p.descNext EXCEPT ![back] = succ, ![d] = p.descFree]
      BY <2>2, <1>6, <1>13 DEF ClosedNext
    <3> QED BY <3>1, <2>2, <1>5, <1>12
  <2> QED BY <2>1, <2>2
<1>15. /\ k # n => prv[succ] = back
       /\ \A x \in Desc : x # succ => prv[x] = p.descPrev[x]
  <2>1. CASE k = n
    BY <2>1, <1>6, <1>13 DEF ClosedPrev
  <2>2. CASE k # n
    <3>1. prv = [p.descPrev EXCEPT ![succ] = back]
      BY <2>2, <1>6, <1>13 DEF ClosedPrev
    <3> QED BY <3>1, <2>2, <1>5, <1>12
  <2> QED BY <2>1, <2>2
<1>16. /\ q.first[part] = IF k = 1 THEN succ ELSE p.first[part]
       /\ \A r \in Part \ {part} : q.first[r] = p.first[r]
       /\ q.last[part] = IF k = n THEN back ELSE p.last[part]
       /\ \A r \in Part \ {part} : q.last[r] = p.last[r]
  BY <1>5, <1>6, <1>13 DEF ClosedFirst, ClosedLast
<1> HIDE DEF succ, back
<1> DEFINE w == Without(s, k)
           c2 == [r \in Part |-> IF r = part THEN w ELSE c[r]]
           e2 == <<d>> \o e
<1>17. e2 \in Seq(Desc) /\ ListOf(e2, nxt, d) /\ Elements(e2) = Elements(e) \cup {d}
  <2>1. d \notin Elements(e)
    BY <1>1, <1>4
  <2>2. \A i \in 1 .. Len(e) : e[i] \in Desc /\ home[e[i]] = None
    BY <1>1 DEF Elements
  <2>3. ASSUME NEW i \in 1 .. Len(e) PROVE nxt[e[i]] = p.descNext[e[i]]
    <3>1. e[i] \in Desc /\ e[i] # d
      BY <2>1, <2>2 DEF Elements
    <3>2. CASE k = 1
      BY <3>1, <3>2, <1>4, <1>13, <1>14
    <3>3. CASE k # 1
      <4>1. home[back] = part
        BY <3>3, <1>7, <1>12
      <4>2. e[i] # back
        BY <4>1, <2>2, <1>4
      <4> QED BY <3>1, <4>2, <1>14
    <3> QED BY <3>2, <3>3
  <2> QED BY <1>1, <1>4, <1>14, <2>1, <2>3, ListPush
<1>18. /\ w \in Seq(Desc) /\ ListOf(w, nxt, q.first[part]) /\ Elements(w) = Elements(s) \ {d}
       /\ Len(w) = n - 1
       /\ \A i \in 1 .. k - 1 : i \in 1 .. Len(w) /\ w[i] = s[i]
       /\ \A i \in k .. Len(w) : i \in 1 .. Len(w) /\ w[i] = s[i + 1]
  <2>1. /\ w \in Seq(Desc) /\ Len(w) = n - 1
        /\ \A i \in 1 .. k - 1 : i \in 1 .. Len(w) /\ w[i] = s[i]
        /\ \A i \in k .. Len(w) : i \in 1 .. Len(w) /\ w[i] = s[i + 1]
    BY <1>2, <1>3, WithoutIs DEF n
  <2>2. k # 1 => nxt[s[k - 1]] = p.descNext[s[k]]
    BY <1>3, <1>12, <1>14 DEF succ
  <2>3. ASSUME NEW i \in 1 .. n, i # k, i # k - 1 PROVE nxt[s[i]] = p.descNext[s[i]]
    <3>1. s[i] \in Desc /\ s[i] # d
      BY <2>3, <1>3, <1>7, <1>8
    <3>2. k # 1 => s[i] # back
      BY <2>3, <1>8, <1>12
    <3>3. k = 1 => s[i] # back
      BY <3>1, <1>4, <1>13
    <3> QED BY <3>1, <3>2, <3>3, <1>14
  <2>4. q.first[part] = IF k = 1 THEN p.descNext[p.first[part]] ELSE p.first[part]
    <3>1. k = 1 => p.first[part] = d
      <4>1. s # <<>>
        BY <1>2, <1>9, NoCells DEF n
      <4> QED BY <4>1, <1>2, <1>3 DEF ListOf
    <3> QED BY <3>1, <1>16 DEF succ
  <2>5. ListOf(w, nxt, q.first[part]) /\ Elements(w) = Elements(s) \ {s[k]}
    <3>1. \A i \in 1 .. Len(s) : (i # k /\ i # k - 1) => nxt[s[i]] = p.descNext[s[i]]
      BY <2>3 DEF n
    <3>2. k \in 1 .. Len(s)
      BY <1>3 DEF n
    <3> DEFINE from == q.first[part]
               start == p.first[part]
               next == p.descNext
    <3>3. /\ from = IF k = 1 THEN next[start] ELSE start
          /\ s \in Seq(Desc) /\ ListOf(s, next, start)
          /\ k # 1 => nxt[s[k - 1]] = next[s[k]]
          /\ \A i \in 1 .. Len(s) : (i # k /\ i # k - 1) => nxt[s[i]] = next[s[i]]
      BY <1>2, <2>2, <2>4, <3>1
    <3> HIDE DEF from, start, next, s
    <3>4. ListOf(Without(s, k), nxt, from) /\ Elements(Without(s, k)) = Elements(s) \ {s[k]}
      BY <3>2, <3>3, ListWithout
    <3> QED BY <3>4 DEF from
  <2> QED BY <2>1, <2>5, <1>3
<1>27. \A i \in k .. n - 1 : w[i] = s[i + 1]
  BY <1>18
<1>19. ChainOK(q, w, part)
  <2>1. q.last[part] = IF w = <<>> THEN None ELSE w[Len(w)]
    <3>1. w = <<>> <=> n = 1
      <4> HIDE DEF w
      <4> QED BY <1>9, <1>18, NoCells
    <3>2. CASE n = 1
      BY <3>1, <3>2, <1>9, <1>13, <1>16
    <3>3. CASE n # 1 /\ k = n
      <4>1. n - 1 \in 1 .. k - 1 /\ k # 1
        BY <3>3, <1>9
      <4>2. w[Len(w)] = s[k - 1]
        BY <4>1, <3>3, <1>18
      <4> QED BY <4>1, <4>2, <3>1, <3>3, <1>12, <1>16
    <3>4. CASE n # 1 /\ k # n
      <4>1. n - 1 \in k .. Len(w) /\ (n - 1) + 1 = n /\ n # 0
        BY <3>4, <1>9, <1>18
      <4>2. w[Len(w)] = s[n]
        <5> DEFINE m == n - 1
        <5>1. m \in k .. n - 1 /\ m + 1 = n /\ Len(w) = m
          BY <4>1, <1>18
        <5> HIDE DEF m, w, s
        <5> QED BY <5>1, <1>27
      <4>3. s # <<>>
        BY <4>1, <1>2, NoCells DEF n
      <4> QED BY <4>2, <4>3, <3>1, <3>4, <1>2, <1>16 DEF n
    <3> QED BY <3>2, <3>3, <3>4
  <2>2. ASSUME NEW i \in 1 .. Len(w) PROVE prv[w[i]] = IF i = 1 THEN None ELSE w[i - 1]
    <3>0. i \in Nat /\ 1 <= i /\ i <= n - 1
      BY <1>9, <1>18
    <3>1. CASE i < k
      <4>1. i \in 1 .. k - 1 /\ i \in 1 .. n /\ i # k + 1
        BY <3>0, <3>1, <1>9
      <4>2. w[i] = s[i] /\ s[i] \in Desc
        BY <4>1, <1>7, <1>18
      <4>3. s[i] # succ
        BY <4>1, <4>2, <1>4, <1>8, <1>12, <1>13
      <4>4. prv[w[i]] = IF i = 1 THEN None ELSE s[i - 1]
        BY <4>1, <4>2, <4>3, <1>2, <1>15 DEF n
      <4>5. i # 1 => w[i - 1] = s[i - 1]
        <5> SUFFICES ASSUME i # 1 PROVE w[i - 1] = s[i - 1]
          OBVIOUS
        <5>1. i - 1 \in 1 .. k - 1
          BY <3>0, <3>1, <1>9
        <5> QED BY <5>1, <1>18
      <4> QED BY <4>4, <4>5
    <3>2. CASE i = k
      <4>1. i \in k .. Len(w) /\ k # n
        BY <3>0, <3>2, <1>9, <1>18
      <4>2. w[i] = s[i + 1]
        BY <4>1, <1>18, <1>27
      <4>5. w[i] = succ /\ prv[succ] = back
        BY <4>1, <4>2, <3>2, <1>12, <1>15
      <4>3. i # 1 => w[i - 1] = s[k - 1]
        <5> SUFFICES ASSUME i # 1 PROVE w[k - 1] = s[k - 1]
          BY <3>2
        <5>1. k - 1 \in 1 .. k - 1
          BY <3>2, <1>9
        <5> QED BY <5>1, <1>18
      <4> QED BY <4>5, <4>3, <3>2, <1>11
    <3>3. CASE i > k
      <4> DEFINE j == i + 1
      <4>1. i \in k .. Len(w) /\ j \in 1 .. n /\ j # k + 1 /\ i # 1 /\ j # 1 /\ j - 1 = i
            /\ i - 1 \in k .. Len(w) /\ (i - 1) + 1 = i
        BY <3>0, <3>3, <1>9, <1>18
      <4>5. w[i] = s[j]
        BY <4>1, <1>18, <1>27
      <4>6. w[i - 1] = s[i]
        <5> DEFINE m == i - 1
        <5>1. m \in k .. n - 1 /\ m + 1 = i
          BY <4>1, <1>18
        <5> HIDE DEF m
        <5>2. w[m] = s[i]
          BY <5>1, <1>27
        <5> QED BY <5>2 DEF m
      <4>2. w[i] = s[j] /\ w[i - 1] = s[i]
        BY <4>5, <4>6
      <4> HIDE DEF j
      <4>3. s[j] \in Desc /\ s[j] # succ
        BY <4>1, <1>4, <1>7, <1>8, <1>12, <1>13
      <4>4. p.descPrev[s[j]] = s[j - 1]
        BY <4>1, <1>2 DEF n
      <4> QED BY <4>1, <4>2, <4>3, <4>4, <1>15
    <3> QED BY <3>0, <3>1, <3>2, <3>3, <1>9
  <2> HIDE DEF w
  <2> QED BY <2>1, <2>2, <1>18 DEF ChainOK, nxt, prv
<1>20. ASSUME NEW r \in Part, r # part PROVE ChainOK(q, c[r], r)
  <2>1. /\ c[r] \in Seq(Desc) /\ ListOf(c[r], p.descNext, p.first[r])
        /\ p.last[r] = IF c[r] = <<>> THEN None ELSE c[r][Len(c[r])]
        /\ \A i \in 1 .. Len(c[r]) :
             p.descPrev[c[r][i]] = IF i = 1 THEN None ELSE c[r][i - 1]
    BY <1>1 DEF ChainOK
  <2>2. ASSUME NEW i \in 1 .. Len(c[r])
        PROVE  nxt[c[r][i]] = p.descNext[c[r][i]] /\ prv[c[r][i]] = p.descPrev[c[r][i]]
    <3> DEFINE t == c[r]
    <3>0. t \in Seq(Desc) /\ \A x \in Desc : x \in Elements(t) <=> home[x] = r
      BY <1>1
    <3> HIDE DEF t
    <3>01. i \in 1 .. Len(t) => t[i] \in Desc /\ t[i] \in Elements(t)
      BY <3>0 DEF Elements
    <3>02. i \in 1 .. Len(t)
      BY DEF t
    <3>03. t[i] \in Desc /\ home[t[i]] = r
      BY <3>0, <3>01, <3>02
    <3>1. c[r][i] \in Desc /\ home[c[r][i]] = r
      BY <3>03 DEF t
    <3>2. c[r][i] # d
      BY <3>1, <1>20
    <3>3. c[r][i] # back
      BY <3>1, <1>4, <1>7, <1>12, <1>13, <1>20
    <3>4. c[r][i] # succ
      BY <3>1, <1>4, <1>7, <1>12, <1>13, <1>20
    <3> QED BY <3>1, <3>2, <3>3, <3>4, <1>14, <1>15
  <2>4. q.first[r] = p.first[r]
    BY <1>16, <1>20
  <2> DEFINE t == c[r]
             next == p.descNext
             start == p.first[r]
  <2>5. /\ t \in Seq(Desc) /\ ListOf(t, next, start)
        /\ \A i \in 1 .. Len(t) : nxt[t[i]] = next[t[i]]
    BY <2>1, <2>2
  <2>6. ListOf(t, nxt, start)
    <3> HIDE DEF t, next, start, nxt
    <3> QED BY <2>5, ListSame
  <2>3. ListOf(c[r], nxt, q.first[r])
    BY <2>4, <2>6
  <2> QED BY <2>1, <2>2, <2>3, <1>16, <1>20 DEF ChainOK, nxt, prv
<1>21. home2 \in [Desc -> OrNone(Part)] /\ home2[d] = None
       /\ \A x \in Desc \ {d} : home2[x] = home[x]
  BY DEF OrNone
<1>22. \A x \in Desc : (home2[x] = None <=> q.state[x] = "free")
                       /\ (home2[x] # None => q.key[x] \in Keys)
  BY <1>1, <1>5, <1>6, <1>21
<1>23. Elements(e2) = {x \in Desc : home2[x] = None}
  BY <1>1, <1>17, <1>21
<1>24. ASSUME NEW r \in Part
       PROVE  /\ c2[r] \in Seq(Desc) /\ ChainOK(q, c2[r], r)
              /\ Elements(c2[r]) = {x \in Desc : home2[x] = r}
  <2>1. CASE r = part
    <3>1. c2[r] = w
      BY <2>1
    <3>2. Elements(w) = {x \in Desc : home2[x] = part}
      BY <1>1, <1>4, <1>18, <1>21
    <3> QED BY <3>1, <3>2, <2>1, <1>18, <1>19
  <2>2. CASE r # part
    <3>1. c2[r] = c[r]
      BY <2>2
    <3>2. Elements(c[r]) = {x \in Desc : home2[x] = r}
      BY <2>2, <1>1, <1>4, <1>21
    <3> QED BY <3>1, <3>2, <2>2, <1>1, <1>20
  <2> QED BY <2>1, <2>2
<1> HIDE DEF c2, e2, home2
<1>25. NotesOK(q, e2, c2, home2)
  BY <1>6, <1>17, <1>22, <1>23, <1>24 DEF NotesOK, nxt
<1>26. /\ q \in Pools
       /\ SameIdle(q, p) /\ SameVoices(q, p) /\ SameMarks(q, p) /\ SameCount(q, p)
       /\ q.free = p.free
  <2>1. q \in Pools /\ SameIdle(q, p)
    BY ClosedShape, Zenon
  <2>2. SameVoices(q, p) /\ SameMarks(q, p)
    BY ClosedShape, Zenon
  <2>3. SameCount(q, p)
    BY ClosedShape, Zenon
  <2>4. q.free = p.free
    BY <1>6
  <2> QED BY <2>1, <2>2, <2>3, <2>4
<1>28. \E x, y : NotesOK(q, x, y, home2)
  BY <1>25
<1>29. \E x, y : NotesOK(q, x, y, [home EXCEPT ![d] = None])
  BY <1>28, Zenon DEF home2
<1>30. q.descFree = d /\ q.key = p.key
  BY <1>6
<1> QED BY <1>26, <1>29, <1>30, Zenon
-----------------------------------------------------------------------------
(* The current note of a part. *)
LowestCurrent(p, home) ==
  \A part \in Part :
    LET cur == p.current[part] IN
    IF \A d \in Desc : home[d] # part THEN cur = None
    ELSE /\ cur \in Desc /\ home[cur] = part
         /\ \A d \in Desc : home[d] = part => p.key[cur] <= p.key[d]

(* Some note is the current one of a part that has notes, whatever keys.   *)
HasCurrent(p, home) == \A d \in Desc : home[d] # None => p.current[home[d]] # None

\* The current note of a part has its lowest key; a part without notes has
\* none.
CurrentOK(p, home) ==
  HasCurrent(p, home) /\ (TopKey \notin Keys => LowestCurrent(p, home))

\* Writing counts and current notes stays within the ranges.
LEMMA CountCells ==
  ASSUME NEW p \in Pools, NEW x \in PartTo(Int), NEW y \in PartTo(OrNone(Desc))
  PROVE  [p EXCEPT !.current = y, !.count = x] \in Pools
  BY Zenon DEF Pools

\* Keys are naturals no larger than TopKey.
LEMMA KeysAre == Keys \subseteq Nat /\ TopKey \in Nat /\ \A k \in Keys : k <= TopKey
  BY VoicePoolAssumption

\* x is a cell of s whose key no other is below.
LowestOf(p, s, x) ==
  \E i \in 1 .. Len(s) : /\ x = s[i]
                         /\ \A j \in 1 .. Len(s) : p.key[s[i]] <= p.key[s[j]]

(* Elect finds a note of the lowest key. *)
LEMMA Elected ==
  ASSUME NEW p \in Pools, NEW part \in Part, NEW d \in Desc, NEW s \in Seq(Desc),
         Chain(p, part) = s, \A i \in 1 .. Len(s) : p.key[s[i]] \in Keys
  PROVE  /\ Elect(p, part, d) \in OrNone(Desc)
         /\ s = <<>> => Elect(p, part, d) = None
         /\ s # <<>> => Elect(p, part, d) \in Desc
         /\ (s # <<>> /\ TopKey \notin Keys) => LowestOf(p, s, Elect(p, part, d))
<1> DEFINE K(i) == p.key[s[i]]
           low == {i \in 1 .. Len(s) : K(i) < TopKey}
           Best(i) == \A j \in low : K(i) < K(j) \/ (K(i) = K(j) /\ i <= j)
           best == CHOOSE i \in low : Best(i)
<1>1. Elect(p, part, d) = IF s = <<>> THEN None ELSE IF low = {} THEN d ELSE s[best]
  BY DEF Elect, Lowest
<1>2. ASSUME NEW i \in 1 .. Len(s)
      PROVE  K(i) \in Keys /\ K(i) \in Nat /\ s[i] \in Desc /\ i \in Nat
  <2>1. K(i) \in Keys
    BY DEF K
  <2>2. s[i] \in Desc /\ i \in Nat
    OBVIOUS
  <2> HIDE DEF K
  <2> QED BY <2>1, <2>2, KeysAre
<1>3. low \subseteq 1 .. Len(s)
  OBVIOUS
<1> HIDE DEF K
<1>4. ASSUME low # {} PROVE best \in low /\ Best(best)
  <2> DEFINE values == {K(i) : i \in low}
  <2>1. values \in SUBSET Nat /\ values # {}
    BY <1>2, <1>4
  <2>2. PICK m \in values : \A y \in values : m <= y
    <3> HIDE DEF values
    <3> QED BY <2>1, HasLeast
  <2> DEFINE places == {i \in low : K(i) = m}
  <2>3. places \in SUBSET Nat /\ places # {}
    BY <1>2, <2>2
  <2>4. PICK i \in places : \A j \in places : i <= j
    <3> HIDE DEF places
    <3> QED BY <2>3, HasLeast
  <2>5. ASSUME NEW j \in low PROVE K(i) < K(j) \/ (K(i) = K(j) /\ i <= j)
    <3>1. K(i) = m /\ K(i) \in Nat /\ K(j) \in Nat /\ K(i) <= K(j)
      BY <1>2, <2>2, <2>4
    <3>2. K(j) = m => i <= j
      BY <2>4
    <3> QED BY <3>1, <3>2
  <2>6. i \in low /\ Best(i)
    BY <2>4, <2>5
  <2> HIDE DEF low, Best
  <2> QED BY <2>6
<1>5. /\ Elect(p, part, d) \in OrNone(Desc)
      /\ s # <<>> => Elect(p, part, d) \in Desc
  <2>1. low # {} => s[best] \in Desc
    BY <1>2, <1>3, <1>4
  <2> QED BY <1>1, <2>1 DEF OrNone
<1>6. ASSUME s # <<>>, TopKey \notin Keys
      PROVE  LowestOf(p, s, Elect(p, part, d))
  <2>1. \A i \in 1 .. Len(s) : i \in low
    BY <1>2, <1>6, KeysAre
  <2>2. 1 \in 1 .. Len(s)
    BY <1>6, NoCells
  <2>3. best \in low /\ Best(best)
    BY <1>4, <2>1, <2>2
  <2>4. \A j \in 1 .. Len(s) : K(best) <= K(j)
    <3> HIDE DEF best
    <3>1. best \in 1 .. Len(s) /\ \A j \in 1 .. Len(s) :
            K(best) < K(j) \/ (K(best) = K(j) /\ best <= j)
      BY <2>1, <2>3
    <3> HIDE DEF low
    <3> QED BY <3>1, <1>2
  <2>5. Elect(p, part, d) = s[best]
    BY <1>1, <1>6, <2>1, <2>2
  <2> HIDE DEF best, low
  <2> QED BY <2>3, <2>4, <2>5, <1>3 DEF K, LowestOf
<1> QED BY <1>1, <1>5, <1>6

\* What writing counts and current notes leaves alone.
LEMMA CloseFrames ==
  ASSUME NEW p \in Pools, NEW y \in PartTo(OrNone(Desc)), NEW x \in PartTo(Int),
         NEW q, q = [p EXCEPT !.current = y, !.count = x]
  PROVE  /\ q \in Pools /\ q.current = y /\ q.count = x /\ q.free = p.free
         /\ SameIdle(q, p) /\ SameVoices(q, p) /\ SameNotes(q, p) /\ SameMarks(q, p)
<1>1. q \in Pools
  BY CountCells, Zenon
<1>2. /\ q.current = y /\ q.count = x /\ q.free = p.free
      /\ SameIdle(q, p) /\ SameVoices(q, p) /\ SameNotes(q, p) /\ SameMarks(q, p)
  BY DEF Pools, SameIdle, SameVoices, SameNotes, SameMarks
<1> QED BY <1>1, <1>2

\* Two steps that leave a thing alone leave it alone together.
LEMMA SameTwice ==
  ASSUME NEW p, NEW q, NEW r
  PROVE  /\ SameIdle(q, p) /\ SameIdle(r, q) => SameIdle(r, p)
         /\ SameVoices(q, p) /\ SameVoices(r, q) => SameVoices(r, p)
         /\ SameNotes(q, p) /\ SameNotes(r, q) => SameNotes(r, p)
         /\ SameMarks(q, p) /\ SameMarks(r, q) => SameMarks(r, p)
         /\ SameCount(q, p) /\ SameCount(r, q) => SameCount(r, p)
  BY DEF SameIdle, SameVoices, SameNotes, SameMarks, SameCount

\* The chains are sound while none of their tables is written.
LEMMA NotesSame ==
  ASSUME NEW p, NEW q, NEW e, NEW c, NEW home, NotesOK(p, e, c, home), SameNotes(q, p)
  PROVE  NotesOK(q, e, c, home)
  BY DEF NotesOK, SameNotes, ChainOK

\* The notes have their voices while none of their tables is written.
LEMMA VoicesSame ==
  ASSUME NEW p, NEW q, NEW I, NEW home, NEW X, VoicesOK(p, I, home, X), SameVoices(q, p)
  PROVE  VoicesOK(q, I, home, X)
  BY DEF VoicesOK, SameVoices

\* The idle list is sound while none of its tables is written.
LEMMA IdleSame ==
  ASSUME NEW p, NEW q, NEW f, IdleOK(p, f), SameIdle(q, p)
  PROVE  IdleOK(q, f)
  BY DEF IdleOK, SameIdle

(* H2: a note whose last voice has gone is closed. *)
HomeAfter(p, d, home) == IF p.head[d] = None THEN [home EXCEPT ![d] = None] ELSE home

\* What H2 leaves.
H2Done(q, p, d, part, home) ==
  /\ q \in Pools
  /\ SameIdle(q, p) /\ SameVoices(q, p) /\ SameMarks(q, p) /\ q.free = p.free
  /\ q.count = [p.count EXCEPT ![part] = @ - 1] /\ q.key = p.key
  /\ \A x \in Desc : HomeAfter(p, d, home)[x] # None => q.state[x] = p.state[x]
  /\ IF p.head[d] = None
     THEN p.first[part] = d => q.first[part] = p.descNext[d]
     ELSE q.first = p.first /\ q.descNext = p.descNext
  /\ CurrentOK(q, HomeAfter(p, d, home))
  /\ \E e2, c2 : NotesOK(q, e2, c2, HomeAfter(p, d, home))

\* H2 closes a note that has no voice, and only such a note.
LEMMA H2Keeps ==
  ASSUME NEW p \in Pools, NEW e, NEW c, NEW home \in [Desc -> OrNone(Part)],
         NotesOK(p, e, c, home), CurrentOK(p, home),
         NEW d \in Desc, NEW part \in Part, home[d] = part,
         NEW q, q = H2(p, d, part)
  PROVE  H2Done(q, p, d, part, home)
<1> DEFINE n == [p.count EXCEPT ![part] = @ - 1]
<1>1. /\ p.count \in [Part -> Int] /\ p.current \in [Part -> OrNone(Desc)]
      /\ n \in PartTo(Int)
  BY DEF Pools, PartTo
<1> HIDE DEF n
<1>2. CASE p.head[d] # None
  <2>1. q = [p EXCEPT !.current = p.current, !.count = n]
    BY <1>2 DEF H2, n, Pools
  <2>2. p.current \in PartTo(OrNone(Desc))
    BY <1>1 DEF PartTo
  <2>3. /\ q \in Pools /\ q.current = p.current /\ q.count = n /\ q.free = p.free
        /\ SameIdle(q, p) /\ SameVoices(q, p) /\ SameNotes(q, p) /\ SameMarks(q, p)
    BY <2>1, <2>2, <1>1, CloseFrames
  <2>4. HomeAfter(p, d, home) = home
    BY <1>2 DEF HomeAfter
  <2>5. NotesOK(q, e, c, home)
    BY <2>3, NotesSame
  <2>6. CurrentOK(q, home)
    BY <2>3 DEF CurrentOK, HasCurrent, LowestCurrent, SameNotes
  <2>7. /\ q.key = p.key /\ q.state = p.state
        /\ q.first = p.first /\ q.descNext = p.descNext
    BY <2>3 DEF SameNotes
  <2>8. NotesOK(q, e, c, HomeAfter(p, d, home))
    BY <2>4, <2>5
  <2> QED BY <2>3, <2>4, <2>8, <2>6, <2>7, <1>2 DEF n, H2Done
<1>3. CASE p.head[d] = None
  <2> DEFINE z == Closed(p, d, part)
             el == Elect(z, part, d)
             y == [z.current EXCEPT ![part] = IF @ = d THEN el ELSE @]
             home2 == [home EXCEPT ![d] = None]
  <2>1. /\ z \in Pools /\ z.key = p.key /\ z.free = p.free
        /\ SameIdle(z, p) /\ SameVoices(z, p) /\ SameMarks(z, p) /\ SameCount(z, p)
        /\ \E e2, c2 : NotesOK(z, e2, c2, [home EXCEPT ![d] = None])
        /\ z.first = ClosedFirst(p, d, part) /\ z.state = [p.state EXCEPT ![d] = "free"]
    <3> HIDE DEF z
    <3>0. z = Closed(p, d, part)
      BY DEF z
    <3>1. /\ z.descNext = ClosedNext(p, d) /\ z.descPrev = ClosedPrev(p, d)
          /\ z.first = ClosedFirst(p, d, part) /\ z.last = ClosedLast(p, d, part)
          /\ z.descFree = d /\ z.state = [p.state EXCEPT ![d] = "free"]
          /\ z.key = p.key /\ z.free = p.free
      BY <3>0, ClosedShape
    <3>5. z \in Pools
      BY <3>0, ClosedShape, Zenon
    <3>2. SameIdle(z, p) /\ SameVoices(z, p)
      BY <3>0, CloseKeeps, Zenon
    <3>3. SameMarks(z, p) /\ SameCount(z, p)
      BY <3>0, CloseKeeps, Zenon
    <3>4. \E e2, c2 : NotesOK(z, e2, c2, [home EXCEPT ![d] = None])
      BY <3>0, CloseKeeps, Zenon
    <3> QED BY <3>1, <3>2, <3>3, <3>4, <3>5
  <2>2. PICK e2, c2 : NotesOK(z, e2, c2, home2)
    BY <2>1
  <2>3. q = [z EXCEPT !.current = y, !.count = n]
    <3>1. z.count = p.count
      BY <2>1 DEF SameCount
    <3> QED BY <3>1, <1>3, <2>1 DEF H2, n, Closed, Pools
  <2> HIDE DEF z, home2
  <2>4. /\ home2 \in [Desc -> OrNone(Part)] /\ home2[d] = None
        /\ \A x \in Desc \ {d} : home2[x] = home[x]
    BY DEF home2, OrNone
  <2>5. /\ c2[part] \in Seq(Desc) /\ ListOf(c2[part], z.descNext, z.first[part])
        /\ Elements(c2[part]) = {x \in Desc : home2[x] = part}
    BY <2>2 DEF NotesOK, ChainOK
  <2>6. Chain(z, part) = c2[part]
    <3>1. c2[part] \in Seq(Voice)
      BY <2>5 DEF Voice, Desc
    <3> QED BY <3>1, <2>5, WalkIs DEF Chain
  <2>7. \A i \in 1 .. Len(c2[part]) : z.key[c2[part][i]] \in Keys
    <3> SUFFICES ASSUME NEW i \in 1 .. Len(c2[part]) PROVE z.key[c2[part][i]] \in Keys
      OBVIOUS
    <3>1. c2[part][i] \in Elements(c2[part])
      BY DEF Elements
    <3>2. c2[part][i] \in Desc /\ home2[c2[part][i]] = part
      BY <3>1, <2>5
    <3> QED BY <3>2, <2>2, NoneIsNone DEF NotesOK
  <2>8. /\ el \in OrNone(Desc)
        /\ c2[part] = <<>> => el = None
        /\ c2[part] # <<>> => el \in Desc
        /\ (c2[part] # <<>> /\ TopKey \notin Keys) =>
              \E i \in 1 .. Len(c2[part]) :
                /\ el = c2[part][i]
                /\ \A j \in 1 .. Len(c2[part]) : z.key[c2[part][i]] <= z.key[c2[part][j]]
    <3> HIDE DEF el
    <3>0. el = Elect(z, part, d)
      BY DEF el
    <3> DEFINE s == c2[part]
    <3>1. /\ z \in Pools /\ s \in Seq(Desc) /\ Chain(z, part) = s
          /\ \A i \in 1 .. Len(s) : z.key[s[i]] \in Keys
      BY <2>1, <2>5, <2>6, <2>7
    <3> HIDE DEF s
    <3>2. el \in OrNone(Desc)
      BY <3>0, <3>1, Elected
    <3>3. s = <<>> => el = None
      BY <3>0, <3>1, Elected
    <3>4. (s # <<>> /\ TopKey \notin Keys) => LowestOf(z, s, el)
      BY <3>0, <3>1, Elected
    <3>5. s # <<>> => el \in Desc
      BY <3>0, <3>1, Elected
    <3> QED BY <3>2, <3>3, <3>4, <3>5 DEF s, LowestOf
  <2>9. TopKey \notin Keys =>
           IF \A x \in Desc : home2[x] # part THEN el = None
           ELSE /\ el \in Desc /\ home2[el] = part
                /\ \A x \in Desc : home2[x] = part => z.key[el] <= z.key[x]
    <3>1. CASE c2[part] = <<>>
      BY <3>1, <2>5, <2>8 DEF Elements
    <3>2. CASE c2[part] # <<>>
      <4> SUFFICES ASSUME TopKey \notin Keys
                   PROVE  /\ ~(\A x \in Desc : home2[x] # part)
                          /\ el \in Desc /\ home2[el] = part
                          /\ \A x \in Desc : home2[x] = part => z.key[el] <= z.key[x]
        OBVIOUS
      <4>1. PICK i \in 1 .. Len(c2[part]) :
                /\ el = c2[part][i]
                /\ \A j \in 1 .. Len(c2[part]) : z.key[c2[part][i]] <= z.key[c2[part][j]]
        BY <3>2, <2>8
      <4>2. el \in Elements(c2[part])
        BY <4>1 DEF Elements
      <4>3. el \in Desc /\ home2[el] = part
        BY <4>2, <2>5
      <4>4. ASSUME NEW x \in Desc, home2[x] = part PROVE z.key[el] <= z.key[x]
        <5>1. x \in Elements(c2[part])
          BY <4>4, <2>5
        <5>2. PICK j \in 1 .. Len(c2[part]) : x = c2[part][j]
          BY <5>1 DEF Elements
        <5> QED BY <4>1, <5>2
      <4> QED BY <4>3, <4>4
    <3> QED BY <3>1, <3>2
  <2> HIDE DEF el
  <2>10. z.current = p.current /\ z.current \in [Part -> OrNone(Desc)]
    BY <1>1, <2>1 DEF SameCount
  <2>11. y \in PartTo(OrNone(Desc))
    BY <2>8, <2>10 DEF PartTo
  <2>12. y[part] = (IF p.current[part] = d THEN el ELSE p.current[part])
         /\ \A r \in Part \ {part} : y[r] = p.current[r]
    BY <2>10
  <2> HIDE DEF y
  <2>13. /\ q \in Pools /\ q.current = y /\ q.count = n /\ q.free = z.free
         /\ SameIdle(q, z) /\ SameVoices(q, z) /\ SameNotes(q, z) /\ SameMarks(q, z)
    <3>1. z \in Pools /\ n \in PartTo(Int)
      BY <2>1, <1>1
    <3> HIDE DEF n
    <3> QED BY <3>1, <2>3, <2>11, CloseFrames
  <2>14. SameIdle(q, p) /\ SameVoices(q, p) /\ SameMarks(q, p) /\ q.free = p.free
    BY <2>1, <2>13, SameTwice
  <2>15. NotesOK(q, e2, c2, home2)
    BY <2>2, <2>13, NotesSame
  <2>16. q.key = p.key
    BY <2>1, <2>13 DEF SameNotes
  <2>22. HasCurrent(q, home2)
    <3> SUFFICES ASSUME NEW x \in Desc, home2[x] # None PROVE y[home2[x]] # None
      BY <2>13 DEF HasCurrent
    <3>1. x # d /\ home2[x] = home[x] /\ home[x] \in Part
      BY <2>4 DEF OrNone
    <3>2. p.current[home[x]] # None
      BY <3>1 DEF CurrentOK, HasCurrent
    <3>3. CASE home[x] = part /\ p.current[part] = d
      <4>1. x \in Elements(c2[part])
        BY <3>1, <3>3, <2>5
      <4>2. c2[part] # <<>>
        BY <4>1 DEF Elements
      <4> QED BY <4>2, <3>1, <3>3, <2>8, <2>12, NoneIsNone
    <3> QED BY <3>1, <3>2, <3>3, <2>12
  <2>17. ASSUME TopKey \notin Keys PROVE LowestCurrent(q, home2)
    <3> SUFFICES ASSUME NEW r \in Part
                 PROVE  IF \A x \in Desc : home2[x] # r THEN y[r] = None
                        ELSE /\ y[r] \in Desc /\ home2[y[r]] = r
                             /\ \A x \in Desc : home2[x] = r => p.key[y[r]] <= p.key[x]
      BY <2>13, <2>16 DEF LowestCurrent
    <3>1. IF \A x \in Desc : home[x] # r THEN p.current[r] = None
          ELSE /\ p.current[r] \in Desc /\ home[p.current[r]] = r
               /\ \A x \in Desc : home[x] = r => p.key[p.current[r]] <= p.key[x]
      BY <2>17 DEF CurrentOK, LowestCurrent
    <3>2. CASE r # part
      <4>1. \A x \in Desc : home2[x] = r <=> home[x] = r
        BY <3>2, <2>4, NoneIsNone
      <4> QED BY <4>1, <3>1, <3>2, <2>12
    <3>3. CASE r = part /\ p.current[part] = d
      BY <3>3, <2>1, <2>9, <2>12, <2>17
    <3>4. CASE r = part /\ p.current[part] # d
      <4>1. p.current[part] \in Desc /\ home2[p.current[part]] = part
        BY <3>1, <3>4, <2>4
      <4>2. \A x \in Desc : home2[x] = part => home[x] = part
        BY <2>4, NoneIsNone
      <4> QED BY <4>1, <4>2, <3>1, <3>4, <2>12
    <3> QED BY <3>2, <3>3, <3>4
  <2>18. HomeAfter(p, d, home) = home2
    BY <1>3 DEF HomeAfter, home2
  <2>19. \E x, u : NotesOK(q, x, u, home2)
    BY <2>15
  <2>20. \A x \in Desc : home2[x] # None => q.state[x] = p.state[x]
    <3>1. q.state = [p.state EXCEPT ![d] = "free"]
      BY <2>1, <2>13 DEF SameNotes
    <3>2. p.state \in [Desc -> {"free", "down", "up"}]
      BY DEF Pools, DescTo
    <3> QED BY <3>1, <3>2, <2>4
  <2>21. p.first[part] = d => q.first[part] = p.descNext[d]
    <3>1. ASSUME p.first[part] = d PROVE p.descPrev[d] = None
      <4>1. /\ c[part] \in Seq(Desc) /\ ChainOK(p, c[part], part)
            /\ Elements(c[part]) = {x \in Desc : home[x] = part}
        BY DEF NotesOK
      <4> DEFINE s == c[part]
      <4>2. PICK i \in 1 .. Len(s) : s[i] = d
        BY <4>1 DEF Elements
      <4>3. s # <<>> /\ 1 \in 1 .. Len(s)
        BY <4>1, <4>2, NoCells
      <4>4. s[1] = d
        BY <4>1, <4>3, <3>1 DEF ChainOK, ListOf
      <4> QED BY <4>1, <4>3, <4>4 DEF ChainOK
    <3>2. q.first = ClosedFirst(p, d, part)
      BY <2>1, <2>13 DEF SameNotes
    <3>3. p.first \in [Part -> OrNone(Desc)]
      BY DEF Pools, PartTo
    <3> QED BY <3>1, <3>2, <3>3 DEF ClosedFirst
  <2>23. CurrentOK(q, home2)
    BY <2>17, <2>22 DEF CurrentOK
  <2> QED BY <2>13, <2>14, <2>16, <2>18, <2>19, <2>20, <2>21, <2>23, <1>3 DEF n, H2Done
<1> QED BY <1>2, <1>3
-----------------------------------------------------------------------------
(* The whole pool. *)

\* a1e4: each part counts the voices it plays.
CountOK(p, I) ==
  \A part \in Part : p.count[part] = Cardinality({v \in Voice \ I : p.part[v] = part})

\* The free bit is set for idle voices and for those given to a note that is
\* not filled yet.
BitsOK(p, I) ==
  /\ {v \in Voice : p.free[v]} = I \cup Elements(p.fresh)
  /\ \A v \in Elements(p.fresh) : v \notin I
  /\ Distinct(p.fresh)

\* The idle list f, the free descriptors e, the chains c and the parts home of
\* the notes are what the tables hold. X are the notes opened and still without
\* a voice.
Sound(p, f, e, c, home, X) ==
  /\ p \in Pools /\ home \in [Desc -> OrNone(Part)]
  /\ IdleOK(p, f) /\ VoicesOK(p, Elements(f), home, X) /\ NotesOK(p, e, c, home)
  /\ CountOK(p, Elements(f)) /\ BitsOK(p, Elements(f))
  /\ CurrentOK(p, home)
  /\ p.short \in 0 .. 2

\* There are such lists.
Good(p) == \E f, e, c, home : Sound(p, f, e, c, home, {})

(* The lists that are read are the lists there are. *)
LEMMA ListsAre ==
  ASSUME NEW p, NEW f, NEW e, NEW c, NEW home, Sound(p, f, e, c, home, {})
  PROVE  /\ FreeList(p) = f /\ DescList(p) = e
         /\ Elements(e) = {d \in Desc : home[d] = None}
         /\ Distinct(f) /\ Distinct(e)
<1>1. f \in Seq(Voice) /\ ListOf(f, p.freeNext, p.freeHead)
  BY DEF Sound, IdleOK
<1>2. /\ e \in Seq(Desc) /\ ListOf(e, p.descNext, p.descFree)
      /\ Elements(e) = {d \in Desc : home[d] = None}
  BY DEF Sound, NotesOK
<1>3. e \in Seq(Voice)
  BY <1>2 DEF Voice, Desc
<1>4. FreeList(p) = f
  BY <1>1, WalkIs DEF FreeList
<1>5. DescList(p) = e
  BY <1>2, <1>3, WalkIs DEF DescList
<1> QED BY <1>1, <1>2, <1>4, <1>5 DEF ListOf

(* Voices have been put before and behind the idle list of o, no owner has  *)
(* been changed.                                                           *)
Moved(p, o) ==
  /\ p.desc = o.desc /\ FreeList(o) \in Seq(Voice)
  /\ \E front, back \in Seq(Voice) : FreeList(p) = (front \o FreeList(o)) \o back

\* The idle list with a voice more at one of its ends.
Back(q, p, v) ==
  /\ q.desc = p.desc
  /\ FreeList(q) = Append(FreeList(p), v) \/ FreeList(q) = <<v>> \o FreeList(p)

\* Concatenation is associative.
LEMMA Regroup ==
  ASSUME NEW a \in Seq(Voice), NEW b \in Seq(Voice), NEW c \in Seq(Voice)
  PROVE  (a \o b) \o c = a \o (b \o c)
BY ConcatAssociative

\* A voice given back is put before or behind the idle list.
LEMMA MovedBack ==
  ASSUME NEW o, NEW p, NEW q, NEW v \in Voice, Moved(p, o), Back(q, p, v)
  PROVE  Moved(q, o)
<1> DEFINE g == FreeList(o)
<1>1. PICK front, back \in Seq(Voice) : FreeList(p) = (front \o g) \o back
  BY DEF Moved
<1>2. g \in Seq(Voice) /\ <<v>> \in Seq(Voice)
  BY DEF Moved
<1> HIDE DEF g
<1>3. front \o g \in Seq(Voice) /\ (front \o g) \o back \in Seq(Voice)
  BY <1>2, ConcatProperties
<1>4. CASE FreeList(q) = Append(FreeList(p), v)
  <2>1. FreeList(q) = ((front \o g) \o back) \o <<v>>
    BY <1>1, <1>3, <1>4, AppendIsConcat
  <2>2. FreeList(q) = (front \o g) \o (back \o <<v>>)
    <3> DEFINE fg == front \o g
               one == <<v>>
    <3>1. /\ fg \in Seq(Voice) /\ one \in Seq(Voice)
          /\ FreeList(q) = (fg \o back) \o one
      BY <2>1, <1>2, <1>3
    <3> HIDE DEF fg, one
    <3>2. (fg \o back) \o one = fg \o (back \o one)
      BY <3>1, Regroup
    <3>3. FreeList(q) = fg \o (back \o one)
      BY <3>1, <3>2
    <3> QED BY <3>3 DEF fg, one
  <2>3. back \o <<v>> \in Seq(Voice)
    BY <1>2, ConcatProperties
  <2> QED BY <2>2, <2>3 DEF Moved, Back, g
<1>5. CASE FreeList(q) = <<v>> \o FreeList(p)
  <2>1. FreeList(q) = (<<v>> \o (front \o g)) \o back
    <3> DEFINE fg == front \o g
    <3>1. FreeList(q) = <<v>> \o (fg \o back) /\ fg \in Seq(Voice)
      BY <1>1, <1>3, <1>5
    <3>2. FreeList(q) = (<<v>> \o fg) \o back
      <4> DEFINE one == <<v>>
      <4>1. one \in Seq(Voice) /\ FreeList(q) = one \o (fg \o back)
        BY <3>1, <1>2
      <4> HIDE DEF one, fg
      <4>2. (one \o fg) \o back = one \o (fg \o back)
        BY <3>1, <4>1, Regroup
      <4>3. FreeList(q) = (one \o fg) \o back
        BY <4>1, <4>2
      <4> QED BY <4>3 DEF one
    <3> QED BY <3>2
  <2>2. <<v>> \o (front \o g) = (<<v>> \o front) \o g
    <3> DEFINE one == <<v>>
    <3>1. one \in Seq(Voice)
      BY <1>2
    <3> HIDE DEF one
    <3>2. one \o (front \o g) = (one \o front) \o g
      BY <3>1, <1>2, Regroup
    <3> QED BY <3>2 DEF one
  <2>4. FreeList(q) = ((<<v>> \o front) \o g) \o back
    BY <2>1, <2>2
  <2>3. <<v>> \o front \in Seq(Voice)
    BY <1>2, ConcatProperties
  <2> QED BY <2>3, <2>4 DEF Moved, Back, g
<1> QED BY <1>4, <1>5 DEF Back

\* No voice at all has been put there at first.
LEMMA MovedSelf ==
  ASSUME NEW p, FreeList(p) \in Seq(Voice)
  PROVE  Moved(p, p)
<1> DEFINE g == FreeList(p)
<1>1. <<>> \in Seq(Voice) /\ g = (<<>> \o g) \o <<>>
  BY ConcatEmptySeq
<1> QED BY <1>1 DEF Moved

(* What a voice given back leaves alone. *)
Rest(q, p, d) ==
  /\ q.part = p.part /\ q.fresh = p.fresh
  /\ \A x \in Desc \ {d} : q.tail[x] = p.tail[x]
\* What giving a voice of d back leaves.
Freed(q, p, d, part) ==
  /\ Rest(q, p, d)
  /\ q.tail[d] # None => q.part[q.tail[d]] = part
  /\ q.freeCount = p.freeCount + 1
  /\ q.count = [p.count EXCEPT ![part] = @ - 1]
  /\ p.first[part] = d => IF q.tail[d] = None THEN q.first[part] = p.descNext[d]
                          ELSE q.first[part] = d /\ q.descNext[d] = p.descNext[d]

(* Voices of the parts P have been given back, and are not let go any more; *)
(* of all other voices and their notes the marks are those of o.           *)
IdleSet(p) == Elements(FreeList(p))
SameGates(p, o) == p.held = o.held /\ p.hold = o.hold /\ p.table = o.table
Eased(p, o, P) ==
  /\ p.part = o.part /\ p.desc = o.desc /\ p.key = o.key /\ SameGates(p, o)
  /\ IdleSet(o) \subseteq IdleSet(p)
  /\ \A v \in IdleSet(p) \ IdleSet(o) : v \in Voice /\ o.part[v] \in P /\ ~p.gateOff[v]
  /\ \A v \in IdleSet(o) : p.gateOff[v] => o.gateOff[v]
  /\ \A v \in Voice \ IdleSet(p) : /\ p.gateOff[v] = o.gateOff[v]
                                   /\ p.state[p.desc[v]] = o.state[o.desc[v]]

\* No step is one that eases,
LEMMA EasedSelf == ASSUME NEW p, NEW P PROVE Eased(p, p, P)
  BY DEF Eased, SameGates

\* two are one,
LEMMA EasedTwice ==
  ASSUME NEW o, NEW p, NEW q, NEW P, NEW Q, Eased(p, o, P), Eased(q, p, Q), Q \subseteq P
  PROVE  Eased(q, o, P)
<1>1. /\ q.part = o.part /\ q.desc = o.desc /\ q.key = o.key /\ SameGates(q, o)
      /\ IdleSet(o) \subseteq IdleSet(q)
  BY DEF Eased, SameGates
<1>2. ASSUME NEW v \in IdleSet(q) \ IdleSet(o)
      PROVE  v \in Voice /\ o.part[v] \in P /\ ~q.gateOff[v]
  <2>1. CASE v \in IdleSet(p)
    BY <2>1 DEF Eased
  <2>2. CASE v \notin IdleSet(p)
    BY <2>2 DEF Eased
  <2> QED BY <2>1, <2>2
<1>3. \A v \in IdleSet(o) : q.gateOff[v] => o.gateOff[v]
  BY DEF Eased
<1>4. \A v \in Voice \ IdleSet(q) : /\ q.gateOff[v] = o.gateOff[v]
                                    /\ q.state[q.desc[v]] = o.state[o.desc[v]]
  BY DEF Eased
<1> QED BY <1>1, <1>2, <1>3, <1>4 DEF Eased

(* What leaves the idle list, the notes and their marks alone. *)
LEMMA EasedMore ==
  ASSUME NEW o, NEW p, NEW q, NEW P, Eased(p, o, P), Eased(q, p, {})
  PROVE  Eased(q, o, P)
  BY EasedTwice

\* one that gives nothing back may come before one that does,
LEMMA EasedThen ==
  ASSUME NEW o, NEW p, NEW q, NEW Q, Eased(p, o, {}), Eased(q, p, Q)
  PROVE  Eased(q, o, Q)
<1>1. Eased(p, o, Q)
  BY EasedSelf, EasedTwice
<1> QED BY <1>1, EasedTwice

\* and so is one that writes none of these tables.
LEMMA EasedSame ==
  ASSUME NEW p, NEW q, SameIdle(q, p), SameVoices(q, p), SameNotes(q, p),
         SameGates(q, p), q.gateOff = p.gateOff
  PROVE  Eased(q, p, {})
<1>1. IdleSet(q) = IdleSet(p)
  BY DEF IdleSet, FreeList, SameIdle
<1> QED BY <1>1 DEF Eased, SameVoices, SameNotes

\* Writing the gate marks stays within the ranges.
LEMMA MarkCells ==
  ASSUME NEW p \in Pools, NEW g \in VoiceTo(BOOLEAN)
  PROVE  [p EXCEPT !.gateOff = g] \in Pools
  BY Zenon DEF Pools

Ungated(q, p, v) == q.gateOff = [p.gateOff EXCEPT ![v] = FALSE]

\* Clearing the gate mark of a voice leaves the lists alone.
LEMMA UngateKeeps ==
  ASSUME NEW p \in Pools, NEW v \in Voice, NEW q, q = [p EXCEPT !.gateOff[v] = FALSE]
  PROVE  /\ q \in Pools /\ SameIdle(q, p) /\ SameVoices(q, p) /\ SameNotes(q, p)
         /\ SameCount(q, p) /\ SameGates(q, p) /\ Ungated(q, p, v)
         /\ q.free = p.free /\ q.fresh = p.fresh /\ q.short = p.short
<1> DEFINE g == [p.gateOff EXCEPT ![v] = FALSE]
<1>1. p.gateOff \in [Voice -> BOOLEAN]
  BY DEF Pools, VoiceTo
<1>2. g \in VoiceTo(BOOLEAN)
  BY <1>1 DEF VoiceTo
<1>3. q = [p EXCEPT !.gateOff = g]
  BY DEF Pools
<1> HIDE DEF g
<1>4. [p EXCEPT !.gateOff = g] \in Pools
  BY <1>2, MarkCells, Zenon
<1>5. q \in Pools
  BY <1>3, <1>4, Zenon
<1>6. /\ SameIdle(q, p) /\ SameVoices(q, p) /\ SameNotes(q, p) /\ SameCount(q, p)
      /\ q.free = p.free /\ q.fresh = p.fresh /\ q.short = p.short
  BY <1>3 DEF Pools, SameIdle, SameVoices, SameNotes, SameCount
<1>7. SameGates(q, p) /\ q.gateOff = g
  BY <1>3 DEF Pools, SameGates
<1> QED BY <1>5, <1>6, <1>7 DEF g, Ungated

\* There are finitely many voices.
LEMMA VoiceSets == IsFiniteSet(Voice) /\ Cardinality(Voice) = Voices
  BY Sizes, FS_Interval DEF Voice

(* A voice given back is counted out. *)
LEMMA CountDown ==
  ASSUME NEW p, NEW q, NEW I \in SUBSET Voice, CountOK(p, I), NEW v \in Voice \ I,
         NEW part \in Part, p.part[v] = part, p.count \in [Part -> Int],
         q.part = p.part, q.count = [p.count EXCEPT ![part] = @ - 1]
  PROVE  CountOK(q, I \cup {v})
<1> SUFFICES ASSUME NEW r \in Part
             PROVE  q.count[r] = Cardinality({u \in Voice \ (I \cup {v}) : q.part[u] = r})
  BY DEF CountOK
<1> DEFINE S == {u \in Voice \ I : p.part[u] = r}
           T == {u \in Voice \ (I \cup {v}) : q.part[u] = r}
<1>1. p.count[r] = Cardinality(S)
  BY DEF CountOK
<1>2. CASE r # part
  <2>1. T = S
    BY <1>2
  <2> QED BY <2>1, <1>1, <1>2
<1>3. CASE r = part
  <2>1. T = S \ {v} /\ v \in S
    BY <1>3
  <2>2. IsFiniteSet(S)
    BY VoiceSets, FS_Subset
  <2>3. Cardinality(T) = Cardinality(S) - 1
    <3> HIDE DEF S, T
    <3> QED BY <2>1, <2>2, FS_RemoveElement
  <2> QED BY <2>3, <1>1, <1>3
<1> QED BY <1>2, <1>3

(* The voices of a note that is closed. *)
LEMMA VoicesClosed ==
  ASSUME NEW p, NEW I, NEW home \in [Desc -> OrNone(Part)], NEW d \in Desc,
         VoicesOK(p, I, home, {d})
  PROVE  VoicesOK(p, I, [home EXCEPT ![d] = None], {})
<1> DEFINE home2 == [home EXCEPT ![d] = None]
<1>1. home2[d] = None /\ \A x \in Desc \ {d} : home2[x] = home[x]
  OBVIOUS
<1>2. \A x \in Desc : home2[x] = None <=> (home[x] = None \/ x \in {d})
  BY <1>1
<1>3. \A x \in Desc : home2[x] # None => home2[x] = home[x]
  BY <1>1
<1> HIDE DEF home2
<1>4. VoicesOK(p, I, home2, {})
  BY <1>1, <1>2, <1>3 DEF VoicesOK
<1> QED BY <1>4 DEF home2

(* Giving a voice back, to either end of the free list. *)
IdleDone(q, p, v, f) ==
  /\ q \in Pools
  /\ \E g : /\ IdleOK(q, g) /\ Elements(g) = Elements(f) \cup {v}
            /\ g = Append(f, v) \/ g = <<v>> \o f
  /\ SameVoices(q, p) /\ SameNotes(q, p) /\ SameMarks(q, p) /\ SameCount(q, p)
  /\ q.free = [p.free EXCEPT ![v] = TRUE]
  /\ q.freeCount = p.freeCount + 1

\* Either end does.
LEMMA ToIdle ==
  ASSUME NEW p \in Pools, NEW f, IdleOK(p, f), NEW v \in Voice, v \notin Elements(f),
         NEW q, q = AppendFree(p, v) \/ q = PushFree(p, v)
  PROVE  IdleDone(q, p, v, f)
<1>1. CASE q = AppendFree(p, v)
  <2>1. /\ q \in Pools /\ IdleOK(q, Append(f, v))
        /\ Elements(Append(f, v)) = Elements(f) \cup {v}
    BY <1>1, AppendFreeKeeps
  <2>2. SameVoices(q, p) /\ SameNotes(q, p) /\ SameMarks(q, p) /\ SameCount(q, p)
    BY <1>1, AppendFreeKeeps
  <2>3. q.free = [p.free EXCEPT ![v] = TRUE] /\ q.freeCount = p.freeCount + 1
    BY <1>1, AppendFreeKeeps
  <2> QED BY <2>1, <2>2, <2>3 DEF IdleDone
<1>2. CASE q = PushFree(p, v)
  <2>1. /\ q \in Pools /\ IdleOK(q, <<v>> \o f)
        /\ Elements(<<v>> \o f) = Elements(f) \cup {v}
    BY <1>2, PushFreeKeeps
  <2>2. SameVoices(q, p) /\ SameNotes(q, p) /\ SameMarks(q, p) /\ SameCount(q, p)
    BY <1>2, PushFreeKeeps
  <2>3. q.free = [p.free EXCEPT ![v] = TRUE] /\ q.freeCount = p.freeCount + 1
    BY <1>2, PushFreeKeeps
  <2> QED BY <2>1, <2>2, <2>3 DEF IdleDone
<1> QED BY <1>1, <1>2

\* The three steps of ReleaseA, ReleaseB and FreeVoice: out of its note, into
\* the idle list, out of the count.
LEMMA BackKeeps ==
  ASSUME NEW p, NEW f, NEW e, NEW c, NEW home, Sound(p, f, e, c, home, {}),
         NEW v \in Voice \ Elements(f), v \notin Elements(p.fresh),
         NEW d, d = p.desc[v], NEW part, part = p.part[v],
         NEW p0, p0 = [p EXCEPT !.gateOff[v] = FALSE],
         NEW p1, p1 = H1(p0, v, d),
         NEW p2, p2 = AppendFree(p1, v) \/ p2 = PushFree(p1, v),
         NEW q, q = H2(p2, d, part)
  PROVE  /\ Good(q) /\ Freed(q, p, d, part) /\ Back(q, p, v)
         /\ q.short = p.short /\ Eased(q, p, {part})
<1> DEFINE I == Elements(f)
<1>1. /\ p \in Pools /\ home \in [Desc -> OrNone(Part)]
      /\ IdleOK(p, f) /\ VoicesOK(p, I, home, {}) /\ NotesOK(p, e, c, home)
      /\ CountOK(p, I) /\ BitsOK(p, I)
      /\ CurrentOK(p, home)
      /\ p.short \in 0 .. 2
  BY DEF Sound
<1>2. I \in SUBSET Voice
  BY <1>1 DEF IdleOK, Elements
<1>3. /\ p0 \in Pools /\ SameIdle(p0, p) /\ SameVoices(p0, p) /\ SameNotes(p0, p)
      /\ SameCount(p0, p) /\ SameGates(p0, p) /\ Ungated(p0, p, v)
      /\ p0.free = p.free /\ p0.fresh = p.fresh /\ p0.short = p.short
  BY <1>1, UngateKeeps
<1> HIDE DEF I
<1>4. VoicesOK(p0, I, home, {})
  BY <1>1, <1>3, VoicesSame
<1>5. v \in Voice \ I /\ d = p0.desc[v] /\ part = p0.part[v]
  BY <1>3 DEF SameVoices, I
<1> DEFINE X == IF p1.head[d] = None THEN {d} ELSE {}
<1>6. /\ d \in Desc /\ p1 \in Pools /\ VoicesOK(p1, I \cup {v}, home, X)
      /\ SameIdle(p1, p0) /\ SameNotes(p1, p0) /\ SameMarks(p1, p0) /\ SameCount(p1, p0)
      /\ p1.free = p0.free /\ p1.part = p0.part /\ p1.desc = p0.desc
      /\ \A x \in Desc \ {d} : p1.tail[x] = p0.tail[x]
  <2>1. H1Done(p1, p0, v, d, I, home)
    BY <1>1, <1>2, <1>3, <1>4, <1>5, H1Keeps
  <2> QED BY <2>1 DEF H1Done
<1> HIDE DEF X
<1>7. part \in Part /\ home[d] = part
  <2>1. /\ p.desc[v] \in Desc /\ home[p.desc[v]] # None
        /\ v \in {p.tail[p.desc[v]], p.head[p.desc[v]]}
    BY <1>1, <1>5 DEF VoicesOK
  <2>2. p.part[p.tail[d]] = home[d] /\ p.part[p.head[d]] = home[d]
    BY <2>1, <1>1 DEF VoicesOK
  <2> QED BY <2>1, <2>2, <1>1 DEF OrNone
<1>8. IdleOK(p1, f) /\ NotesOK(p1, e, c, home)
  BY <1>1, <1>3, <1>6, IdleSame, NotesSame
<1>9. PICK g : /\ IdleOK(p2, g) /\ Elements(g) = I \cup {v}
               /\ g = Append(f, v) \/ g = <<v>> \o f
  <2>1. v \notin Elements(f) /\ v \in Voice
    BY <1>5 DEF I
  <2>2. IdleDone(p2, p1, v, f)
    BY <2>1, <1>6, <1>8, ToIdle
  <2> QED BY <2>2 DEF I, IdleDone
<1>10. /\ p2 \in Pools /\ SameVoices(p2, p1) /\ SameNotes(p2, p1) /\ SameMarks(p2, p1)
       /\ SameCount(p2, p1)
       /\ p2.free = [p1.free EXCEPT ![v] = TRUE] /\ p2.freeCount = p1.freeCount + 1
  <2>1. v \notin Elements(f) /\ v \in Voice
    BY <1>5 DEF I
  <2>2. IdleDone(p2, p1, v, f)
    BY <2>1, <1>6, <1>8, ToIdle
  <2> QED BY <2>2 DEF IdleDone
<1>11. VoicesOK(p2, I \cup {v}, home, X) /\ NotesOK(p2, e, c, home)
  BY <1>6, <1>8, <1>10, VoicesSame, NotesSame DEF X
<1>12. CurrentOK(p2, home)
  <2>1. p2.key = p.key /\ p2.current = p.current
    BY <1>3, <1>6, <1>10 DEF SameNotes, SameCount
  <2>2. CurrentOK(p, home) => CurrentOK(p2, home)
    BY <2>1 DEF CurrentOK, HasCurrent, LowestCurrent
  <2> QED BY <2>2, <1>1
<1> DEFINE home2 == HomeAfter(p2, d, home)
<1>13. /\ q \in Pools
       /\ SameIdle(q, p2) /\ SameVoices(q, p2) /\ SameMarks(q, p2) /\ q.free = p2.free
       /\ q.count = [p2.count EXCEPT ![part] = @ - 1] /\ q.key = p2.key
       /\ \A x \in Desc : home2[x] # None => q.state[x] = p2.state[x]
       /\ IF p2.head[d] = None
          THEN p2.first[part] = d => q.first[part] = p2.descNext[d]
          ELSE q.first = p2.first /\ q.descNext = p2.descNext
       /\ CurrentOK(q, home2)
       /\ \E e2, c2 : NotesOK(q, e2, c2, home2)
  <2>1. H2Done(q, p2, d, part, home)
    BY <1>1, <1>6, <1>7, <1>10, <1>11, <1>12, H2Keeps
  <2> QED BY <2>1 DEF H2Done
<1>14. PICK e2, c2 : NotesOK(q, e2, c2, home2)
  BY <1>13
<1>15. p2.head = p1.head
  BY <1>10 DEF SameVoices
<1>16. VoicesOK(q, I \cup {v}, home2, {})
  <2>1. VoicesOK(q, I \cup {v}, home, X)
    BY <1>11, <1>13, VoicesSame
  <2>2. CASE p2.head[d] = None
    BY <2>1, <2>2, <1>1, <1>6, <1>15, VoicesClosed DEF HomeAfter, X
  <2>3. CASE p2.head[d] # None
    BY <2>1, <2>3, <1>15 DEF HomeAfter, X
  <2> QED BY <2>2, <2>3
<1>17. home2 \in [Desc -> OrNone(Part)]
  BY <1>1, <1>6 DEF HomeAfter, OrNone
<1> HIDE DEF home2
<1>18. IdleOK(q, g)
  BY <1>9, <1>13, IdleSame
<1>19. q.part = p.part /\ q.fresh = p.fresh /\ q.short = p.short
  <2>1. q.part = p2.part /\ p2.part = p1.part /\ p0.part = p.part
    BY <1>3, <1>10, <1>13 DEF SameVoices
  <2>2. q.fresh = p2.fresh /\ p2.fresh = p1.fresh /\ p1.fresh = p0.fresh
    BY <1>6, <1>10, <1>13 DEF SameMarks
  <2>3. q.short = p2.short /\ p2.short = p1.short /\ p1.short = p0.short
    BY <1>6, <1>10, <1>13 DEF SameMarks
  <2> QED BY <2>1, <2>2, <2>3, <1>3, <1>6
<1>30. q.desc = p.desc
  <2>1. q.desc = p2.desc /\ p2.desc = p1.desc /\ p0.desc = p.desc
    BY <1>3, <1>10, <1>13 DEF SameVoices
  <2> QED BY <2>1, <1>6
<1>31. q.key = p.key
  <2>1. p2.key = p1.key /\ p1.key = p0.key /\ p0.key = p.key
    BY <1>3, <1>6, <1>10 DEF SameNotes
  <2> QED BY <2>1, <1>13
<1>32. p2.state = p.state
  BY <1>3, <1>6, <1>10 DEF SameNotes
<1>33. p2.count = p.count
  BY <1>3, <1>6, <1>10 DEF SameCount
<1>34. q.freeCount = p.freeCount + 1
  <2>1. q.freeCount = p2.freeCount /\ p1.freeCount = p0.freeCount /\ p0.freeCount = p.freeCount
    BY <1>3, <1>6, <1>13 DEF SameIdle
  <2> QED BY <2>1, <1>10
<1>20. CountOK(q, I \cup {v})
  <2>1. p2.count = p.count
    BY <1>3, <1>6, <1>10 DEF SameCount
  <2>2. p.count \in [Part -> Int]
    BY <1>1 DEF Pools, PartTo
  <2>3. p.part[v] = part
    OBVIOUS
  <2> QED BY <2>1, <2>2, <2>3, <1>1, <1>2, <1>5, <1>7, <1>13, <1>19, CountDown
<1>21. BitsOK(q, I \cup {v})
  <2>1. q.free = [p.free EXCEPT ![v] = TRUE] /\ p.free \in [Voice -> BOOLEAN]
    BY <1>1, <1>3, <1>6, <1>10, <1>13 DEF Pools, VoiceTo
  <2>2. {u \in Voice : q.free[u]} = {u \in Voice : p.free[u]} \cup {v}
    <3> DEFINE x == p.free
               y == q.free
    <3>1. y = [x EXCEPT ![v] = TRUE] /\ x \in [Voice -> BOOLEAN]
      BY <2>1
    <3> HIDE DEF x, y
    <3>2. y[v] = TRUE /\ \A u \in Voice \ {v} : y[u] = x[u]
      BY <3>1
    <3>3. {u \in Voice : y[u]} = {u \in Voice : x[u]} \cup {v}
      BY <3>2, <1>5, Zenon
    <3> QED BY <3>3 DEF x, y
  <2> QED BY <2>2, <1>1, <1>19 DEF BitsOK
<1>22. Sound(q, g, e2, c2, home2, {})
  <2>1. CurrentOK(q, home2)
    BY <1>13 DEF home2
  <2>2. NotesOK(q, e2, c2, home2)
    BY <1>14 DEF home2
  <2>3. VoicesOK(q, Elements(g), home2, {}) /\ CountOK(q, Elements(g)) /\ BitsOK(q, Elements(g))
    BY <1>9, <1>16, <1>20, <1>21 DEF home2
  <2> QED BY <2>1, <2>2, <2>3, <1>1, <1>13, <1>17, <1>18, <1>19 DEF Sound
<1>23. Freed(q, p, d, part)
  <2>1. \A x \in Desc \ {d} : q.tail[x] = p.tail[x]
    <3>1. q.tail = p1.tail
      BY <1>10, <1>13 DEF SameVoices
    <3>2. p0.tail = p.tail
      BY <1>3 DEF SameVoices
    <3>3. \A x \in Desc \ {d} : p1.tail[x] = p0.tail[x]
      BY <1>6
    <3> QED BY <3>1, <3>2, <3>3
  <2>2. q.freeCount = p.freeCount + 1
    BY <1>34
  <2>3. q.tail[d] # None => q.part[q.tail[d]] = part
    <3>1. home2[d] = None \/ home2[d] = part
      BY <1>1, <1>6, <1>7 DEF home2, HomeAfter
    <3> QED BY <3>1, <1>6, <1>16 DEF VoicesOK
  <2>4. q.count = [p.count EXCEPT ![part] = @ - 1]
    BY <1>13, <1>33
  <2>5. p.first[part] = d => IF q.tail[d] = None THEN q.first[part] = p.descNext[d]
                             ELSE q.first[part] = d /\ q.descNext[d] = p.descNext[d]
    <3>1. p2.first = p.first /\ p2.descNext = p.descNext
      BY <1>3, <1>6, <1>10 DEF SameNotes
    <3>2. p2.head[d] = None <=> home2[d] = None
      <4>1. home[d] # None
        BY <1>7, NoneIsNone
      <4>2. CASE p2.head[d] = None
        <5>1. home2 = [home EXCEPT ![d] = None]
          BY <4>2 DEF home2, HomeAfter
        <5>2. d \in Desc /\ home \in [Desc -> OrNone(Part)]
          BY <1>1, <1>6
        <5> QED BY <5>1, <5>2, <4>2
      <4>3. CASE p2.head[d] # None
        BY <4>1, <4>3 DEF home2, HomeAfter
      <4> QED BY <4>2, <4>3
    <3>3. q.tail[d] = None <=> home2[d] = None
      <4>1. d \in Desc /\ VoicesOK(q, I \cup {v}, home2, {})
        BY <1>6, <1>16
      <4>2. /\ home2[d] = None => q.tail[d] = None
            /\ home2[d] # None => q.tail[d] \in Voice
        BY <4>1 DEF VoicesOK
      <4> QED BY <4>2, NoneIsNone
    <3> QED BY <3>1, <3>2, <3>3, <1>13
  <2> QED BY <2>1, <2>2, <2>3, <2>4, <2>5, <1>19 DEF Freed, Rest
<1>24. Good(q)
  BY <1>22 DEF Good
<1>25. Back(q, p, v)
  <2>1. FreeList(q) = g /\ FreeList(p) = f
    BY <1>22, ListsAre
  <2> QED BY <2>1, <1>30, <1>9 DEF Back
<1>26. Eased(q, p, {part})
  <2>1. IdleSet(q) = I \cup {v} /\ IdleSet(p) = I
    <3>1. FreeList(q) = g /\ FreeList(p) = f
      BY <1>22, ListsAre
    <3> QED BY <3>1, <1>9 DEF IdleSet, I
  <2>2. q.gateOff = [p.gateOff EXCEPT ![v] = FALSE] /\ p.gateOff \in [Voice -> BOOLEAN]
    <3>1. q.gateOff = p2.gateOff /\ p2.gateOff = p1.gateOff /\ p1.gateOff = p0.gateOff
      BY <1>6, <1>10, <1>13 DEF SameMarks
    <3> QED BY <3>1, <1>1, <1>3 DEF Pools, VoiceTo, Ungated
  <2>3. SameGates(q, p)
    <3>1. q.held = p2.held /\ p2.held = p1.held /\ p1.held = p0.held
      BY <1>6, <1>10, <1>13 DEF SameMarks
    <3>2. q.hold = p2.hold /\ p2.hold = p1.hold /\ p1.hold = p0.hold
      BY <1>6, <1>10, <1>13 DEF SameMarks
    <3>3. q.table = p2.table /\ p2.table = p1.table /\ p1.table = p0.table
      BY <1>6, <1>10, <1>13 DEF SameMarks
    <3> QED BY <3>1, <3>2, <3>3, <1>3 DEF SameGates
  <2>4. q.desc = p.desc /\ q.key = p.key
    BY <1>30, <1>31
  <2>5. \A x \in Desc : home2[x] # None => q.state[x] = p.state[x]
    BY <1>13, <1>32
  <2>6. ASSUME NEW u \in Voice \ (I \cup {v})
        PROVE  q.gateOff[u] = p.gateOff[u] /\ q.state[q.desc[u]] = p.state[p.desc[u]]
    <3>1. q.desc[u] \in Desc /\ home2[q.desc[u]] # None
      BY <1>16 DEF VoicesOK
    <3>2. q.gateOff[u] = p.gateOff[u]
      BY <2>2, <2>6
    <3> QED BY <3>1, <3>2, <2>4, <2>5
  <2>7. ~q.gateOff[v] /\ \A u \in Voice : q.gateOff[u] => p.gateOff[u]
    BY <2>2, <1>5
  <2> QED BY <2>1, <2>3, <2>4, <2>6, <2>7, <1>2, <1>5, <1>19 DEF Eased
<1> QED BY <1>19, <1>23, <1>24, <1>25, <1>26

-----------------------------------------------------------------------------
(* What leaves the lists alone. *)
SameLists(q, p) ==
  /\ SameIdle(q, p) /\ SameVoices(q, p) /\ SameNotes(q, p) /\ SameCount(q, p)
  /\ q.free = p.free /\ q.fresh = p.fresh

\* A pool is sound while its lists are.
LEMMA SoundSame ==
  ASSUME NEW p, NEW f, NEW e, NEW c, NEW home, NEW X, Sound(p, f, e, c, home, X),
         NEW q \in Pools, SameLists(q, p), q.short \in 0 .. 2
  PROVE  Sound(q, f, e, c, home, X)
<1>1. IdleOK(q, f) /\ VoicesOK(q, Elements(f), home, X) /\ NotesOK(q, e, c, home)
  BY IdleSame, VoicesSame, NotesSame DEF Sound, SameLists
<1>2. CountOK(q, Elements(f)) /\ BitsOK(q, Elements(f))
  <2>1. q.count = p.count /\ q.part = p.part
    BY DEF SameLists, SameCount, SameVoices
  <2>2. CountOK(p, Elements(f)) /\ BitsOK(p, Elements(f))
    BY DEF Sound
  <2>3. CountOK(q, Elements(f))
    BY <2>1, <2>2 DEF CountOK
  <2>4. q.free = p.free /\ q.fresh = p.fresh
    BY DEF SameLists
  <2>5. BitsOK(q, Elements(f))
    BY <2>2, <2>4 DEF BitsOK
  <2> QED BY <2>3, <2>5
<1>3. CurrentOK(q, home)
  <2>1. q.current = p.current /\ q.key = p.key
    BY DEF SameLists, SameCount, SameNotes
  <2>2. CurrentOK(p, home)
    BY DEF Sound
  <2> QED BY <2>1, <2>2 DEF CurrentOK, HasCurrent, LowestCurrent
<1>4. home \in [Desc -> OrNone(Part)]
  BY DEF Sound
<1> QED BY <1>1, <1>2, <1>3, <1>4 DEF Sound

\* Nor does a step that leaves the lists alone put one.
LEMMA MovedSame ==
  ASSUME NEW o, NEW p, NEW q, Moved(p, o), SameLists(q, p)
  PROVE  Moved(q, o)
<1>1. FreeList(q) = FreeList(p) /\ q.desc = p.desc
  BY DEF FreeList, SameLists, SameIdle, SameVoices
<1> QED BY <1>1 DEF Moved

\* The same, for whatever the lists are.
LEMMA GoodSame ==
  ASSUME NEW p, Good(p), NEW q \in Pools, SameLists(q, p), q.short \in 0 .. 2
  PROVE  Good(q)
<1>1. PICK f, e, c, home : Sound(p, f, e, c, home, {})
  BY DEF Good
<1>2. Sound(q, f, e, c, home, {})
  BY <1>1, SoundSame
<1> QED BY <1>2 DEF Good

\* Writing the number of voices that are missing stays within the ranges.
LEMMA ShortCells ==
  ASSUME NEW p \in Pools, NEW n \in Int
  PROVE  [p EXCEPT !.short = n] \in Pools
  BY Zenon DEF Pools

\* It is in none of the lists.
LEMMA ShortKeeps ==
  ASSUME NEW p, Good(p), NEW n \in 0 .. 2, NEW q, q = [p EXCEPT !.short = n]
  PROVE  Good(q) /\ SameLists(q, p) /\ q.short = n /\ Eased(q, p, {})
<1>1. p \in Pools
  BY DEF Good, Sound
<1>2. n \in Int
  OBVIOUS
<1>3. [p EXCEPT !.short = n] \in Pools
  BY <1>1, <1>2, ShortCells, Zenon
<1>4. q \in Pools
  BY <1>3, Zenon
<1>5. /\ SameIdle(q, p) /\ SameVoices(q, p) /\ SameNotes(q, p) /\ SameCount(q, p)
      /\ q.free = p.free /\ q.fresh = p.fresh /\ q.short = n
  BY <1>1 DEF Pools, SameIdle, SameVoices, SameNotes, SameCount
<1>6. SameLists(q, p)
  BY <1>5 DEF SameLists
<1>7. SameGates(q, p) /\ q.gateOff = p.gateOff
  BY <1>1 DEF Pools, SameGates
<1>8. Eased(q, p, {})
  BY <1>5, <1>7, EasedSame
<1> QED BY <1>4, <1>5, <1>6, <1>8, GoodSame

(* A descriptor with a tail is a note of the part of that voice. *)
InNote(p, d, part) == d \in Desc /\ p.tail[d] # None /\ p.part[p.tail[d]] = part

\* A note has a tail, of its own and of its part; a free descriptor has none.
LEMMA NoteIs ==
  ASSUME NEW p, NEW f, NEW e, NEW c, NEW home, Sound(p, f, e, c, home, {}),
         NEW d \in Desc
  PROVE  /\ p.tail[d] = None <=> home[d] = None
         /\ home[d] # None => /\ p.tail[d] \in Voice \ Elements(f)
                              /\ p.desc[p.tail[d]] = d
                              /\ p.part[p.tail[d]] = home[d] /\ home[d] \in Part
         /\ \A part \in Part : InNote(p, d, part) <=> home[d] = part
<1>1. /\ home[d] = None => p.tail[d] = None
      /\ home[d] # None => /\ p.tail[d] \in Voice \ Elements(f)
                           /\ p.desc[p.tail[d]] = d
                           /\ p.part[p.tail[d]] = home[d]
  BY DEF Sound, VoicesOK
<1>2. home[d] \in OrNone(Part)
  BY DEF Sound
<1> QED BY <1>1, <1>2, NoneIsNone DEF InNote, OrNone

\* The chain the model reads is the chain there is.
LEMMA ChainIs ==
  ASSUME NEW p, NEW f, NEW e, NEW c, NEW home, NEW X, Sound(p, f, e, c, home, X),
         NEW part \in Part
  PROVE  /\ Chain(p, part) = c[part] /\ c[part] \in Seq(Desc)
         /\ ChainOK(p, c[part], part)
         /\ Elements(c[part]) = {d \in Desc : home[d] = part}
<1>1. /\ c[part] \in Seq(Desc) /\ ChainOK(p, c[part], part)
      /\ Elements(c[part]) = {d \in Desc : home[d] = part}
  BY DEF Sound, NotesOK
<1>2. c[part] \in Seq(Voice)
  BY <1>1 DEF Voice, Desc
<1>3. Chain(p, part) = c[part]
  BY <1>1, <1>2, WalkIs DEF Chain, ChainOK
<1> QED BY <1>1, <1>3

(* The voices a part is counted with. *)
Used(p, part) == {v \in Voice \ IdleSet(p) : p.part[v] = part}

\* The count of a part is the number of its voices.
LEMMA Counted ==
  ASSUME NEW p, Good(p), NEW part \in Part
  PROVE  /\ p.count[part] = Cardinality(Used(p, part))
         /\ IsFiniteSet(Used(p, part)) /\ p.count[part] \in 0 .. Voices
<1>1. PICK f, e, c, home : Sound(p, f, e, c, home, {})
  BY DEF Good
<1>2. IdleSet(p) = Elements(f) /\ CountOK(p, Elements(f))
  BY <1>1, ListsAre DEF IdleSet, Sound
<1>3. p.count[part] = Cardinality(Used(p, part))
  BY <1>2 DEF CountOK, Used
<1>4. Used(p, part) \in SUBSET Voice
  BY DEF Used
<1>5. /\ IsFiniteSet(Used(p, part)) /\ Cardinality(Used(p, part)) <= Voices
      /\ Cardinality(Used(p, part)) \in Nat
  <2> DEFINE U == Used(p, part)
  <2> HIDE DEF U
  <2>1. U \in SUBSET Voice
    BY <1>4 DEF U
  <2>2. IsFiniteSet(U) /\ Cardinality(U) <= Cardinality(Voice)
    BY <2>1, VoiceSets, FS_Subset
  <2>3. Cardinality(U) \in Nat
    BY <2>2, FS_CardinalityType
  <2> QED BY <2>2, <2>3, VoiceSets DEF U
<1> QED BY <1>3, <1>5, Sizes

(* Giving voices back lowers no count but those of the parts P. *)
LEMMA CountsEased ==
  ASSUME NEW o, Good(o), NEW p, Good(p), NEW P, Eased(p, o, P), NEW part \in Part
  PROVE  /\ p.count[part] <= o.count[part]
         /\ part \notin P => p.count[part] = o.count[part]
<1>1. Used(p, part) \subseteq Used(o, part)
  BY DEF Used, Eased
<1>2. part \notin P => Used(p, part) = Used(o, part)
  <2>1. ASSUME part \notin P, NEW v \in Used(o, part) PROVE v \in Used(p, part)
    BY <2>1 DEF Used, Eased
  <2> QED BY <2>1, <1>1
<1>3. Cardinality(Used(p, part)) <= Cardinality(Used(o, part))
  <2> DEFINE U == Used(p, part)
             V == Used(o, part)
  <2>1. U \subseteq V /\ IsFiniteSet(V)
    BY <1>1, Counted
  <2> HIDE DEF U, V
  <2>2. Cardinality(U) <= Cardinality(V)
    BY <2>1, FS_Subset
  <2> QED BY <2>2 DEF U, V
<1> QED BY <1>2, <1>3, Counted

(* A part with a note has voices; a part whose chain is empty has none. *)
LEMMA NoteCounts ==
  ASSUME NEW p, Good(p), NEW part \in Part
  PROVE  /\ \A d : InNote(p, d, part) => p.count[part] > 0
         /\ (\A d \in Desc : ~InNote(p, d, part)) => p.count[part] = 0
         /\ p.first[part] = None => p.count[part] = 0
<1>1. PICK f, e, c, home : Sound(p, f, e, c, home, {})
  BY DEF Good
<1>2. IdleSet(p) = Elements(f)
  BY <1>1, ListsAre DEF IdleSet
<1> DEFINE U == Used(p, part)
<1>3. IsFiniteSet(U) /\ p.count[part] = Cardinality(U) /\ p.count[part] \in Nat
  BY Counted
<1>4. p.count[part] = 0 <=> U = {}
  <2> HIDE DEF U
  <2> QED BY <1>3, FS_EmptySet
<1>5. ASSUME NEW d, InNote(p, d, part) PROVE p.count[part] > 0
  <2>1. d \in Desc /\ home[d] # None
    BY <1>1, <1>5, NoteIs, NoneIsNone DEF InNote
  <2>2. p.tail[d] \in Voice \ IdleSet(p) /\ p.part[p.tail[d]] = part
    BY <1>1, <1>2, <1>5, <2>1, NoteIs DEF InNote
  <2>3. U # {}
    BY <2>2 DEF Used
  <2> QED BY <2>3, <1>3, <1>4
<1>6. ASSUME \A d \in Desc : ~InNote(p, d, part) PROVE U = {}
  <2> SUFFICES ASSUME NEW v \in U PROVE FALSE
    OBVIOUS
  <2> DEFINE d == p.desc[v]
  <2>1. v \in Voice \ Elements(f) /\ p.part[v] = part
    BY <1>2 DEF Used
  <2>2. d \in Desc /\ home[d] # None /\ v \in {p.tail[d], p.head[d]}
    BY <1>1, <2>1 DEF Sound, VoicesOK
  <2>3. p.part[p.tail[d]] = home[d] /\ p.part[p.head[d]] = home[d]
    BY <1>1, <2>2 DEF Sound, VoicesOK
  <2>4. home[d] = part
    BY <2>1, <2>2, <2>3
  <2> HIDE DEF d
  <2> QED BY <2>2, <2>4, <1>1, <1>6, NoteIs
<1>7. ASSUME p.first[part] = None, NEW d \in Desc PROVE ~InNote(p, d, part)
  <2>1. /\ c[part] \in Seq(Desc) /\ ChainOK(p, c[part], part)
        /\ Elements(c[part]) = {x \in Desc : home[x] = part}
    BY <1>1, ChainIs
  <2> DEFINE s == c[part]
  <2>2. p.first[part] = IF s = <<>> THEN None ELSE s[1]
    BY <2>1 DEF ChainOK, ListOf
  <2> HIDE DEF s
  <2>3. s = <<>>
    <3>1. ASSUME s # <<>> PROVE FALSE
      <4>1. 1 \in 1 .. Len(s) /\ s[1] \in Desc
        BY <3>1, <2>1, NoCells DEF s
      <4> QED BY <4>1, <3>1, <2>2, <1>7, NoneIsNone
    <3> QED BY <3>1
  <2>4. Elements(s) = {}
    BY <2>3 DEF Elements
  <2>5. home[d] # part
    BY <2>4, <2>1 DEF s
  <2> QED BY <2>5, <1>1, NoteIs
<1> QED BY <1>4, <1>5, <1>6, <1>7

\* Sound, no note waiting to be filled, and need voices idle or accounted for
\* as missing; o is the pool the handler began with.
GN(need, o, P) ==
  {p \in Pools : /\ Good(p) /\ p.fresh = <<>> /\ Moved(p, o) /\ Eased(p, o, P)
                 /\ p.freeCount + p.short >= need}

(* Releasing the tail of a note. *)
ReleaseDone(q, p, d, part, need, o, P) ==
  /\ q \in GN(need, o, P) /\ Rest(q, p, d)
  /\ q.tail[d] = None \/ InNote(q, d, part)
  /\ q.count[part] = p.count[part] - 1
  /\ p.first[part] = d => IF q.tail[d] = None THEN q.first[part] = p.descNext[d]
                          ELSE q.first[part] = d /\ q.descNext[d] = p.descNext[d]

\* Releasing the tail of a note: the voice goes back, and one less is missing.
LEMMA ReleaseKeeps ==
  ASSUME NEW o, NEW P, NEW need \in Int, NEW p \in GN(need, o, P), NEW d, NEW part \in Part,
         part \in P, InNote(p, d, part),
         NEW q, \/ q = ReleaseA(p, p.tail[d], d, part)
                \/ q = ReleaseB(p, p.tail[d], d, part)
  PROVE  ReleaseDone(q, p, d, part, need, o, P)
<1> DEFINE v == p.tail[d]
           p0 == [p EXCEPT !.gateOff[v] = FALSE]
           p1 == H1(p0, v, d)
<1>1. PICK p2 : /\ p2 = AppendFree(p1, v) \/ p2 = PushFree(p1, v)
                /\ q = LessShort(H2(p2, d, part))
  BY DEF ReleaseA, ReleaseB
<1> DEFINE r == H2(p2, d, part)
<1>2. PICK f, e, c, home : Sound(p, f, e, c, home, {})
  BY DEF Good, GN
<1>3. /\ d \in Desc /\ v \in Voice \ Elements(f) /\ p.desc[v] = d /\ p.part[v] = part
  BY <1>2, NoteIs, NoneIsNone DEF InNote
<1>4. v \notin Elements(p.fresh)
  BY DEF GN, Elements
<1>5. /\ Good(r) /\ Freed(r, p, d, part) /\ Back(r, p, v) /\ r.short = p.short
      /\ Eased(r, p, {part})
  <2> HIDE DEF r, p1, p0
  <2>1. /\ p0 = [p EXCEPT !.gateOff[v] = FALSE] /\ p1 = H1(p0, v, d)
        /\ r = H2(p2, d, part)
    BY DEF r, p1, p0
  <2>2. p2 = AppendFree(p1, v) \/ p2 = PushFree(p1, v)
    BY <1>1
  <2> HIDE DEF v
  <2>3. v \in Voice \ Elements(f) /\ v \notin Elements(p.fresh) /\ d = p.desc[v] /\ part = p.part[v]
    BY <1>3, <1>4
  <2>4. Sound(p, f, e, c, home, {})
    BY <1>2
  <2> HIDE DEF p1
  <2> QED BY ONLY <2>1, <2>2, <2>3, <2>4, BackKeeps
<1>6. q = [r EXCEPT !.short = IF r.short > 0 THEN r.short - 1 ELSE 0]
  <2>1. r \in Pools
    BY <1>5 DEF Good, Sound
  <2> QED BY <2>1, <1>1 DEF LessShort, Pools
<1>7. p.short \in 0 .. 2
  BY <1>2 DEF Sound
<1> DEFINE n == IF r.short > 0 THEN r.short - 1 ELSE 0
<1>8. n \in 0 .. 2 /\ n >= r.short - 1
  BY <1>5, <1>7
<1> HIDE DEF r
<1>9. Good(q) /\ SameLists(q, r) /\ q.short = n /\ Eased(q, r, {})
  <2> HIDE DEF n
  <2>1. q = [r EXCEPT !.short = n]
    BY <1>6 DEF n
  <2> QED BY <2>1, <1>5, <1>8, ShortKeeps
<1>10. q \in Pools
  BY <1>9 DEF Good, Sound
<1>11. Rest(q, p, d) /\ q.freeCount = p.freeCount + 1
  BY <1>5, <1>9 DEF Freed, Rest, SameLists, SameIdle, SameVoices
<1>12. q.fresh = <<>>
  BY <1>11 DEF Rest, GN
<1>13. q.freeCount + q.short >= need
  <2>1. p.freeCount + p.short >= need /\ p.freeCount \in Int /\ p.short \in Int
    BY <1>7 DEF GN, Pools
  <2> QED BY <2>1, <1>5, <1>8, <1>9, <1>11
<1>14. q.tail[d] = None \/ InNote(q, d, part)
  BY <1>3, <1>5, <1>9 DEF Freed, InNote, SameLists, SameVoices
<1>15. Moved(q, o)
  <2>1. Moved(p, o)
    BY DEF GN
  <2>2. Moved(r, o)
    BY <2>1, <1>3, <1>5, MovedBack
  <2> QED BY <2>2, <1>9, MovedSame
<1>16. Eased(q, o, P)
  <2>1. Eased(p, o, P)
    BY DEF GN
  <2>2. Eased(r, o, P)
    BY <2>1, <1>5, EasedTwice
  <2> QED BY <2>2, <1>9, EasedTwice
<1>17. q.count[part] = p.count[part] - 1
  <2>1. q.count = [p.count EXCEPT ![part] = @ - 1] /\ p.count \in [Part -> Int]
    BY <1>5, <1>9 DEF Freed, SameLists, SameCount, GN, Pools, PartTo
  <2> QED BY <2>1
<1>18. p.first[part] = d => IF q.tail[d] = None THEN q.first[part] = p.descNext[d]
                            ELSE q.first[part] = d /\ q.descNext[d] = p.descNext[d]
  BY <1>5, <1>9 DEF Freed, SameLists, SameVoices, SameNotes
<1>19. q \in GN(need, o, P)
  BY <1>9, <1>10, <1>12, <1>13, <1>15, <1>16 DEF GN
<1> QED BY <1>11, <1>14, <1>17, <1>18, <1>19 DEF ReleaseDone

-----------------------------------------------------------------------------
(* Loops. *)

\* A loop whose passes stay in G stays in G.
LEMMA Looped ==
  ASSUME NEW n \in Nat, NEW G, NEW x \in G, NEW after, after[0] = x,
         NEW s \in [G -> G],
         \A k \in 1 .. n : after[k - 1] \in G => after[k] = s[after[k - 1]]
  PROVE  after[n] \in G
<1> DEFINE S == {k \in 0 .. n : after[k] \in G}
<1>1. 0 \in S
  OBVIOUS
<1>2. ASSUME NEW k \in 1 .. n, k - 1 \in S PROVE k \in S
  <2>1. after[k - 1] \in G /\ k \in 0 .. n
    BY <1>2
  <2> QED BY <2>1
<1>3. \A k \in 0 .. n : k \in S
  <2> HIDE DEF S
  <2> QED BY <1>1, <1>2, UpTo
<1> QED BY <1>3

Turns(after, G, x, s, n) ==
  /\ after[0] = x
  /\ \A k \in 1 .. n : after[k - 1] \in G => after[k] = s[after[k - 1]]

Falls(G, x, s, n, D, m) ==
  /\ s \in [G -> G] /\ m \in [G -> Int] /\ x \in G /\ m[x] <= n
  /\ \A w \in G : w \in D \/ m[w] > 0
  /\ \A w \in G : s[w] \in D \/ (w \notin D /\ m[s[w]] < m[w])

(* A loop that does not end yet lowers a measure. *)
LEMMA LoopEnds ==
  ASSUME NEW n \in Nat, NEW G, NEW x, NEW after, NEW s, NEW D, NEW m,
         Turns(after, G, x, s, n), Falls(G, x, s, n, D, m)
  PROVE after[n] \in G /\ after[n] \in D
<1> USE DEF Turns, Falls
<1> DEFINE S == {k \in 0 .. n : after[k] \in G /\ (after[k] \in D \/ m[after[k]] <= n - k)}
<1>1. 0 \in S
  OBVIOUS
<1>2. ASSUME NEW k \in 1 .. n, k - 1 \in S PROVE k \in S
  <2> DEFINE w == after[k - 1]
  <2>1. w \in G /\ (w \in D \/ m[w] <= n - (k - 1)) /\ k \in 0 .. n /\ k \in Int
    BY <1>2
  <2>2. after[k] = s[w]
    BY <2>1
  <2> HIDE DEF w
  <2>3. s[w] \in G /\ m[w] \in Int /\ m[s[w]] \in Int
    BY <2>1
  <2>4. s[w] \in D \/ m[s[w]] <= n - k
    BY <2>1, <2>3
  <2> QED BY <2>1, <2>2, <2>3, <2>4
<1>3. \A k \in 0 .. n : k \in S
  <2> HIDE DEF S
  <2> QED BY <1>1, <1>2, UpTo
<1>4. n \in S
  BY <1>3
<1>5. after[n] \in G /\ (after[n] \in D \/ m[after[n]] <= 0)
  BY <1>4
<1>6. m[after[n]] \in Int
  BY <1>5
<1> QED BY <1>5, <1>6

\* Two steps that touch the note d alone.
LEMMA RestTwice ==
  ASSUME NEW p, NEW q, NEW r, NEW d, Rest(q, p, d), Rest(r, q, d)
  PROVE  Rest(r, p, d)
  BY DEF Rest

(* note_helper and aux_alloc release the voices of a note one by one. *)
HelperDone(q, p, d, part, need, o, P) ==
  /\ q \in GN(need, o, P) /\ Rest(q, p, d)
  /\ q.tail[d] = None /\ q.count[part] < p.count[part]
  /\ p.first[part] = d => q.first[part] = p.descNext[d]

(* Where the chain of the part goes on while the note d is released. *)
Onward(q, p, d, part) ==
  /\ q.tail[d] = None \/ InNote(q, d, part)
  /\ q.count[part] < p.count[part]
  /\ p.first[part] = d => IF q.tail[d] = None THEN q.first[part] = p.descNext[d]
                          ELSE q.first[part] = d /\ q.descNext[d] = p.descNext[d]

\* The walk goes on in the same way when another voice of the note is released.
LEMMA OnwardTwice ==
  ASSUME NEW d, NEW part \in Part, NEW o, NEW P, NEW need, NEW p \in GN(need, o, P),
         NEW q \in GN(need, o, P), NEW r, Onward(q, p, d, part),
         ReleaseDone(r, q, d, part, need, o, P), q.tail[d] # None
  PROVE  Onward(r, p, d, part)
<1>1. r \in GN(need, o, P) /\ r.count[part] = q.count[part] - 1
  BY DEF ReleaseDone
<1>2. p.count[part] \in Int /\ q.count[part] \in Int
  BY DEF GN, Pools, PartTo
<1>3. p.first[part] = d => IF r.tail[d] = None THEN r.first[part] = p.descNext[d]
                           ELSE r.first[part] = d /\ r.descNext[d] = p.descNext[d]
  BY DEF Onward, ReleaseDone
<1>4. r.tail[d] = None \/ InNote(r, d, part)
  BY DEF ReleaseDone
<1>5. r.count[part] < p.count[part]
  BY <1>1, <1>2 DEF Onward
<1> QED BY <1>3, <1>4, <1>5 DEF Onward

\* note_helper releases both voices through ReleaseA.
LEMMA NoteHelperKeeps ==
  ASSUME NEW o, NEW P, NEW need \in Int, NEW p \in GN(need, o, P), NEW d, NEW part \in Part,
         part \in P, InNote(p, d, part)
  PROVE  HelperDone(NoteHelper(p, d, part), p, d, part, need, o, P)
<1> DEFINE G == {q \in GN(need, o, P) : Rest(q, p, d) /\ Onward(q, p, d, part)}
           x == ReleaseA(p, p.tail[d], d, part)
           turn(q) == IF q.tail[d] = None THEN q ELSE ReleaseA(q, q.tail[d], d, part)
           Laps(f) == [k \in 0 .. Voices |-> IF k = 0 THEN x ELSE turn(f[k - 1])]
           after == CHOOSE f : f = Laps(f)
           s == [q \in G |-> turn(q)]
           m == [q \in G |-> q.count[part]]
           D == {q \in G : q.tail[d] = None}
<1>0. Voices \in Nat
  BY Sizes
<1>1. x \in G
  <2>1. ReleaseDone(x, p, d, part, need, o, P)
    BY ReleaseKeeps
  <2> HIDE DEF x
  <2>2. x \in GN(need, o, P) /\ Rest(x, p, d) /\ x.count[part] = p.count[part] - 1
    BY <2>1 DEF ReleaseDone
  <2>3. p.count[part] \in Int
    BY DEF GN, Pools, PartTo
  <2>4. Onward(x, p, d, part)
    BY <2>1, <2>2, <2>3 DEF ReleaseDone, Onward
  <2> QED BY <2>2, <2>4
<1>2. ASSUME NEW q \in G
      PROVE  /\ turn(q) \in G
             /\ turn(q).tail[d] = None
                \/ (q.tail[d] # None /\ turn(q).count[part] < q.count[part])
  <2>1. CASE q.tail[d] = None
    BY <2>1
  <2>2. CASE q.tail[d] # None
    <3> DEFINE r == ReleaseA(q, q.tail[d], d, part)
    <3>1. /\ InNote(q, d, part) /\ q \in GN(need, o, P) /\ Rest(q, p, d)
          /\ Onward(q, p, d, part)
      BY <2>2 DEF Onward
    <3>2. ReleaseDone(r, q, d, part, need, o, P)
      BY <3>1, ReleaseKeeps
    <3>3. turn(q) = r
      BY <2>2
    <3> HIDE DEF r, turn
    <3>4. r \in GN(need, o, P) /\ Rest(r, p, d) /\ r.count[part] = q.count[part] - 1
      BY <3>1, <3>2, RestTwice DEF ReleaseDone
    <3>5. Onward(r, p, d, part)
      BY <3>1, <3>2, <2>2, OnwardTwice
    <3>6. r.count[part] < q.count[part]
      <4>1. q.count[part] \in Int
        BY <3>1 DEF GN, Pools, PartTo
      <4> QED BY <4>1, <3>4
    <3> QED BY <3>3, <3>4, <3>5, <3>6, <2>2
  <2> QED BY <2>1, <2>2
<1>3. s \in [G -> G]
  <2> HIDE DEF turn, G
  <2> QED BY <1>2
<1>13. \A q \in G : q.count[part] \in 0 .. Voices /\ (q \in D \/ q.count[part] > 0)
  <2> SUFFICES ASSUME NEW q \in G
               PROVE  q.count[part] \in 0 .. Voices /\ (q \in D \/ q.count[part] > 0)
    OBVIOUS
  <2>1. Good(q) /\ (q.tail[d] = None \/ InNote(q, d, part))
    BY DEF GN, Onward
  <2> QED BY <2>1, Counted, NoteCounts
<1>14. \A q \in G : s[q] \in D \/ (q \notin D /\ m[s[q]] < m[q])
  <2> SUFFICES ASSUME NEW q \in G PROVE s[q] \in D \/ (q \notin D /\ m[s[q]] < m[q])
    OBVIOUS
  <2>1. s[q] = turn(q) /\ turn(q) \in G
    BY <1>2
  <2> HIDE DEF turn, s, G
  <2>2. turn(q).tail[d] = None \/ (q.tail[d] # None /\ turn(q).count[part] < q.count[part])
    BY <1>2
  <2> QED BY <2>1, <2>2
<1>15. m \in [G -> Int] /\ m[x] <= Voices /\ \A q \in G : q \in D \/ m[q] > 0
  <2> HIDE DEF G, D, x
  <2> QED BY <1>0, <1>1, <1>13
<1>4. PICK f \in [0 .. Voices -> G] : f[0] = x /\ \A k \in 1 .. Voices : f[k] = s[f[k - 1]]
  <2> HIDE DEF s, G, x
  <2>1. HasLaps(G, x, s, Voices)
    BY <1>0, <1>1, <1>3, Iteration
  <2> QED BY <2>1 DEF HasLaps
<1> HIDE DEF G, x
<1>11. \A k \in 1 .. Voices : f[k] = turn(f[k - 1])
  <2> SUFFICES ASSUME NEW k \in 1 .. Voices PROVE f[k] = turn(f[k - 1])
    OBVIOUS
  <2>1. k - 1 \in 0 .. Voices
    BY <1>0
  <2>2. f[k - 1] \in G
    BY <2>1, <1>4
  <2> HIDE DEF turn
  <2> QED BY <2>2, <1>4
<1> HIDE DEF turn
<1>5. f = Laps(f)
  BY <1>0, <1>4, <1>11
<1>6. after = Laps(after)
  BY <1>5
<1>7. NoteHelper(p, d, part) = after[Voices]
  BY DEF NoteHelper, Loop, x, turn
<1> HIDE DEF after
<1>8. after[0] = x
  BY <1>0, <1>6
<1>9. \A k \in 1 .. Voices : after[k - 1] \in G => after[k] = s[after[k - 1]]
  BY <1>0, <1>6
<1>10. after[Voices] \in G /\ after[Voices] \in D
  <2> HIDE DEF s, Laps, m, D
  <2>1. Falls(G, x, s, Voices, D, m)
    BY <1>1, <1>3, <1>14, <1>15 DEF Falls
  <2>2. Turns(after, G, x, s, Voices)
    BY <1>8, <1>9 DEF Turns
  <2> QED BY <1>0, <2>1, <2>2, LoopEnds
<1> QED BY <1>7, <1>10 DEF G, HelperDone, Onward

\* aux_alloc releases both voices through ReleaseB.
LEMMA AuxAllocKeeps ==
  ASSUME NEW o, NEW P, NEW need \in Int, NEW p \in GN(need, o, P), NEW d, NEW part \in Part,
         part \in P, InNote(p, d, part)
  PROVE  HelperDone(AuxAlloc(p, d, part), p, d, part, need, o, P)
<1> DEFINE G == {q \in GN(need, o, P) : Rest(q, p, d) /\ Onward(q, p, d, part)}
           x == ReleaseB(p, p.tail[d], d, part)
           turn(q) == IF q.tail[d] = None THEN q ELSE ReleaseB(q, q.tail[d], d, part)
           Laps(f) == [k \in 0 .. Voices |-> IF k = 0 THEN x ELSE turn(f[k - 1])]
           after == CHOOSE f : f = Laps(f)
           s == [q \in G |-> turn(q)]
           m == [q \in G |-> q.count[part]]
           D == {q \in G : q.tail[d] = None}
<1>0. Voices \in Nat
  BY Sizes
<1>1. x \in G
  <2>1. ReleaseDone(x, p, d, part, need, o, P)
    BY ReleaseKeeps
  <2> HIDE DEF x
  <2>2. x \in GN(need, o, P) /\ Rest(x, p, d) /\ x.count[part] = p.count[part] - 1
    BY <2>1 DEF ReleaseDone
  <2>3. p.count[part] \in Int
    BY DEF GN, Pools, PartTo
  <2>4. Onward(x, p, d, part)
    BY <2>1, <2>2, <2>3 DEF ReleaseDone, Onward
  <2> QED BY <2>2, <2>4
<1>2. ASSUME NEW q \in G
      PROVE  /\ turn(q) \in G
             /\ turn(q).tail[d] = None
                \/ (q.tail[d] # None /\ turn(q).count[part] < q.count[part])
  <2>1. CASE q.tail[d] = None
    BY <2>1
  <2>2. CASE q.tail[d] # None
    <3> DEFINE r == ReleaseB(q, q.tail[d], d, part)
    <3>1. /\ InNote(q, d, part) /\ q \in GN(need, o, P) /\ Rest(q, p, d)
          /\ Onward(q, p, d, part)
      BY <2>2 DEF Onward
    <3>2. ReleaseDone(r, q, d, part, need, o, P)
      BY <3>1, ReleaseKeeps
    <3>3. turn(q) = r
      BY <2>2
    <3> HIDE DEF r, turn
    <3>4. r \in GN(need, o, P) /\ Rest(r, p, d) /\ r.count[part] = q.count[part] - 1
      BY <3>1, <3>2, RestTwice DEF ReleaseDone
    <3>5. Onward(r, p, d, part)
      BY <3>1, <3>2, <2>2, OnwardTwice
    <3>6. r.count[part] < q.count[part]
      <4>1. q.count[part] \in Int
        BY <3>1 DEF GN, Pools, PartTo
      <4> QED BY <4>1, <3>4
    <3> QED BY <3>3, <3>4, <3>5, <3>6, <2>2
  <2> QED BY <2>1, <2>2
<1>3. s \in [G -> G]
  <2> HIDE DEF turn, G
  <2> QED BY <1>2
<1>13. \A q \in G : q.count[part] \in 0 .. Voices /\ (q \in D \/ q.count[part] > 0)
  <2> SUFFICES ASSUME NEW q \in G
               PROVE  q.count[part] \in 0 .. Voices /\ (q \in D \/ q.count[part] > 0)
    OBVIOUS
  <2>1. Good(q) /\ (q.tail[d] = None \/ InNote(q, d, part))
    BY DEF GN, Onward
  <2> QED BY <2>1, Counted, NoteCounts
<1>14. \A q \in G : s[q] \in D \/ (q \notin D /\ m[s[q]] < m[q])
  <2> SUFFICES ASSUME NEW q \in G PROVE s[q] \in D \/ (q \notin D /\ m[s[q]] < m[q])
    OBVIOUS
  <2>1. s[q] = turn(q) /\ turn(q) \in G
    BY <1>2
  <2> HIDE DEF turn, s, G
  <2>2. turn(q).tail[d] = None \/ (q.tail[d] # None /\ turn(q).count[part] < q.count[part])
    BY <1>2
  <2> QED BY <2>1, <2>2
<1>15. m \in [G -> Int] /\ m[x] <= Voices /\ \A q \in G : q \in D \/ m[q] > 0
  <2> HIDE DEF G, D, x
  <2> QED BY <1>0, <1>1, <1>13
<1>4. PICK f \in [0 .. Voices -> G] : f[0] = x /\ \A k \in 1 .. Voices : f[k] = s[f[k - 1]]
  <2> HIDE DEF s, G, x
  <2>1. HasLaps(G, x, s, Voices)
    BY <1>0, <1>1, <1>3, Iteration
  <2> QED BY <2>1 DEF HasLaps
<1> HIDE DEF G, x
<1>11. \A k \in 1 .. Voices : f[k] = turn(f[k - 1])
  <2> SUFFICES ASSUME NEW k \in 1 .. Voices PROVE f[k] = turn(f[k - 1])
    OBVIOUS
  <2>1. k - 1 \in 0 .. Voices
    BY <1>0
  <2>2. f[k - 1] \in G
    BY <2>1, <1>4
  <2> HIDE DEF turn
  <2> QED BY <2>2, <1>4
<1> HIDE DEF turn
<1>5. f = Laps(f)
  BY <1>0, <1>4, <1>11
<1>6. after = Laps(after)
  BY <1>5
<1>7. AuxAlloc(p, d, part) = after[Voices]
  BY DEF AuxAlloc, Loop, x, turn
<1> HIDE DEF after
<1>8. after[0] = x
  BY <1>0, <1>6
<1>9. \A k \in 1 .. Voices : after[k - 1] \in G => after[k] = s[after[k - 1]]
  BY <1>0, <1>6
<1>10. after[Voices] \in G /\ after[Voices] \in D
  <2> HIDE DEF s, Laps, m, D
  <2>1. Falls(G, x, s, Voices, D, m)
    BY <1>1, <1>3, <1>14, <1>15 DEF Falls
  <2>2. Turns(after, G, x, s, Voices)
    BY <1>8, <1>9 DEF Turns
  <2> QED BY <1>0, <2>1, <2>2, LoopEnds
<1> QED BY <1>7, <1>10 DEF G, HelperDone, Onward

(* The notes of a part, one after the other. *)
LEMMA VoicesOfIs ==
  ASSUME NEW p, NEW f, NEW e, NEW c, NEW home, Sound(p, f, e, c, home, {}),
         NEW d \in Desc
  PROVE  VoicesOf(p, d) = IF home[d] = None THEN <<>>
                          ELSE IF p.head[d] = p.tail[d] THEN <<p.tail[d]>>
                          ELSE <<p.tail[d], p.head[d]>>
<1> DEFINE t == p.tail[d]
           h == p.head[d]
<1>1. /\ home[d] = None => t = None
      /\ home[d] # None => /\ t \in Voice /\ h \in Voice
                           /\ p.toHead[h] = None /\ (h # t => p.toHead[t] = h)
  BY DEF Sound, VoicesOK
<1> HIDE DEF t, h
<1>2. CASE home[d] = None
  <2>1. ListOf(<<>>, p.toHead, t)
    BY <1>1, <1>2 DEF ListOf, Distinct
  <2>2. <<>> \in Seq(Voice)
    OBVIOUS
  <2> QED BY <2>1, <2>2, <1>2, WalkIs DEF VoicesOf, t
<1>3. CASE home[d] # None /\ h = t
  <2>1. ListOf(<<t>>, p.toHead, t)
    BY <1>1, <1>3 DEF ListOf, Distinct
  <2>2. <<t>> \in Seq(Voice)
    BY <1>1, <1>3
  <2>3. Walk(p.toHead, t) = <<t>>
    BY <2>1, <2>2, WalkIs
  <2> QED BY <2>3, <1>3 DEF VoicesOf, t, h
<1>4. CASE home[d] # None /\ h # t
  <2> DEFINE s == <<t, h>>
  <2>1. s \in Seq(Voice) /\ Len(s) = 2 /\ s[1] = t /\ s[2] = h
    BY <1>1, <1>4
  <2>2. \A i \in 1 .. Len(s) : i = 1 \/ i = 2
    BY <2>1
  <2>3. s # <<>>
    BY <2>1, NoCells
  <2> HIDE DEF s
  <2>4. ListOf(s, p.toHead, t)
    <3>1. Distinct(s)
      BY <2>1, <2>2, <1>4 DEF Distinct
    <3>2. \A i \in 1 .. Len(s) : p.toHead[s[i]] = IF i = Len(s) THEN None ELSE s[i + 1]
      BY <2>1, <2>2, <1>1, <1>4
    <3> QED BY <3>1, <3>2, <2>1, <2>3 DEF ListOf
  <2>5. Walk(p.toHead, t) = s
    BY <2>1, <2>4, WalkIs
  <2> QED BY <2>5, <1>4 DEF VoicesOf, t, h, s
<1> QED BY <1>2, <1>3, <1>4

\* The chain of a part holds notes of that part.
LEMMA ChainNotes ==
  ASSUME NEW p, Good(p), NEW part \in Part
  PROVE  /\ Chain(p, part) \in Seq(Desc)
         /\ \A i \in 1 .. Len(Chain(p, part)) : InNote(p, Chain(p, part)[i], part)
<1>1. PICK f, e, c, home : Sound(p, f, e, c, home, {})
  BY DEF Good
<1> DEFINE s == Chain(p, part)
<1>2. s \in Seq(Desc) /\ Elements(s) = {d \in Desc : home[d] = part}
  BY <1>1, ChainIs
<1>3. ASSUME NEW i \in 1 .. Len(s) PROVE InNote(p, s[i], part)
  <2>1. s[i] \in Desc /\ home[s[i]] = part
    BY <1>2 DEF Elements
  <2> HIDE DEF s
  <2> QED BY <2>1, <1>1, NoteIs
<1> QED BY <1>2, <1>3

\* So is the first.
LEMMA FirstNote ==
  ASSUME NEW p, Good(p), NEW part \in Part
  PROVE  p.first[part] = None \/ InNote(p, p.first[part], part)
<1>1. PICK f, e, c, home : Sound(p, f, e, c, home, {})
  BY DEF Good
<1> DEFINE s == c[part]
<1>2. s \in Seq(Desc) /\ Elements(s) = {d \in Desc : home[d] = part}
      /\ p.first[part] = IF s = <<>> THEN None ELSE s[1]
  BY <1>1, ChainIs DEF ChainOK, ListOf
<1> HIDE DEF s
<1>3. CASE s # <<>>
  <2>1. 1 \in 1 .. Len(s)
    BY <1>2, <1>3, NoCells
  <2>2. s[1] \in Desc /\ home[s[1]] = part
    BY <2>1, <1>2 DEF Elements
  <2>3. InNote(p, s[1], part)
    BY <2>2, <1>1, NoteIs
  <2> QED BY <2>3, <1>2, <1>3
<1> QED BY <1>2, <1>3

\* And the one behind a note.
LEMMA NextNote ==
  ASSUME NEW p, Good(p), NEW d, NEW part \in Part, InNote(p, d, part)
  PROVE  p.descNext[d] = None
         \/ (InNote(p, p.descNext[d], part) /\ p.descNext[d] # d)
<1>1. PICK f, e, c, home : Sound(p, f, e, c, home, {})
  BY DEF Good
<1> DEFINE s == c[part]
<1>2. s \in Seq(Desc) /\ Elements(s) = {x \in Desc : home[x] = part} /\ ChainOK(p, s, part)
  BY <1>1, ChainIs
<1> HIDE DEF s
<1>3. d \in Desc /\ home[d] = part
  BY <1>1, NoteIs DEF InNote
<1>4. PICK i \in 1 .. Len(s) : s[i] = d
  BY <1>2, <1>3 DEF Elements
<1>5. /\ \A k, l \in 1 .. Len(s) : s[k] = s[l] => k = l
      /\ p.descNext[d] = IF i = Len(s) THEN None ELSE s[i + 1]
  BY <1>2, <1>4 DEF ChainOK, ListOf, Distinct
<1>6. CASE i # Len(s)
  <2> DEFINE k == i + 1
  <2>1. k \in 1 .. Len(s) /\ k # i
    BY <1>2, <1>6
  <2>2. p.descNext[d] = s[k]
    BY <1>5, <1>6
  <2> HIDE DEF k
  <2>3. s[k] \in Desc /\ home[s[k]] = part
    BY <2>1, <1>2 DEF Elements
  <2>4. InNote(p, s[k], part)
    BY <2>3, <1>1, NoteIs
  <2>5. s[k] # d
    BY <2>1, <1>4, <1>5
  <2> QED BY <2>2, <2>4, <2>5
<1> QED BY <1>5, <1>6

\* A note is one still after another was released.
LEMMA StillNote ==
  ASSUME NEW p, NEW q, NEW d, NEW x, NEW part, Rest(q, p, d), InNote(p, x, part), x # d
  PROVE  InNote(q, x, part)
  BY DEF Rest, InNote

-----------------------------------------------------------------------------
(* Stealing. *)

\* A member of GN is sound.
LEMMA GoodNow ==
  ASSUME NEW o, NEW P, NEW need \in Int, NEW p \in GN(need, o, P)
  PROVE  p \in Pools /\ Good(p)
  BY DEF GN

\* Stealing the notes whose key is up.
LEMMA StealKeyUpKeeps ==
  ASSUME NEW o, NEW P, NEW need \in Int, NEW p \in GN(need, o, P), NEW part \in Part,
         part \in P
  PROVE  StealKeyUp(p, part) \in GN(need, o, P)
<1> DEFINE At(q) == {d \in OrNone(Desc) : d = None \/ InNote(q, d, part)}
           G == {w \in [pool : GN(need, o, P), at : OrNone(Desc)] : w.at \in At(w.pool)}
           x == [pool |-> p, at |-> p.first[part]]
           turn(w) ==
             LET q == w.pool  d == w.at IN
             IF d = None THEN w
             ELSE IF q.state[d] = "down" THEN [w EXCEPT !.at = q.descNext[d]]
             ELSE LET r == NoteHelper(q, d, part)  next == q.descNext[d] IN
                  [pool |-> r,
                   at |-> IF Enough(r) \/ Reserved(r, part) \/ next = None
                          THEN None ELSE r.descNext[next]]
           Laps(f) == [k \in 0 .. Voices |-> IF k = 0 THEN x ELSE turn(f[k - 1])]
           after == CHOOSE f : f = Laps(f)
           s == [w \in G |-> turn(w)]
<1>0. Voices \in Nat
  BY Sizes
<1>12. ASSUME NEW q \in GN(need, o, P), NEW d \in At(q) PROVE [pool |-> q, at |-> d] \in G
  BY <1>12
<1>13. None \in OrNone(Desc) /\ \A q : None \in At(q)
  BY DEF OrNone
<1>14. \A q, d : InNote(q, d, part) => d \in At(q)
  BY DEF InNote, OrNone
<1> HIDE DEF At
<1>1. x \in G
  <2>1. p.first[part] \in At(p)
    BY GoodNow, FirstNote, <1>13, <1>14
  <2> HIDE DEF G
  <2> QED BY <2>1, <1>12
<1>2. ASSUME NEW w \in G PROVE turn(w) \in G
  <2> DEFINE q == w.pool
             d == w.at
  <2>1. /\ q \in GN(need, o, P) /\ d \in OrNone(Desc) /\ (d = None \/ InNote(q, d, part))
        /\ w = [pool |-> q, at |-> d] /\ Good(q)
    BY GoodNow DEF At
  <2>2. CASE d = None
    BY <2>2
  <2>3. CASE d # None /\ q.state[d] = "down"
    <3>1. q.descNext[d] \in At(q)
      BY <2>1, <2>3, <1>13, <1>14, NextNote
    <3>2. turn(w) = [pool |-> q, at |-> q.descNext[d]]
      BY <2>1, <2>3
    <3> HIDE DEF G, turn, q
    <3> QED BY <3>1, <3>2, <2>1, <1>12
  <2>4. CASE d # None /\ q.state[d] # "down"
    <3> DEFINE r == NoteHelper(q, d, part)
               next == q.descNext[d]
               to == IF Enough(r) \/ Reserved(r, part) \/ next = None
                     THEN None ELSE r.descNext[next]
    <3>1. HelperDone(r, q, d, part, need, o, P)
      BY <2>1, <2>4, NoteHelperKeeps
    <3>2. turn(w) = [pool |-> r, at |-> to]
      BY <2>4
    <3> HIDE DEF r, turn, G, q
    <3>3. next # None => InNote(r, next, part)
      BY <3>1, <2>1, <2>4, NextNote, StillNote DEF HelperDone
    <3>4. next # None => r.descNext[next] \in At(r)
      BY <3>1, <3>3, <1>13, <1>14, GoodNow, NextNote DEF HelperDone
    <3>5. to \in At(r)
      BY <3>4, <1>13
    <3> QED BY <3>1, <3>2, <3>5, <1>12 DEF HelperDone
  <2> QED BY <2>2, <2>3, <2>4
<1>3. s \in [G -> G]
  BY <1>2
<1>4. PICK f \in [0 .. Voices -> G] : f[0] = x /\ \A k \in 1 .. Voices : f[k] = s[f[k - 1]]
  <2> HIDE DEF s, G, x
  <2>1. HasLaps(G, x, s, Voices)
    BY <1>0, <1>1, <1>3, Iteration
  <2> QED BY <2>1 DEF HasLaps
<1> HIDE DEF G, x
<1>5. \A k \in 1 .. Voices : f[k] = turn(f[k - 1])
  <2> SUFFICES ASSUME NEW k \in 1 .. Voices PROVE f[k] = turn(f[k - 1])
    OBVIOUS
  <2>1. k - 1 \in 0 .. Voices
    BY <1>0
  <2>2. f[k - 1] \in G
    BY <2>1, <1>4
  <2> HIDE DEF turn
  <2> QED BY <2>2, <1>4
<1> HIDE DEF turn
<1>6. f = Laps(f)
  BY <1>0, <1>4, <1>5
<1>7. after = Laps(after)
  BY <1>6
<1>8. StealKeyUp(p, part) = after[Voices].pool
  BY DEF StealKeyUp, Loop, x, turn
<1> HIDE DEF after
<1>9. after[0] = x
  BY <1>0, <1>7
<1>10. \A k \in 1 .. Voices : after[k - 1] \in G => after[k] = s[after[k - 1]]
  BY <1>0, <1>7
<1>11. after[Voices] \in G
  <2> HIDE DEF s, Laps
  <2> QED BY <1>0, <1>1, <1>3, <1>9, <1>10, Looped
<1> QED BY <1>8, <1>11 DEF G

(* Stealing from a part ends when nothing is short any more, when the part *)
(* has no voice left, or at its reserve, with voices given.                *)
Gave(r, p, part) ==
  \/ Enough(r) \/ r.count[part] = 0
  \/ Reserved(r, part) /\ r.count[part] < p.count[part]

\* The voices given back are counted from the pool the stealing finds.
LEMMA GivesSelf ==
  ASSUME NEW o, NEW P, NEW need \in Int, NEW p \in GN(need, o, P), NEW Q
  PROVE  p \in GN(need, p, Q)
<1>1. /\ p \in Pools /\ Good(p) /\ p.fresh = <<>> /\ p.freeCount + p.short >= need
      /\ Moved(p, o)
  BY DEF GN
<1>2. FreeList(p) \in Seq(Voice)
  BY <1>1, ListsAre DEF Good, Sound, IdleOK
<1> QED BY <1>1, <1>2, MovedSelf, EasedSelf DEF GN

\* Stealing the oldest notes of the part: each turn takes the first note of the
\* chain, so it ends by one of the reasons of Gave, and within as many turns as
\* there are voices.
LEMMA StealOldestKeeps ==
  ASSUME NEW o, NEW P, NEW need \in Int, NEW p \in GN(need, o, P), NEW part \in Part,
         part \in P
  PROVE  /\ StealOldest(p, part) \in GN(need, o, P)
         /\ Gave(StealOldest(p, part), p, part)
<1> DEFINE H == {q \in GN(need, o, P) : q.count[part] <= p.count[part]}
           At(q) == {d \in OrNone(Desc) : IF d = None THEN Gave(q, p, part)
                                          ELSE d = q.first[part]}
           G == {w \in [pool : H, at : OrNone(Desc)] : w.at \in At(w.pool)}
           x == [pool |-> p, at |-> p.first[part]]
           turn(w) ==
             LET q == w.pool  d == w.at IN
             IF d = None THEN w
             ELSE LET r == NoteHelper(q, d, part) IN
                  [pool |-> r,
                   at |-> IF Enough(r) \/ Reserved(r, part) THEN None
                          ELSE q.descNext[d]]
           Laps(f) == [k \in 0 .. Voices |-> IF k = 0 THEN x ELSE turn(f[k - 1])]
           after == CHOOSE f : f = Laps(f)
           s == [w \in G |-> turn(w)]
           D == {w \in G : w.at = None}
           m == [w \in G |-> w.pool.count[part]]
<1>0. Voices \in Nat
  BY Sizes
<1>12. ASSUME NEW q \in H, NEW d \in At(q) PROVE [pool |-> q, at |-> d] \in G
  BY <1>12
<1>13. ASSUME NEW q \in GN(need, o, P), q.first[part] # None \/ Gave(q, p, part)
       PROVE  q.first[part] \in At(q)
  <2>1. q.first[part] = None \/ q.first[part] \in Desc
    BY GoodNow, FirstNote DEF InNote
  <2> QED BY <1>13, <2>1 DEF OrNone
<1>14. \A q \in GN(need, o, P) : q.count[part] \in Int
  BY GoodNow, Counted
<1>15. ASSUME NEW q \in GN(need, o, P), q.first[part] = None PROVE Gave(q, p, part)
  BY <1>15, GoodNow, NoteCounts DEF Gave
<1>16. \A q : Gave(q, p, part) => None \in At(q)
  BY DEF OrNone
<1>17. \A w \in G : /\ w.pool \in GN(need, o, P) /\ w.pool.count[part] <= p.count[part]
                    /\ w.at \in OrNone(Desc) /\ w = [pool |-> w.pool, at |-> w.at]
                    /\ w.at = None => Gave(w.pool, p, part)
                    /\ w.at # None => w.at = w.pool.first[part]
  OBVIOUS
<1> HIDE DEF At
<1>1. x \in G
  <2>1. p.first[part] \in At(p) /\ p \in H
    BY <1>13, <1>14, <1>15
  <2> HIDE DEF G, H
  <2> QED BY <2>1, <1>12
<1>2. ASSUME NEW w \in G
      PROVE  /\ turn(w) \in G
             /\ turn(w).at = None
                \/ (w.at # None /\ turn(w).pool.count[part] < w.pool.count[part])
  <2> DEFINE q == w.pool
             d == w.at
  <2>1. /\ q \in GN(need, o, P) /\ q.count[part] <= p.count[part] /\ Good(q)
        /\ d # None => d = q.first[part]
    BY <1>17, GoodNow
  <2>2. CASE d = None
    BY <2>2
  <2>3. CASE d # None
    <3> DEFINE r == NoteHelper(q, d, part)
               to == IF Enough(r) \/ Reserved(r, part) THEN None ELSE q.descNext[d]
    <3>1. HelperDone(r, q, d, part, need, o, P)
      BY <2>1, <2>3, FirstNote, NoteHelperKeeps
    <3>2. turn(w) = [pool |-> r, at |-> to]
      BY <2>3
    <3> HIDE DEF r, turn, G, q
    <3>3. r \in GN(need, o, P) /\ r.count[part] < q.count[part] /\ r.first[part] = q.descNext[d]
      BY <3>1, <2>1, <2>3 DEF HelperDone
    <3>4. r.count[part] < p.count[part] /\ r \in H
      BY <3>3, <2>1, <1>14
    <3>5. to \in At(r)
      <4>1. CASE Enough(r) \/ Reserved(r, part)
        BY <4>1, <3>4, <1>16 DEF Gave
      <4>2. CASE ~(Enough(r) \/ Reserved(r, part))
        BY <4>2, <3>3, <1>13, <1>15
      <4> QED BY <4>1, <4>2
    <3>6. turn(w) \in G
      <4> HIDE DEF to, H
      <4> QED BY <3>2, <3>4, <3>5, <1>12
    <3>7. turn(w).pool = r
      BY <3>2
    <3> QED BY <3>6, <3>7, <3>3, <2>3 DEF q
  <2> QED BY <2>2, <2>3
<1>3. s \in [G -> G]
  <2> HIDE DEF turn, G
  <2> QED BY <1>2
<1>18. \A w \in G : w.pool.count[part] \in 0 .. Voices /\ (w \in D \/ w.pool.count[part] > 0)
  <2> SUFFICES ASSUME NEW w \in G
               PROVE  w.pool.count[part] \in 0 .. Voices /\ (w \in D \/ w.pool.count[part] > 0)
    OBVIOUS
  <2>1. Good(w.pool) /\ (w.at # None => w.at = w.pool.first[part])
    BY <1>17, GoodNow
  <2> HIDE DEF G
  <2> QED BY <2>1, Counted, FirstNote, NoteCounts
<1>19. \A w \in G : s[w] \in D \/ (w \notin D /\ m[s[w]] < m[w])
  <2> SUFFICES ASSUME NEW w \in G PROVE s[w] \in D \/ (w \notin D /\ m[s[w]] < m[w])
    OBVIOUS
  <2>1. s[w] = turn(w) /\ turn(w) \in G
    BY <1>2
  <2> HIDE DEF turn, s, G
  <2>2. turn(w).at = None \/ (w.at # None /\ turn(w).pool.count[part] < w.pool.count[part])
    BY <1>2
  <2> QED BY <2>1, <2>2
<1>20. m \in [G -> Int] /\ m[x] <= Voices /\ \A w \in G : w \in D \/ m[w] > 0
  <2> HIDE DEF G, D, x
  <2> QED BY <1>0, <1>1, <1>18
<1>4. PICK f \in [0 .. Voices -> G] : f[0] = x /\ \A k \in 1 .. Voices : f[k] = s[f[k - 1]]
  <2> HIDE DEF s, G, x
  <2>1. HasLaps(G, x, s, Voices)
    BY <1>0, <1>1, <1>3, Iteration
  <2> QED BY <2>1 DEF HasLaps
<1> HIDE DEF G, x
<1>5. \A k \in 1 .. Voices : f[k] = turn(f[k - 1])
  <2> SUFFICES ASSUME NEW k \in 1 .. Voices PROVE f[k] = turn(f[k - 1])
    OBVIOUS
  <2>1. k - 1 \in 0 .. Voices
    BY <1>0
  <2>2. f[k - 1] \in G
    BY <2>1, <1>4
  <2> HIDE DEF turn
  <2> QED BY <2>2, <1>4
<1> HIDE DEF turn
<1>6. f = Laps(f)
  BY <1>0, <1>4, <1>5
<1>7. after = Laps(after)
  BY <1>6
<1>8. StealOldest(p, part) = after[Voices].pool
  BY DEF StealOldest, Loop, x, turn
<1> HIDE DEF after
<1>9. after[0] = x
  BY <1>0, <1>7
<1>10. \A k \in 1 .. Voices : after[k - 1] \in G => after[k] = s[after[k - 1]]
  BY <1>0, <1>7
<1>11. after[Voices] \in G /\ after[Voices] \in D
  <2> HIDE DEF s, Laps, m, D
  <2>1. Falls(G, x, s, Voices, D, m)
    BY <1>1, <1>3, <1>19, <1>20 DEF Falls
  <2>2. Turns(after, G, x, s, Voices)
    BY <1>9, <1>10 DEF Turns
  <2> QED BY <1>0, <2>1, <2>2, LoopEnds
<1> QED BY <1>8, <1>11, <1>17

(* slot_select answers with a voice of a note of the part. *)
LEMMA SlotSelectIs ==
  ASSUME NEW p, Good(p), NEW part \in Part, NEW pass, NEW cur, NEW level,
         NEW v, v = SlotSelect(p, part, pass, cur, level), v # None
  PROVE  InNote(p, p.desc[v], part)
<1>1. PICK f, e, c, home : Sound(p, f, e, c, home, {})
  BY DEF Good
<1> DEFINE s == Chain(p, part)
           takes(d) == /\ pass = 0 => p.state[d] # "down"
                       /\ pass < 2 => d # cur
           on == [i \in 1 .. Len(s) |-> VoicesOf(p, s[i])]
           voices == {x \in (1 .. Len(s)) \X (1 .. 2) :
                        takes(s[x[1]]) /\ x[2] <= Len(on[x[1]])}
           voice(x) == on[x[1]][x[2]]
           before(x, y) == x[1] < y[1] \/ (x[1] = y[1] /\ x[2] < y[2])
           heard == {x \in voices : level[voice(x)] # Fresh}
           best == {x \in heard : \A y \in heard \ {x} :
                      \/ level[voice(x)] < level[voice(y)]
                      \/ level[voice(x)] = level[voice(y)] /\ before(x, y)}
<1>2. v = IF best = {} THEN None ELSE voice(CHOOSE x \in best : TRUE)
  BY DEF SlotSelect
<1>3. best \subseteq (1 .. Len(s)) \X (1 .. 2) /\ \A x \in best : x[2] <= Len(on[x[1]])
  OBVIOUS
<1> HIDE DEF best
<1>4. PICK x \in best : v = voice(x)
  BY <1>2
<1> DEFINE i == x[1]
           j == x[2]
           d == s[i]
<1>5. i \in 1 .. Len(s) /\ j \in 1 .. 2 /\ j <= Len(on[i]) /\ v = on[i][j]
  BY <1>3, <1>4
<1> HIDE DEF i, j
<1>6. InNote(p, d, part)
  BY <1>5, ChainNotes
<1>7. d \in Desc /\ home[d] = part
  BY <1>1, <1>6, NoteIs DEF InNote
<1>8. on[i] = VoicesOf(p, d)
  BY <1>5
<1> HIDE DEF on, d
<1>9. v \in {p.tail[d], p.head[d]}
  <2>1. VoicesOf(p, d) = IF p.head[d] = p.tail[d] THEN <<p.tail[d]>>
                         ELSE <<p.tail[d], p.head[d]>>
    BY <1>1, <1>7, VoicesOfIs, NoneIsNone
  <2>2. CASE p.head[d] = p.tail[d]
    BY <2>1, <2>2, <1>5, <1>8
  <2>3. CASE p.head[d] # p.tail[d]
    BY <2>1, <2>3, <1>5, <1>8
  <2> QED BY <2>2, <2>3
<1>10. p.desc[p.tail[d]] = d /\ p.desc[p.head[d]] = d
  BY <1>1, <1>7, NoneIsNone DEF Sound, VoicesOK
<1> QED BY <1>6, <1>9, <1>10

(* Of the pairs with the lowest level there is a first. *)
First(x, S, lev) ==
  x \in S /\ \A y \in S \ {x} :
    \/ lev[x] < lev[y]
    \/ lev[x] = lev[y] /\ (x[1] < y[1] \/ (x[1] = y[1] /\ x[2] < y[2]))

\* So the best of the voices of a pass exists when there is any.
LEMMA LeastPair ==
  ASSUME NEW n \in Nat, NEW S \in SUBSET ((1 .. n) \X (1 .. 2)), S # {},
         NEW lev \in [S -> Nat]
  PROVE  \E x : First(x, S, lev)
<1>1. PICK z \in S : \A y \in S : lev[z] <= lev[y]
  <2> DEFINE L == {lev[y] : y \in S}
  <2>1. L \in SUBSET Nat /\ L # {}
    OBVIOUS
  <2>2. PICK a \in L : \A b \in L : a <= b
    <3> HIDE DEF L
    <3> QED BY <2>1, HasLeast
  <2> QED BY <2>2
<1> DEFINE R == {y \in S : lev[y] = lev[z]}
           rank == [y \in S |-> 2 * y[1] + y[2]]
<1>2. \A y \in S : /\ y[1] \in 1 .. n /\ y[2] \in 1 .. 2 /\ y = <<y[1], y[2]>>
  OBVIOUS
<1>3. rank \in [S -> Nat]
  BY <1>2
<1>4. PICK x \in R : \A y \in R : rank[x] <= rank[y]
  <2> DEFINE L == {rank[y] : y \in R}
  <2>1. L \in SUBSET Nat /\ L # {}
    BY <1>3
  <2>2. PICK a \in L : \A b \in L : a <= b
    <3> HIDE DEF L
    <3> QED BY <2>1, HasLeast
  <2> QED BY <2>2
<1>5. ASSUME NEW y \in S \ {x}
      PROVE  \/ lev[x] < lev[y]
             \/ lev[x] = lev[y] /\ (x[1] < y[1] \/ (x[1] = y[1] /\ x[2] < y[2]))
  <2>1. x \in S /\ lev[x] = lev[z] /\ lev[x] \in Nat /\ lev[y] \in Nat /\ lev[x] <= lev[y]
    BY <1>1
  <2>2. CASE lev[x] < lev[y]
    BY <2>2
  <2>3. CASE lev[x] = lev[y]
    <3>1. 2 * x[1] + x[2] <= 2 * y[1] + y[2]
      BY <1>4, <2>1, <2>3
    <3>2. x[1] # y[1] \/ x[2] # y[2]
      BY <1>2, <2>1
    <3>3. /\ x[1] \in Int /\ y[1] \in Int
          /\ x[2] = 1 \/ x[2] = 2
          /\ y[2] = 1 \/ y[2] = 2
      BY <1>2, <2>1
    <3> QED BY <2>3, <3>1, <3>2, <3>3
  <2> QED BY <2>1, <2>2, <2>3
<1>6. x \in S
  OBVIOUS
<1> HIDE DEF R, rank
<1> QED BY <1>5, <1>6 DEF First

(* slot_select passes no measured voice over in its last pass. *)
Heard(level) == \A v \in Voice : level[v] \in Nat /\ level[v] # Fresh

\* When the last pass finds no voice and all are measured, the part has no
\* note.
LEMMA SlotSelectAll ==
  ASSUME NEW p, Good(p), NEW part \in Part, NEW cur, NEW level, Heard(level),
         SlotSelect(p, part, 2, cur, level) = None
  PROVE  \A d : ~InNote(p, d, part)
<1>1. PICK f, e, c, home : Sound(p, f, e, c, home, {})
  BY DEF Good
<1> DEFINE s == Chain(p, part)
           takes(d) == /\ 2 = 0 => p.state[d] # "down"
                       /\ 2 < 2 => d # cur
           on == [i \in 1 .. Len(s) |-> VoicesOf(p, s[i])]
           voices == {x \in (1 .. Len(s)) \X (1 .. 2) :
                        takes(s[x[1]]) /\ x[2] <= Len(on[x[1]])}
           voice(x) == on[x[1]][x[2]]
           before(x, y) == x[1] < y[1] \/ (x[1] = y[1] /\ x[2] < y[2])
           heard == {x \in voices : level[voice(x)] # Fresh}
           best == {x \in heard : \A y \in heard \ {x} :
                      \/ level[voice(x)] < level[voice(y)]
                      \/ level[voice(x)] = level[voice(y)] /\ before(x, y)}
<1>2. None = IF best = {} THEN None ELSE voice(CHOOSE x \in best : TRUE)
  BY DEF SlotSelect
<1>3. s \in Seq(Desc) /\ Elements(s) = {d \in Desc : home[d] = part}
  BY <1>1, ChainIs
<1>4. ASSUME NEW i \in 1 .. Len(s)
      PROVE  /\ Len(on[i]) >= 1 /\ \A j \in 1 .. 2 : j <= Len(on[i]) => on[i][j] \in Voice
  <2>1. s[i] \in Desc /\ home[s[i]] = part
    BY <1>3 DEF Elements
  <2> DEFINE d == s[i]
             t == p.tail[d]
             h == p.head[d]
  <2>2. on[i] = VoicesOf(p, d)
    OBVIOUS
  <2>3. on[i] = IF h = t THEN <<t>> ELSE <<t, h>>
    <3> HIDE DEF s, on
    <3> QED BY <1>1, <2>1, <2>2, VoicesOfIs, NoneIsNone
  <2>4. t \in Voice /\ h \in Voice
    <3> HIDE DEF s, on
    <3> QED BY <1>1, <2>1, NoneIsNone DEF Sound, VoicesOK
  <2> HIDE DEF on, t, h
  <2>5. CASE h = t
    BY <2>3, <2>4, <2>5
  <2>6. CASE h # t
    BY <2>3, <2>4, <2>6
  <2> QED BY <2>5, <2>6
<1>5. \A x \in voices : /\ x \in (1 .. Len(s)) \X (1 .. 2) /\ x[2] <= Len(on[x[1]])
  OBVIOUS
<1>6. \A i \in 1 .. Len(s) : <<i, 1>> \in voices
  BY <1>4
<1> HIDE DEF on
<1>7. \A x \in voices : x[1] \in 1 .. Len(s) /\ x[2] \in 1 .. 2 /\ x[2] <= Len(on[x[1]])
  BY <1>5
<1> HIDE DEF voices
<1>8. \A x \in voices : voice(x) \in Voice
  BY <1>4, <1>7
<1>9. heard = voices
  BY <1>8 DEF Heard
<1> HIDE DEF heard
<1>10. ASSUME voices # {} PROVE best # {}
  <2> DEFINE lev == [x \in voices |-> level[voice(x)]]
             n == Len(s)
  <2>1. n \in Nat /\ voices \in SUBSET ((1 .. n) \X (1 .. 2))
    BY <1>3, <1>5
  <2>2. lev \in [voices -> Nat]
    BY <1>8 DEF Heard
  <2> HIDE DEF n
  <2>3. PICK x : First(x, voices, lev)
    <3> HIDE DEF lev
    <3> QED BY ONLY <1>10, <2>1, <2>2, LeastPair
  <2> HIDE DEF voice
  <2>4. x \in best
    BY <1>9, <2>3 DEF First
  <2> QED BY <2>4
<1>11. best \subseteq voices
  BY <1>9
<1> HIDE DEF best
<1>12. voices = {}
  <2>1. ASSUME voices # {} PROVE FALSE
    <3>1. PICK x \in best : None = voice(x)
      BY <1>2, <1>10, <2>1
    <3>2. voice(x) \in Voice
      BY <3>1, <1>8, <1>11
    <3> QED BY <3>1, <3>2, NoneIsNone
  <2> QED BY <2>1
<1>13. ASSUME NEW d, InNote(p, d, part) PROVE FALSE
  <2>1. d \in Desc /\ home[d] = part
    BY <1>1, <1>13, NoteIs DEF InNote
  <2>2. PICK i \in 1 .. Len(s) : s[i] = d
    BY <1>3, <2>1 DEF Elements
  <2> QED BY <1>6, <1>12
<1> QED BY <1>13

(* A part without a current note has no note. *)
LEMMA NoCurrent ==
  ASSUME NEW p, Good(p), NEW part \in Part, p.current[part] = None
  PROVE  \A d : ~InNote(p, d, part)
<1>1. PICK f, e, c, home : Sound(p, f, e, c, home, {})
  BY DEF Good
<1>2. HasCurrent(p, home)
  BY <1>1 DEF Sound, CurrentOK
<1> SUFFICES ASSUME NEW d, InNote(p, d, part) PROVE FALSE
  OBVIOUS
<1>3. d \in Desc /\ home[d] = part
  BY <1>1, NoteIs DEF InNote
<1> QED BY <1>2, <1>3, NoneIsNone DEF HasCurrent

\* Stealing the quietest notes of the part: a pass ends when slot_select finds
\* no more, and after the last one no note is left.
LEMMA KeyOnKeeps ==
  ASSUME NEW o, NEW P, NEW need \in Int, NEW p \in GN(need, o, P), NEW part \in Part,
         part \in P, NEW level
  PROVE  /\ KeyOn(p, part, level) \in GN(need, o, P)
         /\ Heard(level) => Gave(KeyOn(p, part, level), p, part)
<1> DEFINE cur == p.current[part]
           Pass == {0, 1, 2, 3}
           H == {q \in GN(need, o, P) : q.count[part] <= p.count[part]}
           Over(q) == Heard(level) => Gave(q, p, part)
           G == {w \in [pool : H, pass : Pass] : w.pass = 3 => Over(w.pool)}
           x == [pool |-> p, pass |-> 0]
           turn(w) ==
             LET q == w.pool
                 v == SlotSelect(q, part, w.pass, cur, level)
                 r == NoteHelper(q, q.desc[v], part)
             IN IF w.pass = 3 THEN w
                ELSE IF v # None
                THEN [pool |-> r,
                      pass |-> IF Enough(r) \/ Reserved(r, part) THEN 3 ELSE w.pass]
                ELSE IF w.pass = 0 \/ (w.pass = 1 /\ q.current[part] # None)
                THEN [w EXCEPT !.pass = w.pass + 1]
                ELSE [w EXCEPT !.pass = 3]
           n == Voices + 3
           Laps(f) == [k \in 0 .. n |-> IF k = 0 THEN x ELSE turn(f[k - 1])]
           after == CHOOSE f : f = Laps(f)
           s == [w \in G |-> turn(w)]
           D == {w \in G : w.pass = 3}
           m == [w \in G |-> w.pool.count[part] + 3 - w.pass]
<1>0. n \in Nat /\ Voices \in Nat
  BY Sizes
<1>12. ASSUME NEW q \in H, NEW i \in Pass, i = 3 => Over(q) PROVE [pool |-> q, pass |-> i] \in G
  BY <1>12
<1>14. \A q \in GN(need, o, P) : q.count[part] \in 0 .. Voices
  BY GoodNow, Counted
<1>16. p \in H
  BY <1>14
<1>17. \A w \in G : /\ w.pool \in GN(need, o, P) /\ w.pool.count[part] <= p.count[part]
                    /\ w.pool \in H /\ w.pass \in Pass
                    /\ w = [pool |-> w.pool, pass |-> w.pass]
                    /\ w.pass = 3 => Over(w.pool)
  OBVIOUS
<1>1. x \in G
  <2>1. 0 \in Pass /\ 0 # 3
    OBVIOUS
  <2> HIDE DEF G, H, Pass, Over
  <2> QED BY <2>1, <1>12, <1>16
<1>2. ASSUME NEW w \in G
      PROVE  /\ turn(w) \in G
             /\ \/ turn(w).pass = 3
                \/ /\ w.pass # 3
                   /\ \/ /\ turn(w).pool.count[part] < w.pool.count[part]
                         /\ turn(w).pass = w.pass
                      \/ /\ turn(w).pool.count[part] = w.pool.count[part]
                         /\ turn(w).pass = w.pass + 1
  <2> DEFINE q == w.pool
             i == w.pass
             v == SlotSelect(q, part, i, cur, level)
             r == NoteHelper(q, q.desc[v], part)
  <2>1. /\ q \in GN(need, o, P) /\ q \in H /\ i \in Pass /\ w = [pool |-> q, pass |-> i]
        /\ Good(q) /\ q.count[part] <= p.count[part]
    BY <1>17, GoodNow
  <2>2. CASE i = 3
    BY <2>2
  <2>3. CASE i # 3 /\ v # None
    <3> DEFINE to == IF Enough(r) \/ Reserved(r, part) THEN 3 ELSE i
    <3>1. turn(w) = [pool |-> r, pass |-> to]
      BY <2>3
    <3>2. InNote(q, q.desc[v], part)
      <4> HIDE DEF v
      <4>1. v = SlotSelect(q, part, i, cur, level)
        BY DEF v
      <4> HIDE DEF q
      <4> QED BY <4>1, <2>1, <2>3, SlotSelectIs
    <3> HIDE DEF v, turn, q, i
    <3>3. HelperDone(r, q, q.desc[v], part, need, o, P)
      BY <3>2, <2>1, NoteHelperKeeps
    <3> HIDE DEF r, H
    <3>4. r \in GN(need, o, P) /\ r.count[part] < q.count[part]
      BY <3>3 DEF HelperDone
    <3>5. r.count[part] < p.count[part] /\ r \in H
      BY <3>4, <2>1, <1>14 DEF H
    <3>6. to \in Pass /\ (to = 3 => Over(r))
      BY <2>1, <2>3, <3>5 DEF Gave
    <3>7. turn(w) \in G
      <4> HIDE DEF to, G, Over, Pass
      <4> QED BY <3>1, <3>5, <3>6, <1>12
    <3>8. turn(w).pool = r /\ turn(w).pass = to
      BY <3>1
    <3> QED BY <3>4, <3>7, <3>8, <2>3 DEF q, i
  <2>4. CASE i # 3 /\ v = None
    <3> DEFINE on == i = 0 \/ (i = 1 /\ q.current[part] # None)
               to == IF on THEN i + 1 ELSE 3
    <3>1. turn(w) = [pool |-> q, pass |-> to]
      <4> HIDE DEF v
      <4>1. CASE on
        <5>1. turn(w) = [w EXCEPT !.pass = i + 1]
          BY <2>4, <4>1 DEF v
        <5> HIDE DEF turn
        <5> QED BY <5>1, <2>1, <4>1
      <4>2. CASE ~on
        <5>1. turn(w) = [w EXCEPT !.pass = 3]
          BY <2>4, <4>2 DEF v
        <5> HIDE DEF turn
        <5> QED BY <5>1, <2>1, <4>2
      <4> QED BY <4>1, <4>2
    <3>2. to = 3 => Over(q)
      <4> HIDE DEF q, i, turn
      <4>1. ASSUME to = 3, Heard(level) PROVE \A d : ~InNote(q, d, part)
        <5>1. (i = 1 /\ q.current[part] = None) \/ i = 2
          BY <4>1, <2>1, <2>4
        <5>2. CASE i = 1 /\ q.current[part] = None
          BY <5>2, <2>1, NoCurrent
        <5>3. CASE i = 2
          <6>1. SlotSelect(q, part, 2, cur, level) = None
            BY <5>3, <2>4
          <6> HIDE DEF cur
          <6> QED BY <6>1, <4>1, <2>1, SlotSelectAll
        <5> QED BY <5>1, <5>2, <5>3
      <4>2. ASSUME to = 3, Heard(level) PROVE q.count[part] = 0
        BY <4>1, <4>2, <2>1, NoteCounts
      <4> QED BY <4>2 DEF Gave
    <3>3. to \in Pass
      BY <2>1, <2>4
    <3>4. turn(w) \in G
      <4> HIDE DEF to, G, Over, Pass, turn, q, i, H
      <4> QED BY <3>1, <3>2, <3>3, <2>1, <1>12
    <3>5. turn(w).pool = q /\ turn(w).pass = to
      <4> HIDE DEF turn, to, q
      <4> QED BY <3>1
    <3>6. to = 3 \/ to = i + 1
      OBVIOUS
    <3> HIDE DEF turn, to
    <3> QED BY <3>4, <3>5, <3>6, <2>4
  <2> QED BY <2>2, <2>3, <2>4
<1>3. s \in [G -> G]
  <2> HIDE DEF turn, G
  <2> QED BY <1>2
<1>18. \A w \in G : w.pool.count[part] \in 0 .. Voices /\ w.pass \in Pass
  BY <1>14, <1>17
<1>19. \A w \in G : s[w] \in D \/ (w \notin D /\ m[s[w]] < m[w])
  <2> SUFFICES ASSUME NEW w \in G PROVE s[w] \in D \/ (w \notin D /\ m[s[w]] < m[w])
    OBVIOUS
  <2>1. s[w] = turn(w) /\ turn(w) \in G
    BY <1>2
  <2> HIDE DEF turn, s, G
  <2>2. \/ turn(w).pass = 3
        \/ /\ w.pass # 3
           /\ \/ /\ turn(w).pool.count[part] < w.pool.count[part]
                 /\ turn(w).pass = w.pass
              \/ /\ turn(w).pool.count[part] = w.pool.count[part]
                 /\ turn(w).pass = w.pass + 1
    BY <1>2
  <2>3. /\ w.pool.count[part] \in Int /\ w.pass \in Int
        /\ turn(w).pool.count[part] \in Int /\ turn(w).pass \in Int
    BY <1>18, <2>1
  <2> QED BY <2>1, <2>2, <2>3
<1>20. m \in [G -> Int] /\ m[x] <= n /\ \A w \in G : w \in D \/ m[w] > 0
  <2> HIDE DEF G
  <2>1. m \in [G -> Int] /\ \A w \in G : w \in D \/ m[w] > 0
    BY <1>18
  <2>2. m[x] <= n
    BY <1>0, <1>1, <1>18
  <2> QED BY <2>1, <2>2
<1> HIDE DEF n
<1>4. PICK f \in [0 .. n -> G] : f[0] = x /\ \A k \in 1 .. n : f[k] = s[f[k - 1]]
  <2> HIDE DEF s, G, x
  <2>1. HasLaps(G, x, s, n)
    BY <1>0, <1>1, <1>3, Iteration
  <2> QED BY <2>1 DEF HasLaps
<1> HIDE DEF G, x
<1>5. \A k \in 1 .. n : f[k] = turn(f[k - 1])
  <2> SUFFICES ASSUME NEW k \in 1 .. n PROVE f[k] = turn(f[k - 1])
    OBVIOUS
  <2>1. k - 1 \in 0 .. n
    BY <1>0
  <2>2. f[k - 1] \in G
    BY <2>1, <1>4
  <2> HIDE DEF turn
  <2> QED BY <2>2, <1>4
<1> HIDE DEF turn
<1>6. f = Laps(f)
  BY <1>0, <1>4, <1>5
<1>7. after = Laps(after)
  BY <1>6
<1>8. KeyOn(p, part, level) = after[n].pool
  BY DEF KeyOn, cur, Loop, x, turn, n
<1> HIDE DEF after
<1>9. after[0] = x
  BY <1>0, <1>7
<1>10. \A k \in 1 .. n : after[k - 1] \in G => after[k] = s[after[k - 1]]
  BY <1>0, <1>7
<1>11. after[n] \in G /\ after[n] \in D
  <2> HIDE DEF s, Laps, m, D
  <2>1. Falls(G, x, s, n, D, m)
    BY <1>1, <1>3, <1>19, <1>20 DEF Falls
  <2>2. Turns(after, G, x, s, n)
    BY <1>9, <1>10 DEF Turns
  <2> QED BY <1>0, <2>1, <2>2, LoopEnds
<1> HIDE DEF H
<1> QED BY <1>8, <1>11, <1>17

\* Stealing the notes whose key is up first, and then any.
LEMMA StealGives ==
  ASSUME NEW o, NEW P, NEW need \in Int, NEW p \in GN(need, o, P), NEW part \in Part,
         part \in P
  PROVE  Steal(p, part) \in GN(need, o, P) /\ Gave(Steal(p, part), p, part)
<1> DEFINE q == StealKeyUp(p, part)
           r == StealOldest(q, part)
<1>1. q \in GN(need, o, P)
  BY StealKeyUpKeeps
<1>2. q.count[part] <= p.count[part]
  <2> DEFINE Q == {part}
  <2>1. part \in Q
    OBVIOUS
  <2> HIDE DEF Q
  <2>2. p \in GN(need, p, Q) /\ Good(p)
    BY GivesSelf, GoodNow
  <2>3. q \in GN(need, p, Q)
    BY <2>1, <2>2, StealKeyUpKeeps
  <2> HIDE DEF q
  <2> QED BY <2>2, <2>3, CountsEased DEF GN
<1> HIDE DEF q
<1>3. r \in GN(need, o, P) /\ Gave(r, q, part)
  BY <1>1, StealOldestKeeps
<1>4. Steal(p, part) = IF Enough(q) THEN q ELSE r
  BY DEF Steal, StealRest, q
<1> HIDE DEF r
<1>5. p.count[part] \in Int /\ q.count[part] \in Int /\ r.count[part] \in Int
  BY <1>1, <1>3, GoodNow, Counted
<1>6. Gave(r, p, part)
  BY <1>2, <1>3, <1>5 DEF Gave
<1> QED BY <1>1, <1>3, <1>4, <1>6 DEF Gave

\* Stealing from a part, in the way it is set up for, ends by one of the
\* reasons of Gave.
LEMMA NoteDispKeeps ==
  ASSUME NEW o, NEW P, NEW need \in Int, NEW p \in GN(need, o, P), NEW part \in Part,
         part \in P, NEW level
  PROVE  /\ NoteDisp(p, part, level) \in GN(need, o, P)
         /\ Heard(level) /\ StealBy[part] # "nothing" => Gave(NoteDisp(p, part, level), p, part)
<1>1. CASE StealBy[part] = "oldest"
  <2>1. NoteDisp(p, part, level) = Steal(p, part)
    BY <1>1 DEF NoteDisp
  <2> QED BY <2>1, StealGives
<1>2. CASE StealBy[part] = "quietest"
  <2>1. NoteDisp(p, part, level) = KeyOn(p, part, level)
    BY <1>2 DEF NoteDisp
  <2> QED BY <2>1, KeyOnKeeps
<1>3. CASE StealBy[part] # "oldest" /\ StealBy[part] # "quietest"
  <2>1. NoteDisp(p, part, level) = p
    BY <1>3 DEF NoteDisp
  <2>2. StealBy[part] = "nothing"
    BY <1>3, VoicePoolAssumption DEF Part
  <2> QED BY <2>1, <2>2
<1> QED BY <1>1, <1>2, <1>3

\* Stealing from the parts below, one by one.
LEMMA ScanPartsKeeps ==
  ASSUME NEW o, NEW P, NEW need \in Int, NEW p \in GN(need, o, P), NEW from \in Part, NEW level,
         Good(o), \A y \in Part : y <= from /\ o.count[y] > Reserve[y] => y \in P
  PROVE  ScanParts(p, from, level) \in GN(need, o, P)
<1> DEFINE At == -1 .. from
           G == [pool : GN(need, o, P), part : At]
           x == [pool |-> p, part |-> from]
           turn(w) ==
             LET q == w.pool  part == w.part IN
             IF part = -1 THEN w
             ELSE IF Reserved(q, part) THEN [w EXCEPT !.part = part - 1]
             ELSE PartDone(NoteDisp(q, part, level), part)
           Laps(f) == [k \in 0 .. Parts |-> IF k = 0 THEN x ELSE turn(f[k - 1])]
           after == CHOOSE f : f = Laps(f)
           s == [w \in G |-> turn(w)]
<1>0. Parts \in Nat /\ Parts - 1 \in Int /\ from \in Int /\ from <= Parts - 1 /\ from >= 0
  BY Sizes DEF Part
<1>12. /\ from \in At /\ -1 \in At
       /\ \A part \in At : part # -1 => part \in Part /\ part - 1 \in At /\ part <= from
  BY <1>0 DEF Part
<1> HIDE DEF At
<1>1. x \in G
  BY <1>12
<1>2. ASSUME NEW w \in G PROVE turn(w) \in G
  <2> DEFINE q == w.pool
             part == w.part
             r == NoteDisp(q, part, level)
  <2>1. q \in GN(need, o, P) /\ part \in At /\ w = [pool |-> q, part |-> part]
    OBVIOUS
  <2>2. CASE part = -1
    BY <2>2
  <2>3. CASE part # -1 /\ Reserved(q, part)
    <3>1. turn(w) = [pool |-> q, part |-> part - 1]
      BY <2>1, <2>3
    <3>2. part - 1 \in At
      BY <2>1, <2>3, <1>12
    <3> HIDE DEF turn
    <3> QED BY <3>1, <3>2, <2>1
  <2>4. CASE part # -1 /\ ~Reserved(q, part)
    <3> DEFINE to == IF Enough(r) THEN -1 ELSE part - 1
    <3>1. turn(w) = [pool |-> r, part |-> to]
      BY <2>4 DEF PartDone
    <3>2. part \in P
      <4>1. part \in Part /\ part <= from /\ Good(q) /\ Eased(q, o, P)
        BY <2>1, <2>4, <1>12 DEF GN
      <4>2. o.count[part] \in Int /\ q.count[part] \in Int /\ Reserve[part] \in Int
        BY <4>1, Counted, VoicePoolAssumption DEF Part
      <4>3. q.count[part] <= o.count[part] /\ ~(q.count[part] <= Reserve[part])
        BY <4>1, <2>4, CountsEased DEF Reserved
      <4>4. o.count[part] > Reserve[part]
        BY <4>2, <4>3
      <4> QED BY <4>1, <4>4
    <3>4. r \in GN(need, o, P)
      BY <2>1, <2>4, <1>12, <3>2, NoteDispKeeps
    <3> HIDE DEF turn, r
    <3>3. to \in At
      BY <2>1, <2>4, <1>12
    <3> QED BY <3>1, <3>4, <3>3
  <2> QED BY <2>2, <2>3, <2>4
<1>3. s \in [G -> G]
  BY <1>2
<1>4. PICK f \in [0 .. Parts -> G] : f[0] = x /\ \A k \in 1 .. Parts : f[k] = s[f[k - 1]]
  <2> HIDE DEF s, G, x
  <2>1. HasLaps(G, x, s, Parts)
    BY <1>0, <1>1, <1>3, Iteration
  <2> QED BY <2>1 DEF HasLaps
<1> HIDE DEF G, x
<1>5. \A k \in 1 .. Parts : f[k] = turn(f[k - 1])
  <2> SUFFICES ASSUME NEW k \in 1 .. Parts PROVE f[k] = turn(f[k - 1])
    OBVIOUS
  <2>1. k - 1 \in 0 .. Parts
    BY <1>0
  <2>2. f[k - 1] \in G
    BY <2>1, <1>4
  <2> HIDE DEF turn
  <2> QED BY <2>2, <1>4
<1> HIDE DEF turn
<1>6. f = Laps(f)
  BY <1>0, <1>4, <1>5
<1>7. after = Laps(after)
  BY <1>6
<1>8. ScanParts(p, from, level) = after[Parts].pool
  BY DEF ScanParts, Loop, x, turn
<1> HIDE DEF after
<1>9. after[0] = x
  BY <1>0, <1>7
<1>10. \A k \in 1 .. Parts : after[k - 1] \in G => after[k] = s[after[k - 1]]
  BY <1>0, <1>7
<1>11. after[Parts] \in G
  <2> HIDE DEF s, Laps
  <2> QED BY <1>0, <1>1, <1>3, <1>9, <1>10, Looped
<1> QED BY <1>8, <1>11 DEF G

(* What alloc_scan leaves: enough idle voices, or the number it is short of. *)
LEMMA AllocScanKeeps ==
  ASSUME NEW o, NEW P, NEW p \in GN(0, o, P), NEW own \in Part, NEW need \in 1 .. 2, NEW level,
         Good(o), own \in P,
         \A y \in Part : y <= ScanFrom(own) /\ o.count[y] > Reserve[y] => y \in P
  PROVE  AllocScan(p, own, need, level) \in GN(need, o, P)
<1> DEFINE short == need - p.freeCount
<1>1. p \in Pools /\ Good(p) /\ p.fresh = <<>> /\ Moved(p, o) /\ Eased(p, o, P)
  BY DEF GN
<1>2. PICK f, e, c, home : Sound(p, f, e, c, home, {})
  BY <1>1 DEF Good
<1>3. p.freeCount \in Nat
  BY <1>2 DEF Sound, IdleOK
<1>4. need \in Int /\ short \in Int /\ short <= 2
  BY <1>3
<1>5. CASE short <= 0
  <2> DEFINE q == [p EXCEPT !.short = 0]
  <2>1. 0 \in 0 .. 2
    OBVIOUS
  <2>2. AllocScan(p, own, need, level) = q
    BY <1>5 DEF AllocScan
  <2> HIDE DEF q
  <2>3. Good(q) /\ SameLists(q, p) /\ q.short = 0 /\ Eased(q, p, {})
    BY <1>1, <2>1, ShortKeeps DEF q
  <2>4. q \in Pools
    BY <2>3 DEF Good, Sound
  <2>5. q.freeCount = p.freeCount /\ q.fresh = p.fresh
    BY <2>3 DEF SameLists, SameIdle
  <2>6. q.freeCount + q.short >= need
    BY <2>3, <2>5, <1>3, <1>5
  <2> QED BY <2>2, <2>3, <2>4, <2>5, <2>6, <1>1, MovedSame, EasedMore DEF GN
<1>6. CASE ~(short <= 0)
  <2> DEFINE q == [p EXCEPT !.short = short]
             r == ScanParts(q, ScanFrom(own), level)
  <2>1. short \in 0 .. 2
    BY <1>4, <1>6
  <2>2. AllocScan(p, own, need, level) = ScanOwn(r, own, level)
    BY <1>6 DEF AllocScan
  <2> HIDE DEF q
  <2>3. Good(q) /\ SameLists(q, p) /\ q.short = short /\ Eased(q, p, {})
    <3> HIDE DEF short
    <3> QED BY <1>1, <2>1, ShortKeeps DEF q
  <2>4. q \in Pools
    BY <2>3 DEF Good, Sound
  <2>5. q.freeCount = p.freeCount /\ q.fresh = p.fresh
    BY <2>3 DEF SameLists, SameIdle
  <2>6. q.freeCount + q.short >= need
    BY <2>3, <2>5, <1>3
  <2>7. q \in GN(need, o, P)
    BY <2>3, <2>4, <2>5, <2>6, <1>1, MovedSame, EasedMore DEF GN
  <2>8. ScanFrom(own) \in Part
    BY VoicePoolAssumption, Sizes DEF ScanFrom, Part
  <2>9. r \in GN(need, o, P)
    BY <2>7, <2>8, <1>4, ScanPartsKeeps
  <2> HIDE DEF r
  <2>10. NoteDisp(r, own, level) \in GN(need, o, P)
    BY <2>9, <1>4, NoteDispKeeps
  <2> QED BY <2>2, <2>9, <2>10 DEF ScanOwn
<1> QED BY <1>5, <1>6

(* The repeated key. *)
LEMMA AgainCells ==
  ASSUME NEW p \in Pools, NEW g \in DescTo(BOOLEAN)
  PROVE  [p EXCEPT !.again = g] \in Pools
  BY Zenon DEF Pools

\* Marking repeated notes leaves the lists alone.
LEMMA AgainKeeps ==
  ASSUME NEW o, NEW P, NEW p \in GN(0, o, P), NEW s, NEW S, NEW q, q = Again(p, s, S)
  PROVE  q \in GN(0, o, P) /\ SameLists(q, p)
<1> DEFINE g == [d \in Desc |-> p.again[d] \/ \E i \in S : s[i] = d]
<1>1. q = [p EXCEPT !.again = g] /\ p \in Pools /\ Good(p)
  BY DEF Again, GN
<1>2. g \in DescTo(BOOLEAN)
  BY DEF DescTo
<1> HIDE DEF g
<1>3. [p EXCEPT !.again = g] \in Pools
  BY <1>1, <1>2, AgainCells, Zenon
<1>4. q \in Pools
  BY <1>1, <1>3, Zenon
<1>5. /\ SameIdle(q, p) /\ SameVoices(q, p) /\ SameNotes(q, p) /\ SameCount(q, p)
      /\ q.free = p.free /\ q.fresh = p.fresh /\ q.short = p.short
  BY <1>1 DEF Pools, SameIdle, SameVoices, SameNotes, SameCount
<1>6. SameLists(q, p)
  BY <1>5 DEF SameLists
<1>7. p.short \in 0 .. 2
  BY DEF GN, Good, Sound
<1>8. Good(q)
  BY <1>1, <1>4, <1>5, <1>6, <1>7, GoodSame
<1>9. Moved(q, o)
  BY <1>6, MovedSame DEF GN
<1>10. Eased(q, p, {})
  <2>1. SameGates(q, p) /\ q.gateOff = p.gateOff
    BY <1>1 DEF Pools, SameGates
  <2> QED BY <2>1, <1>5, EasedSame
<1>11. Eased(q, o, P)
  BY <1>10, EasedMore DEF GN
<1> QED BY <1>4, <1>5, <1>6, <1>8, <1>9, <1>11 DEF GN, SameIdle

\* A note whose key is played already releases, restacks or recuts it.
LEMMA RepeatKeeps ==
  ASSUME NEW o, NEW P, NEW p \in GN(0, o, P), NEW part \in Part, part \in P, NEW key
  PROVE  Repeat(p, part, key) \in GN(0, o, P)
<1> DEFINE s == Chain(p, part)
           same == {i \in 1 .. Len(s) : p.key[s[i]] = key}
<1>1. s \in Seq(Desc) /\ \A i \in 1 .. Len(s) : InNote(p, s[i], part)
  BY ChainNotes, GoodNow
<1>2. same \in SUBSET Nat /\ same \subseteq 1 .. Len(s)
  OBVIOUS
<1> HIDE DEF s, same
<1>3. Recut(p, part, s, same) \in GN(0, o, P)
  <2>1. CASE same = {}
    BY <2>1 DEF Recut
  <2>2. CASE same # {}
    <3> DEFINE i == Least(same)
    <3>1. i \in same
      BY <2>2, <1>2, LeastIs
    <3>2. Recut(p, part, s, same) = AuxAlloc(p, s[i], part)
      BY <2>2 DEF Recut
    <3> HIDE DEF i
    <3>3. HelperDone(AuxAlloc(p, s[i], part), p, s[i], part, 0, o, P)
      BY <3>1, <1>1, <1>2, AuxAllocKeeps
    <3> QED BY <3>2, <3>3 DEF HelperDone
  <2> QED BY <2>1, <2>2
<1>4. Restack(p, part, s, same) \in GN(0, o, P)
  <2> DEFINE marked == {i \in same : p.again[s[i]]}
             S == {i \in same : i < Least(marked)}
  <2>1. CASE marked = {}
    <3>1. Restack(p, part, s, same) = Again(p, s, same)
      BY <2>1 DEF Restack
    <3> QED BY <3>1, AgainKeeps
  <2>2. CASE marked # {}
    <3> DEFINE i == Least(marked)
               q == Again(p, s, S)
    <3>1. i \in same
      <4>1. marked \in SUBSET Nat
        BY <1>2
      <4> HIDE DEF marked
      <4>2. i \in marked
        BY <4>1, <2>2, LeastIs
      <4> QED BY <4>2 DEF marked
    <3>2. Restack(p, part, s, same) = NoteHelper(q, s[i], part)
      BY <2>2 DEF Restack
    <3> HIDE DEF i, S
    <3>3. q \in GN(0, o, P) /\ SameLists(q, p)
      BY AgainKeeps
    <3> HIDE DEF q
    <3>4. InNote(p, s[i], part)
      BY <3>1, <1>1, <1>2
    <3>5. InNote(q, s[i], part)
      BY <3>3, <3>4 DEF InNote, SameLists, SameVoices
    <3>6. HelperDone(NoteHelper(q, s[i], part), q, s[i], part, 0, o, P)
      BY <3>3, <3>5, NoteHelperKeeps
    <3> QED BY <3>2, <3>6 DEF HelperDone
  <2> QED BY <2>1, <2>2
<1>5. Repeat(p, part, key) \in {Recut(p, part, s, same), Restack(p, part, s, same), p}
  <2>1. CASE Retrigger[part] = "same"
    BY <2>1 DEF Repeat, s, same
  <2>2. CASE Retrigger[part] # "same" /\ Retrigger[part] = "stack" /\ ~InTable(p, part, key)
    BY <2>2 DEF Repeat, s, same
  <2>3. CASE Retrigger[part] # "same" /\ ~(Retrigger[part] = "stack" /\ ~InTable(p, part, key))
    BY <2>3 DEF Repeat
  <2> QED BY <2>1, <2>2, <2>3
<1> QED BY <1>3, <1>4, <1>5
-----------------------------------------------------------------------------
(* A new note. *)

\* What opening a note writes, one table at a time.
OpenNext(p, d, part) ==
  IF p.last[part] = None THEN [p.descNext EXCEPT ![d] = None]
  ELSE [p.descNext EXCEPT ![p.last[part]] = d, ![d] = None]
OpenFirst(p, d, part) ==
  IF p.last[part] = None THEN [p.first EXCEPT ![part] = d] ELSE p.first
OpenCurrent(p, d, part, key) ==
  LET cur == p.current[part] IN
  IF cur # None /\ key > [p.key EXCEPT ![d] = key][cur] THEN cur ELSE d

\* The tables of a pool with a new note.
OpenDone(q, p, d, part, key) ==
  /\ q \in Pools
  /\ q.descNext = OpenNext(p, d, part)
  /\ q.descPrev = [p.descPrev EXCEPT ![d] = p.last[part]]
  /\ q.first = OpenFirst(p, d, part) /\ q.last = [p.last EXCEPT ![part] = d]
  /\ q.descFree = p.descNext[d] /\ q.state = [p.state EXCEPT ![d] = "down"]
  /\ q.key = [p.key EXCEPT ![d] = key]
  /\ q.current = [p.current EXCEPT ![part] = OpenCurrent(p, d, part, key)]
  /\ SameIdle(q, p) /\ SameVoices(q, p)
  /\ q.free = p.free /\ q.fresh = p.fresh /\ q.short = p.short /\ q.count = p.count
  /\ q.held = [p.held EXCEPT ![d] = FALSE] /\ q.gateOff = p.gateOff
  /\ q.hold = p.hold /\ q.table = p.table

\* Writing the first half of a new note stays within the ranges.
LEMMA OpenCells ==
  ASSUME NEW p \in Pools, NEW a \in DescTo(OrNone(Desc)),
         NEW b \in DescTo(OrNone(Desc)), NEW y \in PartTo(OrNone(Desc)),
         NEW n \in OrNone(Desc), NEW k \in DescTo(OrNone(Keys)),
         NEW o \in DescTo(BOOLEAN)
  PROVE  [p EXCEPT !.descFree = n, !.last = y, !.descPrev = b, !.descNext = a,
                   !.key = k, !.canOff = o] \in Pools
  BY Zenon DEF Pools

\* Writing the second half of a new note stays within the ranges.
LEMMA NewestCells ==
  ASSUME NEW p \in Pools, NEW s \in DescTo({"free", "down", "up"}),
         NEW u \in PartTo(OrNone(Desc)), NEW h \in DescTo(BOOLEAN),
         NEW g \in DescTo(BOOLEAN)
  PROVE  [p EXCEPT !.state = s, !.held = h, !.again = g, !.current = u] \in Pools
  BY Zenon DEF Pools

\* Writing the head of a chain stays within the ranges.
LEMMA FirstCells ==
  ASSUME NEW p \in Pools, NEW x \in PartTo(OrNone(Desc)),
         NEW a \in DescTo(OrNone(Desc))
  PROVE  [p EXCEPT !.first = x, !.descNext = a] \in Pools
  BY Zenon DEF Pools

\* Opening a note writes these tables and nothing else.
LEMMA OpenShape ==
  ASSUME NEW p \in Pools, NEW part \in Part, NEW key \in Keys, NEW canOff \in BOOLEAN,
         NEW d \in Desc, d = p.descFree, NEW q, q = OpenDesc(p, part, key, canOff)
  PROVE  OpenDone(q, p, d, part, key)
<1> DEFINE t == p.last[part]
           a0 == IF t = None THEN p.descNext ELSE [p.descNext EXCEPT ![t] = d]
           a == OpenNext(p, d, part)
           b == [p.descPrev EXCEPT ![d] = t]
           x == OpenFirst(p, d, part)
           y == [p.last EXCEPT ![part] = d]
           n == p.descNext[d]
           s == [p.state EXCEPT ![d] = "down"]
           k == [p.key EXCEPT ![d] = key]
           u == [p.current EXCEPT ![part] = OpenCurrent(p, d, part, key)]
           h == [p.held EXCEPT ![d] = FALSE]
           g == [p.again EXCEPT ![d] = FALSE]
           o == [p.canOff EXCEPT ![d] = canOff]
           q0 == IF t = None THEN [p EXCEPT !.first[part] = d]
                             ELSE [p EXCEPT !.descNext[t] = d]
           q1 == [q0 EXCEPT !.descFree = p.descNext[d], !.last[part] = d,
                            !.descPrev[d] = t, !.descNext[d] = None,
                            !.key[d] = key, !.canOff[d] = canOff]
<1>1. /\ p.descNext \in [Desc -> OrNone(Desc)] /\ p.descPrev \in [Desc -> OrNone(Desc)]
      /\ p.first \in [Part -> OrNone(Desc)] /\ p.last \in [Part -> OrNone(Desc)]
      /\ p.state \in [Desc -> {"free", "down", "up"}]
      /\ p.current \in [Part -> OrNone(Desc)] /\ p.key \in [Desc -> OrNone(Keys)]
  BY DEF Pools, DescTo, PartTo
<1>2. p.held \in [Desc -> BOOLEAN] /\ p.again \in [Desc -> BOOLEAN]
      /\ p.canOff \in [Desc -> BOOLEAN]
  BY DEF Pools, DescTo
<1>3. /\ d \in OrNone(Desc) /\ None \in OrNone(Desc) /\ key \in OrNone(Keys)
      /\ t \in OrNone(Desc) /\ n \in OrNone(Desc)
      /\ p.current[part] \in OrNone(Desc)
  BY <1>1 DEF OrNone
<1>4. /\ a0 \in DescTo(OrNone(Desc)) /\ a \in DescTo(OrNone(Desc))
      /\ b \in DescTo(OrNone(Desc))
      /\ x \in PartTo(OrNone(Desc)) /\ y \in PartTo(OrNone(Desc))
  BY <1>1, <1>3 DEF OpenNext, OpenFirst, DescTo, PartTo
<1>5. s \in DescTo({"free", "down", "up"}) /\ k \in DescTo(OrNone(Keys))
  BY <1>1, <1>3 DEF DescTo
<1>6. u \in PartTo(OrNone(Desc))
  <2>1. OpenCurrent(p, d, part, key) \in OrNone(Desc)
    BY <1>3 DEF OpenCurrent
  <2> QED BY <2>1, <1>1 DEF PartTo
<1>7. h \in DescTo(BOOLEAN) /\ g \in DescTo(BOOLEAN) /\ o \in DescTo(BOOLEAN)
  <2> DEFINE hh == p.held
             gg == p.again
             oo == p.canOff
  <2>1. hh \in [Desc -> BOOLEAN] /\ gg \in [Desc -> BOOLEAN] /\ oo \in [Desc -> BOOLEAN]
    BY <1>2
  <2> HIDE DEF hh, gg, oo
  <2>2. /\ [hh EXCEPT ![d] = FALSE] \in [Desc -> BOOLEAN]
        /\ [gg EXCEPT ![d] = FALSE] \in [Desc -> BOOLEAN]
        /\ [oo EXCEPT ![d] = canOff] \in [Desc -> BOOLEAN]
    BY <2>1, Zenon
  <2> QED BY <2>2 DEF DescTo, hh, gg, oo
<1>8. q = H3(q1, d, part)
  BY DEF OpenDesc
<1>9. q0 = [p EXCEPT !.first = x, !.descNext = a0]
  <2>1. CASE t = None
    BY <2>1 DEF OpenFirst, Pools
  <2>2. CASE t # None
    BY <2>2 DEF OpenFirst, Pools
  <2> QED BY <2>1, <2>2
<1>10. [a0 EXCEPT ![d] = None] = a
  BY DEF OpenNext
<1> HIDE DEF q0, a0, x
<1>11. q0 \in Pools
  <2>1. [p EXCEPT !.first = x, !.descNext = a0] \in Pools
    BY <1>4, FirstCells, Zenon
  <2> QED BY <2>1, <1>9, Zenon
<1>12. /\ q0.first = x /\ q0.descNext = a0
       /\ q0.last = p.last /\ q0.descPrev = p.descPrev /\ q0.key = p.key
       /\ q0.canOff = p.canOff /\ q0.state = p.state /\ q0.held = p.held
       /\ q0.again = p.again /\ q0.current = p.current
       /\ SameIdle(q0, p) /\ SameVoices(q0, p)
       /\ q0.free = p.free /\ q0.fresh = p.fresh /\ q0.short = p.short
       /\ q0.count = p.count /\ q0.gateOff = p.gateOff /\ q0.hold = p.hold
       /\ q0.table = p.table
  BY <1>9 DEF Pools, SameIdle, SameVoices
<1>13. q1 = [q0 EXCEPT !.descFree = n, !.last = y, !.descPrev = b, !.descNext = a,
                       !.key = k, !.canOff = o]
  BY <1>10, <1>11, <1>12 DEF Pools
<1> HIDE DEF q1, a, b, y, n, k, o
<1>14. q1 \in Pools
  <2>1. [q0 EXCEPT !.descFree = n, !.last = y, !.descPrev = b, !.descNext = a,
                   !.key = k, !.canOff = o] \in Pools
    BY <1>3, <1>4, <1>5, <1>7, <1>11, OpenCells, Zenon
  <2> QED BY <2>1, <1>13, Zenon
<1>15. /\ q1.descNext = a /\ q1.descPrev = b /\ q1.last = y /\ q1.descFree = n
       /\ q1.key = k /\ q1.first = q0.first /\ q1.state = q0.state
       /\ q1.held = q0.held /\ q1.again = q0.again /\ q1.current = q0.current
       /\ SameIdle(q1, q0) /\ SameVoices(q1, q0)
       /\ q1.free = q0.free /\ q1.fresh = q0.fresh /\ q1.short = q0.short
       /\ q1.count = q0.count /\ q1.gateOff = q0.gateOff /\ q1.hold = q0.hold
       /\ q1.table = q0.table
  BY <1>11, <1>13 DEF Pools, SameIdle, SameVoices
<1>16. OpenCurrent(p, d, part, key) =
         IF q1.current[part] # None /\ q1.key[d] > q1.key[q1.current[part]]
         THEN q1.current[part] ELSE d
  <2>1. k[d] = key
    BY <1>1 DEF k
  <2> QED BY <2>1, <1>12, <1>15 DEF OpenCurrent, k
<1>17. q = [q1 EXCEPT !.state = s, !.held = h, !.again = g, !.current = u]
  BY <1>8, <1>12, <1>14, <1>15, <1>16, ZenonT(60) DEF H3, Pools
<1> HIDE DEF s, h, g, u
<1>18. q \in Pools
  <2>1. [q1 EXCEPT !.state = s, !.held = h, !.again = g, !.current = u] \in Pools
    BY <1>5, <1>6, <1>7, <1>14, NewestCells, Zenon
  <2> QED BY <2>1, <1>17, Zenon
<1>19. /\ q.descNext = q1.descNext /\ q.descPrev = q1.descPrev /\ q.first = q1.first
       /\ q.last = q1.last /\ q.descFree = q1.descFree /\ q.state = s
       /\ q.key = q1.key /\ q.current = u
       /\ SameIdle(q, q1) /\ SameVoices(q, q1)
       /\ q.free = q1.free /\ q.fresh = q1.fresh /\ q.short = q1.short
       /\ q.count = q1.count /\ q.held = h /\ q.gateOff = q1.gateOff
       /\ q.hold = q1.hold /\ q.table = q1.table
  BY <1>14, <1>17 DEF Pools, SameIdle, SameVoices
<1>20. SameIdle(q, p) /\ SameVoices(q, p)
  BY <1>12, <1>15, <1>19, SameTwice
<1>21. /\ q.descNext = a /\ q.descPrev = b /\ q.first = x /\ q.last = y
       /\ q.descFree = n /\ q.state = s /\ q.key = k /\ q.current = u
       /\ q.free = p.free /\ q.fresh = p.fresh /\ q.short = p.short
       /\ q.count = p.count /\ q.held = h /\ q.gateOff = p.gateOff
       /\ q.hold = p.hold /\ q.table = p.table
  BY <1>12, <1>15, <1>19
<1> QED BY <1>18, <1>20, <1>21 DEF OpenDone, a, b, x, y, n, s, k, u, h

\* The new note ends the chain of its part and has no voice; no voice has
\* another owner.
Opened(q, p, f, d, part, home) ==
  /\ \E e2, c2 : Sound(q, f, e2, c2, [home EXCEPT ![d] = part], {d})
  /\ SameIdle(q, p) /\ q.fresh = p.fresh /\ q.desc = p.desc
  /\ home[d] = None /\ \E key : OpenDone(q, p, d, part, key)

\* Opening a note does that.
LEMMA OpenKeeps ==
  ASSUME NEW p, NEW f, NEW e, NEW c, NEW home, Sound(p, f, e, c, home, {}), e # <<>>,
         NEW part \in Part, NEW key \in Keys, NEW canOff \in BOOLEAN,
         NEW d, d = p.descFree, NEW q, q = OpenDesc(p, part, key, canOff)
  PROVE  Opened(q, p, f, d, part, home)
<1> DEFINE s == c[part]
           n == Len(s)
           nxt == q.descNext
           home2 == [home EXCEPT ![d] = part]
           e2 == Tail(e)
           w == Append(s, d)
           c2 == [r \in Part |-> IF r = part THEN w ELSE c[r]]
<1>1. /\ p \in Pools /\ home \in [Desc -> OrNone(Part)]
      /\ IdleOK(p, f) /\ VoicesOK(p, Elements(f), home, {}) /\ NotesOK(p, e, c, home)
      /\ CountOK(p, Elements(f)) /\ BitsOK(p, Elements(f))
      /\ CurrentOK(p, home)
      /\ p.short \in 0 .. 2
  BY DEF Sound
<1>2. /\ e \in Seq(Desc) /\ ListOf(e, p.descNext, d)
      /\ Elements(e) = {x \in Desc : home[x] = None}
      /\ \A r \in Part :
           /\ c[r] \in Seq(Desc) /\ ChainOK(p, c[r], r)
           /\ Elements(c[r]) = {x \in Desc : home[x] = r}
      /\ \A x \in Desc : (home[x] = None <=> p.state[x] = "free")
                         /\ (home[x] # None => p.key[x] \in Keys)
  BY <1>1 DEF NotesOK
<1>3. d \in Desc /\ home[d] = None
  <2>1. d = e[1] /\ 1 \in 1 .. Len(e)
    BY <1>2, NoCells DEF ListOf
  <2> QED BY <2>1, <1>2 DEF Elements
<1>4. None \notin Desc /\ None \notin Part
  BY NoneIsNone
<1>5. OpenDone(q, p, d, part, key)
  BY <1>1, <1>3, OpenShape
<1>6. /\ q \in Pools
      /\ nxt = OpenNext(p, d, part)
      /\ q.descPrev = [p.descPrev EXCEPT ![d] = p.last[part]]
      /\ q.first = OpenFirst(p, d, part) /\ q.last = [p.last EXCEPT ![part] = d]
      /\ q.descFree = p.descNext[d] /\ q.state = [p.state EXCEPT ![d] = "down"]
      /\ q.key = [p.key EXCEPT ![d] = key]
      /\ q.current = [p.current EXCEPT ![part] = OpenCurrent(p, d, part, key)]
  BY <1>5 DEF OpenDone
<1>7. /\ SameIdle(q, p) /\ SameVoices(q, p)
      /\ q.free = p.free /\ q.fresh = p.fresh /\ q.short = p.short /\ q.count = p.count
  BY <1>5 DEF OpenDone
<1>8. /\ p.descNext \in [Desc -> OrNone(Desc)] /\ p.descPrev \in [Desc -> OrNone(Desc)]
      /\ p.first \in [Part -> OrNone(Desc)] /\ p.last \in [Part -> OrNone(Desc)]
      /\ p.state \in [Desc -> {"free", "down", "up"}]
      /\ p.current \in [Part -> OrNone(Desc)] /\ p.key \in [Desc -> OrNone(Keys)]
  BY <1>1 DEF Pools, DescTo, PartTo
<1>9. /\ s \in Seq(Desc) /\ ListOf(s, p.descNext, p.first[part])
      /\ p.last[part] = IF s = <<>> THEN None ELSE s[n]
      /\ \A i \in 1 .. n : p.descPrev[s[i]] = IF i = 1 THEN None ELSE s[i - 1]
      /\ Elements(s) = {x \in Desc : home[x] = part}
  BY <1>2 DEF ChainOK
<1>10. n \in Nat /\ (s = <<>> <=> n = 0)
  BY <1>9, NoCells
<1>11. \A i \in 1 .. n : s[i] \in Desc /\ home[s[i]] = part /\ s[i] # d
  BY <1>3, <1>4, <1>9 DEF Elements
<1>12. home2[d] = part /\ \A x \in Desc \ {d} : home2[x] = home[x]
  BY <1>1, <1>3
<1>13. home2 \in [Desc -> OrNone(Part)]
  BY <1>1 DEF OrNone
<1> HIDE DEF s, home2, nxt
<1>14. /\ nxt[d] = None
       /\ \A x \in Desc \ {d, p.last[part]} : nxt[x] = p.descNext[x]
       /\ s # <<>> => nxt[s[n]] = d
  <2>1. CASE s = <<>>
    BY <2>1, <1>3, <1>6, <1>8, <1>9 DEF OpenNext
  <2>2. CASE s # <<>>
    <3>1. n \in 1 .. n
      BY <2>2, <1>10
    <3>2. p.last[part] = s[n] /\ s[n] \in Desc /\ s[n] # d /\ s[n] # None
      BY <2>2, <3>1, <1>4, <1>9, <1>11
    <3> QED BY <3>2, <1>3, <1>6, <1>8 DEF OpenNext
  <2> QED BY <2>1, <2>2
<1>15. /\ w \in Seq(Desc) /\ ListOf(w, nxt, q.first[part])
       /\ Elements(w) = Elements(s) \cup {d} /\ Len(w) = n + 1
  <2>1. d \notin Elements(s)
    BY <1>11 DEF Elements
  <2>2. ASSUME NEW i \in 1 .. n - 1 PROVE nxt[s[i]] = p.descNext[s[i]]
    <3>1. i \in 1 .. n /\ n \in 1 .. n /\ i # n /\ s # <<>>
      BY <1>10
    <3>2. s[i] # s[n]
      BY <3>1, <1>9 DEF ListOf, Distinct
    <3> QED BY <3>1, <3>2, <1>9, <1>11, <1>14
  <2>3. q.first[part] = IF s = <<>> THEN d ELSE p.first[part]
    <3>1. CASE s = <<>>
      BY <3>1, <1>6, <1>8, <1>9 DEF OpenFirst
    <3>2. CASE s # <<>>
      <4>1. n \in 1 .. n
        BY <3>2, <1>10
      <4>2. p.last[part] # None
        BY <3>2, <4>1, <1>4, <1>9, <1>11
      <4> QED BY <4>2, <3>2, <1>6 DEF OpenFirst
    <3> QED BY <3>1, <3>2
  <2> DEFINE from == q.first[part]
             start == p.first[part]
             next == p.descNext
  <2> HIDE DEF from, start, next
  <2>4. from = IF s = <<>> THEN d ELSE start
    BY <2>3 DEF from, start
  <2>5. \A i \in 1 .. n - 1 : nxt[s[i]] = next[s[i]]
    BY <2>2 DEF next
  <2>6. ListOf(s, next, start) /\ s \in Seq(Desc)
    BY <1>9 DEF next, start
  <2>7. /\ w \in Seq(Desc) /\ ListOf(w, nxt, from)
        /\ Elements(w) = Elements(s) \cup {d} /\ Len(w) = n + 1
    BY <2>1, <2>4, <2>5, <2>6, <1>3, <1>14, ListAppend
  <2> QED BY <2>7 DEF from
<1>16. w[n + 1] = d /\ w # <<>> /\ \A i \in 1 .. n : w[i] = s[i]
  <2>1. w[n + 1] = d /\ \A i \in 1 .. n : w[i] = s[i]
    BY <1>3, <1>9, <1>10
  <2>2. w # <<>>
    <3> HIDE DEF w
    <3> QED BY <1>10, <1>15, NoCells
  <2> QED BY <2>1, <2>2
<1> HIDE DEF w
<1>17. ChainOK(q, w, part)
  <2>1. q.last[part] = IF w = <<>> THEN None ELSE w[Len(w)]
    BY <1>6, <1>8, <1>15, <1>16
  <2>2. ASSUME NEW i \in 1 .. Len(w)
        PROVE  q.descPrev[w[i]] = IF i = 1 THEN None ELSE w[i - 1]
    <3>1. CASE i = n + 1
      <4>1. q.descPrev[d] = IF s = <<>> THEN None ELSE s[n]
        BY <1>3, <1>6, <1>8, <1>9
      <4>2. i = 1 <=> s = <<>>
        BY <3>1, <1>10
      <4>3. i - 1 = n
        BY <3>1, <1>10
      <4>4. i # 1 => s[n] = w[n]
        BY <3>1, <1>10, <1>16
      <4> QED BY <4>1, <4>2, <4>3, <4>4, <3>1, <1>16
    <3>2. CASE i # n + 1
      <4> DEFINE j == i - 1
      <4>1. i \in 1 .. n /\ (i # 1 => j \in 1 .. n)
        BY <3>2, <1>10, <1>15
      <4>2. w[i] = s[i] /\ s[i] \in Desc /\ s[i] # d
        BY <4>1, <1>11, <1>16
      <4>3. q.descPrev[s[i]] = p.descPrev[s[i]]
        BY <4>2, <1>6, <1>8
      <4>4. p.descPrev[s[i]] = IF i = 1 THEN None ELSE s[j]
        BY <4>1, <1>9
      <4> HIDE DEF j
      <4>5. i # 1 => w[j] = s[j]
        BY <4>1, <1>16
      <4> QED BY <4>2, <4>3, <4>4, <4>5 DEF j
    <3> QED BY <3>1, <3>2
  <2> QED BY <2>1, <2>2, <1>15 DEF ChainOK, nxt
<1>18. ASSUME NEW r \in Part, r # part PROVE ChainOK(q, c[r], r)
  <2> DEFINE z == c[r]
  <2>1. /\ z \in Seq(Desc) /\ ListOf(z, p.descNext, p.first[r])
        /\ p.last[r] = IF z = <<>> THEN None ELSE z[Len(z)]
        /\ \A i \in 1 .. Len(z) : p.descPrev[z[i]] = IF i = 1 THEN None ELSE z[i - 1]
        /\ Elements(z) = {x \in Desc : home[x] = r}
    BY <1>2 DEF ChainOK
  <2> HIDE DEF z
  <2>2. \A i \in 1 .. Len(z) : z[i] \in Desc /\ home[z[i]] = r /\ z[i] # d
    BY <2>1, <1>3, <1>4 DEF Elements
  <2>3. p.last[part] = None \/ home[p.last[part]] = part
    BY <1>9, <1>10, <1>11
  <2>4. \A i \in 1 .. Len(z) : nxt[z[i]] = p.descNext[z[i]]
    <3> SUFFICES ASSUME NEW i \in 1 .. Len(z) PROVE nxt[z[i]] = p.descNext[z[i]]
      OBVIOUS
    <3>1. z[i] \in Desc /\ home[z[i]] = r /\ z[i] # d
      BY <2>2
    <3>2. z[i] # p.last[part]
      BY <3>1, <2>3, <1>4, <1>18
    <3> QED BY <3>1, <3>2, <1>14
  <2>5. ListOf(z, nxt, p.first[r])
    BY <2>1, <2>4, ListSame
  <2>6. q.first[r] = p.first[r] /\ q.last[r] = p.last[r]
    BY <1>6, <1>8, <1>18 DEF OpenFirst
  <2>7. \A i \in 1 .. Len(z) : q.descPrev[z[i]] = p.descPrev[z[i]]
    BY <2>2, <1>6, <1>8
  <2>8. ChainOK(q, z, r)
    BY <2>1, <2>5, <2>6, <2>7 DEF ChainOK, nxt
  <2> QED BY <2>8 DEF z
<1>19. /\ e2 \in Seq(Desc) /\ ListOf(e2, p.descNext, q.descFree)
       /\ Elements(e2) = Elements(e) \ {d}
  BY <1>2, <1>6, ListPop
<1> HIDE DEF e2
<1>20. ListOf(e2, nxt, q.descFree)
  <2>1. p.last[part] = None \/ home[p.last[part]] = part
    BY <1>9, <1>10, <1>11
  <2>2. \A i \in 1 .. Len(e2) : nxt[e2[i]] = p.descNext[e2[i]]
    <3> SUFFICES ASSUME NEW i \in 1 .. Len(e2) PROVE nxt[e2[i]] = p.descNext[e2[i]]
      OBVIOUS
    <3>1. e2[i] \in Elements(e2)
      BY DEF Elements
    <3>2. e2[i] \in Desc /\ home[e2[i]] = None /\ e2[i] # d
      BY <3>1, <1>2, <1>19
    <3>3. e2[i] # p.last[part]
      BY <3>2, <2>1, <1>4
    <3> QED BY <3>2, <3>3, <1>14
  <2> QED BY <2>2, <1>19, ListSame
<1>21. ASSUME NEW x \in Desc
       PROVE  /\ home2[x] = None <=> q.state[x] = "free"
              /\ home2[x] # None => q.key[x] \in Keys
  <2>1. CASE x = d
    BY <2>1, <1>3, <1>4, <1>6, <1>8, <1>12
  <2>2. CASE x # d
    BY <2>2, <1>2, <1>6, <1>8, <1>12
  <2> QED BY <2>1, <2>2
<1>22. Elements(e2) = {x \in Desc : home2[x] = None}
  BY <1>2, <1>4, <1>12, <1>19
<1>23. ASSUME NEW r \in Part
       PROVE  /\ c2[r] \in Seq(Desc) /\ ChainOK(q, c2[r], r)
              /\ Elements(c2[r]) = {x \in Desc : home2[x] = r}
  <2>1. CASE r = part
    <3>1. c2[r] = w
      BY <2>1
    <3>2. Elements(w) = {x \in Desc : home2[x] = part}
      BY <1>3, <1>9, <1>12, <1>15
    <3> QED BY <3>1, <3>2, <2>1, <1>15, <1>17
  <2>2. CASE r # part
    <3>1. c2[r] = c[r]
      BY <2>2
    <3>2. Elements(c[r]) = {x \in Desc : home2[x] = r}
      BY <2>2, <1>2, <1>3, <1>4, <1>12
    <3> QED BY <3>1, <3>2, <2>2, <1>2, <1>18
  <2> QED BY <2>1, <2>2
<1> HIDE DEF c2
<1>24. NotesOK(q, e2, c2, home2)
  BY <1>19, <1>20, <1>21, <1>22, <1>23 DEF NotesOK, nxt
<1>25. VoicesOK(q, Elements(f), home2, {d})
  <2>1. VoicesOK(p, Elements(f), home2, {d})
    <3> DEFINE I == Elements(f)
    <3>1. VoicesOK(p, I, home, {})
      BY <1>1
    <3>2. \A v \in Voice \ I : p.desc[v] # d
      BY <3>1, <1>3 DEF VoicesOK
    <3>3. \A x \in Desc : (home2[x] = None \/ x \in {d}) <=> home[x] = None
      BY <1>3, <1>12
    <3>4. \A x \in Desc : home[x] # None => home2[x] = home[x]
      BY <1>3, <1>12
    <3> HIDE DEF I
    <3>5. VoicesOK(p, I, home2, {d})
      BY <3>1, <3>2, <3>3, <3>4 DEF VoicesOK
    <3> QED BY <3>5 DEF I
  <2> QED BY <2>1, <1>7, VoicesSame
<1>26. CountOK(q, Elements(f)) /\ BitsOK(q, Elements(f)) /\ IdleOK(q, f)
  <2>1. CountOK(q, Elements(f))
    <3>1. q.part = p.part
      BY <1>7 DEF SameVoices
    <3> QED BY <3>1, <1>1, <1>7 DEF CountOK
  <2>2. BitsOK(q, Elements(f))
    BY <1>1, <1>7 DEF BitsOK
  <2>3. IdleOK(q, f)
    BY <1>1, <1>7, IdleSame
  <2> QED BY <2>1, <2>2, <2>3
<1>27. ASSUME TopKey \notin Keys PROVE LowestCurrent(q, home2)
  <2> SUFFICES ASSUME NEW r \in Part
               PROVE  LET cur == q.current[r] IN
                      IF \A x \in Desc : home2[x] # r THEN cur = None
                      ELSE /\ cur \in Desc /\ home2[cur] = r
                           /\ \A x \in Desc : home2[x] = r => q.key[cur] <= q.key[x]
    BY DEF LowestCurrent
  <2> DEFINE cur == p.current[r]
  <2>1. IF \A x \in Desc : home[x] # r THEN cur = None
        ELSE /\ cur \in Desc /\ home[cur] = r
             /\ \A x \in Desc : home[x] = r => p.key[cur] <= p.key[x]
    BY <1>1, <1>27 DEF CurrentOK, LowestCurrent
  <2>2. /\ q.key[d] = key /\ \A x \in Desc \ {d} : q.key[x] = p.key[x]
        /\ key \in Nat
        /\ \A x \in Desc : home[x] # None => p.key[x] \in Nat
    BY <1>2, <1>3, <1>6, <1>8, KeysAre
  <2> HIDE DEF cur
  <2>3. CASE r # part
    <3>1. q.current[r] = cur
      BY <2>3, <1>6, <1>8 DEF cur
    <3>2. \A x \in Desc : home2[x] = r <=> home[x] = r
      BY <2>3, <1>3, <1>4, <1>12
    <3>3. \A x \in Desc : home[x] = r => q.key[x] = p.key[x]
      BY <2>2, <1>3, <1>4
    <3> QED BY <3>1, <3>2, <3>3, <2>1
  <2>4. CASE r = part
    <3>1. q.current[r] = OpenCurrent(p, d, part, key)
      BY <2>4, <1>6, <1>8
    <3>2. \A x \in Desc : home2[x] = r <=> (x = d \/ home[x] = r)
      BY <2>4, <1>3, <1>4, <1>12
    <3>3. CASE \A x \in Desc : home[x] # r
      <4>1. q.current[r] = d
        BY <3>1, <3>3, <2>1, <2>4 DEF OpenCurrent, cur
      <4> QED BY <4>1, <3>2, <3>3, <2>2, <1>3
    <3>4. CASE ~ \A x \in Desc : home[x] # r
      <4>1. /\ cur \in Desc /\ home[cur] = r /\ cur # None /\ cur # d
            /\ \A x \in Desc : home[x] = r => p.key[cur] <= p.key[x]
        BY <3>4, <2>1, <1>3, <1>4
      <4>2. q.current[r] = IF key > p.key[cur] THEN cur ELSE d
        <5>1. [p.key EXCEPT ![d] = key][cur] = p.key[cur]
          BY <4>1, <1>8
        <5> QED BY <5>1, <4>1, <3>1, <2>4 DEF OpenCurrent, cur
      <4>3. \A x \in Desc : home[x] = r => x # d /\ p.key[x] \in Nat /\ q.key[x] = p.key[x]
        BY <2>2, <1>3, <1>4
      <4>4. CASE key > p.key[cur]
        BY <4>1, <4>2, <4>3, <4>4, <3>2, <2>2, <1>3
      <4>5. CASE ~(key > p.key[cur])
        <5>1. q.current[r] = d
          BY <4>2, <4>5
        <5>2. \A x \in Desc : home[x] = r => key <= p.key[x]
          BY <4>1, <4>3, <4>5, <2>2
        <5> QED BY <5>1, <5>2, <4>3, <3>2, <2>2, <1>3
      <4> QED BY <4>4, <4>5
    <3> QED BY <3>3, <3>4
  <2> QED BY <2>3, <2>4
<1>30. HasCurrent(q, home2)
  <2> SUFFICES ASSUME NEW x \in Desc, home2[x] # None PROVE q.current[home2[x]] # None
    BY DEF HasCurrent
  <2>1. CASE home2[x] = part
    <3>1. q.current[part] = OpenCurrent(p, d, part, key)
      BY <1>6, <1>8
    <3> QED BY <3>1, <2>1, <1>3, NoneIsNone DEF OpenCurrent
  <2>2. CASE home2[x] # part
    <3>1. x # d /\ home2[x] = home[x] /\ home[x] \in Part \ {part}
      BY <2>2, <1>1, <1>3, <1>12 DEF OrNone
    <3>2. q.current[home[x]] = p.current[home[x]]
      BY <3>1, <1>6, <1>8
    <3> QED BY <3>1, <3>2, <1>1 DEF CurrentOK, HasCurrent
  <2> QED BY <2>1, <2>2
<1>31. CurrentOK(q, home2)
  BY <1>27, <1>30 DEF CurrentOK
<1>28. Sound(q, f, e2, c2, home2, {d})
  BY <1>1, <1>6, <1>7, <1>13, <1>24, <1>25, <1>26, <1>31 DEF Sound
<1>29. q.desc = p.desc
  BY <1>7 DEF SameVoices
<1> QED BY <1>3, <1>5, <1>7, <1>28, <1>29 DEF Opened, home2

(* A voice for the note. *)
LinkHead(p, v, d) == [p.head EXCEPT ![d] = IF p.tail[d] = None THEN v ELSE p.tail[d]]
LinkToHead(p, v, d) ==
  IF p.tail[d] = None THEN [p.toHead EXCEPT ![v] = None]
  ELSE [p.toHead EXCEPT ![v] = p.tail[d], ![p.tail[d]] = None]
LinkToTail(p, v, d) ==
  IF p.tail[d] = None THEN [p.toTail EXCEPT ![v] = None]
  ELSE [p.toTail EXCEPT ![p.tail[d]] = v, ![v] = None]

\* The tables of a pool with a voice more in a note.
LinkDone(q, p, v, d, part) ==
  /\ q \in Pools
  /\ q.head = LinkHead(p, v, d) /\ q.tail = [p.tail EXCEPT ![d] = v]
  /\ q.toHead = LinkToHead(p, v, d) /\ q.toTail = LinkToTail(p, v, d)
  /\ q.part = [p.part EXCEPT ![v] = part] /\ q.desc = [p.desc EXCEPT ![v] = d]
  /\ SameIdle(q, p) /\ SameNotes(q, p) /\ SameMarks(q, p) /\ SameCount(q, p)
  /\ q.free = p.free

\* Writing the voices of a note stays within the ranges.
LEMMA LinkCells ==
  ASSUME NEW p \in Pools, NEW a \in DescTo(OrNone(Voice)),
         NEW b \in DescTo(OrNone(Voice)), NEW x \in VoiceTo(OrNone(Voice)),
         NEW y \in VoiceTo(OrNone(Voice)), NEW r \in VoiceTo(OrNone(Part)),
         NEW g \in VoiceTo(OrNone(Desc))
  PROVE  [p EXCEPT !.head = a, !.toHead = x, !.tail = b, !.toTail = y,
                   !.part = r, !.desc = g] \in Pools
  BY Zenon DEF Pools

\* Link writes these tables and nothing else.
LEMMA LinkShape ==
  ASSUME NEW p \in Pools, NEW v \in Voice, NEW d \in Desc, NEW part \in Part,
         NEW q, q = Link(p, v, d, part)
  PROVE  LinkDone(q, p, v, d, part)
<1> DEFINE a == LinkHead(p, v, d)
           b == [p.tail EXCEPT ![d] = v]
           x == LinkToHead(p, v, d)
           y == LinkToTail(p, v, d)
           r == [p.part EXCEPT ![v] = part]
           g == [p.desc EXCEPT ![v] = d]
<1>1. /\ p.head \in [Desc -> OrNone(Voice)] /\ p.tail \in [Desc -> OrNone(Voice)]
      /\ p.toHead \in [Voice -> OrNone(Voice)]
      /\ p.toTail \in [Voice -> OrNone(Voice)]
      /\ p.part \in [Voice -> OrNone(Part)] /\ p.desc \in [Voice -> OrNone(Desc)]
  BY DEF Pools, DescTo, VoiceTo
<1>2. /\ v \in OrNone(Voice) /\ None \in OrNone(Voice) /\ p.tail[d] \in OrNone(Voice)
      /\ part \in OrNone(Part) /\ d \in OrNone(Desc)
  BY <1>1 DEF OrNone
<1>3. a \in DescTo(OrNone(Voice)) /\ b \in DescTo(OrNone(Voice))
  BY <1>1, <1>2 DEF LinkHead, DescTo
<1>4. x \in VoiceTo(OrNone(Voice)) /\ y \in VoiceTo(OrNone(Voice))
  BY <1>1, <1>2 DEF LinkToHead, LinkToTail, VoiceTo
<1>5. r \in VoiceTo(OrNone(Part)) /\ g \in VoiceTo(OrNone(Desc))
  BY <1>1, <1>2 DEF VoiceTo
<1>6. q = [p EXCEPT !.head = a, !.toHead = x, !.tail = b, !.toTail = y,
                    !.part = r, !.desc = g]
  <2>1. CASE p.tail[d] = None
    BY <2>1 DEF Link, LinkHead, LinkToHead, LinkToTail, Pools
  <2>2. CASE p.tail[d] # None
    <3> DEFINE old == p.tail[d]
               z == [p EXCEPT !.head[d] = old, !.toTail[old] = v,
                              !.toHead[v] = old, !.toHead[old] = None]
               y0 == [p.toTail EXCEPT ![old] = v]
    <3>1. z = [p EXCEPT !.head = a, !.toTail = y0, !.toHead = x]
      BY <2>2 DEF LinkHead, LinkToHead, Pools
    <3>2. q = [z EXCEPT !.tail[d] = v, !.toTail[v] = None, !.part[v] = part, !.desc[v] = d]
      BY <2>2 DEF Link
    <3>3. [y0 EXCEPT ![v] = None] = y
      BY <2>2 DEF LinkToTail
    <3> HIDE DEF z, a, x, y, y0
    <3>4. /\ z.tail = p.tail /\ z.part = p.part /\ z.desc = p.desc /\ z.toTail = y0
      BY <3>1 DEF Pools
    <3>5. q = [z EXCEPT !.tail = b, !.toTail = y, !.part = r, !.desc = g]
      BY <3>1, <3>2, <3>3, <3>4 DEF Pools
    <3> HIDE DEF b, r, g
    <3> QED BY <3>1, <3>5 DEF Pools
  <2> QED BY <2>1, <2>2
<1> HIDE DEF a, b, x, y, r, g
<1>7. q \in Pools
  <2>1. [p EXCEPT !.head = a, !.toHead = x, !.tail = b, !.toTail = y,
                  !.part = r, !.desc = g] \in Pools
    BY <1>3, <1>4, <1>5, LinkCells, Zenon
  <2> QED BY <2>1, <1>6, Zenon
<1>8. /\ q.head = a /\ q.tail = b /\ q.toHead = x /\ q.toTail = y
      /\ q.part = r /\ q.desc = g
  BY <1>6 DEF Pools
<1>9. /\ SameIdle(q, p) /\ SameNotes(q, p) /\ SameMarks(q, p) /\ SameCount(q, p)
      /\ q.free = p.free
  BY <1>6 DEF Pools, SameIdle, SameNotes, SameMarks, SameCount
<1> QED BY <1>7, <1>8, <1>9 DEF LinkDone, a, b, x, y, r, g

(* A note without a voice, or with one. *)
Room(p, d, X) == X = {d} \/ (X = {} /\ p.head[d] = p.tail[d])

LinkKept(q, I, v, d, home, X) ==
  /\ VoicesOK(q, I \ {v}, home, {})
  /\ X = {d} => q.head[d] = q.tail[d]

\* The voice becomes the tail of the note.
LEMMA LinkKeeps ==
  ASSUME NEW p \in Pools, NEW I \in SUBSET Voice, NEW home \in [Desc -> OrNone(Part)],
         NEW X, VoicesOK(p, I, home, X), NEW v \in I, NEW d \in Desc,
         NEW part \in Part, home[d] = part,
         Room(p, d, X), NEW q, q = Link(p, v, d, part)
  PROVE  LinkKept(q, I, v, d, home, X)
<1> DEFINE old == p.tail[d]
<1>0. X = {d} \/ (X = {} /\ p.head[d] = p.tail[d])
  BY DEF Room
<1>1. LinkDone(q, p, v, d, part)
  BY LinkShape
<1>2. /\ p.head \in [Desc -> OrNone(Voice)] /\ p.tail \in [Desc -> OrNone(Voice)]
      /\ p.toHead \in [Voice -> OrNone(Voice)]
      /\ p.toTail \in [Voice -> OrNone(Voice)]
      /\ p.part \in [Voice -> OrNone(Part)] /\ p.desc \in [Voice -> OrNone(Desc)]
  BY DEF Pools, DescTo, VoiceTo
<1>3. None \notin Voice /\ None \notin Part /\ v \in Voice
  BY NoneIsNone
<1>4. /\ old = None <=> X = {d}
      /\ X = {} => /\ old \in Voice \ I /\ p.desc[old] = d /\ p.part[old] = part
                   /\ p.head[d] = old
  BY <1>0, <1>3 DEF VoicesOK
<1>5. /\ q.tail[d] = v /\ q.head[d] = IF old = None THEN v ELSE old
      /\ \A x \in Desc \ {d} : q.tail[x] = p.tail[x] /\ q.head[x] = p.head[x]
  BY <1>1, <1>2 DEF LinkDone, LinkHead
<1>6. /\ q.desc[v] = d /\ q.part[v] = part
      /\ \A u \in Voice \ {v} : q.desc[u] = p.desc[u] /\ q.part[u] = p.part[u]
  BY <1>1, <1>2, <1>3 DEF LinkDone
<1>7. \A u \in Voice \ {v, old} : q.toHead[u] = p.toHead[u] /\ q.toTail[u] = p.toTail[u]
  BY <1>1, <1>2, <1>3 DEF LinkDone, LinkToHead, LinkToTail
<1>8. /\ q.toTail[v] = None
      /\ old = None => q.toHead[v] = None
      /\ X = {} => q.toHead[v] = old /\ q.toHead[old] = None /\ q.toTail[old] = v
  BY <1>1, <1>2, <1>3, <1>4 DEF LinkDone, LinkToHead, LinkToTail
<1> HIDE DEF old
<1>9. ASSUME NEW x \in Desc, home[x] = None PROVE q.tail[x] = None /\ q.head[x] = None
  BY <1>3, <1>5, <1>9 DEF VoicesOK
<1>10. ASSUME NEW x \in Desc, home[x] # None
       PROVE  LET t == q.tail[x]  h == q.head[x] IN
              /\ t \in Voice \ (I \ {v}) /\ h \in Voice \ (I \ {v})
              /\ q.toTail[t] = None /\ q.toHead[h] = None
              /\ h # t => q.toHead[t] = h /\ q.toTail[h] = t
              /\ q.desc[t] = x /\ q.desc[h] = x
              /\ q.part[t] = home[x] /\ q.part[h] = home[x]
  <2>1. CASE x = d
    <3>1. CASE X = {d}
      BY <2>1, <3>1, <1>3, <1>4, <1>5, <1>6, <1>8
    <3>2. CASE X = {}
      <4>1. old \in Voice /\ old # v /\ old # None /\ old \notin I
        BY <3>2, <1>3, <1>4
      <4>2. q.head[d] = old /\ q.desc[old] = d /\ q.part[old] = part
        BY <4>1, <3>2, <1>4, <1>5, <1>6
      <4> QED BY <2>1, <3>2, <4>1, <4>2, <1>3, <1>5, <1>6, <1>8
    <3> QED BY <3>1, <3>2, <1>0
  <2>2. CASE x # d
    <3> DEFINE t == p.tail[x]
               h == p.head[x]
    <3>1. x \notin X
      BY <2>2, <1>0
    <3>2. /\ t \in Voice \ I /\ h \in Voice \ I
          /\ p.toTail[t] = None /\ p.toHead[h] = None
          /\ h # t => p.toHead[t] = h /\ p.toTail[h] = t
          /\ p.desc[t] = x /\ p.desc[h] = x
          /\ p.part[t] = home[x] /\ p.part[h] = home[x]
      BY <3>1, <1>10 DEF VoicesOK
    <3>3. q.tail[x] = t /\ q.head[x] = h
      BY <2>2, <1>5
    <3> HIDE DEF t, h
    <3>4. t # v /\ h # v /\ t # old /\ h # old
      <4>1. old = None \/ p.desc[old] = d
        BY <1>0, <1>4
      <4> QED BY <4>1, <3>2, <2>2, <1>3
    <3>5. /\ q.toTail[t] = None /\ q.toHead[h] = None
          /\ h # t => q.toHead[t] = h /\ q.toTail[h] = t
      BY <3>2, <3>4, <1>7
    <3>6. /\ q.desc[t] = x /\ q.desc[h] = x
          /\ q.part[t] = home[x] /\ q.part[h] = home[x]
      BY <3>2, <3>4, <1>6
    <3> QED BY <3>2, <3>3, <3>5, <3>6
  <2> QED BY <2>1, <2>2
<1>11. ASSUME NEW u \in Voice \ (I \ {v})
       PROVE  /\ q.desc[u] \in Desc /\ home[q.desc[u]] # None
              /\ u \in {q.tail[q.desc[u]], q.head[q.desc[u]]}
  <2>1. CASE u = v
    BY <2>1, <1>3, <1>5, <1>6
  <2>2. CASE u # v
    <3>1. /\ u \in Voice \ I
          /\ p.desc[u] \in Desc \ X /\ home[p.desc[u]] # None
          /\ u \in {p.tail[p.desc[u]], p.head[p.desc[u]]}
      BY <2>2 DEF VoicesOK
    <3>2. q.desc[u] = p.desc[u]
      BY <2>2, <1>6
    <3>3. CASE p.desc[u] = d
      <4>1. X = {}
        BY <3>1, <3>3, <1>0
      <4>2. u = old /\ q.head[d] = old
        BY <4>1, <3>1, <3>3, <1>4, <1>5 DEF old
      <4> QED BY <4>2, <3>1, <3>2, <3>3
    <3>4. CASE p.desc[u] # d
      BY <3>1, <3>2, <3>4, <1>5
    <3> QED BY <3>3, <3>4
  <2> QED BY <2>1, <2>2
<1>12. VoicesOK(q, I \ {v}, home, {})
  BY <1>9, <1>10, <1>11 DEF VoicesOK
<1>13. X = {d} => q.head[d] = q.tail[d]
  BY <1>4, <1>5
<1> QED BY <1>12, <1>13 DEF LinkKept

(* A voice taken is counted in. *)
LEMMA CountUp ==
  ASSUME NEW p, NEW q, NEW I \in SUBSET Voice, CountOK(p, I), NEW v \in I,
         NEW part \in Part, p.count \in [Part -> Int],
         p.part \in [Voice -> OrNone(Part)], q.part = [p.part EXCEPT ![v] = part],
         q.count = [p.count EXCEPT ![part] = @ + 1]
  PROVE  CountOK(q, I \ {v})
<1> SUFFICES ASSUME NEW r \in Part
             PROVE  q.count[r] = Cardinality({u \in Voice \ (I \ {v}) : q.part[u] = r})
  BY DEF CountOK
<1> DEFINE S == {u \in Voice \ I : p.part[u] = r}
           T == {u \in Voice \ (I \ {v}) : q.part[u] = r}
<1>1. p.count[r] = Cardinality(S)
  BY DEF CountOK
<1>0. v \in Voice /\ q.part[v] = part /\ \A u \in Voice \ {v} : q.part[u] = p.part[u]
  OBVIOUS
<1>2. CASE r # part
  <2>1. T = S
    BY <1>0, <1>2
  <2> QED BY <2>1, <1>1, <1>2
<1>3. CASE r = part
  <2>1. T = S \cup {v} /\ v \notin S
    BY <1>0, <1>3
  <2>2. IsFiniteSet(S)
    BY VoiceSets, FS_Subset
  <2>3. Cardinality(T) = Cardinality(S) + 1
    <3> HIDE DEF S, T
    <3> QED BY <2>1, <2>2, FS_AddElement
  <2> QED BY <2>3, <1>1, <1>3
<1> QED BY <1>2, <1>3

\* What giving a note its next voice leaves.
GiveDone(q, p, f, e, c, d, home, X) ==
  /\ Sound(q, Tail(f), e, c, home, {})
  /\ q.freeCount = p.freeCount - 1 /\ q.short = p.short
  /\ Len(q.fresh) = Len(p.fresh) + 1
  /\ X = {d} => q.head[d] = q.tail[d]
  /\ f # <<>> /\ q.desc = [p.desc EXCEPT ![f[1]] = d]
  /\ \A v \in Voice \ {f[1]} : q.part[v] = p.part[v]
  /\ SameGates(q, p) /\ q.gateOff = p.gateOff /\ q.state = p.state /\ q.key = p.key

\* Writing counts and the voices to fill stays within the ranges.
LEMMA GiveCells ==
  ASSUME NEW p \in Pools, NEW x \in PartTo(Int), NEW y \in Seq(Voice)
  PROVE  [p EXCEPT !.count = x, !.fresh = y] \in Pools
  BY Zenon DEF Pools

\* A note that is given the first idle voice.
LEMMA GiveKeeps ==
  ASSUME NEW p, NEW f, NEW e, NEW c, NEW home, NEW X, Sound(p, f, e, c, home, X),
         NEW d \in Desc, NEW part \in Part, home[d] = part, p.freeCount > 0,
         Room(p, d, X), NEW q, q = GiveVoice(p, d, part)
  PROVE  GiveDone(q, p, f, e, c, d, home, X)
<1> DEFINE v == p.freeHead
           p1 == PoolPop(p)
           p2 == Link(p1, v, d, part)
           x == [p2.count EXCEPT ![part] = @ + 1]
           y == <<v>> \o p2.fresh
           I == Elements(f)
<1>1. /\ p \in Pools /\ home \in [Desc -> OrNone(Part)]
      /\ IdleOK(p, f) /\ VoicesOK(p, I, home, X) /\ NotesOK(p, e, c, home)
      /\ CountOK(p, I) /\ BitsOK(p, I)
      /\ CurrentOK(p, home)
      /\ p.short \in 0 .. 2
  BY DEF Sound
<1>2. I \in SUBSET Voice
  BY <1>1 DEF IdleOK, Elements
<1>3. /\ v \in I /\ v \in Voice /\ p1 \in Pools /\ IdleOK(p1, Tail(f))
      /\ Elements(Tail(f)) = I \ {v}
  BY <1>1, PoolPopKeeps
<1>4. SameVoices(p1, p) /\ SameNotes(p1, p) /\ SameMarks(p1, p)
  BY <1>1, PoolPopKeeps
<1>5. SameCount(p1, p) /\ p1.free = p.free /\ p1.freeCount = p.freeCount - 1
  BY <1>1, PoolPopKeeps
<1>6. q = [p2 EXCEPT !.count[part] = @ + 1, !.fresh = <<v>> \o @]
  BY DEF GiveVoice
<1> HIDE DEF p1
<1>7. VoicesOK(p1, I, home, X)
  BY <1>1, <1>4, VoicesSame
<1>8. p1.head[d] = p.head[d] /\ p1.tail[d] = p.tail[d] /\ p1.part = p.part
  BY <1>4 DEF SameVoices
<1>9. LinkDone(p2, p1, v, d, part)
  BY <1>3, LinkShape
<1>10. VoicesOK(p2, I \ {v}, home, {}) /\ (X = {d} => p2.head[d] = p2.tail[d])
  <2> HIDE DEF v, I, p2
  <2>1. p2 = Link(p1, v, d, part)
    BY DEF p2
  <2>2. Room(p1, d, X)
    BY <1>8 DEF Room
  <2>3. LinkKept(p2, I, v, d, home, X)
    BY <2>1, <2>2, <1>1, <1>2, <1>3, <1>7, LinkKeeps
  <2> QED BY <2>3 DEF LinkKept
<1> HIDE DEF p2
<1>11. /\ p2 \in Pools /\ p2.part = [p1.part EXCEPT ![v] = part]
       /\ SameIdle(p2, p1) /\ SameNotes(p2, p1) /\ SameMarks(p2, p1)
       /\ SameCount(p2, p1) /\ p2.free = p1.free
  BY <1>9 DEF LinkDone
<1>12. p2.fresh = p.fresh /\ p2.short = p.short /\ p2.count = p.count
       /\ p2.current = p.current /\ p2.free = p.free /\ p2.key = p.key
       /\ p2.part = [p.part EXCEPT ![v] = part] /\ p2.freeCount = p.freeCount - 1
  BY <1>4, <1>5, <1>8, <1>11 DEF SameMarks, SameCount, SameNotes, SameIdle
<1>13. p.count \in [Part -> Int] /\ p.part \in [Voice -> OrNone(Part)]
       /\ p.fresh \in Seq(Voice)
  BY <1>1 DEF Pools, PartTo, VoiceTo
<1>14. Distinct(p.fresh) /\ v \notin Elements(p.fresh)
       /\ {u \in Voice : p.free[u]} = I \cup Elements(p.fresh)
       /\ \A u \in Elements(p.fresh) : u \notin I
  BY <1>1, <1>3 DEF BitsOK
<1> HIDE DEF I, v
<1>15. /\ y \in Seq(Voice) /\ Distinct(y)
       /\ Elements(y) = Elements(p.fresh) \cup {v}
       /\ Len(y) = Len(p.fresh) + 1
  BY <1>3, <1>12, <1>13, <1>14, PushedOn
<1>16. x \in PartTo(Int) /\ x = [p.count EXCEPT ![part] = @ + 1]
  BY <1>12, <1>13 DEF PartTo
<1>17. q = [p2 EXCEPT !.count = x, !.fresh = y]
  BY <1>6, <1>11 DEF Pools
<1> HIDE DEF x, y
<1>18. q \in Pools
  <2>1. [p2 EXCEPT !.count = x, !.fresh = y] \in Pools
    BY <1>11, <1>15, <1>16, GiveCells, Zenon
  <2> QED BY <2>1, <1>17, Zenon
<1>19. /\ q.count = x /\ q.fresh = y /\ q.free = p2.free /\ q.short = p2.short
       /\ q.current = p2.current
       /\ SameIdle(q, p2) /\ SameVoices(q, p2) /\ SameNotes(q, p2)
  BY <1>11, <1>17 DEF Pools, SameIdle, SameVoices, SameNotes
<1>20. IdleOK(q, Tail(f))
  <2>1. SameIdle(q, p1)
    BY <1>11, <1>19, SameTwice
  <2> QED BY <2>1, <1>3, IdleSame
<1>21. VoicesOK(q, I \ {v}, home, {})
  BY <1>10, <1>19, VoicesSame
<1>22. NotesOK(q, e, c, home)
  <2>1. SameNotes(q, p)
    BY <1>4, <1>11, <1>19, SameTwice
  <2> QED BY <2>1, <1>1, NotesSame
<1>23. CountOK(q, I \ {v})
  <2>1. q.part = [p.part EXCEPT ![v] = part]
    BY <1>12, <1>19 DEF SameVoices
  <2>2. q.count = [p.count EXCEPT ![part] = @ + 1]
    BY <1>16, <1>19
  <2> QED BY <2>1, <2>2, <1>1, <1>2, <1>3, <1>13, CountUp
<1>24. BitsOK(q, I \ {v})
  <2>1. q.free = p.free
    BY <1>12, <1>19
  <2>2. {u \in Voice : q.free[u]} = (I \ {v}) \cup Elements(q.fresh)
    BY <2>1, <1>3, <1>14, <1>15, <1>19
  <2>3. \A u \in Elements(q.fresh) : u \notin I \ {v}
    BY <1>14, <1>15, <1>19
  <2> QED BY <2>2, <2>3, <1>15, <1>19 DEF BitsOK
<1>25. CurrentOK(q, home)
  <2>1. q.current = p.current /\ q.key = p.key
    BY <1>12, <1>19 DEF SameNotes
  <2> QED BY <2>1, <1>1 DEF CurrentOK, HasCurrent, LowestCurrent
<1>26. Sound(q, Tail(f), e, c, home, {})
  BY <1>1, <1>3, <1>12, <1>18, <1>19, <1>20, <1>21, <1>22, <1>23, <1>24, <1>25
     DEF Sound, I, v
<1>27. q.freeCount = p.freeCount - 1 /\ q.short = p.short
       /\ Len(q.fresh) = Len(p.fresh) + 1
  BY <1>12, <1>15, <1>19 DEF SameIdle
<1>28. X = {d} => q.head[d] = q.tail[d]
  BY <1>10, <1>19 DEF SameVoices
<1>29. f # <<>> /\ q.desc = [p.desc EXCEPT ![f[1]] = d]
  <2>1. p.freeHead = IF f = <<>> THEN None ELSE f[1]
    BY <1>1 DEF IdleOK, ListOf
  <2>2. f # <<>>
    BY <2>1, <1>3, NoneIsNone DEF v
  <2>3. q.desc = [p1.desc EXCEPT ![v] = d] /\ p1.desc = p.desc
    BY <1>4, <1>9, <1>19 DEF LinkDone, SameVoices
  <2> QED BY <2>1, <2>2, <2>3 DEF v
<1>30. v = f[1]
  <2>1. v = IF f = <<>> THEN None ELSE f[1]
    BY <1>1 DEF IdleOK, ListOf, v
  <2> QED BY <2>1, <1>29
<1>31. \A u \in Voice \ {f[1]} : q.part[u] = p.part[u]
  <2> DEFINE z == p.part
  <2>1. z \in [Voice -> OrNone(Part)] /\ q.part = [z EXCEPT ![v] = part]
    BY <1>12, <1>13, <1>19 DEF SameVoices
  <2> HIDE DEF z
  <2>2. \A u \in Voice \ {v} : q.part[u] = z[u]
    BY <2>1
  <2> QED BY <2>2, <1>30 DEF z
<1>32. SameGates(p2, p) /\ p2.gateOff = p.gateOff /\ p2.state = p.state /\ p2.key = p.key
  BY <1>4, <1>11 DEF SameMarks, SameNotes, SameGates
<1>33. SameGates(q, p) /\ q.gateOff = p.gateOff /\ q.state = p.state /\ q.key = p.key
  BY <1>32, <1>17, <1>11 DEF SameGates, Pools
<1> QED BY <1>26, <1>27, <1>28, <1>29, <1>31, <1>33 DEF GiveDone
(* While a voice is idle there is a descriptor that is free. *)
LEMMA SpareDesc ==
  ASSUME NEW p, NEW f, NEW e, NEW c, NEW home, Sound(p, f, e, c, home, {}),
         p.freeCount > 0
  PROVE  e # <<>>
<1> SUFFICES ASSUME e = <<>> PROVE FALSE
  OBVIOUS
<1> DEFINE I == Elements(f)
           T == Voice \ I
           t == [d \in Desc |-> p.tail[d]]
<1>1. \A d \in Desc : home[d] # None
  <2>1. Elements(e) = {}
    BY DEF Elements
  <2> QED BY <2>1 DEF Sound, NotesOK
<1>2. \A d \in Desc : p.tail[d] \in T /\ p.desc[p.tail[d]] = d
  BY <1>1 DEF Sound, VoicesOK
<1>3. PICK v \in Voice : v \in I
  <2>1. f \in Seq(Voice) /\ Len(f) > 0
    BY DEF Sound, IdleOK
  <2>2. 1 \in 1 .. Len(f) /\ f[1] \in Voice
    BY <2>1
  <2> QED BY <2>2 DEF Elements
<1> HIDE DEF I
<1>4. IsFiniteSet(T) /\ Cardinality(T) < Voices
  <2>1. /\ IsFiniteSet(Voice \ {v}) /\ Cardinality(Voice \ {v}) = Voices - 1
    BY <1>3, VoiceSets, FS_RemoveElement
  <2>2. T \subseteq Voice \ {v}
    BY <1>3
  <2>3. IsFiniteSet(T) /\ Cardinality(T) <= Cardinality(Voice \ {v})
    BY <2>1, <2>2, FS_Subset
  <2>4. Cardinality(T) \in Nat /\ Voices \in Nat
    BY <2>3, Sizes, FS_CardinalityType
  <2> QED BY <2>1, <2>3, <2>4
<1>5. IsFiniteSet(Desc) /\ Cardinality(Desc) = Voices
  BY VoiceSets DEF Voice, Desc
<1>6. t \in [Desc -> T]
  BY <1>2
<1>7. PICK x, y \in Desc : x # y /\ t[x] = t[y]
  <2> HIDE DEF t, T
  <2> QED BY <1>4, <1>5, <1>6, FS_PigeonHole
<1> QED BY <1>2, <1>7

\* A note takes one voice, or two.
LEMMA TwoVoices ==
  ASSUME NEW x, NEW d, NEW part
  PROVE  /\ GiveVoices(x, d, part, 1) = GiveVoice(x, d, part)
         /\ GiveVoices(x, d, part, 2) = GiveVoice(GiveVoice(x, d, part), d, part)
<1> DEFINE turn(q) == GiveVoice(q, d, part)
<1>1. GiveVoices(x, d, part, 1) = turn(x)
  <2> DEFINE Laps(f) == [k \in 0 .. 1 |-> IF k = 0 THEN x ELSE turn(f[k - 1])]
             after == CHOOSE f : f = Laps(f)
             g == [k \in 0 .. 1 |-> IF k = 0 THEN x ELSE turn(x)]
  <2>1. g = Laps(g)
    <3> SUFFICES ASSUME NEW k \in 0 .. 1 PROVE g[k] = Laps(g)[k]
      OBVIOUS
    <3>1. k = 0 \/ k = 1
      OBVIOUS
    <3> QED BY <3>1
  <2>2. after = Laps(after)
    BY <2>1
  <2>3. GiveVoices(x, d, part, 1) = after[1]
    BY DEF GiveVoices, Loop
  <2> HIDE DEF after
  <2>4. after[0] = x
    BY <2>2
  <2>5. after[1] = turn(after[0])
    BY <2>2
  <2> QED BY <2>3, <2>4, <2>5
<1>2. GiveVoices(x, d, part, 2) = turn(turn(x))
  <2> DEFINE Laps(f) == [k \in 0 .. 2 |-> IF k = 0 THEN x ELSE turn(f[k - 1])]
             after == CHOOSE f : f = Laps(f)
             g == [k \in 0 .. 2 |-> IF k = 0 THEN x
                                    ELSE IF k = 1 THEN turn(x) ELSE turn(turn(x))]
  <2>1. g = Laps(g)
    <3> SUFFICES ASSUME NEW k \in 0 .. 2 PROVE g[k] = Laps(g)[k]
      OBVIOUS
    <3>1. k = 0 \/ k = 1 \/ k = 2
      OBVIOUS
    <3> QED BY <3>1
  <2>2. after = Laps(after)
    BY <2>1
  <2>3. GiveVoices(x, d, part, 2) = after[2]
    BY DEF GiveVoices, Loop
  <2> HIDE DEF after
  <2>4. after[0] = x
    BY <2>2
  <2>5. after[1] = turn(after[0]) /\ after[2] = turn(after[1])
    BY <2>2
  <2> QED BY <2>3, <2>4, <2>5
<1> QED BY <1>1, <1>2

\* What note on leaves.
NoteDone(q) == Good(q) /\ Len(q.fresh) <= 2

(* The first n idle voices of p are given to d, which had none. *)
Given(q, p, d, n) ==
  /\ d \in Desc /\ n <= Len(FreeList(p))
  /\ FreeList(q) = SubSeq(FreeList(p), n + 1, Len(FreeList(p)))
  /\ q.desc = [v \in Voice |-> IF v \in {FreeList(p)[i] : i \in 1 .. n} THEN d
                               ELSE p.desc[v]]
  /\ \A v \in Voice : p.desc[v] = d => v \in Elements(FreeList(p))

\* Taking the first voice, as a part of a list and of a table.
LEMMA GivenOne ==
  ASSUME NEW f \in Seq(Voice), f # <<>>, NEW x \in [Voice -> OrNone(Desc)],
         NEW d
  PROVE  /\ Tail(f) = SubSeq(f, 2, Len(f)) /\ 1 <= Len(f)
         /\ [x EXCEPT ![f[1]] = d] =
              [v \in Voice |-> IF v \in {f[i] : i \in 1 .. 1} THEN d ELSE x[v]]
<1>1. Len(f) \in Nat /\ Len(f) # 0
  BY NoCells
<1>2. {f[i] : i \in 1 .. 1} = {f[1]}
  OBVIOUS
<1>3. [x EXCEPT ![f[1]] = d] = [v \in Voice |-> IF v \in {f[1]} THEN d ELSE x[v]]
  OBVIOUS
<1>4. Tail(f) = SubSeq(f, 2, Len(f))
  BY TailIsSubSeq
<1> QED BY <1>1, <1>2, <1>3, <1>4

\* Taking the first two.
LEMMA GivenTwo ==
  ASSUME NEW f \in Seq(Voice), f # <<>>, Tail(f) # <<>>,
         NEW x \in [Voice -> OrNone(Desc)], NEW d \in Desc
  PROVE  /\ Tail(Tail(f)) = SubSeq(f, 3, Len(f)) /\ 2 <= Len(f)
         /\ [[x EXCEPT ![f[1]] = d] EXCEPT ![Tail(f)[1]] = d] =
              [v \in Voice |-> IF v \in {f[i] : i \in 1 .. 2} THEN d ELSE x[v]]
<1> DEFINE g == Tail(f)
<1>1. /\ g \in Seq(Voice) /\ Len(g) = Len(f) - 1 /\ Len(f) \in Nat
      /\ \A i \in 1 .. Len(g) : g[i] = f[i + 1]
  BY HeadTailProperties
<1> HIDE DEF g
<1>2. Len(g) # 0
  BY <1>1, NoCells DEF g
<1>3. 2 \in 1 .. Len(f) /\ Len(f) \in 2 .. Len(f) /\ 1 \in 1 .. Len(g) /\ 1 + 1 = 2
  BY <1>1, <1>2
<1>4. g[1] = f[2]
  BY <1>1, <1>3
<1>5. Tail(g) = SubSeq(f, 3, Len(f))
  <2>1. g = SubSeq(f, 2, Len(f))
    BY TailIsSubSeq DEF g
  <2>2. Tail(SubSeq(f, 2, Len(f))) = SubSeq(f, 2 + 1, Len(f))
    BY <1>3, HeadTailOfSubSeq
  <2> QED BY <2>1, <2>2
<1>6. {f[i] : i \in 1 .. 2} = {f[1], f[2]}
  OBVIOUS
<1>7. [[x EXCEPT ![f[1]] = d] EXCEPT ![f[2]] = d] =
        [v \in Voice |-> IF v \in {f[1], f[2]} THEN d ELSE x[v]]
  OBVIOUS
<1> QED BY <1>3, <1>4, <1>5, <1>6, <1>7 DEF g

(* Which voices are let go. *)
Sounding(p) == Voice \ IdleSet(p)
MarkOK(p, v) ==
  LET d == p.desc[v]  part == p.part[v] IN
  \/ p.state[d] = "down" /\ ~p.gateOff[v] /\ ~p.held[d]
  \/ /\ p.state[d] = "up" /\ (p.held[d] => p.hold[part])
     /\ p.gateOff[v] \/ p.held[d] \/ InTable(p, part, p.key[d])
Marked(p) == /\ \A v \in IdleSet(p) : ~p.gateOff[v]
             /\ \A v \in Sounding(p) : MarkOK(p, v)

(* A note that is new is down, and nothing holds it. *)
NewNote(p, d) == d \in Desc /\ p.state[d] = "down" /\ ~p.held[d]

\* The marks are right when a note is opened, as none of its own is there yet,
LEMMA OpenedMarked ==
  ASSUME NEW p, NEW f, NEW e, NEW c, NEW home, Sound(p, f, e, c, home, {}), Marked(p),
         NEW d \in Desc, NEW part \in Part, NEW q, Opened(q, p, f, d, part, home)
  PROVE  Marked(q) /\ NewNote(q, d)
<1>1. PICK key : OpenDone(q, p, d, part, key)
  BY DEF Opened
<1>2. p \in Pools /\ home[d] = None /\ VoicesOK(p, Elements(f), home, {})
      /\ IdleSet(p) = Elements(f)
  BY ListsAre DEF Sound, Opened, IdleSet
<1>3. /\ q.desc = p.desc /\ q.part = p.part /\ SameIdle(q, p)
      /\ q.gateOff = p.gateOff /\ q.hold = p.hold /\ q.table = p.table
  BY <1>1 DEF OpenDone, SameVoices
<1>4. IdleSet(q) = IdleSet(p) /\ Sounding(q) = Sounding(p)
  BY <1>3 DEF SameIdle, IdleSet, FreeList, Sounding
<1>5. q.state[d] = "down" /\ \A x \in Desc \ {d} : q.state[x] = p.state[x]
  <2> DEFINE z == p.state
  <2>1. z \in [Desc -> {"free", "down", "up"}] /\ q.state = [z EXCEPT ![d] = "down"]
    BY <1>1, <1>2 DEF Pools, DescTo, OpenDone
  <2> HIDE DEF z
  <2>2. q.state[d] = "down" /\ \A x \in Desc \ {d} : q.state[x] = z[x]
    BY <2>1
  <2> QED BY <2>2 DEF z
<1>6. ~q.held[d] /\ \A x \in Desc \ {d} : q.held[x] = p.held[x]
  <2> DEFINE z == p.held
  <2>1. z \in [Desc -> BOOLEAN] /\ q.held = [z EXCEPT ![d] = FALSE]
    BY <1>1, <1>2 DEF Pools, DescTo, OpenDone
  <2> HIDE DEF z
  <2>2. q.held[d] = FALSE /\ \A x \in Desc \ {d} : q.held[x] = z[x]
    BY <2>1
  <2> QED BY <2>2 DEF z
<1>7. \A x \in Desc \ {d} : q.key[x] = p.key[x]
  <2> DEFINE z == p.key
  <2>1. z \in [Desc -> OrNone(Keys)] /\ q.key = [z EXCEPT ![d] = key]
    BY <1>1, <1>2 DEF Pools, DescTo, OpenDone
  <2> HIDE DEF z
  <2>2. \A x \in Desc \ {d} : q.key[x] = z[x]
    BY <2>1
  <2> QED BY <2>2 DEF z
<1>8. ASSUME NEW v \in Sounding(p) PROVE MarkOK(q, v)
  <2> DEFINE x == p.desc[v]
             y == p.part[v]
  <2>1. MarkOK(p, v) /\ v \in Voice \ Elements(f)
    BY <1>2 DEF Marked, Sounding
  <2>2. x \in Desc /\ home[x] # None
    BY <2>1, <1>2 DEF VoicesOK
  <2>3. x \in Desc \ {d}
    BY <2>2, <1>2
  <2>4. /\ q.desc[v] = x /\ q.part[v] = y /\ q.state[x] = p.state[x]
        /\ q.held[x] = p.held[x] /\ q.key[x] = p.key[x]
    BY <2>3, <1>3, <1>5, <1>6, <1>7
  <2>5. InTable(q, y, q.key[x]) <=> InTable(p, y, p.key[x])
    BY <2>4, <1>3 DEF InTable
  <2> HIDE DEF x, y
  <2> QED BY <2>1, <2>4, <2>5, <1>3, Zenon DEF MarkOK, x, y
<1>9. \A v \in IdleSet(q) : ~q.gateOff[v]
  BY <1>3, <1>4 DEF Marked
<1> QED BY <1>4, <1>5, <1>6, <1>8, <1>9 DEF Marked, NewNote

\* when it is given a voice, as no idle voice is marked,
LEMMA GivenMarked ==
  ASSUME NEW p, NEW f, NEW e, NEW c, NEW home, NEW X, Sound(p, f, e, c, home, X), Marked(p),
         NEW d, NewNote(p, d), NEW q, GiveDone(q, p, f, e, c, d, home, X)
  PROVE  Marked(q) /\ NewNote(q, d)
<1> DEFINE v == f[1]
<1>1. f \in Seq(Voice) /\ ListOf(f, p.freeNext, p.freeHead) /\ f # <<>> /\ p \in Pools
  BY DEF Sound, IdleOK, GiveDone
<1>2. FreeList(p) = f /\ Distinct(f)
  BY <1>1, WalkIs DEF FreeList, ListOf
<1>3. FreeList(q) = Tail(f)
  BY ListsAre DEF GiveDone
<1>4. IdleSet(p) = Elements(f) /\ IdleSet(q) = Elements(f) \ {v} /\ v \in Elements(f)
      /\ v \in Voice
  <2>1. Elements(Tail(f)) = Elements(f) \ {v}
    BY <1>1, <1>2, TailOf
  <2>2. 1 \in 1 .. Len(f)
    BY <1>1, NoCells
  <2>3. IdleSet(p) = Elements(f) /\ IdleSet(q) = Elements(Tail(f))
    BY <1>2, <1>3 DEF IdleSet
  <2>4. v \in Elements(f) /\ Elements(f) \subseteq Voice
    BY <2>2, <1>1 DEF Elements
  <2> QED BY <2>1, <2>3, <2>4
<1>5. /\ q.gateOff = p.gateOff /\ q.state = p.state /\ q.key = p.key
      /\ q.held = p.held /\ q.hold = p.hold /\ q.table = p.table
      /\ \A u \in Voice \ {v} : q.part[u] = p.part[u]
      /\ q.desc = [p.desc EXCEPT ![v] = d]
  BY DEF GiveDone, SameGates
<1> HIDE DEF v
<1>6. q.desc[v] = d /\ \A u \in Voice \ {v} : q.desc[u] = p.desc[u]
  <2> DEFINE z == p.desc
  <2>1. z \in [Voice -> OrNone(Desc)] /\ q.desc = [z EXCEPT ![v] = d]
    BY <1>1, <1>5 DEF Pools, VoiceTo
  <2> HIDE DEF z
  <2>2. q.desc[v] = d /\ \A u \in Voice \ {v} : q.desc[u] = z[u]
    BY <2>1, <1>4
  <2> QED BY <2>2 DEF z
<1>7. ASSUME NEW u \in Sounding(q) PROVE MarkOK(q, u)
  <2>1. CASE u = v
    <3>1. ~p.gateOff[v]
      BY <1>4 DEF Marked
    <3> QED BY <2>1, <3>1, <1>5, <1>6, Zenon DEF MarkOK, NewNote
  <2>2. CASE u # v
    <3>1. u \in Sounding(p) /\ u \in Voice \ {v}
      BY <2>2, <1>4 DEF Sounding
    <3>2. MarkOK(p, u) /\ q.desc[u] = p.desc[u] /\ q.part[u] = p.part[u]
      BY <3>1, <1>5, <1>6 DEF Marked
    <3>3. \A x, k : InTable(q, x, k) <=> InTable(p, x, k)
      BY <1>5 DEF InTable
    <3> QED BY <3>2, <3>3, <1>5, Zenon DEF MarkOK
  <2> QED BY <2>1, <2>2
<1>8. \A u \in IdleSet(q) : ~q.gateOff[u]
  BY <1>4, <1>5 DEF Marked
<1> QED BY <1>5, <1>7, <1>8 DEF Marked, NewNote

\* and when voices are given back, with their marks cleared.
LEMMA EasedMarked ==
  ASSUME NEW o, Marked(o), NEW p, NEW P, Eased(p, o, P)
  PROVE  Marked(p)
<1>1. ASSUME NEW v \in IdleSet(p) PROVE ~p.gateOff[v]
  BY DEF Eased, Marked
<1>2. ASSUME NEW v \in Sounding(p) PROVE MarkOK(p, v)
  <2>1. v \in Sounding(o) /\ v \in Voice \ IdleSet(p)
    BY DEF Eased, Sounding
  <2>2. MarkOK(o, v)
    BY <2>1 DEF Marked
  <2> DEFINE d == p.desc[v]
             part == p.part[v]
  <2>3. /\ d = o.desc[v] /\ part = o.part[v] /\ p.key[d] = o.key[d]
        /\ p.held[d] = o.held[d] /\ p.hold[part] = o.hold[part] /\ p.table = o.table
    BY DEF Eased, SameGates
  <2>4. p.gateOff[v] = o.gateOff[v] /\ p.state[d] = o.state[d]
    BY <2>1, <2>3 DEF Eased
  <2>5. InTable(p, part, p.key[d]) <=> InTable(o, part, o.key[d])
    BY <2>3 DEF InTable
  <2> HIDE DEF d, part
  <2> QED BY <2>2, <2>3, <2>4, <2>5, Zenon DEF MarkOK, d, part
<1> QED BY <1>1, <1>2 DEF Marked

\* A note is opened and given its voices.
LEMMA DescSetupKeeps ==
  ASSUME NEW n \in 1 .. 2, NEW p, Good(p), p.fresh = <<>>, p.freeCount >= n,
         NEW part \in Part, NEW key \in Keys, NEW canOff \in BOOLEAN
  PROVE  /\ NoteDone(DescSetup(p, part, key, canOff, n))
         /\ Given(DescSetup(p, part, key, canOff, n), p, p.descFree, n)
         /\ Marked(p) => Marked(DescSetup(p, part, key, canOff, n))
<1>1. PICK f, e, c, home : Sound(p, f, e, c, home, {})
  BY DEF Good
<1> DEFINE d == p.descFree
           p1 == OpenDesc(p, part, key, canOff)
           home2 == [home EXCEPT ![d] = part]
           p2 == GiveVoice(p1, d, part)
           p3 == GiveVoice(p2, d, part)
<1>2. p.freeCount \in Int /\ n \in {1, 2}
  BY <1>1 DEF Sound, Pools
<1>3. e # <<>>
  BY <1>1, <1>2, SpareDesc
<1>4. Opened(p1, p, f, d, part, home)
  <2> HIDE DEF p1
  <2>1. p1 = OpenDesc(p, part, key, canOff)
    BY DEF p1
  <2> QED BY <2>1, <1>1, <1>3, OpenKeeps
<1>5. PICK e2, c2 : Sound(p1, f, e2, c2, home2, {d})
  BY <1>4 DEF Opened
<1>6. p1.freeCount = p.freeCount /\ p1.fresh = <<>> /\ p1.desc = p.desc
  BY <1>4 DEF Opened, SameIdle
<1>7. d \in Desc /\ home2[d] = part
  <2>1. e \in Seq(Desc) /\ ListOf(e, p.descNext, d) /\ home \in [Desc -> OrNone(Part)]
    BY <1>1 DEF Sound, NotesOK
  <2>2. d = e[1] /\ 1 \in 1 .. Len(e)
    BY <2>1, <1>3, NoCells DEF ListOf
  <2> QED BY <2>1, <2>2
<1>8. GiveDone(p2, p1, f, e2, c2, d, home2, {d})
  <2> HIDE DEF p2, p1, home2, d
  <2>1. p2 = GiveVoice(p1, d, part)
    BY DEF p2
  <2>2. Room(p1, d, {d})
    BY DEF Room
  <2>3. p1.freeCount > 0
    BY <1>2, <1>6
  <2> QED BY <2>1, <2>2, <2>3, <1>5, <1>7, GiveKeeps
<1>9. /\ Sound(p2, Tail(f), e2, c2, home2, {}) /\ p2.freeCount = p.freeCount - 1
      /\ Len(p2.fresh) = 1 /\ p2.head[d] = p2.tail[d]
      /\ f # <<>> /\ p2.desc = [p.desc EXCEPT ![f[1]] = d]
  <2>1. Len(<<>>) = 0
    OBVIOUS
  <2> QED BY <2>1, <1>6, <1>8 DEF GiveDone
<1>12. /\ FreeList(p) = f /\ f \in Seq(Voice) /\ p.desc \in [Voice -> OrNone(Desc)]
       /\ FreeList(p2) = Tail(f)
  BY <1>1, <1>9, ListsAre DEF Sound, IdleOK, Pools, VoiceTo
<1>13. ASSUME NEW v \in Voice, p.desc[v] = d PROVE v \in Elements(f)
  <2>1. home[d] = None
    <3>1. Elements(e) = {x \in Desc : home[x] = None} /\ ListOf(e, p.descNext, d)
      BY <1>1 DEF Sound, NotesOK
    <3>2. d = e[1] /\ e \in Seq(Desc) /\ 1 \in 1 .. Len(e)
      BY <3>1, <1>1, <1>3, NoCells DEF ListOf, Sound, NotesOK
    <3> QED BY <3>1, <3>2 DEF Elements
  <2> QED BY <2>1, <1>1, <1>13 DEF Sound, VoicesOK
<1> HIDE DEF p1, p2, home2
<1>14. Marked(p) => Marked(p1) /\ NewNote(p1, d)
  <2> HIDE DEF d
  <2> QED BY <1>1, <1>4, <1>7, OpenedMarked
<1>15. Marked(p) => Marked(p2) /\ NewNote(p2, d)
  <2> HIDE DEF d
  <2> QED BY <1>5, <1>8, <1>14, GivenMarked
<1>10. CASE n = 1
  <2>1. DescSetup(p, part, key, canOff, n) = p2
    BY <1>10, TwoVoices DEF DescSetup, p1, p2
  <2>2. Good(p2)
    BY <1>9 DEF Good
  <2>3. Given(p2, p, d, 1)
    BY <1>7, <1>9, <1>12, <1>13, GivenOne DEF Given
  <2> QED BY <2>1, <2>2, <2>3, <1>9, <1>10, <1>15 DEF NoteDone
<1>11. CASE n = 2
  <2>1. DescSetup(p, part, key, canOff, n) = p3
    BY <1>11, TwoVoices DEF DescSetup, p1, p2
  <2>2. GiveDone(p3, p2, Tail(f), e2, c2, d, home2, {})
    <3> HIDE DEF p3, d
    <3>1. p3 = GiveVoice(p2, d, part)
      BY DEF p3
    <3>2. Room(p2, d, {})
      BY <1>9 DEF Room
    <3>3. p2.freeCount > 0
      BY <1>2, <1>9, <1>11
    <3> QED BY <3>1, <3>2, <3>3, <1>7, <1>9, GiveKeeps
  <2>3. Good(p3) /\ Len(p3.fresh) = 2
    BY <2>2, <1>9 DEF GiveDone, Good
  <2>4. /\ FreeList(p3) = Tail(Tail(f)) /\ Tail(f) # <<>>
        /\ p3.desc = [p2.desc EXCEPT ![Tail(f)[1]] = d]
    BY <2>2, ListsAre DEF GiveDone
  <2>5. Given(p3, p, d, 2)
    <3>1. /\ Tail(Tail(f)) = SubSeq(f, 3, Len(f)) /\ 2 <= Len(f)
          /\ [[p.desc EXCEPT ![f[1]] = d] EXCEPT ![Tail(f)[1]] = d] =
               [v \in Voice |-> IF v \in {f[i] : i \in 1 .. 2} THEN d ELSE p.desc[v]]
      BY <2>4, <1>7, <1>9, <1>12, GivenTwo
    <3>2. FreeList(p3) = SubSeq(f, 2 + 1, Len(f))
      BY <3>1, <2>4
    <3>3. p3.desc = [v \in Voice |-> IF v \in {f[i] : i \in 1 .. 2} THEN d ELSE p.desc[v]]
      BY <3>1, <2>4, <1>9
    <3> QED BY <3>1, <3>2, <3>3, <1>7, <1>12, <1>13 DEF Given
  <2>6. Marked(p) => Marked(p3)
    <3> HIDE DEF d, p3
    <3> QED BY <2>2, <1>9, <1>15, GivenMarked
  <2> QED BY <2>1, <2>3, <2>5, <2>6, <1>11 DEF NoteDone
<1> QED BY <1>2, <1>10, <1>11

(* One handler, seen from the queue of idle voices: some are put before it  *)
(* and behind it, then the first n go to a note d that has no others.       *)
Takes(q, p, r, n, d) ==
  /\ n <= Len(r) /\ Distinct(r)
  /\ FreeList(q) = SubSeq(r, n + 1, Len(r))
  /\ q.desc = [v \in Voice |-> IF v \in {r[i] : i \in 1 .. n} THEN d ELSE p.desc[v]]
  /\ n > 0 => \A v \in Voice : p.desc[v] = d => v \in Elements(r)

\* Some are, and some go to a note; or none.
Handled(q, p) ==
  \E front, back \in Seq(Voice), n \in 0 .. 2, d \in Desc :
    Takes(q, p, (front \o FreeList(p)) \o back, n, d)

\* A handler that gives no voice to a note,
LEMMA MovedHandled ==
  ASSUME NEW p, NEW q, Good(q), Moved(q, p)
  PROVE  Handled(q, p)
<1>1. PICK front, back \in Seq(Voice) : FreeList(q) = (front \o FreeList(p)) \o back
  BY DEF Moved
<1>2. FreeList(q) \in Seq(Voice) /\ Distinct(FreeList(q)) /\ q \in Pools
  <2>1. PICK f, e, c, home : Sound(q, f, e, c, home, {})
    BY DEF Good
  <2> QED BY <2>1, ListsAre DEF Sound, IdleOK
<1> DEFINE r == (front \o FreeList(p)) \o back
<1>3. r = FreeList(q)
  BY <1>1
<1> HIDE DEF r
<1>4. SubSeq(r, 0 + 1, Len(r)) = r /\ 0 <= Len(r)
  BY <1>2, <1>3, SubSeqFull
<1>5. q.desc = [v \in Voice |-> IF v \in {r[i] : i \in 1 .. 0} THEN 0 ELSE p.desc[v]]
  <2>1. q.desc \in [Voice -> OrNone(Desc)] /\ q.desc = p.desc
    BY <1>2 DEF Pools, VoiceTo, Moved
  <2>2. {r[i] : i \in 1 .. 0} = {}
    OBVIOUS
  <2> QED BY <2>1, <2>2
<1>6. 0 \in Desc /\ 0 \in 0 .. 2 /\ ~(0 > 0)
  BY Sizes DEF Desc
<1>7. Takes(q, p, r, 0, 0)
  BY <1>2, <1>3, <1>4, <1>5, <1>6 DEF Takes
<1> QED BY <1>6, <1>7, Zenon DEF Handled, r

\* and one that gives one or two, to a note that had none.
LEMMA GivenHandled ==
  ASSUME NEW p, NEW a, Good(a), Moved(a, p), NEW q, NEW d, NEW n \in 1 .. 2,
         Given(q, a, d, n)
  PROVE  Handled(q, p)
<1>1. PICK front, back \in Seq(Voice) : FreeList(a) = (front \o FreeList(p)) \o back
  BY DEF Moved
<1>2. Distinct(FreeList(a))
  <2>1. PICK f, e, c, home : Sound(a, f, e, c, home, {})
    BY DEF Good
  <2> QED BY <2>1, ListsAre
<1> DEFINE r == (front \o FreeList(p)) \o back
<1>3. r = FreeList(a) /\ a.desc = p.desc
  BY <1>1 DEF Moved
<1> HIDE DEF r
<1>4. /\ d \in Desc /\ n \in 0 .. 2 /\ n <= Len(r)
      /\ FreeList(q) = SubSeq(r, n + 1, Len(r))
      /\ q.desc = [v \in Voice |-> IF v \in {r[i] : i \in 1 .. n} THEN d ELSE p.desc[v]]
      /\ \A v \in Voice : p.desc[v] = d => v \in Elements(r)
  BY <1>3 DEF Given
<1>5. Takes(q, p, r, n, d)
  BY <1>2, <1>3, <1>4 DEF Takes
<1> QED BY <1>4, <1>5, Zenon DEF Handled, r

(* Note on. *)
LEMMA NoteCmdKeeps ==
  ASSUME NEW p, p \in GN(0, p, Part), NEW part \in Part, NEW key \in Keys, NEW canOff \in BOOLEAN,
         NEW n \in 1 .. 2, NEW level
  PROVE  /\ NoteDone(NoteCmd(p, part, key, canOff, n, level))
         /\ Handled(NoteCmd(p, part, key, canOff, n, level), p)
         /\ Marked(p) => Marked(NoteCmd(p, part, key, canOff, n, level))
<1> DEFINE r == Repeat(p, part, key)
           a == AllocScan(r, part, n, level)
<1>1. r \in GN(0, p, Part)
  BY RepeatKeeps
<1> HIDE DEF r
<1>2. a \in GN(n, p, Part)
  BY <1>1, GoodNow, AllocScanKeeps
<1>3. NoteCmd(p, part, key, canOff, n, level) = Granted(a, part, key, canOff, n)
  BY DEF NoteCmd, r
<1> HIDE DEF a
<1>4. /\ Good(a) /\ a.fresh = <<>> /\ a.freeCount + a.short >= n
      /\ a.freeCount \in Int /\ a.short \in Int /\ n \in Int /\ Moved(a, p)
  BY <1>2 DEF GN, Pools
<1>7. Marked(p) => Marked(a)
  BY <1>2, EasedMarked DEF GN
<1>5. CASE a.short > 0
  <2>1. Len(<<>>) <= 2
    OBVIOUS
  <2>2. Handled(a, p)
    BY <1>4, MovedHandled
  <2> QED BY <2>1, <2>2, <1>3, <1>4, <1>5, <1>7 DEF Granted, NoteDone
<1>6. CASE ~(a.short > 0)
  <2>1. a.freeCount >= n
    BY <1>4, <1>6
  <2> DEFINE q == DescSetup(a, part, key, canOff, n)
  <2>2. NoteDone(q) /\ Given(q, a, a.descFree, n) /\ (Marked(a) => Marked(q))
    BY <2>1, <1>4, DescSetupKeeps
  <2> HIDE DEF q
  <2>3. Handled(q, p)
    BY <2>2, <1>4, GivenHandled
  <2> QED BY <2>2, <2>3, <1>3, <1>6, <1>7 DEF Granted, q
<1> QED BY <1>5, <1>6

-----------------------------------------------------------------------------
(* A new note is filled; a voice ends. *)

\* What filling a voice of the note leaves.
FillDone(q, p) == /\ Good(q) /\ Len(q.fresh) < Len(p.fresh) /\ Moved(q, p)
                  /\ \E P : Eased(q, p, P)

\* Writing the free bits and the voices to fill stays within the ranges.
LEMMA FillCells ==
  ASSUME NEW p \in Pools, NEW x \in VoiceTo(BOOLEAN), NEW y \in Seq(Voice)
  PROVE  [p EXCEPT !.free = x, !.fresh = y] \in Pools
  BY Zenon DEF Pools

\* A voice of a note that ends.
LEMMA GiveBack ==
  ASSUME NEW p, NEW f, NEW e, NEW c, NEW home, Sound(p, f, e, c, home, {}),
         NEW v \in Voice \ Elements(f), v \notin Elements(p.fresh),
         NEW level, level # Fresh
  PROVE  /\ Good(FreeVoice(p, v, level)) /\ FreeVoice(p, v, level).fresh = p.fresh
         /\ Moved(FreeVoice(p, v, level), p) /\ Eased(FreeVoice(p, v, level), p, {p.part[v]})
<1> DEFINE d == p.desc[v]
           part == p.part[v]
           p0 == [p EXCEPT !.gateOff[v] = FALSE]
           p1 == H1(p0, v, d)
           p2 == AppendFree(p1, v)
           q == H2(p2, d, part)
<1>1. ~p.free[v]
  <2>1. {u \in Voice : p.free[u]} = Elements(f) \cup Elements(p.fresh)
    BY DEF Sound, BitsOK
  <2> QED BY <2>1
<1>2. FreeVoice(p, v, level) = q
  BY <1>1 DEF FreeVoice
<1>3. p0 = [p EXCEPT !.gateOff[v] = FALSE] /\ p1 = H1(p0, v, d)
      /\ p2 = AppendFree(p1, v) /\ q = H2(p2, d, part)
  OBVIOUS
<1> HIDE DEF q, p2, p1, p0
<1>4. Good(q) /\ Freed(q, p, d, part) /\ Back(q, p, v) /\ Eased(q, p, {part})
  <2> HIDE DEF d, part
  <2>1. d = p.desc[v] /\ part = p.part[v]
    BY DEF d, part
  <2> QED BY <2>1, <1>3, BackKeeps
<1>5. Moved(q, p)
  <2>1. Moved(p, p)
    BY ListsAre, MovedSelf DEF Sound, IdleOK
  <2> QED BY <2>1, <1>4, MovedBack
<1> QED BY <1>2, <1>4, <1>5 DEF Freed, Rest

\* A voice is filled, or given back when it stays mute.
LEMMA NoteFillKeeps ==
  ASSUME NEW p, Good(p), p.fresh # <<>>, NEW mute \in BOOLEAN
  PROVE  FillDone(NoteFill(p, Head(p.fresh), mute), p)
<1> DEFINE v == Head(p.fresh)
           x == [p.free EXCEPT ![v] = FALSE]
           y == Tail(p.fresh)
           q == [p EXCEPT !.free[v] = FALSE, !.fresh = Tail(@)]
<1>1. PICK f, e, c, home : Sound(p, f, e, c, home, {})
  BY DEF Good
<1> DEFINE I == Elements(f)
<1>2. /\ p \in Pools /\ home \in [Desc -> OrNone(Part)]
      /\ IdleOK(p, f) /\ VoicesOK(p, I, home, {}) /\ NotesOK(p, e, c, home)
      /\ CountOK(p, I) /\ BitsOK(p, I)
      /\ CurrentOK(p, home)
      /\ p.short \in 0 .. 2
  BY <1>1 DEF Sound
<1>3. p.fresh \in Seq(Voice) /\ p.free \in [Voice -> BOOLEAN]
  BY <1>2 DEF Pools, VoiceTo
<1>4. /\ {u \in Voice : p.free[u]} = I \cup Elements(p.fresh)
      /\ \A u \in Elements(p.fresh) : u \notin I
      /\ Distinct(p.fresh)
  BY <1>2 DEF BitsOK
<1> HIDE DEF I
<1>5. /\ y \in Seq(Voice) /\ Len(y) = Len(p.fresh) - 1 /\ Distinct(y)
      /\ Elements(y) = Elements(p.fresh) \ {p.fresh[1]}
  BY <1>3, <1>4, TailOf
<1>6. v = p.fresh[1] /\ v \in Elements(p.fresh) /\ v \in Voice
  <2>1. v = p.fresh[1] /\ 1 \in 1 .. Len(p.fresh)
    BY <1>3, NoCells
  <2> QED BY <2>1, <1>3 DEF Elements
<1>7. x \in VoiceTo(BOOLEAN) /\ {u \in Voice : x[u]} = {u \in Voice : p.free[u]} \ {v}
  <2> DEFINE z == p.free
  <2>1. z \in [Voice -> BOOLEAN] /\ x = [z EXCEPT ![v] = FALSE]
    BY <1>3
  <2> HIDE DEF x, z, v
  <2>2. x \in [Voice -> BOOLEAN]
    BY <2>1, Zenon
  <2>3. x[v] = FALSE /\ \A u \in Voice \ {v} : x[u] = z[u]
    BY <2>1, <1>6
  <2>4. {u \in Voice : x[u]} = {u \in Voice : z[u]} \ {v}
    BY <2>3, Zenon
  <2> QED BY <2>2, <2>4 DEF VoiceTo, z
<1>8. q = [p EXCEPT !.free = x, !.fresh = y]
  BY <1>2 DEF Pools
<1> HIDE DEF x, y, q, v
<1>9. q \in Pools
  <2>1. [p EXCEPT !.free = x, !.fresh = y] \in Pools
    BY <1>2, <1>5, <1>7, FillCells, Zenon
  <2> QED BY <2>1, <1>8, Zenon
<1>10. /\ q.free = x /\ q.fresh = y /\ q.short = p.short
       /\ SameIdle(q, p) /\ SameVoices(q, p) /\ SameNotes(q, p) /\ SameCount(q, p)
  BY <1>2, <1>8 DEF Pools, SameIdle, SameVoices, SameNotes, SameCount
<1>11. IdleOK(q, f) /\ VoicesOK(q, I, home, {}) /\ NotesOK(q, e, c, home)
  BY <1>2, <1>10, IdleSame, VoicesSame, NotesSame DEF I
<1>12. CountOK(q, I)
  BY <1>2, <1>10 DEF CountOK, SameCount, SameVoices, I
<1>13. BitsOK(q, I)
  <2>1. {u \in Voice : q.free[u]} = I \cup Elements(q.fresh)
    BY <1>4, <1>5, <1>6, <1>7, <1>10
  <2>2. \A u \in Elements(q.fresh) : u \notin I
    BY <1>4, <1>5, <1>10
  <2> QED BY <2>1, <2>2, <1>5, <1>10 DEF BitsOK
<1>14. CurrentOK(q, home)
  BY <1>2, <1>10 DEF CurrentOK, HasCurrent, LowestCurrent, SameCount, SameNotes
<1>15. Sound(q, f, e, c, home, {})
  BY <1>2, <1>9, <1>10, <1>11, <1>12, <1>13, <1>14 DEF Sound, I
<1>16. Len(y) < Len(p.fresh)
  BY <1>3, <1>5
<1>20. FreeList(q) = FreeList(p) /\ q.desc = p.desc /\ Moved(q, p)
  <2>1. FreeList(q) = FreeList(p) /\ q.desc = p.desc
    BY <1>10 DEF FreeList, SameIdle, SameVoices
  <2>2. Moved(p, p)
    BY <1>1, ListsAre, MovedSelf DEF Sound, IdleOK
  <2> QED BY <2>1, <2>2 DEF Moved
<1>21. Eased(q, p, {})
  <2>1. SameGates(q, p) /\ q.gateOff = p.gateOff
    BY <1>2, <1>8 DEF Pools, SameGates
  <2> QED BY <2>1, <1>10, EasedSame
<1>17. NoteFill(p, v, mute) = IF mute THEN FreeVoice(q, v, 0) ELSE q
  BY DEF NoteFill, q
<1>18. CASE mute = TRUE
  <2>1. v \in Voice \ Elements(f) /\ v \notin Elements(q.fresh)
    BY <1>4, <1>5, <1>6, <1>10 DEF I
  <2>2. 0 # Fresh
    BY DEF Fresh
  <2>3. /\ Good(FreeVoice(q, v, 0)) /\ FreeVoice(q, v, 0).fresh = q.fresh
        /\ Moved(FreeVoice(q, v, 0), q) /\ Eased(FreeVoice(q, v, 0), q, {q.part[v]})
    BY <2>1, <2>2, <1>15, GiveBack
  <2>5. Eased(FreeVoice(q, v, 0), p, {q.part[v]})
    BY <2>3, <1>21, EasedThen
  <2>4. Moved(FreeVoice(q, v, 0), p)
    BY <2>3, <1>20 DEF Moved
  <2> QED BY <2>3, <2>4, <2>5, <1>10, <1>16, <1>17, <1>18 DEF FillDone, v
<1>19. CASE mute = FALSE
  <2>1. Good(q)
    BY <1>15 DEF Good
  <2> QED BY <2>1, <1>10, <1>16, <1>17, <1>19, <1>20, <1>21 DEF FillDone, v
<1> QED BY <1>18, <1>19

\* The end of a voice that is idle, given away or playing.
LEMMA VoiceEndKeeps ==
  ASSUME NEW p, Good(p), p.fresh = <<>>, NEW v \in Voice, NEW level
  PROVE  /\ Good(FreeVoice(p, v, level)) /\ FreeVoice(p, v, level).fresh = <<>>
         /\ Moved(FreeVoice(p, v, level), p) /\ \E P : Eased(FreeVoice(p, v, level), p, P)
<1>1. PICK f, e, c, home : Sound(p, f, e, c, home, {})
  BY DEF Good
<1>2. CASE p.free[v] \/ level = Fresh
  <2>1. Moved(p, p) /\ Eased(p, p, {})
    BY <1>1, ListsAre, MovedSelf, EasedSelf DEF Sound, IdleOK
  <2> QED BY <2>1, <1>2 DEF FreeVoice
<1>3. CASE ~(p.free[v] \/ level = Fresh)
  <2>1. {u \in Voice : p.free[u]} = Elements(f) \cup Elements(p.fresh)
    BY <1>1 DEF Sound, BitsOK
  <2>2. v \in Voice \ Elements(f) /\ v \notin Elements(p.fresh) /\ level # Fresh
    BY <2>1, <1>3
  <2> QED BY <2>2, <1>1, GiveBack
<1> QED BY <1>2, <1>3

-----------------------------------------------------------------------------
(* Key off and the pedals: they move marks, and the lists stay. *)

\* No list changes and no note is opened or closed.
Near(q, p) ==
  /\ SameIdle(q, p) /\ SameVoices(q, p) /\ SameCount(q, p)
  /\ q.free = p.free /\ q.fresh = p.fresh /\ q.short = p.short
  /\ q.descNext = p.descNext /\ q.descPrev = p.descPrev
  /\ q.first = p.first /\ q.last = p.last
  /\ q.descFree = p.descFree /\ q.key = p.key
  /\ \A d \in Desc : q.state[d] = "free" <=> p.state[d] = "free"

\* That, within the ranges.
Kept(q, p) == q \in Pools /\ Near(q, p)

\* Such a step keeps a sound pool sound.
LEMMA KeptGood ==
  ASSUME NEW p, Good(p), NEW q, Kept(q, p)
  PROVE  Good(q) /\ q.fresh = p.fresh /\ Moved(q, p)
<1>1. PICK f, e, c, home : Sound(p, f, e, c, home, {})
  BY DEF Good
<1>2. IdleOK(q, f) /\ VoicesOK(q, Elements(f), home, {})
  BY <1>1, IdleSame, VoicesSame DEF Sound, Kept, Near
<1>3. NotesOK(q, e, c, home)
  <2>1. NotesOK(p, e, c, home)
    BY <1>1 DEF Sound
  <2>2. /\ q.descNext = p.descNext /\ q.descPrev = p.descPrev
        /\ q.first = p.first /\ q.last = p.last
        /\ q.descFree = p.descFree /\ q.key = p.key
        /\ \A d \in Desc : q.state[d] = "free" <=> p.state[d] = "free"
    BY DEF Kept, Near
  <2> QED BY <2>1, <2>2 DEF NotesOK, ChainOK
<1>4. CountOK(q, Elements(f))
  BY <1>1 DEF Sound, Kept, Near, CountOK, SameCount, SameVoices
<1>5. BitsOK(q, Elements(f))
  <2>1. BitsOK(p, Elements(f)) /\ q.free = p.free /\ q.fresh = p.fresh
    BY <1>1 DEF Sound, Kept, Near
  <2> QED BY <2>1 DEF BitsOK
<1>6. CurrentOK(q, home)
  <2>1. q.current = p.current /\ q.key = p.key
    BY DEF Kept, Near, SameCount
  <2>2. CurrentOK(p, home)
    BY <1>1 DEF Sound
  <2> QED BY <2>1, <2>2 DEF CurrentOK, HasCurrent, LowestCurrent
<1>7. Sound(q, f, e, c, home, {})
  BY <1>1, <1>2, <1>3, <1>4, <1>5, <1>6 DEF Sound, Kept, Near
<1>8. Moved(q, p)
  <2>1. FreeList(q) = FreeList(p) /\ q.desc = p.desc
    BY DEF FreeList, Kept, Near, SameIdle, SameVoices
  <2>2. Moved(p, p)
    BY <1>1, ListsAre, MovedSelf DEF Sound, IdleOK
  <2> QED BY <2>1, <2>2 DEF Moved
<1> QED BY <1>7, <1>8 DEF Good, Kept, Near

\* Two such steps make one.
LEMMA KeptTwice ==
  ASSUME NEW p, NEW q, NEW r, Kept(q, p), Kept(r, q)
  PROVE  Kept(r, p)
<1>1. SameIdle(r, p) /\ SameVoices(r, p) /\ SameCount(r, p)
  BY SameTwice DEF Kept, Near
<1> QED BY <1>1 DEF Kept, Near

\* And none.
LEMMA KeptSelf == ASSUME NEW p \in Pools PROVE Kept(p, p)
  BY DEF Kept, Near, SameIdle, SameVoices, SameCount

\* Letting notes go marks their voices.
LEMMA LetGoKept ==
  ASSUME NEW p \in Pools, NEW D
  PROVE  Kept(LetGo(p, D), p)
<1> DEFINE q == LetGo(p, D)
           off == {p.tail[d] : d \in D} \cup ({p.toHead[v] : v \in {p.tail[d] : d \in D}} \ {None})
           g == [v \in Voice |-> p.gateOff[v] \/ v \in off]
<1>1. q = [p EXCEPT !.gateOff = g]
  BY DEF LetGo
<1>2. g \in VoiceTo(BOOLEAN)
  BY DEF VoiceTo
<1> HIDE DEF g, q
<1>3. q \in Pools
  <2>1. [p EXCEPT !.gateOff = g] \in Pools
    BY <1>2, MarkCells, Zenon
  <2> QED BY <2>1, <1>1, Zenon
<1>4. Near(q, p)
  BY <1>1 DEF Near, SameIdle, SameVoices, SameCount, Pools
<1> QED BY <1>3, <1>4 DEF Kept, q

\* Writing the states of notes stays within the ranges.
LEMMA StateCells ==
  ASSUME NEW p \in Pools, NEW s \in DescTo({"free", "down", "up"})
  PROVE  [p EXCEPT !.state = s] \in Pools
  BY Zenon DEF Pools

\* A key up.
LEMMA UpKept ==
  ASSUME NEW p \in Pools, NEW d \in Desc, p.state[d] # "free",
         NEW q, q = [p EXCEPT !.state[d] = "up"]
  PROVE  Kept(q, p)
<1> DEFINE s == [p.state EXCEPT ![d] = "up"]
<1>1. p.state \in [Desc -> {"free", "down", "up"}]
  BY DEF Pools, DescTo
<1>2. /\ s \in DescTo({"free", "down", "up"})
      /\ \A x \in Desc : s[x] = "free" <=> p.state[x] = "free"
  BY <1>1 DEF DescTo
<1>3. q = [p EXCEPT !.state = s]
  BY DEF Pools
<1> HIDE DEF s
<1>4. q \in Pools
  <2>1. [p EXCEPT !.state = s] \in Pools
    BY <1>2, StateCells, Zenon
  <2> QED BY <2>1, <1>3, Zenon
<1>5. q.state = s /\ SameIdle(q, p) /\ SameVoices(q, p) /\ SameCount(q, p)
      /\ q.free = p.free /\ q.fresh = p.fresh /\ q.short = p.short
      /\ q.descNext = p.descNext /\ q.descPrev = p.descPrev
      /\ q.first = p.first /\ q.last = p.last
      /\ q.descFree = p.descFree /\ q.key = p.key
  BY <1>3 DEF SameIdle, SameVoices, SameCount, Pools
<1> QED BY <1>2, <1>4, <1>5 DEF Kept, Near

\* Writing the pedals stays within the ranges.
LEMMA PedalCells ==
  ASSUME NEW p \in Pools, NEW o \in PartTo(BOOLEAN), NEW h \in DescTo(BOOLEAN),
         NEW t \in PartTo(Seq(OrNone(Keys)))
  PROVE  [p EXCEPT !.hold = o, !.held = h, !.table = t] \in Pools
  BY Zenon DEF Pools

\* Pedals move marks only.
LEMMA PedalKept ==
  ASSUME NEW p \in Pools, NEW o \in PartTo(BOOLEAN), NEW h \in DescTo(BOOLEAN),
         NEW t \in PartTo(Seq(OrNone(Keys))),
         NEW q, q = [p EXCEPT !.hold = o, !.held = h, !.table = t]
  PROVE  Kept(q, p)
<1>1. q \in Pools
  <2>1. [p EXCEPT !.hold = o, !.held = h, !.table = t] \in Pools
    BY PedalCells, Zenon
  <2> QED BY <2>1, Zenon
<1>2. Near(q, p)
  BY DEF Near, SameIdle, SameVoices, SameCount, Pools
<1> QED BY <1>1, <1>2 DEF Kept

\* The hold pedal of a part.
LEMMA HoldKept ==
  ASSUME NEW p \in Pools, NEW part \in Part, NEW on \in BOOLEAN,
         NEW h \in DescTo(BOOLEAN), NEW q, q = [p EXCEPT !.hold[part] = on, !.held = h]
  PROVE  Kept(q, p)
<1> DEFINE o == [p.hold EXCEPT ![part] = on]
           x == p.hold
<1>1. x \in [Part -> BOOLEAN] /\ p.table \in PartTo(Seq(OrNone(Keys)))
  BY DEF Pools, PartTo
<1>2. o = [x EXCEPT ![part] = on]
  OBVIOUS
<1>3. q = [p EXCEPT !.hold = o, !.held = h, !.table = p.table]
  BY DEF Pools
<1> HIDE DEF o, x
<1>4. o \in [Part -> BOOLEAN]
  BY <1>1, <1>2, Zenon
<1>5. o \in PartTo(BOOLEAN)
  BY <1>4 DEF PartTo
<1> DEFINE t == p.table
<1>6. t \in PartTo(Seq(OrNone(Keys))) /\ q = [p EXCEPT !.hold = o, !.held = h, !.table = t]
  BY <1>1, <1>3
<1> HIDE DEF t
<1> QED BY <1>5, <1>6, PedalKept, Zenon

\* The hold pedal down.
LEMMA HoldDownKept ==
  ASSUME NEW p \in Pools, NEW part \in Part, NEW q, q = [p EXCEPT !.hold[part] = TRUE]
  PROVE  Kept(q, p)
<1>1. p.held \in DescTo(BOOLEAN)
  BY DEF Pools
<1>2. q = [p EXCEPT !.hold[part] = TRUE, !.held = p.held]
  BY DEF Pools
<1> QED BY <1>1, <1>2, HoldKept

\* The sostenuto table of a part.
LEMMA TableKept ==
  ASSUME NEW p \in Pools, NEW part \in Part, NEW s \in Seq(OrNone(Keys)),
         NEW q, q = [p EXCEPT !.table[part] = s]
  PROVE  Kept(q, p)
<1> DEFINE t == [p.table EXCEPT ![part] = s]
<1>1. /\ p.table \in [Part -> Seq(OrNone(Keys))] /\ p.hold \in PartTo(BOOLEAN)
      /\ p.held \in DescTo(BOOLEAN)
  BY DEF Pools, PartTo
<1>2. t \in PartTo(Seq(OrNone(Keys)))
  BY <1>1 DEF PartTo
<1>3. q = [p EXCEPT !.hold = p.hold, !.held = p.held, !.table = t]
  BY DEF Pools
<1> DEFINE o == p.hold
           h == p.held
<1>4. /\ o \in PartTo(BOOLEAN) /\ h \in DescTo(BOOLEAN)
      /\ q = [p EXCEPT !.hold = o, !.held = h, !.table = t]
  BY <1>1, <1>3
<1> HIDE DEF t, o, h
<1> QED BY <1>2, <1>4, PedalKept, Zenon

\* A note whose key is up.
LEMMA KillAKept ==
  ASSUME NEW p \in Pools, NEW d \in Desc, p.state[d] # "free", NEW part \in Part
  PROVE  Kept(KillA(p, d, part), p)
<1> DEFINE q == [p EXCEPT !.state[d] = "up"]
           h == [q.held EXCEPT ![d] = TRUE]
           r == [q EXCEPT !.held[d] = TRUE]
<1>1. Kept(q, p)
  BY UpKept
<1>2. q \in Pools
  BY <1>1 DEF Kept
<1>3. KillA(p, d, part) = IF p.hold[part] THEN r
                          ELSE IF InTable(p, part, p.key[d]) THEN q ELSE LetGo(q, {d})
  BY DEF KillA
<1> HIDE DEF q
<1>4. Kept(r, q)
  <2> DEFINE x == q.held
  <2>1. x \in [Desc -> BOOLEAN] /\ h = [x EXCEPT ![d] = TRUE]
    BY <1>2 DEF Pools, DescTo
  <2>2. r = [q EXCEPT !.hold = q.hold, !.held = h, !.table = q.table]
    BY <1>2 DEF Pools
  <2>3. q.hold \in PartTo(BOOLEAN) /\ q.table \in PartTo(Seq(OrNone(Keys)))
    BY <1>2 DEF Pools
  <2> HIDE DEF h, x, r
  <2>4. h \in [Desc -> BOOLEAN]
    BY <2>1, Zenon
  <2>5. h \in DescTo(BOOLEAN)
    BY <2>4 DEF DescTo
  <2> QED BY <2>2, <2>3, <2>5, <1>2, PedalKept
<1>5. Kept(LetGo(q, {d}), q)
  BY <1>2, LetGoKept
<1> HIDE DEF r
<1>6. Kept(r, p) /\ Kept(LetGo(q, {d}), p)
  BY <1>1, <1>4, <1>5, KeptTwice
<1>7. KillA(p, d, part) \in {r, q, LetGo(q, {d})}
  BY <1>3, Zenon
<1> QED BY <1>1, <1>6, <1>7

\* Key off.
LEMMA ScanAKept ==
  ASSUME NEW p, Good(p), NEW part \in Part, NEW key
  PROVE  Kept(ScanA(p, part, key), p)
<1> DEFINE s == Chain(p, part)
           on == {i \in 1 .. Len(s) : /\ p.state[s[i]] = "down"
                                      /\ p.key[s[i]] = key /\ p.canOff[s[i]]}
           i == Least(on)
<1>1. p \in Pools /\ s \in Seq(Desc)
  BY ChainNotes DEF Good, Sound
<1>2. ScanA(p, part, key) = IF on = {} THEN p ELSE KillA(p, s[i], part)
  BY DEF ScanA
<1> HIDE DEF s
<1>3. on \in SUBSET Nat
  OBVIOUS
<1>4. CASE on = {}
  BY <1>1, <1>2, <1>4, KeptSelf
<1>5. CASE on # {}
  <2>1. i \in on
    <3> HIDE DEF on
    <3> QED BY <1>3, <1>5, LeastIs
  <2>2. i \in 1 .. Len(s) /\ p.state[s[i]] = "down"
    <3> HIDE DEF i
    <3> QED BY <2>1, Zenon
  <2> HIDE DEF i, on
  <2>3. s[i] \in Desc /\ p.state[s[i]] # "free"
    BY <2>2, <1>1
  <2>4. Kept(KillA(p, s[i], part), p)
    BY <2>3, <1>1, KillAKept
  <2> QED BY <2>4, <1>2, <1>5
<1> QED BY <1>4, <1>5

\* Hold pedal up.
LEMMA ScanBKept ==
  ASSUME NEW p \in Pools, NEW part \in Part
  PROVE  Kept(ScanB(p, part), p)
<1> DEFINE D == Elements(Chain(p, part))
           h == [d \in Desc |-> p.held[d] /\ d \notin D]
           q == [p EXCEPT !.hold[part] = FALSE,
                          !.held = [d \in Desc |-> @[d] /\ d \notin D]]
           E == {d \in {d \in D : p.held[d]} : ~InTable(p, part, p.key[d])}
<1>1. ScanB(p, part) = IF ~p.hold[part] THEN p ELSE LetGo(q, E)
  BY DEF ScanB
<1> HIDE DEF D
<1>2. q = [p EXCEPT !.hold[part] = FALSE, !.held = h]
  BY DEF Pools
<1>3. h \in DescTo(BOOLEAN)
  BY DEF DescTo
<1> HIDE DEF h, q, E
<1>4. Kept(q, p)
  BY <1>2, <1>3, HoldKept
<1>5. Kept(LetGo(q, E), q)
  BY <1>4, LetGoKept DEF Kept
<1>6. Kept(LetGo(q, E), p) /\ Kept(p, p)
  BY <1>4, <1>5, KeptTwice, KeptSelf
<1>7. ScanB(p, part) \in {p, LetGo(q, E)}
  BY <1>1, Zenon
<1> QED BY <1>6, <1>7

\* What is entered in the sostenuto table are keys.
LEMMA EnterIs ==
  ASSUME NEW p \in Pools, NEW table \in Seq(OrNone(Keys)), NEW s \in Seq(Desc)
  PROVE  /\ Enter(p, table, s) \in Seq(OrNone(Keys))
         /\ Elements(table) \subseteq Elements(Enter(p, table, s))
<1> DEFINE T == {u \in Seq(OrNone(Keys)) : Elements(table) \subseteq Elements(u)}
           n == Len(s)
           G == [at : Nat, table : T]
           x == [at |-> 1, table |-> table]
           Key(w) == p.key[s[w.at]]
           No(w) == \/ Len(w.table) = TableSize \/ p.state[s[w.at]] # "down"
                    \/ Key(w) \in Elements(w.table)
           turn(w) ==
             LET key == p.key[s[w.at]] IN
             [at |-> w.at + 1,
              table |-> IF \/ Len(w.table) = TableSize \/ p.state[s[w.at]] # "down"
                           \/ key \in Elements(w.table)
                        THEN w.table ELSE Append(w.table, key)]
           Laps(f) == [k \in 0 .. n |-> IF k = 0 THEN x ELSE turn(f[k - 1])]
           after == CHOOSE f : f = Laps(f)
           r == [w \in G |-> IF w.at \in 1 .. n THEN turn(w) ELSE w]
<1>0. n \in Nat /\ p.key \in [Desc -> OrNone(Keys)]
  BY DEF Pools, DescTo
<1>1. x \in G
  OBVIOUS
<1>2. ASSUME NEW w \in G, w.at \in 1 .. n
      PROVE  turn(w) \in G /\ turn(w).at = w.at + 1
  <2> DEFINE i == w.at
             t == w.table
             t2 == IF No(w) THEN t ELSE Append(t, Key(w))
  <2>1. s[i] \in Desc /\ t \in T /\ i \in Nat
    BY <1>2
  <2>2. Key(w) \in OrNone(Keys)
    BY <2>1, <1>0
  <2>3. turn(w) = [at |-> i + 1, table |-> t2]
    OBVIOUS
  <2> HIDE DEF No, Key, turn
  <2>4. Append(t, Key(w)) \in T
    <3> DEFINE k == Key(w)
               u == Append(t, k)
    <3>1. k \in OrNone(Keys) /\ t \in Seq(OrNone(Keys))
      BY <2>1, <2>2
    <3> HIDE DEF k, t
    <3>2. u \in Seq(OrNone(Keys)) /\ Len(u) = Len(t) + 1 /\ \A j \in 1 .. Len(t) : u[j] = t[j]
      BY <3>1
    <3>3. Elements(t) \subseteq Elements(u)
      <4>1. Len(t) \in Nat
        BY <3>1
      <4> HIDE DEF u
      <4> QED BY <4>1, <3>2 DEF Elements
    <3>4. Elements(table) \subseteq Elements(t)
      BY <2>1 DEF t
    <3> HIDE DEF u
    <3>5. u \in T
      BY <3>2, <3>3, <3>4
    <3> QED BY <3>5 DEF u, k, t
  <2>5. t2 \in T
    BY <2>1, <2>4
  <2> HIDE DEF t2, T
  <2> QED BY <2>1, <2>3, <2>5
<1>3. r \in [G -> G]
  <2> HIDE DEF turn, G
  <2> QED BY <1>2
<1>4. PICK f \in [0 .. n -> G] : f[0] = x /\ \A k \in 1 .. n : f[k] = r[f[k - 1]]
  <2> HIDE DEF r, G, x
  <2>1. HasLaps(G, x, r, n)
    BY <1>0, <1>1, <1>3, Iteration
  <2> QED BY <2>1 DEF HasLaps
<1>5. \A w \in G : w.at \in 1 .. n => r[w] = turn(w)
  <2> HIDE DEF turn, G
  <2> QED OBVIOUS
<1>6. x.at = 1
  OBVIOUS
<1> HIDE DEF G, x, turn, r, n
<1>7. \A k \in 0 .. n : f[k].at = k + 1
  <2> DEFINE S == {k \in 0 .. n : f[k].at = k + 1}
  <2>1. 0 \in S
    BY <1>0, <1>4, <1>6
  <2>2. ASSUME NEW k \in 1 .. n, k - 1 \in S PROVE k \in S
    <3> DEFINE m == k - 1
    <3>1. m \in 0 .. n /\ m + 1 = k /\ f[m].at = m + 1 /\ k \in 0 .. n
      BY <2>2, <1>0
    <3>2. f[k] = r[f[m]]
      BY <1>4
    <3> HIDE DEF m
    <3>3. f[m] \in G /\ f[m].at \in 1 .. n
      BY <3>1, <1>4
    <3>4. f[k] = turn(f[m])
      BY <3>2, <3>3, <1>5
    <3>5. f[k].at = f[m].at + 1
      BY <3>3, <3>4, <1>2
    <3> QED BY <3>1, <3>5
  <2> HIDE DEF S
  <2>3. \A k \in 0 .. n : k \in S
    BY <2>1, <2>2, <1>0, UpTo
  <2> QED BY <2>3 DEF S
<1>8. \A k \in 1 .. n : f[k] = turn(f[k - 1])
  <2> SUFFICES ASSUME NEW k \in 1 .. n PROVE f[k] = turn(f[k - 1])
    OBVIOUS
  <2> DEFINE m == k - 1
  <2>1. m \in 0 .. n /\ m + 1 = k /\ f[k] = r[f[m]]
    BY <1>0, <1>4
  <2> HIDE DEF m
  <2>2. f[m] \in G /\ f[m].at = k
    BY <2>1, <1>4, <1>7
  <2>3. f[k] = turn(f[m])
    BY <2>1, <2>2, <1>5
  <2> QED BY <2>3 DEF m
<1>9. f = Laps(f)
  BY <1>0, <1>4, <1>8
<1>10. after = Laps(after)
  BY <1>9
<1>11. Enter(p, table, s) = after[n].table
  BY DEF Enter, Loop, x, turn, n
<1> HIDE DEF after
<1>12. after[0] = x /\ \A k \in 1 .. n : after[k] = turn(after[k - 1])
  BY <1>0, <1>10
<1>13. \A k \in 0 .. n : after[k] = f[k]
  <2> DEFINE S == {k \in 0 .. n : after[k] = f[k]}
  <2>1. 0 \in S
    BY <1>0, <1>4, <1>12
  <2>2. \A k \in 1 .. n : k - 1 \in S => k \in S
    BY <1>0, <1>8, <1>12
  <2> HIDE DEF S
  <2>3. \A k \in 0 .. n : k \in S
    BY <2>1, <2>2, <1>0, UpTo
  <2> QED BY <2>3 DEF S
<1>14. after[n] \in G
  BY <1>0, <1>4, <1>13
<1> QED BY <1>11, <1>14 DEF G

\* Sostenuto pedal down.
LEMMA PoolScanEKept ==
  ASSUME NEW p, Good(p), NEW part \in Part
  PROVE  Kept(PoolScanE(p, part), p)
<1> DEFINE t == Enter(p, p.table[part], Chain(p, part))
<1>1. p \in Pools /\ Chain(p, part) \in Seq(Desc)
  BY ChainNotes DEF Good, Sound
<1>2. p.table[part] \in Seq(OrNone(Keys))
  BY <1>1 DEF Pools, PartTo
<1>3. t \in Seq(OrNone(Keys))
  BY <1>1, <1>2, EnterIs
<1>4. PoolScanE(p, part) = [p EXCEPT !.table[part] = t]
  BY DEF PoolScanE
<1> HIDE DEF t
<1> QED BY <1>1, <1>3, <1>4, TableKept

\* Sostenuto pedal up.
LEMMA PoolKillFKept ==
  ASSUME NEW p \in Pools, NEW part \in Part
  PROVE  Kept(PoolKillF(p, part), p)
<1> DEFINE s   == Chain(p, part)
           up(i) == p.state[s[i]] = "up"
           in(i) == InTable(p, part, p.key[s[i]])
           full == Len(p.table[part]) = TableSize
           seen == {i \in 1 .. Len(s) :
                      ~(full /\ \E j \in 1 .. i : up(j) /\ ~in(j))}
           go   == {s[i] : i \in {k \in seen : up(k) /\ in(k) /\ ~p.held[s[k]]}}
           q == LetGo(p, go)
           r == [q EXCEPT !.table[part] = <<>>]
<1>1. PoolKillF(p, part) = r
  BY DEF PoolKillF
<1> HIDE DEF go
<1>2. Kept(q, p)
  BY LetGoKept
<1> HIDE DEF q
<1>3. <<>> \in Seq(OrNone(Keys))
  OBVIOUS
<1>4. q \in Pools
  BY <1>2 DEF Kept
<1>5. Kept(r, q)
  <2> DEFINE z == <<>>
  <2>1. r = [q EXCEPT !.table[part] = z] /\ z \in Seq(OrNone(Keys))
    BY <1>3
  <2> HIDE DEF r, z
  <2> QED BY <2>1, <1>4, TableKept
<1> HIDE DEF r
<1> QED BY <1>1, <1>2, <1>5, KeptTwice

\* A part is reset.
LEMMA State16Kept ==
  ASSUME NEW p \in Pools, NEW part \in Part
  PROVE  Kept(State16(p, part), p)
<1>1. Kept(ScanB(p, part), p)
  BY ScanBKept
<1>2. Kept(PoolKillF(ScanB(p, part), part), ScanB(p, part))
  BY <1>1, PoolKillFKept DEF Kept
<1> QED BY <1>1, <1>2, KeptTwice DEF State16

-----------------------------------------------------------------------------
(* A sounding voice is the tail of its note, or the voice next to it. *)
LEMMA VoiceIs ==
  ASSUME NEW p, Good(p), NEW v \in Sounding(p)
  PROVE  /\ p.desc[v] \in Desc /\ p.part[v] \in Part /\ InNote(p, p.desc[v], p.part[v])
         /\ v = p.tail[p.desc[v]] \/ v = p.toHead[p.tail[p.desc[v]]]
<1>1. PICK f, e, c, home : Sound(p, f, e, c, home, {})
  BY DEF Good
<1>2. v \in Voice \ Elements(f) /\ VoicesOK(p, Elements(f), home, {})
  BY <1>1, ListsAre DEF Sounding, IdleSet, Sound
<1> DEFINE d == p.desc[v]
           t == p.tail[d]
           h == p.head[d]
<1>3. d \in Desc /\ home[d] # None /\ v \in {t, h}
  BY <1>2 DEF VoicesOK
<1>4. /\ h # t => p.toHead[t] = h
      /\ p.part[t] = home[d] /\ p.part[h] = home[d]
  BY <1>2, <1>3 DEF VoicesOK
<1>5. home[d] \in Part
  BY <1>1, <1>3, NoteIs
<1>6. p.part[v] = home[d]
  BY <1>3, <1>4
<1>7. InNote(p, d, home[d])
  BY <1>1, <1>3, <1>5, NoteIs
<1> QED BY <1>3, <1>4, <1>5, <1>6, <1>7

\* The voices a note has are its tail and the one next to it, both sounding.
LEMMA NoteVoices ==
  ASSUME NEW p, Good(p), NEW part \in Part, NEW d, InNote(p, d, part)
  PROVE  /\ p.tail[d] \in Sounding(p) /\ p.desc[p.tail[d]] = d /\ p.part[p.tail[d]] = part
         /\ \/ p.toHead[p.tail[d]] = None
            \/ /\ p.toHead[p.tail[d]] \in Sounding(p) /\ p.desc[p.toHead[p.tail[d]]] = d
               /\ p.part[p.toHead[p.tail[d]]] = part
<1>1. PICK f, e, c, home : Sound(p, f, e, c, home, {})
  BY DEF Good
<1> DEFINE t == p.tail[d]
           h == p.head[d]
<1>2. d \in Desc /\ home[d] = part /\ home[d] # None
  BY <1>1, NoteIs, NoneIsNone DEF InNote
<1>3. VoicesOK(p, Elements(f), home, {}) /\ Sounding(p) = Voice \ Elements(f)
  BY <1>1, ListsAre DEF Sounding, IdleSet, Sound
<1>4. /\ t \in Voice \ Elements(f) /\ h \in Voice \ Elements(f)
      /\ p.toHead[h] = None /\ (h # t => p.toHead[t] = h)
      /\ p.desc[t] = d /\ p.desc[h] = d
      /\ p.part[t] = home[d] /\ p.part[h] = home[d]
  BY <1>2, <1>3 DEF VoicesOK
<1> QED BY <1>2, <1>3, <1>4

(* Letting notes go marks their voices and no others. *)
LEMMA LetGoIs ==
  ASSUME NEW p, Good(p), NEW D, \A d \in D : \E part \in Part : InNote(p, d, part),
         NEW q, q = LetGo(p, D)
  PROVE  /\ \A v \in Sounding(p) : q.gateOff[v] = (p.gateOff[v] \/ p.desc[v] \in D)
         /\ \A v \in IdleSet(p) : v \in Voice => q.gateOff[v] = p.gateOff[v]
         /\ q.part = p.part /\ q.desc = p.desc /\ q.key = p.key /\ q.state = p.state
         /\ SameGates(q, p) /\ IdleSet(q) = IdleSet(p)
<1> DEFINE tails == {p.tail[d] : d \in D}
           off == tails \cup ({p.toHead[u] : u \in tails} \ {None})
           g == [v \in Voice |-> p.gateOff[v] \/ v \in off]
<1>1. p \in Pools
  BY DEF Good, Sound
<1>2. q = [p EXCEPT !.gateOff = g]
  BY DEF LetGo
<1>3. \A u \in off : u \in Sounding(p) /\ p.desc[u] \in D
  <2>1. ASSUME NEW d \in D
        PROVE  /\ p.tail[d] \in Sounding(p) /\ p.desc[p.tail[d]] = d
               /\ p.toHead[p.tail[d]] # None =>
                    p.toHead[p.tail[d]] \in Sounding(p) /\ p.desc[p.toHead[p.tail[d]]] = d
    <3>1. PICK part \in Part : InNote(p, d, part)
      OBVIOUS
    <3> QED BY <3>1, NoteVoices
  <2> QED BY <2>1
<1>4. \A v \in Sounding(p) : p.desc[v] \in D => v \in off
  <2> SUFFICES ASSUME NEW v \in Sounding(p), p.desc[v] \in D PROVE v \in off
    OBVIOUS
  <2>1. v = p.tail[p.desc[v]] \/ v = p.toHead[p.tail[p.desc[v]]]
    BY VoiceIs
  <2>2. v # None
    BY NoneIsNone DEF Sounding
  <2> QED BY <2>1, <2>2
<1> HIDE DEF off
<1>5. /\ q.gateOff = g /\ q.part = p.part /\ q.desc = p.desc /\ q.key = p.key /\ q.state = p.state
      /\ SameGates(q, p) /\ SameIdle(q, p)
  BY <1>1, <1>2 DEF Pools, SameGates, SameIdle
<1>6. IdleSet(q) = IdleSet(p)
  BY <1>5 DEF IdleSet, FreeList, SameIdle
<1>7. \A v \in Voice : q.gateOff[v] = (p.gateOff[v] \/ v \in off)
  BY <1>5
<1>10. \A v \in Voice : v \in Sounding(p) <=> v \notin IdleSet(p)
  BY DEF Sounding
<1> HIDE DEF g
<1>8. ASSUME NEW v \in Sounding(p) PROVE q.gateOff[v] = (p.gateOff[v] \/ p.desc[v] \in D)
  BY <1>3, <1>4, <1>7, Zenon DEF Sounding
<1>9. ASSUME NEW v \in IdleSet(p), v \in Voice PROVE q.gateOff[v] = p.gateOff[v]
  <2>1. v \notin off
    BY <1>3, <1>9, <1>10
  <2>2. p.gateOff[v] \in BOOLEAN
    BY <1>1, <1>9 DEF Pools, VoiceTo
  <2>3. q.gateOff[v] = (p.gateOff[v] \/ v \in off)
    BY <1>7, <1>9
  <2> QED BY <2>1, <2>2, <2>3
<1> QED BY <1>5, <1>6, <1>8, <1>9

(* Key off: the marks of one note change. *)
OnlyNote(q, p, d) ==
  /\ q.part = p.part /\ q.desc = p.desc /\ q.key = p.key /\ q.hold = p.hold
  /\ q.table = p.table /\ IdleSet(q) = IdleSet(p) /\ q.state[d] = "up"
  /\ \A x \in Desc \ {d} : q.state[x] = p.state[x] /\ q.held[x] = p.held[x]
  /\ \A v \in IdleSet(p) : q.gateOff[v] = p.gateOff[v]
  /\ \A v \in Sounding(p) : p.desc[v] # d => q.gateOff[v] = p.gateOff[v]

\* A note whose key goes up is held by a pedal or the table, or is let go.
LEMMA OnlyNoteMarked ==
  ASSUME NEW p, Good(p), Marked(p), NEW part \in Part, NEW d, InNote(p, d, part),
         p.state[d] = "down", NEW q, OnlyNote(q, p, d),
         \/ q.held[d] /\ p.hold[part]
         \/ ~q.held[d] /\ InTable(p, part, p.key[d])
         \/ ~q.held[d] /\ \A v \in Sounding(p) : p.desc[v] = d => q.gateOff[v]
  PROVE  Marked(q)
<1>1. ASSUME NEW v \in IdleSet(q) PROVE ~q.gateOff[v]
  BY DEF OnlyNote, Marked
<1>2. ASSUME NEW v \in Sounding(q) PROVE MarkOK(q, v)
  <2>1. v \in Sounding(p) /\ MarkOK(p, v)
    BY DEF OnlyNote, Sounding, Marked
  <2>2. /\ p.desc[v] \in Desc /\ InNote(p, p.desc[v], p.part[v])
        /\ q.desc[v] = p.desc[v] /\ q.part[v] = p.part[v]
    BY <2>1, VoiceIs DEF OnlyNote
  <2>3. CASE p.desc[v] = d
    <3>1. q.desc[v] = d /\ q.part[v] = part
      BY <2>2, <2>3 DEF InNote
    <3>2. /\ q.state[d] = "up" /\ q.hold = p.hold /\ q.key = p.key
          /\ InTable(q, part, q.key[d]) <=> InTable(p, part, p.key[d])
      BY DEF OnlyNote, InTable
    <3>3. CASE q.held[d] /\ p.hold[part]
      BY <3>1, <3>2, <3>3, Zenon DEF MarkOK
    <3>4. CASE ~q.held[d] /\ InTable(p, part, p.key[d])
      BY <3>1, <3>2, <3>4, Zenon DEF MarkOK
    <3>5. CASE ~q.held[d] /\ \A u \in Sounding(p) : p.desc[u] = d => q.gateOff[u]
      <4>1. q.gateOff[v]
        BY <3>5, <2>1, <2>3
      <4> QED BY <3>1, <3>2, <3>5, <4>1, Zenon DEF MarkOK
    <3> QED BY <3>3, <3>4, <3>5
  <2>4. CASE p.desc[v] # d
    <3> DEFINE x == p.desc[v]
               y == p.part[v]
    <3>1. /\ x \in Desc \ {d} /\ q.desc[v] = x /\ q.part[v] = y
          /\ q.hold = p.hold /\ q.key = p.key
      BY <2>2, <2>4 DEF OnlyNote
    <3>2. q.state[x] = p.state[x] /\ q.held[x] = p.held[x] /\ q.gateOff[v] = p.gateOff[v]
      BY <3>1, <2>1, <2>4 DEF OnlyNote
    <3>3. InTable(q, y, q.key[x]) <=> InTable(p, y, p.key[x])
      BY DEF OnlyNote, InTable
    <3> HIDE DEF x, y
    <3> QED BY <2>1, <3>1, <3>2, <3>3, Zenon DEF MarkOK, x, y
  <2> QED BY <2>3, <2>4
<1> QED BY <1>1, <1>2 DEF Marked

\* So does KillA,
LEMMA KillAMarked ==
  ASSUME NEW p, Good(p), Marked(p), NEW part \in Part, NEW d, InNote(p, d, part),
         p.state[d] = "down"
  PROVE  Marked(KillA(p, d, part))
<1> DEFINE q == [p EXCEPT !.state[d] = "up"]
           r == [q EXCEPT !.held[d] = TRUE]
           g == LetGo(q, {d})
<1>1. p \in Pools /\ d \in Desc /\ p.state[d] # "free"
  BY DEF Good, Sound, InNote
<1>2. Kept(q, p)
  BY <1>1, UpKept
<1>3. Good(q) /\ q \in Pools
  BY <1>2, KeptGood DEF Kept
<1>4. ~p.held[d]
  <2>1. p.tail[d] \in Sounding(p) /\ p.desc[p.tail[d]] = d
    BY NoteVoices
  <2> QED BY <2>1 DEF Marked, MarkOK
<1>5. /\ q.part = p.part /\ q.desc = p.desc /\ q.key = p.key /\ q.hold = p.hold
      /\ q.table = p.table /\ q.held = p.held /\ q.gateOff = p.gateOff /\ q.tail = p.tail
      /\ q.state = [p.state EXCEPT ![d] = "up"]
  BY <1>1 DEF Pools
<1>6. IdleSet(q) = IdleSet(p)
  BY <1>2 DEF Kept, Near, SameIdle, IdleSet, FreeList
<1>7. KillA(p, d, part) = IF p.hold[part] THEN r
                          ELSE IF InTable(p, part, p.key[d]) THEN q ELSE g
  BY DEF KillA
<1> HIDE DEF q
<1>8. q.state[d] = "up" /\ \A x \in Desc \ {d} : q.state[x] = p.state[x]
  <2> DEFINE z == p.state
  <2>1. z \in [Desc -> {"free", "down", "up"}]
    BY <1>1 DEF Pools, DescTo
  <2>2. q.state = [z EXCEPT ![d] = "up"]
    BY <1>5
  <2> HIDE DEF z
  <2>3. q.state[d] = "up" /\ \A x \in Desc \ {d} : q.state[x] = z[x]
    BY <2>1, <2>2, <1>1
  <2> QED BY <2>3 DEF z
<1>9. OnlyNote(q, p, d)
  BY <1>5, <1>6, <1>8 DEF OnlyNote
<1>10. CASE p.hold[part]
  <2>1. /\ r.part = q.part /\ r.desc = q.desc /\ r.key = q.key /\ r.hold = q.hold
        /\ r.table = q.table /\ r.gateOff = q.gateOff /\ r.state = q.state
        /\ r.held = [q.held EXCEPT ![d] = TRUE] /\ SameIdle(r, q)
    BY <1>3 DEF Pools, SameIdle
  <2> HIDE DEF r
  <2>2. IdleSet(r) = IdleSet(q)
    BY <2>1 DEF SameIdle, IdleSet, FreeList
  <2>3. r.held[d] /\ \A x \in Desc \ {d} : r.held[x] = q.held[x]
    <3> DEFINE z == q.held
    <3>1. z \in [Desc -> BOOLEAN]
      BY <1>3 DEF Pools, DescTo
    <3>2. r.held = [z EXCEPT ![d] = TRUE]
      BY <2>1
    <3> HIDE DEF z
    <3>3. r.held[d] = TRUE /\ \A x \in Desc \ {d} : r.held[x] = z[x]
      BY <3>1, <3>2, <1>1
    <3> QED BY <3>3 DEF z
  <2>4. OnlyNote(r, p, d)
    BY <2>1, <2>2, <2>3, <1>5, <1>9 DEF OnlyNote
  <2>5. Marked(r)
    BY <2>3, <2>4, <1>10, OnlyNoteMarked
  <2> QED BY <2>5, <1>7, <1>10 DEF r
<1>11. CASE ~p.hold[part] /\ InTable(p, part, p.key[d])
  <2>1. Marked(q)
    BY <1>4, <1>5, <1>9, <1>11, OnlyNoteMarked
  <2> QED BY <2>1, <1>7, <1>11
<1>12. CASE ~p.hold[part] /\ ~InTable(p, part, p.key[d])
  <2>1. InNote(q, d, part)
    BY <1>5 DEF InNote
  <2>2. /\ \A v \in Sounding(q) : g.gateOff[v] = (q.gateOff[v] \/ q.desc[v] \in {d})
        /\ \A v \in IdleSet(q) : v \in Voice => g.gateOff[v] = q.gateOff[v]
        /\ g.part = q.part /\ g.desc = q.desc /\ g.key = q.key /\ g.state = q.state
        /\ SameGates(g, q) /\ IdleSet(g) = IdleSet(q)
    BY <2>1, <1>3, LetGoIs
  <2> HIDE DEF g
  <2>3. Sounding(q) = Sounding(p) /\ IdleSet(p) \subseteq Voice
    <3>1. PICK f, e, c, home : Sound(p, f, e, c, home, {})
      BY DEF Good
    <3>2. IdleSet(p) = Elements(f) /\ f \in Seq(Voice)
      BY <3>1, ListsAre DEF IdleSet, Sound, IdleOK
    <3> QED BY <3>2, <1>6 DEF Sounding, Elements
  <2>4. \A v \in Sounding(p) : p.desc[v] = d => g.gateOff[v]
    BY <2>2, <2>3, <1>5
  <2>5. \A v \in Sounding(p) : p.desc[v] # d => g.gateOff[v] = p.gateOff[v]
    <3> SUFFICES ASSUME NEW v \in Sounding(p), p.desc[v] # d PROVE g.gateOff[v] = p.gateOff[v]
      OBVIOUS
    <3>1. g.gateOff[v] = (p.gateOff[v] \/ p.desc[v] \in {d})
      BY <2>2, <2>3, <1>5
    <3>2. p.gateOff[v] \in BOOLEAN
      BY <1>1 DEF Pools, VoiceTo, Sounding
    <3> QED BY <3>1, <3>2
  <2>6. OnlyNote(g, p, d) /\ ~g.held[d]
    BY <2>2, <2>3, <2>5, <1>4, <1>5, <1>6, <1>9 DEF OnlyNote, SameGates
  <2>7. Marked(g)
    BY <2>4, <2>6, OnlyNoteMarked
  <2> QED BY <2>7, <1>7, <1>12 DEF g
<1> QED BY <1>10, <1>11, <1>12

\* and key off does it to a note of the part.
LEMMA ScanAMarked ==
  ASSUME NEW p, Good(p), Marked(p), NEW part \in Part, NEW key
  PROVE  Marked(ScanA(p, part, key))
<1> DEFINE s == Chain(p, part)
           on == {i \in 1 .. Len(s) : /\ p.state[s[i]] = "down"
                                      /\ p.key[s[i]] = key /\ p.canOff[s[i]]}
           i == Least(on)
<1>1. \A j \in 1 .. Len(s) : InNote(p, s[j], part)
  BY ChainNotes
<1>2. ScanA(p, part, key) = IF on = {} THEN p ELSE KillA(p, s[i], part)
  BY DEF ScanA
<1>3. on \in SUBSET Nat
  OBVIOUS
<1> HIDE DEF s
<1>4. CASE on # {}
  <2>1. i \in on
    <3> HIDE DEF on
    <3> QED BY <1>3, <1>4, LeastIs
  <2>2. i \in 1 .. Len(s) /\ p.state[s[i]] = "down"
    <3> HIDE DEF i
    <3> QED BY <2>1, Zenon
  <2> HIDE DEF i, on
  <2>3. Marked(KillA(p, s[i], part))
    BY <2>2, <1>1, KillAMarked
  <2> QED BY <2>3, <1>2, <1>4
<1> HIDE DEF on, i
<1> QED BY <1>2, <1>4

(* The pedals: the marks of the notes of one part change. *)
LEMMA ChainSet ==
  ASSUME NEW p, Good(p), NEW part \in Part
  PROVE  /\ Chain(p, part) \in Seq(Desc)
         /\ \A d : d \in Elements(Chain(p, part)) <=> InNote(p, d, part)
         /\ \A d : InNote(p, d, part) => p.key[d] \in Keys /\ p.state[d] # "free"
<1>1. PICK f, e, c, home : Sound(p, f, e, c, home, {})
  BY DEF Good
<1> DEFINE s == Chain(p, part)
<1>2. s \in Seq(Desc) /\ Elements(s) = {d \in Desc : home[d] = part}
  BY <1>1, ChainIs
<1>3. \A d \in Desc : InNote(p, d, part) <=> home[d] = part
  BY <1>1, NoteIs
<1>4. \A d : InNote(p, d, part) => d \in Desc
  BY DEF InNote
<1>5. ASSUME NEW d \in Desc, home[d] = part PROVE p.key[d] \in Keys /\ p.state[d] # "free"
  <2>1. home[d] # None
    BY <1>5, NoneIsNone
  <2> QED BY <2>1, <1>1 DEF Sound, NotesOK
<1> HIDE DEF s
<1>6. \A d : d \in Elements(s) <=> InNote(p, d, part)
  BY <1>2, <1>3, <1>4
<1> QED BY <1>2, <1>4, <1>5, <1>3, <1>6 DEF s

\* What is idle is a voice.
LEMMA IdleVoices ==
  ASSUME NEW p, Good(p)
  PROVE  IdleSet(p) \subseteq Voice
<1>1. PICK f, e, c, home : Sound(p, f, e, c, home, {})
  BY DEF Good
<1>2. IdleSet(p) = Elements(f) /\ f \in Seq(Voice)
  BY <1>1, ListsAre DEF IdleSet, Sound, IdleOK
<1> QED BY <1>2 DEF Elements

\* A pedal that goes down lets no note go and forgets none.
LEMMA HoldDownMarked ==
  ASSUME NEW p, Good(p), Marked(p), NEW part \in Part, NEW q, q = [p EXCEPT !.hold[part] = TRUE]
  PROVE  Marked(q)
<1>1. p \in Pools
  BY DEF Good, Sound
<1>2. /\ q.part = p.part /\ q.desc = p.desc /\ q.key = p.key /\ q.state = p.state
      /\ q.table = p.table /\ q.held = p.held /\ q.gateOff = p.gateOff /\ SameIdle(q, p)
      /\ q.hold = [p.hold EXCEPT ![part] = TRUE]
  BY <1>1 DEF Pools, SameIdle
<1>3. IdleSet(q) = IdleSet(p) /\ Sounding(q) = Sounding(p)
  BY <1>2 DEF SameIdle, IdleSet, FreeList, Sounding
<1>4. ASSUME NEW x \in Part, p.hold[x] PROVE q.hold[x]
  <2> DEFINE z == p.hold
  <2>1. z \in [Part -> BOOLEAN] /\ q.hold = [z EXCEPT ![part] = TRUE] /\ z[x]
    BY <1>1, <1>2, <1>4 DEF Pools, PartTo
  <2> HIDE DEF z
  <2> QED BY <2>1
<1>5. ASSUME NEW v \in Sounding(p) PROVE MarkOK(q, v)
  <2>1. MarkOK(p, v) /\ p.part[v] \in Part
    BY VoiceIs DEF Marked
  <2>2. \A x, k : InTable(q, x, k) <=> InTable(p, x, k)
    BY <1>2 DEF InTable
  <2>3. p.hold[p.part[v]] => q.hold[p.part[v]]
    BY <2>1, <1>4
  <2> QED BY <2>1, <2>2, <2>3, <1>2, Zenon DEF MarkOK
<1> QED BY <1>2, <1>3, <1>5 DEF Marked

\* When the hold pedal goes up, each note it alone held is let go.
LEMMA ScanBMarked ==
  ASSUME NEW p, Good(p), Marked(p), NEW part \in Part
  PROVE  Marked(ScanB(p, part))
<1> DEFINE D == Elements(Chain(p, part))
           h == [d \in Desc |-> p.held[d] /\ d \notin D]
           q == [p EXCEPT !.hold[part] = FALSE,
                          !.held = [d \in Desc |-> @[d] /\ d \notin D]]
           E == {d \in {d \in D : p.held[d]} : ~InTable(p, part, p.key[d])}
           g == LetGo(q, E)
<1>1. ScanB(p, part) = IF ~p.hold[part] THEN p ELSE g
  BY DEF ScanB
<1>2. \A d : d \in D <=> InNote(p, d, part)
  BY ChainSet
<1>3. p \in Pools
  BY DEF Good, Sound
<1> HIDE DEF D
<1>4. q = [p EXCEPT !.hold[part] = FALSE, !.held = h] /\ h \in DescTo(BOOLEAN)
  BY <1>3 DEF Pools, DescTo
<1>5. \A d : d \in E => InNote(p, d, part) /\ p.held[d] /\ ~InTable(p, part, p.key[d])
  BY <1>2
<1>6. \A d : InNote(p, d, part) /\ p.held[d] => d \in E \/ InTable(p, part, p.key[d])
  BY <1>2
<1>7. \A d \in Desc : h[d] = (p.held[d] /\ d \notin D)
  OBVIOUS
<1> HIDE DEF h, q, E
<1>8. /\ q.part = p.part /\ q.desc = p.desc /\ q.key = p.key /\ q.state = p.state
      /\ q.table = p.table /\ q.gateOff = p.gateOff /\ q.tail = p.tail
      /\ q.held = h /\ q.hold = [p.hold EXCEPT ![part] = FALSE]
  BY <1>3, <1>4 DEF Pools
<1>9. Kept(q, p)
  BY <1>3, <1>4, HoldKept
<1>10. Good(q) /\ IdleSet(q) = IdleSet(p) /\ Sounding(q) = Sounding(p)
  BY <1>9, KeptGood DEF Kept, Near, SameIdle, IdleSet, FreeList, Sounding
<1>11. /\ \A v \in Sounding(q) : g.gateOff[v] = (q.gateOff[v] \/ q.desc[v] \in E)
       /\ \A v \in IdleSet(q) : v \in Voice => g.gateOff[v] = q.gateOff[v]
       /\ g.part = q.part /\ g.desc = q.desc /\ g.key = q.key /\ g.state = q.state
       /\ SameGates(g, q) /\ IdleSet(g) = IdleSet(q)
  <2>1. \A d \in E : \E y \in Part : InNote(q, d, y)
    BY <1>5, <1>8 DEF InNote
  <2> QED BY <2>1, <1>10, LetGoIs
<1> HIDE DEF g
<1>12. \A x \in Part \ {part} : g.hold[x] = p.hold[x]
  <2> DEFINE z == p.hold
  <2>1. z \in [Part -> BOOLEAN] /\ g.hold = [z EXCEPT ![part] = FALSE]
    BY <1>3, <1>8, <1>11 DEF Pools, PartTo, SameGates
  <2> HIDE DEF z
  <2>2. \A x \in Part \ {part} : g.hold[x] = z[x]
    BY <2>1
  <2> QED BY <2>2 DEF z
<1>13. ASSUME NEW v \in Sounding(g) PROVE MarkOK(g, v)
  <2> DEFINE x == p.desc[v]
             y == p.part[v]
  <2>1. v \in Sounding(p) /\ MarkOK(p, v)
    BY <1>10, <1>11 DEF Sounding, Marked
  <2>2. x \in Desc /\ y \in Part /\ InNote(p, x, y)
    BY <2>1, VoiceIs
  <2>3. /\ g.desc[v] = x /\ g.part[v] = y /\ g.state[x] = p.state[x] /\ g.key = p.key
        /\ g.held[x] = (p.held[x] /\ x \notin D)
        /\ g.gateOff[v] = (p.gateOff[v] \/ x \in E)
        /\ InTable(g, y, g.key[x]) <=> InTable(p, y, p.key[x])
    BY <2>1, <2>2, <1>7, <1>8, <1>10, <1>11 DEF SameGates, InTable
  <2>4. \/ p.state[x] = "down" /\ ~p.gateOff[v] /\ ~p.held[x]
        \/ /\ p.state[x] = "up" /\ (p.held[x] => p.hold[y])
           /\ p.gateOff[v] \/ p.held[x] \/ InTable(p, y, p.key[x])
    BY <2>1 DEF MarkOK
  <2>5. x \in E => p.held[x] /\ y = part
    BY <1>5, <2>2 DEF InNote
  <2>6. CASE y = part
    <3>1. x \in D
      BY <1>2, <2>2, <2>6
    <3>2. p.held[x] => x \in E \/ InTable(p, y, p.key[x])
      BY <1>6, <2>2, <2>6
    <3> HIDE DEF x, y
    <3> QED BY <2>3, <2>4, <2>5, <3>1, <3>2, Zenon DEF MarkOK
  <2>7. CASE y # part
    <3>1. x \notin D /\ x \notin E
      BY <1>2, <2>2, <2>5, <2>7 DEF InNote
    <3>2. g.hold[y] = p.hold[y]
      BY <1>12, <2>2, <2>7
    <3> HIDE DEF x, y
    <3> QED BY <2>3, <2>4, <3>1, <3>2, Zenon DEF MarkOK
  <2> QED BY <2>6, <2>7
<1>14. ASSUME NEW v \in IdleSet(g) PROVE ~g.gateOff[v]
  BY <1>8, <1>10, <1>11, IdleVoices DEF Marked
<1>15. Marked(g)
  BY <1>13, <1>14 DEF Marked
<1> QED BY <1>1, <1>15

\* The sostenuto table grows when its pedal goes down.
LEMMA PoolScanEMarked ==
  ASSUME NEW p, Good(p), Marked(p), NEW part \in Part
  PROVE  Marked(PoolScanE(p, part))
<1> DEFINE s == Enter(p, p.table[part], Chain(p, part))
           q == [p EXCEPT !.table[part] = s]
<1>1. p \in Pools /\ Chain(p, part) \in Seq(Desc)
  BY ChainNotes DEF Good, Sound
<1>2. p.table[part] \in Seq(OrNone(Keys))
  BY <1>1 DEF Pools, PartTo
<1>3. Elements(p.table[part]) \subseteq Elements(s)
  BY <1>1, <1>2, EnterIs
<1>4. PoolScanE(p, part) = q
  BY DEF PoolScanE
<1> HIDE DEF s
<1>5. /\ q.part = p.part /\ q.desc = p.desc /\ q.key = p.key /\ q.state = p.state
      /\ q.hold = p.hold /\ q.held = p.held /\ q.gateOff = p.gateOff /\ SameIdle(q, p)
      /\ q.table = [p.table EXCEPT ![part] = s]
  BY <1>1 DEF Pools, SameIdle
<1> HIDE DEF q
<1>6. IdleSet(q) = IdleSet(p) /\ Sounding(q) = Sounding(p)
  BY <1>5 DEF SameIdle, IdleSet, FreeList, Sounding
<1>7. ASSUME NEW x \in Part, NEW k, InTable(p, x, k) PROVE InTable(q, x, k)
  <2> DEFINE z == p.table
  <2>1. z \in [Part -> Seq(OrNone(Keys))] /\ q.table = [z EXCEPT ![part] = s]
    BY <1>1, <1>5 DEF Pools, PartTo
  <2>2. k \in Elements(z[x]) /\ Elements(z[part]) \subseteq Elements(s)
    BY <1>3, <1>7 DEF InTable
  <2> HIDE DEF z
  <2>3. q.table[x] = IF x = part THEN s ELSE z[x]
    BY <2>1
  <2>4. k \in Elements(q.table[x])
    BY <2>2, <2>3
  <2> QED BY <2>4 DEF InTable
<1>8. ASSUME NEW v \in Sounding(p) PROVE MarkOK(q, v)
  <2>1. MarkOK(p, v) /\ p.part[v] \in Part
    BY VoiceIs DEF Marked
  <2>2. InTable(p, p.part[v], p.key[p.desc[v]]) => InTable(q, p.part[v], p.key[p.desc[v]])
    BY <2>1, <1>7
  <2> QED BY <2>1, <2>2, <1>5, Zenon DEF MarkOK
<1> QED BY <1>4, <1>5, <1>6, <1>8 DEF Marked

(* No sostenuto table is full and lacks a key that is played. *)
Roomy(p) == \A part \in Part : \/ Len(p.table[part]) # TableSize
                               \/ Keys \subseteq Elements(p.table[part])

\* When the pedal goes up, each note the table alone held is let go. A full
\* table without the key of a note would end the scan there.
LEMMA PoolKillFMarked ==
  ASSUME NEW p, Good(p), Marked(p), NEW part \in Part,
         Len(p.table[part]) # TableSize \/ Keys \subseteq Elements(p.table[part])
  PROVE  Marked(PoolKillF(p, part))
<1> DEFINE s   == Chain(p, part)
           up(i) == p.state[s[i]] = "up"
           in(i) == InTable(p, part, p.key[s[i]])
           full == Len(p.table[part]) = TableSize
           seen == {i \in 1 .. Len(s) :
                      ~(full /\ \E j \in 1 .. i : up(j) /\ ~in(j))}
           go   == {s[i] : i \in {k \in seen : up(k) /\ in(k) /\ ~p.held[s[k]]}}
           g == LetGo(p, go)
           none == <<>>
           r == [g EXCEPT !.table[part] = none]
<1>1. PoolKillF(p, part) = r
  BY DEF PoolKillF
<1>2. p \in Pools
  BY DEF Good, Sound
<1>3. /\ s \in Seq(Desc) /\ \A d : d \in Elements(s) <=> InNote(p, d, part)
      /\ \A d : InNote(p, d, part) => p.key[d] \in Keys
  BY ChainSet
<1>4. \A i \in 1 .. Len(s) : InNote(p, s[i], part)
  <2> HIDE DEF s
  <2> QED BY <1>3 DEF Elements
<1>5. \A i \in 1 .. Len(s) : i \in seen
  <2>1. full => \A j \in 1 .. Len(s) : in(j)
    <3> HIDE DEF s
    <3> QED BY <1>3, <1>4 DEF InTable
  <2>2. \A i \in 1 .. Len(s) : \A j \in 1 .. i : j \in 1 .. Len(s)
    <3>1. Len(s) \in Nat
      BY <1>3
    <3> HIDE DEF s
    <3> QED BY <3>1
  <2> HIDE DEF s, in, up, full
  <2> QED BY <2>1, <2>2
<1>6. \A d : d \in go => InNote(p, d, part) /\ p.state[d] = "up" /\ ~p.held[d]
  BY <1>4
<1>7. ASSUME NEW d, InNote(p, d, part), p.state[d] = "up", InTable(p, part, p.key[d]), ~p.held[d]
      PROVE  d \in go
  <2>1. d \in Elements(s)
    BY <1>3, <1>7
  <2> HIDE DEF seen
  <2>2. PICK i \in 1 .. Len(s) : d = s[i]
    BY <2>1 DEF Elements
  <2>3. i \in seen /\ up(i) /\ in(i) /\ ~p.held[s[i]]
    BY <2>2, <1>5, <1>7
  <2> HIDE DEF up, in, s
  <2> QED BY <2>2, <2>3
<1> HIDE DEF go
<1>8. /\ \A v \in Sounding(p) : g.gateOff[v] = (p.gateOff[v] \/ p.desc[v] \in go)
      /\ \A v \in IdleSet(p) : v \in Voice => g.gateOff[v] = p.gateOff[v]
      /\ g.part = p.part /\ g.desc = p.desc /\ g.key = p.key /\ g.state = p.state
      /\ SameGates(g, p) /\ IdleSet(g) = IdleSet(p)
  <2>1. \A d \in go : \E x \in Part : InNote(p, d, x)
    BY <1>6
  <2> QED BY <2>1, LetGoIs
<1>9. g \in Pools
  BY <1>2, LetGoKept DEF Kept
<1> HIDE DEF g, none
<1>10. /\ r.part = g.part /\ r.desc = g.desc /\ r.key = g.key /\ r.state = g.state
       /\ r.hold = g.hold /\ r.held = g.held /\ r.gateOff = g.gateOff /\ SameIdle(r, g)
       /\ r.table = [g.table EXCEPT ![part] = none]
  BY <1>9 DEF Pools, SameIdle
<1> HIDE DEF r
<1>11. IdleSet(r) = IdleSet(p) /\ Sounding(r) = Sounding(p)
  BY <1>8, <1>10 DEF SameIdle, IdleSet, FreeList, Sounding
<1>12. \A x \in Part \ {part} : \A k : InTable(r, x, k) <=> InTable(p, x, k)
  <2> DEFINE z == p.table
  <2>1. z \in [Part -> Seq(OrNone(Keys))] /\ r.table = [z EXCEPT ![part] = none]
    BY <1>2, <1>8, <1>10 DEF Pools, PartTo, SameGates
  <2> HIDE DEF z
  <2>2. \A x \in Part \ {part} : r.table[x] = z[x]
    BY <2>1
  <2> QED BY <2>2 DEF z, InTable
<1>13. ASSUME NEW v \in Sounding(p) PROVE MarkOK(r, v)
  <2> DEFINE x == p.desc[v]
             y == p.part[v]
  <2>1. MarkOK(p, v)
    BY DEF Marked
  <2>2. x \in Desc /\ y \in Part /\ InNote(p, x, y)
    BY VoiceIs
  <2>3. /\ r.desc[v] = x /\ r.part[v] = y /\ r.state[x] = p.state[x] /\ r.key = p.key
        /\ r.held[x] = p.held[x] /\ r.hold[y] = p.hold[y]
        /\ r.gateOff[v] = (p.gateOff[v] \/ x \in go)
    BY <1>8, <1>10 DEF SameGates
  <2>4. \/ p.state[x] = "down" /\ ~p.gateOff[v] /\ ~p.held[x]
        \/ /\ p.state[x] = "up" /\ (p.held[x] => p.hold[y])
           /\ p.gateOff[v] \/ p.held[x] \/ InTable(p, y, p.key[x])
    BY <2>1 DEF MarkOK
  <2>5. x \in go => p.state[x] = "up" /\ y = part
    BY <1>6, <2>2 DEF InNote
  <2>6. CASE y = part
    <3>1. p.state[x] = "up" /\ InTable(p, y, p.key[x]) /\ ~p.held[x] => x \in go
      BY <1>7, <2>2, <2>6
    <3>2. "up" # "down"
      OBVIOUS
    <3> HIDE DEF x, y
    <3> QED BY <2>3, <2>4, <2>5, <3>1, <3>2, Zenon DEF MarkOK
  <2>7. CASE y # part
    <3>1. x \notin go
      BY <2>5, <2>7
    <3>2. InTable(r, y, r.key[x]) <=> InTable(p, y, p.key[x])
      BY <1>12, <2>2, <2>3, <2>7
    <3> HIDE DEF x, y
    <3> QED BY <2>3, <2>4, <3>1, <3>2, Zenon DEF MarkOK
  <2> QED BY <2>6, <2>7
<1>14. ASSUME NEW v \in IdleSet(r) PROVE ~r.gateOff[v]
  BY <1>8, <1>10, <1>11, IdleVoices DEF Marked
<1> QED BY <1>1, <1>11, <1>13, <1>14 DEF Marked

\* A reset lifts both pedals.
LEMMA State16Marked ==
  ASSUME NEW p, Good(p), Marked(p), NEW part \in Part, Roomy(p)
  PROVE  Marked(State16(p, part))
<1> DEFINE q == ScanB(p, part)
<1>1. p \in Pools
  BY DEF Good, Sound
<1>2. Kept(q, p) /\ Marked(q)
  BY <1>1, ScanBKept, ScanBMarked
<1>3. Good(q)
  BY <1>2, KeptGood
<1>4. q.table = p.table
  BY <1>1 DEF ScanB, LetGo, Pools
<1> HIDE DEF q
<1>5. Len(q.table[part]) # TableSize \/ Keys \subseteq Elements(q.table[part])
  BY <1>4 DEF Roomy
<1>6. Marked(PoolKillF(q, part))
  BY <1>2, <1>3, <1>5, PoolKillFMarked
<1> QED BY <1>6 DEF State16, q

-----------------------------------------------------------------------------
(* pool_init. *)

\* pool_init writes every field within its range.
LEMMA InitPools == PoolInit \in Pools
<1>0. Voices \in Nat \ {0} /\ None = -1
  BY Sizes DEF None
<1>1. IdleOrder \in VoiceTo(OrNone(Voice)) /\ DescOrder \in DescTo(OrNone(Desc))
  <2>1. \A v \in Voice : v - 1 \in OrNone(Voice)
    BY <1>0 DEF OrNone, Voice
  <2>2. \A d \in Desc : d # Voices - 1 => d + 1 \in OrNone(Desc)
    BY <1>0 DEF OrNone, Desc
  <2>3. None \in OrNone(Desc)
    BY DEF OrNone
  <2> QED BY <2>1, <2>2, <2>3 DEF IdleOrder, DescOrder, VoiceTo, DescTo
<1>2. /\ AllVoices(TRUE) \in VoiceTo(BOOLEAN) /\ AllVoices(FALSE) \in VoiceTo(BOOLEAN)
      /\ AllVoices(None) \in VoiceTo(OrNone(Voice))
      /\ AllVoices(None) \in VoiceTo(OrNone(Part))
      /\ AllVoices(None) \in VoiceTo(OrNone(Desc))
  BY DEF AllVoices, VoiceTo, OrNone
<1>3. /\ AllDescs(None) \in DescTo(OrNone(Voice))
      /\ AllDescs(None) \in DescTo(OrNone(Desc))
      /\ AllDescs(None) \in DescTo(OrNone(Keys))
      /\ AllDescs("free") \in DescTo({"free", "down", "up"})
      /\ AllDescs(FALSE) \in DescTo(BOOLEAN)
  BY DEF AllDescs, DescTo, OrNone
<1>4. /\ AllParts(None) \in PartTo(OrNone(Desc)) /\ AllParts(0) \in PartTo(Int)
      /\ AllParts(FALSE) \in PartTo(BOOLEAN)
      /\ EmptyTables \in PartTo(Seq(OrNone(Keys)))
  BY DEF AllParts, EmptyTables, PartTo, OrNone
<1>5. /\ Voices - 1 \in OrNone(Voice) /\ 0 \in OrNone(Voice) /\ 0 \in OrNone(Desc)
      /\ Voices \in Int /\ 0 \in Int /\ <<>> \in Seq(Voice)
  BY <1>0 DEF OrNone, Voice, Desc
<1> DEFINE a == Voices - 1
           o == IdleOrder
           t == AllVoices(TRUE)
           g == AllVoices(FALSE)
           vn == AllVoices(None)
           dn == AllDescs(None)
           do == DescOrder
           s == AllDescs("free")
           h == AllDescs(FALSE)
           pd == AllParts(None)
           pn == AllParts(0)
           pb == AllParts(FALSE)
           pt == EmptyTables
           y == <<>>
<1>6. PoolInit =
         [freeHead |-> a, freeTail |-> 0, freeCount |-> Voices, freeNext |-> o,
          free |-> t, part |-> vn, desc |-> vn, gateOff |-> g, toTail |-> vn,
          toHead |-> vn, head |-> dn, tail |-> dn, descFree |-> 0, descPrev |-> dn,
          descNext |-> do, state |-> s, held |-> h, again |-> h, key |-> dn,
          canOff |-> h, first |-> pd, last |-> pd, count |-> pn, current |-> pd,
          hold |-> pb, table |-> pt, short |-> 0, fresh |-> y]
  BY DEF PoolInit
<1>7. /\ a \in OrNone(Voice) /\ o \in VoiceTo(OrNone(Voice)) /\ t \in VoiceTo(BOOLEAN)
      /\ g \in VoiceTo(BOOLEAN) /\ y \in Seq(Voice)
  BY <1>1, <1>2, <1>5
<1>8. vn \in VoiceTo(OrNone(Part)) /\ vn \in VoiceTo(OrNone(Desc))
      /\ vn \in VoiceTo(OrNone(Voice))
  BY <1>2
<1>9. /\ dn \in DescTo(OrNone(Voice)) /\ dn \in DescTo(OrNone(Desc))
      /\ dn \in DescTo(OrNone(Keys)) /\ do \in DescTo(OrNone(Desc))
      /\ s \in DescTo({"free", "down", "up"}) /\ h \in DescTo(BOOLEAN)
  BY <1>1, <1>3
<1>10. /\ pd \in PartTo(OrNone(Desc)) /\ pn \in PartTo(Int) /\ pb \in PartTo(BOOLEAN)
       /\ pt \in PartTo(Seq(OrNone(Keys)))
  BY <1>4
<1> HIDE DEF a, o, t, g, vn, dn, do, s, h, pd, pn, pb, pt, y
<1>11. [freeHead |-> a, freeTail |-> 0, freeCount |-> Voices, freeNext |-> o,
        free |-> t, part |-> vn, desc |-> vn, gateOff |-> g, toTail |-> vn,
        toHead |-> vn, head |-> dn, tail |-> dn, descFree |-> 0, descPrev |-> dn,
        descNext |-> do, state |-> s, held |-> h, again |-> h, key |-> dn,
        canOff |-> h, first |-> pd, last |-> pd, count |-> pn, current |-> pd,
        hold |-> pb, table |-> pt, short |-> 0, fresh |-> y] \in Pools
  BY <1>5, <1>7, <1>8, <1>9, <1>10, Zenon DEF Pools
<1> QED BY <1>6, <1>11, Zenon

\* After it every voice is idle, every descriptor free and no part has a note.
LEMMA InitGood == Good(PoolInit) /\ PoolInit.fresh = <<>>
<1> DEFINE p == PoolInit
           f == [i \in 1 .. Voices |-> Voices - i]
           e == [i \in 1 .. Voices |-> i - 1]
           c == [part \in Part |-> <<>>]
           home == [d \in Desc |-> None]
<1>0. Voices \in Nat \ {0} /\ None = -1 /\ None \notin Part /\ None \notin Voice
  BY Sizes, NoneIsNone DEF None
<1>1. p \in Pools /\ p.fresh = <<>>
  BY InitPools DEF PoolInit
<1>2. /\ p.freeHead = Voices - 1 /\ p.freeTail = 0 /\ p.freeCount = Voices
      /\ p.freeNext = IdleOrder /\ p.free = AllVoices(TRUE) /\ p.short = 0
  BY DEF PoolInit
<1>3. /\ p.head = AllDescs(None) /\ p.tail = AllDescs(None)
      /\ p.descFree = 0 /\ p.descNext = DescOrder /\ p.state = AllDescs("free")
  BY DEF PoolInit
<1>4. /\ p.first = AllParts(None) /\ p.last = AllParts(None)
      /\ p.count = AllParts(0) /\ p.current = AllParts(None)
  BY DEF PoolInit
<1>5. /\ f \in Seq(Voice) /\ Len(f) = Voices
      /\ \A i \in 1 .. Voices : f[i] = Voices - i
  BY <1>0 DEF Voice
<1>6. /\ e \in Seq(Desc) /\ Len(e) = Voices
      /\ \A i \in 1 .. Voices : e[i] = i - 1
  BY <1>0 DEF Desc
<1>7. home \in [Desc -> OrNone(Part)] /\ \A d \in Desc : home[d] = None
  BY DEF OrNone
<1>8. \A part \in Part : c[part] = <<>>
  OBVIOUS
<1> HIDE DEF f, e, c, home, p
<1>9. Elements(f) = Voice
  <2>1. ASSUME NEW v \in Voice PROVE v \in Elements(f)
    <3> DEFINE i == Voices - v
    <3>1. i \in 1 .. Voices /\ Voices - i = v
      BY <1>0 DEF Voice
    <3> HIDE DEF i
    <3> QED BY <3>1, <1>5 DEF Elements
  <2>2. Elements(f) \subseteq Voice
    BY <1>5 DEF Elements
  <2> QED BY <2>1, <2>2
<1>10. Elements(e) = Desc
  <2>1. ASSUME NEW d \in Desc PROVE d \in Elements(e)
    <3> DEFINE i == d + 1
    <3>1. i \in 1 .. Voices /\ i - 1 = d
      BY <1>0 DEF Desc
    <3> HIDE DEF i
    <3> QED BY <3>1, <1>6 DEF Elements
  <2>2. Elements(e) \subseteq Desc
    BY <1>6 DEF Elements
  <2> QED BY <2>1, <2>2
<1>11. f # <<>> /\ e # <<>>
  BY <1>0, <1>5, <1>6, NoCells
<1>12. IdleOK(p, f)
  <2>1. Distinct(f)
    BY <1>0, <1>5 DEF Distinct
  <2>2. p.freeHead = f[1] /\ p.freeTail = f[Len(f)]
    BY <1>0, <1>2, <1>5
  <2>3. ASSUME NEW i \in 1 .. Len(f)
        PROVE  p.freeNext[f[i]] = IF i = Len(f) THEN None ELSE f[i + 1]
    <3>1. f[i] = Voices - i /\ f[i] \in Voice
      BY <1>5
    <3>2. p.freeNext[f[i]] = Voices - i - 1
      BY <3>1, <1>2 DEF IdleOrder
    <3>3. i # Len(f) => f[i + 1] = Voices - (i + 1)
      BY <1>0, <1>5
    <3>4. i = Len(f) => Voices - i - 1 = None
      BY <1>0, <1>5
    <3>5. Voices - i - 1 = Voices - (i + 1)
      BY <1>0, <1>5
    <3> QED BY <3>2, <3>3, <3>4, <3>5
  <2> QED BY <2>1, <2>2, <2>3, <1>2, <1>5, <1>11 DEF IdleOK, ListOf
<1>13. VoicesOK(p, Elements(f), home, {})
  <2>1. \A d \in Desc : p.tail[d] = None /\ p.head[d] = None
    BY <1>3 DEF AllDescs
  <2> QED BY <2>1, <1>7, <1>9 DEF VoicesOK
<1>14. ListOf(e, p.descNext, p.descFree)
  <2>1. Distinct(e)
    BY <1>0, <1>6 DEF Distinct
  <2>2. p.descFree = e[1]
    BY <1>0, <1>3, <1>6
  <2>3. ASSUME NEW i \in 1 .. Len(e)
        PROVE  p.descNext[e[i]] = IF i = Len(e) THEN None ELSE e[i + 1]
    <3>1. e[i] = i - 1 /\ e[i] \in Desc
      BY <1>6
    <3>2. p.descNext[e[i]] = IF i - 1 = Voices - 1 THEN None ELSE (i - 1) + 1
      BY <3>1, <1>3 DEF DescOrder
    <3>3. i # Len(e) => e[i + 1] = (i + 1) - 1
      BY <1>0, <1>6
    <3>4. (i - 1 = Voices - 1 <=> i = Len(e)) /\ (i - 1) + 1 = (i + 1) - 1
      BY <1>0, <1>6
    <3> QED BY <3>2, <3>3, <3>4
  <2> QED BY <2>1, <2>2, <2>3, <1>11 DEF ListOf
<1>15. NotesOK(p, e, c, home)
  <2>1. Elements(e) = {d \in Desc : home[d] = None}
    BY <1>7, <1>10
  <2>2. ASSUME NEW part \in Part
        PROVE  /\ c[part] \in Seq(Desc) /\ ChainOK(p, c[part], part)
               /\ Elements(c[part]) = {d \in Desc : home[d] = part}
    <3>1. p.first[part] = None /\ p.last[part] = None
      BY <1>4 DEF AllParts
    <3>2. <<>> \in Seq(Desc) /\ ChainOK(p, <<>>, part)
      BY <3>1 DEF ChainOK, ListOf, Distinct
    <3>3. Elements(<<>>) = {d \in Desc : home[d] = part}
      BY <1>0, <1>7 DEF Elements
    <3> QED BY <3>2, <3>3, <1>8
  <2>3. \A d \in Desc : p.state[d] = "free"
    BY <1>3 DEF AllDescs
  <2> QED BY <2>1, <2>2, <2>3, <1>6, <1>7, <1>14 DEF NotesOK
<1>16. CountOK(p, Elements(f))
  <2>1. \A part \in Part : {v \in Voice \ Elements(f) : p.part[v] = part} = {}
    BY <1>9
  <2>2. \A part \in Part : p.count[part] = 0
    BY <1>4 DEF AllParts
  <2> QED BY <2>1, <2>2, FS_EmptySet DEF CountOK
<1>17. BitsOK(p, Elements(f))
  <2>1. Elements(p.fresh) = {} /\ Distinct(p.fresh)
    BY <1>1 DEF Elements, Distinct
  <2>2. {v \in Voice : p.free[v]} = Voice
    <3>1. \A v \in Voice : p.free[v] = TRUE
      BY <1>2 DEF AllVoices
    <3> QED BY <3>1, Zenon
  <2> QED BY <2>1, <2>2, <1>9 DEF BitsOK
<1>18. CurrentOK(p, home)
  <2>1. \A part \in Part : p.current[part] = None
    BY <1>4 DEF AllParts
  <2> QED BY <2>1, <1>0, <1>7 DEF CurrentOK, HasCurrent, LowestCurrent
<1>19. Sound(p, f, e, c, home, {})
  BY <1>1, <1>2, <1>7, <1>12, <1>13, <1>15, <1>16, <1>17, <1>18 DEF Sound
<1> QED BY <1>1, <1>19 DEF Good, p

-----------------------------------------------------------------------------
(* The invariant. *)

\* The invariant: sound, and at most two voices wait to be filled.
IInv == Good(pool) /\ Len(pool.fresh) <= 2

\* A pool with no note to fill.
LEMMA IdleIsGN ==
  ASSUME NEW p, Good(p), p.fresh = <<>>, NEW P
  PROVE  p \in GN(0, p, P)
<1>1. PICK f, e, c, home : Sound(p, f, e, c, home, {})
  BY DEF Good
<1>2. p \in Pools /\ p.freeCount \in Nat /\ p.short \in 0 .. 2
  BY <1>1 DEF Sound, IdleOK
<1>3. p.freeCount + p.short >= 0
  BY <1>2
<1>4. Moved(p, p)
  <2>1. FreeList(p) = f /\ f \in Seq(Voice)
    BY <1>1, ListsAre DEF Sound, IdleOK
  <2> QED BY <2>1, MovedSelf
<1> QED BY <1>2, <1>3, <1>4, EasedSelf DEF GN

\* The steps that move marks keep the invariant.
LEMMA KeptStays ==
  ASSUME Good(pool), pool.fresh = <<>>, Kept(pool', pool)
  PROVE  IInv' /\ Handled(pool', pool)
<1>1. Good(pool') /\ pool'.fresh = <<>> /\ Handled(pool', pool)
  BY KeptGood, MovedHandled
<1>2. Len(<<>>) <= 2
  OBVIOUS
<1> QED BY <1>1, <1>2 DEF IInv

\* It holds at first.
LEMMA Initially == Init => IInv
<1>1. Len(<<>>) <= 2
  OBVIOUS
<1> QED BY <1>1, InitGood DEF Init, IInv

\* Each step keeps it, one handler after the other, and is a step of the queue.
LEMMA Steps == IInv /\ Next => IInv' /\ Handled(pool', pool)
<1> SUFFICES ASSUME IInv, Next PROVE IInv' /\ Handled(pool', pool)
  OBVIOUS
<1>0. Len(<<>>) <= 2
  OBVIOUS
<1>1. Good(pool) /\ pool \in Pools /\ Len(pool.fresh) \in Nat /\ Len(pool.fresh) <= 2
  <2>1. Good(pool) /\ pool \in Pools /\ Len(pool.fresh) <= 2
    BY DEF IInv, Good, Sound
  <2>2. pool.fresh \in Seq(Voice)
    BY <2>1 DEF Pools
  <2> QED BY <2>1, <2>2
<1>2. ASSUME NEW part \in Part, NEW key \in Keys, NEW n \in 1 .. 2,
             NEW level \in LevelsFor(n), NoteOn(part, key, n, level)
      PROVE  IInv' /\ Handled(pool', pool)
  <2> DEFINE canOff == part \notin OneShot
  <2>1. pool \in GN(0, pool, Part) /\ pool' = NoteCmd(pool, part, key, canOff, n, level)
    BY <1>1, <1>2, IdleIsGN DEF NoteOn, Idle
  <2>2. canOff \in BOOLEAN
    OBVIOUS
  <2> HIDE DEF canOff
  <2>3. /\ NoteDone(NoteCmd(pool, part, key, canOff, n, level))
        /\ Handled(NoteCmd(pool, part, key, canOff, n, level), pool)
    BY <2>1, <2>2, NoteCmdKeeps
  <2> QED BY <2>1, <2>3 DEF NoteDone, IInv
<1>3. ASSUME NEW mute \in BOOLEAN, Fill(mute)
      PROVE  IInv' /\ Handled(pool', pool)
  <2>1. pool.fresh # <<>> /\ pool' = NoteFill(pool, Head(pool.fresh), mute)
    BY <1>3 DEF Fill, Idle
  <2>2. FillDone(pool', pool)
    BY <2>1, <1>1, NoteFillKeeps
  <2>3. Good(pool') /\ Len(pool'.fresh) < Len(pool.fresh) /\ Handled(pool', pool)
    BY <2>2, MovedHandled DEF FillDone
  <2>4. pool'.fresh \in Seq(Voice)
    BY <2>3 DEF Good, Sound, Pools
  <2>5. Len(pool'.fresh) <= 2
    BY <2>3, <2>4, <1>1
  <2> QED BY <2>3, <2>5 DEF IInv
<1>4. ASSUME NEW part \in Part, NEW key \in Keys, KeyOff(part, key)
      PROVE  IInv' /\ Handled(pool', pool)
  <2>1. pool.fresh = <<>> /\ pool' = ScanA(pool, part, key)
    BY <1>4 DEF KeyOff, Handler, Idle
  <2> QED BY <2>1, <1>1, ScanAKept, KeptStays
<1>5. ASSUME NEW part \in Part,
             \/ HoldDown(part) \/ HoldUp(part) \/ SostenutoDown(part)
             \/ SostenutoUp(part) \/ ResetPart(part)
      PROVE  IInv' /\ Handled(pool', pool)
  <2>1. pool.fresh = <<>>
    BY <1>5 DEF HoldDown, HoldUp, SostenutoDown, SostenutoUp, ResetPart, Handler, Idle
  <2>2. CASE HoldDown(part)
    <3>1. pool' = [pool EXCEPT !.hold[part] = TRUE]
      BY <2>2 DEF HoldDown, Handler
    <3> QED BY <3>1, <2>1, <1>1, HoldDownKept, KeptStays
  <2>3. CASE HoldUp(part)
    BY <2>1, <2>3, <1>1, ScanBKept, KeptStays DEF HoldUp, Handler
  <2>4. CASE SostenutoDown(part)
    BY <2>1, <2>4, <1>1, PoolScanEKept, KeptStays DEF SostenutoDown, Handler
  <2>5. CASE SostenutoUp(part)
    BY <2>1, <2>5, <1>1, PoolKillFKept, KeptStays DEF SostenutoUp, Handler
  <2>6. CASE ResetPart(part)
    BY <2>1, <2>6, <1>1, State16Kept, KeptStays DEF ResetPart, Handler
  <2> QED BY <1>5, <2>2, <2>3, <2>4, <2>5, <2>6
<1>6. ASSUME NEW v \in Voice, NEW level \in {0, Fresh}, VoiceEnd(v, level)
      PROVE  IInv' /\ Handled(pool', pool)
  <2>1. pool.fresh = <<>> /\ pool' = FreeVoice(pool, v, level)
    BY <1>6 DEF VoiceEnd, Handler, Idle
  <2>2. Good(pool') /\ pool'.fresh = <<>> /\ Handled(pool', pool)
    BY <2>1, <1>1, VoiceEndKeeps, MovedHandled
  <2> QED BY <2>2, <1>0 DEF IInv
<1>8. Pedalled \subseteq Part
  BY VoiceNotesAssumption
<1> QED BY <1>2, <1>3, <1>4, <1>5, <1>6, <1>8 DEF Next

\* So each step keeps it.
LEMMA Inductive == IInv /\ [Next]_pool => IInv'
<1>1. IInv /\ UNCHANGED pool => IInv'
  BY DEF IInv
<1> QED BY <1>1, Steps

\* So it holds always.
LEMMA Invariant == Spec => []IInv
  BY Initially, Inductive, PTL DEF Spec

-----------------------------------------------------------------------------
\* The ranges of the model are among those of the proof.
LEMMA TypeIs == IInv => TypeOK
<1> SUFFICES ASSUME IInv PROVE TypeOK
  OBVIOUS
<1>1. PICK f, e, c, home : Sound(pool, f, e, c, home, {})
  BY DEF IInv, Good
<1>2. pool \in Pools /\ IdleOK(pool, f) /\ CountOK(pool, Elements(f)) /\ pool.short \in 0 .. 2
  BY <1>1 DEF Sound
<1>3. pool.freeCount \in 0 .. Voices
  <2>1. f \in Seq(Voice) /\ Distinct(f) /\ pool.freeCount = Len(f)
    BY <1>2 DEF IdleOK, ListOf
  <2> QED BY <2>1, ListLength
<1>4. pool.count \in [Part -> 0 .. Voices]
  <2>1. ASSUME NEW part \in Part PROVE pool.count[part] \in 0 .. Voices
    <3> DEFINE S == {v \in Voice \ Elements(f) : pool.part[v] = part}
    <3>1. pool.count[part] = Cardinality(S) /\ S \subseteq Voice
      BY <1>2 DEF CountOK
    <3> HIDE DEF S
    <3>2. IsFiniteSet(S) /\ Cardinality(S) <= Voices
      BY <3>1, VoiceSets, FS_Subset
    <3>3. Cardinality(S) \in Nat /\ Voices \in Nat
      BY <3>2, FS_CardinalityType, Sizes
    <3> QED BY <3>1, <3>2, <3>3
  <2>2. pool.count \in [Part -> Int]
    BY <1>2 DEF Pools, PartTo
  <2> QED BY <2>1, <2>2
<1>5. /\ pool.freeHead \in OrNone(Voice) /\ pool.freeTail \in OrNone(Voice)
      /\ pool.freeNext \in [Voice -> OrNone(Voice)]
      /\ pool.toTail \in [Voice -> OrNone(Voice)]
      /\ pool.toHead \in [Voice -> OrNone(Voice)]
      /\ pool.head \in [Desc -> OrNone(Voice)]
      /\ pool.tail \in [Desc -> OrNone(Voice)]
      /\ pool.descNext \in [Desc -> OrNone(Desc)]
      /\ pool.descPrev \in [Desc -> OrNone(Desc)]
      /\ pool.state \in [Desc -> {"free", "down", "up"}]
      /\ pool.current \in [Part -> OrNone(Desc)]
  BY <1>2 DEF Pools, VoiceTo, DescTo, PartTo
<1>6. /\ pool.gateOff \in [Voice -> BOOLEAN] /\ pool.free \in [Voice -> BOOLEAN]
      /\ pool.held \in [Desc -> BOOLEAN] /\ pool.again \in [Desc -> BOOLEAN]
      /\ pool.hold \in [Part -> BOOLEAN]
  BY <1>2 DEF Pools, VoiceTo, DescTo, PartTo
<1>7. Len(pool.fresh) <= 2
  BY DEF IInv
<1> QED BY <1>2, <1>3, <1>4, <1>5, <1>6, <1>7 DEF TypeOK

\* The voices of a note are its tail and its head, as a set.
LEMMA VoicesOn ==
  ASSUME NEW p, NEW f, NEW e, NEW c, NEW home, Sound(p, f, e, c, home, {}),
         NEW d \in Desc
  PROVE  Elements(VoicesOf(p, d)) = IF home[d] = None THEN {}
                                    ELSE {p.tail[d], p.head[d]}
<1> DEFINE t == p.tail[d]
           h == p.head[d]
<1>1. VoicesOf(p, d) = IF home[d] = None THEN <<>>
                       ELSE IF h = t THEN <<t>> ELSE <<t, h>>
  BY VoicesOfIs
<1> HIDE DEF t, h
<1>2. Elements(<<>>) = {}
  BY DEF Elements
<1>3. Elements(<<t>>) = {t}
  BY DEF Elements
<1>4. Elements(<<t, h>>) = {t, h}
  BY DEF Elements
<1> QED BY <1>1, <1>2, <1>3, <1>4 DEF t, h

\* The parts of PoolSound: the idle list,
LEMMA FreeListIs ==
  ASSUME NEW f, NEW e, NEW c, NEW home, Sound(pool, f, e, c, home, {})
  PROVE  FreeListSound
<1>1. FreeList(pool) = f /\ Distinct(f)
  BY ListsAre
<1>2. Len(f) = pool.freeCount /\ pool.freeTail = IF f = <<>> THEN None ELSE f[Len(f)]
  BY DEF Sound, IdleOK
<1>3. {v \in Voice : pool.free[v]} = Elements(f) \cup Elements(pool.fresh)
  BY DEF Sound, BitsOK
<1> QED BY <1>1, <1>2, <1>3 DEF FreeListSound

\* the voices of the notes,
LEMMA VoicesAre ==
  ASSUME NEW f, NEW e, NEW c, NEW home, Sound(pool, f, e, c, home, {})
  PROVE  VoicesSound
<1> DEFINE idle == Elements(FreeList(pool))
           I == Elements(f)
           on == [d \in Desc |-> Elements(VoicesOf(pool, d))]
<1>1. idle = I
  BY ListsAre
<1>2. \A d \in Desc : on[d] = IF home[d] = None THEN {} ELSE {pool.tail[d], pool.head[d]}
  BY VoicesOn
<1>3. VoicesOK(pool, I, home, {})
  BY DEF Sound
<1> HIDE DEF on, I, idle
<1>4. ASSUME NEW v \in Voice
      PROVE  {d \in Desc : v \in on[d]} = IF v \in idle THEN {} ELSE {pool.desc[v]}
  <2>1. \A d \in Desc : home[d] # None =>
          /\ pool.tail[d] \in Voice \ I /\ pool.head[d] \in Voice \ I
          /\ pool.desc[pool.tail[d]] = d /\ pool.desc[pool.head[d]] = d
    <3> SUFFICES ASSUME NEW d \in Desc, home[d] # None
                 PROVE  /\ pool.tail[d] \in Voice \ I /\ pool.head[d] \in Voice \ I
                        /\ pool.desc[pool.tail[d]] = d /\ pool.desc[pool.head[d]] = d
      OBVIOUS
    <3> QED BY <1>3 DEF VoicesOK
  <2>2. \A d \in Desc : v \in on[d] => v \notin I /\ pool.desc[v] = d
    <3> SUFFICES ASSUME NEW d \in Desc, v \in on[d] PROVE v \notin I /\ pool.desc[v] = d
      OBVIOUS
    <3> DEFINE t == pool.tail[d]
               h == pool.head[d]
    <3>1. home[d] # None /\ v \in {t, h}
      BY <1>2
    <3>2. t \notin I /\ h \notin I /\ pool.desc[t] = d /\ pool.desc[h] = d
      BY <3>1, <2>1
    <3> HIDE DEF t, h
    <3> QED BY <3>1, <3>2
  <2>3. v \notin I => /\ pool.desc[v] \in Desc /\ home[pool.desc[v]] # None
                      /\ v \in {pool.tail[pool.desc[v]], pool.head[pool.desc[v]]}
    BY <1>3 DEF VoicesOK
  <2>4. v \notin I => pool.desc[v] \in Desc /\ v \in on[pool.desc[v]]
    BY <2>3, <1>2
  <2> QED BY <2>2, <2>4, <1>1
<1> QED BY <1>4 DEF VoicesSound, idle, on

\* the descriptors,
LEMMA DescsAre ==
  ASSUME NEW f, NEW e, NEW c, NEW home, Sound(pool, f, e, c, home, {})
  PROVE  DescsSound
<1> DEFINE spare == Elements(DescList(pool))
           notes == [part \in Part |-> Elements(Chain(pool, part))]
<1>1. spare = {d \in Desc : home[d] = None}
  BY ListsAre
<1>2. \A part \in Part : notes[part] = {d \in Desc : home[d] = part}
  BY ChainIs
<1> HIDE DEF spare, notes
<1>3. ASSUME NEW d \in Desc
      PROVE  LET s == VoicesOf(pool, d)
                 P == {part \in Part : d \in notes[part]} IN
             IF d \in spare
             THEN pool.state[d] = "free" /\ s = <<>> /\ P = {}
             ELSE /\ pool.state[d] # "free" /\ Len(s) \in 1 .. 2
                  /\ P = {pool.part[s[1]]} /\ pool.head[d] = s[Len(s)]
                  /\ pool.toTail[s[1]] = None
                  /\ Len(s) = 2 => pool.toTail[s[2]] = s[1]
  <2> DEFINE s == VoicesOf(pool, d)
             P == {part \in Part : d \in notes[part]}
             t == pool.tail[d]
             h == pool.head[d]
  <2>1. s = IF home[d] = None THEN <<>> ELSE IF h = t THEN <<t>> ELSE <<t, h>>
    BY VoicesOfIs
  <2>2. P = {part \in Part : home[d] = part}
    BY <1>2
  <2>3. home[d] = None <=> pool.state[d] = "free"
    BY DEF Sound, NotesOK
  <2>4. home[d] # None => /\ pool.toTail[t] = None /\ pool.part[t] = home[d]
                          /\ h # t => pool.toTail[h] = t
    BY DEF Sound, VoicesOK
  <2>5. home[d] = None \/ home[d] \in Part
    BY DEF Sound, OrNone
  <2> HIDE DEF s, P, t, h
  <2>6. CASE home[d] = None
    <3>1. P = {}
      BY <2>2, <2>6, NoneIsNone
    <3> QED BY <3>1, <2>1, <2>3, <2>6, <1>1 DEF s, P
  <2>7. CASE home[d] # None
    <3>1. P = {home[d]} /\ d \notin spare
      BY <2>2, <2>5, <2>7, <1>1
    <3>2. CASE h = t
      <4>1. Len(s) = 1 /\ s[1] = t
        BY <3>2, <2>1, <2>7
      <4> QED BY <3>1, <3>2, <4>1, <2>3, <2>4, <2>7 DEF s, P, h
    <3>3. CASE h # t
      <4>1. Len(s) = 2 /\ s[1] = t /\ s[2] = h
        BY <3>3, <2>1, <2>7
      <4> QED BY <3>1, <3>3, <4>1, <2>3, <2>4, <2>7 DEF s, P, h
    <3> QED BY <3>2, <3>3
  <2> QED BY <2>6, <2>7
<1> QED BY <1>3 DEF DescsSound, spare, notes

\* and the chains.
LEMMA ChainsAre ==
  ASSUME NEW f, NEW e, NEW c, NEW home, Sound(pool, f, e, c, home, {})
  PROVE  ChainsSound
<1>1. Distinct(DescList(pool))
  BY ListsAre
<1>2. ASSUME NEW part \in Part
      PROVE  LET s == Chain(pool, part) IN
             /\ Distinct(s)
             /\ pool.last[part] = IF s = <<>> THEN None ELSE s[Len(s)]
             /\ \A i \in 1 .. Len(s) : pool.descPrev[s[i]] = IF i = 1 THEN None
                                                             ELSE s[i - 1]
             /\ pool.count[part] = Cardinality({v \in Voice :
                    \E i \in 1 .. Len(s) : v \in Elements(VoicesOf(pool, s[i]))})
  <2> DEFINE s == Chain(pool, part)
             I == Elements(f)
             S == {v \in Voice : \E i \in 1 .. Len(s) : v \in Elements(VoicesOf(pool, s[i]))}
             T == {v \in Voice \ I : pool.part[v] = part}
  <2>1. /\ s \in Seq(Desc) /\ ChainOK(pool, s, part)
        /\ Elements(s) = {d \in Desc : home[d] = part}
    BY ChainIs
  <2>2. pool.count[part] = Cardinality(T)
    BY DEF Sound, CountOK
  <2>3. VoicesOK(pool, I, home, {}) /\ None \notin Part
    BY NoneIsNone DEF Sound
  <2> HIDE DEF s, I
  <2>4. ASSUME NEW v \in S PROVE v \in T
    <3>1. PICK i \in 1 .. Len(s) : v \in Elements(VoicesOf(pool, s[i]))
      OBVIOUS
    <3> DEFINE d == s[i]
    <3>2. d \in Desc /\ home[d] = part /\ v \in Elements(VoicesOf(pool, d)) /\ v \in Voice
      BY <3>1, <2>1 DEF Elements
    <3> HIDE DEF d, S
    <3>3. v \in {pool.tail[d], pool.head[d]}
      BY <3>2, <2>3, VoicesOn
    <3>4. /\ pool.tail[d] \in Voice \ I /\ pool.head[d] \in Voice \ I
          /\ pool.part[pool.tail[d]] = part /\ pool.part[pool.head[d]] = part
      BY <3>2, <2>3 DEF VoicesOK
    <3> QED BY <3>2, <3>3, <3>4
  <2>5. ASSUME NEW v \in T PROVE v \in S
    <3> DEFINE d == pool.desc[v]
    <3>1. /\ d \in Desc /\ home[d] # None
          /\ v \in {pool.tail[d], pool.head[d]} /\ pool.part[v] = part
      BY <2>3 DEF VoicesOK
    <3> HIDE DEF d, T
    <3>2. pool.part[pool.tail[d]] = home[d] /\ pool.part[pool.head[d]] = home[d]
      BY <3>1, <2>3 DEF VoicesOK
    <3>3. home[d] = part
      BY <3>1, <3>2
    <3>4. PICK i \in 1 .. Len(s) : s[i] = d
      BY <3>1, <3>3, <2>1 DEF Elements
    <3>5. v \in Elements(VoicesOf(pool, d)) /\ v \in Voice
      BY <2>5, <3>1, VoicesOn DEF T
    <3> QED BY <3>4, <3>5
  <2>6. S = T
    BY <2>4, <2>5
  <2> HIDE DEF S, T
  <2>7. /\ Distinct(s)
        /\ pool.last[part] = IF s = <<>> THEN None ELSE s[Len(s)]
        /\ \A i \in 1 .. Len(s) : pool.descPrev[s[i]] = IF i = 1 THEN None ELSE s[i - 1]
    BY <2>1 DEF ChainOK, ListOf
  <2>8. pool.count[part] = Cardinality(S)
    BY <2>2, <2>6
  <2> QED BY <2>7, <2>8 DEF s, S
<1> QED BY <1>1, <1>2 DEF ChainsSound

\* Together they are PoolSound.
LEMMA PoolIsSound == IInv => PoolSound
<1> SUFFICES ASSUME IInv PROVE PoolSound
  OBVIOUS
<1>1. PICK f, e, c, home : Sound(pool, f, e, c, home, {})
  BY DEF IInv, Good
<1> QED BY <1>1, FreeListIs, VoicesAre, DescsAre, ChainsAre DEF PoolSound

\* With a key above all keys, the search of Elect finds one.
LEMMA CurrentIs == TopKey \notin Keys /\ IInv => LowestIsCurrent
<1> SUFFICES ASSUME TopKey \notin Keys, IInv PROVE LowestIsCurrent
  OBVIOUS
<1>1. PICK f, e, c, home : Sound(pool, f, e, c, home, {})
  BY DEF IInv, Good
<1>2. LowestCurrent(pool, home)
  BY <1>1 DEF Sound, CurrentOK
<1>3. \A part \in Part : Elements(Chain(pool, part)) = {d \in Desc : home[d] = part}
  BY <1>1, ChainIs
<1> QED BY <1>2, <1>3 DEF LowestCurrent, LowestIsCurrent

-----------------------------------------------------------------------------
(* The idle list is the queue of the allocator. *)

\* The elements of two lists put together, and when they are distinct.
LEMMA Joined ==
  ASSUME NEW S, NEW s \in Seq(S), NEW t \in Seq(S)
  PROVE  /\ Elements(s \o t) = Elements(s) \cup Elements(t)
         /\ Distinct(s \o t) <=> /\ Distinct(s) /\ Distinct(t)
                                 /\ Elements(s) \cap Elements(t) = {}
<1> DEFINE u == s \o t
           n == Len(s)
<1>1. /\ u \in Seq(S) /\ Len(u) = n + Len(t) /\ n \in Nat /\ Len(t) \in Nat
      /\ \A i \in 1 .. n + Len(t) : u[i] = IF i <= n THEN s[i] ELSE t[i - n]
  BY ConcatProperties
<1> HIDE DEF u
<1>2. \A i \in 1 .. n : i \in 1 .. Len(u) /\ u[i] = s[i]
  BY <1>1
<1>3. \A i \in 1 .. Len(t) : n + i \in 1 .. Len(u) /\ u[n + i] = t[i]
  <2> SUFFICES ASSUME NEW i \in 1 .. Len(t)
               PROVE  n + i \in 1 .. Len(u) /\ u[n + i] = t[i]
    OBVIOUS
  <2>1. n + i \in 1 .. Len(u) /\ ~(n + i <= n) /\ (n + i) - n = i
    BY <1>1
  <2> QED BY <2>1, <1>1
<1>4. \A i \in 1 .. Len(u) : i \in 1 .. n \/ (i - n \in 1 .. Len(t) /\ i = n + (i - n))
  BY <1>1
<1> HIDE DEF n
<1>5. Elements(u) = Elements(s) \cup Elements(t)
  <2>1. ASSUME NEW x \in Elements(u) PROVE x \in Elements(s) \cup Elements(t)
    <3>1. PICK i \in 1 .. Len(u) : x = u[i]
      BY DEF Elements
    <3>2. CASE i \in 1 .. n
      BY <3>1, <3>2, <1>2 DEF Elements, n
    <3>3. CASE i \notin 1 .. n
      <4>1. i - n \in 1 .. Len(t) /\ x = t[i - n]
        BY <3>1, <3>3, <1>3, <1>4
      <4> QED BY <4>1 DEF Elements
    <3> QED BY <3>2, <3>3
  <2>2. ASSUME NEW x \in Elements(s) PROVE x \in Elements(u)
    BY <1>2 DEF Elements, n
  <2>3. ASSUME NEW x \in Elements(t) PROVE x \in Elements(u)
    <3>1. PICK i \in 1 .. Len(t) : x = t[i]
      BY DEF Elements
    <3> QED BY <3>1, <1>3 DEF Elements
  <2> QED BY <2>1, <2>2, <2>3
<1>6. ASSUME Distinct(u)
      PROVE  Distinct(s) /\ Distinct(t) /\ Elements(s) \cap Elements(t) = {}
  <2>1. \A i, j \in 1 .. Len(u) : u[i] = u[j] => i = j
    BY <1>6 DEF Distinct
  <2>2. Distinct(s)
    BY <2>1, <1>2 DEF Distinct, n
  <2>3. Distinct(t)
    <3> SUFFICES ASSUME NEW i \in 1 .. Len(t), NEW j \in 1 .. Len(t), t[i] = t[j]
                 PROVE  i = j
      BY DEF Distinct
    <3>1. n + i = n + j
      BY <2>1, <1>3
    <3> QED BY <3>1, <1>1
  <2>4. ASSUME NEW x \in Elements(s) \cap Elements(t) PROVE FALSE
    <3>1. PICK i \in 1 .. n : x = s[i]
      BY DEF Elements, n
    <3>2. PICK j \in 1 .. Len(t) : x = t[j]
      BY DEF Elements
    <3>3. i = n + j
      BY <3>1, <3>2, <2>1, <1>2, <1>3
    <3> QED BY <3>3, <1>1
  <2> QED BY <2>2, <2>3, <2>4
<1>7. ASSUME Distinct(s), Distinct(t), Elements(s) \cap Elements(t) = {}
      PROVE  Distinct(u)
  <2> SUFFICES ASSUME NEW i \in 1 .. Len(u), NEW j \in 1 .. Len(u), u[i] = u[j]
               PROVE  i = j
    BY DEF Distinct
  <2>1. \A k \in 1 .. n : s[k] \in Elements(s)
    BY DEF Elements, n
  <2>2. \A k \in 1 .. Len(t) : t[k] \in Elements(t)
    BY DEF Elements
  <2>3. CASE i \in 1 .. n /\ j \in 1 .. n
    BY <2>3, <1>2, <1>7 DEF Distinct, n
  <2>4. CASE i \notin 1 .. n /\ j \notin 1 .. n
    <3>1. /\ i - n \in 1 .. Len(t) /\ j - n \in 1 .. Len(t)
          /\ u[i] = t[i - n] /\ u[j] = t[j - n]
      BY <2>4, <1>3, <1>4
    <3>2. i - n = j - n
      BY <3>1, <1>7 DEF Distinct
    <3> QED BY <3>2, <1>1
  <2>5. CASE i \in 1 .. n /\ j \notin 1 .. n
    <3>1. j - n \in 1 .. Len(t) /\ u[j] = t[j - n] /\ u[i] = s[i]
      BY <2>5, <1>2, <1>3, <1>4
    <3> QED BY <3>1, <2>1, <2>2, <2>5, <1>7
  <2>6. CASE i \notin 1 .. n /\ j \in 1 .. n
    <3>1. i - n \in 1 .. Len(t) /\ u[i] = t[i - n] /\ u[j] = s[j]
      BY <2>6, <1>2, <1>3, <1>4
    <3> QED BY <3>1, <2>1, <2>2, <2>6, <1>7
  <2> QED BY <2>3, <2>4, <2>5, <2>6
<1> QED BY <1>5, <1>6, <1>7 DEF u

\* Two lists put together can be parted again.
LEMMA Parted ==
  ASSUME NEW S, NEW s \in Seq(S), NEW t \in Seq(S)
  PROVE  /\ SubSeq(s \o t, 1, Len(s)) = s
         /\ SubSeq(s \o t, Len(s) + 1, Len(s \o t)) = t
<1> DEFINE u == s \o t
           n == Len(s)
           m == Len(u)
<1>1. /\ u \in Seq(S) /\ m = n + Len(t) /\ n \in Nat /\ Len(t) \in Nat
      /\ \A i \in 1 .. n + Len(t) : u[i] = IF i <= n THEN s[i] ELSE t[i - n]
  BY ConcatProperties
<1> HIDE DEF u
<1>2. \A i \in 1 .. m : u[i] \in S
  BY <1>1
<1> HIDE DEF n, m
<1>3. SubSeq(u, 1, n) = s
  <2> DEFINE w == SubSeq(u, 1, n)
  <2>1. /\ w \in Seq(S) /\ Len(w) = n /\ \A i \in 1 .. n : w[i] = u[i]
    <3>1. \A i \in 1 .. n : u[i] \in S /\ (1 + i) - 1 = i
      BY <1>1, <1>2
    <3>2. /\ w \in Seq(S) /\ Len(w) = (IF 1 <= n THEN (n - 1) + 1 ELSE 0)
          /\ \A i \in 1 .. (n - 1) + 1 : w[i] = u[(1 + i) - 1]
      BY <3>1, <1>1, SubSeqProperties
    <3>3. (n - 1) + 1 = n
      BY <1>1
    <3> HIDE DEF w
    <3>4. Len(w) = n
      BY <3>2, <1>1
    <3>5. \A i \in 1 .. n : w[i] = u[i]
      BY <3>1, <3>2, <3>3
    <3> QED BY <3>2, <3>4, <3>5
  <2> HIDE DEF w
  <2>2. \A i \in 1 .. n : w[i] = s[i]
    <3> SUFFICES ASSUME NEW i \in 1 .. n PROVE w[i] = s[i]
      OBVIOUS
    <3>1. i \in 1 .. n + Len(t) /\ i <= n
      BY <1>1
    <3> QED BY <3>1, <2>1, <1>1
  <2>3. w = s
    BY <2>1, <2>2, SeqEqual DEF n
  <2> QED BY <2>3 DEF w
<1>4. SubSeq(u, n + 1, m) = t
  <2> DEFINE w == SubSeq(u, n + 1, m)
             a == n + 1
  <2>1. w \in Seq(S) /\ Len(w) = Len(t) /\ \A i \in 1 .. Len(t) : w[i] = u[n + i]
    <3>1. /\ a \in Int /\ m \in Int /\ \A i \in a .. m : u[i] \in S
          /\ (m - a) + 1 = Len(t) /\ (a <= m <=> Len(t) # 0)
          /\ \A i \in 1 .. Len(t) : (a + i) - 1 = n + i
      BY <1>1, <1>2
    <3> HIDE DEF a
    <3>2. /\ SubSeq(u, a, m) \in Seq(S)
          /\ Len(SubSeq(u, a, m)) = (IF a <= m THEN (m - a) + 1 ELSE 0)
          /\ \A i \in 1 .. (m - a) + 1 : SubSeq(u, a, m)[i] = u[(a + i) - 1]
      BY <3>1, SubSeqProperties
    <3>3. w = SubSeq(u, a, m)
      BY DEF a
    <3> HIDE DEF w
    <3> QED BY <3>1, <3>2, <3>3
  <2> HIDE DEF w
  <2>2. \A i \in 1 .. Len(t) : w[i] = t[i]
    <3> SUFFICES ASSUME NEW i \in 1 .. Len(t) PROVE w[i] = t[i]
      OBVIOUS
    <3>1. n + i \in 1 .. n + Len(t) /\ ~(n + i <= n) /\ (n + i) - n = i
      BY <1>1
    <3> QED BY <3>1, <2>1, <1>1
  <2>3. w = t
    BY <2>1, <2>2, SeqEqual
  <2> QED BY <2>3 DEF w
<1> QED BY <1>3, <1>4 DEF u, n, m

\* What is left of a list when its first n cells are gone.
LEMMA Remaining ==
  ASSUME NEW S, NEW r \in Seq(S), Distinct(r), NEW n \in 0 .. Len(r)
  PROVE  Elements(SubSeq(r, n + 1, Len(r))) = Elements(r) \ {r[i] : i \in 1 .. n}
<1> DEFINE m == Len(r)
           a == n + 1
           w == SubSeq(r, a, m)
<1>1. m \in Nat /\ n \in Nat /\ n <= m /\ \A i \in 1 .. m : r[i] \in S
  OBVIOUS
<1>2. \A i, j \in 1 .. m : r[i] = r[j] => i = j
  BY DEF Distinct
<1>3. Elements(r) = {r[i] : i \in 1 .. m}
  BY DEF Elements
<1> HIDE DEF m
<1>4. Len(w) = m - n /\ \A i \in 1 .. m - n : w[i] = r[n + i]
  <2>1. /\ a \in Int /\ m \in Int /\ \A i \in a .. m : r[i] \in S
        /\ (m - a) + 1 = m - n /\ (a <= m <=> m - n # 0)
        /\ \A i \in 1 .. m - n : (a + i) - 1 = n + i
    BY <1>1
  <2> HIDE DEF a
  <2>2. /\ Len(SubSeq(r, a, m)) = (IF a <= m THEN (m - a) + 1 ELSE 0)
        /\ \A i \in 1 .. (m - a) + 1 : SubSeq(r, a, m)[i] = r[(a + i) - 1]
    BY <2>1, SubSeqProperties
  <2>3. w = SubSeq(r, a, m)
    OBVIOUS
  <2> HIDE DEF w
  <2> QED BY <2>1, <2>2, <2>3
<1> HIDE DEF w
<1>5. ASSUME NEW x \in Elements(w) PROVE x \in Elements(r) \ {r[i] : i \in 1 .. n}
  <2>1. PICK i \in 1 .. m - n : x = w[i]
    BY <1>4 DEF Elements
  <2>2. n + i \in 1 .. m /\ x = r[n + i] /\ \A j \in 1 .. n : j \in 1 .. m /\ j # n + i
    BY <2>1, <1>1, <1>4
  <2> QED BY <2>2, <1>2, <1>3
<1>6. ASSUME NEW x \in Elements(r) \ {r[i] : i \in 1 .. n} PROVE x \in Elements(w)
  <2>1. PICK i \in 1 .. m : x = r[i]
    BY <1>3
  <2>2. i \notin 1 .. n
    BY <2>1
  <2>3. i - n \in 1 .. m - n /\ n + (i - n) = i
    BY <2>2, <1>1
  <2>4. x = w[i - n] /\ i - n \in 1 .. Len(w)
    BY <2>1, <2>3, <1>4
  <2> QED BY <2>4 DEF Elements
<1> QED BY <1>5, <1>6 DEF w, m

(* Voices that no note has are idle. *)
Owner(p) == [v \in Voice |-> IF v \in Elements(FreeList(p)) THEN None ELSE p.desc[v]]

\* A voice has no owner when it is idle, and no idle voice is twice in the
\* queue.
LEMMA OwnerIs ==
  ASSUME NEW p, Good(p)
  PROVE  /\ FreeList(p) \in Seq(Voice) /\ Distinct(FreeList(p))
         /\ \A v \in Voice : Owner(p)[v] = None <=> v \in Elements(FreeList(p))
<1>1. PICK f, e, c, home : Sound(p, f, e, c, home, {})
  BY DEF Good
<1>2. FreeList(p) = f /\ Distinct(f) /\ f \in Seq(Voice)
  BY <1>1, ListsAre DEF Sound, IdleOK
<1>3. \A v \in Voice \ Elements(f) : p.desc[v] \in Desc
  BY <1>1 DEF Sound, VoicesOK
<1> QED BY <1>2, <1>3, NoneIsNone DEF Owner

\* Distinct busy voices in a row are one of the orders the allocator may take.
LEMMA TakenInOrder ==
  ASSUME NEW B \in SUBSET Voice, NEW s \in Seq(Voice), Distinct(s), Elements(s) \subseteq B
  PROVE  /\ Len(s) \in 0 .. Cardinality(B) /\ s \in [1 .. Len(s) -> B]
         /\ \A i, j \in 1 .. Len(s) : s[i] = s[j] => i = j
<1>1. Len(s) \in Nat /\ s \in [1 .. Len(s) -> Voice]
  OBVIOUS
<1>2. \A i, j \in 1 .. Len(s) : s[i] = s[j] => i = j
  BY DEF Distinct
<1>3. \A i \in 1 .. Len(s) : s[i] \in B
  BY DEF Elements
<1>4. s \in [1 .. Len(s) -> B]
  BY <1>1, <1>3
<1>5. IsFiniteSet(B) /\ Cardinality(B) \in Nat
  BY VoiceSets, FS_Subset, FS_CardinalityType
<1>6. IsFiniteSet(1 .. Len(s)) /\ Cardinality(1 .. Len(s)) = Len(s)
  <2> DEFINE k == Len(s)
  <2>1. 1 \in Int /\ k \in Int /\ k \in Nat
    BY <1>1
  <2> HIDE DEF k
  <2>2. /\ IsFiniteSet(1 .. k)
        /\ Cardinality(1 .. k) = IF 1 > k THEN 0 ELSE k - 1 + 1
    BY <2>1, FS_Interval
  <2>3. Cardinality(1 .. k) = k
    BY <2>1, <2>2
  <2> QED BY <2>2, <2>3 DEF k
<1>7. ASSUME Cardinality(B) < Len(s) PROVE FALSE
  <2>1. PICK i, j \in 1 .. Len(s) : i # j /\ s[i] = s[j]
    BY <1>4, <1>5, <1>6, <1>7, FS_PigeonHole
  <2> QED BY <2>1, <1>2
<1> QED BY <1>1, <1>2, <1>4, <1>5, <1>7

(* A handler is one step of the allocator. *)
LEMMA OneHandler ==
  ASSUME Good(pool), Handled(pool', pool)
  PROVE  Allocator!Next
<1> DEFINE f == FreeList(pool)
           own == Owner(pool)
           Busy == {v \in Voice : own[v] # None}
<1>1. /\ f \in Seq(Voice) /\ Distinct(f)
      /\ \A v \in Voice : own[v] = None <=> v \in Elements(f)
      /\ \A v \in Voice : own[v] = IF v \in Elements(f) THEN None ELSE pool.desc[v]
  BY OwnerIs DEF Owner
<1>2. PICK front, back \in Seq(Voice), n \in 0 .. 2, d \in Desc :
        Takes(pool', pool, (front \o f) \o back, n, d)
  BY DEF Handled
<1> DEFINE r == (front \o f) \o back
           given == {r[i] : i \in 1 .. n}
           taken == front \o back
           m == Len(front)
           own2 == Owner(pool')
<1>3. /\ n <= Len(r) /\ Distinct(r)
      /\ FreeList(pool') = SubSeq(r, n + 1, Len(r))
      /\ pool'.desc = [v \in Voice |-> IF v \in given THEN d ELSE pool.desc[v]]
      /\ n > 0 => \A v \in Voice : pool.desc[v] = d => v \in Elements(r)
  BY <1>2 DEF Takes
<1> HIDE DEF f, own
<1>4. front \o f \in Seq(Voice) /\ r \in Seq(Voice) /\ taken \in Seq(Voice) /\ Len(r) \in Nat
  BY <1>1, ConcatProperties
<1>5. Elements(r) = (Elements(front) \cup Elements(f)) \cup Elements(back)
  <2>1. Elements(front \o f) = Elements(front) \cup Elements(f)
    BY <1>1, Joined
  <2>2. Elements((front \o f) \o back) = Elements(front \o f) \cup Elements(back)
    <3> DEFINE ff == front \o f
    <3>1. ff \in Seq(Voice)
      BY <1>4
    <3> HIDE DEF ff
    <3>2. Elements(ff \o back) = Elements(ff) \cup Elements(back)
      BY <3>1, Joined
    <3> QED BY <3>2 DEF ff
  <2> QED BY <2>1, <2>2
<1>6. /\ Distinct(front) /\ Distinct(back)
      /\ Elements(front) \cap Elements(f) = {} /\ Elements(front) \cap Elements(back) = {}
      /\ Elements(f) \cap Elements(back) = {}
  <2>1. /\ Distinct(front \o f) /\ Distinct(back)
        /\ Elements(front \o f) \cap Elements(back) = {}
    BY <1>3, <1>4, Joined
  <2>2. Distinct(front) /\ Elements(front) \cap Elements(f) = {}
    BY <2>1, <1>1, Joined
  <2>3. Elements(front \o f) = Elements(front) \cup Elements(f)
    BY <1>1, Joined
  <2> QED BY <2>1, <2>2, <2>3
<1>7. Distinct(taken) /\ Elements(taken) = Elements(front) \cup Elements(back)
  BY <1>6, Joined
<1>8. Elements(SubSeq(r, n + 1, Len(r))) = Elements(r) \ given
  <2>1. n \in 0 .. Len(r)
    BY <1>3, <1>4
  <2> HIDE DEF r
  <2> QED BY <2>1, <1>3, <1>4, Remaining
<1>9. SubSeq(taken, 1, m) = front /\ SubSeq(taken, m + 1, Len(taken)) = back
  BY Parted
<1>10. Elements(front) \subseteq Voice /\ Elements(back) \subseteq Voice
       /\ given \subseteq Elements(r)
  <2>1. \A i \in 1 .. n : i \in 1 .. Len(r)
    BY <1>3, <1>4
  <2> HIDE DEF r
  <2> QED BY <2>1 DEF Elements
<1> HIDE DEF r, given, taken, m
<1>11. Elements(taken) \subseteq Busy
  BY <1>1, <1>6, <1>7, <1>10
<1>12. m \in 0 .. Len(taken)
  BY ConcatProperties DEF m, taken
<1>13. taken \in Allocator!TakeOrders
  <2>1. /\ Len(taken) \in 0 .. Cardinality(Busy) /\ taken \in [1 .. Len(taken) -> Busy]
        /\ \A i, j \in 1 .. Len(taken) : taken[i] = taken[j] => i = j
    <3> HIDE DEF Busy
    <3>1. Busy \in SUBSET Voice
      BY DEF Busy
    <3> QED BY <3>1, <1>4, <1>7, <1>11, TakenInOrder
  <2>2. Allocator!Takeable = Busy
    BY DEF Allocator!Takeable, own, Owner
  <2> HIDE DEF Busy
  <2>3. Allocator!Cardinality(Busy) = Cardinality(Busy)
    BY DEF Allocator!Cardinality, Cardinality
  <2>4. Len(taken) \in 0 .. Allocator!Cardinality(Allocator!Takeable)
    BY <2>1, <2>2, <2>3
  <2>5. taken \in {s \in [1 .. Len(taken) -> Allocator!Takeable] :
                     \A i, j \in 1 .. Len(taken) : s[i] = s[j] => i = j}
    BY <2>1, <2>2
  <2> QED BY <2>4, <2>5 DEF Allocator!TakeOrders
<1>14. \A v \in Voice : (n > 0 /\ own[v] = d) => v \in Elements(taken)
  <2> SUFFICES ASSUME NEW v \in Voice, n > 0, own[v] = d PROVE v \in Elements(taken)
    OBVIOUS
  <2>1. v \notin Elements(f) /\ pool.desc[v] = d
    BY <1>1, NoneIsNone
  <2> QED BY <2>1, <1>3, <1>5, <1>7
<1>15. own2 = [v \in Voice |-> IF v \in given THEN d
                               ELSE IF v \in Elements(front) \cup Elements(back) THEN None
                               ELSE own[v]]
  <2>1. ASSUME NEW v \in Voice
        PROVE  own2[v] = IF v \in given THEN d
                         ELSE IF v \in Elements(front) \cup Elements(back) THEN None
                         ELSE own[v]
    <3>1. own2[v] = IF v \in Elements(r) \ given THEN None ELSE pool'.desc[v]
      BY <1>3, <1>8 DEF Owner
    <3>2. CASE v \in given
      BY <3>1, <3>2, <1>3
    <3>3. CASE v \notin given /\ v \in Elements(r)
      BY <3>1, <3>3, <1>1, <1>5
    <3>4. CASE v \notin given /\ v \notin Elements(r)
      BY <3>1, <3>4, <1>1, <1>3, <1>5
    <3> QED BY <3>2, <3>3, <3>4
  <2>2. own2 = [v \in Voice |-> own2[v]]
    BY DEF Owner
  <2> QED BY <2>1, <2>2
<1>16. Allocator!Handle(front, back, n, d)
  BY <1>3, <1>15 DEF Allocator!Handle, Allocator!Taken, Allocator!Elements, Elements,
     r, given, f, own, Owner
<1>17. \A v \in Voice : (n > 0 /\ Owner(pool)[v] = d) => v \in Allocator!Elements(taken)
  BY <1>14 DEF own, Allocator!Elements, Elements
<1> QED BY <1>9, <1>12, <1>13, <1>16, <1>17
     DEF Allocator!Next, Allocator!MaxPerNote, Owner

\* A pool as pool_init leaves it has every voice in the queue once.
LEMMA QueueStarts == Init => Allocator!Init
<1> SUFFICES ASSUME Init PROVE Allocator!Init
  OBVIOUS
<1>1. pool = PoolInit /\ Good(pool) /\ pool.fresh = <<>>
  BY InitGood DEF Init
<1>2. PICK f, e, c, home : Sound(pool, f, e, c, home, {})
  BY <1>1 DEF Good
<1>3. FreeList(pool) = f /\ f \in Seq(Voice) /\ Distinct(f)
  BY <1>2, ListsAre DEF Sound, IdleOK
<1>4. Elements(f) = Voice
  <2>1. {v \in Voice : pool.free[v]} = Elements(f) \cup Elements(<<>>)
    BY <1>1, <1>2 DEF Sound, BitsOK
  <2>2. \A v \in Voice : pool.free[v]
    BY <1>1 DEF PoolInit, AllVoices
  <2>3. Elements(<<>>) = {}
    BY DEF Elements
  <2> QED BY <2>1, <2>2, <2>3
<1>5. Owner(pool) = [v \in Voice |-> None]
  BY <1>3, <1>4 DEF Owner
<1> QED BY <1>3, <1>4, <1>5
     DEF Allocator!Init, Allocator!InQueue, Allocator!Elements, Elements, Distinct, Owner

-----------------------------------------------------------------------------
(* No note is stuck, as long as no sostenuto table overflows. *)
MInv == IInv /\ Marked(pool)
EveryTableRoomy == Roomy(pool)

\* At first no mark is set.
LEMMA InitMarked == Marked(PoolInit)
<1>1. ASSUME NEW v \in IdleSet(PoolInit) PROVE ~PoolInit.gateOff[v]
  <2>1. v \in Voice
    BY InitGood, IdleVoices
  <2> QED BY <2>1 DEF PoolInit, AllVoices
<1>2. ASSUME NEW v \in Sounding(PoolInit) PROVE FALSE
  <2>1. PoolInit.desc[v] = None
    BY DEF PoolInit, AllVoices, Sounding
  <2> QED BY <2>1, InitGood, VoiceIs, NoneIsNone
<1> QED BY <1>1, <1>2 DEF Marked

\* Each step keeps the marks right.
LEMMA MarkSteps == MInv /\ EveryTableRoomy /\ Next => Marked(pool')
<1> SUFFICES ASSUME IInv, Marked(pool), Roomy(pool), Next PROVE Marked(pool')
  BY DEF MInv, EveryTableRoomy
<1>1. Good(pool) /\ pool \in Pools
  BY DEF IInv, Good, Sound
<1>2. ASSUME NEW part \in Part, NEW key \in Keys, NEW n \in 1 .. 2,
             NEW level \in LevelsFor(n), NoteOn(part, key, n, level)
      PROVE  Marked(pool')
  <2> DEFINE canOff == part \notin OneShot
  <2>1. pool \in GN(0, pool, Part) /\ pool' = NoteCmd(pool, part, key, canOff, n, level)
    BY <1>1, <1>2, IdleIsGN DEF NoteOn, Idle
  <2>2. canOff \in BOOLEAN
    OBVIOUS
  <2> HIDE DEF canOff
  <2>3. Marked(pool) => Marked(NoteCmd(pool, part, key, canOff, n, level))
    BY <2>1, <2>2, NoteCmdKeeps
  <2> QED BY <2>1, <2>3
<1>3. ASSUME NEW mute \in BOOLEAN, Fill(mute)
      PROVE  Marked(pool')
  <2>1. pool.fresh # <<>> /\ pool' = NoteFill(pool, Head(pool.fresh), mute)
    BY <1>3 DEF Fill, Idle
  <2>2. FillDone(pool', pool)
    BY <2>1, <1>1, NoteFillKeeps
  <2> QED BY <2>2, EasedMarked DEF FillDone
<1>4. ASSUME NEW part \in Part, NEW key \in Keys, KeyOff(part, key) PROVE Marked(pool')
  BY <1>1, <1>4, ScanAMarked DEF KeyOff, Handler
<1>5. ASSUME NEW part \in Part, HoldDown(part) PROVE Marked(pool')
  BY <1>1, <1>5, HoldDownMarked DEF HoldDown, Handler
<1>6. ASSUME NEW part \in Part, HoldUp(part) PROVE Marked(pool')
  BY <1>1, <1>6, ScanBMarked DEF HoldUp, Handler
<1>7. ASSUME NEW part \in Part, SostenutoDown(part) PROVE Marked(pool')
  BY <1>1, <1>7, PoolScanEMarked DEF SostenutoDown, Handler
<1>8. ASSUME NEW part \in Part, SostenutoUp(part) PROVE Marked(pool')
  <2>1. Len(pool.table[part]) # TableSize \/ Keys \subseteq Elements(pool.table[part])
    BY DEF Roomy
  <2> QED BY <2>1, <1>1, <1>8, PoolKillFMarked DEF SostenutoUp, Handler
<1>9. ASSUME NEW part \in Part, ResetPart(part) PROVE Marked(pool')
  BY <1>1, <1>9, State16Marked DEF ResetPart, Handler
<1>10. ASSUME NEW v \in Voice, NEW level, VoiceEnd(v, level) PROVE Marked(pool')
  <2>1. pool' = FreeVoice(pool, v, level) /\ pool.fresh = <<>>
    BY <1>10 DEF VoiceEnd, Handler, Idle
  <2>2. \E P : Eased(pool', pool, P)
    BY <2>1, <1>1, VoiceEndKeeps
  <2> QED BY <2>2, EasedMarked
<1> QED BY <1>2, <1>3, <1>4, <1>5, <1>6, <1>7, <1>8, <1>9, <1>10, VoiceNotesAssumption DEF Next

\* Then no note is stuck.
LEMMA NothingStuck == MInv => NoStuckNote
<1> SUFFICES ASSUME Good(pool), Marked(pool) PROVE NoStuckNote
  BY DEF MInv, IInv
<1>1. ASSUME NEW part \in Part, NEW d \in Elements(Chain(pool, part)),
             NEW on, on = Elements(VoicesOf(pool, d)), NEW off, off = {v \in on : pool.gateOff[v]}
      PROVE  CASE pool.state[d] = "down" -> off = {}
               [] pool.state[d] = "up" ->
                    \/ off = on
                    \/ pool.held[d] /\ pool.hold[part]
                    \/ InTable(pool, part, pool.key[d])
  <2>1. PICK f, e, c, home : Sound(pool, f, e, c, home, {})
    BY DEF Good
  <2>2. InNote(pool, d, part) /\ d \in Desc /\ pool.state[d] # "free"
    BY ChainSet DEF InNote
  <2>3. home[d] = part /\ home[d] # None
    BY <2>1, <2>2, NoteIs, NoneIsNone
  <2>4. on = {pool.tail[d], pool.head[d]}
    BY <2>1, <2>2, <2>3, <1>1, VoicesOn
  <2>5. \A v \in on : v \in Sounding(pool) /\ pool.desc[v] = d /\ pool.part[v] = part
    <3>1. VoicesOK(pool, Elements(f), home, {}) /\ IdleSet(pool) = Elements(f)
      BY <2>1, ListsAre DEF Sound, IdleSet
    <3> QED BY <2>2, <2>3, <2>4, <3>1 DEF VoicesOK, Sounding
  <2>6. \A v \in on : \/ pool.state[d] = "down" /\ ~pool.gateOff[v]
                      \/ /\ pool.state[d] = "up" /\ (pool.held[d] => pool.hold[part])
                         /\ pool.gateOff[v] \/ pool.held[d]
                              \/ InTable(pool, part, pool.key[d])
    BY <2>5 DEF Marked, MarkOK
  <2>7. on # {}
    BY <2>4
  <2>8. "up" # "down"
    OBVIOUS
  <2>9. CASE pool.state[d] = "down"
    <3>1. off = {}
      BY <1>1, <2>6, <2>8, <2>9
    <3> QED BY <3>1, <2>8, <2>9
  <2>10. CASE pool.state[d] = "up"
    <3>1. (off = on) \/ (pool.held[d] /\ pool.hold[part]) \/ InTable(pool, part, pool.key[d])
      BY <1>1, <2>6, <2>7, <2>8, <2>10
    <3> QED BY <3>1, <2>8, <2>10
  <2> QED BY <2>6, <2>7, <2>9, <2>10
<1>2. \A v \in Elements(FreeList(pool)) : ~pool.gateOff[v]
  BY DEF Marked, IdleSet
<1> QED BY <1>1, <1>2 DEF NoStuckNote

(* What one part's note may take from another. *)
LEMMA SparedIs ==
  ASSUME NEW p, Good(p), p.fresh = <<>>, NEW own \in Part, NEW n \in 1 .. 2, NEW level,
         NEW part \in Part, part # own,
         AllocScan(p, own, n, level).count[part] < p.count[part]
  PROVE  p.count[part] > Reserve[part] /\ part <= ScanFrom(own)
<1> DEFINE P == {own} \cup {y \in Part : y <= ScanFrom(own) /\ p.count[y] > Reserve[y]}
           q == AllocScan(p, own, n, level)
<1>1. own \in P /\ \A y \in Part : y <= ScanFrom(own) /\ p.count[y] > Reserve[y] => y \in P
  OBVIOUS
<1>2. part \in P => p.count[part] > Reserve[part] /\ part <= ScanFrom(own)
  OBVIOUS
<1> HIDE DEF P
<1>3. p \in GN(0, p, P)
  BY IdleIsGN
<1>4. q \in GN(n, p, P)
  BY <1>1, <1>3, AllocScanKeeps
<1> HIDE DEF q
<1>5. q.count[part] \in Int /\ p.count[part] \in Int
  BY <1>4, GoodNow, Counted
<1>6. part \notin P => q.count[part] = p.count[part]
  BY <1>4, CountsEased DEF GN
<1>7. q.count[part] < p.count[part]
  BY DEF q
<1> QED BY <1>2, <1>5, <1>6, <1>7

\* At any time, a note on takes from no part within its reserve.
LEMMA ReserveIsKept == IInv => ReserveKept
<1> SUFFICES ASSUME IInv, Idle, NEW own \in Part, NEW n \in 1 .. 2, NEW level \in LevelsFor(n),
                    NEW part \in Part \ {own},
                    AllocScan(pool, own, n, level).count[part] < pool.count[part]
             PROVE  pool.count[part] > Reserve[part] /\ part <= ScanFrom(own)
  BY DEF ReserveKept, Spared
<1> QED BY SparedIs DEF IInv, Idle

(* Why a note is refused. *)
LEMMA RefusedIs ==
  ASSUME NEW p, Good(p), p.fresh = <<>>, NEW own \in Part, NEW n \in 1 .. 2, NEW level,
         Heard(level), NEW q, q = AllocScan(p, own, n, level), q.short > 0
  PROVE  \/ q.count[own] < q.short \/ q.count[0] < Reserve[0]
         \/ Reserved(q, own) /\ q.count[own] < p.count[own]
         \/ StealBy[own] = "nothing" \/ StealBy[0] = "nothing"
<1> DEFINE P == Part
           short == n - p.freeCount
           p1 == [p EXCEPT !.short = short]
           p2 == ScanParts(p1, ScanFrom(own), level)
<1>1. own \in P /\ \A y \in Part : y \in P
  OBVIOUS
<1> HIDE DEF P
<1>2. p \in GN(0, p, P) /\ p \in Pools /\ n \in Int
  BY IdleIsGN DEF Good, Sound
<1>3. p.freeCount \in Nat /\ short \in Int /\ short <= 2
  <2>1. p.freeCount \in Nat
    BY DEF Good, Sound, IdleOK
  <2> QED BY <2>1
<1>4. CASE short <= 0
  <2>1. q = [p EXCEPT !.short = 0]
    BY <1>4 DEF AllocScan
  <2>2. q.short = 0
    BY <2>1, <1>2 DEF Pools
  <2> QED BY <2>2
<1>5. CASE ~(short <= 0)
  <2>1. short \in 0 .. 2
    BY <1>3, <1>5
  <2>2. Good(p1) /\ SameLists(p1, p) /\ p1.short = short /\ Eased(p1, p, {})
    <3> HIDE DEF short
    <3> QED BY <1>2, <2>1, ShortKeeps
  <2>3. p1 \in GN(n, p, P)
    <3> HIDE DEF p1
    <3>1. p1 \in Pools /\ p1.freeCount = p.freeCount /\ p1.fresh = p.fresh
      BY <2>2 DEF Good, Sound, SameLists, SameIdle
    <3>2. p1.freeCount + p1.short >= n
      BY <3>1, <2>2, <1>3, <1>2
    <3> QED BY <3>1, <3>2, <2>2, <1>2, MovedSame, EasedMore DEF GN
  <2>4. ScanFrom(own) \in Part
    BY VoicePoolAssumption, Sizes DEF ScanFrom, Part
  <2>5. q = ScanOwn(p2, own, level)
    BY <1>5 DEF AllocScan
  <2> HIDE DEF p1
  <2>6. p2 \in GN(n, p, P)
    BY <2>3, <2>4, <1>1, <1>2, ScanPartsKeeps
  <2> HIDE DEF p2
  <2> DEFINE r == NoteDisp(p2, own, level)
  <2>7. r \in GN(n, p, P) /\ (StealBy[own] # "nothing" => Gave(r, p2, own))
    BY <2>6, <1>1, <1>2, NoteDispKeeps
  <2>8. p2.count[own] <= p.count[own] /\ Good(p2)
    BY <2>6, CountsEased DEF GN
  <2>9. r.count[own] \in Int /\ p2.count[own] \in Int /\ p.count[own] \in Int
    BY <2>6, <2>7, <2>8, <1>2, GoodNow, Counted
  <2>10. q = IF Enough(p2) \/ Carry(p2) \/ p2.short > p2.count[own] THEN p2 ELSE r
    BY <2>5 DEF ScanOwn
  <2> HIDE DEF r
  <2>11. CASE q = p2 /\ (Enough(p2) \/ Carry(p2) \/ p2.short > p2.count[own])
    <3>1. p2.short \in Int
      BY <2>8 DEF Good, Sound
    <3>2. ~Enough(p2)
      BY <3>1, <2>11 DEF Enough
    <3>3. CASE Carry(p2)
      BY <3>3, <2>11 DEF Carry
    <3>4. CASE p2.short > p2.count[own]
      BY <3>1, <3>4, <2>9, <2>11
    <3> QED BY <3>2, <3>3, <3>4, <2>11
  <2>12. CASE q = r /\ StealBy[own] # "nothing"
    <3>1. r.short \in Int
      BY <2>7, GoodNow, <1>2 DEF Good, Sound
    <3>2. ~Enough(r)
      BY <3>1, <2>12 DEF Enough
    <3>3. CASE r.count[own] = 0
      BY <3>3, <2>12
    <3>4. CASE Reserved(r, own) /\ r.count[own] < p2.count[own]
      BY <3>4, <2>8, <2>9, <2>12
    <3> QED BY <3>2, <3>3, <3>4, <2>7, <2>12 DEF Gave
  <2> QED BY <2>10, <2>11, <2>12
<1> QED BY <1>4, <1>5

\* A note on finds these reasons in any state.
LEMMA RefusalIsExcused == IInv => RefusedForAReason
<1> SUFFICES ASSUME IInv, Idle, NEW own \in Part, NEW n \in 1 .. 2, NEW level \in LevelsFor(n),
                    Measured(level)
             PROVE  Excused(AllocScan(pool, own, n, level), own)
  BY DEF RefusedForAReason
<1>1. Good(pool) /\ pool.fresh = <<>>
  BY DEF IInv, Idle
<1>2. Heard(level)
  <2> DEFINE C == {v \in Voice : Compared(v, n)}
  <2>1. PICK f \in [C -> Levels] : level = [v \in Voice |-> IF v \in C THEN f[v] ELSE 0]
    BY DEF LevelsFor
  <2> HIDE DEF C
  <2>2. Levels \subseteq Nat
    BY VoiceNotesAssumption DEF Fresh
  <2>3. ASSUME NEW v \in Voice PROVE level[v] \in Nat
    <3>1. level[v] = IF v \in C THEN f[v] ELSE 0
      BY <2>1
    <3> QED BY <2>1, <3>1, <2>2
  <2> QED BY <2>3 DEF Heard, Measured
<1> DEFINE q == AllocScan(pool, own, n, level)
<1> HIDE DEF q
<1>3. q.short > 0 =>
         \/ q.count[own] < q.short \/ q.count[0] < Reserve[0]
         \/ Reserved(q, own) /\ q.count[own] < pool.count[own]
         \/ StealBy[own] = "nothing" \/ StealBy[0] = "nothing"
  BY <1>1, <1>2, RefusedIs DEF q
<1> QED BY <1>3 DEF Excused, q

\* Whatever messages the voice task takes, in whatever order, every index in
\* the tables of the pool is that of a voice, a descriptor or a part or the
\* terminator, and no note is ever half filled with more than its two voices:
\* what note on, key off, the pedals, the steals and the ends of voices write
\* stays in range (native_allocfree.cpp, note_chain_tail.cpp).
THEOREM TypesHold == Spec => []TypeOK
  BY Invariant, TypeIs, PTL

\* PoolSound, for any number of voices and parts and any reserves, ceiling and
\* ways of stealing: each voice is in the idle list or in exactly one note,
\* each descriptor free or in exactly one chain, links, counts and ends agree,
\* after any of the handlers (link, release A, release B and voice_free in
\* native_allocfree.cpp write up to three lists for one voice).
THEOREM ListsHangTogether == Spec => []PoolSound
  BY Invariant, PoolIsSound, PTL

\* The note a200 names for a part has the lowest key of its notes, also after a
\* new note, a steal or an end has changed the chain
\* (native_allocfree.cpp:1341). The search starts at 0x7f and compares
\* strictly, so a chain that holds nothing but that key elects no note: the
\* theorem is about keys below it.
THEOREM CurrentIsLowest == ASSUME TopKey \notin Keys PROVE Spec => []LowestIsCurrent
<1>1. IInv => LowestIsCurrent
  BY CurrentIs
<1> QED BY <1>1, Invariant, PTL

\* ReserveKept, for any number of voices and parts, any reserves, ceiling, ways
\* of stealing and levels: a note on takes voices only from other parts that
\* have more than their reserve, and from none above the ceiling (ScanParts in
\* note_path.cpp:2248, over steal and key_on in note_chain_tail.cpp).
THEOREM ReservesAreKept == Spec => []ReserveKept
  BY Invariant, ReserveIsKept, PTL

\* RefusedForAReason, for any number of voices and parts, any reserves,
\* ceiling, ways of stealing and measured levels: alloc_scan leaves a note
\* short only if its own part has too few voices, has given some down to its
\* reserve or gives none up, or if part 0 is in the way.
THEOREM RefusalsHaveReasons == Spec => []RefusedForAReason
  BY Invariant, RefusalIsExcused, PTL

\* NoStuckNote, for any number of voices and parts: once the key of a note is
\* up it has been let go with all its voices, or a pedal that is down still
\* holds it, whatever order keys, both pedals, steals, repeated keys and ends
\* of voices come in (note_path.cpp:1661-2155, native_pool.cpp:1206-1560). The
\* assumption is that no sostenuto table is full while a key of the part is not
\* in it: the search of a full table for a key it lacks ends the scan of pedal
\* up (native_pool.cpp:1562), and the notes behind would stay stuck.
THEOREM NoNoteIsStuck == Spec /\ []EveryTableRoomy => []NoStuckNote
<1>1. Init => MInv
  BY Initially, InitMarked DEF Init, MInv
<1>2. MInv /\ EveryTableRoomy /\ [Next]_pool => MInv'
  <2>1. MInv /\ EveryTableRoomy /\ Next => MInv'
    BY Steps, MarkSteps DEF MInv
  <2>2. MInv /\ UNCHANGED pool => MInv'
    BY DEF MInv, IInv
  <2> QED BY <2>1, <2>2
<1>3. MInv => NoStuckNote
  BY NothingStuck
<1> QED BY <1>1, <1>2, <1>3, PTL DEF Spec

\* The pool implements VoiceAllocator: seen from outside, each handler takes
\* voices away from notes, those of a key that is played again to the front of
\* the queue (release B, native_allocfree.cpp:733) and all others to its back
\* (release A, voice_free), and then gives the first one or two of the queue to
\* a note that has none (note_chain_tail.cpp, DescSetup). No voice is given
\* away but the first of the queue, and none is lost, for any number of voices
\* and parts.
THEOREM PoolIsAllocator == Spec => ImplementsAllocator
<1>1. IInv /\ [Next]_pool => [Allocator!Next]_(Allocator!vars)
  <2>1. IInv /\ Next => Allocator!Next
    BY Steps, OneHandler DEF IInv
  <2>2. UNCHANGED pool => UNCHANGED Allocator!vars
    BY DEF Allocator!vars, FreeList
  <2> QED BY <2>1, <2>2
<1> QED BY <1>1, Invariant, QueueStarts, PTL DEF Spec, ImplementsAllocator, Allocator!Spec
=============================================================================
