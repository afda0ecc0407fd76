--------------------------- MODULE VoiceTasksProofs ---------------------------
(***************************************************************************)
(* Proofs about the three tasks that share the voices, for any number of   *)
(* voices and notes: a stop never waits on half of a pair, and, as long as *)
(* mask_tail has not erred, the mark of a voice lasts as long as its play, *)
(* only the late end of an older note leaves a voice sounding without a    *)
(* note, and no stopped voice is started.                                  *)
(***************************************************************************)
EXTENDS VoiceTasks, TLAPS

\* The orders in which pcm_play may take voices, and the plays under way.
Orders == {<<>>} \cup {<<v>> : v \in Voices}
                 \cup {<<x[1], x[2]>> : x \in {y \in Voices \X Voices : y[1] # y[2]}}
Plays == [voices : Orders, anew : SUBSET Voices, at : 1 .. 2, left : Orders]

InPlay == pcm \in {"mask", "park", "setup", "ack", "waitack", "write"}
Busy == InPlay \/ GivenUp
Played == Members(play.voices)
Left == Members(play.left)
Done(i) == \/ i < play.at
           \/ pcm = "setup" /\ i = play.at
           \/ pcm \in {"ack", "waitack", "write"}
Ready == {play.voices[i] : i \in {j \in DOMAIN play.voices : Done(j)}}

Links == [Voices -> Voices \cup {None}]
Typed ==
    /\ cmd \in [Voices -> {"none", "play", "stop"}]
    /\ state \in [Voices -> States] /\ saved \in [Voices -> States \cup {"none"}]
    /\ mate \in Links /\ before \in Links /\ after \in Links
    /\ fresh \subseteq Voices /\ anew \subseteq Voices /\ owned \subseteq Voices
    /\ "pc" \in DOMAIN tick

Shaped ==
    /\ play \in Plays /\ play.anew \subseteq Played /\ Left \subseteq Played
    /\ ~Busy => play = NoPlay
    /\ Busy => play.at \in 1 .. Len(play.voices)
    /\ GivenUp => play.left # <<>>

\* Who is linked is the other half of the note, and has the same orders.
Linked(v) == before[v] # None \/ after[v] # None
PairedAt(v) ==
    /\ mate[v] # None => mate[v] # v /\ mate[mate[v]] = v /\ v \in owned
    /\ before[v] # None => before[v] = mate[v] /\ after[mate[v]] = v
    /\ after[v] # None => after[v] = mate[v] /\ before[mate[v]] = v
Paired == \A v \in Voices : PairedAt(v)

\* A voice that is cut may have been parked since by a play it left.
IsCut(v) == state[v] = "cut" \/ (state[v] = "parked" /\ saved[v] = "cut")
OrderedAt(v) ==
    /\ Linked(v) => cmd[v] = cmd[mate[v]] /\ (v \in anew <=> mate[v] \in anew)
    /\ v \in owned /\ v \in anew => cmd[v] = "play" /\ (mate[v] # None => Linked(v))
    /\ v \in anew /\ cmd[v] = "play" => IsCut(v)
    /\ cmd[v] = "stop" => v \notin owned /\ v \notin fresh /\ ~Linked(v) /\ IsCut(v)
    /\ v \in fresh /\ v \notin owned => cmd[v] = "none" /\ v \notin anew
Ordered == \A v \in Voices : OrderedAt(v)

\* A voice of a note whose end has not been heard: it stays silent.
Alone(v) == InPlay => v \notin Played \/ Played = {v}
Gone(v) == /\ ~Linked(v) /\ Alone(v)
           /\ state[v] = "dead" \/ (state[v] = "parked" /\ saved[v] = "dead")
Ending(s) == s \in {"dead", "dying"}
Hearing ==
    /\ ended # None => told \/ tick.pc = "end" \/ pcm = "end"
    /\ ended \in owned => ended \in anew \/ ended \in fresh \/ Gone(ended)
    /\ \A v \in Voices :
         Ending(state[v]) \/ (state[v] = "parked" /\ Ending(saved[v])) => ~Linked(v)

\* The voices of a play are told to do something else together, and only
\* those that start anew are not parked.
Together ==
    \A u, w \in Played : u # w =>
      /\ cmd[u] = "none" <=> cmd[w] = "none"
      /\ cmd[u] = "none" => mate[u] = w
      /\ u \in play.anew <=> w \in play.anew
Starts(v) ==
    /\ state[v] = "cut"
    /\ v \in owned /\ cmd[v] # "none" => v \in anew
    /\ cmd[v] = "none" /\ mate[v] # None => mate[v] \in Played
    /\ InPlay /\ cmd[v] = "none" => v \in fresh
Waits(v) ==
    \/ state[v] = "parked"
    \/ state[v] = "cut" /\ (cmd[v] = "none" /\ v \notin play.anew => ~Linked(v))
Parked ==
    \A v \in Voices :
      /\ saved[v] # "parked"
      /\ state[v] = "parked" => saved[v] # "none" /\ v \in Played /\ (GivenUp => v \in Left)
Staged ==
    /\ Together
    /\ \A v \in play.anew : Starts(v)
    /\ InPlay => \A v \in Ready : Waits(v)
    /\ GivenUp => cmd[Playing] # "none"
    /\ pcm = "unmark" => state[Head(play.left)] # "parked"
    /\ Parked

\* A voice without a note neither sounds nor will be played or put back.
Free(v) == v \in Voices /\ v \notin owned /\ v \notin strays
Freed ==
    /\ \A v \in Voices : Free(v) =>
         /\ state[v] \notin Watched /\ cmd[v] # "play"
         /\ state[v] = "parked" => saved[v] \notin Watched
    /\ InPlay => \A v \in Played : Free(v) /\ cmd[v] = "none" =>
                   v \notin play.anew /\ (v \in Ready => saved[v] \notin Watched)

Sound == Typed /\ Shaped /\ Paired /\ Ordered /\ Hearing /\ Staged /\ Freed
IInv == bared \/ torn \/ Sound

-----------------------------------------------------------------------------
(* The play under way, as a set of voices.                                 *)

LEMMA NoneIsNoVoice == None \notin Voices
BY DEF None, Voices

LEMMA OrderCases ==
    ASSUME NEW s \in Orders
    PROVE  \/ s = <<>> /\ Members(s) = {}
           \/ \E v \in Voices : s = <<v>> /\ Members(s) = {v}
           \/ \E v, w \in Voices : v # w /\ s = <<v, w>> /\ Members(s) = {v, w}
<1>1. CASE s = <<>>
  BY <1>1 DEF Members
<1>2. ASSUME NEW v \in Voices, s = <<v>> PROVE Members(s) = {v}
  BY <1>2 DEF Members
<1>3. ASSUME NEW x \in {y \in Voices \X Voices : y[1] # y[2]}, s = <<x[1], x[2]>>
      PROVE  \E v, w \in Voices : v # w /\ s = <<v, w>> /\ Members(s) = {v, w}
  <2>1. x[1] \in Voices /\ x[2] \in Voices /\ x[1] # x[2]
    OBVIOUS
  <2>2. DOMAIN s = 1 .. 2 /\ s[1] = x[1] /\ s[2] = x[2]
    BY <1>3
  <2>3. Members(s) = {x[1], x[2]}
    BY <2>2 DEF Members
  <2> QED BY <1>3, <2>1, <2>3
<1> QED BY <1>1, <1>2, <1>3 DEF Orders

LEMMA LenCases ==
    /\ Len(<<>>) = 0
    /\ \A v : Len(<<v>>) = 1 /\ <<v>>[1] = v /\ DOMAIN <<v>> = {1}
    /\ \A v, w : Len(<<v, w>>) = 2 /\ <<v, w>>[1] = v /\ <<v, w>>[2] = w /\ DOMAIN <<v, w>> = {1, 2}
OBVIOUS

LEMMA HeadTail ==
    /\ \A v : Head(<<v>>) = v
    /\ \A v, w : Head(<<v, w>>) = v /\ Tail(<<v, w>>) = <<w>>
<1>1. \A v, w : Tail(<<v, w>>) = <<w>>
  <2> TAKE v, w
  <2>1. Len(<<v, w>>) = 2 /\ Len(<<w>>) = 1
    OBVIOUS
  <2>2. Tail(<<v, w>>) = [i \in 1 .. 1 |-> <<v, w>>[i + 1]]
    BY <2>1 DEF Tail
  <2>3. <<w>> = [i \in 1 .. 1 |-> w]
    OBVIOUS
  <2> QED BY <2>2, <2>3
<1> QED BY <1>1

LEMMA PlayFacts ==
    ASSUME Shaped
    PROVE  /\ Played \subseteq Voices /\ Ready \subseteq Played
           /\ play.anew \subseteq Played /\ Left \subseteq Played
           /\ Busy => Playing \in Played
           /\ GivenUp => Head(play.left) \in Left
           /\ pcm \in {"ack", "waitack", "write"} => Ready = Played
           /\ ~Busy => Played = {} /\ play.anew = {} /\ Left = {} /\ Ready = {}
<1>1. play.voices \in Orders
  BY DEF Shaped, Plays
<1>2. Played \subseteq Voices
  BY <1>1, OrderCases DEF Played
<1>3. Ready \subseteq Played
  BY DEF Ready, Played, Members
<1>4. Busy => Playing \in Played
  <2> SUFFICES ASSUME Busy PROVE Playing \in Played
    OBVIOUS
  <2>1. play.at \in 1 .. Len(play.voices)
    BY DEF Shaped
  <2>2. play.at \in DOMAIN play.voices
    BY <1>1, <2>1, OrderCases, LenCases
  <2> QED BY <2>2 DEF Playing, Played, Members
<1>5. pcm \in {"ack", "waitack", "write"} => Ready = Played
  BY DEF Ready, Played, Members, Done
<1>6. ~Busy => Played = {} /\ play.anew = {} /\ Left = {} /\ Ready = {}
  <2> SUFFICES ASSUME ~Busy
               PROVE  Played = {} /\ play.anew = {} /\ Left = {} /\ Ready = {}
    OBVIOUS
  <2>1. play.voices = <<>> /\ play.anew = {} /\ play.left = <<>>
    BY DEF Shaped, NoPlay
  <2>2. DOMAIN play.voices = {} /\ DOMAIN play.left = {}
    BY <2>1
  <2> QED BY <2>1, <2>2 DEF Played, Members, Ready, Left
<1>7. GivenUp => Head(play.left) \in Left
  <2>1. play.left \in Orders /\ (GivenUp => play.left # <<>>)
    BY DEF Shaped, Plays
  <2> QED BY <2>1, OrderCases, HeadTail DEF Left
<1> QED BY <1>2, <1>3, <1>4, <1>5, <1>6, <1>7 DEF Shaped

\* How far a play has come, step by step.
LEMMA ParkDone ==
    ASSUME Shaped, pcm = "park", pcm' = "setup", play' = play
    PROVE  Shaped' /\ Played' = Played /\ Ready' = Ready \cup {Playing} /\ Playing' = Playing
<1>1. play.at \in DOMAIN play.voices
  BY OrderCases, LenCases DEF Shaped, Plays, Busy, InPlay
<1>2. Ready' = Ready \cup {Playing}
  BY <1>1 DEF Ready, Done, Playing
<1>3. Shaped'
  BY DEF Shaped, Busy, InPlay, GivenUp, Played, Left, Members
<1> QED BY <1>2, <1>3 DEF Played, Playing, Members

LEMMA SetupDone ==
    ASSUME Shaped, pcm = "setup", GoOn("mask", "ack")
    PROVE  /\ Shaped' /\ Played' = Played /\ Ready' = Ready
           /\ play'.anew = play.anew /\ play'.left = play.left
           /\ pcm' \in {"mask", "ack"}
<1>1. play.voices \in Orders /\ play.at \in 1 .. 2 /\ play.at \in 1 .. Len(play.voices)
  BY DEF Shaped, Plays, Busy, InPlay
<1>2. /\ play'.voices = play.voices /\ play'.anew = play.anew
      /\ play'.left = play.left
  BY DEF GoOn, Shaped, Plays
<1>3. Played' = Played
  BY <1>2 DEF Played
<1>4. \/ play.at < Len(play.voices) /\ play'.at = play.at + 1 /\ pcm' = "mask"
      \/ ~(play.at < Len(play.voices)) /\ play'.at = 1 /\ pcm' = "ack"
  BY DEF GoOn, Shaped, Plays
<1>5. Len(play.voices) \in 1 .. 2 /\ DOMAIN play.voices = 1 .. Len(play.voices)
  BY <1>1, OrderCases, LenCases
<1>6. play' \in Plays
  <2>1. play' = [play EXCEPT !.at = play.at + 1] \/ play' = [play EXCEPT !.at = 1]
    BY DEF GoOn
  <2>2. play'.at \in 1 .. 2
    <3> DEFINE l == Len(play.voices)
    <3>1. play.at \in 1 .. 2 /\ l \in 1 .. 2
      BY <1>1, <1>5
    <3>2. (play.at < l /\ play'.at = play.at + 1) \/ play'.at = 1
      BY <1>4
    <3> HIDE DEF l
    <3> QED BY <3>1, <3>2
  <2>3. play' = [play EXCEPT !.at = play'.at]
    <3>1. "at" \in DOMAIN play
      BY DEF Shaped, Plays
    <3>2. \A x : play' = [play EXCEPT !.at = x] => play'.at = x
      BY <3>1
    <3> QED BY <2>1, <3>2
  <2>4. play \in Plays
    BY DEF Shaped
  <2> QED BY <2>2, <2>3, <2>4 DEF Plays
<1>7. Shaped'
  BY <1>1, <1>2, <1>3, <1>4, <1>5, <1>6 DEF Shaped, Busy, InPlay, GivenUp, Left
<1>8. Ready' = Ready
  <2>1. \A i \in DOMAIN play.voices : Done(i) <=> Done(i)'
    BY <1>1, <1>4, <1>5 DEF Done
  <2> QED BY <1>2, <2>1 DEF Ready
<1> QED BY <1>2, <1>3, <1>4, <1>7, <1>8

LEMMA AckDone ==
    ASSUME Shaped, pcm = "ack", GoOn("ack", "write")
    PROVE  /\ Shaped' /\ Played' = Played /\ Ready' = Ready
           /\ play'.anew = play.anew /\ play'.left = play.left
           /\ pcm' \in {"ack", "write"}
<1>1. play.voices \in Orders /\ play.at \in 1 .. 2 /\ play.at \in 1 .. Len(play.voices)
  BY DEF Shaped, Plays, Busy, InPlay
<1>2. /\ play'.voices = play.voices /\ play'.anew = play.anew
      /\ play'.left = play.left
  BY DEF GoOn, Shaped, Plays
<1>3. Played' = Played
  BY <1>2 DEF Played
<1>4. \/ play.at < Len(play.voices) /\ play'.at = play.at + 1 /\ pcm' = "ack"
      \/ ~(play.at < Len(play.voices)) /\ play'.at = 1 /\ pcm' = "write"
  BY DEF GoOn, Shaped, Plays
<1>5. Len(play.voices) \in 1 .. 2
  BY <1>1, OrderCases, LenCases
<1>6. play' \in Plays
  <2>1. play' = [play EXCEPT !.at = play.at + 1] \/ play' = [play EXCEPT !.at = 1]
    BY DEF GoOn
  <2>2. play'.at \in 1 .. 2
    <3> DEFINE l == Len(play.voices)
    <3>1. play.at \in 1 .. 2 /\ l \in 1 .. 2
      BY <1>1, <1>5
    <3>2. (play.at < l /\ play'.at = play.at + 1) \/ play'.at = 1
      BY <1>4
    <3> HIDE DEF l
    <3> QED BY <3>1, <3>2
  <2>3. play' = [play EXCEPT !.at = play'.at]
    <3>1. "at" \in DOMAIN play
      BY DEF Shaped, Plays
    <3>2. \A x : play' = [play EXCEPT !.at = x] => play'.at = x
      BY <3>1
    <3> QED BY <2>1, <3>2
  <2>4. play \in Plays
    BY DEF Shaped
  <2> QED BY <2>2, <2>3, <2>4 DEF Plays
<1>7. Shaped'
  BY <1>1, <1>2, <1>3, <1>4, <1>5, <1>6 DEF Shaped, Busy, InPlay, GivenUp, Left
<1>8. Ready = Played
  BY PlayFacts
<1>9. Ready' = Played'
  BY <1>4 DEF Ready, Done, Played, Members
<1> QED BY <1>2, <1>3, <1>4, <1>7, <1>8, <1>9

LEMMA PlayBegins ==
    ASSUME Typed, Paired, NEW v \in Voices, pcm' = "mask",
           play' = [NoPlay EXCEPT !.voices = PlayOrder(v),
                                  !.anew = Members(PlayOrder(v)) \cap anew]
    PROVE  /\ Shaped' /\ Ready' = {} /\ Played' = Members(PlayOrder(v))
           /\ Played' = {v} \cup (IF Linked(v) THEN {mate[v]} ELSE {})
           /\ play'.anew = Played' \cap anew
<1>1. PlayOrder(v) \in Orders
  <2>1. before[v] # None => before[v] \in Voices /\ before[v] # v
    BY DEF Typed, Links, Paired, PairedAt
  <2>2. after[v] # None => after[v] \in Voices /\ after[v] # v
    BY DEF Typed, Links, Paired, PairedAt
  <2>3. \A x, y \in Voices : x # y => <<x, y>> \in Orders
    <3> TAKE x, y \in Voices
    <3> HAVE x # y
    <3>1. <<x, y>> \in {z \in Voices \X Voices : z[1] # z[2]}
      OBVIOUS
    <3>2. <<<<x, y>>[1], <<x, y>>[2]>> = <<x, y>>
      OBVIOUS
    <3> QED BY <3>1, <3>2 DEF Orders
  <2>4. <<v>> \in Orders
    BY DEF Orders
  <2> QED BY <2>1, <2>2, <2>3, <2>4 DEF PlayOrder
<1>2. PlayOrder(v) # <<>> /\ Len(PlayOrder(v)) >= 1
  BY LenCases DEF PlayOrder
<1>3. /\ play'.voices = PlayOrder(v) /\ play'.anew = Members(PlayOrder(v)) \cap anew
      /\ play'.at = 1 /\ play'.left = <<>>
  BY DEF NoPlay
<1>4. Members(PlayOrder(v)) = {v} \cup (IF Linked(v) THEN {mate[v]} ELSE {})
  <2>1. \A x, y : Members(<<x, y>>) = {x, y}
    BY LenCases DEF Members
  <2>2. Members(<<v>>) = {v}
    BY DEF Members
  <2> QED BY <2>1, <2>2 DEF PlayOrder, Linked, Paired, PairedAt
<1>5. Played' = Members(PlayOrder(v))
  BY <1>3 DEF Played
<1>6. play' \in Plays
  BY <1>1, <1>3, 1 \in 1 .. 2, <<>> \in Orders DEF Plays, NoPlay, Typed, Orders
<1>7. Shaped'
  <2>1. 1 \in 1 .. Len(PlayOrder(v))
    BY <1>1, <1>2, OrderCases, LenCases
  <2>2. Left' = {}
    BY <1>3 DEF Left, Members
  <2> QED BY <1>3, <1>5, <1>6, <2>1, <2>2 DEF Shaped, Busy, InPlay, GivenUp, Left
<1>8. Ready' = {}
  <2>1. \A i \in DOMAIN PlayOrder(v) : ~(i < 1)
    BY <1>1, OrderCases, LenCases
  <2> QED BY <1>3, <2>1 DEF Ready, Done
<1> QED BY <1>3, <1>4, <1>5, <1>7, <1>8

-----------------------------------------------------------------------------
(* Links, marks and what every step of the system keeps.                   *)

LEMMA CutLinks ==
    ASSUME NEW link \in Links, NEW S
    PROVE  /\ Cut(link, S) \in Links
           /\ \A v \in Voices : Cut(link, S)[v] = IF v \in S \/ link[v] \in S
                                                  THEN None ELSE link[v]
BY DEF Cut, Links

LEMMA MarkOrders ==
    ASSUME NEW S, NEW x \in {"none", "play", "stop"}, cmd \in [Voices -> {"none", "play", "stop"}]
    PROVE  /\ Mark(cmd, S, x) \in [Voices -> {"none", "play", "stop"}]
           /\ \A v \in Voices : Mark(cmd, S, x)[v] = IF v \in S THEN x ELSE cmd[v]
BY DEF Mark

LEMMA NoteVoices ==
    /\ \A v : Len(<<v>>) = 1 /\ Members(<<v>>) = {v}
    /\ \A v, w : Len(<<v, w>>) = 2 /\ Members(<<v, w>>) = {v, w}
BY LenCases DEF Members

\* The part of the invariant that needs nothing of how the tasks interleave.
Told == /\ cmd \in [Voices -> {"none", "play", "stop"}]
        /\ before \in Links /\ after \in Links
        /\ NoStopOnPair

LEMMA ToldStart == Init => Told
<1> SUFFICES ASSUME Init PROVE Told
  OBVIOUS
<1>1. PICK on \in BOOLEAN, sung \in SUBSET Voices, tied \in SUBSET Voices :
        /\ on => {1, 2} \subseteq sung
        /\ cmd = [v \in Voices |-> IF v \in tied THEN "play" ELSE "none"]
        /\ after = Pair(on, 1, 2) /\ before = Pair(on, 2, 1)
  BY DEF Init
<1>2. before \in Links /\ after \in Links
  BY <1>1 DEF Pair, Links, None
<1> QED BY <1>1, <1>2 DEF Told, NoStopOnPair

LEMMA ToldEnds ==
    ASSUME Told, NEW v, EndVoice(v), cmd' = cmd \/ cmd' = [cmd EXCEPT ![v] = "none"]
    PROVE  Told'
<1>1. before' \in Links /\ after' \in Links
  BY CutLinks DEF Told, EndVoice
<1>2. \A u \in Voices : (before[u] = None => before'[u] = None) /\ (after[u] = None => after'[u] = None)
  BY CutLinks DEF Told, EndVoice
<1>3. \A u \in Voices : cmd'[u] = "stop" => cmd[u] = "stop"
  BY DEF Told
<1> QED BY <1>1, <1>2, <1>3 DEF Told, NoStopOnPair

LEMMA ToldNotes ==
    ASSUME Told, NEW vs, NEW a, NEW b, a \in Voices, b \in Voices,
           vs = <<a>> \/ vs = <<a, b>>, NoteOn(vs)
    PROVE  Told'
<1> DEFINE S == Members(vs)
<1>1. a \in S /\ (vs = <<a, b>> => b \in S) /\ (vs = <<a>> => Len(vs) # 2)
  BY NoteVoices
<1>2. cmd' = Mark(cmd, S, "play")
  BY DEF NoteOn
<1>3. /\ before' = before \/ (vs = <<a, b>> /\ before' = [before EXCEPT ![b] = a])
      /\ after' = after \/ (vs = <<a, b>> /\ after' = [after EXCEPT ![a] = b])
  <2>1. CASE vs = <<a>>
    BY <1>1, <2>1 DEF NoteOn
  <2>2. CASE vs = <<a, b>>
    <3>1. vs[1] = a /\ vs[2] = b
      BY <2>2
    <3> QED BY <2>2, <3>1 DEF NoteOn
  <2> QED BY <2>1, <2>2
<1>4. before' \in Links /\ after' \in Links
  BY <1>3 DEF Told, Links
<1>5. \A u \in Voices \ S : before'[u] = before[u] /\ after'[u] = after[u]
  BY <1>1, <1>3 DEF Told, Links
<1> HIDE DEF S
<1>6. \A u \in Voices : cmd'[u] = IF u \in S THEN "play" ELSE cmd[u]
  BY <1>2, MarkOrders DEF Told
<1>7. cmd' \in [Voices -> {"none", "play", "stop"}]
  BY <1>2, MarkOrders DEF Told
<1> QED BY <1>4, <1>5, <1>6, <1>7 DEF Told, NoStopOnPair

LEMMA ToldStays ==
    ASSUME Told, [Next]_vars
    PROVE  Told'
<1>1. CASE UNCHANGED <<cmd, before, after>>
  BY <1>1 DEF Told, NoStopOnPair
<1>3. ASSUME NEW v \in Voices, NoteEmpty(v) \/ KeyOff(v) PROVE Told'
  BY <1>1, <1>3 DEF NoteEmpty, KeyOff, pairVars
<1>4. ASSUME NEW v \in Voices, Tie(v) PROVE Told'
  <2>1. cmd' = Mark(cmd, NoteOf(v), "play") /\ before' = before /\ after' = after
    BY <1>4 DEF Tie, pairVars
  <2>2. \A u \in Voices : cmd'[u] = IF u \in NoteOf(v) THEN "play" ELSE cmd[u]
    BY <2>1, MarkOrders DEF Told
  <2>3. cmd' \in [Voices -> {"none", "play", "stop"}]
    BY <2>1, MarkOrders DEF Told
  <2> QED BY <2>1, <2>2, <2>3 DEF Told, NoStopOnPair
<1>5. ASSUME NEW v \in Voices, Release(v) PROVE Told'
  <2> DEFINE S == NoteOf(v)
  <2>1. cmd' = Mark(cmd, S, "stop") /\ before' = Cut(before, S) /\ after' = Cut(after, S)
    BY <1>5 DEF Release
  <2> HIDE DEF S
  <2>2. \A u \in Voices : cmd'[u] = IF u \in S THEN "stop" ELSE cmd[u]
    BY <2>1, MarkOrders DEF Told
  <2>3. cmd' \in [Voices -> {"none", "play", "stop"}]
    BY <2>1, MarkOrders DEF Told
  <2>4. before' \in Links /\ after' \in Links
    BY <2>1, CutLinks DEF Told
  <2>5. \A u \in Voices : /\ before'[u] = IF u \in S \/ before[u] \in S THEN None ELSE before[u]
                          /\ after'[u] = IF u \in S \/ after[u] \in S THEN None ELSE after[u]
    BY <2>1, CutLinks DEF Told
  <2> QED BY <2>2, <2>3, <2>4, <2>5 DEF Told, NoStopOnPair
<1>6. ASSUME HearEnd PROVE Told'
  <2>1. cmd' = cmd
    BY <1>6 DEF HearEnd
  <2>2. \/ before' = before /\ after' = after
        \/ before' = Cut(before, {ended}) /\ after' = Cut(after, {ended})
    BY <1>6 DEF HearEnd, pairVars
  <2> QED BY <2>1, <2>2, CutLinks DEF Told, NoStopOnPair
<1>7. ASSUME ReportService PROVE Told'
  <2> DEFINE v == Highest(rep)
  <2>1. cmd' = cmd
    BY <1>7 DEF ReportService
  <2>2. \/ before' = before /\ after' = after
        \/ before' = Cut(before, {v}) /\ after' = Cut(after, {v})
    BY <1>7 DEF ReportService, pairVars
  <2> HIDE DEF v
  <2> QED BY <2>1, <2>2, CutLinks DEF Told, NoStopOnPair
<1>8. ASSUME NEW v \in Voices, PcmStop(v) PROVE Told'
  <2>1. CASE EndVoice(v)
    BY <1>8, <2>1, ToldEnds DEF PcmStop
  <2>2. CASE UNCHANGED pairVars
    BY <1>8, <2>2 DEF PcmStop, Told, NoStopOnPair, pairVars
  <2> QED BY <1>8, <2>1, <2>2 DEF PcmStop
<1>9. ASSUME NEW v \in Voices, PcmPlay(v) PROVE Told'
  <2>1. cmd' = Mark(cmd, Members(PlayOrder(v)), "none") /\ before' = before /\ after' = after
    BY <1>9 DEF PcmPlay, pairVars
  <2> QED BY <2>1, MarkOrders DEF Told, NoStopOnPair
<1>10. ASSUME VoiceParam PROVE Told'
  <2> DEFINE v == tick.todo[1]
  <2>1. cmd' = cmd /\ (EndVoice(v) \/ UNCHANGED pairVars)
    BY <1>10 DEF VoiceParam, Leave, FirstSection, LaterSection
  <2> QED BY <2>1, ToldEnds, <1>1 DEF pairVars
<1>11. ASSUME NEW v \in Voices, NoteOn(<<v>>) PROVE Told'
  BY <1>11, ToldNotes
<1>12. ASSUME NEW v \in Voices, NEW w \in Voices, NoteOn(<<v, w>>) PROVE Told'
  BY <1>12, ToldNotes
<1>13. ASSUME Chip \/ TickStart \/ TickScan \/ TickSignal PROVE Told'
  BY <1>1, <1>13 DEF Chip, IrqDispatch, Fade, TickStart, TickScan, TickSignal, pairVars
<1>14. ASSUME \/ WaitCommands \/ WaitReports \/ ReportsDone \/ CommandsDone \/ PcmSignal
              \/ MaskSet \/ Park \/ Setup \/ ParamAck \/ WaitAck \/ ParamWrite \/ MaskTail
              \/ PutBack \/ Unmark
       PROVE  Told'
  BY <1>1, <1>14 DEF WaitCommands, WaitReports, ReportsDone, CommandsDone, PcmSignal, MaskSet,
                     Park, Setup, ParamAck, WaitAck, ParamWrite, MaskTail, PutBack, Unmark, pairVars
<1>15. CASE UNCHANGED vars
  BY <1>1, <1>15 DEF vars, pairVars
<1> QED BY <1>3, <1>4, <1>5, <1>6, <1>7, <1>8, <1>9, <1>10, <1>11, <1>12, <1>13, <1>14, <1>15
        DEF Next, NewNote, PcmTask, TickTask

(* For any number of voices and notes, and also after mask_tail has erred: *)
(* no stop waits on a voice that is still half of a pair, so    *)
(* pcm_play of the other half (0x52ed) never takes a stop for its own.     *)
THEOREM NeverStopOnPair == Spec => []NoStopOnPair
<1>1. Init => Told
  BY ToldStart
<1>2. Told /\ [Next]_vars => Told'
  BY ToldStays
<1>3. Told => NoStopOnPair
  BY DEF Told
<1> QED BY <1>1, <1>2, <1>3, PTL DEF Spec

-----------------------------------------------------------------------------
(* The invariant of the voices: it holds at the start, and every step      *)
(* keeps it.                                                               *)

LEMMA SoundStart == Init => Sound
<1> SUFFICES ASSUME Init PROVE Sound
  OBVIOUS
<1>1. PICK sung \in SUBSET Voices, on \in BOOLEAN, tied \in SUBSET Voices :
        /\ on => {1, 2} \subseteq sung
        /\ tied \subseteq sung /\ (on => (1 \in tied <=> 2 \in tied))
        /\ cmd = [v \in Voices |-> IF v \in tied THEN "play" ELSE "none"]
        /\ owned = sung /\ silent = Voices \ sung
        /\ state = [v \in Voices |-> IF v \in sung THEN "run" ELSE "dead"]
        /\ after = Pair(on, 1, 2) /\ before = Pair(on, 2, 1)
        /\ mate = [v \in Voices |-> Pair(on, 1, 2)[v] + Pair(on, 2, 1)[v]]
  BY DEF Init
<1>2. \A v \in Voices : /\ after[v] = IF on /\ v = 1 THEN 2 ELSE 0
                        /\ before[v] = IF on /\ v = 2 THEN 1 ELSE 0
                        /\ mate[v] = IF on /\ v = 1 THEN 2 ELSE IF on /\ v = 2 THEN 1 ELSE 0
  BY <1>1 DEF Pair, None
<1>3. on => 1 \in Voices /\ 2 \in Voices /\ 1 \in owned /\ 2 \in owned
  BY <1>1
<1>4. /\ mate \in [Voices -> Voices \cup {0}] /\ before \in [Voices -> Voices \cup {0}]
      /\ after \in [Voices -> Voices \cup {0}]
  BY <1>1, <1>2, <1>3 DEF Pair, None
<1>5. Typed
  BY <1>1, <1>4 DEF Init, Typed, Links, None, States, Watched, Fading, NoTick
<1>6. Paired /\ (\A v \in Voices : Linked(v) => v \in owned)
  BY <1>2, <1>3 DEF Paired, PairedAt, Linked, None
<1>7. pcm = "wait" /\ play = NoPlay /\ ended = None /\ fresh = {} /\ anew = {}
  BY DEF Init
<1>8. Shaped /\ Ready = {} /\ Played = {}
  <2>1. play \in Plays
    BY <1>7, 1 \in 1 .. 2 DEF NoPlay, Plays, Orders
  <2>2. ~Busy /\ ~GivenUp /\ play.anew = {} /\ Left = {}
    BY <1>7 DEF NoPlay, Busy, InPlay, GivenUp, Left, Members
  <2>3. Shaped
    BY <1>7, <2>1, <2>2 DEF Shaped, NoPlay
  <2> QED BY <2>2, <2>3, PlayFacts
<1>9. Ordered
  <2>1. \A v \in Voices : cmd[v] \in {"none", "play"}
    BY <1>1
  <2>2. \A v \in Voices : Linked(v) => mate[v] \in Voices /\ cmd[v] = cmd[mate[v]]
    BY <1>1, <1>2, <1>3 DEF Linked, None
  <2> QED BY <1>7, <2>1, <2>2 DEF Ordered, OrderedAt
<1>10. Hearing
  BY <1>1, <1>5, <1>6, <1>7, NoneIsNoVoice DEF Hearing, Ending, Typed
<1>11. Staged
  BY <1>1, <1>7, <1>8 DEF Init, Staged, Parked, Starts, Waits, Together, InPlay, GivenUp, NoPlay
<1>12. Freed
  BY <1>1, <1>7, <1>8 DEF Init, Freed, Free, InPlay, Watched
<1> QED BY <1>5, <1>6, <1>8, <1>9, <1>10, <1>11, <1>12 DEF Sound

\* That mask_tail has erred is not forgotten.
LEMMA ErredStays == (bared \/ torn) /\ [Next]_vars => bared' \/ torn'
<1> SUFFICES ASSUME bared \/ torn, [Next]_vars PROVE bared' \/ torn'
  OBVIOUS
<1>1. ASSUME NewNote \/ HearEnd PROVE bared' \/ torn'
  BY <1>1 DEF NewNote, NoteOn, NoteEmpty, Tie, Release, KeyOff, HearEnd, pastVars
<1>2. ASSUME Chip \/ TickTask PROVE bared' \/ torn'
  BY <1>2 DEF Chip, IrqDispatch, Fade, TickTask, TickStart, TickScan, VoiceParam, TickSignal,
              pastVars
<1>3. ASSUME PcmTask PROVE bared' \/ torn'
  BY <1>3 DEF PcmTask, WaitCommands, WaitReports, ReportsDone, ReportService, CommandsDone,
              PcmSignal, MaskSet, Park, Setup, ParamAck, WaitAck, ParamWrite, MaskTail,
              PutBack, Unmark, PcmStop, PcmPlay, pastVars
<1> QED BY <1>1, <1>2, <1>3 DEF Next, vars, pastVars

\* A step that leaves the voices alone and takes the play on, or nowhere.
VoicesStay == /\ cmd' = cmd /\ state' = state /\ saved' = saved /\ fresh' = fresh /\ anew' = anew
              /\ owned' = owned /\ mate' = mate /\ before' = before /\ after' = after
              /\ strays' = strays /\ ended' \in {ended, None}
PlayStays == /\ Shaped' /\ Played' = Played /\ play'.anew = play.anew
             /\ InPlay' => InPlay /\ Ready' \subseteq Ready
             /\ GivenUp' => cmd[Playing'] # "none" /\ Left' = (IF GivenUp THEN Left ELSE Played)
             /\ pcm' = "unmark" => state[Head(play'.left)] # "parked"
EndAwaited == ended # None => told \/ tick.pc = "end" \/ pcm = "end"

LEMMA QuietKeeps ==
    ASSUME Sound, VoicesStay, PlayStays, EndAwaited', "pc" \in DOMAIN tick'
    PROVE  Sound'
<1>1. Typed'
  BY DEF Sound, Typed, VoicesStay
<1>2. Paired'
  BY DEF Sound, Paired, PairedAt, VoicesStay
<1>3. Ordered'
  BY DEF Sound, Ordered, OrderedAt, IsCut, Linked, VoicesStay
<1>4. Hearing'
  <2>1. ended' \in owned' => ended' = ended
    BY NoneIsNoVoice DEF Sound, Typed, VoicesStay
  <2> QED BY <2>1 DEF Sound, Hearing, EndAwaited, Gone, Alone, Linked, VoicesStay, PlayStays
<1>5. Staged'
  BY DEF Sound, Staged, Parked, Starts, Waits, Together, Linked, VoicesStay, PlayStays
<1>6. Freed'
  BY DEF Sound, Freed, Free, VoicesStay, PlayStays
<1> QED BY <1>1, <1>2, <1>3, <1>4, <1>5, <1>6 DEF Sound, PlayStays

LEMMA TickStays ==
    ASSUME Sound, UNCHANGED <<play, pcm, told, ended>>, UNCHANGED <<owned, mate, anew, pairVars, soundVars>>,
           cmd' = cmd, strays' = strays, "pc" \in DOMAIN tick',
           tick.pc = "end" => tick'.pc = "end" \/ ended = None
    PROVE  Sound'
<1>1. VoicesStay
  BY DEF VoicesStay, pairVars, soundVars
<1>2. PlayStays
  BY DEF PlayStays, Sound, Shaped, Busy, InPlay, GivenUp, Played, Left, Ready, Done, Playing, Staged
<1>3. EndAwaited'
  BY DEF Sound, Hearing, EndAwaited
<1> QED BY <1>1, <1>2, <1>3, QuietKeeps

LEMMA KeyOffKeeps == ASSUME Sound, NEW v, KeyOff(v) PROVE Sound'
<1>1. /\ UNCHANGED <<owned, mate, anew, pairVars, soundVars>>
      /\ UNCHANGED <<play, pcm, told, ended>> /\ cmd' = cmd /\ strays' = strays /\ tick' = tick
  BY DEF KeyOff, endVars, pcmVars, tickVars, pastVars
<1> QED BY <1>1, TickStays DEF Sound, Typed

LEMMA ChipKeeps == ASSUME Sound, Chip PROVE Sound'
<1>1. PICK v \in Voices : IrqDispatch(v) \/ Fade(v)
  BY DEF Chip
<1>2. /\ UNCHANGED <<owned, mate, anew, pairVars, soundVars>>
      /\ UNCHANGED <<play, pcm, told, ended>> /\ cmd' = cmd /\ strays' = strays /\ tick' = tick
  BY <1>1 DEF IrqDispatch, Fade, noteVars, endVars, pcmVars, tickVars, pastVars
<1> QED BY <1>2, TickStays DEF Sound, Typed

LEMMA ScanKeeps == ASSUME Sound, TickStart \/ TickScan PROVE Sound'
<1>1. "pc" \in DOMAIN tick'
  <2>1. ASSUME NEW from, Look(from) PROVE "pc" \in DOMAIN tick'
    BY <2>1 DEF Look, NoTick
  <2>2. "pc" \in DOMAIN NoTick
    BY DEF NoTick
  <2> QED BY <2>1, <2>2 DEF TickStart, TickScan
<1>2. tick.pc # "end"
  BY DEF TickStart, TickScan, TickRuns
<1>3. /\ UNCHANGED <<owned, mate, anew, pairVars, soundVars>>
      /\ UNCHANGED <<play, pcm, told, ended>> /\ cmd' = cmd /\ strays' = strays
  BY DEF TickStart, TickScan, noteVars, endVars, pcmVars, pastVars
<1> QED BY <1>1, <1>2, <1>3, TickStays

LEMMA TickSignalKeeps == ASSUME Sound, TickSignal PROVE Sound'
<1>1. VoicesStay
  BY DEF TickSignal, VoicesStay, noteVars, pairVars, soundVars, pastVars
<1>2. PlayStays
  BY DEF TickSignal, pcmVars, PlayStays, Sound, Shaped, Busy, InPlay, GivenUp, Played, Left, Ready,
         Done, Playing, Staged
<1>3. EndAwaited' /\ "pc" \in DOMAIN tick'
  BY DEF TickSignal, EndAwaited, NextVoice, NoTick
<1> QED BY <1>1, <1>2, <1>3, QuietKeeps

\* Steps of the PCM task between its waits, outside any play.
LEMMA IdleKeeps ==
    ASSUME Sound, WaitCommands \/ WaitReports \/ ReportsDone \/ CommandsDone \/ PcmSignal
    PROVE  Sound'
<1>1. VoicesStay
  BY DEF WaitCommands, WaitReports, ReportsDone, CommandsDone, PcmSignal, VoicesStay, noteVars,
         pairVars, soundVars, pastVars, endVars
<1>2. ~Busy /\ ~Busy' /\ play' = play
  BY DEF WaitCommands, WaitReports, ReportsDone, CommandsDone, PcmSignal, PcmRuns, Busy, InPlay,
         GivenUp
<1>3. PlayStays
  BY <1>2 DEF Busy, InPlay, GivenUp, PlayStays, Sound, Shaped, Played, Left, Playing
<1>4. EndAwaited'
  <2>1. CASE PcmSignal
    BY <2>1 DEF PcmSignal, EndAwaited
  <2>2. CASE ~PcmSignal
    BY <2>2 DEF WaitCommands, WaitReports, ReportsDone, CommandsDone, PcmRuns, EndAwaited, Sound,
                Hearing, endVars, tickVars
  <2> QED BY <2>1, <2>2
<1>5. "pc" \in DOMAIN tick'
  BY DEF WaitCommands, WaitReports, ReportsDone, CommandsDone, PcmSignal, tickVars, Sound, Typed
<1> QED BY <1>1, <1>3, <1>4, <1>5, QuietKeeps

\* Steps of a play that change no voice: given up, waiting, or one further.
LEMMA AbandonKeeps ==
    ASSUME Sound, InPlay, Withdrawn, Abandon, VoicesStay, told' = told, tick' = tick
    PROVE  Sound'
<1>1. /\ pcm' = "tail" /\ play' = [play EXCEPT !.left = play.voices] /\ play \in Plays
      /\ Busy /\ Busy' /\ ~InPlay' /\ GivenUp' /\ ~GivenUp
  BY DEF Abandon, Busy, InPlay, GivenUp, Sound, Shaped
<1>2. /\ play'.voices = play.voices /\ play'.anew = play.anew /\ play'.at = play.at
      /\ play'.left = play.voices /\ play' \in Plays
  BY <1>1 DEF Plays
<1>3. Played' = Played /\ Left' = Played /\ Playing' = Playing
  BY <1>2 DEF Played, Left, Playing
<1>4. play.voices # <<>>
  BY <1>1 DEF Sound, Shaped
<1>5. Shaped'
  BY <1>1, <1>2, <1>3, <1>4 DEF Sound, Shaped
<1>6. PlayStays
  BY <1>1, <1>2, <1>3, <1>5 DEF PlayStays, Withdrawn
<1>7. EndAwaited'
  BY DEF EndAwaited, Sound, Hearing, InPlay, VoicesStay
<1> QED BY <1>6, <1>7, QuietKeeps DEF Sound, Typed

LEMMA MaskSetKeeps == ASSUME Sound, MaskSet PROVE Sound'
<1>1. VoicesStay /\ told' = told /\ tick' = tick /\ pcm = "mask" /\ InPlay
  BY DEF MaskSet, VoicesStay, noteVars, pairVars, soundVars, pastVars, endVars, tickVars, PcmRuns,
         InPlay
<1>2. CASE Withdrawn
  BY <1>1, <1>2, AbandonKeeps DEF MaskSet
<1>3. CASE ~Withdrawn
  <2>1. pcm' = "park" /\ play' = play
    BY <1>3 DEF MaskSet
  <2>2. /\ Played' = Played /\ Ready' = Ready /\ InPlay' /\ Busy /\ Busy' /\ ~GivenUp'
        /\ ~GivenUp /\ Left' = Left
    BY <1>1, <2>1 DEF Played, Left, Ready, Done, InPlay, Busy, GivenUp
  <2>3. Shaped'
    BY <2>1, <2>2 DEF Sound, Shaped
  <2>4. PlayStays
    BY <1>1, <2>1, <2>2, <2>3 DEF PlayStays
  <2>5. EndAwaited'
    BY <1>1 DEF EndAwaited, Sound, Hearing, VoicesStay
  <2> QED BY <1>1, <2>4, <2>5, QuietKeeps DEF Sound, Typed
<1> QED BY <1>2, <1>3

LEMMA SetupKeeps == ASSUME Sound, Setup PROVE Sound'
<1>1. VoicesStay /\ told' = told /\ tick' = tick /\ pcm = "setup"
  BY DEF Setup, VoicesStay, noteVars, pairVars, soundVars, pastVars, endVars, tickVars, PcmRuns
<1>2. CASE Withdrawn
  BY <1>1, <1>2, AbandonKeeps DEF Setup, InPlay
<1>3. CASE ~Withdrawn
  <2>1. PlayStays
    BY <1>1, <1>3, SetupDone DEF Setup, Sound, PlayStays, InPlay, GivenUp
  <2>2. EndAwaited'
    BY <1>1 DEF EndAwaited, Sound, Hearing, VoicesStay
  <2> QED BY <1>1, <2>1, <2>2, QuietKeeps DEF Sound, Typed
<1> QED BY <1>2, <1>3

LEMMA AckKeeps == ASSUME Sound, ParamAck \/ WaitAck PROVE Sound'
<1>1. /\ VoicesStay /\ told' = told /\ tick' = tick
      /\ pcm \in {"ack", "waitack"}
  BY DEF ParamAck, WaitAck, VoicesStay, noteVars, pairVars, soundVars, pastVars, endVars, tickVars,
         PcmRuns
<1>2. EndAwaited'
  BY <1>1 DEF EndAwaited, Sound, Hearing, VoicesStay
<1>3. CASE ParamAck /\ Withdrawn
  BY <1>1, <1>3, AbandonKeeps DEF ParamAck, InPlay
<1>4. CASE play' = play /\ pcm' \in {"ack", "waitack"}
  <2>1. Played' = Played /\ InPlay /\ InPlay' /\ Busy /\ ~GivenUp' /\ Left' = Left
    BY <1>1, <1>4 DEF Played, Left, InPlay, Busy, GivenUp
  <2>2. Shaped'
    BY <1>4, <2>1 DEF Sound, Shaped, Busy
  <2>3. Ready' = Ready
    BY <1>1, <1>4 DEF Ready, Done
  <2>4. PlayStays
    BY <1>4, <2>1, <2>2, <2>3 DEF PlayStays
  <2> QED BY <1>1, <1>2, <2>4, QuietKeeps DEF Sound, Typed
<1>5. CASE pcm = "ack" /\ GoOn("ack", "write")
  <2>1. PlayStays
    BY <1>5, AckDone DEF Sound, PlayStays, InPlay, GivenUp
  <2> QED BY <1>1, <1>2, <2>1, QuietKeeps DEF Sound, Typed
<1> QED BY <1>3, <1>4, <1>5 DEF ParamAck, WaitAck, PcmRuns

\* The two voices of a note.
LEMMA NoteFacts ==
    ASSUME Typed, Paired
    PROVE  \A v \in Voices :
             /\ v \notin owned => mate[v] = None /\ ~Linked(v)
             /\ mate[v] # None => /\ mate[v] \in Voices /\ mate[v] \in owned /\ mate[v] # v
                                  /\ mate[mate[v]] = v /\ v \in owned
             /\ Linked(v) => mate[v] # None /\ Linked(mate[v])
             /\ before[v] # None => before[v] = mate[v]
             /\ after[v] # None => after[v] = mate[v]
BY NoneIsNoVoice DEF Typed, Links, Paired, PairedAt, Linked

LEMMA NoteOfFacts ==
    ASSUME Typed, Paired, NEW v \in Voices, v \in owned
    PROVE  /\ NoteOf(v) \subseteq owned /\ v \in NoteOf(v)
           /\ \A u \in NoteOf(v) : u = v \/ (u = mate[v] /\ mate[u] = v /\ u # v)
           /\ \A u \in Voices : mate[u] # None => (mate[u] \in NoteOf(v) <=> u \in NoteOf(v))
           /\ None \notin NoteOf(v)
BY NoteFacts, NoneIsNoVoice DEF NoteOf, Typed

\* A play that goes on as it is.
LEMMA SamePlay ==
    ASSUME Shaped, play' = play, pcm' = pcm
    PROVE  /\ Shaped' /\ Played' = Played /\ Ready' = Ready /\ Playing' = Playing
           /\ InPlay' = InPlay /\ GivenUp' = GivenUp /\ Left' = Left
           /\ GivenUp => Playing \in Played /\ Head(play.left) \in Voices
<1>1. GivenUp => Playing \in Played /\ Head(play.left) \in Voices
  BY PlayFacts DEF Busy
<1> QED BY <1>1 DEF Shaped, Busy, InPlay, GivenUp, Played, Left, Ready, Done, Playing

LEMMA NoteOnKeeps ==
    ASSUME Sound, NEW vs, NEW a \in Voices, NEW b \in Voices,
           vs = <<a>> \/ (vs = <<a, b>> /\ a # b), NoteOn(vs)
    PROVE  Sound'
<1> DEFINE S == Members(vs)
<1>1. a \in S /\ S \subseteq Voices /\ (vs = <<a>> => S = {a}) /\ (vs = <<a, b>> => S = {a, b})
  BY NoteVoices
<1>2. /\ cmd' = Mark(cmd, S, "play") /\ state' = Mark(state, S, "cut") /\ S \cap owned = {}
      /\ owned' = owned \cup S /\ anew' = anew \cup S /\ strays' = strays \ S
      /\ saved' = saved /\ fresh' = fresh /\ ended' = ended /\ told' = told /\ tick' = tick
      /\ play' = play /\ pcm' = pcm
  BY DEF NoteOn, PcmStart, Counted, endVars, pcmVars, tickVars
<1>3. \/ vs = <<a>> /\ before' = before /\ after' = after /\ mate' = mate
      \/ /\ vs = <<a, b>> /\ a # b
         /\ before' = [before EXCEPT ![b] = a] /\ after' = [after EXCEPT ![a] = b]
         /\ mate' = [mate EXCEPT ![a] = b, ![b] = a]
  <2>1. CASE vs = <<a>>
    BY <2>1, NoteVoices DEF NoteOn
  <2>2. CASE vs = <<a, b>> /\ a # b
    <3>1. vs[1] = a /\ vs[2] = b /\ Len(vs) = 2
      BY <2>2
    <3> QED BY <2>2, <3>1 DEF NoteOn
  <2> QED BY <2>1, <2>2
<1> HIDE DEF S
<1>4. \A u \in Voices : /\ cmd'[u] = IF u \in S THEN "play" ELSE cmd[u]
                        /\ state'[u] = IF u \in S THEN "cut" ELSE state[u]
  BY <1>2 DEF Mark
<1>5. Typed'
  BY <1>1, <1>2, <1>3 DEF Sound, Typed, Mark, Links, States, Fading
<1>6. /\ \A u \in Voices \ S : before'[u] = before[u] /\ after'[u] = after[u] /\ mate'[u] = mate[u]
      /\ \A u \in S : mate[u] = None /\ ~Linked(u)
      /\ \A u \in Voices : mate[u] \notin S
  <2>1. \A u \in S : u \notin owned /\ u # None
    BY <1>1, <1>2, NoneIsNoVoice
  <2> QED BY <1>1, <1>3, <2>1, NoteFacts DEF Sound, Typed, Links
<1>7. \/ S = {a} /\ ~Linked(a)' /\ mate'[a] = None
      \/ /\ S = {a, b} /\ mate'[a] = b /\ mate'[b] = a /\ before'[b] = a /\ after'[a] = b
         /\ before'[a] = None /\ after'[b] = None /\ Linked(a)' /\ Linked(b)'
  BY <1>1, <1>3, <1>6, NoneIsNoVoice DEF Sound, Typed, Links, Linked
<1>8. /\ \A u \in Voices \ S : Linked(u)' = Linked(u)
      /\ \A u \in S : Linked(u)' => mate'[u] \in S
      /\ \A u \in S : mate'[u] # None => Linked(u)'
  BY <1>6, <1>7 DEF Linked
<1>9. Paired'
  <2>1. \A u \in Voices \ S : /\ mate[u] # None => mate[u] \in Voices \ S
                              /\ before[u] # None => before[u] = mate[u] /\ mate[u] # None
                              /\ after[u] # None => after[u] = mate[u] /\ mate[u] # None
    BY <1>6, NoteFacts DEF Sound, Paired
  <2>2. ASSUME NEW u \in Voices \ S PROVE PairedAt(u)'
    BY <1>2, <1>6, <2>1 DEF Sound, Paired, PairedAt
  <2>3. ASSUME NEW u \in S PROVE PairedAt(u)'
    BY <1>2, <1>7 DEF Linked, PairedAt
  <2> QED BY <2>2, <2>3 DEF Paired
<1>10. Ordered'
  <2>1. \A u \in Voices : Linked(u) => mate[u] \in Voices \ S
    BY <1>6, NoteFacts DEF Sound
  <2>2. ASSUME NEW u \in Voices \ S PROVE OrderedAt(u)'
    BY <1>2, <1>4, <1>6, <1>8, <2>1 DEF Sound, Ordered, OrderedAt, IsCut
  <2>3. ASSUME NEW u \in S PROVE OrderedAt(u)'
    BY <1>1, <1>2, <1>4, <1>8 DEF OrderedAt, IsCut
  <2> QED BY <2>2, <2>3 DEF Ordered
<1>11. /\ Shaped' /\ Played' = Played /\ Ready' = Ready /\ Playing' = Playing /\ InPlay' = InPlay
       /\ Played \subseteq Voices /\ Ready \subseteq Played /\ play.anew \subseteq Played
       /\ GivenUp' = GivenUp /\ Left' = Left /\ (GivenUp => Playing \in Played /\ Head(play.left) \in Voices)
  BY <1>2, SamePlay, PlayFacts DEF Sound, Busy, GivenUp
<1>12. Hearing'
  <2>1. EndAwaited'
    BY <1>2 DEF EndAwaited, Sound, Hearing
  <2>2. ended' \in owned' => ended' \in anew' \/ ended' \in fresh' \/ Gone(ended)'
    <3>1. CASE ended \in S
      BY <1>2, <3>1
    <3>2. CASE ended \notin S /\ ended \in owned
      BY <1>2, <1>4, <1>8, <1>11, <3>2 DEF Sound, Typed, Hearing, Gone, Alone
    <3> QED BY <1>2, <3>1, <3>2
  <2>3. \A u \in Voices : Ending(state'[u]) \/ (state'[u] = "parked" /\ Ending(saved'[u]))
                          => ~Linked(u)'
    BY <1>2, <1>4, <1>8 DEF Sound, Hearing, Ending
  <2> QED BY <2>1, <2>2, <2>3 DEF Hearing, EndAwaited, Ending
<1>13. Staged'
  <2>1. Together'
    BY <1>2, <1>4, <1>6, <1>11 DEF Sound, Staged, Together
  <2>2. \A u \in play.anew : Starts(u)'
    BY <1>2, <1>4, <1>6, <1>11 DEF Sound, Staged, Starts
  <2>3. InPlay => \A u \in Ready : Waits(u)'
    BY <1>2, <1>4, <1>8, <1>11 DEF Sound, Staged, Waits
  <2>4. GivenUp => cmd'[Playing] # "none"
    BY <1>4, <1>11 DEF Sound, Staged
  <2>5. Parked' /\ (pcm = "unmark" => state'[Head(play.left)] # "parked")
    BY <1>2, <1>4, <1>11 DEF Sound, Staged, Parked, GivenUp
  <2> QED BY <1>2, <1>11, <2>1, <2>2, <2>3, <2>4, <2>5 DEF Staged
<1>14. Freed'
  <2>1. \A u : Free(u)' => Free(u) /\ u \notin S
    BY <1>2 DEF Free
  <2> QED BY <1>2, <1>4, <1>11, <2>1 DEF Sound, Freed, Free
<1> QED BY <1>5, <1>9, <1>10, <1>11, <1>12, <1>13, <1>14 DEF Sound

LEMMA NoteEmptyKeeps ==
    ASSUME Sound, NEW v \in Voices, NoteEmpty(v)
    PROVE  Sound'
<1>1. /\ state' = Mark(state, {v}, "cut") /\ v \notin owned
      /\ owned' = IF v \in fresh THEN owned \cup {v} ELSE owned
      /\ cmd' = cmd /\ anew' = anew /\ strays' = strays /\ saved' = saved /\ fresh' = fresh
      /\ mate' = mate /\ before' = before /\ after' = after
      /\ ended' = ended /\ told' = told /\ tick' = tick
      /\ play' = play /\ pcm' = pcm
  BY DEF NoteEmpty, PcmStart, Counted, pairVars, endVars, pcmVars, tickVars, pastVars
<1>2. \A u \in Voices : state'[u] = IF u = v THEN "cut" ELSE state[u]
  BY <1>1 DEF Mark
<1>3. /\ ~Linked(v) /\ \A u \in Voices : Linked(u)' = Linked(u)
      /\ v \in owned' => v \in fresh /\ cmd[v] = "none" /\ v \notin anew
  BY <1>1, NoteFacts DEF Sound, Linked, Ordered, OrderedAt
<1>4. Typed'
  BY <1>1 DEF Sound, Typed, Mark, States, Fading
<1>5. Paired'
  BY <1>1 DEF Sound, Paired, PairedAt
<1>6. Ordered'
  <2>1. ASSUME NEW u \in Voices PROVE OrderedAt(u)'
    BY <1>1, <1>2, <1>3 DEF Sound, Ordered, OrderedAt, IsCut
  <2> QED BY <2>1 DEF Ordered
<1>7. /\ Shaped' /\ Played' = Played /\ Ready' = Ready /\ Playing' = Playing /\ InPlay' = InPlay
      /\ Played \subseteq Voices /\ Ready \subseteq Played /\ play.anew \subseteq Played
      /\ GivenUp' = GivenUp /\ Left' = Left /\ (GivenUp => Head(play.left) \in Voices)
  BY <1>1, SamePlay, PlayFacts DEF Sound
<1>8. Hearing'
  <2>1. EndAwaited'
    BY <1>1 DEF EndAwaited, Sound, Hearing
  <2>2. ended' \in owned' => ended' \in anew' \/ ended' \in fresh' \/ Gone(ended)'
    BY <1>1, <1>2, <1>3, <1>7 DEF Sound, Typed, Hearing, Gone, Alone
  <2>3. \A u \in Voices : Ending(state'[u]) \/ (state'[u] = "parked" /\ Ending(saved'[u]))
                          => ~Linked(u)'
    BY <1>1, <1>2, <1>3 DEF Sound, Hearing, Ending
  <2> QED BY <2>1, <2>2, <2>3 DEF Hearing, EndAwaited, Ending
<1>9. Staged'
  <2>1. Together'
    BY <1>1, <1>7 DEF Sound, Staged, Together
  <2>2. \A u \in play.anew : Starts(u)'
    BY <1>1, <1>2, <1>3, <1>7 DEF Sound, Staged, Starts
  <2>3. InPlay => \A u \in Ready : Waits(u)'
    BY <1>1, <1>2, <1>3, <1>7 DEF Sound, Staged, Waits
  <2>4. Parked' /\ (pcm = "unmark" => state'[Head(play.left)] # "parked")
    BY <1>1, <1>2, <1>7 DEF Sound, Staged, Parked, GivenUp
  <2> QED BY <1>1, <1>7, <2>1, <2>2, <2>3, <2>4 DEF Sound, Staged
<1>10. Freed'
  BY <1>1, <1>2, <1>7 DEF Sound, Freed, Free, Watched
<1> QED BY <1>4, <1>5, <1>6, <1>7, <1>8, <1>9, <1>10 DEF Sound

LEMMA TieKeeps ==
    ASSUME Sound, NEW v \in Voices, Tie(v)
    PROVE  Sound'
<1> DEFINE S == NoteOf(v)
<1>1. /\ cmd' = Mark(cmd, S, "play") /\ anew' = anew \ S
      /\ v \in owned /\ ~IsCut(v)
      /\ state' = state /\ owned' = owned /\ strays' = strays /\ saved' = saved /\ fresh' = fresh
      /\ mate' = mate /\ before' = before /\ after' = after
      /\ ended' = ended /\ told' = told /\ tick' = tick
      /\ play' = play /\ pcm' = pcm
  BY DEF Tie, IsCut, Watched, Counted, pairVars, soundVars, endVars, pcmVars, tickVars, pastVars
<1>2. /\ S \subseteq owned /\ v \in S /\ \A u \in S : u = v \/ (u = mate[v] /\ mate[u] = v /\ u # v)
      /\ \A u \in Voices : mate[u] # None => (mate[u] \in S <=> u \in S)
      /\ S \subseteq Voices
  BY <1>1, NoteOfFacts DEF Sound, Typed
<1> HIDE DEF S
<1>3. \A u \in Voices : cmd'[u] = IF u \in S THEN "play" ELSE cmd[u]
  BY <1>1 DEF Mark
<1>4. \A u \in Voices : Linked(u)' = Linked(u) /\ (Linked(u) => mate[u] # None /\ mate[u] \in Voices)
  BY <1>1, NoteFacts DEF Sound, Linked
\* Who sounds is not about to start anew, nor is its mate.
<1>5. state[v] # "cut" /\ \A u \in S : u \notin anew
  <2>1. state[v] # "cut" /\ v \notin anew
    BY <1>1, <1>2 DEF Sound, Ordered, OrderedAt, IsCut
  <2>2. ASSUME NEW u \in S, u # v PROVE u \notin anew
    BY <1>2, <2>1, <2>2, NoneIsNoVoice DEF Sound, Ordered, OrderedAt, IsCut
  <2> QED BY <2>1, <2>2
<1>6. Typed'
  BY <1>1 DEF Sound, Typed, Mark
<1>7. Paired'
  BY <1>1 DEF Sound, Paired, PairedAt
<1>8. Ordered'
  <2>1. ASSUME NEW u \in Voices PROVE OrderedAt(u)'
    BY <1>1, <1>2, <1>3, <1>4, <1>5 DEF Sound, Ordered, OrderedAt, IsCut
  <2> QED BY <2>1 DEF Ordered
<1>9. /\ Shaped' /\ Played' = Played /\ Ready' = Ready /\ Playing' = Playing /\ InPlay' = InPlay
      /\ Played \subseteq Voices /\ Ready \subseteq Played /\ play.anew \subseteq Played
      /\ GivenUp' = GivenUp /\ Left' = Left /\ (GivenUp => Playing \in Played /\ Head(play.left) \in Voices)
  BY <1>1, SamePlay, PlayFacts DEF Sound, Busy, GivenUp
<1>10. Hearing'
  <2>1. EndAwaited'
    BY <1>1 DEF EndAwaited, Sound, Hearing
  <2>2. ended' \in owned' => ended' \in anew' \/ ended' \in fresh' \/ Gone(ended)'
    BY <1>1, <1>4, <1>5, <1>9 DEF Sound, Typed, Hearing, Gone, Alone
  <2>3. \A u \in Voices : Ending(state'[u]) \/ (state'[u] = "parked" /\ Ending(saved'[u]))
                          => ~Linked(u)'
    BY <1>1, <1>4 DEF Sound, Hearing, Ending
  <2> QED BY <2>1, <2>2, <2>3 DEF Hearing, EndAwaited, Ending
<1>11. Staged'
  <2>1. Together'
    BY <1>1, <1>2, <1>3, <1>9, NoneIsNoVoice DEF Sound, Staged, Together
  <2>2. \A u \in play.anew : Starts(u)'
    <3>1. S \cap play.anew = {}
      <4>1. v \notin play.anew
        BY <1>5 DEF Sound, Staged, Starts
      <4>2. ASSUME NEW u \in S, u # v, u \in play.anew PROVE FALSE
        <5>1. cmd[u] = "none"
          BY <1>2, <1>5, <4>2 DEF Sound, Staged, Starts
        <5>2. v \in Played
          BY <1>2, <4>2, <5>1, NoneIsNoVoice DEF Sound, Staged, Starts
        <5> QED BY <1>9, <4>1, <4>2, <5>2 DEF Sound, Staged, Together
      <4> QED BY <4>1, <4>2
    <3> QED BY <1>1, <1>3, <1>9, <3>1 DEF Sound, Staged, Starts
  <2>3. InPlay => \A u \in Ready : Waits(u)'
    BY <1>1, <1>3, <1>4, <1>9 DEF Sound, Staged, Waits
  <2>4. GivenUp => cmd'[Playing] # "none"
    BY <1>3, <1>9 DEF Sound, Staged
  <2>5. Parked'
    BY <1>1, <1>9 DEF Sound, Staged, Parked
  <2> QED BY <1>1, <1>9, <2>1, <2>2, <2>3, <2>4, <2>5 DEF Sound, Staged
<1>12. Freed'
  <2>1. \A u : Free(u)' => Free(u) /\ u \notin S
    BY <1>1, <1>2 DEF Free
  <2> QED BY <1>1, <1>3, <1>9, <2>1 DEF Sound, Freed, Free
<1> QED BY <1>6, <1>7, <1>8, <1>9, <1>10, <1>11, <1>12 DEF Sound

\* What is left of the links when some voices are taken out.
LEMMA LinksCut ==
    ASSUME Typed, Paired, NEW S,
           before' = Cut(before, S), after' = Cut(after, S), mate' = Cut(mate, S) \/ mate' = mate
    PROVE  /\ before' \in Links /\ after' \in Links /\ mate' \in Links
           /\ \A v \in Voices : /\ v \notin S /\ mate[v] \notin S =>
                                     /\ mate'[v] = mate[v] /\ Linked(v)' = Linked(v)
                                     /\ before'[v] = before[v] /\ after'[v] = after[v]
                                /\ v \in S \/ mate[v] \in S =>
                                     ~Linked(v)' /\ before'[v] = None /\ after'[v] = None
                                /\ mate' = Cut(mate, S) /\ (v \in S \/ mate[v] \in S) => mate'[v] = None
           /\ \A v \in Voices : Linked(v)' => Linked(v) /\ mate'[v] = mate[v]
<1>1. /\ before' \in Links /\ after' \in Links /\ mate' \in Links
  BY CutLinks DEF Typed
<1>2. \A v \in Voices : /\ before'[v] = IF v \in S \/ before[v] \in S THEN None ELSE before[v]
                        /\ after'[v] = IF v \in S \/ after[v] \in S THEN None ELSE after[v]
                        /\ mate' = Cut(mate, S) =>
                             mate'[v] = IF v \in S \/ mate[v] \in S THEN None ELSE mate[v]
  BY CutLinks DEF Typed
<1>3. \A v \in Voices : /\ before[v] # None => before[v] = mate[v]
                        /\ after[v] # None => after[v] = mate[v]
  BY NoteFacts
<1> QED BY <1>1, <1>2, <1>3 DEF Linked

LEMMA ReleaseKeeps ==
    ASSUME Sound, NEW v \in Voices, Release(v)
    PROVE  Sound'
<1> DEFINE S == NoteOf(v)
<1>1. /\ cmd' = Mark(cmd, S, "stop") /\ state' = Mark(state, S, "cut")
      /\ fresh' = fresh \ S /\ owned' = owned \ S /\ v \in owned
      /\ before' = Cut(before, S) /\ after' = Cut(after, S) /\ mate' = Cut(mate, S)
      /\ anew' = anew /\ strays' = strays /\ saved' = saved
      /\ ended' = ended /\ told' = told /\ tick' = tick
      /\ play' = play /\ pcm' = pcm
  BY DEF Release, PcmStart, Counted, endVars, pcmVars, tickVars, pastVars
<1>2. /\ S \subseteq owned /\ v \in S /\ S \subseteq Voices
      /\ \A u \in Voices : mate[u] # None => (mate[u] \in S <=> u \in S)
      /\ None \notin S
  BY <1>1, NoteOfFacts DEF Sound, Typed
<1> HIDE DEF S
<1>3. \A u \in Voices : /\ cmd'[u] = IF u \in S THEN "stop" ELSE cmd[u]
                        /\ state'[u] = IF u \in S THEN "cut" ELSE state[u]
  BY <1>1 DEF Mark
<1>4. /\ \A u \in Voices \ S : /\ mate'[u] = mate[u] /\ Linked(u)' = Linked(u)
                               /\ before'[u] = before[u] /\ after'[u] = after[u]
                               /\ mate[u] \notin S
      /\ \A u \in S : ~Linked(u)' /\ mate'[u] = None /\ before'[u] = None /\ after'[u] = None
  BY <1>1, <1>2, LinksCut DEF Sound
<1>5. Typed'
  BY <1>1, LinksCut DEF Sound, Typed, Mark, States, Fading
<1>6. \A u \in Voices : /\ mate[u] # None => mate[u] \in Voices
                        /\ Linked(u) => mate[u] # None
                        /\ before[u] # None => mate[u] # None
                        /\ after[u] # None => mate[u] # None
  BY NoteFacts DEF Sound, Paired, PairedAt
<1>7. Paired'
  <2>1. ASSUME NEW u \in Voices \ S PROVE PairedAt(u)'
    BY <1>1, <1>4, <1>6 DEF Sound, Paired, PairedAt
  <2>2. ASSUME NEW u \in S PROVE PairedAt(u)'
    BY <1>4 DEF PairedAt
  <2> QED BY <2>1, <2>2 DEF Paired
<1>8. Ordered'
  <2>1. ASSUME NEW u \in Voices \ S PROVE OrderedAt(u)'
    BY <1>1, <1>3, <1>4, <1>6 DEF Sound, Ordered, OrderedAt, IsCut
  <2>2. ASSUME NEW u \in S PROVE OrderedAt(u)'
    BY <1>1, <1>2, <1>3, <1>4 DEF OrderedAt, IsCut
  <2> QED BY <2>1, <2>2 DEF Ordered
<1>9. /\ Shaped' /\ Played' = Played /\ Ready' = Ready /\ Playing' = Playing /\ InPlay' = InPlay
      /\ Played \subseteq Voices /\ Ready \subseteq Played /\ play.anew \subseteq Played
      /\ GivenUp' = GivenUp /\ Left' = Left /\ (GivenUp => Playing \in Played /\ Head(play.left) \in Voices)
  BY <1>1, SamePlay, PlayFacts DEF Sound, Busy, GivenUp
<1>10. Hearing'
  <2>1. EndAwaited'
    BY <1>1 DEF EndAwaited, Sound, Hearing
  <2>2. ended' \in owned' => ended' \in anew' \/ ended' \in fresh' \/ Gone(ended)'
    BY <1>1, <1>3, <1>4, <1>9 DEF Sound, Typed, Hearing, Gone, Alone
  <2>3. \A u \in Voices : Ending(state'[u]) \/ (state'[u] = "parked" /\ Ending(saved'[u]))
                          => ~Linked(u)'
    BY <1>1, <1>3, <1>4 DEF Sound, Hearing, Ending
  <2> QED BY <2>1, <2>2, <2>3 DEF Hearing, EndAwaited, Ending
<1>11. Staged'
  <2>1. Together'
    <3>1. \A u, w \in Played : u # w /\ cmd[u] = "none" => (u \in S <=> w \in S)
      BY <1>2, <1>9, NoneIsNoVoice DEF Sound, Staged, Together
    <3> QED BY <1>1, <1>3, <1>4, <1>9, <3>1 DEF Sound, Staged, Together
  <2>2. \A u \in play.anew : Starts(u)'
    BY <1>1, <1>3, <1>4, <1>9 DEF Sound, Staged, Starts
  <2>3. InPlay => \A u \in Ready : Waits(u)'
    BY <1>1, <1>3, <1>4, <1>9 DEF Sound, Staged, Waits
  <2>4. GivenUp => cmd'[Playing] # "none"
    BY <1>3, <1>9 DEF Sound, Staged
  <2>5. Parked' /\ (pcm = "unmark" => state'[Head(play.left)] # "parked")
    BY <1>1, <1>3, <1>9 DEF Sound, Staged, Parked, GivenUp
  <2> QED BY <1>1, <1>9, <2>1, <2>2, <2>3, <2>4, <2>5 DEF Sound, Staged
<1>12. Freed'
  <2>1. \A u : Free(u)' /\ u \notin S => Free(u)
    BY <1>1 DEF Free
  <2>2. \A u \in Voices : Free(u)' => /\ state'[u] \notin Watched /\ cmd'[u] # "play"
                                      /\ state'[u] = "parked" => saved'[u] \notin Watched
    BY <1>1, <1>3, <2>1 DEF Sound, Freed, Watched
  <2> QED BY <1>1, <1>3, <1>9, <2>1, <2>2 DEF Sound, Freed
<1> QED BY <1>5, <1>7, <1>8, <1>9, <1>10, <1>11, <1>12 DEF Sound

LEMMA HearEndKeeps ==
    ASSUME Sound, HearEnd
    PROVE  Sound'
<1> DEFINE e == ended
<1>1. /\ cmd' = cmd /\ state' = state /\ fresh' = fresh /\ anew' = anew /\ saved' = saved
      /\ told' = FALSE /\ tick' = tick /\ ended' = (IF tick.pc = "end" THEN e ELSE None)
      /\ play' = play /\ pcm' = pcm
  BY DEF HearEnd, soundVars, pcmVars, tickVars
<1>2. EndAwaited'
  BY <1>1 DEF EndAwaited
<1>3. /\ Shaped' /\ Played' = Played /\ Ready' = Ready /\ Playing' = Playing /\ InPlay' = InPlay
      /\ Played \subseteq Voices /\ Ready \subseteq Played /\ play.anew \subseteq Played
      /\ GivenUp' = GivenUp /\ Left' = Left /\ (GivenUp => Playing \in Played /\ Head(play.left) \in Voices)
      /\ ~Busy => Played = {}
  BY <1>1, SamePlay, PlayFacts DEF Sound, Busy, GivenUp
<1>4. CASE e \notin owned \ fresh
  <2>1. owned' = owned /\ mate' = mate /\ before' = before /\ after' = after /\ strays' = strays
    BY <1>4 DEF HearEnd, pairVars, pastVars
  <2>2. VoicesStay
    BY <1>1, <2>1 DEF VoicesStay
  <2>3. PlayStays
    <3>1. GivenUp => Left' = Left
      BY <1>3
    <3> QED BY <1>1, <1>3, <3>1 DEF PlayStays, Sound, Staged
  <2> QED BY <1>1, <1>2, <2>2, <2>3, QuietKeeps DEF Sound, Typed
<1>5. CASE e \in owned \ fresh
  <2>1. /\ owned' = owned \ {e} /\ e \in owned /\ e \notin fresh /\ e \in Voices
        /\ before' = Cut(before, {e}) /\ after' = Cut(after, {e}) /\ mate' = Cut(mate, {e})
        /\ strays' = IF cmd[e] = "play" THEN strays \cup {e} ELSE strays
    BY <1>5 DEF HearEnd, Sound, Typed
  <2> HIDE DEF e
  \* The voice waits for its play, or has come to its end.
  <2>2. (e \in anew /\ cmd[e] = "play") \/ Gone(e)
    BY <2>1 DEF e, Sound, Hearing, Ordered, OrderedAt
  <2>3. \A u \in Voices :
          /\ u # e /\ mate[u] # e => /\ mate'[u] = mate[u] /\ Linked(u)' = Linked(u)
                                     /\ before'[u] = before[u] /\ after'[u] = after[u]
          /\ u = e \/ mate[u] = e => /\ ~Linked(u)' /\ mate'[u] = None
                                     /\ before'[u] = None /\ after'[u] = None
    <3> DEFINE S == {e}
    <3>1. before' = Cut(before, S) /\ after' = Cut(after, S) /\ mate' = Cut(mate, S)
      BY <2>1
    <3>2. \A u : u \in S <=> u = e
      OBVIOUS
    <3> HIDE DEF S
    <3> QED BY <3>1, <3>2, LinksCut DEF Sound
  <2>4. Typed'
    BY <1>1, <2>1, CutLinks DEF Sound, Typed
  <2>5. \A u \in Voices : /\ mate[u] # None => mate[u] \in Voices /\ mate[mate[u]] = u
                          /\ Linked(u) => mate[u] # None
                          /\ before[u] # None => mate[u] # None
                          /\ after[u] # None => mate[u] # None
    BY NoteFacts DEF Sound, Paired, PairedAt
  <2>6. Paired'
    <3>1. ASSUME NEW u \in Voices, u # e, mate[u] # e PROVE PairedAt(u)'
      BY <2>1, <2>3, <2>5, <3>1, NoneIsNoVoice DEF Sound, Paired, PairedAt
    <3>2. ASSUME NEW u \in Voices, u = e \/ mate[u] = e PROVE PairedAt(u)'
      BY <2>3, <3>2 DEF PairedAt
    <3> QED BY <3>1, <3>2 DEF Paired
  <2>7. Ordered'
    <3>1. ASSUME NEW u \in Voices PROVE OrderedAt(u)'
      BY <1>1, <2>1, <2>3, <2>5 DEF Sound, Ordered, OrderedAt, IsCut
    <3> QED BY <3>1 DEF Ordered
  <2>8. Hearing'
    <3>1. ended' \notin owned'
      BY <1>1, <2>1, NoneIsNoVoice DEF Sound, Typed
    <3>2. \A u \in Voices : Ending(state'[u]) \/ (state'[u] = "parked" /\ Ending(saved'[u]))
                            => ~Linked(u)'
      BY <1>1, <2>3 DEF Sound, Hearing, Ending
    <3> QED BY <1>2, <3>1, <3>2 DEF Hearing, EndAwaited, Ending
  <2>9. Staged'
    <3>1. Together'
      <4>1. ASSUME NEW u \in Played, NEW w \in Played, u # w, u = e, cmd[u] = "none" PROVE FALSE
        <5>1. Gone(e) /\ ~InPlay
          BY <2>2, <4>1 DEF Gone, Alone
        <5>2. GivenUp
          BY <1>1, <1>3, <4>1, <5>1 DEF Busy, GivenUp
        <5> QED BY <1>3, <4>1, <5>2 DEF Sound, Staged, Together
      <4>2. ASSUME NEW u \in Played, NEW w \in Played, u # w, cmd[u] = "none" PROVE u # e /\ w # e
        BY <4>1, <4>2 DEF Sound, Staged, Together
      <4> QED BY <1>1, <1>3, <2>3, <4>2 DEF Sound, Staged, Together
    <3>2. \A u \in play.anew : Starts(u)'
      BY <1>1, <1>3, <2>1, <2>3 DEF Sound, Staged, Starts
    <3>3. InPlay => \A u \in Ready : Waits(u)'
      BY <1>1, <1>3, <2>3 DEF Sound, Staged, Waits
    <3>4. Parked'
      BY <1>1, <1>3 DEF Sound, Staged, Parked
    <3> QED BY <1>1, <1>3, <3>1, <3>2, <3>3, <3>4 DEF Sound, Staged
  <2>10. Freed'
    <3>1. \A u : Free(u)' => Free(u) \/ (u = e /\ Gone(e) /\ cmd[e] # "play")
      BY <2>1, <2>2 DEF Free
    <3>2. \A u \in Voices : Free(u)' => /\ state'[u] \notin Watched /\ cmd'[u] # "play"
                                        /\ state'[u] = "parked" => saved'[u] \notin Watched
      BY <1>1, <3>1 DEF Sound, Freed, Gone, Watched
    <3>3. InPlay => \A u \in Played : Free(u)' /\ cmd[u] = "none" =>
                      u \notin play.anew /\ (u \in Ready => saved[u] \notin Watched)
      <4>1. ASSUME InPlay, NEW u \in Played, u = e, Gone(e), cmd[u] = "none"
            PROVE  u \notin play.anew /\ (u \in Ready => saved[u] \notin Watched)
        BY <4>1 DEF Sound, Staged, Starts, Waits, Gone, Watched
      <4> QED BY <3>1, <4>1 DEF Sound, Freed
    <3> QED BY <1>1, <1>3, <3>2, <3>3 DEF Freed
  <2> QED BY <1>3, <2>4, <2>6, <2>7, <2>8, <2>9, <2>10 DEF Sound
<1> QED BY <1>4, <1>5

\* Between two plays nothing is left of a play.
LEMMA NoPlayThen ==
    ASSUME Shaped, ~Busy, ~Busy', play' = play
    PROVE  /\ Shaped' /\ Played = {} /\ Played' = {} /\ Ready' = {} /\ play.anew = {}
           /\ ~InPlay /\ ~InPlay' /\ ~GivenUp' /\ pcm' # "unmark"
<1>1. Shaped'
  BY DEF Shaped, Played, Left, Members, Busy
<1>2. Played' = Played
  BY DEF Played
<1>3. Played = {} /\ play.anew = {}
  BY PlayFacts
<1>4. Ready' \subseteq Played'
  BY DEF Ready, Played, Members
<1> QED BY <1>1, <1>2, <1>3, <1>4 DEF Busy, InPlay, GivenUp

\* A voice outside the play under way begins or comes to its end, and is
\* taken out of its pair.
Ends(v) ==
    /\ \E s \in {"dead", "dying"} : /\ state' = [state EXCEPT ![v] = s]
                                    /\ (ended' = v /\ s = "dead") \/ ended' = ended
    /\ before' = Cut(before, {v}) /\ after' = Cut(after, {v}) /\ mate' = mate
    /\ saved' = saved /\ owned' = owned /\ anew' = anew /\ strays' = strays
    /\ v \in Voices => v \notin Played
    /\ play' = play /\ (pcm' = pcm \/ (~Busy /\ ~Busy'))

LEMMA EndsKeeps ==
    ASSUME Sound, NEW v, Ends(v), EndAwaited', "pc" \in DOMAIN tick',
           \/ /\ cmd' = cmd /\ (v \in Voices => state[v] \in Watched \cup {"dying"})
              /\ fresh' = fresh \/ (fresh' = fresh \ {v} /\ ended = None)
           \/ cmd[v] = "stop" /\ cmd' = [cmd EXCEPT ![v] = "none"] /\ fresh' = fresh \ {v}
    PROVE  Sound'
<1>1. PICK s \in {"dead", "dying"} : /\ state' = [state EXCEPT ![v] = s]
                                     /\ (ended' = v /\ s = "dead") \/ ended' = ended
  BY DEF Ends
<1>2. /\ mate' = mate /\ saved' = saved /\ owned' = owned /\ anew' = anew /\ strays' = strays
      /\ play' = play
  BY DEF Ends
<1>3. \A u \in Voices : /\ state'[u] = IF u = v THEN s ELSE state[u]
                        /\ u # v => cmd'[u] = cmd[u]
                        /\ cmd'[u] # cmd[u] => u = v /\ cmd[u] = "stop" /\ cmd'[u] = "none"
  BY <1>1 DEF Sound, Typed
<1>4. \A u \in Voices : u = v => \/ cmd[u] = "stop" /\ cmd'[u] = "none"
                                 \/ cmd'[u] = cmd[u] /\ state[u] \in Watched \cup {"dying"}
  BY DEF Sound, Typed
<1>5. fresh' \subseteq fresh /\ \A u \in Voices : u # v => (u \in fresh' <=> u \in fresh)
  OBVIOUS
<1>6. \A u \in Voices : u = v => ~(u \in anew /\ cmd[u] = "play")
  BY <1>4 DEF Sound, Ordered, OrderedAt, IsCut, Watched
<1>7. \A u \in Voices :
        /\ u # v /\ mate[u] # v => Linked(u)' = Linked(u) /\ before'[u] = before[u] /\ after'[u] = after[u]
        /\ u = v \/ mate[u] = v => ~Linked(u)' /\ before'[u] = None /\ after'[u] = None
  <2> DEFINE S == {v}
  <2>1. before' = Cut(before, S) /\ after' = Cut(after, S) /\ mate' = mate
    BY DEF Ends
  <2>2. \A u : u \in S <=> u = v
    OBVIOUS
  <2> HIDE DEF S
  <2> QED BY <2>1, <2>2, LinksCut DEF Sound
<1>8. Typed'
  <2>1. before' \in Links /\ after' \in Links
    BY CutLinks DEF Ends, Sound, Typed
  <2>2. state' \in [Voices -> States]
    BY <1>1 DEF Sound, Typed, States, Fading
  <2>3. cmd' \in [Voices -> {"none", "play", "stop"}]
    BY DEF Sound, Typed
  <2> QED BY <1>2, <1>5, <2>1, <2>2, <2>3 DEF Sound, Typed
<1>9. \A u \in Voices : /\ mate[u] # None => mate[u] \in Voices /\ mate[mate[u]] = u
                        /\ Linked(u) => mate[u] # None /\ Linked(mate[u]) /\ u \in owned
                        /\ before[u] # None => mate[u] # None
                        /\ after[u] # None => mate[u] # None
  BY NoteFacts DEF Sound, Paired, PairedAt
<1>10. Paired'
  <2>1. ASSUME NEW u \in Voices, u # v, mate[u] # v PROVE PairedAt(u)'
    BY <1>2, <1>7, <1>9, <2>1, NoneIsNoVoice DEF Sound, Paired, PairedAt
  <2>2. ASSUME NEW u \in Voices, u = v \/ mate[u] = v PROVE PairedAt(u)'
    BY <1>2, <1>7, <2>2 DEF Sound, Paired, PairedAt
  <2> QED BY <2>1, <2>2 DEF Paired
<1>11. Ordered'
  <2>1. ASSUME NEW u \in Voices, u # v, mate[u] # v PROVE OrderedAt(u)'
    BY <1>2, <1>3, <1>5, <1>7, <1>9, <2>1 DEF Sound, Ordered, OrderedAt, IsCut
  <2>2. ASSUME NEW u \in Voices, u # v, mate[u] = v PROVE OrderedAt(u)'
    <3>1. v = None \/ v \in Voices
      BY <2>2, <1>9
    <3>2. u \in owned /\ u \in anew => mate[u] = None
      BY <1>6, <1>9, <2>2, <3>1, NoneIsNoVoice DEF Sound, Ordered, OrderedAt, IsCut
    <3> QED BY <1>2, <1>3, <1>5, <1>7, <2>2, <3>2 DEF Sound, Ordered, OrderedAt, IsCut
  <2>3. ASSUME NEW u \in Voices, u = v PROVE OrderedAt(u)'
    BY <1>2, <1>3, <1>4, <1>5, <1>6, <1>7, <2>3 DEF Sound, Ordered, OrderedAt, IsCut, Watched
  <2> QED BY <2>1, <2>2, <2>3 DEF Ordered
<1>12. /\ Shaped' /\ Played' = Played /\ Ready' \subseteq Ready /\ Played \subseteq Voices
       /\ Ready \subseteq Played /\ play.anew \subseteq Played
       /\ InPlay' => InPlay
       /\ GivenUp' => /\ pcm' = pcm /\ GivenUp /\ Playing' = Playing /\ Playing \in Played
                      /\ Left' = Left /\ Head(play.left) \in Played
  <2>1. CASE pcm' = pcm
    BY <1>2, <2>1, SamePlay, PlayFacts DEF Sound, Busy
  <2>2. CASE ~Busy /\ ~Busy'
    BY <1>2, <2>2, NoPlayThen, PlayFacts DEF Sound
  <2> QED BY <2>1, <2>2 DEF Ends
<1>13. v \in Voices => v \notin Played
  BY DEF Ends
<1>14. Hearing'
  <2>1. ended' \in owned' => ended' \in anew' \/ ended' \in fresh' \/ Gone(ended)'
    <3>1. CASE ended' = v /\ s = "dead"
      BY <1>2, <1>3, <1>7, <1>12, <1>13, <3>1 DEF Sound, Typed, Gone, Alone
    <3>2. CASE ended' = ended /\ ended # v
      <4> SUFFICES ASSUME ended \in owned PROVE ended \in anew \/ ended \in fresh' \/ Gone(ended)'
        BY <1>2, <3>2
      <4>1. ended \in Voices /\ (ended \in anew \/ ended \in fresh' \/ Gone(ended))
        BY <1>5, <3>2 DEF Sound, Typed, Hearing
      <4>2. Gone(ended) => Gone(ended)'
        BY <1>2, <1>3, <1>7, <1>12, <3>2, <4>1 DEF Gone, Alone
      <4> QED BY <3>2, <4>1, <4>2
    <3>3. CASE ended' = ended /\ ended = v
      BY <1>2, <1>3, <1>4, <1>5, <3>3, NoneIsNoVoice DEF Sound, Typed, Hearing, Gone, Watched, Ordered, OrderedAt
    <3> QED BY <1>1, <3>1, <3>2, <3>3
  <2>2. \A u \in Voices : Ending(state'[u]) \/ (state'[u] = "parked" /\ Ending(saved'[u]))
                          => ~Linked(u)'
    BY <1>2, <1>3, <1>7 DEF Sound, Hearing, Ending
  <2> QED BY <2>1, <2>2 DEF Hearing, EndAwaited, Ending
<1>15. Staged'
  <2>1. Together'
    BY <1>2, <1>3, <1>12, <1>13 DEF Sound, Staged, Together
  <2>2. \A u \in play.anew : Starts(u)'
    BY <1>2, <1>3, <1>5, <1>12, <1>13 DEF Sound, Staged, Starts
  <2>3. InPlay' => \A u \in Ready' : Waits(u)'
    BY <1>2, <1>3, <1>7, <1>12, <1>13 DEF Sound, Staged, Waits
  <2>4. Parked'
    BY <1>2, <1>3, <1>12 DEF Sound, Staged, Parked
  <2>5. pcm' = "unmark" => state'[Head(play'.left)] # "parked"
    BY <1>2, <1>3, <1>12 DEF Sound, Staged, GivenUp
  <2>6. GivenUp' => cmd'[Playing'] # "none"
    BY <1>3, <1>12, <1>13 DEF Sound, Staged
  <2> QED BY <1>2, <1>12, <2>1, <2>2, <2>3, <2>4, <2>5, <2>6 DEF Staged
<1>16. Freed'
  <2>1. \A u : Free(u)' <=> Free(u)
    BY <1>2 DEF Free
  <2>2. \A u \in Voices : Free(u) => /\ state'[u] \notin Watched /\ cmd'[u] # "play"
                                     /\ state'[u] = "parked" => saved'[u] \notin Watched
    BY <1>2, <1>3 DEF Sound, Freed, Watched
  <2>3. InPlay' => \A u \in Played' : Free(u) /\ cmd'[u] = "none" =>
                     u \notin play.anew /\ (u \in Ready' => saved'[u] \notin Watched)
    BY <1>2, <1>3, <1>12, <1>13 DEF Sound, Freed
  <2> QED BY <1>2, <2>1, <2>2, <2>3 DEF Freed
<1> QED BY <1>8, <1>10, <1>11, <1>12, <1>14, <1>15, <1>16 DEF Sound

LEMMA ReportServiceKeeps == ASSUME Sound, ReportService PROVE Sound'
<1> DEFINE v == Highest(rep)
<1>1. /\ cmd' = cmd /\ fresh' = fresh /\ saved' = saved /\ owned' = owned /\ anew' = anew
      /\ mate' = mate /\ strays' = strays /\ ended' = ended /\ told' = told /\ tick' = tick
      /\ pcm' = pcm /\ play' = play /\ pcm = "reports"
      /\ \/ UNCHANGED <<state, pairVars>>
         \/ /\ state[v] \in Watched /\ state' = [state EXCEPT ![v] = "dying"]
            /\ before' = Cut(before, {v}) /\ after' = Cut(after, {v})
  BY DEF ReportService, PcmRuns, noteVars, endVars, pcmVars, tickVars, pastVars
<1> HIDE DEF v
<1>2. CASE UNCHANGED <<state, pairVars>>
  BY <1>1, <1>2, TickStays DEF soundVars, Sound, Typed
<1>3. CASE state[v] \in Watched /\ state' = [state EXCEPT ![v] = "dying"]
           /\ before' = Cut(before, {v}) /\ after' = Cut(after, {v})
  <2>1. Played = {}
    BY <1>1, PlayFacts DEF Sound, Busy, InPlay, GivenUp
  <2>2. Ends(v)
    BY <1>1, <1>3, <2>1 DEF Ends
  <2>3. EndAwaited'
    BY <1>1 DEF EndAwaited, Sound, Hearing
  <2> QED BY <1>1, <1>3, <2>2, <2>3, EndsKeeps DEF Sound, Typed
<1> QED BY <1>1, <1>2, <1>3

LEMMA PcmStopKeeps == ASSUME Sound, NEW v \in Voices, PcmStop(v) PROVE Sound'
<1>1. /\ cmd[v] = "stop" /\ cmd' = [cmd EXCEPT ![v] = "none"] /\ fresh' = fresh \ {v}
      /\ saved' = saved /\ owned' = owned /\ anew' = anew /\ mate' = mate /\ strays' = strays
      /\ told' = told /\ tick' = tick /\ play' = play /\ pcm = "commands"
      /\ \/ EndVoice(v) /\ pcm' = "end"
         \/ /\ state' = [state EXCEPT ![v] = "dying"] /\ UNCHANGED <<pairVars, ended, pcm>>
  BY DEF PcmStop, PcmRuns, noteVars, tickVars
<1>2. ~Busy /\ ~Busy' /\ Played = {}
  BY <1>1, PlayFacts DEF Sound, Busy, InPlay, GivenUp
<1>3. before' = Cut(before, {v}) /\ after' = Cut(after, {v})
  <2>1. CASE UNCHANGED pairVars
    <3>1. ~Linked(v) /\ \A u \in Voices : before[u] # v /\ after[u] # v
      BY <1>1, NoteFacts, NoneIsNoVoice DEF Sound, Ordered, OrderedAt
    <3>2. before = Cut(before, {v}) /\ after = Cut(after, {v})
      BY <3>1 DEF Cut, Linked, Sound, Typed, Links
    <3> QED BY <2>1, <3>2 DEF pairVars
  <2> QED BY <1>1, <2>1 DEF EndVoice
<1>4. Ends(v)
  BY <1>1, <1>2, <1>3 DEF Ends, EndVoice
<1>5. EndAwaited'
  BY <1>1 DEF EndAwaited, Sound, Hearing
<1> QED BY <1>1, <1>4, <1>5, EndsKeeps DEF Sound, Typed

\* A voice outside the play under way moves on and may lose its mark.
LEMMA MovesOn ==
    ASSUME Sound, ended = None, NEW v,
           v \in Voices => v \notin Played /\ (state'[v] = state[v] \/ state[v] \in Watched),
           state' = state \/ \E s \in {"run", "off"} : state' = [state EXCEPT ![v] = s],
           fresh' = fresh \/ fresh' = fresh \ {v},
           cmd' = cmd, saved' = saved, UNCHANGED noteVars, UNCHANGED pairVars, strays' = strays,
           UNCHANGED pcmVars, ended' = ended, "pc" \in DOMAIN tick'
    PROVE  Sound'
<1>1. /\ mate' = mate /\ owned' = owned /\ anew' = anew /\ before' = before /\ after' = after
      /\ play' = play /\ pcm' = pcm
  BY DEF noteVars, pairVars, pcmVars
<1>2. /\ \A u \in Voices : u # v => state'[u] = state[u]
      /\ v \in Voices => state'[v] = state[v] \/ (state[v] \in Watched /\ state'[v] \in {"run", "off"})
      /\ state' \in [Voices -> States]
  BY DEF Sound, Typed, States, Watched
<1>3. fresh' \subseteq fresh /\ \A u \in Voices : u # v => (u \in fresh' <=> u \in fresh)
  OBVIOUS
<1>4. \A u \in Voices : Linked(u)' = Linked(u)
  BY <1>1 DEF Linked
<1>5. Typed' /\ Paired'
  BY <1>1, <1>2, <1>3 DEF Sound, Typed, Paired, PairedAt
<1>6. Ordered'
  <2>1. ASSUME NEW u \in Voices PROVE OrderedAt(u)'
    BY <1>1, <1>2, <1>3, <1>4 DEF Sound, Ordered, OrderedAt, IsCut, Watched
  <2> QED BY <2>1 DEF Ordered
<1>7. /\ Shaped' /\ Played' = Played /\ Ready' = Ready /\ Playing' = Playing /\ InPlay' = InPlay
      /\ Played \subseteq Voices /\ Ready \subseteq Played /\ play.anew \subseteq Played
      /\ GivenUp' = GivenUp /\ Left' = Left /\ (GivenUp => Head(play.left) \in Voices)
  BY <1>1, SamePlay, PlayFacts DEF Sound
<1>8. Hearing'
  <2>1. ended' \notin owned' /\ EndAwaited'
    BY <1>1, NoneIsNoVoice DEF Sound, Typed, EndAwaited
  <2>2. \A u \in Voices : Ending(state'[u]) \/ (state'[u] = "parked" /\ Ending(saved'[u]))
                          => ~Linked(u)'
    BY <1>1, <1>2, <1>4 DEF Sound, Hearing, Ending
  <2> QED BY <2>1, <2>2 DEF Hearing, EndAwaited, Ending
<1>9. Staged'
  <2>1. Together'
    BY <1>1, <1>7 DEF Sound, Staged, Together
  <2>2. \A u \in play.anew : Starts(u)'
    BY <1>1, <1>2, <1>3, <1>7 DEF Sound, Staged, Starts
  <2>3. InPlay => \A u \in Ready : Waits(u)'
    BY <1>1, <1>2, <1>4, <1>7 DEF Sound, Staged, Waits
  <2>4. Parked'
    BY <1>2, <1>7 DEF Sound, Staged, Parked, Watched
  <2>5. pcm = "unmark" => state'[Head(play.left)] # "parked"
    BY <1>2, <1>7 DEF Sound, Staged, GivenUp
  <2> QED BY <1>1, <1>7, <2>1, <2>2, <2>3, <2>4, <2>5 DEF Sound, Staged
<1>10. Freed'
  <2>1. \A u : Free(u)' <=> Free(u)
    BY <1>1 DEF Free
  <2>2. \A u \in Voices : Free(u) => /\ state'[u] \notin Watched /\ cmd'[u] # "play"
                                     /\ state'[u] = "parked" => saved'[u] \notin Watched
    BY <1>2 DEF Sound, Freed
  <2> QED BY <1>1, <1>7, <2>1, <2>2 DEF Sound, Freed
<1> QED BY <1>5, <1>6, <1>7, <1>8, <1>9, <1>10 DEF Sound

LEMMA VoiceParamKeeps == ASSUME Sound, VoiceParam PROVE Sound'
<1> DEFINE v == tick.todo[1]
<1>1. /\ cmd' = cmd /\ saved' = saved /\ UNCHANGED noteVars /\ strays' = strays
      /\ UNCHANGED pcmVars /\ told' = told /\ TickRuns("param")
      /\ \/ state[v] \notin Watched /\ Leave(v)
         \/ state[v] \in Watched /\ (FirstSection(v) \/ LaterSection)
  BY DEF VoiceParam, pastVars
<1> HIDE DEF v
<1>2. ended = None /\ pcm \in {"wait", "waitack"}
  BY <1>1 DEF TickRuns, Sound, Hearing
<1>3. v \in Voices /\ state[v] \in Watched \cup {"dying"} => v \notin Played
  <2>1. CASE pcm = "wait"
    BY <2>1, PlayFacts DEF Sound, Busy, InPlay, GivenUp
  <2>2. CASE pcm = "waitack"
    BY <2>2, PlayFacts DEF Sound, InPlay, Staged, Waits, Watched
  <2> QED BY <1>2, <2>1, <2>2
<1>4. "pc" \in DOMAIN NoTick /\ "pc" \in DOMAIN AfterSection /\ "pc" \in DOMAIN NextVoice
      /\ "pc" \in DOMAIN tick
  BY DEF NoTick, AfterSection, NextVoice, Sound, Typed
<1>5. ASSUME EndVoice(v), state[v] \in Watched \cup {"dying"}, fresh' = fresh \ {v},
             tick' = [tick EXCEPT !.pc = "end"]
      PROVE  Sound'
  <2>1. Ends(v)
    BY <1>1, <1>3, <1>5 DEF Ends, EndVoice, noteVars, pcmVars
  <2>2. tick'.pc = "end" /\ "pc" \in DOMAIN tick'
    BY <1>4, <1>5
  <2>3. EndAwaited'
    BY <2>2 DEF EndAwaited
  <2> QED BY <1>1, <1>2, <1>5, <2>1, <2>2, <2>3, EndsKeeps
<1>6. CASE state[v] \notin Watched /\ Leave(v)
  <2>1. CASE EndVoice(v) /\ state[v] = "dying" /\ fresh' = fresh \ {v}
             /\ tick' = [tick EXCEPT !.pc = "end"]
    BY <1>5, <2>1
  <2>2. CASE UNCHANGED <<state, pairVars, ended>>
    <3>1. fresh' = fresh \/ (fresh' = fresh \ {v} /\ state[v] = "dying")
      BY <1>6 DEF Leave
    <3>2. "pc" \in DOMAIN tick'
      BY <1>4, <1>6 DEF Leave
    <3>3. CASE fresh' = fresh
      BY <1>1, <1>2, <2>2, <3>2, <3>3, TickStays DEF soundVars, noteVars, pcmVars, TickRuns
    <3>4. CASE fresh' = fresh \ {v} /\ state[v] = "dying"
      BY <1>1, <1>2, <1>3, <2>2, <3>2, <3>4, MovesOn
    <3> QED BY <3>1, <3>3, <3>4
  <2> QED BY <1>6, <2>1, <2>2 DEF Leave
<1>7. CASE state[v] \in Watched /\ FirstSection(v)
  <2>1. CASE EndVoice(v) /\ fresh' = fresh \ {v} /\ tick' = [tick EXCEPT !.pc = "end"]
    BY <1>5, <1>7, <2>1
  <2>2. CASE /\ UNCHANGED <<pairVars, ended>> /\ tick' = AfterSection
             /\ state' = state \/ \E s \in {"run", "off"} : state' = [state EXCEPT ![v] = s]
             /\ fresh' = fresh \/ fresh' = fresh \ {v}
    BY <1>1, <1>2, <1>3, <1>4, <1>7, <2>2, MovesOn
  <2> QED BY <1>7, <2>1, <2>2 DEF FirstSection
<1>8. CASE LaterSection
  BY <1>1, <1>2, <1>4, <1>8, TickStays DEF LaterSection, soundVars, noteVars, pcmVars, TickRuns
<1> QED BY <1>1, <1>6, <1>7, <1>8

LEMMA PcmPlayKeeps == ASSUME Sound, NEW v \in Voices, PcmPlay(v) PROVE Sound'
<1> DEFINE P == Members(PlayOrder(v))
<1>1. /\ cmd' = Mark(cmd, P, "none") /\ fresh' = fresh \cup (P \cap anew) /\ anew' = anew \ P
      /\ play' = [NoPlay EXCEPT !.voices = PlayOrder(v), !.anew = P \cap anew]
      /\ pcm' = "mask" /\ cmd[v] = "play" /\ pcm = "commands"
      /\ owned' = owned /\ mate' = mate /\ before' = before /\ after' = after
      /\ state' = state /\ saved' = saved /\ strays' = strays
      /\ ended' = ended /\ told' = told /\ tick' = tick
  BY DEF PcmPlay, PcmRuns, pairVars, endVars, tickVars, pastVars
<1>2. /\ Shaped' /\ Ready' = {} /\ Played' = P
      /\ P = {v} \cup (IF Linked(v) THEN {mate[v]} ELSE {})
      /\ play'.anew = P \cap anew
  BY <1>1, PlayBegins DEF Sound
<1> HIDE DEF P
<1>3. \A u \in Voices : /\ Linked(u) => mate[u] \in Voices /\ mate[mate[u]] = u /\ Linked(mate[u])
                                        /\ mate[u] # u /\ u \in owned
  BY NoteFacts DEF Sound
<1>4. P \subseteq Voices /\ \A u \in P : cmd[u] = "play"
  BY <1>1, <1>2, <1>3 DEF Sound, Ordered, OrderedAt
<1>5. \A u \in Voices : Linked(u)' = Linked(u) /\ (Linked(u) => (u \in P <=> mate[u] \in P))
  <2>1. \A u \in Voices : Linked(u)' = Linked(u)
    BY <1>1 DEF Linked
  <2>2. \A u \in Voices : Linked(u) => (u \in P <=> mate[u] \in P)
    BY <1>2, <1>3
  <2> QED BY <2>1, <2>2
<1>6. \A u \in Voices : cmd'[u] = IF u \in P THEN "none" ELSE cmd[u]
  BY <1>1 DEF Mark
<1>7. Typed' /\ Paired'
  BY <1>1 DEF Sound, Typed, Paired, PairedAt, Mark
<1>8. Ordered'
  <2>1. ASSUME NEW u \in Voices PROVE OrderedAt(u)'
    BY <1>1, <1>3, <1>4, <1>5, <1>6 DEF Sound, Ordered, OrderedAt, IsCut
  <2> QED BY <2>1 DEF Ordered
<1>9. Hearing'
  <2>1. EndAwaited'
    BY <1>1 DEF EndAwaited, Sound, Hearing
  <2>2. ended' \in owned' => ended' \in anew' \/ ended' \in fresh' \/ Gone(ended)'
    <3>1. ended \in Voices /\ ~Linked(ended) => ended \notin P \/ P = {ended}
      BY <1>2, <1>3
    <3> QED BY <1>1, <1>2, <1>5, <3>1 DEF Sound, Typed, Hearing, Gone, Alone
  <2>3. \A u \in Voices : Ending(state'[u]) \/ (state'[u] = "parked" /\ Ending(saved'[u]))
                          => ~Linked(u)'
    BY <1>1, <1>5 DEF Sound, Hearing, Ending
  <2> QED BY <2>1, <2>2, <2>3 DEF Hearing, EndAwaited, Ending
<1>10. ~GivenUp' /\ pcm' # "unmark" /\ \A u \in Voices : state[u] # "parked"
  <2>1. Played = {}
    BY <1>1, PlayFacts DEF Sound, Busy, InPlay, GivenUp
  <2> QED BY <1>1, <2>1 DEF Sound, Staged, Parked, GivenUp
<1>11. Staged'
  <2>1. Together'
    BY <1>1, <1>2, <1>3, <1>4, <1>6 DEF Sound, Together, Ordered, OrderedAt
  <2>2. \A u \in P \cap anew : Starts(u)'
    <3> TAKE u \in P \cap anew
    <3>1. u \in Voices /\ cmd[u] = "play" /\ state[u] = "cut"
      BY <1>4, <1>10 DEF Sound, Ordered, OrderedAt, IsCut
    <3>2. mate[u] # None => mate[u] \in P
      BY <1>5, <3>1, NoteFacts DEF Sound, Ordered, OrderedAt
    <3> QED BY <1>1, <1>2, <1>6, <3>1, <3>2 DEF Starts
  <2>3. Parked'
    BY <1>1, <1>10 DEF Sound, Staged, Parked
  <2> QED BY <1>1, <1>2, <1>10, <2>1, <2>2, <2>3 DEF Staged
<1>12. Freed'
  <2>1. \A u : Free(u)' => Free(u) /\ u \notin P
    BY <1>1, <1>4 DEF Free, Sound, Freed
  <2> QED BY <1>1, <1>2, <1>6, <2>1 DEF Sound, Freed, Free
<1> QED BY <1>2, <1>7, <1>8, <1>9, <1>11, <1>12 DEF Sound

LEMMA ParkKeeps == ASSUME Sound, Park PROVE Sound'
<1> DEFINE p == Playing
<1>1. /\ cmd' = cmd /\ fresh' = fresh /\ anew' = anew /\ owned' = owned /\ mate' = mate
      /\ before' = before /\ after' = after /\ strays' = strays
      /\ ended' = ended /\ told' = told /\ tick' = tick /\ pcm = "park"
  BY DEF Park, PcmRuns, noteVars, pairVars, endVars, tickVars, pastVars
<1>2. /\ pcm' = "setup" /\ play' = play
      /\ \/ p \in play.anew /\ state' = state /\ saved' = [saved EXCEPT ![p] = "none"]
         \/ /\ p \notin play.anew /\ state' = [state EXCEPT ![p] = "parked"]
            /\ saved' = IF state[p] = "parked" THEN saved ELSE [saved EXCEPT ![p] = state[p]]
  BY DEF Park
<1>3. /\ Shaped' /\ Played' = Played /\ Ready' = Ready \cup {p} /\ InPlay /\ InPlay'
      /\ p \in Played /\ Played \subseteq Voices /\ play.anew \subseteq Played
      /\ ~GivenUp' /\ pcm' # "unmark"
  BY <1>1, <1>2, ParkDone, PlayFacts DEF Sound, Busy, InPlay, GivenUp
<1> HIDE DEF p
<1>4. \A u \in Voices :
        /\ u # p => state'[u] = state[u] /\ saved'[u] = saved[u]
        /\ u = p => \/ /\ p \in play.anew /\ state'[u] = "cut" /\ state[u] = "cut"
                       /\ saved'[u] = "none"
                    \/ /\ p \notin play.anew /\ state'[u] = "parked"
                       /\ saved'[u] = IF state[u] = "parked" THEN saved[u] ELSE state[u]
  BY <1>2, <1>3 DEF Sound, Typed, Staged, Starts
<1>5. \A u \in Voices : Linked(u)' = Linked(u)
  BY <1>1 DEF Linked
<1>6. Typed'
  BY <1>1, <1>2 DEF Sound, Typed, States, Fading
<1>7. Paired'
  BY <1>1 DEF Sound, Paired, PairedAt
<1>8. Ordered'
  <2>1. ASSUME NEW u \in Voices PROVE OrderedAt(u)'
    BY <1>1, <1>2, <1>4, <1>5 DEF Sound, Ordered, OrderedAt, IsCut
  <2> QED BY <2>1 DEF Ordered
<1>9. Hearing'
  <2>1. EndAwaited'
    BY <1>1 DEF EndAwaited, Sound, Hearing
  <2>2. ended' \in owned' => ended' \in anew' \/ ended' \in fresh' \/ Gone(ended)'
    BY <1>1, <1>3, <1>4, <1>5 DEF Sound, Typed, Hearing, Gone, Alone
  <2>3. \A u \in Voices : Ending(state'[u]) \/ (state'[u] = "parked" /\ Ending(saved'[u]))
                          => ~Linked(u)'
    BY <1>4, <1>5 DEF Sound, Hearing, Ending
  <2> QED BY <2>1, <2>2, <2>3 DEF Hearing, EndAwaited, Ending
<1>10. Staged'
  <2>1. Together'
    BY <1>1, <1>2, <1>3 DEF Sound, Staged, Together
  <2>2. \A u \in play.anew : Starts(u)'
    BY <1>1, <1>2, <1>3, <1>4 DEF Sound, Staged, Starts
  <2>3. \A u \in Ready' : Waits(u)'
    <3>1. Ready \subseteq Voices
      BY PlayFacts DEF Sound
    <3> QED BY <1>1, <1>2, <1>3, <1>4, <1>5, <3>1 DEF Sound, Staged, Waits
  <2>4. Parked'
    BY <1>3, <1>4 DEF Sound, Typed, Staged, Parked, States, Watched, Fading
  <2> QED BY <1>2, <1>3, <2>1, <2>2, <2>3, <2>4 DEF Staged
<1>11. Freed'
  <2>1. \A u : Free(u)' <=> Free(u)
    BY <1>1 DEF Free
  <2>2. \A u \in Voices : Free(u) => /\ state'[u] \notin Watched /\ cmd[u] # "play"
                                     /\ state'[u] = "parked" => saved'[u] \notin Watched
    BY <1>4 DEF Sound, Freed, Watched
  <2>3. \A u \in Played : Free(u) /\ cmd[u] = "none" =>
          u \notin play.anew /\ (u \in Ready' => saved'[u] \notin Watched)
    <3>1. \A u \in Played : Free(u) /\ cmd[u] = "none" => u \notin play.anew
      BY <1>3 DEF Sound, Freed
    <3>2. ASSUME NEW u \in Played, Free(u), cmd[u] = "none", u \in Ready', u # p
          PROVE  saved'[u] \notin Watched
      BY <1>3, <1>4, <3>2 DEF Sound, Freed
    <3>3. ASSUME NEW u \in Played, Free(u), cmd[u] = "none", u = p
          PROVE  saved'[u] \notin Watched
      BY <1>3, <1>4, <2>2, <3>1, <3>3
    <3> QED BY <3>1, <3>2, <3>3
  <2> QED BY <1>1, <1>2, <1>3, <2>1, <2>2, <2>3 DEF Freed
<1> QED BY <1>3, <1>6, <1>7, <1>8, <1>9, <1>10, <1>11 DEF Sound

\* The end of a play: its voices are not parked any more.
LEMMA WriteKeeps ==
    ASSUME Sound, NEW S, S \subseteq Played,
           \A v \in Voices : v \notin S => state'[v] = state[v] /\ state[v] # "parked",
           state' \in [Voices -> States], saved' \in [Voices -> States \cup {"none"}],
           \A v \in Voices : v \in S => /\ cmd[v] # "stop" /\ (v \in anew => cmd[v] # "play")
                                        /\ state'[v] # "parked"
                                        /\ Gone(v) => state'[v] = "dead"
                                        /\ Ending(state'[v]) => ~Linked(v)
                                        /\ Free(v) => state'[v] \notin Watched,
           \A v \in Voices : saved'[v] = saved[v] \/ (v \in S /\ saved'[v] = "none"),
           cmd' = cmd, fresh' = fresh, UNCHANGED noteVars, UNCHANGED pairVars, strays' = strays,
           UNCHANGED endVars, UNCHANGED tickVars, Busy, play' = NoPlay, pcm' = "commands"
    PROVE  Sound'
<1>1. /\ mate' = mate /\ owned' = owned /\ anew' = anew /\ before' = before /\ after' = after
      /\ ended' = ended /\ told' = told /\ tick' = tick
  BY DEF noteVars, pairVars, endVars, tickVars
<1>2. \A u \in Voices : u \notin S => state'[u] = state[u] /\ saved'[u] = saved[u]
  OBVIOUS
<1>3. \A u \in Voices : Linked(u)' = Linked(u) /\ Free(u)' = Free(u)
  BY <1>1 DEF Linked, Free
<1>4. ~Busy' /\ ~InPlay' /\ ~GivenUp' /\ play'.anew = {} /\ play'.left = <<>>
      /\ play'.voices = <<>> /\ play' \in Plays
  BY 1 \in 1 .. 2 DEF Busy, InPlay, GivenUp, NoPlay, Plays, Orders
<1>5. Shaped'
  BY <1>4 DEF Shaped, Left, Members
<1>6. Played' = {}
  <2>1. Members(<<>>) = {}
    BY DEF Members
  <2> QED BY <1>4, <2>1 DEF Played
<1>7. Typed' /\ Paired'
  BY <1>1 DEF Sound, Typed, Paired, PairedAt
<1>8. Ordered'
  <2>1. ASSUME NEW u \in Voices PROVE OrderedAt(u)'
    BY <1>1, <1>2, <1>3 DEF Sound, Ordered, OrderedAt, IsCut
  <2> QED BY <2>1 DEF Ordered
<1>9. Hearing'
  <2>1. EndAwaited'
    BY <1>1 DEF EndAwaited, Sound, Hearing, Busy, InPlay, GivenUp
  <2>2. ended' \in owned' => ended' \in anew' \/ ended' \in fresh' \/ Gone(ended)'
    <3> SUFFICES ASSUME ended \in Voices, Gone(ended) PROVE Gone(ended)'
      BY <1>1 DEF Sound, Typed, Hearing
    <3>1. Alone(ended)' /\ ~Linked(ended)'
      BY <1>1, <1>3, <1>4 DEF Alone, Gone
    <3>2. CASE ended \in S
      BY <1>1, <3>1, <3>2 DEF Gone
    <3>3. CASE ended \notin S
      BY <1>1, <1>2, <3>1, <3>3 DEF Gone
    <3> QED BY <3>2, <3>3
  <2>3. \A u \in Voices : Ending(state'[u]) \/ (state'[u] = "parked" /\ Ending(saved'[u]))
                          => ~Linked(u)'
    BY <1>2, <1>3 DEF Sound, Hearing
  <2> QED BY <2>1, <2>2, <2>3 DEF Hearing, EndAwaited, Ending
<1>10. Staged'
  <2>1. Parked'
    BY <1>2 DEF Sound, Staged, Parked
  <2>2. Together'
    BY <1>6 DEF Together
  <2> QED BY <1>4, <2>1, <2>2 DEF Staged, GivenUp
<1>11. Freed'
  <2>1. \A u \in Voices : Free(u) => /\ state'[u] \notin Watched /\ cmd[u] # "play"
                                     /\ state'[u] = "parked" => saved'[u] \notin Watched
    BY <1>2 DEF Sound, Freed
  <2> QED BY <1>3, <1>4, <2>1 DEF Freed, Free
<1> QED BY <1>5, <1>7, <1>8, <1>9, <1>10, <1>11 DEF Sound

LEMMA ParamWriteKeeps == ASSUME Sound, ParamWrite PROVE Sound'
<1> DEFINE S == Members(play.voices)
<1>1. /\ cmd' = cmd /\ fresh' = fresh /\ UNCHANGED noteVars /\ UNCHANGED pairVars
      /\ strays' = strays /\ UNCHANGED endVars /\ UNCHANGED tickVars /\ pcm = "write" /\ InPlay
  BY DEF ParamWrite, PcmRuns, pastVars, InPlay
<1>2. CASE Withdrawn
  <2>1. VoicesStay /\ Abandon
    BY <1>1, <1>2 DEF ParamWrite, VoicesStay, noteVars, pairVars, endVars
  <2> QED BY <1>1, <1>2, <2>1, AbandonKeeps DEF endVars, tickVars
<1>3. CASE ~Withdrawn
  <2>1. S = Played /\ Ready = Played /\ Played \subseteq Voices /\ Playing \in Played
        /\ play.anew \subseteq Played
    BY <1>1, PlayFacts DEF Played, Sound, Busy, InPlay
  <2>2. PICK new \in [S -> States] :
          /\ \A v \in S : new[v] \in Resumed(v)
          /\ state' = [v \in Voices |-> IF v \in S THEN new[v] ELSE state[v]]
    BY <1>3 DEF ParamWrite
  <2>3. saved' = Mark(saved, S \ play.anew, "none") /\ pcm' = "commands" /\ play' = NoPlay
    BY <1>3 DEF ParamWrite
  <2> HIDE DEF S
  <2>4. state' \in [Voices -> States] /\ saved' \in [Voices -> States \cup {"none"}]
    BY <2>2, <2>3 DEF Sound, Typed, Mark
  <2>5. \A v \in Voices : saved'[v] = saved[v] \/ (v \in S /\ saved'[v] = "none")
    BY <2>3 DEF Mark
  <2>6. ASSUME NEW v \in Voices, v \in S
        PROVE  /\ cmd[v] # "stop" /\ (v \in anew => cmd[v] # "play") /\ state'[v] # "parked"
               /\ Gone(v) => state'[v] = "dead"
               /\ Ending(state'[v]) => ~Linked(v)
               /\ Free(v) => state'[v] \notin Watched
    <3>1. cmd[v] = "none"
      BY <1>3, <2>1, <2>6 DEF Withdrawn, Sound, Staged, Together
    <3>2. Waits(v)
      BY <1>1, <2>1, <2>6 DEF Sound, Staged
    <3>3. state'[v] = new[v] /\ state'[v] \in Resumed(v)
      BY <2>2, <2>6
    <3>4. CASE v \in play.anew
      <4>1. state[v] = "cut" /\ state'[v] \in {"start", "run"}
        BY <3>3, <3>4 DEF Resumed, Sound, Staged, Starts
      <4>2. ~Free(v)
        BY <1>1, <2>1, <2>6, <3>1, <3>4 DEF Sound, Freed
      <4> QED BY <3>1, <4>1, <4>2 DEF Gone, Ending
    <3>5. CASE v \notin play.anew
      <4>1. state'[v] = saved[v] /\ saved[v] # "parked"
        BY <3>3, <3>5 DEF Resumed, Sound, Staged, Parked
      <4>2. Free(v) => saved[v] \notin Watched
        BY <1>1, <2>1, <2>6, <3>1 DEF Sound, Freed
      <4>3. state[v] # "dead" /\ (state[v] = "parked" \/ ~Linked(v))
        BY <3>1, <3>2, <3>5 DEF Waits
      <4>4. Ending(state'[v]) => ~Linked(v)
        BY <4>1, <4>3 DEF Sound, Hearing
      <4> QED BY <3>1, <4>1, <4>2, <4>3, <4>4 DEF Gone
    <3> QED BY <3>4, <3>5
  <2>7. \A v \in Voices : v \notin S => state'[v] = state[v] /\ state[v] # "parked"
    BY <2>1, <2>2 DEF Sound, Staged, Parked
  <2> QED BY <1>1, <2>1, <2>3, <2>4, <2>5, <2>6, <2>7, WriteKeeps DEF Busy
<1> QED BY <1>2, <1>3

\* A play given up looks at its voices, and deals with one after the other.
LEMMA MaskTailKeeps == ASSUME Sound, MaskTail PROVE Sound'
<1>1. /\ VoicesStay /\ told' = told /\ tick' = tick /\ pcm = "tail" /\ play' = play
      /\ pcm' = IF state[Head(play.left)] = "parked" THEN "putback" ELSE "unmark"
  BY DEF MaskTail, VoicesStay, noteVars, pairVars, soundVars, pastVars, endVars, tickVars, PcmRuns
<1>2. /\ Played' = Played /\ Left' = Left /\ Playing' = Playing /\ GivenUp /\ GivenUp'
      /\ Busy /\ Busy' /\ ~InPlay'
  BY <1>1 DEF Played, Left, Playing, InPlay, Busy, GivenUp
<1>3. Shaped'
  BY <1>1, <1>2 DEF Sound, Shaped
<1>4. PlayStays
  BY <1>1, <1>2, <1>3 DEF PlayStays, Sound, Staged
<1>5. EndAwaited'
  BY <1>1 DEF EndAwaited, Sound, Hearing, VoicesStay
<1> QED BY <1>1, <1>4, <1>5, QuietKeeps DEF Sound, Typed

LEMMA TailFacts ==
    ASSUME Shaped, GivenUp, TailDone
    PROVE  /\ Shaped' /\ ~InPlay' /\ pcm' # "unmark"
           /\ Head(play.left) \in Left /\ Left \subseteq Played /\ Played \subseteq Voices
           /\ play.anew \subseteq Played /\ Playing \in Played
           /\ GivenUp' => /\ Played' = Played /\ play'.anew = play.anew /\ Playing' = Playing
                          /\ \A v \in Left : v = Head(play.left) \/ v \in Left'
           /\ ~GivenUp' => Played' = {} /\ play'.anew = {} /\ Left = {Head(play.left)}
<1>1. play.left \in Orders /\ play.left # <<>> /\ play \in Plays /\ Busy
  BY DEF Shaped, Plays, Busy
<1>2. /\ Head(play.left) \in Left /\ Left \subseteq Played /\ Played \subseteq Voices
      /\ play.anew \subseteq Played /\ Playing \in Played
  BY <1>1, PlayFacts
<1>3. CASE Len(play.left) > 1
  <2>1. ASSUME NEW v, play.left = <<v>> PROVE FALSE
    <3>1. Len(play.left) = 1
      BY <2>1
    <3> QED BY <1>3, <3>1
  <2>2. PICK v \in Voices, w \in Voices :
          v # w /\ play.left = <<v, w>> /\ Members(play.left) = {v, w}
    BY <1>1, <2>1, OrderCases
  <2>3. Head(play.left) = v /\ Tail(play.left) = <<w>>
    BY <2>2, HeadTail
  <2>4. <<w>> \in Orders /\ <<w>> # <<>> /\ Members(<<w>>) = {w}
    BY NoteVoices DEF Orders
  <2>5. pcm' = "tail" /\ play' = [play EXCEPT !.left = <<w>>]
    BY <1>3, <2>3 DEF TailDone
  <2>6. /\ play'.voices = play.voices /\ play'.anew = play.anew /\ play'.at = play.at
        /\ play'.left = <<w>> /\ play' \in Plays
    BY <1>1, <2>4, <2>5 DEF Plays
  <2>7. /\ Left = {v, w} /\ Left' = {w} /\ Played' = Played /\ Playing' = Playing
        /\ GivenUp' /\ Busy' /\ ~InPlay'
    BY <2>2, <2>4, <2>5, <2>6 DEF Left, Played, Playing, GivenUp, Busy, InPlay
  <2>8. Shaped'
    BY <1>1, <1>2, <2>4, <2>6, <2>7 DEF Shaped
  <2> QED BY <1>2, <2>3, <2>5, <2>6, <2>7, <2>8
<1>4. CASE ~(Len(play.left) > 1)
  <2>1. PICK v \in Voices : play.left = <<v>> /\ Members(play.left) = {v}
    BY <1>1, <1>4, OrderCases, LenCases
  <2>2. Head(play.left) = v /\ Left = {v}
    BY <2>1 DEF Left
  <2>3. pcm' = "commands" /\ play' = NoPlay
    BY <1>4 DEF TailDone
  <2>4. ~Busy' /\ ~InPlay' /\ ~GivenUp'
    BY <2>3 DEF Busy, InPlay, GivenUp
  <2>5. play'.voices = <<>> /\ play'.left = <<>> /\ play'.anew = {} /\ play' \in Plays
    BY <2>3, 1 \in 1 .. 2 DEF NoPlay, Plays, Orders
  <2>6. Played' = {} /\ Left' = {}
    BY <2>5 DEF Played, Left, Members
  <2>7. Shaped'
    BY <2>3, <2>4, <2>5, <2>6 DEF Shaped
  <2> QED BY <1>2, <2>2, <2>3, <2>4, <2>5, <2>6, <2>7
<1> QED BY <1>3, <1>4

LEMMA TailKeeps ==
    ASSUME Sound, GivenUp, TailDone, NEW h, h = Head(play.left), state' \in [Voices -> States],
           \A u \in Voices : state'[u] = IF u = h /\ state[u] = "parked" THEN saved[u] ELSE state[u],
           \/ fresh' = fresh
           \/ fresh' = fresh \ {Playing} /\ ~(ended = Playing /\ Playing \in fresh \ play.anew),
           saved' = saved, cmd' = cmd, UNCHANGED noteVars, UNCHANGED pairVars, strays' = strays,
           UNCHANGED endVars, UNCHANGED tickVars
    PROVE  Sound'
<1>1. /\ mate' = mate /\ owned' = owned /\ anew' = anew /\ before' = before /\ after' = after
      /\ ended' = ended /\ told' = told /\ tick' = tick
  BY DEF noteVars, pairVars, endVars, tickVars
<1>2. /\ Shaped' /\ ~InPlay' /\ pcm' # "unmark" /\ h \in Left
      /\ Left \subseteq Played /\ Played \subseteq Voices /\ play.anew \subseteq Played
      /\ Playing \in Played
      /\ GivenUp' => /\ Played' = Played /\ play'.anew = play.anew /\ Playing' = Playing
                     /\ \A v \in Left : v = h \/ v \in Left'
      /\ ~GivenUp' => Played' = {} /\ play'.anew = {} /\ Left = {h}
  BY TailFacts DEF Sound
<1>3. \A u \in Voices : Linked(u)' = Linked(u) /\ Free(u)' = Free(u)
  BY <1>1 DEF Linked, Free
<1>4. Typed' /\ Paired'
  BY <1>1 DEF Sound, Typed, Paired, PairedAt
<1>5. Ordered'
  <2>1. ASSUME NEW u \in Voices PROVE OrderedAt(u)'
    BY <1>1, <1>3 DEF Sound, Ordered, OrderedAt, IsCut
  <2> QED BY <2>1 DEF Ordered
<1>6. Hearing'
  <2>1. EndAwaited'
    BY <1>1 DEF EndAwaited, Sound, Hearing, GivenUp
  <2>2. ended' \in owned' => ended' \in anew' \/ ended' \in fresh' \/ Gone(ended)'
    <3>1. CASE ended \in owned /\ ended \in fresh /\ ended \notin fresh'
      <4>1. ended = Playing /\ ended \in play.anew /\ cmd[ended] # "none"
        BY <3>1 DEF Sound, Staged
      <4> QED BY <1>1, <3>1, <4>1 DEF Sound, Staged, Starts
    <3>2. Gone(ended) /\ ended \in owned => Gone(ended)'
      BY <1>1, <1>2, <1>3 DEF Sound, Typed, Gone, Alone
    <3> QED BY <1>1, <3>1, <3>2 DEF Sound, Hearing
  <2>3. \A u \in Voices : Ending(state'[u]) \/ (state'[u] = "parked" /\ Ending(saved'[u]))
                          => ~Linked(u)'
    BY <1>1, <1>3 DEF Sound, Hearing
  <2> QED BY <2>1, <2>2, <2>3 DEF Hearing, EndAwaited, Ending
<1>7. Staged'
  <2>1. Together'
    BY <1>1, <1>2 DEF Sound, Staged, Together
  <2>2. \A u \in play'.anew : Starts(u)'
    BY <1>1, <1>2 DEF Sound, Staged, Starts
  <2>3. Parked'
    BY <1>1, <1>2 DEF Sound, Staged, Parked
  <2> QED BY <1>1, <1>2, <2>1, <2>2, <2>3 DEF Sound, Staged
<1>8. Freed'
  BY <1>1, <1>2, <1>3 DEF Sound, Freed, Free
<1> QED BY <1>2, <1>4, <1>5, <1>6, <1>7, <1>8 DEF Sound

LEMMA PutBackKeeps == ASSUME Sound, PutBack, ~torn' PROVE Sound'
<1> DEFINE h == Head(play.left)
<1>1. /\ state' = [state EXCEPT ![h] = saved[h]] /\ state[h] = "parked"
      /\ TailDone /\ fresh' = fresh /\ saved' = saved /\ cmd' = cmd /\ strays' = strays
      /\ UNCHANGED noteVars /\ UNCHANGED pairVars /\ UNCHANGED endVars /\ UNCHANGED tickVars
  BY DEF PutBack
<1>2. GivenUp
  BY DEF PutBack, PcmRuns, GivenUp
<1>3. h \in Voices
  BY <1>2, PlayFacts DEF Sound
<1> HIDE DEF h
<1>4. saved[h] \in States
  BY <1>1, <1>3 DEF Sound, Typed, Staged, Parked
<1>5. /\ state' \in [Voices -> States]
      /\ \A u \in Voices : state'[u] = IF u = h /\ state[u] = "parked" THEN saved[u] ELSE state[u]
  BY <1>1, <1>3, <1>4 DEF Sound, Typed
<1> QED BY <1>1, <1>2, <1>5, TailKeeps DEF h

LEMMA UnmarkKeeps == ASSUME Sound, Unmark, ~bared' PROVE Sound'
<1> DEFINE h == Head(play.left)
<1>1. /\ fresh' = fresh \ {Playing} /\ ~(ended = Playing /\ Playing \in fresh \ play.anew)
      /\ TailDone /\ state' = state /\ saved' = saved /\ cmd' = cmd /\ strays' = strays
      /\ UNCHANGED noteVars /\ UNCHANGED pairVars /\ UNCHANGED endVars /\ UNCHANGED tickVars
  BY DEF Unmark
<1>2. GivenUp /\ pcm = "unmark"
  BY DEF Unmark, PcmRuns, GivenUp
<1>3. state[h] # "parked"
  BY <1>2 DEF Sound, Staged
<1> HIDE DEF h
<1>4. /\ state' \in [Voices -> States]
      /\ \A u \in Voices : state'[u] = IF u = h /\ state[u] = "parked" THEN saved[u] ELSE state[u]
  BY <1>1, <1>3 DEF Sound, Typed
<1> QED BY <1>1, <1>2, <1>4, TailKeeps DEF h

LEMMA SoundStays ==
    ASSUME Sound, [Next]_vars, ~bared', ~torn'
    PROVE  Sound'
<1>1. CASE NewNote
  <2>1. ASSUME NEW v \in Voices, NoteOn(<<v>>) PROVE Sound'
    BY <2>1, NoteOnKeeps
  <2>2. ASSUME NEW v \in Voices, NEW w \in Voices, v # w, NoteOn(<<v, w>>) PROVE Sound'
    BY <2>2, NoteOnKeeps
  <2>3. ASSUME NEW v \in Voices, NoteEmpty(v) \/ Tie(v) \/ Release(v) \/ KeyOff(v) PROVE Sound'
    BY <2>3, NoteEmptyKeeps, TieKeeps, ReleaseKeeps, KeyOffKeeps
  <2> QED BY <1>1, <2>1, <2>2, <2>3 DEF NewNote
<1>2. CASE HearEnd
  BY <1>2, HearEndKeeps
<1>3. CASE Chip
  BY <1>3, ChipKeeps
<1>4. CASE PcmTask
  <2>1. CASE WaitCommands \/ WaitReports \/ ReportsDone \/ CommandsDone \/ PcmSignal
    BY <2>1, IdleKeeps
  <2>2. CASE ReportService
    BY <2>2, ReportServiceKeeps
  <2>3. CASE \E v \in Voices : PcmStop(v) \/ PcmPlay(v)
    BY <2>3, PcmStopKeeps, PcmPlayKeeps
  <2>4. CASE MaskSet \/ Park \/ Setup \/ ParamAck \/ WaitAck
    BY <2>4, MaskSetKeeps, ParkKeeps, SetupKeeps, AckKeeps
  <2>5. CASE ParamWrite \/ MaskTail \/ PutBack \/ Unmark
    BY <2>5, ParamWriteKeeps, MaskTailKeeps, PutBackKeeps, UnmarkKeeps
  <2> QED BY <1>4, <2>1, <2>2, <2>3, <2>4, <2>5 DEF PcmTask
<1>5. CASE TickTask
  BY <1>5, ScanKeeps, VoiceParamKeeps, TickSignalKeeps DEF TickTask
<1>6. CASE UNCHANGED vars
  <2>1. /\ UNCHANGED <<owned, mate, anew, pairVars, soundVars>>
        /\ UNCHANGED <<play, pcm, told, ended>> /\ cmd' = cmd /\ strays' = strays /\ tick' = tick
    BY <1>6 DEF vars, noteVars, endVars, pcmVars, tickVars, pastVars
  <2> QED BY <2>1, TickStays DEF Sound, Typed
<1> QED BY <1>1, <1>2, <1>3, <1>4, <1>5, <1>6 DEF Next

(* Who owns a voice, what it is told, how it sounds, which voices are      *)
(* played together and whose end is still to be heard fit together after   *)
(* every step of the three tasks, the interrupt and the chip, for any      *)
(* number of voices and notes and wherever the tasks cut in, until         *)
(* mask_tail puts back a voice that was cut after it had looked (torn) or  *)
(* takes the mark of a note that goes on (bared).                          *)
THEOREM VoicesSound == Spec => []IInv
<1>1. Init => IInv
  BY SoundStart DEF IInv
<1>2. IInv /\ [Next]_vars => IInv'
  BY SoundStays, ErredStays DEF IInv
<1> QED BY <1>1, <1>2, PTL DEF Spec

(* A voice that no note owns sounds only if a late end took it from its    *)
(* note (free_voice), or after mask_tail has put a cut voice back (0x54a5) *)
(* or taken a mark (0x54aa).                                               *)
THEOREM NoVoiceOrphaned == Spec => []NoOrphan
<1>1. IInv => NoOrphan
  BY DEF IInv, Sound, Freed, Free, NoOrphan
<1> QED BY <1>1, VoicesSound, PTL

(* A voice on its way through pcm_play to a new start keeps the mark 0xff  *)
(* that tells free_voice to leave it alone, until it is told otherwise or  *)
(* mask_tail has erred in one of the two ways.                             *)
THEOREM PlayKeepsMark == Spec => []MarkedInPlay
<1>1. IInv => MarkedInPlay
  <2> SUFFICES ASSUME Sound, NEW v \in Members(play.voices) \cap play.anew,
                      cmd[v] = "none", ~GivenUp
               PROVE  v \in fresh
    BY DEF IInv, MarkedInPlay
  <2>1. InPlay
    BY PlayFacts DEF Sound, Busy
  <2> QED BY <2>1 DEF Sound, Staged, Starts
<1> QED BY <1>1, VoicesSound, PTL

(* Only param_write starts the chip, and it starts no voice told to stop:  *)
(* the test of flush_off on the first of a pair speaks for both, until     *)
(* mask_tail has erred and one of a pair may be freed without the other.   *)
THEOREM NoStoppedVoiceStarts == Spec => NoPlayAfterStop
<1> DEFINE Starting == \A v \in Voices : v \in silent \ silent' => cmd[v] # "stop" \/ bared \/ torn
<1>1. IInv /\ [Next]_vars => [Starting]_vars
  <2> SUFFICES ASSUME Sound, [Next]_vars, NEW v \in Voices, v \in silent, v \notin silent'
               PROVE  cmd[v] # "stop"
    BY DEF IInv
  <2>1. ParamWrite
    <3>1. ~NewNote /\ ~HearEnd
      BY DEF NewNote, HearEnd, NoteOn, NoteEmpty, Tie, Release, KeyOff, chipVars
    <3>2. ~Chip /\ ~TickTask
      BY DEF Chip, IrqDispatch, Fade, TickTask, TickStart, TickScan, VoiceParam, TickSignal,
             chipVars
    <3>3. PcmTask => ParamWrite
      BY DEF PcmTask, WaitCommands, WaitReports, ReportsDone, ReportService, CommandsDone,
             PcmSignal, MaskSet, Park, Setup, ParamAck, WaitAck, MaskTail, PutBack, Unmark, PcmStop,
             PcmPlay, chipVars
    <3> QED BY <3>1, <3>2, <3>3 DEF Next, vars, chipVars
  <2>2. ~Withdrawn /\ v \in Played /\ pcm = "write"
    BY <2>1 DEF ParamWrite, Played, PcmRuns
  <2>3. Playing \in Played
    BY <2>2, PlayFacts DEF Sound, Busy, InPlay
  <2> QED BY <2>2, <2>3 DEF Withdrawn, Sound, Staged, Together
<1> QED BY <1>1, VoicesSound, PTL DEF Spec, NoPlayAfterStop

=============================================================================
