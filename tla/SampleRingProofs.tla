-------------------------- MODULE SampleRingProofs --------------------------
(***************************************************************************)
(* The audio ring and its lock for every geometry that GeometryAssumption  *)
(* admits, and whatever the pace of the device.                            *)
(***************************************************************************)
EXTENDS SampleRing, TLAPS

\* The lock is held by whoever works inside it.
LockInv ==
    /\ lock = "work" <=> wpc \in {"align", "check", "instr", "post"}
    /\ lock = "absent" <=> wpc \in {"create", "done"}
    /\ lock = "main" <=> mpc = "draw"

\* The distance from rp to wp is ahead, up to laps.
Apart == wp \in {rp + ahead, rp + ahead - N, rp + ahead - 2 * N}

\* How far ahead the writer can be at each step of its loop: it may fill the
\* ring and, posting a pair from an odd frame, go one frame beyond.
Headroom ==
    /\ wpc \in {"create", "enter", "check", "spin"} => ahead <= N
    /\ wpc \in {"relock", "instr"} => ahead <= N - 1
    /\ wpc = "post" =>
        /\ posts \in {1, 2}
        /\ oversampling => ahead <= N + 1 - posts
        /\ ~oversampling => posts = 1 /\ ahead <= N - 1
    /\ wpc = "align" =>
        /\ ahead <= N + 1
        /\ ~oversampling => ahead <= N

Pointers ==
    /\ wp \in Slots /\ rp \in Slots /\ rp % 2 = 0
    /\ ahead \in 0 .. N + 1

RingInv == Pointers /\ Apart /\ Headroom

-----------------------------------------------------------------------------
\* The lock discipline holds: no step of either thread breaks it.
THEOREM LockDiscipline == Spec => []LockInv
<1>1. Init => LockInv
  BY DEF Init, LockInv
<1>2. LockInv /\ [Next]_vars => LockInv'
  <2> SUFFICES ASSUME LockInv, [Next]_vars PROVE LockInv'
    OBVIOUS
  <2> USE DEF LockInv, ring, main
  <2>1. CASE WorkThread
    <3>1. CASE CreateLock BY <3>1 DEF CreateLock
    <3>2. CASE EnterLoop BY <3>2 DEF EnterLoop
    <3>3. CASE LoopTop BY <3>3 DEF LoopTop
    <3>4. CASE CheckFull BY <3>4 DEF CheckFull
    <3>5. CASE SpinExit BY <3>5 DEF SpinExit
    <3>6. CASE Relock BY <3>6 DEF Relock
    <3>7. CASE Instr BY <3>7 DEF Instr
    <3>8. CASE PostSample BY <3>8 DEF PostSample
    <3> QED BY <2>1, <3>1, <3>2, <3>3, <3>4, <3>5, <3>6, <3>7, <3>8 DEF WorkThread
  <2>2. CASE AudioThread
    BY <2>2 DEF AudioThread, CallbackCopy, CallbackClear, CallbackMove
  <2>3. CASE MainThread
    <3>1. CASE MainPoll BY <3>1 DEF MainPoll
    <3>2. CASE MainLock BY <3>2 DEF MainLock
    <3>3. CASE MainUnlock BY <3>3 DEF MainUnlock
    <3>4. CASE MainStop BY <3>4 DEF MainStop
    <3>5. CASE MainJoin BY <3>5 DEF MainJoin
    <3> QED BY <2>3, <3>1, <3>2, <3>3, <3>4, <3>5 DEF MainThread
  <2>4. CASE UNCHANGED vars BY <2>4 DEF vars
  <2> QED BY <2>1, <2>2, <2>3, <2>4 DEF Next
<1> QED BY <1>1, <1>2, PTL DEF Spec

\* The main thread draws only between instructions, once the mutex exists.
THEOREM DrawsSafely == Spec => []DrawsAlone
<1>1. LockInv => DrawsAlone
  BY DEF LockInv, DrawsAlone
<1> QED BY <1>1, LockDiscipline, PTL

-----------------------------------------------------------------------------
\* The ring is an even number of frames, at least two requests long.
LEMMA Geometry ==
    /\ Request \in Nat /\ N \in Nat /\ Request >= 2 /\ N >= 2 * Request
    /\ Request % 2 = 0 /\ N % 2 = 0
<1>1. Request \in Nat /\ Request >= 2 /\ Request % 2 = 0 /\ PageFrames = 2 * Request
  BY GeometryAssumption DEF Request
<1>2. PageNum \in Nat /\ PageNum >= 1
  BY GeometryAssumption
<1> DEFINE half == Request * PageNum
<1>3. half \in Nat /\ half >= Request
  BY <1>1, <1>2
<1>4. N = 2 * half
  BY <1>1, <1>2 DEF N
<1> HIDE DEF half
<1>5. N \in Nat /\ N >= 2 * Request /\ N % 2 = 0
  BY <1>1, <1>3, <1>4
<1> QED BY <1>1, <1>5

\* One modulo is at most one subtraction.
LEMMA Modulo ==
    ASSUME NEW x \in 0 .. 2 * N - 1
    PROVE  x % N = IF x < N THEN x ELSE x - N
<1> N \in Nat /\ N > 0
  BY Geometry
<1>1. CASE x < N
  BY <1>1
<1>2. CASE x >= N
  <2>1. x - N \in 0 .. N - 1
    BY <1>2
  <2>2. x = N * 1 + (x - N)
    OBVIOUS
  <2> QED BY <1>2, <2>1, <2>2
<1> QED BY <1>1, <1>2

-----------------------------------------------------------------------------
\* The pointers and the headroom survive every step.

LEMMA RingInit == Init => RingInv
<1> SUFFICES ASSUME Init PROVE RingInv
  OBVIOUS
<1>1. wp = 0 /\ rp = 0 /\ ahead = N /\ wpc = "create"
  BY DEF Init
<1> QED BY <1>1, Geometry DEF RingInv, Pointers, Apart, Headroom, Slots

\* Rounding down gives back what an odd writer overshot, and never takes the
\* last frame but of a drained ring: the reader is always on a pair.
LEMMA LoopTopStep == RingInv /\ LoopTop => RingInv'
<1> SUFFICES ASSUME RingInv, LoopTop PROVE RingInv'
  OBVIOUS
<1> USE Geometry DEF RingInv, Pointers, Apart, Headroom, Slots
<1>1. wpc = "align" /\ rp' = rp /\ oversampling' = oversampling
  BY DEF LoopTop
<1>2. CASE run
  <2>1. wp' = Align(wp) /\ ahead' = ahead - (wp - wp') /\ wpc' = "check"
    BY <1>2 DEF LoopTop
  <2>2. CASE oversampling
    <3>1. wp' = wp - (wp % 2)
      BY <2>1, <2>2 DEF Align
    <3>2. wp' \in Slots /\ ahead' = ahead - (wp % 2)
      BY <2>1, <3>1
    <3>3. ahead' \in 0 .. N
      BY <1>1, <3>2
    <3> QED BY <1>1, <2>1, <3>1, <3>2, <3>3
  <2>3. CASE ~oversampling
    <3>1. wp' = wp /\ ahead' = ahead
      BY <2>1, <2>3 DEF Align
    <3> QED BY <1>1, <2>1, <2>3, <3>1
  <2> QED BY <2>2, <2>3
<1>3. CASE ~run
  <2>1. wpc' = "done" /\ wp' = wp /\ ahead' = ahead
    BY <1>3 DEF LoopTop
  <2> QED BY <1>1, <2>1
<1> QED BY <1>2, <1>3

LEMMA PostSampleStep == RingInv /\ PostSample => RingInv'
<1> SUFFICES ASSUME RingInv, PostSample PROVE RingInv'
  OBVIOUS
<1> USE Geometry DEF RingInv, Pointers, Apart, Headroom, Slots
<1>1. /\ wpc = "post" /\ rp' = rp /\ oversampling' = oversampling
      /\ wp' = (wp + 1) % N /\ ahead' = ahead + 1 /\ posts' = posts - 1
      /\ wpc' = IF posts = 1 THEN "align" ELSE "post"
  BY DEF PostSample
<1>2. wp' = IF wp + 1 < N THEN wp + 1 ELSE wp + 1 - N
  <2>1. wp + 1 \in 0 .. 2 * N - 1
    OBVIOUS
  <2>2. (wp + 1) % N = IF wp + 1 < N THEN wp + 1 ELSE wp + 1 - N
    <3> DEFINE x == wp + 1
    <3>1. x \in 0 .. 2 * N - 1
      BY <2>1
    <3> HIDE DEF x
    <3>2. x % N = IF x < N THEN x ELSE x - N
      BY <3>1, Modulo
    <3> QED BY <3>2 DEF x
  <2> QED BY <1>1, <2>2
<1>3. Pointers' /\ Apart'
  <2>1. ahead <= N
    BY <1>1
  <2> QED BY <1>1, <1>2, <2>1
<1>4. Headroom'
  <2>1. CASE posts = 1
    BY <1>1, <2>1
  <2>2. CASE posts = 2
    BY <1>1, <2>2
  <2> QED BY <1>1, <2>1, <2>2
<1> QED BY <1>3, <1>4

LEMMA CallbackMoveStep == RingInv /\ CallbackMove => RingInv'
<1> SUFFICES ASSUME RingInv, CallbackMove PROVE RingInv'
  OBVIOUS
<1> USE Geometry DEF RingInv, Pointers, Apart, Headroom, Slots
<1>1. /\ wp' = wp /\ wpc' = wpc /\ posts' = posts /\ oversampling' = oversampling
      /\ rp' = (rp + Request) % N
      /\ ahead' = IF ahead >= Request THEN ahead - Request ELSE ahead - Request + N
  BY DEF CallbackMove
<1>2. rp' = IF rp + Request < N THEN rp + Request ELSE rp + Request - N
  <2>1. rp + Request \in 0 .. 2 * N - 1
    OBVIOUS
  <2> QED BY <1>1, <2>1, Modulo
<1>3. Pointers' /\ Apart'
  BY <1>1, <1>2
<1>4. ahead' <= N - 1
  BY <1>1
<1>5. Headroom'
  <2>1. ahead' <= N - 1 /\ ahead' <= N /\ ahead' <= N + 1
    BY <1>3, <1>4
  <2>2. ASSUME wpc = "post"
        PROVE  /\ posts \in {1, 2} /\ ahead' <= N + 1 - posts
               /\ ~oversampling => posts = 1
    BY <1>3, <1>4, <2>2
  <2> QED BY <1>1, <2>1, <2>2 DEF Headroom
<1> QED BY <1>3, <1>5

THEOREM RingInvariant == Spec => []RingInv
<1>1. RingInv /\ [Next]_vars => RingInv'
  <2> SUFFICES ASSUME RingInv, [Next]_vars PROVE RingInv'
    OBVIOUS
  <2>1. CASE WorkThread
    <3> USE DEF RingInv, Pointers, Apart, Headroom, ring, main
    <3>1. CASE CreateLock BY <3>1 DEF CreateLock
    <3>2. CASE EnterLoop BY <3>2, Geometry DEF EnterLoop, Slots
    <3>3. CASE LoopTop BY <3>3, LoopTopStep
    <3>4. CASE CheckFull
      <4>1. ahead <= N /\ (wp # rp => ahead <= N - 1)
        BY <3>4, Geometry DEF CheckFull, Slots
      <4> QED BY <3>4, <4>1, Geometry DEF CheckFull, Full
    <3>5. CASE SpinExit
      <4>1. ahead <= N - 1
        BY <3>5, Geometry DEF SpinExit, Full, Slots
      <4> QED BY <3>5, <4>1 DEF SpinExit
    <3>6. CASE Relock BY <3>6 DEF Relock
    <3>7. CASE Instr
      <4>1. /\ ahead <= N - 1 /\ ahead' = ahead /\ wp' = wp /\ rp' = rp
            /\ posts' \in {0, IF oversampling' THEN 2 ELSE 1}
            /\ wpc' = IF posts' = 0 THEN "align" ELSE "post"
        BY <3>7 DEF Instr
      <4>2. Pointers' /\ Apart'
        BY <4>1 DEF Apart
      <4>3. ahead <= N /\ ahead <= N + 1
        BY <4>1, Geometry
      <4>4. CASE posts' = 0
        BY <4>1, <4>2, <4>3, <4>4
      <4>5. CASE posts' # 0
        <5>1. wpc' = "post"
          BY <4>1, <4>5
        <5>2. CASE oversampling'
          <6>1. posts' = 2
            BY <4>1, <4>5, <5>2, Zenon
          <6>2. ahead' <= N + 1 - posts'
            BY <4>1, <6>1, Geometry
          <6> QED BY <4>2, <5>1, <5>2, <6>1, <6>2
        <5>3. CASE ~oversampling'
          <6>1. posts' = 1 /\ ahead' <= N - 1
            BY <4>1, <4>5, <5>3
          <6> QED BY <4>2, <5>1, <5>3, <6>1
        <5> QED BY <5>2, <5>3
      <4> QED BY <4>4, <4>5
    <3>8. CASE PostSample BY <3>8, PostSampleStep
    <3> QED BY <2>1, <3>1, <3>2, <3>3, <3>4, <3>5, <3>6, <3>7, <3>8 DEF WorkThread
  <2>2. CASE AudioThread
    <3>1. CASE CallbackMove BY <3>1, CallbackMoveStep
    <3>2. CASE CallbackCopy \/ CallbackClear
      BY <3>2 DEF CallbackCopy, CallbackClear, RingInv, Pointers, Apart, Headroom
    <3> QED BY <2>2, <3>1, <3>2 DEF AudioThread
  <2>3. CASE MainThread \/ UNCHANGED vars
    <3>1. UNCHANGED <<wp, rp, ahead, oversampling, wpc, posts>>
      BY <2>3 DEF MainThread, MainPoll, MainLock, MainUnlock, MainStop, MainJoin,
         vars, ring
    <3> QED BY <3>1 DEF RingInv, Pointers, Apart, Headroom
  <2> QED BY <2>1, <2>2, <2>3 DEF Next
<1> QED BY <1>1, RingInit, PTL DEF Spec

-----------------------------------------------------------------------------
\* Where the work thread looks, the distance it sees is the truth: the writer
\* has never passed the reader.
THEOREM FullTestTruthful == Spec => []NoLapLost
<1>1. RingInv => NoLapLost
  <2> SUFFICES ASSUME RingInv, wpc = "check"
               PROVE  Occupied = IF ahead = 0 THEN N ELSE ahead
    BY DEF NoLapLost
  <2> USE Geometry DEF RingInv, Pointers, Apart, Headroom, Slots
  <2>1. ahead \in 0 .. N /\ (wp = rp + ahead \/ wp = rp + ahead - N)
    OBVIOUS
  <2>2. CASE wp = rp
    BY <2>1, <2>2 DEF Occupied, Full
  <2>3. CASE wp # rp
    <3>1. wp + N - rp \in 0 .. 2 * N - 1
      OBVIOUS
    <3>2. Occupied = IF wp + N - rp < N THEN wp + N - rp ELSE wp + N - rp - N
      BY <2>3, <3>1, Modulo DEF Occupied, Full
    <3> QED BY <2>1, <2>3, <3>2
  <2> QED BY <2>2, <2>3
<1> QED BY <1>1, RingInvariant, PTL

-----------------------------------------------------------------------------
(* The callback's requests tile the ring, so that none reaches beyond its  *)
(* end, and no frame stays behind that has been played.                    *)

Tiled == \E k \in 0 .. 2 * PageNum - 1 : rp = k * Request

LEMMA Tiling ==
    ASSUME NEW k \in 0 .. 2 * PageNum - 1
    PROVE  /\ k * Request + Request <= N
           /\ k * Request + Request < N => k + 1 \in 0 .. 2 * PageNum - 1
           /\ (k + 1) * Request = k * Request + Request
<1>1. Request \in Nat /\ PageNum \in Nat /\ PageFrames = 2 * Request
  BY Geometry, GeometryAssumption
<1>2. N = (2 * PageNum) * Request
  BY <1>1 DEF N
<1> DEFINE m == 2 * PageNum
<1>3. m \in Nat /\ k \in Nat /\ k + 1 <= m
  BY <1>1
<1>4. (k + 1) * Request = k * Request + Request
  BY <1>1, <1>3
<1>5. (k + 1) * Request <= m * Request
  BY <1>1, <1>3
<1>6. k + 1 = m => k * Request + Request = N
  BY <1>2, <1>4
<1>7. k * Request + Request < N => k + 1 < m
  <2>1. N \in Nat /\ k * Request + Request \in Nat
    BY <1>1, <1>3, Geometry
  <2> QED BY <1>3, <1>6, <2>1
<1> QED BY <1>2, <1>3, <1>4, <1>5, <1>7

LEMMA TiledBound == RingInv /\ Tiled => rp + Request <= N
BY Tiling DEF Tiled

LEMMA TiledStep == RingInv /\ Tiled /\ CallbackMove => Tiled'
<1> SUFFICES ASSUME RingInv, Tiled, CallbackMove PROVE Tiled'
  OBVIOUS
<1>1. PICK k \in 0 .. 2 * PageNum - 1 : rp = k * Request
  BY DEF Tiled
<1>2. rp' = (rp + Request) % N /\ rp \in 0 .. N - 1
  BY DEF CallbackMove, RingInv, Pointers, Slots
<1>3. rp' = IF rp + Request < N THEN rp + Request ELSE rp + Request - N
  <2> DEFINE x == rp + Request
  <2>1. x \in 0 .. 2 * N - 1
    <3>1. rp + Request <= N /\ Request \in Nat /\ N \in Nat /\ N >= 2
      BY TiledBound, Geometry
    <3>2. rp + Request \in Nat /\ N <= 2 * N - 1
      BY <1>2, <3>1
    <3> QED BY <3>1, <3>2
  <2>2. rp' = x % N
    BY <1>2
  <2> HIDE DEF x
  <2>3. rp' = IF x < N THEN x ELSE x - N
    BY <2>1, <2>2, Modulo
  <2> QED BY <1>2, <2>3, Geometry DEF x
<1>4. CASE rp + Request < N
  BY <1>1, <1>3, <1>4, Tiling DEF Tiled
<1>5. CASE ~(rp + Request < N)
  <2>1. rp + Request <= N
    BY TiledBound
  <2>2. rp' = 0
    BY <1>2, <1>3, <1>5, <2>1, Geometry
  <2>3. 0 \in 0 .. 2 * PageNum - 1 /\ 0 * Request = 0
    BY GeometryAssumption, Geometry
  <2> QED BY <2>2, <2>3 DEF Tiled
<1> QED BY <1>4, <1>5

\* Frames in the ring are of different numbers; those just played are in the
\* request being cleared, and then nowhere.
Numbered ==
    /\ buf \in [Slots -> 0 .. count] /\ count \in Nat
    /\ out \in [1 .. Request -> 0 .. count]
    /\ wpc = "post" => count + posts <= MaxFrames
    /\ \A s, t \in Slots : buf[s] = buf[t] /\ buf[s] # 0 => s = t
Behind ==
    \A i \in 1 .. Request, s \in Slots : out[i] = buf[s] /\ out[i] # 0 =>
        apc = "clear" /\ s \in rp .. rp + Request - 1
PlayedInv == RingInv /\ Tiled /\ Numbered /\ Behind

LEMMA PlayedInit == Init => PlayedInv
<1> SUFFICES ASSUME Init PROVE PlayedInv
  OBVIOUS
<1>1. RingInv
  BY RingInit
<1>2. Tiled
  <2>1. 0 \in 0 .. 2 * PageNum - 1 /\ 0 * Request = 0
    BY GeometryAssumption, Geometry
  <2> QED BY <2>1 DEF Tiled, Init
<1>3. Numbered /\ Behind
  BY Geometry DEF Init, Numbered, Behind
<1> QED BY <1>1, <1>2, <1>3 DEF PlayedInv

LEMMA PlayedCopy == PlayedInv /\ CallbackCopy => Numbered' /\ Behind'
<1> SUFFICES ASSUME PlayedInv, CallbackCopy PROVE Numbered' /\ Behind'
  OBVIOUS
<1>1. /\ out' = [i \in 1 .. Request |-> buf[rp + i - 1]] /\ apc' = "clear"
      /\ buf' = buf /\ rp' = rp /\ count' = count /\ wpc' = wpc /\ posts' = posts
  BY DEF CallbackCopy
<1>2. \A i \in 1 .. Request : rp + i - 1 \in Slots /\ rp + i - 1 \in rp .. rp + Request - 1
  BY TiledBound, Geometry DEF PlayedInv, RingInv, Pointers, Slots
<1>3. \A i \in 1 .. Request : out'[i] = buf[rp + i - 1] /\ buf[rp + i - 1] \in 0 .. count
  BY <1>1, <1>2 DEF PlayedInv, Numbered
<1>4. Numbered'
  BY <1>1, <1>3 DEF PlayedInv, Numbered
<1>5. Behind'
  BY <1>1, <1>2, <1>3 DEF PlayedInv, Numbered, Behind
<1> QED BY <1>4, <1>5

LEMMA PlayedClear == PlayedInv /\ CallbackClear => Numbered' /\ Behind'
<1> SUFFICES ASSUME PlayedInv, CallbackClear PROVE Numbered' /\ Behind'
  OBVIOUS
<1>1. /\ buf' = [s \in Slots |-> IF s \in rp .. rp + Request - 1 THEN 0 ELSE buf[s]]
      /\ apc' = "move" /\ out' = out /\ rp' = rp /\ count' = count /\ wpc' = wpc
      /\ posts' = posts
  BY DEF CallbackClear
<1>2. \A s \in Slots : buf'[s] = IF s \in rp .. rp + Request - 1 THEN 0 ELSE buf[s]
  BY <1>1
<1>3. Numbered'
  BY <1>1, <1>2 DEF PlayedInv, Numbered
<1>4. Behind'
  BY <1>1, <1>2 DEF PlayedInv, Behind
<1> QED BY <1>3, <1>4

LEMMA PlayedPost == ~Wrap /\ PlayedInv /\ PostSample => Numbered' /\ Behind'
<1> SUFFICES ASSUME ~Wrap, PlayedInv, PostSample PROVE Numbered' /\ Behind'
  OBVIOUS
<1>1. /\ buf' = [buf EXCEPT ![wp] = NextFrame] /\ count' = NextFrame /\ wpc = "post"
      /\ posts' = posts - 1 /\ wpc' = IF posts = 1 THEN "align" ELSE "post"
      /\ out' = out /\ apc' = apc /\ rp' = rp
  BY DEF PostSample
<1>2. posts \in {1, 2} /\ wp \in Slots /\ count \in Nat /\ MaxFrames \in Nat
  BY <1>1, GeometryAssumption DEF PlayedInv, RingInv, Headroom, Pointers, Numbered
<1>3. NextFrame = count + 1
  BY <1>1, <1>2 DEF NextFrame, PlayedInv, Numbered
<1>4. \A s \in Slots : buf'[s] = IF s = wp THEN count + 1 ELSE buf[s]
  BY <1>1, <1>2, <1>3 DEF PlayedInv, Numbered
<1>5. Numbered'
  <2>1. buf' \in [Slots -> 0 .. count'] /\ out' \in [1 .. Request -> 0 .. count']
    BY <1>1, <1>2, <1>3, <1>4 DEF PlayedInv, Numbered
  <2>2. wpc' = "post" => count' + posts' <= MaxFrames
    BY <1>1, <1>2, <1>3 DEF PlayedInv, Numbered
  <2>3. \A s, t \in Slots : buf'[s] = buf'[t] /\ buf'[s] # 0 => s = t
    <3>1. \A s \in Slots : buf[s] # count + 1
      BY <1>2 DEF PlayedInv, Numbered
    <3> QED BY <1>4, <3>1 DEF PlayedInv, Numbered
  <2> QED BY <1>1, <1>2, <1>3, <2>1, <2>2, <2>3 DEF Numbered
<1>6. Behind'
  <2>1. \A i \in 1 .. Request : out[i] # count + 1
    BY <1>2 DEF PlayedInv, Numbered
  <2> QED BY <1>1, <1>4, <2>1 DEF PlayedInv, Behind
<1> QED BY <1>5, <1>6

(* Whatever the pace of the device and the mode of oversampling, for every *)
(* ring audio_callback's requests tile: while frame numbers do not start   *)
(* again, no frame audio_callback has handed on is left in sample_buffer.  *)
THEOREM NothingHeardTwice == ASSUME ~Wrap PROVE Spec => []HeardOnce
<1>1. PlayedInv /\ RingInv' /\ [Next]_vars => PlayedInv'
  <2> SUFFICES ASSUME PlayedInv, RingInv', [Next]_vars PROVE Tiled' /\ Numbered' /\ Behind'
    BY DEF PlayedInv
  <2>1. CASE CallbackMove
    BY <2>1, TiledStep DEF CallbackMove, PlayedInv, Numbered, Behind
  <2>2. CASE CallbackCopy
    BY <2>2, PlayedCopy DEF CallbackCopy, PlayedInv, Tiled
  <2>3. CASE CallbackClear
    BY <2>3, PlayedClear DEF CallbackClear, PlayedInv, Tiled
  <2>4. CASE PostSample
    BY <2>4, PlayedPost DEF PostSample, PlayedInv, Tiled
  <2>5. CASE Instr
    BY <2>5 DEF Instr, PlayedInv, Tiled, Numbered, Behind
  <2>6. CASE \/ CreateLock \/ EnterLoop \/ LoopTop \/ CheckFull \/ SpinExit \/ Relock
             \/ MainThread \/ UNCHANGED vars
    <3>1. /\ UNCHANGED <<buf, rp, count, out, posts, apc>>
          /\ wpc' = "post" => wpc = "post"
      BY <2>6 DEF CreateLock, EnterLoop, LoopTop, CheckFull, SpinExit, Relock, MainThread,
           MainPoll, MainLock, MainUnlock, MainStop, MainJoin, vars, ring
    <3> QED BY <3>1 DEF PlayedInv, Tiled, Numbered, Behind
  <2> QED BY <2>1, <2>2, <2>3, <2>4, <2>5, <2>6 DEF Next, WorkThread, AudioThread
<1>2. PlayedInv => HeardOnce
  BY DEF PlayedInv, Behind, HeardOnce
<1> QED BY <1>1, <1>2, PlayedInit, RingInvariant, PTL DEF Spec

-----------------------------------------------------------------------------
(* While the device is paced and the mode stays, the ring is a delay line. *)

\* With oversampling, frames come and go in pairs.
InPairs ==
    oversampling => IF wpc = "post" THEN (ahead + posts) % 2 = 0 ELSE ahead % 2 = 0

PacedInv ==
    /\ RingInv /\ Tiled /\ InPairs
    /\ buf \in [Slots -> {0} \cup Frames] /\ count \in 0 .. MaxFrames
    /\ ahead <= N /\ (apc # "idle" => ahead > Request)

\* The writer never goes a frame too far, and has nothing to give back.
LEMMA PacedBounds ==
    ASSUME PacedInv
    PROVE  /\ ahead \in 0 .. N /\ (wpc = "post" => ahead <= N - 1)
           /\ wp = IF rp + ahead < N THEN rp + ahead ELSE rp + ahead - N
           /\ oversampling /\ wpc # "post" => wp % 2 = 0
<1> USE Geometry
<1>1. ahead \in 0 .. N + 1 /\ wp \in 0 .. N - 1 /\ rp \in 0 .. N - 1 /\ rp % 2 = 0
  BY DEF PacedInv, RingInv, Pointers, Slots
<1>2. ahead \in 0 .. N
  BY <1>1 DEF PacedInv
<1>3. wpc = "post" => ahead <= N - 1
  <2> SUFFICES ASSUME wpc = "post" PROVE ahead <= N - 1
    OBVIOUS
  <2>1. CASE ~oversampling
    BY <1>1, <2>1 DEF PacedInv, RingInv, Headroom
  <2>2. CASE oversampling
    BY <1>1, <2>2 DEF PacedInv, RingInv, Headroom, InPairs
  <2> QED BY <2>1, <2>2
<1>4. wp = IF rp + ahead < N THEN rp + ahead ELSE rp + ahead - N
  BY <1>1, <1>2 DEF PacedInv, RingInv, Apart
<1>5. oversampling /\ wpc # "post" => wp % 2 = 0
  <2>1. ahead % 2 = 0 => wp % 2 = 0
    BY <1>1, <1>2, <1>4
  <2> QED BY <2>1 DEF PacedInv, InPairs
<1> QED BY <1>2, <1>3, <1>4, <1>5

LEMMA PacedStays ==
    ASSUME Paced, Switches = {}, PacedInv, RingInv', [Next]_vars
    PROVE  PacedInv' /\ (LoopTop => ahead' = ahead)
<1> USE Geometry
<1>1. CASE LoopTop
  <2>1. /\ wpc = "align" /\ wpc' # "post" /\ oversampling' = oversampling
        /\ UNCHANGED <<buf, rp, count, apc>>
        /\ ahead' = ahead \/ (wp' = Align(wp) /\ ahead' = ahead - (wp - wp'))
    BY <1>1 DEF LoopTop
  <2>2. Align(wp) = wp
    <3>1. wp \in Nat /\ (oversampling => wp % 2 = 0)
      BY <2>1, PacedBounds DEF PacedInv, RingInv, Pointers, Slots
    <3> QED BY <3>1 DEF Align
  <2>3. ahead' = ahead
    <3>1. wp \in Int /\ ahead \in Int
      BY DEF PacedInv, RingInv, Pointers, Slots
    <3>2. CASE ahead' = ahead
      BY <3>2
    <3>3. CASE wp' = Align(wp) /\ ahead' = ahead - (wp - wp')
      <4>1. ahead' = ahead - (wp - wp)
        BY <2>2, <3>3
      <4> QED BY <3>1, <4>1
    <3> QED BY <2>1, <3>2, <3>3
  <2>4. InPairs'
    BY <2>1, <2>3 DEF PacedInv, InPairs
  <2>5. Tiled'
    BY <2>1 DEF PacedInv, Tiled
  <2> QED BY <2>1, <2>3, <2>4, <2>5 DEF PacedInv
<1>2. CASE PostSample
  <2>1. /\ buf' = [buf EXCEPT ![wp] = NextFrame] /\ count' = NextFrame /\ ahead' = ahead + 1
        /\ posts' = posts - 1 /\ wpc' = (IF posts = 1 THEN "align" ELSE "post") /\ wpc = "post"
        /\ UNCHANGED <<rp, oversampling, apc>>
    BY <1>2 DEF PostSample
  <2>2. NextFrame \in Frames
    BY GeometryAssumption DEF NextFrame, Frames, PacedInv
  <2>3. ahead \in Nat /\ posts \in {1, 2}
    BY <2>1 DEF PacedInv, RingInv, Pointers, Headroom
  <2>4. InPairs'
    BY <2>1, <2>3 DEF PacedInv, InPairs
  <2>5. (ahead > Request => ahead' > Request) /\ ahead' <= N
    BY <2>1, <2>3, PacedBounds
  <2>6. NextFrame \in 0 .. MaxFrames
    BY <2>2 DEF Frames
  <2> QED BY <1>2, <2>1, <2>2, <2>4, <2>5, <2>6 DEF PacedInv, Tiled, LoopTop
<1>3. CASE Instr
  <2>1. /\ oversampling' = oversampling /\ UNCHANGED <<buf, rp, count, ahead, apc>>
        /\ posts' \in {0, IF oversampling' THEN 2 ELSE 1} /\ wpc = "instr"
        /\ wpc' = IF posts' = 0 THEN "align" ELSE "post"
    BY <1>3 DEF Instr
  <2>2. InPairs'
    <3> SUFFICES ASSUME oversampling
                 PROVE  IF wpc' = "post" THEN (ahead + posts') % 2 = 0 ELSE ahead % 2 = 0
      BY <2>1 DEF InPairs
    <3>1. ahead \in Nat /\ ahead % 2 = 0
      BY <2>1 DEF PacedInv, RingInv, Pointers, InPairs
    <3>2. posts' = 0 \/ posts' = 2
      BY <2>1, Zenon
    <3>3. CASE posts' = 0
      BY <2>1, <3>1, <3>3
    <3>4. CASE posts' = 2
      BY <2>1, <3>1, <3>4
    <3> QED BY <3>2, <3>3, <3>4
  <2> QED BY <1>3, <2>1, <2>2 DEF PacedInv, Tiled, LoopTop
<1>4. CASE CallbackCopy
  BY <1>4 DEF CallbackCopy, PacedInv, Tiled, InPairs, LoopTop
<1>5. CASE CallbackClear
  BY <1>5 DEF CallbackClear, PacedInv, Tiled, InPairs, LoopTop
<1>6. CASE CallbackMove
  <2>1. ahead' = ahead - Request /\ UNCHANGED <<wp, oversampling, wpc, posts, buf, count>>
        /\ apc' = "idle" /\ ahead > Request
    BY <1>6 DEF CallbackMove, PacedInv, RingInv, Pointers
  <2>2. InPairs'
    BY <2>1 DEF PacedInv, RingInv, Pointers, Headroom, InPairs
  <2>3. Tiled'
    BY <1>6, TiledStep DEF PacedInv
  <2>4. ahead' <= N
    BY <2>1 DEF PacedInv, RingInv, Pointers
  <2>5. ~LoopTop
    BY <2>1 DEF LoopTop
  <2> QED BY <2>1, <2>2, <2>3, <2>4, <2>5 DEF PacedInv
<1>7. CASE CreateLock \/ EnterLoop \/ CheckFull \/ SpinExit \/ Relock \/ MainThread \/ UNCHANGED vars
  <2>1. /\ UNCHANGED <<buf, rp, count, posts, apc, ahead, oversampling>>
        /\ wpc' = "post" <=> wpc = "post"
    BY <1>7 DEF CreateLock, EnterLoop, CheckFull, SpinExit, Relock, MainThread,
         MainPoll, MainLock, MainUnlock, MainStop, MainJoin, vars, ring
  <2> QED BY <2>1 DEF PacedInv, Tiled, InPairs
<1> QED BY <1>1, <1>2, <1>3, <1>4, <1>5, <1>6, <1>7 DEF Next, WorkThread, AudioThread

\* The line, read off the ring without a modulo.
Lent == IF apc = "idle" THEN 0 ELSE Request
Place(j) == IF rp + j < N THEN rp + j ELSE rp + j - N

LineReads ==
    /\ Lent \in Nat /\ ahead - Lent \in Nat
    /\ \A j \in 0 .. N - 1 : Place(j) \in Slots
    /\ Unplayed = [i \in 1 .. ahead - Lent |-> buf[Place(Lent + i - 1)]]

LEMMA LineRead == PacedInv => LineReads
<1> SUFFICES ASSUME PacedInv PROVE LineReads
  OBVIOUS
<1>1. ahead \in 0 .. N /\ rp \in 0 .. N - 1 /\ Request \in Nat /\ N \in Nat
  BY PacedBounds, Geometry DEF PacedInv, RingInv, Pointers, Slots
<1>2. Lent \in Nat /\ ahead - Lent \in Nat
  BY <1>1 DEF Lent, PacedInv
<1>3. \A j \in 0 .. N - 1 : Place(j) \in Slots
  BY <1>1 DEF Place, Slots
<1>4. ASSUME NEW i \in 1 .. ahead - Lent
      PROVE  (rp + Lent + i - 1) % N = Place(Lent + i - 1)
  <2> DEFINE j == Lent + i - 1
             x == rp + j
  <2>1. j \in 0 .. N - 1 /\ rp + Lent + i - 1 = x
    BY <1>1, <1>2
  <2> HIDE DEF j
  <2>2. x \in 0 .. 2 * N - 1
    BY <1>1, <2>1
  <2>3. Place(j) = IF x < N THEN x ELSE x - N
    BY <1>1, <2>1 DEF Place
  <2> HIDE DEF x
  <2>4. x % N = Place(j)
    BY <2>2, <2>3, Modulo
  <2> QED BY <2>1, <2>4 DEF j
<1>5. Unplayed = [i \in 1 .. ahead - Lent |-> buf[(rp + Lent + i - 1) % N]]
  BY DEF Unplayed, Lent
<1> QED BY <1>2, <1>3, <1>4, <1>5 DEF LineReads

\* The line as a sequence, and the arithmetic of the places it is read from.
LEMMA LineFacts ==
    ASSUME PacedInv, LineReads
    PROVE  /\ ahead \in 0 .. N /\ rp \in 0 .. N - 1 /\ Request \in Nat /\ N \in Nat
           /\ N >= 2 * Request /\ Request >= 2 /\ rp + Request <= N
           /\ Unplayed \in Seq({0} \cup Frames) /\ Len(Unplayed) = ahead - Lent
           /\ \A i \in 1 .. ahead - Lent : Unplayed[i] = buf[Place(Lent + i - 1)]
           /\ \A i \in 1 .. ahead - Lent : Lent + i - 1 \in 0 .. N - 1
<1>1. ahead \in 0 .. N /\ rp \in 0 .. N - 1 /\ Request \in Nat /\ N \in Nat
      /\ N >= 2 * Request /\ Request >= 2 /\ rp + Request <= N
  BY PacedBounds, TiledBound, Geometry DEF PacedInv, RingInv, Pointers, Slots
<1>2. \A i \in 1 .. ahead - Lent : Lent + i - 1 \in 0 .. N - 1
  BY <1>1 DEF LineReads
<1>3. \A i \in 1 .. ahead - Lent : buf[Place(Lent + i - 1)] \in {0} \cup Frames
  BY <1>2 DEF LineReads, PacedInv
<1>4. \A i \in 1 .. ahead - Lent : Unplayed[i] = buf[Place(Lent + i - 1)]
  BY DEF LineReads
<1> DEFINE n == ahead - Lent
<1>5. n \in Nat /\ DOMAIN Unplayed = 1 .. n /\ Unplayed \in [1 .. n -> {0} \cup Frames]
  BY <1>3 DEF LineReads
<1> HIDE DEF n
<1>6. Unplayed \in Seq({0} \cup Frames) /\ Len(Unplayed) = n
  BY <1>5
<1> QED BY <1>1, <1>2, <1>4, <1>6 DEF n

LEMMA AppendAsFunction ==
    ASSUME NEW S, NEW s \in Seq(S), NEW e \in S
    PROVE  Append(s, e) = [i \in 1 .. Len(s) + 1 |-> IF i = Len(s) + 1 THEN e ELSE s[i]]
<1> DEFINE t == Append(s, e)
           n == Len(s)
<1>1. t \in Seq(S) /\ Len(t) = n + 1 /\ n \in Nat /\ t[n + 1] = e
      /\ \A i \in 1 .. n : t[i] = s[i]
  OBVIOUS
<1> HIDE DEF t, n
<1>2. t = [i \in 1 .. n + 1 |-> t[i]]
  BY <1>1
<1>3. \A i \in 1 .. n + 1 : t[i] = IF i = n + 1 THEN e ELSE s[i]
  BY <1>1
<1>4. t = [i \in 1 .. n + 1 |-> IF i = n + 1 THEN e ELSE s[i]]
  BY <1>2, <1>3
<1> QED BY <1>4 DEF t, n

\* A frame posted goes in behind everything in the line.
LEMMA PostIsPost ==
    ASSUME PacedInv, LineReads, PacedInv', LineReads', PostSample
    PROVE  Line!Post
<1>1. /\ buf' = [buf EXCEPT ![wp] = NextFrame] /\ ahead' = ahead + 1 /\ wpc = "post"
      /\ UNCHANGED <<rp, apc, out>>
  BY DEF PostSample
<1>2. NextFrame \in Frames
  BY GeometryAssumption DEF NextFrame, Frames, PacedInv
<1>3. ahead \in 0 .. N - 1 /\ wp = Place(ahead)
  BY <1>1, PacedBounds, LineFacts DEF Place
<1>4. Lent' = Lent /\ \A j : Place(j)' = Place(j)
  BY <1>1 DEF Lent, Place
<1> DEFINE n == ahead - Lent
<1>5. n \in Nat /\ ahead' - Lent' = n + 1 /\ n + 1 \in Nat /\ Lent \in Nat /\ n < N
  <2>1. ahead \in Int /\ N \in Int /\ ahead <= N - 1
    BY <1>3, LineFacts
  <2>2. Lent \in Nat /\ ahead - Lent \in Nat
    BY DEF LineReads
  <2> QED BY <1>1, <1>4, <2>1, <2>2
<1>6. \A i \in 1 .. n + 1 : Unplayed'[i] = buf'[Place(Lent + i - 1)]
  BY <1>4, <1>5 DEF LineReads
<1>7. \A i \in 1 .. n : Unplayed'[i] = Unplayed[i]
  <2> SUFFICES ASSUME NEW i \in 1 .. n PROVE Unplayed'[i] = Unplayed[i]
    OBVIOUS
  <2> DEFINE j == Lent + i - 1
  <2>1. j \in 0 .. ahead - 1 /\ i \in 1 .. n + 1
    BY <1>3, <1>5
  <2>2. Unplayed'[i] = buf'[Place(j)] /\ Unplayed[i] = buf[Place(j)]
    BY <1>6, <2>1, LineFacts
  <2> HIDE DEF j
  <2>3. Place(j) # wp /\ Place(j) \in Slots
    <3>1. j \in 0 .. N - 1
      BY <1>3, <2>1, LineFacts
    <3>2. rp \in Int /\ N \in Int /\ j \in Int /\ ahead \in Int /\ 0 <= j /\ j < ahead /\ ahead < N
      BY <1>3, <2>1, LineFacts
    <3>3. Place(j) # Place(ahead)
      BY <3>2 DEF Place
    <3> QED BY <1>3, <3>1, <3>3 DEF LineReads
  <2> QED BY <1>1, <2>2, <2>3 DEF PacedInv
<1>8. Unplayed'[n + 1] = NextFrame
  <2>1. Lent + (n + 1) - 1 = ahead /\ n + 1 \in 1 .. n + 1
    BY <1>3, <1>5
  <2>2. Unplayed'[n + 1] = buf'[wp]
    BY <1>3, <1>6, <2>1
  <2>3. wp \in Slots
    BY DEF PacedInv, RingInv, Pointers
  <2> QED BY <1>1, <2>2, <2>3 DEF PacedInv
<1> HIDE DEF n
<1>9. Unplayed' = Append(Unplayed, NextFrame)
  <2>1. Unplayed \in Seq({0} \cup Frames) /\ Len(Unplayed) = n
    BY LineFacts DEF n
  <2>2. Unplayed' = [i \in 1 .. n + 1 |-> Unplayed'[i]]
    BY <1>5 DEF LineReads
  <2>3. Append(Unplayed, NextFrame) =
          [i \in 1 .. n + 1 |-> IF i = n + 1 THEN NextFrame ELSE Unplayed[i]]
    BY <2>1, <1>2, AppendAsFunction
  <2>4. \A i \in 1 .. n + 1 : Unplayed'[i] = IF i = n + 1 THEN NextFrame ELSE Unplayed[i]
    BY <1>5, <1>7, <1>8
  <2> QED BY <2>2, <2>3, <2>4
<1>10. Len(Unplayed) < N
  BY <1>5, LineFacts DEF n
<1> QED BY <1>1, <1>2, <1>9, <1>10 DEF Line!Post

\* The callback's copy takes its request from the front of the line.
LEMMA CopyIsPlay ==
    ASSUME Paced, PacedInv, LineReads, PacedInv', LineReads', CallbackCopy
    PROVE  Line!Play
<1>1. /\ apc = "idle" /\ ahead > Request /\ apc' = "clear"
      /\ out' = [i \in 1 .. Request |-> buf[rp + i - 1]]
      /\ UNCHANGED <<buf, rp, ahead>>
  BY DEF CallbackCopy
<1>2. Lent = 0 /\ Lent' = Request /\ \A j : Place(j)' = Place(j)
  BY <1>1 DEF Lent, Place
<1>3. /\ Unplayed \in Seq({0} \cup Frames) /\ Len(Unplayed) = ahead
      /\ \A i \in 1 .. ahead : Unplayed[i] = buf[Place(i - 1)]
      /\ ahead \in Nat /\ Request \in Nat /\ ahead - Request \in Nat /\ ahead <= N
  BY <1>1, <1>2, LineFacts
<1>4. out' = SubSeq(Unplayed, 1, Request)
  <2>1. SubSeq(Unplayed, 1, Request) = [i \in 1 .. Request |-> Unplayed[i]]
    BY <1>1, <1>3
  <2>2. ASSUME NEW i \in 1 .. Request PROVE buf[rp + i - 1] = Unplayed[i]
    <3>1. Place(i - 1) = rp + i - 1
      BY LineFacts DEF Place
    <3>2. i \in 1 .. ahead
      BY <1>1, <1>3
    <3> QED BY <1>3, <3>1, <3>2
  <2> QED BY <1>1, <2>1, <2>2
<1>5. Unplayed' = SubSeq(Unplayed, Request + 1, Len(Unplayed))
  <2> DEFINE n == ahead - Request
  <2>1. n \in Nat /\ Unplayed' = [i \in 1 .. n |-> buf[Place(Request + i - 1)]]
    BY <1>1, <1>2, <1>3 DEF LineReads
  <2>2. ASSUME NEW i \in 1 .. n PROVE buf[Place(Request + i - 1)] = Unplayed[Request + i]
    <3> DEFINE k == Request + i
    <3>1. k \in 1 .. ahead /\ Request + i - 1 = k - 1
      BY <1>3
    <3> HIDE DEF k
    <3>2. Unplayed[k] = buf[Place(k - 1)]
      BY <1>3, <3>1
    <3> QED BY <3>1, <3>2 DEF k
  <2> HIDE DEF n
  <2>3. SubSeq(Unplayed, Request + 1, Len(Unplayed)) = [i \in 1 .. n |-> Unplayed[Request + i]]
    BY <1>1, <1>3 DEF n
  <2> QED BY <2>1, <2>2, <2>3
<1> QED BY <1>1, <1>3, <1>4, <1>5 DEF Line!Play

\* Clearing what was played touches no frame of the line.
LEMMA ClearStutters ==
    ASSUME PacedInv, LineReads, PacedInv', LineReads', CallbackClear
    PROVE  Unplayed' = Unplayed /\ out' = out
<1>1. /\ apc = "clear" /\ apc' = "move" /\ UNCHANGED <<rp, ahead, out>>
      /\ buf' = [s \in Slots |-> IF s \in rp .. rp + Request - 1 THEN 0 ELSE buf[s]]
  BY DEF CallbackClear
<1>2. Lent = Request /\ Lent' = Request /\ \A j : Place(j)' = Place(j)
  BY <1>1 DEF Lent, Place
<1>3. ASSUME NEW i \in 1 .. ahead - Request
      PROVE  buf'[Place(Request + i - 1)] = buf[Place(Request + i - 1)]
  <2> DEFINE j == Request + i - 1
  <2>1. j \in Request .. ahead - 1 /\ j \in 0 .. N - 1
    BY LineFacts
  <2> HIDE DEF j
  <2>2. Place(j) \in Slots
    BY <2>1 DEF LineReads
  <2>3. Place(j) \notin rp .. rp + Request - 1
    BY <2>1, LineFacts DEF Place
  <2>4. buf'[Place(j)] = buf[Place(j)]
    BY <1>1, <2>2, <2>3
  <2> QED BY <2>4 DEF j
<1> QED BY <1>1, <1>2, <1>3 DEF LineReads

\* Moving the read pointer reads the same line from its new front.
LEMMA MoveStutters ==
    ASSUME PacedInv, LineReads, PacedInv', LineReads', CallbackMove
    PROVE  Unplayed' = Unplayed /\ out' = out
<1>1. /\ apc = "move" /\ apc' = "idle" /\ UNCHANGED <<buf, out>>
      /\ rp' = (rp + Request) % N /\ ahead' = ahead - Request
  BY LineFacts DEF CallbackMove, PacedInv
<1>2. Lent = Request /\ Lent' = 0
  BY <1>1 DEF Lent
<1>3. rp' = IF rp + Request < N THEN rp + Request ELSE rp + Request - N
  <2> DEFINE x == rp + Request
  <2>1. x \in 0 .. 2 * N - 1
    BY LineFacts
  <2>2. rp' = x % N
    BY <1>1
  <2> HIDE DEF x
  <2>3. rp' = IF x < N THEN x ELSE x - N
    BY <2>1, <2>2, Modulo
  <2> QED BY <2>3, LineFacts DEF x
<1>4. ASSUME NEW i \in 1 .. ahead - Request
      PROVE  Place(i - 1)' = Place(Request + i - 1)
  <2> DEFINE j == i - 1
             q == rp'
  <2>1. j \in 0 .. ahead - Request - 1 /\ Request + i - 1 = Request + j
    BY LineFacts
  <2>2. /\ rp \in Nat /\ N \in Nat /\ Request \in Nat /\ j \in Nat
        /\ rp + Request <= N /\ Request + j < N
    BY <2>1, LineFacts
  <2>3. q = IF rp + Request < N THEN rp + Request ELSE rp + Request - N
    BY <1>3
  <2>4. Place(j)' = IF q + j < N THEN q + j ELSE q + j - N
    BY DEF Place
  <2> HIDE DEF j, q
  <2>5. Place(Request + j) = IF rp + (Request + j) < N THEN rp + (Request + j)
                                                       ELSE rp + (Request + j) - N
    BY DEF Place
  <2>6. Place(j)' = Place(Request + j)
    <3>1. CASE rp + Request < N
      BY <2>2, <2>3, <2>4, <2>5, <3>1
    <3>2. CASE rp + Request = N
      <4>1. q = 0
        BY <2>2, <2>3, <3>2
      <4> QED BY <2>2, <2>4, <2>5, <3>2, <4>1
    <3> QED BY <2>2, <3>1, <3>2
  <2> QED BY <2>1, <2>6 DEF j
<1> QED BY <1>1, <1>2, <1>4, LineFacts DEF LineReads

(* While the device is paced and firmware leaves oversampling as it was,   *)
(* for every ring that the requests tile: a frame of MCU_PostSample enters *)
(* a delay line of N frames at its back, audio_callback takes a request    *)
(* from its front, and no other step of any thread touches the line.       *)
THEOREM PacedIsDelayLine ==
    ASSUME Paced, Switches = {}
    PROVE  Spec => ImplementsDelayLine
<1>1. Init => PacedInv
  <2> SUFFICES ASSUME Init PROVE PacedInv
    OBVIOUS
  <2>1. RingInv /\ Tiled
    BY PlayedInit DEF PlayedInv
  <2>2. InPairs /\ ahead <= N
    BY Geometry DEF Init, InPairs
  <2> QED BY <2>1, <2>2, GeometryAssumption DEF Init, PacedInv
<1>2. Init /\ LineReads => Line!Init
  <2> SUFFICES ASSUME Init, LineReads PROVE Line!Init
    OBVIOUS
  <2>1. PacedInv
    BY <1>1
  <2>2. Lent = 0 /\ ahead = N /\ ahead - Lent = N
    BY Geometry DEF Lent, Init
  <2>3. \A i \in 1 .. N : buf[Place(Lent + i - 1)] = 0
    BY <2>1, <2>2, LineFacts DEF LineReads, Init
  <2> QED BY <2>2, <2>3 DEF LineReads, Line!Init, Init
<1>3. PacedInv /\ RingInv' /\ [Next]_vars => PacedInv'
  BY PacedStays
<1>4. PacedInv /\ RingInv' /\ LineReads /\ LineReads' /\ [Next]_vars
        => [Line!Post \/ Line!Play]_<<Unplayed, out>>
  <2> SUFFICES ASSUME PacedInv, RingInv', LineReads, LineReads', [Next]_vars
               PROVE  Line!Post \/ Line!Play \/ (Unplayed' = Unplayed /\ out' = out)
    OBVIOUS
  <2>1. PacedInv' /\ (LoopTop => ahead' = ahead)
    BY PacedStays
  <2>2. CASE PostSample BY <2>1, <2>2, PostIsPost
  <2>3. CASE CallbackCopy BY <2>1, <2>3, CopyIsPlay
  <2>4. CASE CallbackClear BY <2>1, <2>4, ClearStutters
  <2>5. CASE CallbackMove BY <2>1, <2>5, MoveStutters
  <2>6. CASE \/ CreateLock \/ EnterLoop \/ LoopTop \/ CheckFull \/ SpinExit \/ Relock
             \/ Instr \/ MainThread \/ UNCHANGED vars
    <3>1. UNCHANGED <<buf, rp, ahead, apc, out>>
      BY <2>1, <2>6 DEF CreateLock, EnterLoop, LoopTop, CheckFull, SpinExit, Relock, Instr,
           MainThread, MainPoll, MainLock, MainUnlock, MainStop, MainJoin, vars, ring
    <3> QED BY <3>1 DEF Unplayed
  <2> QED BY <2>2, <2>3, <2>4, <2>5, <2>6 DEF Next, WorkThread, AudioThread
<1> QED
  BY <1>1, <1>2, <1>3, <1>4, LineRead, RingInvariant, PTL
     DEF Spec, ImplementsDelayLine, Line!Spec
=============================================================================
