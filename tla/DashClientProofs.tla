--------------------------- MODULE DashClientProofs ---------------------------
(***************************************************************************)
(* Proofs about the DASH client.  The inductive invariant Inv says that the  *)
(* client is Sound (see below) and that its parser is settled: it knows a    *)
(* message size unless it has read nothing, it holds what it was given only  *)
(* for want of room in the player, and it has not read on past a complete    *)
(* message.  Kept adds what one event may do to the segments asked  *)
(* for and the frames, which is what the refinement of SegmentStream needs.  *)
(***************************************************************************)
EXTENDS DashClient, ModelLemmas

-----------------------------------------------------------------------------
(***************************************************************************)
(* What the operators of DashClient do to a client that is sound.            *)
(*                                                                         *)
(* A client c is Sound when, with tc the units TCP has not delivered, ts the *)
(* messages the server has not read, sv the segments served and "lost" the   *)
(* connections lost,                                                         *)
(*   PlayerSound   the frames in the buffer follow those shown;              *)
(*   StreamSound   while a request is pending, the parser, the socket and    *)
(*                 the network together hold a part of one segment, Aligned  *)
(*                 at the frame the player needs next, or its request and    *)
(*                 nothing else; the bytes counted and those of a whole rest *)
(*                 are the bytes served; while none is, they hold nothing;   *)
(*   EventsSound   each RequestSegment event beyond the one that may wait    *)
(*                 was left by a connection lost.                            *)
(* The handlers are taken one by one, innermost first: the player's,         *)
(* RequestSegment, a round of the parser, its loop, ReadSocket.  Progress    *)
(* collects what the parser may do besides.                                  *)
(***************************************************************************)

(* What the client sends.                                                   *)
ServerMessages ==
  {m \in [kind : {"REQUEST", "BLANK"}, seg : 0 .. MaxSegments, rate : Rates \union {0}] :
     m.kind = "REQUEST" => m.rate \in Rates}

(* The clients, whatever the connection.                                    *)
Clients ==
  [player : P!PlayerRecord, socket : {"NULL", "SYN_SENT", "ESTABLISHED", "CLOSING"},
   connected : BOOLEAN, pending : BOOLEAN, segmentId : 0 .. MaxSegments + 1,
   bitRate : Rates, segmentBytes : Nat,
   measured : [seg : -1 .. MaxSegments - 1, bytes : Nat],
   delayed : Nat, keepAlive : BOOLEAN,
   data : Seq(StreamUnits), msgSize : Sizes \union {0}, rx : Seq(StreamUnits),
   out : Seq(ServerMessages), aborted : BOOLEAN]

(* The place in the video of the frame the player needs next.               *)
Position(p) == p.framesPlayed + Len(p.buffer.queue)

(* The frames in the buffer are those after the frames shown; the clock     *)
(* stands still at 0.                                                       *)
PlayerSound(p) ==
  /\ p \in P!PlayerRecord /\ p.lastPaused = 0 /\ p.firstBuff = 0
  /\ \A i \in 1 .. Len(p.buffer.queue) :
       LET f == p.buffer.queue[i]
       IN  f.seg * FramesPerSegment + f.id = p.framesPlayed + i - 1

(* The stream st begins with the frame id of the segment seg and holds it   *)
(* and its successors unit by unit, up to where it ends.                    *)
Aligned(st, seg, id) ==
  /\ st # <<>> => st[1].k = 1 /\ st[1].frame.id = id
  /\ \A i \in 1 .. Len(st) :
       LET u == st[i]
           b == i - u.k
           n == u.frame.size
       IN  /\ 0 <= b /\ 1 <= u.k /\ u.k <= n /\ u.frame.seg = seg
           /\ \A k \in 1 .. n : b + k <= Len(st) => st[b + k] = [frame |-> u.frame, k |-> k]
           /\ b + n + 1 <= Len(st) =>
                st[b + n + 1].k = 1 /\ st[b + n + 1].frame.id = u.frame.id + 1

(* The stream ends where its segment does.                                  *)
Whole(st) ==
  /\ st # <<>>
  /\ LET u == st[Len(st)] IN u.k = u.frame.size /\ u.frame.id = FramesPerSegment - 1

(* All of the stream that the player has not taken.                         *)
InStream(c, tc) == Joined(c.data, c.rx, tc)

(* The server has answered a request for seg with n bytes.                  *)
IsServed(sv, seg, n) ==
  \E i \in 1 .. Len(sv) : sv[i] = [seg |-> seg, bytes |-> n]

(* The messages q hold at most one request, for seg.                        *)
OneRequest(q, seg) ==
  /\ \A i \in Requests(q) : q[i].seg = seg
  /\ \A i, k \in Requests(q) : i = k

(* What waits between the server and the player is what the request flag    *)
(* says, and the bytes counted fit.                                         *)
StreamSound(c, st, q, sv) ==
  IF c.pending
  THEN LET seg == c.segmentId - 1
           j == Position(c.player) - seg * FramesPerSegment
       IN  /\ j \in 0 .. FramesPerSegment
           /\ Aligned(st, seg, j)
           /\ Requests(q) # {} => j = 0 /\ st = <<>> /\ c.segmentBytes = 0
           /\ OneRequest(q, seg)
           /\ Whole(st) => IsServed(sv, seg, c.segmentBytes + Len(st))
  ELSE /\ st = <<>> /\ Requests(q) = {}
       /\ Position(c.player) = c.segmentId * FramesPerSegment
       /\ c.segmentId <= MaxSegments

(* A delayed request waits while none is pending; any other was left by a   *)
(* connection that is lost.                                                 *)
EventsSound(c, lost) ==
  /\ c.delayed <= lost + (IF c.pending \/ c.socket = "SYN_SENT" THEN 0 ELSE 1)
  /\ c.pending /\ c.socket = "SYN_SENT" /\ c.player.state # "DONE" => c.delayed <= lost - 1
  /\ c.socket = "NULL" => ~c.pending /\ c.delayed = 0

(* The parser that knows no size holds nothing.                             *)
ParserSound(c) ==
  /\ c.msgSize = 0 => c.data = <<>> /\ c.rx = <<>>
  /\ Len(c.rx) <= RxCapacity

(* All of this of the client c, with tc and q in the network.               *)
ClientSound(c, tc, q, sv, lost) ==
  /\ c \in Clients
  /\ ~c.aborted /\ (c.connected => c.socket = "ESTABLISHED")
  /\ PlayerSound(c.player)
  /\ EventsSound(c, lost)
  /\ StreamSound(c, InStream(c, tc), q, sv)
  /\ c.measured.seg # -1 => \E i \in 1 .. Len(sv) : sv[i] = c.measured

(* The same when what the client has just sent follows ts.                  *)
Sound(c, tc, ts, sv, lost) ==
  /\ ClientSound(c, tc, ts \o c.out, sv, lost)
  /\ tc \in Seq(StreamUnits) /\ ts \in Seq(ServerMessages) /\ lost \in Nat

-----------------------------------------------------------------------------
(* Messages and the player. *)

(* The fields of a message.                                                 *)
LEMMA MessageFields ==
  ASSUME NEW f \in Messages
  PROVE  /\ f.seg \in 0 .. MaxSegments - 1 /\ f.id \in 0 .. FramesPerSegment - 1
         /\ f.seg \in Nat /\ f.id \in Nat /\ f.res \in Nat /\ f.size \in Nat
         /\ f.size \in Sizes /\ HeaderSize <= f.size /\ 1 <= f.size
<1>1. /\ f.seg \in 0 .. MaxSegments - 1 /\ f.id \in 0 .. FramesPerSegment - 1
      /\ f.res \in Rates /\ f.size \in Sizes
  BY DEF Messages
<1>2. f.res \in Nat
  BY <1>1, ClientAssumption
<1>3. f.size \in {s \in Nat : s >= HeaderSize /\ s <= Capacity}
  BY <1>1, ClientAssumption
<1>4. HeaderSize \in Nat /\ 1 <= HeaderSize
  BY ClientAssumption
<1> QED
  BY <1>1, <1>2, <1>3, <1>4

(* The fields of a player.                                                  *)
LEMMA PlayerFields ==
  ASSUME NEW p \in P!PlayerRecord
  PROVE  /\ p.state \in P!PlayerStates /\ p.buffer \in P!FrameBuffers
         /\ p.buffer.queue \in Seq(Messages) /\ p.buffer.bytes \in Int
         /\ p.startTime \in Nat /\ p.interruptionTime \in Nat
         /\ p.lastPaused \in Nat /\ p.interruptions \in Nat
         /\ p.framesPlayed \in Nat /\ p.rates \in P!RateStatistics
         /\ p.firstPlay \in BOOLEAN /\ p.firstBuff \in Nat
         /\ p.initBuff \in Nat /\ p.wakeups \in Seq(Nat) /\ p.checks \in Nat
BY DEF P!PlayerRecord, P!FrameBuffers

(* A frame pushed behind the frames in order, and the first one popped.     *)
LEMMA PushResult ==
  ASSUME NEW p, PlayerSound(p), NEW f \in Messages,
         f.seg * FramesPerSegment + f.id = Position(p)
  PROVE  LET q == [p EXCEPT !.buffer = P!Push(p.buffer, f)]
         IN  /\ PlayerSound(q) /\ Position(q) = Position(p) + 1
             /\ q.state = p.state /\ q.framesPlayed = p.framesPlayed
             /\ q.buffer.queue # <<>>
<1> DEFINE b == P!Push(p.buffer, f)
           q == [p EXCEPT !.buffer = b]
<1>1. p \in P!PlayerRecord
  BY DEF PlayerSound
<1>2. PICK old \in Seq(Messages) : old = p.buffer.queue
  BY <1>1, PlayerFields
<1>3. PICK new \in Seq(Messages) : new = Append(old, f)
  BY AppendProperties
<1>4. /\ Len(old) \in Nat /\ Len(new) = Len(old) + 1
      /\ \A i \in 1 .. Len(old) : new[i] = old[i]
      /\ new[Len(old) + 1] = f
  BY <1>3, AppendProperties, LenProperties
<1>5. b.queue = new /\ b.bytes \in Int /\ b \in P!FrameBuffers
  <2>1. p.buffer.bytes + f.size \in Int
    BY <1>1, PlayerFields, MessageFields
  <2> QED
    BY <1>2, <1>3, <2>1 DEF P!Push, P!FrameBuffers
<1> HIDE DEF b
<1>6. /\ q \in P!PlayerRecord /\ q.buffer = b
      /\ q.lastPaused = p.lastPaused /\ q.firstBuff = p.firstBuff
      /\ q.state = p.state /\ q.framesPlayed = p.framesPlayed
  BY <1>1, <1>5 DEF P!PlayerRecord
<1> HIDE DEF q
<1>7. p.framesPlayed \in Nat
  BY <1>1, PlayerFields
<1>8. Position(q) = Position(p) + 1
  BY <1>2, <1>4, <1>5, <1>6, <1>7 DEF Position
<1>9. ASSUME NEW i \in 1 .. Len(new)
      PROVE  new[i].seg * FramesPerSegment + new[i].id = p.framesPlayed + i - 1
  <2>1. CASE i \in 1 .. Len(old)
    BY <1>2, <1>4, <2>1 DEF PlayerSound
  <2>2. CASE i = Len(old) + 1
    <3>1. Position(p) = p.framesPlayed + i - 1
      BY <1>2, <1>4, <1>7, <2>2 DEF Position
    <3> QED
      BY <1>4, <2>2, <3>1
  <2> QED
    BY <1>4, <2>1, <2>2
<1>10. PlayerSound(q)
  BY <1>5, <1>6, <1>9 DEF PlayerSound
<1>11. new # <<>>
  BY <1>4, EmptySeq
<1> QED
  BY <1>5, <1>6, <1>8, <1>10, <1>11 DEF q, b

(* The statistics of the rates.                                             *)
LEMMA CountType ==
  ASSUME NEW r \in P!RateStatistics, NEW f \in Messages
  PROVE  P!Count(r, f) \in P!RateStatistics
<1>1. f.res \in Nat /\ f.seg \in Nat
  BY MessageFields
<1>2. r.total \in Nat /\ r.min \in Nat /\ r.minmin \in Nat /\ r.max \in Nat
  BY DEF P!RateStatistics
<1> QED
  BY <1>1, <1>2 DEF P!Count, P!RateStatistics, P!Smaller, P!Larger

(* A frame shown.                                                           *)
LEMMA ShowResult ==
  ASSUME NEW p, PlayerSound(p), p.buffer.queue # <<>>
  PROVE  LET q == P!ShowFrame(p, 0)
         IN  /\ PlayerSound(q) /\ Position(q) = Position(p) /\ q.state = p.state
             /\ q.framesPlayed = p.framesPlayed + 1 /\ q.checks = p.checks + 1
<1> DEFINE b == P!Pop(p.buffer)
           r == P!Count(p.rates, Head(p.buffer.queue))
           w == Append(p.wakeups, 0 + 1)
           n == p.framesPlayed + 1
           k == p.checks + 1
           q == [p EXCEPT !.buffer = b, !.rates = r, !.framesPlayed = n,
                          !.wakeups = w, !.checks = k]
<1>1. p \in P!PlayerRecord /\ p.lastPaused = 0 /\ p.firstBuff = 0
  BY DEF PlayerSound
<1>2. PICK old \in Seq(Messages) : old = p.buffer.queue
  BY <1>1, PlayerFields
<1>3. PICK new \in Seq(Messages), f \in Messages : new = Tail(old) /\ f = Head(old)
  BY <1>2, HeadTailProperties
<1>4. /\ Len(old) \in Nat /\ Len(new) = Len(old) - 1
      /\ \A i \in 1 .. Len(new) : new[i] = old[i + 1]
  BY <1>2, <1>3, HeadTailProperties, LenProperties
<1>5. b.queue = new /\ b \in P!FrameBuffers
  <2>1. p.buffer.bytes - f.size \in Int
    BY <1>1, PlayerFields, MessageFields
  <2> QED
    BY <1>2, <1>3, <2>1 DEF P!Pop, P!FrameBuffers
<1>6. r \in P!RateStatistics
  BY <1>1, <1>2, <1>3, CountType, PlayerFields
<1>7. w \in Seq(Nat)
  BY <1>1, PlayerFields, AppendProperties
<1>8. P!ShowFrame(p, 0) = q
  BY DEF P!ShowFrame
<1>9. p.framesPlayed \in Nat /\ n \in Nat /\ n = p.framesPlayed + 1 /\ k \in Nat
  BY <1>1, PlayerFields
<1> HIDE DEF b, r, w, n, k
<1>10. /\ q \in P!PlayerRecord /\ q.buffer = b
       /\ q.lastPaused = p.lastPaused /\ q.firstBuff = p.firstBuff
       /\ q.state = p.state /\ q.framesPlayed = n /\ q.checks = k
  BY <1>1, <1>5, <1>6, <1>7, <1>9 DEF P!PlayerRecord
<1> HIDE DEF q
<1>11. Position(q) = Position(p)
  <2>1. Position(q) = n + Len(new) /\ Position(p) = p.framesPlayed + Len(old)
    BY <1>2, <1>5, <1>10 DEF Position
  <2> QED
    BY <1>4, <1>9, <2>1
<1>12. ASSUME NEW i \in 1 .. Len(new)
       PROVE  new[i].seg * FramesPerSegment + new[i].id = q.framesPlayed + i - 1
  <2>1. i + 1 \in 1 .. Len(old)
    BY <1>4
  <2>2. old[i + 1].seg * FramesPerSegment + old[i + 1].id = p.framesPlayed + (i + 1) - 1
    BY <1>2, <2>1 DEF PlayerSound
  <2>3. q.framesPlayed + i - 1 = p.framesPlayed + (i + 1) - 1
    BY <1>9, <1>10
  <2> QED
    BY <1>4, <2>2, <2>3
<1>13. PlayerSound(q)
  BY <1>1, <1>5, <1>10, <1>12 DEF PlayerSound
<1> QED
  BY <1>8, <1>10, <1>11, <1>13 DEF n, k

(* What an operator may do to a player: show a frame or not.                *)
Shows(p, q) ==
  /\ PlayerSound(q) /\ Position(q) = Position(p)
  /\ q.state = "DONE" <=> p.state = "DONE"
  /\ \/ q.framesPlayed = p.framesPlayed /\ q.buffer = p.buffer /\ q.checks = p.checks
     \/ q.framesPlayed = p.framesPlayed + 1 /\ q.checks = p.checks + 1

(* A change of the members a frame has no part in.                          *)
LEMMA OtherMembers ==
  ASSUME NEW p, PlayerSound(p), NEW q \in P!PlayerRecord,
         q.buffer = p.buffer, q.framesPlayed = p.framesPlayed,
         q.lastPaused = 0, q.firstBuff = 0
  PROVE  PlayerSound(q) /\ Position(q) = Position(p)
BY DEF PlayerSound, Position

(* PlayFrame, at the instant the clock stands still.                        *)
LEMMA PlayFrameResult ==
  ASSUME NEW p, PlayerSound(p)
  PROVE  /\ Shows(p, P!PlayFrame(p, 0))
         /\ p.state = "PLAYING" /\ p.buffer.queue # <<>> =>
              P!PlayFrame(p, 0).state = "PLAYING"
<1>1. p \in P!PlayerRecord /\ p.lastPaused = 0 /\ p.firstBuff = 0
  BY DEF PlayerSound
<1>2. CASE p.state = "DONE"
  <2>1. P!PlayFrame(p, 0) = p
    BY <1>2 DEF P!PlayFrame
  <2> QED
    BY <1>2, <2>1 DEF Shows
<1>3. CASE p.state # "DONE"
  <2> DEFINE q == IF p.state = "INITIAL_BUFFERING" THEN P!BeginPlayback(p, 0) ELSE p
  <2>1. P!PlayFrame(p, 0) = IF q.buffer.queue = <<>> THEN P!Pause(q, 0)
                            ELSE P!ShowFrame(q, 0)
    BY <1>3 DEF P!PlayFrame
  <2>2. /\ q \in P!PlayerRecord /\ q.lastPaused = 0 /\ q.firstBuff = 0
        /\ q.buffer = p.buffer /\ q.framesPlayed = p.framesPlayed
        /\ q.checks = p.checks /\ q.state # "DONE"
        /\ p.state = "PLAYING" => q.state = "PLAYING"
    <3>1. CASE p.state = "INITIAL_BUFFERING"
      <4> DEFINE b == IF p.firstPlay THEN p.initBuff ELSE 0 - p.firstBuff
      <4>1. b \in Nat
        BY <1>1, PlayerFields
      <4>2. q = [p EXCEPT !.startTime = 0, !.state = "PLAYING", !.initBuff = b,
                          !.firstPlay = TRUE]
        BY <3>1 DEF P!BeginPlayback
      <4> HIDE DEF b
      <4> QED
        BY <1>1, <3>1, <4>1, <4>2, ZenonT(30) DEF P!PlayerRecord, P!PlayerStates
    <3>2. CASE p.state # "INITIAL_BUFFERING"
      BY <1>1, <1>3, <3>2
    <3> QED
      BY <3>1, <3>2
  <2> HIDE DEF q
  <2>3. PlayerSound(q) /\ Position(q) = Position(p)
    BY <2>2, OtherMembers
  <2>4. CASE q.buffer.queue = <<>>
    <3> DEFINE r == [q EXCEPT !.state = "PAUSED", !.lastPaused = 0,
                              !.interruptions = q.interruptions + 1]
    <3>1. P!PlayFrame(p, 0) = r
      BY <2>1, <2>4 DEF P!Pause
    <3>2. q.interruptions + 1 \in Nat
      BY <2>2, PlayerFields
    <3>3. /\ r \in P!PlayerRecord /\ r.buffer = q.buffer
          /\ r.framesPlayed = q.framesPlayed /\ r.checks = q.checks
          /\ r.lastPaused = 0 /\ r.firstBuff = 0 /\ r.state = "PAUSED"
      BY <2>2, <3>2 DEF P!PlayerRecord, P!PlayerStates
    <3> HIDE DEF r
    <3>4. PlayerSound(r) /\ Position(r) = Position(q)
      BY <2>3, <3>3, OtherMembers
    <3> QED
      BY <1>3, <2>2, <2>3, <2>4, <3>1, <3>3, <3>4 DEF Shows
  <2>5. CASE q.buffer.queue # <<>>
    <3> DEFINE r == P!ShowFrame(q, 0)
    <3>1. P!PlayFrame(p, 0) = r
      BY <2>1, <2>5
    <3>2. /\ PlayerSound(r) /\ Position(r) = Position(q) /\ r.state = q.state
          /\ r.framesPlayed = q.framesPlayed + 1 /\ r.checks = q.checks + 1
      BY <2>3, <2>5, ShowResult
    <3> HIDE DEF r
    <3> QED
      BY <1>3, <2>2, <2>3, <2>5, <3>1, <3>2 DEF Shows
  <2> QED
    BY <2>4, <2>5
<1> QED
  BY <1>2, <1>3

(* ReceiveFrame with a frame that fits: only a paused player shows one.     *)
LEMMA ReceiveResult ==
  ASSUME NEW p, PlayerSound(p), NEW f \in Messages, P!Fits(p.buffer, f),
         f.seg * FramesPerSegment + f.id = Position(p)
  PROVE  LET q == P!ReceiveFrame(p, f, 0)
         IN  /\ PlayerSound(q) /\ Position(q) = Position(p) + 1
             /\ q.state = "DONE" <=> p.state = "DONE"
             /\ \/ q.framesPlayed = p.framesPlayed /\ (q.state = "PAUSED" => p.state = "PAUSED")
                \/ /\ q.framesPlayed = p.framesPlayed + 1
                   /\ p.state = "PAUSED" /\ q.state = "PLAYING"
<1> DEFINE r == [p EXCEPT !.buffer = P!Push(p.buffer, f)]
           q == P!ReceiveFrame(p, f, 0)
<1>1. q = P!AfterPush(r, 0)
  BY DEF P!ReceiveFrame
<1>2. /\ PlayerSound(r) /\ Position(r) = Position(p) + 1
      /\ r.state = p.state /\ r.framesPlayed = p.framesPlayed
      /\ r.buffer.queue # <<>>
  BY PushResult
<1>3. /\ p \in P!PlayerRecord /\ r \in P!PlayerRecord
      /\ r.lastPaused = 0 /\ r.firstBuff = 0
  BY <1>2 DEF PlayerSound
<1> HIDE DEF r, q
<1>4. CASE p.state = "PAUSED"
  <2> DEFINE s == [r EXCEPT !.state = "PLAYING",
                            !.interruptionTime = r.interruptionTime + (0 - r.lastPaused)]
  <2>1. q = P!PlayFrame(s, 0)
    BY <1>1, <1>2, <1>4 DEF P!AfterPush, P!Resume
  <2>2. r.interruptionTime + (0 - r.lastPaused) \in Nat
    BY <1>3, PlayerFields
  <2>3. /\ s \in P!PlayerRecord /\ s.buffer = r.buffer
        /\ s.framesPlayed = r.framesPlayed /\ s.state = "PLAYING"
        /\ s.lastPaused = 0 /\ s.firstBuff = 0
    BY <1>3, <2>2 DEF P!PlayerRecord, P!PlayerStates
  <2> HIDE DEF s
  <2>4. PlayerSound(s) /\ Position(s) = Position(r)
    BY <1>2, <2>3, OtherMembers
  <2>5. Shows(s, q) /\ q.state = "PLAYING"
    BY <1>2, <2>1, <2>3, <2>4, PlayFrameResult
  <2> QED
    BY <1>2, <1>4, <2>3, <2>4, <2>5 DEF Shows, q
<1>5. CASE p.state = "NOT_STARTED"
  <2> DEFINE w == Append(r.wakeups, 0 + 1)
             s == [r EXCEPT !.state = "INITIAL_BUFFERING",
                            !.firstBuff = IF r.firstPlay THEN r.firstBuff ELSE 0,
                            !.wakeups = w]
  <2>1. q = s
    BY <1>1, <1>2, <1>5 DEF P!AfterPush, P!Begin
  <2>2. w \in Seq(Nat)
    BY <1>3, PlayerFields, AppendProperties
  <2> HIDE DEF w
  <2>3. /\ s \in P!PlayerRecord /\ s.buffer = r.buffer
        /\ s.framesPlayed = r.framesPlayed /\ s.state = "INITIAL_BUFFERING"
        /\ s.lastPaused = 0 /\ s.firstBuff = 0
    BY <1>3, <2>2 DEF P!PlayerRecord, P!PlayerStates
  <2> HIDE DEF s
  <2>4. PlayerSound(s) /\ Position(s) = Position(r)
    BY <1>2, <2>3, OtherMembers
  <2> QED
    BY <1>2, <1>5, <2>1, <2>3, <2>4 DEF q
<1>6. CASE p.state \notin {"PAUSED", "NOT_STARTED"}
  <2>1. q = r
    BY <1>1, <1>2, <1>6 DEF P!AfterPush
  <2> QED
    BY <1>2, <1>6, <2>1 DEF q
<1> QED
  BY <1>4, <1>5, <1>6

(* A PlayFrame event taken off the list.                                    *)
LEMMA UnscheduleResult ==
  ASSUME NEW p, PlayerSound(p), p.wakeups # <<>>
  PROVE  LET q == P!Unschedule(p, 1)
         IN  /\ PlayerSound(q) /\ Position(q) = Position(p) /\ q.buffer = p.buffer
             /\ q.framesPlayed = p.framesPlayed /\ q.checks = p.checks
             /\ q.state = p.state
<1>1. p \in P!PlayerRecord /\ p.lastPaused = 0 /\ p.firstBuff = 0
  BY DEF PlayerSound
<1>2. PICK old \in Seq(Nat) : old = p.wakeups
  BY <1>1, PlayerFields
<1> DEFINE w == [j \in 1 .. Len(old) - 1 |-> IF j < 1 THEN old[j] ELSE old[j + 1]]
           q == [p EXCEPT !.wakeups = w]
<1>3. P!Unschedule(p, 1) = q
  BY <1>2 DEF P!Unschedule
<1>4. w \in Seq(Nat)
  <2>1. Len(old) - 1 \in Nat
    BY <1>2, EmptySeq, LenProperties
  <2>2. \A j \in 1 .. Len(old) - 1 : old[j + 1] \in Nat
    BY <1>2, <2>1, ElementOfSeq, LenProperties
  <2> QED
    BY <2>1, <2>2
<1> HIDE DEF w
<1>5. /\ q \in P!PlayerRecord /\ q.buffer = p.buffer
      /\ q.framesPlayed = p.framesPlayed /\ q.checks = p.checks
      /\ q.state = p.state /\ q.lastPaused = 0 /\ q.firstBuff = 0
  BY <1>1, <1>4 DEF P!PlayerRecord
<1> HIDE DEF q
<1>6. PlayerSound(q) /\ Position(q) = Position(p)
  BY <1>5, OtherMembers
<1> QED
  BY <1>3, <1>5, <1>6

-----------------------------------------------------------------------------
(* The stream of a segment. *)

(* The fields of a unit.                                                    *)
LEMMA UnitFields ==
  ASSUME NEW u \in StreamUnits
  PROVE  /\ u.frame \in Messages /\ u.k \in Nat
         /\ u.frame.size \in Nat /\ 1 <= u.frame.size /\ HeaderSize <= u.frame.size
         /\ u.frame.id \in Nat /\ u.frame.id < FramesPerSegment
<1>1. u.frame \in Messages /\ u.k \in Nat
  BY DEF StreamUnits
<1>2. /\ u.frame.size \in Nat /\ 1 <= u.frame.size /\ HeaderSize <= u.frame.size
      /\ u.frame.id \in Nat /\ u.frame.id \in 0 .. FramesPerSegment - 1
  BY <1>1, MessageFields
<1> QED
  BY <1>1, <1>2, ClientAssumption

(* The k-th unit of the message of u.                                       *)
Peer(u, k) == [frame |-> u.frame, k |-> k]

(* What Aligned says of one unit.                                           *)
InPlace(st, i, u, seg) ==
  /\ 0 <= i - u.k /\ 1 <= u.k /\ u.k <= u.frame.size /\ u.frame.seg = seg
  /\ \A k \in 1 .. u.frame.size : i - u.k + k <= Len(st) => st[i - u.k + k] = Peer(u, k)
  /\ i - u.k + u.frame.size + 1 <= Len(st) =>
       /\ st[i - u.k + u.frame.size + 1].k = 1
       /\ st[i - u.k + u.frame.size + 1].frame.id = u.frame.id + 1

(* Aligned, unit by unit.                                                   *)
LEMMA AlignedUnits ==
  ASSUME NEW st, NEW seg, NEW id
  PROVE  Aligned(st, seg, id) <=>
           /\ st # <<>> => st[1].k = 1 /\ st[1].frame.id = id
           /\ \A i \in 1 .. Len(st) : InPlace(st, i, st[i], seg)
BY DEF Aligned, InPlace, Peer

(* A part of the stream, up to some unit.                                   *)
LEMMA AlignedPrefix ==
  ASSUME NEW us \in Seq(StreamUnits), NEW seg, NEW id, Aligned(us, seg, id),
         NEW vs \in Seq(StreamUnits), Len(vs) <= Len(us),
         \A i \in 1 .. Len(vs) : vs[i] = us[i]
  PROVE  Aligned(vs, seg, id)
<1>1. Len(us) \in Nat /\ Len(vs) \in Nat
  BY LenProperties
<1>2. vs # <<>> => vs[1].k = 1 /\ vs[1].frame.id = id
  <2>1. vs # <<>> => 1 \in 1 .. Len(vs) /\ us # <<>>
    BY <1>1, EmptySeq
  <2> QED
    BY <2>1, AlignedUnits
<1>3. ASSUME NEW i \in 1 .. Len(vs) PROVE InPlace(vs, i, vs[i], seg)
  <2>1. i \in 1 .. Len(us) /\ vs[i] = us[i] /\ us[i] \in StreamUnits
    BY <1>1
  <2>2. PICK u \in StreamUnits : u = us[i]
    BY <2>1
  <2>3. InPlace(us, i, u, seg)
    BY <2>1, <2>2, AlignedUnits
  <2>4. u.k \in Nat /\ u.frame.size \in Nat
    BY UnitFields
  <2>5. PICK b \in Nat : b = i - u.k
    BY <2>3, <2>4 DEF InPlace
  <2>6. ASSUME NEW k \in 1 .. u.frame.size, b + k <= Len(vs) PROVE vs[b + k] = Peer(u, k)
    <3>1. b + k \in 1 .. Len(vs) /\ b + k <= Len(us)
      BY <1>1, <2>4, <2>6
    <3> QED
      BY <2>3, <2>5, <3>1 DEF InPlace
  <2>7. ASSUME b + u.frame.size + 1 <= Len(vs)
        PROVE  vs[b + u.frame.size + 1].k = 1
               /\ vs[b + u.frame.size + 1].frame.id = u.frame.id + 1
    <3>1. b + u.frame.size + 1 \in 1 .. Len(vs) /\ b + u.frame.size + 1 <= Len(us)
      BY <1>1, <2>4, <2>7, SMTT(20)
    <3> QED
      BY <2>3, <2>5, <3>1 DEF InPlace
  <2>8. InPlace(vs, i, u, seg)
    BY <2>3, <2>5, <2>6, <2>7 DEF InPlace
  <2> QED
    BY <2>1, <2>2, <2>8
<1> QED
  BY <1>2, <1>3, AlignedUnits

(* The first message, as far as it has arrived.                             *)
LEMMA FirstMessage ==
  ASSUME NEW us \in Seq(StreamUnits), NEW seg, NEW id, Aligned(us, seg, id), us # <<>>
  PROVE  /\ 1 \in 1 .. Len(us) /\ us[1] \in StreamUnits
         /\ us[1].frame.seg = seg /\ us[1].frame.id = id
         /\ \A k \in 1 .. us[1].frame.size : k <= Len(us) => us[k] = Peer(us[1], k)
<1>1. 1 \in 1 .. Len(us)
  BY EmptySeq, LenProperties
<1>2. PICK u \in StreamUnits : u = us[1]
  BY <1>1, ElementOfSeq
<1>3. InPlace(us, 1, u, seg) /\ u.k = 1 /\ u.frame.id = id
  BY <1>1, <1>2, AlignedUnits
<1>4. u.frame.size \in Nat
  BY UnitFields
<1>5. ASSUME NEW k \in 1 .. u.frame.size, k <= Len(us) PROVE us[k] = Peer(u, k)
  <2>1. 1 - u.k + k = k
    BY <1>3, <1>4
  <2> QED
    BY <1>3, <1>5, <2>1 DEF InPlace
<1> QED
  BY <1>1, <1>2, <1>3, <1>5 DEF InPlace

(* vs is what is left of us behind its first message.                       *)
IsRest(us, vs) ==
  LET n == us[1].frame.size
  IN  Len(vs) = Len(us) - n /\ \A i \in 1 .. Len(vs) : vs[i] = us[i + n]

(* The stream behind its first message; nothing follows the last one of a   *)
(* segment.                                                                 *)
LEMMA AlignedRest ==
  ASSUME NEW us \in Seq(StreamUnits), NEW seg, NEW id, Aligned(us, seg, id), us # <<>>,
         us[1].frame.size <= Len(us),
         NEW vs \in Seq(StreamUnits), IsRest(us, vs)
  PROVE  Aligned(vs, seg, id + 1) /\ (id = FramesPerSegment - 1 => vs = <<>>)
<1>1. Len(us) \in Nat /\ Len(vs) \in Nat
  BY LenProperties
<1>2. /\ 1 \in 1 .. Len(us) /\ us[1] \in StreamUnits
      /\ us[1].frame.id = id
      /\ \A k \in 1 .. us[1].frame.size : k <= Len(us) => us[k] = Peer(us[1], k)
  BY FirstMessage
<1>3. PICK f \in Messages, n \in Nat : f = us[1].frame /\ n = f.size
  BY <1>2, UnitFields
<1>4. /\ 1 <= n /\ n <= Len(us) /\ Len(vs) = Len(us) - n
      /\ \A i \in 1 .. Len(vs) : vs[i] = us[i + n]
  BY <1>2, <1>3, UnitFields DEF IsRest
<1>5. ASSUME NEW k \in 1 .. n PROVE us[k].frame = f /\ us[k].k = k /\ k \in 1 .. Len(us)
  <2>1. k \in 1 .. us[1].frame.size /\ k <= Len(us) /\ k \in 1 .. Len(us)
    BY <1>1, <1>3, <1>4
  <2>2. us[k] = Peer(us[1], k)
    BY <1>2, <2>1
  <2> QED
    BY <1>3, <2>1, <2>2 DEF Peer
<1>6. vs # <<>> => us[n + 1].k = 1 /\ us[n + 1].frame.id = id + 1 /\ n + 1 \in 1 .. Len(us)
  <2>1. vs # <<>> => n + 1 <= Len(us)
    BY <1>1, <1>4, EmptySeq
  <2>2. PICK u \in StreamUnits : u = us[1]
    BY <1>2
  <2>3. InPlace(us, 1, u, seg) /\ u.k = 1 /\ u.frame = f
    BY <1>2, <1>3, <2>2, AlignedUnits
  <2>4. 1 - u.k + u.frame.size + 1 = n + 1
    BY <1>3, <2>3
  <2> QED
    BY <1>1, <1>2, <1>3, <2>1, <2>3, <2>4 DEF InPlace
<1>7. vs # <<>> => vs[1].k = 1 /\ vs[1].frame.id = id + 1
  <2>1. vs # <<>> => 1 \in 1 .. Len(vs)
    BY <1>1, EmptySeq
  <2>2. vs # <<>> => vs[1] = us[1 + n]
    BY <1>4, <2>1
  <2> QED
    BY <1>3, <1>6, <2>2
<1>8. id = FramesPerSegment - 1 => vs = <<>>
  <2>1. ASSUME vs # <<>>, id = FramesPerSegment - 1 PROVE FALSE
    <3>1. us[n + 1] \in StreamUnits
      BY <1>6, <2>1, ElementOfSeq
    <3>2. us[n + 1].frame.id < FramesPerSegment
      BY <3>1, UnitFields
    <3> QED
      BY <1>6, <2>1, <3>2, ClientAssumption
  <2> QED
    BY <2>1
<1>9. ASSUME NEW i \in 1 .. Len(vs) PROVE InPlace(vs, i, vs[i], seg)
  <2>1. i + n \in 1 .. Len(us) /\ vs[i] = us[i + n]
    BY <1>1, <1>4
  <2>2. PICK u \in StreamUnits : u = us[i + n]
    BY <2>1, ElementOfSeq
  <2>3. InPlace(us, i + n, u, seg)
    BY <2>1, <2>2, AlignedUnits
  <2>4. PICK l \in Nat, m \in Nat : l = u.k /\ m = u.frame.size
    BY UnitFields
  <2>5. 1 <= l /\ l <= m /\ 0 <= (i + n) - l
    BY <2>3, <2>4 DEF InPlace
  <2>6. PICK b \in Nat : b = (i + n) - l
    BY <2>5
  <2>7. /\ \A k \in 1 .. m : b + k <= Len(us) => us[b + k] = Peer(u, k)
        /\ b + m + 1 <= Len(us) =>
             us[b + m + 1].k = 1 /\ us[b + m + 1].frame.id = u.frame.id + 1
    BY <2>3, <2>4, <2>6 DEF InPlace
  <2>8. b >= n
    <3>1. SUFFICES ASSUME b < n PROVE FALSE
      OBVIOUS
    <3>2. b + 1 \in 1 .. n /\ b + 1 <= Len(us) /\ 1 \in 1 .. m
      BY <1>4, <2>5, <3>1
    <3>3. us[b + 1] = Peer(u, 1)
      BY <2>7, <3>2
    <3>4. us[b + 1].frame = f /\ us[b + 1].k = b + 1
      BY <1>5, <3>2
    <3>5. u.frame = f /\ b + 1 = 1
      BY <3>3, <3>4 DEF Peer
    <3>6. m = n /\ b = 0
      BY <1>3, <2>4, <3>5
    <3> QED
      BY <2>5, <2>6, <3>6
  <2>9. PICK a \in Nat : a = i - l
    BY <2>6, <2>8
  <2>10. a = b - n
    BY <2>6, <2>9
  <2>11. ASSUME NEW k \in 1 .. m, a + k <= Len(vs) PROVE vs[a + k] = Peer(u, k)
    <3>1. a + k \in 1 .. Len(vs) /\ (a + k) + n = b + k /\ b + k <= Len(us)
      BY <1>1, <1>4, <2>10, <2>11, SMTT(20)
    <3> QED
      BY <1>4, <2>7, <3>1
  <2>12. ASSUME a + m + 1 <= Len(vs)
         PROVE  vs[a + m + 1].k = 1 /\ vs[a + m + 1].frame.id = u.frame.id + 1
    <3>1. /\ a + m + 1 \in 1 .. Len(vs) /\ (a + m + 1) + n = b + m + 1
          /\ b + m + 1 <= Len(us)
      BY <1>1, <1>4, <2>10, <2>12
    <3> QED
      BY <1>4, <2>7, <3>1
  <2>13. InPlace(vs, i, u, seg)
    BY <2>3, <2>4, <2>5, <2>9, <2>11, <2>12 DEF InPlace
  <2> QED
    BY <2>1, <2>2, <2>13
<1> QED
  BY <1>7, <1>8, <1>9, AlignedUnits

(* Aligned, unit by unit: each continues the one before.                    *)
LEMMA AlignedNext ==
  ASSUME NEW st \in Seq(StreamUnits), NEW seg, NEW id, Aligned(st, seg, id),
         NEW i \in 1 .. Len(st) - 1
  PROVE  \/ st[i + 1] = [frame |-> st[i].frame, k |-> st[i].k + 1]
         \/ st[i].k = st[i].frame.size /\ st[i + 1].k = 1
<1>1. Len(st) \in Nat /\ i \in 1 .. Len(st) /\ i + 1 <= Len(st)
  BY LenProperties
<1>2. PICK u \in StreamUnits : u = st[i]
  BY <1>1, ElementOfSeq
<1>3. InPlace(st, i, u, seg)
  BY <1>1, <1>2, AlignedUnits
<1>4. PICK k \in Nat, n \in Nat : k = u.k /\ n = u.frame.size
  BY UnitFields
<1>5. 1 <= k /\ k <= n
  BY <1>3, <1>4 DEF InPlace
<1>6. CASE k < n
  <2>1. k + 1 \in 1 .. n /\ i - k + (k + 1) = i + 1
    BY <1>1, <1>5, <1>6
  <2>2. st[i + 1] = Peer(u, k + 1)
    BY <1>1, <1>3, <1>4, <2>1 DEF InPlace
  <2> QED
    BY <1>2, <1>4, <2>2 DEF Peer
<1>7. CASE k = n
  <2>1. i - k + n + 1 = i + 1
    BY <1>1, <1>7
  <2>2. st[i + 1].k = 1
    BY <1>1, <1>3, <1>4, <2>1 DEF InPlace
  <2> QED
    BY <1>2, <1>4, <1>7, <2>2
<1> QED
  BY <1>5, <1>6, <1>7

(* The units of a message.                                                  *)
LEMMA UnitsResult ==
  ASSUME NEW f \in Messages
  PROVE  /\ Units(f) \in Seq(StreamUnits) /\ Len(Units(f)) = f.size
         /\ \A k \in 1 .. f.size : Units(f)[k] = [frame |-> f, k |-> k]
<1> DEFINE G(k) == [frame |-> f, k |-> k]
<1>1. f.size \in Nat
  BY MessageFields
<1>2. \A k \in 1 .. f.size : G(k) \in StreamUnits
  BY <1>1 DEF StreamUnits
<1>3. Units(f) = [k \in 1 .. f.size |-> G(k)]
  BY DEF Units
<1>4. Units(f) \in Seq(StreamUnits) /\ Len(Units(f)) = f.size
  <2> HIDE DEF G
  <2> QED
    BY <1>1, <1>2, <1>3
<1> QED
  BY <1>3, <1>4

(* The stream st is the first m frames of a segment.                        *)
IsPart(st, seg, m) ==
  /\ st \in Seq(StreamUnits) /\ Aligned(st, seg, 0)
  /\ IF m = 0 THEN st = <<>>
     ELSE /\ st # <<>> /\ st[Len(st)].k = st[Len(st)].frame.size
          /\ st[Len(st)].frame.id = m - 1

(* One frame more.                                                          *)
LEMMA OneFrameMore ==
  ASSUME NEW us, NEW seg, NEW m \in Nat, IsPart(us, seg, m),
         NEW f \in Messages, f.seg = seg, f.id = m
  PROVE  IsPart(us \o Units(f), seg, m + 1)
<1>0. us \in Seq(StreamUnits) /\ Aligned(us, seg, 0)
  BY DEF IsPart
<1>1. PICK old \in Seq(StreamUnits) : old = us /\ Aligned(old, seg, 0)
  BY <1>0
<1>2. PICK new \in Seq(StreamUnits) :
        /\ new = Units(f) /\ Len(new) = f.size
        /\ \A k \in 1 .. f.size : new[k] = [frame |-> f, k |-> k]
  BY UnitsResult
<1>3. PICK vs \in Seq(StreamUnits) : vs = old \o new
  BY ConcatProperties
<1>4. PICK l \in Nat, n \in Nat : l = Len(us) /\ n = f.size /\ 1 <= n
  BY <1>1, LenProperties, MessageFields
<1>5. /\ Len(vs) = l + n
      /\ \A i \in 1 .. l + n : vs[i] = IF i <= l THEN us[i] ELSE new[i - l]
  BY <1>1, <1>2, <1>3, <1>4, ConcatProperties
<1>6. \A i \in 1 .. l : vs[i] = us[i]
  BY <1>5
<1>7. ASSUME NEW k \in 1 .. n
      PROVE  vs[l + k] = [frame |-> f, k |-> k] /\ l + k \in 1 .. Len(vs)
  <2>1. l + k \in 1 .. l + n /\ ~ (l + k <= l) /\ (l + k) - l = k
    OBVIOUS
  <2> QED
    BY <1>2, <1>4, <1>5, <2>1, ZenonT(30)
<1>8. n \in 1 .. n /\ 1 \in 1 .. n
  BY <1>4
<1>9. vs # <<>> /\ vs[1].k = 1 /\ vs[1].frame.id = 0
  <2>1. vs # <<>>
    BY <1>4, <1>5, EmptySeq
  <2>2. CASE m = 0
    <3>1. l = 0
      BY <1>4, <2>2, EmptySeq DEF IsPart
    <3>2. vs[0 + 1] = [frame |-> f, k |-> 1]
      BY <1>7, <1>8, <3>1
    <3> QED
      BY <2>1, <2>2, <3>2
  <2>3. CASE m # 0
    <3>1. us # <<>> /\ us[1].k = 1 /\ us[1].frame.id = 0
      BY <1>1, <2>3, AlignedUnits DEF IsPart
    <3>2. 1 \in 1 .. l
      BY <1>1, <1>4, <3>1, EmptySeq
    <3> QED
      BY <1>6, <2>1, <3>1, <3>2
  <2> QED
    BY <2>2, <2>3
<1>10. ASSUME NEW i \in 1 .. Len(vs), i <= l PROVE InPlace(vs, i, vs[i], seg)
  <2>1. i \in 1 .. Len(us) /\ i \in 1 .. l /\ vs[i] = us[i]
    BY <1>4, <1>5, <1>6, <1>10
  <2>2. PICK u \in StreamUnits : u = us[i]
    BY <1>1, <2>1, ElementOfSeq
  <2>3. InPlace(us, i, u, seg)
    BY <1>1, <2>1, <2>2, AlignedUnits
  <2>4. PICK k \in Nat, s \in Nat : k = u.k /\ s = u.frame.size
    BY UnitFields
  <2>5. 1 <= k /\ k <= s /\ 0 <= i - k
    BY <2>3, <2>4 DEF InPlace
  <2>6. PICK b \in Nat : b = i - k
    BY <2>5
  <2>7. /\ \A j \in 1 .. s : b + j <= l => us[b + j] = Peer(u, j)
        /\ b + s + 1 <= l => us[b + s + 1].k = 1 /\ us[b + s + 1].frame.id = u.frame.id + 1
    BY <1>4, <2>3, <2>4, <2>6 DEF InPlace
  <2>8. b + s <= l
    <3>1. SUFFICES ASSUME l < b + s PROVE FALSE
      OBVIOUS
    <3>2. l - b \in 1 .. s /\ b + (l - b) = l
      BY <2>1, <2>5, <2>6, <3>1
    <3>3. us[l] = Peer(u, l - b)
      BY <2>7, <3>2
    <3>4. us # <<>> /\ us[l].k = us[l].frame.size
      <4>1. l # 0
        BY <2>1
      <4>2. m # 0
        BY <1>4, <4>1, EmptySeq DEF IsPart
      <4> QED
        BY <1>4, <4>2 DEF IsPart
    <3>5. l - b = s
      BY <2>4, <3>3, <3>4 DEF Peer
    <3> QED
      BY <2>5, <2>6, <3>1, <3>5
  <2>9. ASSUME NEW j \in 1 .. s PROVE vs[b + j] = Peer(u, j)
    <3>1. b + j \in 1 .. l /\ b + j <= l
      BY <2>8
    <3>2. us[b + j] = Peer(u, j)
      BY <2>7, <3>1
    <3>3. vs[b + j] = us[b + j]
      BY <1>6, <3>1
    <3> QED
      BY <3>2, <3>3
  <2>10. ASSUME b + s + 1 <= Len(vs)
         PROVE  vs[b + s + 1].k = 1 /\ vs[b + s + 1].frame.id = u.frame.id + 1
    <3>1. CASE b + s < l
      <4>1. b + s + 1 \in 1 .. l
        BY <3>1
      <4> QED
        BY <1>6, <2>7, <4>1
    <3>2. CASE b + s = l
      <4>1. vs[l + 1] = [frame |-> f, k |-> 1]
        BY <1>7, <1>8
      <4>2. us[l].frame.id = m - 1 /\ m # 0
        <5>1. l # 0
          BY <2>1
        <5>2. m # 0
          BY <1>4, <5>1, EmptySeq DEF IsPart
        <5> QED
          BY <1>4, <5>2 DEF IsPart
      <4>3. us[l] = Peer(u, s)
        <5>1. s \in 1 .. s
          BY <2>5
        <5> QED
          BY <2>7, <3>2, <5>1
      <4>4. u.frame.id = m - 1
        BY <4>2, <4>3 DEF Peer
      <4>5. u.frame.id + 1 = m
        BY <4>4
      <4>6. b + s + 1 = l + 1
        BY <3>2
      <4>7. vs[l + 1].k = 1 /\ vs[l + 1].frame.id = m
        BY <4>1
      <4> QED
        BY ONLY <4>5, <4>6, <4>7
    <3> QED
      BY <2>8, <3>1, <3>2
  <2>11. InPlace(vs, i, u, seg)
    BY <2>3, <2>4, <2>6, <2>9, <2>10 DEF InPlace
  <2> QED
    BY <2>1, <2>2, <2>11
<1>11. ASSUME NEW i \in 1 .. Len(vs), ~ (i <= l) PROVE InPlace(vs, i, vs[i], seg)
  <2>1. PICK k \in 1 .. n : i = l + k
    <3>1. i - l \in 1 .. n /\ i = l + (i - l)
      BY <1>5, <1>11
    <3> QED
      BY <3>1
  <2>2. PICK u \in StreamUnits : u = vs[i] /\ u = [frame |-> f, k |-> k]
    BY <1>7, <2>1, ElementOfSeq
  <2>3. u.k = k /\ u.frame = f /\ u.frame.size = n /\ i - u.k = l
    BY <1>4, <2>1, <2>2
  <2>4. \A j \in 1 .. n : vs[l + j] = Peer(u, j)
    BY <1>7, <2>3 DEF Peer
  <2>5. ~ (l + n + 1 <= Len(vs))
    BY <1>5
  <2>6. InPlace(vs, i, u, seg)
    BY <2>3, <2>4, <2>5 DEF InPlace
  <2> QED
    BY <2>2, <2>6
<1>12. Aligned(vs, seg, 0)
  BY <1>9, <1>10, <1>11, AlignedUnits
<1>13. vs[Len(vs)].k = vs[Len(vs)].frame.size /\ vs[Len(vs)].frame.id = m
  <2>1. vs[Len(vs)] = [frame |-> f, k |-> n]
    BY <1>5, <1>7, <1>8
  <2> QED
    BY <1>4, <2>1
<1>14. m + 1 # 0 /\ (m + 1) - 1 = m
  OBVIOUS
<1>15. us \o Units(f) = vs
  BY <1>1, <1>2, <1>3
<1>16. IsPart(vs, seg, m + 1)
  BY <1>9, <1>12, <1>13, <1>14 DEF IsPart
<1> QED
  BY <1>15, <1>16

(* The frames of a segment, one behind the other.                           *)
LEMMA SegmentResult ==
  ASSUME NEW r, r.seg \in 0 .. MaxSegments - 1, r.rate \in Rates,
         NEW size \in [0 .. FramesPerSegment - 1 -> Sizes]
  PROVE  LET st == Segment(r, size)
         IN  /\ st \in Seq(StreamUnits) /\ Aligned(st, r.seg, 0) /\ Whole(st)
<1> DEFINE n == FramesPerSegment
           Frame(i) == [seg |-> r.seg, id |-> i - 1, res |-> r.rate, size |-> size[i - 1]]
           V == Seq(StreamUnits)
           F == [i \in 1 .. n |-> [st \in V |-> st \o Units(Frame(i))]]
           W == [i \in 0 .. n |-> {st \in V : IsPart(st, r.seg, i)}]
           stream[i \in 0 .. n] ==
             IF i = 0 THEN <<>> ELSE stream[i - 1] \o Units(Frame(i))
<1>1. n \in Nat /\ n # 0
  BY ClientAssumption
<1>2. Segment(r, size) = stream[n]
  BY DEF Segment
<1>3. ASSUME NEW i \in 1 .. n
      PROVE  Frame(i) \in Messages /\ Frame(i).seg = r.seg /\ Frame(i).id = i - 1
  <2>1. i - 1 \in 0 .. FramesPerSegment - 1 /\ size[i - 1] \in Sizes
    BY <1>1
  <2> QED
    BY <2>1 DEF Messages
<1>4. stream = CHOOSE g : g = [i \in 0 .. n |->
                 IF i = 0 THEN <<>> ELSE g[i - 1] \o Units(Frame(i))]
  OBVIOUS
<1> HIDE DEF stream, Frame
<1>5. ASSUME NEW i \in 1 .. n, NEW st \in W[i - 1] PROVE st \o Units(Frame(i)) \in W[i]
  <2>1. PICK m \in Nat : m = i - 1 /\ m + 1 = i
    BY <1>1
  <2>2. i - 1 \in 0 .. n /\ i \in 0 .. n
    BY <1>1
  <2>3. st \in V /\ IsPart(st, r.seg, m)
    BY <2>1, <2>2
  <2>4. IsPart(st \o Units(Frame(i)), r.seg, m + 1)
    BY <1>3, <2>1, <2>3, OneFrameMore
  <2>5. IsPart(st \o Units(Frame(i)), r.seg, i)
    BY <2>1, <2>4
  <2> QED
    BY <2>2, <2>5 DEF IsPart
<1>6. <<>> \in W[0]
  <2>1. <<>> \in Seq(StreamUnits) /\ Len(<<>>) = 0
    OBVIOUS
  <2>2. IsPart(<<>>, r.seg, 0)
    BY <2>1 DEF IsPart, Aligned
  <2> QED
    BY <1>1, <2>1, <2>2
<1>7. PICK g : IsRecursion(g, n, <<>>, F)
  BY <1>1, Recursion
<1>8. g[0] = <<>> /\ \A i \in 1 .. n : g[i] = F[i][g[i - 1]]
  <2> HIDE DEF n, F
  <2> QED
    BY <1>1, <1>7 DEF IsRecursion
<1>9. \A i \in 1 .. n : g[i - 1] \in W[i - 1] => g[i] \in W[i] /\ g[i] = g[i - 1] \o Units(Frame(i))
  <2>1. ASSUME NEW i \in 1 .. n, g[i - 1] \in W[i - 1]
        PROVE  g[i] \in W[i] /\ g[i] = g[i - 1] \o Units(Frame(i))
    <3>1. g[i - 1] \in V
      <4>1. i - 1 \in 0 .. n
        BY <1>1
      <4> QED
        BY <2>1, <4>1
    <3>2. F[i][g[i - 1]] = g[i - 1] \o Units(Frame(i))
      BY <3>1
    <3>3. g[i] = g[i - 1] \o Units(Frame(i))
      BY <1>8, <3>2
    <3> HIDE DEF F, W
    <3> QED
      BY <1>5, <2>1, <3>3
  <2> QED
    BY <2>1
<1>10. \A i \in 0 .. n : g[i] \in W[i]
  <2> HIDE DEF n, F, W
  <2> QED
    BY <1>1, <1>6, <1>8, <1>9, Stays
<1>11. g = [i \in 0 .. n |-> IF i = 0 THEN <<>> ELSE g[i - 1] \o Units(Frame(i))]
  <2>1. \A i \in 0 .. n : i # 0 => F[i][g[i - 1]] = g[i - 1] \o Units(Frame(i))
    <3> HIDE DEF n, F, W
    <3>1. ASSUME NEW i \in 0 .. n, i # 0
          PROVE  F[i][g[i - 1]] = g[i - 1] \o Units(Frame(i))
      <4>1. i \in 1 .. n /\ i - 1 \in 0 .. n
        BY <1>1, <3>1
      <4> QED
        BY <1>8, <1>9, <1>10, <4>1
    <3> QED
      BY <3>1
  <2> HIDE DEF n, F, W
  <2>2. g = [i \in 0 .. n |-> IF i = 0 THEN <<>> ELSE F[i][g[i - 1]]]
    BY <1>7 DEF IsRecursion
  <2> QED
    BY <2>1, <2>2
<1>12. stream = [i \in 0 .. n |->
                  IF i = 0 THEN <<>> ELSE stream[i - 1] \o Units(Frame(i))]
  <2> HIDE DEF n
  <2>1. \E h : h = [i \in 0 .. n |-> IF i = 0 THEN <<>> ELSE h[i - 1] \o Units(Frame(i))]
    BY <1>11
  <2> QED
    BY <1>4, <2>1
<1>13. \A i \in 0 .. n : stream[i] \in W[i]
  <2>1. stream[0] = <<>> /\ \A i \in 1 .. n : stream[i] = stream[i - 1] \o Units(Frame(i))
    <3> HIDE DEF n
    <3>1. 0 \in 0 .. n /\ \A i \in 1 .. n : i \in 0 .. n /\ i # 0
      BY <1>1
    <3> HIDE DEF F, W
    <3>2. stream[0] = <<>>
      BY <1>12, <3>1
    <3>3. ASSUME NEW i \in 1 .. n PROVE stream[i] = stream[i - 1] \o Units(Frame(i))
      BY <1>12, <3>1
    <3> QED
      BY <3>2, <3>3
  <2>2. stream[0] \in W[0]
    <3> HIDE DEF W
    <3> QED
      BY <1>6, <2>1
  <2>3. \A i \in 1 .. n : stream[i - 1] \in W[i - 1] => stream[i] \in W[i]
    <3> HIDE DEF W, n
    <3> QED
      BY <1>5, <2>1
  <2> HIDE DEF W, n
  <2> QED
    BY <1>1, <2>2, <2>3, Stays
<1>14. stream[n] \in Seq(StreamUnits) /\ IsPart(stream[n], r.seg, n)
  <2>1. stream[n] \in W[n]
    <3> HIDE DEF W, n
    <3> QED
      BY <1>1, <1>13
  <2> QED
    BY <1>1, <2>1
<1> QED
  BY <1>1, <1>2, <1>14 DEF IsPart, Whole

-----------------------------------------------------------------------------
(* Requests. *)

(* The requests among messages to which another is appended.                *)
AppendRequests(q, m) ==
  LET r == Append(q, m)
  IN  /\ r \in Seq(ServerMessages) /\ Len(q) + 1 \notin Requests(q)
      /\ m.kind # "REQUEST" => Requests(r) = Requests(q)
      /\ m.kind = "REQUEST" => Requests(r) = Requests(q) \union {Len(q) + 1}
      /\ \A i \in Requests(q) : r[i] = q[i]
      /\ r[Len(q) + 1] = m

(* A message sent is the last, and a request only if it is one.             *)
LEMMA RequestsAppend ==
  ASSUME NEW q \in Seq(ServerMessages), NEW m \in ServerMessages
  PROVE  AppendRequests(q, m)
<1>1. PICK r \in Seq(ServerMessages) : r = Append(q, m)
  BY AppendProperties
<1>2. PICK l \in Nat : l = Len(q)
  BY LenProperties
<1>3. Len(r) = l + 1 /\ (\A i \in 1 .. l : r[i] = q[i]) /\ r[l + 1] = m
  BY <1>1, <1>2, AppendProperties
<1>4. Requests(q) = {i \in 1 .. l : q[i].kind = "REQUEST"}
  BY <1>2 DEF Requests
<1>5. Requests(r) = {i \in 1 .. l + 1 : r[i].kind = "REQUEST"}
  BY <1>3 DEF Requests
<1>6. m.kind # "REQUEST" => Requests(r) = Requests(q)
  <2>1. ASSUME NEW i, m.kind # "REQUEST" PROVE i \in Requests(r) <=> i \in Requests(q)
    <3>1. i \in 1 .. l + 1 <=> i \in 1 .. l \/ i = l + 1
      OBVIOUS
    <3> QED
      BY <1>3, <1>4, <1>5, <2>1, <3>1
  <2> QED
    BY <2>1
<1>7. m.kind = "REQUEST" => Requests(r) = Requests(q) \union {l + 1}
  <2>1. ASSUME NEW i, m.kind = "REQUEST"
        PROVE  i \in Requests(r) <=> i \in Requests(q) \/ i = l + 1
    <3>1. i \in 1 .. l + 1 <=> i \in 1 .. l \/ i = l + 1
      OBVIOUS
    <3> QED
      BY <1>3, <1>4, <1>5, <2>1, <3>1
  <2> QED
    BY <2>1
<1>8. \A i \in Requests(q) : r[i] = q[i]
  BY <1>3, <1>4
<1>9. l + 1 \notin Requests(q)
  BY <1>4
<1> QED
  BY <1>1, <1>2, <1>3, <1>6, <1>7, <1>8, <1>9 DEF AppendRequests

(* The messages left when the server has read the first one.                *)
TailRequests(q) ==
  LET r == Tail(q)
  IN  /\ r \in Seq(ServerMessages) /\ Head(q) \in ServerMessages
      /\ Head(q).kind = "REQUEST" => 1 \in Requests(q) /\ Head(q) = q[1]
      /\ \A i \in Requests(r) : i + 1 \in Requests(q) /\ r[i] = q[i + 1] /\ i + 1 # 1

(* A message read leaves the requests behind it, one place nearer.          *)
LEMMA RequestsTail ==
  ASSUME NEW q \in Seq(ServerMessages), q # <<>>
  PROVE  TailRequests(q)
<1>1. PICK r \in Seq(ServerMessages), h \in ServerMessages : r = Tail(q) /\ h = Head(q)
  BY HeadTailProperties
<1>2. /\ Len(q) \in Nat /\ Len(q) >= 1 /\ Len(r) = Len(q) - 1 /\ h = q[1]
      /\ \A i \in 1 .. Len(q) - 1 : r[i] = q[i + 1]
  BY <1>1, HeadTailProperties, LenProperties, EmptySeq
<1>3. h.kind = "REQUEST" => 1 \in Requests(q)
  BY <1>2 DEF Requests
<1>4. ASSUME NEW i \in Requests(r)
      PROVE  i + 1 \in Requests(q) /\ r[i] = q[i + 1] /\ i + 1 # 1
  <2>1. i \in 1 .. Len(q) - 1 /\ r[i].kind = "REQUEST"
    BY <1>2 DEF Requests
  <2>2. i + 1 \in 1 .. Len(q) /\ r[i] = q[i + 1] /\ i + 1 # 1
    BY <1>2, <2>1
  <2> QED
    BY <2>1, <2>2 DEF Requests
<1> QED
  BY <1>1, <1>2, <1>3, <1>4 DEF TailRequests

(* The fields of a client.                                                  *)
LEMMA ClientFields ==
  ASSUME NEW c \in Clients
  PROVE  /\ c.player \in P!PlayerRecord
         /\ c.socket \in {"NULL", "SYN_SENT", "ESTABLISHED", "CLOSING"}
         /\ c.connected \in BOOLEAN /\ c.pending \in BOOLEAN
         /\ c.segmentId \in Nat /\ c.segmentId <= MaxSegments + 1
         /\ c.bitRate \in Rates /\ c.bitRate \in Nat /\ c.segmentBytes \in Nat
         /\ c.measured \in [seg : -1 .. MaxSegments - 1, bytes : Nat]
         /\ c.delayed \in Nat /\ c.keepAlive \in BOOLEAN
         /\ c.data \in Seq(StreamUnits) /\ c.rx \in Seq(StreamUnits)
         /\ c.msgSize \in Sizes \union {0} /\ c.msgSize \in Nat
         /\ c.out \in Seq(ServerMessages) /\ c.aborted \in BOOLEAN
<1>1. /\ c.segmentId \in 0 .. MaxSegments + 1 /\ c.bitRate \in Rates
      /\ c.msgSize \in Sizes \union {0}
  BY DEF Clients
<1>2. /\ c.segmentId \in Nat /\ c.segmentId <= MaxSegments + 1
      /\ c.bitRate \in Nat /\ c.msgSize \in Nat
  <2>1. Rates \subseteq Nat /\ Sizes \subseteq Nat /\ MaxSegments \in Nat
    BY ClientAssumption
  <2>2. c.segmentId \in Nat /\ c.segmentId <= MaxSegments + 1
    BY <1>1, <2>1
  <2>3. c.bitRate \in Nat
    BY <1>1, <2>1
  <2>4. c.msgSize \in Nat
    <3>1. \A m \in Sizes \union {0} : m \in Nat
      BY <2>1
    <3> QED
      BY <1>1, <3>1
  <2> QED
    BY <2>2, <2>3, <2>4
<1> QED
  BY <1>1, <1>2 DEF Clients

(* The frames before a segment.                                             *)
LEMMA Before ==
  ASSUME NEW s \in Int
  PROVE  /\ s * FramesPerSegment \in Int
         /\ (s - 1) * FramesPerSegment + FramesPerSegment = s * FramesPerSegment
         /\ (s + 1) - 1 = s
<1>1. FramesPerSegment \in Int
  BY ClientAssumption
<1>2. (s - 1) * FramesPerSegment + FramesPerSegment = s * FramesPerSegment
  BY <1>1
<1> QED
  BY <1>1, <1>2

-----------------------------------------------------------------------------
(* The handlers that send. *)

(* What c and d hold of the stream and the player is the same.              *)
SameStream(c, d) ==
  /\ d.player = c.player /\ d.data = c.data /\ d.rx = c.rx
  /\ d.msgSize = c.msgSize /\ d.socket = c.socket

(* Nothing but the messages to the server may differ.                       *)
LEMMA SameSound ==
  ASSUME NEW c, NEW d, NEW st, NEW q, NEW r, NEW sv, StreamSound(c, st, q, sv),
         d.pending = c.pending, d.segmentId = c.segmentId,
         Position(d.player) = Position(c.player), d.segmentBytes = c.segmentBytes,
         Requests(r) \subseteq Requests(q), \A i \in Requests(r) : r[i] = q[i]
  PROVE  StreamSound(d, st, r, sv)
<1>1. CASE c.pending
  <2> DEFINE seg == c.segmentId - 1
             j == Position(c.player) - seg * FramesPerSegment
             Rest(v) == Whole(st) => IsServed(sv, seg, v + Len(st))
  <2>1. /\ j \in 0 .. FramesPerSegment /\ Aligned(st, seg, j)
        /\ Requests(q) # {} => j = 0 /\ st = <<>> /\ c.segmentBytes = 0
        /\ OneRequest(q, seg) /\ Rest(c.segmentBytes)
    BY <1>1 DEF StreamSound
  <2>2. OneRequest(r, seg)
    BY <2>1 DEF OneRequest
  <2>3. d.segmentId - 1 = seg /\ Position(d.player) - seg * FramesPerSegment = j
    OBVIOUS
  <2> HIDE DEF seg, j
  <2>4. /\ j \in 0 .. FramesPerSegment /\ Aligned(st, seg, j)
        /\ Requests(r) # {} => j = 0 /\ st = <<>> /\ d.segmentBytes = 0
        /\ OneRequest(r, seg) /\ Rest(d.segmentBytes)
    BY <2>1, <2>2
  <2> QED
    BY <1>1, <2>3, <2>4 DEF StreamSound
<1>2. CASE ~ c.pending
  BY <1>2 DEF StreamSound
<1> QED
  BY <1>1, <1>2

(* A blank message sent or not.                                             *)
LEMMA SendBlankResult ==
  ASSUME NEW c, NEW tc, NEW ts, NEW sv, NEW lost, Sound(c, tc, ts, sv, lost)
  PROVE  LET d == SendBlank(c)
         IN  Sound(d, tc, ts, sv, lost) /\ SameStream(c, d) /\ d.segmentId = c.segmentId
<1>1. c \in Clients /\ ClientSound(c, tc, ts \o c.out, sv, lost) /\ ts \in Seq(ServerMessages)
  BY DEF Sound, ClientSound
<1>2. CASE ~ CanSend(c)
  BY <1>2 DEF SendBlank, SameStream
<1>3. CASE CanSend(c)
  <2> DEFINE o == Append(c.out, Blank)
             d == [c EXCEPT !.out = o]
  <2>1. SendBlank(c) = d
    BY <1>3 DEF SendBlank
  <2>2. Blank \in ServerMessages /\ Blank.kind # "REQUEST"
    BY ClientAssumption DEF Blank, ServerMessages
  <2>3. PICK old \in Seq(ServerMessages) : old = c.out
    BY <1>1, ClientFields
  <2>4. o \in Seq(ServerMessages)
    BY <2>2, <2>3, AppendProperties
  <2>5. PICK q \in Seq(ServerMessages) : q = ts \o old
    BY <1>1, ConcatProperties
  <2>6. ts \o o = Append(q, Blank)
    BY <1>1, <2>2, <2>3, <2>5, AppendBehind, SMTT(20)
  <2>7. AppendRequests(q, Blank)
    BY <2>2, RequestsAppend
  <2>8. Requests(ts \o o) = Requests(q) /\ \A i \in Requests(q) : (ts \o o)[i] = q[i]
    BY <2>2, <2>6, <2>7 DEF AppendRequests
  <2> HIDE DEF o
  <2>9. /\ d \in Clients /\ d.out = o /\ SameStream(c, d)
        /\ d.connected = c.connected /\ d.pending = c.pending /\ d.segmentId = c.segmentId
        /\ d.segmentBytes = c.segmentBytes /\ d.measured = c.measured
        /\ d.delayed = c.delayed /\ d.aborted = c.aborted
    BY <1>1, <2>4 DEF Clients, SameStream
  <2> HIDE DEF d
  <2>10. InStream(d, tc) = InStream(c, tc)
    BY <2>9 DEF InStream, SameStream
  <2>11. StreamSound(c, InStream(c, tc), q, sv)
    BY <1>1, <2>3, <2>5 DEF ClientSound
  <2>12. StreamSound(d, InStream(d, tc), ts \o o, sv)
    <3>1. Position(d.player) = Position(c.player)
      BY <2>9 DEF SameStream
    <3>2. \A i \in Requests(ts \o o) : (ts \o o)[i] = q[i]
      BY <2>8
    <3>3. StreamSound(d, InStream(c, tc), ts \o o, sv)
      BY <2>8, <2>9, <2>11, <3>1, <3>2, SameSound
    <3> QED
      BY <2>10, <3>3
  <2>13. ClientSound(d, tc, ts \o d.out, sv, lost)
    BY <1>1, <2>9, <2>12 DEF ClientSound, EventsSound, SameStream
  <2> QED
    BY <2>1, <2>9, <2>13 DEF Sound
<1> QED
  BY <1>2, <1>3

(* A request may be due: it takes the place of a delayed one, or of the     *)
(* segment just completed.                                                  *)
MayRequest(c, lost) ==
  /\ c.socket # "NULL" /\ c.delayed <= lost
  /\ c.socket = "SYN_SENT" /\ c.player.state # "DONE" => c.delayed <= lost - 1

(* The segment asked for is the next, and all of the last one is received.  *)
Asks(c, d, tc) ==
  \/ d.segmentId = c.segmentId
  \/ /\ d.segmentId = c.segmentId + 1 /\ InStream(c, tc) = <<>>
     /\ Position(c.player) = c.segmentId * FramesPerSegment

(* RequestSegment, with a request due: it is refused by no socket, finds    *)
(* the stream of the last segment at its end, and asks for the next.        *)
LEMMA RequestResult ==
  ASSUME NEW c, NEW tc, NEW ts, NEW sv, NEW lost, Sound(c, tc, ts, sv, lost),
         MayRequest(c, lost)
  PROVE  LET d == RequestSegment(c)
         IN  Sound(d, tc, ts, sv, lost) /\ SameStream(c, d) /\ Asks(c, d, tc)
<1>1. c \in Clients /\ ClientSound(c, tc, ts \o c.out, sv, lost) /\ ts \in Seq(ServerMessages)
  BY DEF Sound, ClientSound
<1>2. CASE c.pending
  BY <1>2 DEF RequestSegment, SameStream, Asks
<1>3. /\ StreamSound(c, InStream(c, tc), ts \o c.out, sv)
      /\ c.connected => c.socket = "ESTABLISHED"
      /\ PlayerSound(c.player) /\ ~ c.aborted
      /\ c.measured.seg # -1 => \E i \in 1 .. Len(sv) : sv[i] = c.measured
  BY <1>1 DEF ClientSound
<1>4. PICK s \in Nat : s = c.segmentId
  BY <1>1, ClientFields
<1>5. PICK base \in Int, past \in Int :
        base = s * FramesPerSegment /\ past = (s - 1) * FramesPerSegment
        /\ past + FramesPerSegment = base
  BY Before, SMTT(20)
<1>6. FramesPerSegment \in Nat /\ MaxSegments \in Nat
  BY ClientAssumption
<1>8. lost \in Nat /\ c.delayed \in Nat
  BY <1>1, ClientFields DEF Sound
<1>7. CASE ~ c.pending
  <2>1. /\ InStream(c, tc) = <<>> /\ Requests(ts \o c.out) = {}
        /\ Position(c.player) = base /\ s <= MaxSegments
    BY <1>3, <1>4, <1>5, <1>7 DEF StreamSound
  <2>2. ~ Whole(<<>>) /\ \A seg, j : Aligned(<<>>, seg, j)
    BY EmptySeq DEF Whole, Aligned
  <2>3. CASE ~ c.connected
    <3> DEFINE d == [c EXCEPT !.pending = TRUE]
    <3>1. RequestSegment(c) = d
      BY <1>7, <2>3 DEF RequestSegment
    <3>2. /\ d \in Clients /\ d.out = c.out /\ SameStream(c, d)
          /\ d.connected = c.connected /\ d.pending = TRUE /\ d.segmentId = s
          /\ d.segmentBytes = c.segmentBytes /\ d.measured = c.measured
          /\ d.delayed = c.delayed /\ d.aborted = c.aborted
      BY <1>1, <1>4 DEF Clients, SameStream
    <3> HIDE DEF d
    <3>3. InStream(d, tc) = <<>>
      BY <2>1, <3>2 DEF InStream, SameStream
    <3>4. /\ base - past \in 0 .. FramesPerSegment
          /\ Position(d.player) - (d.segmentId - 1) * FramesPerSegment = base - past
      BY <1>5, <1>6, <2>1, <3>2 DEF SameStream
    <3>5. StreamSound(d, <<>>, ts \o c.out, sv)
      BY <2>1, <2>2, <3>2, <3>4 DEF StreamSound, OneRequest
    <3>6. EventsSound(d, lost)
      BY <1>8, <3>2 DEF EventsSound, MayRequest, SameStream
    <3>7. ClientSound(d, tc, ts \o d.out, sv, lost)
      BY <1>3, <3>2, <3>3, <3>5, <3>6 DEF ClientSound, SameStream
    <3> QED
      BY <1>4, <3>1, <3>2, <3>7 DEF Sound, Asks
  <2>4. CASE c.connected
    <3> DEFINE m == [kind |-> "REQUEST", seg |-> s, rate |-> c.bitRate]
               o == Append(c.out, m)
               n == s + 1
               d == [c EXCEPT !.out = o, !.pending = TRUE, !.segmentId = n,
                              !.segmentBytes = 0]
    <3>1. RequestSegment(c) = d
      BY <1>3, <1>4, <1>7, <2>4 DEF RequestSegment, SendRequest, CanSend
    <3>2. m \in ServerMessages /\ m.kind = "REQUEST" /\ m.seg = s
      <4>1. s \in 0 .. MaxSegments /\ c.bitRate \in Rates
        BY <1>1, <1>4, <2>1, ClientFields, ClientAssumption
      <4> QED
        BY <4>1 DEF ServerMessages
    <3>3. PICK old \in Seq(ServerMessages) : old = c.out
      BY <1>1, ClientFields
    <3> HIDE DEF m
    <3>4. o \in Seq(ServerMessages)
      BY <3>2, <3>3, AppendProperties
    <3>5. PICK q \in Seq(ServerMessages) : q = ts \o old
      BY <1>1, ConcatProperties
    <3>6. ts \o o = Append(q, m)
      BY <1>1, <3>2, <3>3, <3>5, AppendBehind
    <3>7. AppendRequests(q, m)
      BY <3>2, RequestsAppend
    <3>8. Requests(q) = {}
      BY <2>1, <3>3, <3>5
    <3>9. PICK k \in Nat : k = Len(q) + 1
      BY LenProperties
    <3>10. Requests(ts \o o) = {k} /\ (ts \o o)[k].seg = s
      BY <3>2, <3>6, <3>7, <3>8, <3>9 DEF AppendRequests
    <3>11. OneRequest(ts \o o, s)
      BY <3>10 DEF OneRequest
    <3>12. n \in 0 .. MaxSegments + 1 /\ n - 1 = s
      BY <1>6, <2>1
    <3> HIDE DEF o, n
    <3>13. /\ d \in Clients /\ d.out = o /\ SameStream(c, d)
           /\ d.connected = c.connected /\ d.pending = TRUE /\ d.segmentId = n
           /\ d.segmentBytes = 0 /\ d.measured = c.measured
           /\ d.delayed = c.delayed /\ d.aborted = c.aborted
      BY <1>1, <3>4, <3>12 DEF Clients, SameStream
    <3> HIDE DEF d
    <3>14. InStream(d, tc) = <<>>
      BY <2>1, <3>13 DEF InStream, SameStream
    <3>15. d.segmentId - 1 = s /\ Position(d.player) - s * FramesPerSegment = 0
      BY <1>5, <2>1, <3>12, <3>13 DEF SameStream
    <3>16. 0 \in 0 .. FramesPerSegment
      BY <1>6
    <3>17. StreamSound(d, <<>>, ts \o o, sv)
      BY <2>2, <3>11, <3>13, <3>15, <3>16 DEF StreamSound
    <3>18. EventsSound(d, lost)
      BY <1>8, <3>13 DEF EventsSound, MayRequest, SameStream
    <3>19. ClientSound(d, tc, ts \o d.out, sv, lost)
      BY <1>3, <3>13, <3>14, <3>17, <3>18 DEF ClientSound, SameStream
    <3>20. Asks(c, d, tc)
      BY <1>4, <1>5, <2>1, <3>13 DEF Asks, n
    <3> QED
      BY <3>1, <3>13, <3>19, <3>20 DEF Sound
  <2> QED
    BY <1>1, <2>3, <2>4, ClientFields
<1> QED
  BY <1>1, <1>2, <1>7, ClientFields

-----------------------------------------------------------------------------
(* The parser. *)

(* A frame received may end a pause, once.                                  *)
Resumes(p, q) ==
  \/ q.framesPlayed = p.framesPlayed /\ (q.state = "PAUSED" => p.state = "PAUSED")
  \/ q.framesPlayed = p.framesPlayed + 1 /\ p.state = "PAUSED" /\ q.state # "PAUSED"

(* What the parser does to the client c, whatever the stream holds.         *)
Progress(c, d, tc) ==
  /\ Position(c.player) <= Position(d.player)
  /\ InStream(c, tc) = <<>> =>
       /\ InStream(d, tc) = <<>> /\ d.segmentId = c.segmentId
       /\ Position(d.player) = Position(c.player)
  /\ \/ d.segmentId = c.segmentId
     \/ /\ d.segmentId = c.segmentId + 1 /\ InStream(d, tc) = <<>>
        /\ Position(d.player) = c.segmentId * FramesPerSegment
  /\ Resumes(c.player, d.player)
  /\ d.socket = c.socket /\ (c.msgSize # 0 => d.msgSize # 0)

(* The place of a player in the video, and the frames it has shown.         *)
LEMMA PositionType ==
  ASSUME NEW p, PlayerSound(p)
  PROVE  Position(p) \in Nat /\ p.framesPlayed \in Nat /\ p.framesPlayed <= Position(p)
<1>1. p.framesPlayed \in Nat /\ p.buffer.queue \in Seq(Messages)
  BY PlayerFields DEF PlayerSound
<1>2. PICK q \in Seq(Messages) : q = p.buffer.queue
  BY <1>1
<1>3. Len(q) \in Nat
  BY LenProperties
<1> QED
  BY <1>1, <1>2, <1>3, SMTT(20) DEF Position

(* One step of the parser after the other.                                  *)
LEMMA ProgressOn ==
  ASSUME NEW c, NEW d, NEW e, NEW tc,
         PlayerSound(c.player), PlayerSound(d.player), PlayerSound(e.player),
         Progress(c, d, tc), Progress(d, e, tc)
  PROVE  Progress(c, e, tc)
<1>1. /\ Position(c.player) \in Nat /\ Position(d.player) \in Nat
      /\ Position(e.player) \in Nat /\ c.player.framesPlayed \in Nat
  BY PositionType
<1>2. Resumes(c.player, e.player)
  BY <1>1 DEF Progress, Resumes
<1>3. CASE InStream(d, tc) = <<>>
  BY <1>1, <1>2, <1>3 DEF Progress
<1>4. CASE InStream(d, tc) # <<>>
  BY <1>1, <1>2, <1>4 DEF Progress
<1> QED
  BY <1>3, <1>4

(* The first message is complete and the player has room for it.            *)
Acceptable(c) == Complete(c) /\ P!Fits(c.player.buffer, Front(c))

(* The stream in front of the parser when a message is.                     *)
AtFront(c, tc, ts, sv) ==
  LET f == Front(c)
      st == InStream(c, tc)
      vs == Joined(Behind(c.data, f.size), c.rx, tc)
      n == f.size
  IN  /\ c.pending /\ st # <<>> /\ Requests(ts \o c.out) = {}
      /\ f \in Messages /\ n \in Nat /\ 1 <= n /\ n <= Len(c.data) /\ Len(c.data) \in Nat
      /\ f.seg = c.segmentId - 1 /\ f.id \in 0 .. FramesPerSegment - 1
      /\ Position(c.player) = f.seg * FramesPerSegment + f.id
      /\ Behind(c.data, n) \in Seq(StreamUnits) /\ Len(Behind(c.data, n)) = Len(c.data) - n
      /\ vs \in Seq(StreamUnits) /\ Aligned(vs, f.seg, f.id + 1)
      /\ Len(st) \in Nat /\ Len(vs) = Len(st) - n
      /\ f.id = FramesPerSegment - 1 => vs = <<>>
      /\ Whole(vs) => Whole(st)
      /\ f.id = FramesPerSegment - 1 => Whole(st)
      /\ Whole(st) => IsServed(sv, f.seg, c.segmentBytes + Len(st))

(* A complete message in front of the parser is the frame the player needs  *)
(* next, and the last of a segment has nothing behind it.                   *)
LEMMA FrontResult ==
  ASSUME NEW c, NEW tc, NEW ts, NEW sv, NEW lost, Sound(c, tc, ts, sv, lost), Complete(c)
  PROVE  AtFront(c, tc, ts, sv)
<1>1. /\ c \in Clients /\ tc \in Seq(StreamUnits) /\ PlayerSound(c.player)
      /\ StreamSound(c, InStream(c, tc), ts \o c.out, sv)
  BY DEF Sound, ClientSound
<1>2. c.data \in Seq(StreamUnits) /\ c.rx \in Seq(StreamUnits)
  BY <1>1, ClientFields
<1>3. PartsFit(StreamUnits, c.data, c.rx, tc)
  BY <1>1, <1>2, StreamParts
<1>4. PICK st \in Seq(StreamUnits), data \in Seq(StreamUnits) :
        /\ st = InStream(c, tc) /\ data = c.data
        /\ st = <<>> => data = <<>>
        /\ Len(data) <= Len(st)
        /\ \A i \in 1 .. Len(data) : st[i] = data[i] /\ i \in 1 .. Len(st)
  <2>1. PICK rx \in Seq(StreamUnits), t \in Seq(StreamUnits) : rx = c.rx /\ t = tc
    BY <1>1, <1>2
  <2>2. Len(rx) \in Nat /\ Len(t) \in Nat
    BY LenProperties
  <2>3. PICK data \in Seq(StreamUnits) : data = c.data
    BY <1>2
  <2>4. Len(data) \in Nat
    BY LenProperties
  <2>5. Len(data) <= Len(data) + Len(rx) + Len(t)
    BY <2>2, <2>4
  <2> QED
    BY <1>3, <2>1, <2>3, <2>5 DEF PartsFit, InStream
<1>5. Len(st) \in Nat /\ Len(data) \in Nat
  BY LenProperties
<1>6. HeaderSize \in Nat /\ 1 <= HeaderSize /\ Len(data) >= HeaderSize
  BY <1>4, ClientAssumption DEF Complete, HeadersIn
<1>7. data # <<>> /\ st # <<>> /\ 1 \in 1 .. Len(data)
  BY <1>4, <1>5, <1>6, EmptySeq
<1>8. PICK f \in Messages, n \in Nat : f = Front(c) /\ f = st[1].frame /\ n = f.size
        /\ 1 <= n /\ n <= Len(data)
  <2>1. Head(data) = data[1] /\ data[1] = st[1] /\ st[1] \in StreamUnits
    BY <1>4, <1>7, HeadTailProperties, ElementOfSeq
  <2>2. Front(c) = st[1].frame
    BY <1>4, <2>1 DEF Front
  <2>3. Front(c) \in Messages /\ Front(c).size \in Nat /\ 1 <= Front(c).size
    BY <2>1, <2>2, UnitFields
  <2>4. Front(c).size <= Len(data)
    BY <1>4, <1>5, <2>3 DEF Complete
  <2> QED
    BY <2>2, <2>3, <2>4
<1>9. c.pending
  BY <1>1, <1>4, <1>7 DEF StreamSound
<1>10. PICK s \in Int : s = c.segmentId - 1
  BY <1>1, ClientFields, SMTT(20)
<1>11. PICK base \in Int, j \in Int :
         base = s * FramesPerSegment /\ j = Position(c.player) - s * FramesPerSegment
         /\ Position(c.player) = base + j
  <2>1. s * FramesPerSegment \in Int
    BY Before
  <2>2. Position(c.player) \in Nat
    BY <1>1, PositionType
  <2> QED
    BY <2>1, <2>2
<1>12. /\ Aligned(st, s, j) /\ Requests(ts \o c.out) = {}
       /\ Whole(st) => IsServed(sv, s, c.segmentBytes + Len(st))
  BY <1>1, <1>4, <1>7, <1>9, <1>10, <1>11 DEF StreamSound
<1>13. f.seg = s /\ f.id = j /\ f.id \in 0 .. FramesPerSegment - 1
  BY <1>7, <1>8, <1>12, FirstMessage, MessageFields
<1>14. FrontDropped(StreamUnits, c.data, c.rx, tc, n)
  BY <1>1, <1>2, <1>4, <1>8, DropFront
<1>15. PICK vs \in Seq(StreamUnits) :
         /\ vs = Joined(Behind(c.data, n), c.rx, tc)
         /\ Len(vs) = Len(st) - n
         /\ \A i \in 1 .. Len(vs) : vs[i] = st[i + n]
  BY <1>4, <1>14 DEF FrontDropped, InStream
<1>16. Aligned(vs, s, j + 1) /\ (j = FramesPerSegment - 1 => vs = <<>>)
  <2>1. n = st[1].frame.size
    BY <1>8
  <2>2. n <= Len(st)
    BY <1>4, <1>5, <1>8
  <2>3. IsRest(st, vs)
    BY <1>15, <2>1 DEF IsRest
  <2> QED
    BY <1>7, <1>12, <2>1, <2>2, <2>3, AlignedRest
<1>17. Whole(vs) => Whole(st)
  <2>1. ASSUME Whole(vs) PROVE Whole(st)
    <3>1. vs # <<>>
      BY <2>1 DEF Whole
    <3>2. Len(vs) \in 1 .. Len(vs) /\ Len(vs) + n = Len(st)
      BY <1>5, <1>15, <3>1, EmptySeq, LenProperties
    <3>3. vs[Len(vs)] = st[Len(st)]
      BY <1>15, <3>2
    <3> QED
      BY <1>7, <2>1, <3>3 DEF Whole
  <2> QED
    BY <2>1
<1>18. j = FramesPerSegment - 1 => Whole(st)
  <2>1. ASSUME j = FramesPerSegment - 1 PROVE Whole(st)
    <3>1. Len(vs) = 0
      BY <1>16, <2>1, EmptySeq
    <3>2. Len(st) = n
      BY <1>5, <1>15, <3>1
    <3>3. n \in 1 .. st[1].frame.size /\ n <= Len(st)
      BY <1>8, <3>2
    <3>4. st[n] = Peer(st[1], n)
      BY <1>7, <1>12, <3>3, FirstMessage
    <3>5. st[n].k = n /\ st[n].frame = f
      BY <1>8, <3>4 DEF Peer
    <3> QED
      BY <1>7, <1>8, <1>13, <2>1, <3>2, <3>5 DEF Whole
  <2> QED
    BY <2>1
<1>19. Position(c.player) = f.seg * FramesPerSegment + f.id
  BY <1>11, <1>13
<1>20. /\ Behind(c.data, n) \in Seq(StreamUnits)
       /\ Len(Behind(c.data, n)) = Len(c.data) - n
  BY <1>14 DEF FrontDropped
<1> QED
  BY <1>4, <1>5, <1>7, <1>8, <1>9, <1>10, <1>12, <1>13, <1>15, <1>16, <1>17, <1>18,
     <1>19, <1>20 DEF AtFront

(* A message handed to the player, and the last one of a segment answered.  *)
LEMMA ParseResult ==
  ASSUME NEW c, NEW tc, NEW ts, NEW sv, NEW lost, Sound(c, tc, ts, sv, lost),
         NEW next \in Choices, Acceptable(c)
  PROVE  LET d == ParseMessage(c, next)
         IN  /\ Sound(d, tc, ts, sv, lost) /\ Progress(c, d, tc) /\ InStream(c, tc) # <<>>
             /\ d.rx = c.rx /\ Len(d.data) < Len(c.data) /\ d.msgSize # 0
<1>1. /\ c \in Clients /\ tc \in Seq(StreamUnits) /\ PlayerSound(c.player)
      /\ EventsSound(c, lost) /\ lost \in Nat
      /\ ~ c.aborted /\ (c.connected => c.socket = "ESTABLISHED")
      /\ c.measured.seg # -1 => \E i \in 1 .. Len(sv) : sv[i] = c.measured
  BY DEF Sound, ClientSound
<1>2. AtFront(c, tc, ts, sv)
  BY FrontResult DEF Acceptable
<1> DEFINE f == Front(c)
           n == f.size
           rest == Behind(c.data, n)
           vs == Joined(rest, c.rx, tc)
           st == InStream(c, tc)
           p == P!ReceiveFrame(c.player, f, 0)
           b == c.segmentBytes + n
           g == [c EXCEPT !.msgSize = n, !.data = rest, !.player = p, !.segmentBytes = b]
<1>3. ParseMessage(c, next) = IF g.player.state # "DONE" /\ f.id = FramesPerSegment - 1
                              THEN LastFrame(g, f, next) ELSE g
  <2> DEFINE e == [[c EXCEPT !.msgSize = n] EXCEPT !.data = SubSeq(c.data, n + 1, Len(c.data))]
  <2>1. ParseMessage(c, next) = MessageReceived(e, f, next)
    BY <1>1 DEF ParseMessage, Acceptable, Complete, Clients
  <2>2. e = [c EXCEPT !.msgSize = n, !.data = rest]
    BY <1>1 DEF Clients, Behind
  <2> HIDE DEF f, n, rest
  <2>3. [e EXCEPT !.player = P!ReceiveFrame(e.player, f, 0), !.segmentBytes = e.segmentBytes + f.size] = g
    BY <1>1, <2>2 DEF Clients, n
  <2> HIDE DEF e, g, p, b
  <2> QED
    BY <2>1, <2>3 DEF MessageReceived
<1>4. /\ c.pending /\ st # <<>> /\ Requests(ts \o c.out) = {}
      /\ f \in Messages /\ n \in Nat /\ 1 <= n /\ n <= Len(c.data) /\ Len(c.data) \in Nat
      /\ f.seg = c.segmentId - 1 /\ f.id \in 0 .. FramesPerSegment - 1
      /\ Position(c.player) = f.seg * FramesPerSegment + f.id
      /\ rest \in Seq(StreamUnits) /\ Len(rest) = Len(c.data) - n
      /\ vs \in Seq(StreamUnits) /\ Aligned(vs, f.seg, f.id + 1)
      /\ Len(st) \in Nat /\ Len(vs) = Len(st) - n
      /\ f.id = FramesPerSegment - 1 => vs = <<>>
      /\ Whole(vs) => Whole(st)
      /\ f.id = FramesPerSegment - 1 => Whole(st)
      /\ Whole(st) => IsServed(sv, f.seg, c.segmentBytes + Len(st))
  BY <1>2 DEF AtFront
<1>5. /\ PlayerSound(p) /\ Position(p) = Position(c.player) + 1
      /\ p.state = "DONE" <=> c.player.state = "DONE"
      /\ Resumes(c.player, p)
  <2>1. /\ PlayerSound(p) /\ Position(p) = Position(c.player) + 1
        /\ p.state = "DONE" <=> c.player.state = "DONE"
        /\ \/ p.framesPlayed = c.player.framesPlayed
              /\ (p.state = "PAUSED" => c.player.state = "PAUSED")
           \/ /\ p.framesPlayed = c.player.framesPlayed + 1
              /\ c.player.state = "PAUSED" /\ p.state = "PLAYING"
    <3> HIDE DEF f
    <3>1. P!Fits(c.player.buffer, f)
      BY DEF Acceptable, f
    <3> QED
      BY <1>1, <1>4, <3>1, ReceiveResult
  <2> HIDE DEF p
  <2> QED
    BY <2>1 DEF Resumes
<1>6. p \in P!PlayerRecord
  BY <1>5 DEF PlayerSound
<1>7. n \in Sizes /\ f.seg \in 0 .. MaxSegments - 1 /\ f.id \in Nat /\ f.seg \in Nat
  BY <1>4, MessageFields
<1>8. b \in Nat /\ b = c.segmentBytes + n /\ c.segmentBytes \in Nat
  BY <1>1, <1>4, ClientFields, SMTT(30)
<1> HIDE DEF f, n, rest, p, b
<1>9. /\ g \in Clients /\ g.out = c.out /\ g.player = p /\ g.data = rest /\ g.rx = c.rx
      /\ g.msgSize = n /\ g.socket = c.socket /\ g.connected = c.connected
      /\ g.pending = c.pending /\ g.segmentId = c.segmentId /\ g.segmentBytes = b
      /\ g.measured = c.measured /\ g.delayed = c.delayed /\ g.aborted = c.aborted
      /\ g.bitRate = c.bitRate /\ g.keepAlive = c.keepAlive
  BY <1>1, <1>4, <1>6, <1>7, <1>8 DEF Clients
<1> HIDE DEF g
<1>10. InStream(g, tc) = vs
  BY <1>9 DEF InStream
<1> HIDE DEF st, vs
<1>11. PICK s \in Nat, i \in Nat, base \in Int :
         s = f.seg /\ i = f.id /\ base = s * FramesPerSegment /\ c.segmentId = s + 1
         /\ Position(c.player) = base + i
         /\ (s + 1) * FramesPerSegment = base + FramesPerSegment
  <2>1. c.segmentId = f.seg + 1
    BY <1>1, <1>4, <1>7, ClientFields
  <2>2. f.seg + 1 \in Int /\ (f.seg + 1) - 1 = f.seg
    BY <1>7
  <2>3. f.seg * FramesPerSegment \in Int
        /\ f.seg * FramesPerSegment + FramesPerSegment = (f.seg + 1) * FramesPerSegment
    BY <2>2, Before
  <2> QED
    BY <1>4, <1>7, <2>1, <2>3
<1>12. FramesPerSegment \in Nat /\ FramesPerSegment >= 1 /\ i <= FramesPerSegment - 1
  BY <1>4, <1>11, ClientAssumption
<1>13. Position(p) = base + i + 1 /\ Position(c.player) <= Position(p)
  BY <1>5, <1>11
<1>14. Len(rest) < Len(c.data) /\ Len(rest) <= Len(c.data) /\ n # 0
  BY <1>4
<1>15. CASE ~ (p.state # "DONE" /\ i = FramesPerSegment - 1)
  <2>1. ParseMessage(c, next) = g
    BY <1>3, <1>9, <1>11, <1>15
  <2>2. StreamSound(g, vs, ts \o c.out, sv)
    <3>1. i + 1 \in 0 .. FramesPerSegment
      BY <1>12
    <3>2. Position(p) - base = i + 1
      BY <1>13
    <3>3. Aligned(vs, s, i + 1)
      BY <1>4, <1>11
    <3>4. Whole(vs) => IsServed(sv, s, b + Len(vs))
      <4>1. b + Len(vs) = c.segmentBytes + Len(st)
        BY <1>4, <1>8, SMTT(20)
      <4> QED
        BY <1>4, <1>11, <4>1
    <3>5. OneRequest(ts \o c.out, s) /\ Requests(ts \o c.out) = {}
      BY <1>4 DEF OneRequest
    <3>6. g.segmentId - 1 = s /\ Position(g.player) - s * FramesPerSegment = i + 1
      BY <1>9, <1>11, <3>2
    <3> QED
      BY <1>4, <1>9, <3>1, <3>3, <3>4, <3>5, <3>6 DEF StreamSound
  <2>3. EventsSound(g, lost)
    BY <1>1, <1>5, <1>9 DEF EventsSound
  <2>4. ClientSound(g, tc, ts \o g.out, sv, lost)
    BY <1>1, <1>5, <1>9, <1>10, <2>2, <2>3 DEF ClientSound
  <2>5. Progress(c, g, tc)
    BY <1>4, <1>5, <1>9, <1>13, <1>14 DEF Progress, st
  <2> QED
    BY <1>4, <1>9, <1>14, <2>1, <2>4, <2>5 DEF Sound, st
<1>16. CASE p.state # "DONE" /\ i = FramesPerSegment - 1
  <2> DEFINE m == [seg |-> f.seg, bytes |-> g.segmentBytes]
             d == [g EXCEPT !.pending = FALSE, !.bitRate = next.rate, !.measured = m]
  <2>1. ParseMessage(c, next) = IF next.wait THEN [d EXCEPT !.delayed = d.delayed + 1]
                                ELSE RequestSegment(d)
    BY <1>3, <1>9, <1>11, <1>16 DEF LastFrame
  <2>2. next.rate \in Rates /\ next.wait \in BOOLEAN
    BY DEF Choices
  <2>3. m \in [seg : -1 .. MaxSegments - 1, bytes : Nat]
    BY <1>7, <1>8, <1>9
  <2>4. vs = <<>> /\ IsServed(sv, f.seg, g.segmentBytes)
    <3>1. vs = <<>> /\ Whole(st)
      BY <1>4, <1>11, <1>16
    <3>2. Len(st) = n
      BY <1>4, <3>1, EmptySeq
    <3> QED
      BY <1>4, <1>8, <1>9, <3>1, <3>2
  <2>5. \E k \in 1 .. Len(sv) : sv[k] = m
    BY <2>4 DEF IsServed
  <2> HIDE DEF m
  <2>6. /\ d \in Clients /\ d.out = c.out /\ d.player = p /\ d.data = rest /\ d.rx = c.rx
        /\ d.msgSize = n /\ d.socket = c.socket /\ d.connected = c.connected
        /\ d.pending = FALSE /\ d.segmentId = c.segmentId
        /\ d.measured = m /\ d.delayed = c.delayed /\ d.aborted = c.aborted
    BY <1>9, <2>2, <2>3 DEF Clients
  <2> HIDE DEF d
  <2>7. InStream(d, tc) = <<>>
    BY <1>9, <1>10, <2>4, <2>6 DEF InStream
  <2>8. Position(p) = (s + 1) * FramesPerSegment /\ s + 1 <= MaxSegments
    BY <1>7, <1>11, <1>12, <1>13, <1>16, ClientAssumption
  <2>9. StreamSound(d, <<>>, ts \o c.out, sv)
    BY <1>4, <1>11, <2>6, <2>8 DEF StreamSound
  <2>10. /\ c.delayed \in Nat /\ c.delayed <= lost /\ c.socket # "NULL"
         /\ c.socket = "SYN_SENT" => c.delayed <= lost - 1
    <3>1. c.delayed \in Nat
      BY <1>1, ClientFields
    <3>2. c.pending /\ c.player.state # "DONE"
      BY <1>4, <1>5, <1>16
    <3>3. c.delayed <= lost + 0 /\ c.socket # "NULL"
      BY <1>1, <3>2 DEF EventsSound
    <3>4. c.socket = "SYN_SENT" => c.delayed <= lost - 1
      BY <1>1, <3>2 DEF EventsSound
    <3> QED
      BY <1>1, <3>1, <3>3, <3>4
  <2>11. EventsSound(d, lost) /\ MayRequest(d, lost)
    BY <1>1, <2>6, <2>10 DEF EventsSound, MayRequest
  <2>12. ClientSound(d, tc, ts \o d.out, sv, lost)
    BY <1>1, <1>5, <2>5, <2>6, <2>7, <2>9, <2>11 DEF ClientSound
  <2>13. Sound(d, tc, ts, sv, lost)
    BY <2>12 DEF Sound
  <2>14. ASSUME NEW e, SameStream(d, e), Asks(d, e, tc)
         PROVE  /\ Progress(c, e, tc) /\ e.rx = c.rx
                /\ Len(e.data) < Len(c.data) /\ e.msgSize # 0
    <3>1. /\ e.player = p /\ e.data = rest /\ e.rx = c.rx /\ e.msgSize = n
          /\ e.socket = c.socket
      BY <2>6, <2>14 DEF SameStream
    <3>2. InStream(e, tc) = <<>>
      BY <2>6, <2>7, <3>1 DEF InStream
    <3>3. \/ e.segmentId = c.segmentId
          \/ /\ e.segmentId = c.segmentId + 1 /\ Position(p) = c.segmentId * FramesPerSegment
      BY <1>11, <2>6, <2>8, <2>14 DEF Asks
    <3> QED
      BY <1>4, <1>5, <1>13, <1>14, <3>1, <3>2, <3>3 DEF Progress, st
  <2>15. CASE next.wait
    <3> DEFINE k == d.delayed + 1
               e == [d EXCEPT !.delayed = k]
    <3>1. ParseMessage(c, next) = e
      BY <2>1, <2>15
    <3>2. k \in Nat /\ k = c.delayed + 1
      BY <2>6, <2>10
    <3> HIDE DEF k
    <3>3. /\ e \in Clients /\ e.out = c.out /\ SameStream(d, e) /\ e.connected = c.connected
          /\ e.pending = FALSE /\ e.segmentId = d.segmentId
          /\ e.measured = m /\ e.delayed = k /\ e.aborted = c.aborted
      BY <2>6, <3>2 DEF Clients, SameStream
    <3> HIDE DEF e
    <3>4. Asks(d, e, tc)
      BY <3>3 DEF Asks
    <3>5. InStream(e, tc) = <<>> /\ e.player = p /\ e.socket = c.socket
      BY <2>6, <2>7, <3>3 DEF InStream, SameStream
    <3>6. EventsSound(e, lost)
      BY <1>1, <2>10, <3>2, <3>3, <3>5 DEF EventsSound
    <3>7. StreamSound(e, <<>>, ts \o c.out, sv)
      BY <2>6, <2>9, <3>3, <3>5 DEF StreamSound
    <3>8. ClientSound(e, tc, ts \o e.out, sv, lost)
      BY <1>1, <1>5, <2>5, <3>3, <3>5, <3>6, <3>7 DEF ClientSound
    <3>9. /\ Progress(c, e, tc) /\ e.rx = c.rx
          /\ Len(e.data) < Len(c.data) /\ e.msgSize # 0
      BY <2>14, <3>3, <3>4
    <3> QED
      BY <1>4, <2>13, <3>1, <3>8, <3>9 DEF Sound, st
  <2>16. CASE ~ next.wait
    <3> DEFINE e == RequestSegment(d)
    <3>1. ParseMessage(c, next) = e
      BY <2>1, <2>16
    <3>2. Sound(e, tc, ts, sv, lost) /\ SameStream(d, e) /\ Asks(d, e, tc)
      BY <2>11, <2>13, RequestResult
    <3> HIDE DEF e
    <3>3. /\ Progress(c, e, tc) /\ e.rx = c.rx
          /\ Len(e.data) < Len(c.data) /\ e.msgSize # 0
      BY <2>14, <3>2
    <3> QED
      BY <1>4, <3>1, <3>2, <3>3 DEF st
  <2> QED
    BY <2>15, <2>16
<1> QED
  BY <1>15, <1>16

(* A round that cannot hand over a message leaves nothing to do for the next. *)
Stuck(c) ==
  /\ HeadersIn(c) => c.msgSize = Front(c).size
  /\ ~ Acceptable(c)

(* While the parser knows no size it holds nothing or all the headers.      *)
Headed(c) == c.msgSize = 0 => c.data = <<>> \/ HeadersIn(c)

(* The parser has handed over nothing or knows a size.                      *)
SizeKnown(c, d) == d.msgSize # 0 \/ d.data = c.data

(* A round of the parser that hands over no message changes only what it    *)
(* knows of the size of the first.                                          *)
LEMMA NothingParsed ==
  ASSUME NEW c, NEW tc, NEW ts, NEW sv, NEW lost, Sound(c, tc, ts, sv, lost),
         NEW next, Headed(c), ~ Acceptable(c)
  PROVE  LET d == ParseMessage(c, next)
         IN  /\ Sound(d, tc, ts, sv, lost) /\ Progress(c, d, tc)
             /\ d.rx = c.rx /\ d.data = c.data /\ Stuck(d) /\ Headed(d)
<1>1. /\ c \in Clients /\ ClientSound(c, tc, ts \o c.out, sv, lost)
      /\ PlayerSound(c.player)
  BY DEF Sound, ClientSound
<1>2. Progress(c, c, tc)
  BY <1>1, PositionType DEF Progress, Resumes
<1>3. CASE ~ HeadersIn(c)
  <2>1. ParseMessage(c, next) = c
    BY <1>3 DEF ParseMessage, Complete
  <2> QED
    BY <1>2, <1>3, <2>1 DEF Stuck
<1>4. CASE HeadersIn(c)
  <2> DEFINE n == Front(c).size
             d == [c EXCEPT !.msgSize = n]
  <2>1. ParseMessage(c, next) = d
    BY <1>4 DEF ParseMessage, Acceptable
  <2>2. n \in Sizes /\ n # 0
    <3>1. PICK data \in Seq(StreamUnits) : data = c.data
      BY <1>1, ClientFields
    <3>2. data # <<>>
      BY <1>4, <3>1, ClientAssumption, EmptySeq DEF HeadersIn
    <3>3. Head(data) \in StreamUnits
      BY <3>2, HeadTailProperties
    <3>4. Front(c) \in Messages
      BY <3>1, <3>3, UnitFields DEF Front
    <3> QED
      BY <3>4, MessageFields
  <2> HIDE DEF n
  <2>3. /\ d \in Clients /\ d.player = c.player /\ d.data = c.data /\ d.rx = c.rx
        /\ d.msgSize = n /\ d.socket = c.socket /\ d.connected = c.connected
        /\ d.pending = c.pending /\ d.segmentId = c.segmentId
        /\ d.segmentBytes = c.segmentBytes /\ d.measured = c.measured
        /\ d.delayed = c.delayed /\ d.out = c.out /\ d.aborted = c.aborted
    BY <1>1, <2>2 DEF Clients
  <2> HIDE DEF d
  <2>4. InStream(d, tc) = InStream(c, tc)
    BY <2>3 DEF InStream
  <2>5. StreamSound(d, InStream(d, tc), ts \o d.out, sv)
    BY <1>1, <2>3, <2>4, SameSound DEF ClientSound
  <2>6. EventsSound(d, lost)
    BY <1>1, <2>3 DEF ClientSound, EventsSound
  <2>7. ClientSound(d, tc, ts \o d.out, sv, lost)
    BY <1>1, <2>3, <2>5, <2>6 DEF ClientSound
  <2>8. Progress(c, d, tc)
    BY <1>2, <2>2, <2>3, <2>4 DEF Progress
  <2>9. Front(d) = Front(c) /\ Complete(d) = Complete(c) /\ HeadersIn(d)
    BY <1>4, <2>3 DEF Front, Complete, HeadersIn
  <2>10. Stuck(d) /\ Headed(d)
    BY <2>2, <2>3, <2>9 DEF Stuck, Headed, Acceptable, n
  <2> QED
    BY <2>1, <2>3, <2>7, <2>8, <2>10 DEF Sound
<1> QED
  BY <1>3, <1>4

(* The rounds of the parser: it stops at a message that is incomplete or    *)
(* that the player has no room for.                                         *)
LEMMA ParserResult ==
  ASSUME NEW c, NEW tc, NEW ts, NEW sv, NEW lost, Sound(c, tc, ts, sv, lost),
         NEW next \in Choices, Headed(c)
  PROVE  LET d == TryToPushToPlayer(c, next)
         IN  /\ Sound(d, tc, ts, sv, lost) /\ Progress(c, d, tc) /\ Headed(d)
             /\ d.rx = c.rx /\ Len(d.data) <= Len(c.data) /\ Stuck(d)
             /\ SizeKnown(c, d)
<1> DEFINE n == Len(c.data)
           Body(e) == ParseMessage(e, next)
           round[i \in 0 .. n] ==
             IF i = 0 THEN c ELSE CHOOSE d \in {Body(e) : e \in {round[i - 1]}} : TRUE
           V == {d \in Clients : /\ Sound(d, tc, ts, sv, lost) /\ Progress(c, d, tc)
                                 /\ Headed(d) /\ d.rx = c.rx /\ Len(d.data) <= n
                                 /\ SizeKnown(c, d)}
           F == [d \in V |-> Body(d)]
           W == [i \in 0 .. n |-> {d \in V : Len(d.data) <= n - i \/ Stuck(d)}]
<1>1. c \in Clients /\ PlayerSound(c.player) /\ c.data \in Seq(StreamUnits)
  BY ClientFields DEF Sound, ClientSound
<1>2. n \in Nat
  BY <1>1, LenProperties
<1>3. TryToPushToPlayer(c, next) = round[n]
  BY DEF TryToPushToPlayer
<1>4. round = CHOOSE g : g = [i \in 0 .. n |-> IF i = 0 THEN c
                 ELSE CHOOSE d \in {Body(e) : e \in {g[i - 1]}} : TRUE]
  OBVIOUS
<1> HIDE DEF round
<1>5. ASSUME NEW x \in V
      PROVE  /\ Body(x) \in V
             /\ Len(x.data) \in Nat /\ Len(Body(x).data) \in Nat
             /\ Len(Body(x).data) < Len(x.data) \/ Stuck(Body(x))
             /\ ~ Stuck(x) \/ Stuck(Body(x))
  <2>1. /\ Sound(x, tc, ts, sv, lost) /\ Progress(c, x, tc) /\ Headed(x)
        /\ x.rx = c.rx /\ Len(x.data) <= n /\ PlayerSound(x.player) /\ x \in Clients
        /\ SizeKnown(c, x)
    BY <1>5 DEF Sound, ClientSound
  <2>2. ASSUME NEW y, Sound(y, tc, ts, sv, lost), Progress(x, y, tc), Headed(y),
               y.rx = x.rx, Len(y.data) <= Len(x.data), SizeKnown(x, y)
        PROVE  y \in V /\ Len(x.data) \in Nat /\ Len(y.data) \in Nat
    <3>1. y \in Clients /\ PlayerSound(y.player)
      BY <2>2 DEF Sound, ClientSound
    <3>2. Progress(c, y, tc)
      BY <1>1, <2>1, <2>2, <3>1, ProgressOn
    <3>3. PICK xd \in Seq(StreamUnits), yd \in Seq(StreamUnits) : xd = x.data /\ yd = y.data
      BY <2>1, <3>1, ClientFields
    <3>4. Len(xd) \in Nat /\ Len(yd) \in Nat
      BY LenProperties
    <3> HIDE DEF n
    <3>5. Len(y.data) <= n
      BY <1>2, <2>1, <2>2, <3>3, <3>4
    <3>6. SizeKnown(c, y)
      BY <2>1, <2>2 DEF SizeKnown, Progress
    <3> QED
      BY <2>1, <2>2, <3>1, <3>2, <3>3, <3>4, <3>5, <3>6
  <2>3. CASE Acceptable(x)
    <3> DEFINE y == ParseMessage(x, next)
    <3>1. /\ Sound(y, tc, ts, sv, lost) /\ Progress(x, y, tc)
          /\ y.rx = x.rx /\ Len(y.data) < Len(x.data) /\ y.msgSize # 0
      BY <2>1, <2>3, ParseResult
    <3> HIDE DEF y
    <3>2. Headed(y) /\ SizeKnown(x, y)
      BY <3>1 DEF Headed, SizeKnown
    <3>3. PICK xd \in Seq(StreamUnits), yd \in Seq(StreamUnits) : xd = x.data /\ yd = y.data
      BY <2>1, <3>1, ClientFields DEF Sound, ClientSound
    <3>4. Len(y.data) <= Len(x.data)
      BY <3>1, <3>3, LenProperties
    <3>5. y \in V /\ Len(x.data) \in Nat /\ Len(y.data) \in Nat
      <4> HIDE DEF V
      <4> QED
        BY <2>2, <3>1, <3>2, <3>4
    <3>6. ~ Stuck(x)
      BY <2>3 DEF Stuck
    <3> QED
      BY <3>1, <3>5, <3>6 DEF y
  <2>4. CASE ~ Acceptable(x)
    <3> DEFINE y == ParseMessage(x, next)
    <3>1. /\ Sound(y, tc, ts, sv, lost) /\ Progress(x, y, tc)
          /\ y.rx = x.rx /\ y.data = x.data /\ Stuck(y) /\ Headed(y)
      BY <2>1, <2>4, NothingParsed
    <3> HIDE DEF y
    <3>2. PICK xd \in Seq(StreamUnits) : xd = x.data
      BY <2>1, ClientFields
    <3>3. Len(y.data) <= Len(x.data) /\ SizeKnown(x, y)
      BY <3>1, <3>2, LenProperties DEF SizeKnown
    <3>4. y \in V /\ Len(x.data) \in Nat /\ Len(y.data) \in Nat
      <4> HIDE DEF V
      <4> QED
        BY <2>2, <3>1, <3>3
    <3> QED
      BY <3>1, <3>4 DEF y
  <2> QED
    BY <2>3, <2>4
<1> HIDE DEF Body
<1>6. ASSUME NEW e PROVE (CHOOSE d \in {Body(x) : x \in {e}} : TRUE) = Body(e)
  BY Zenon
<1>7. \A x \in V : F[x] = Body(x)
  OBVIOUS
<1>8. c \in V
  <2>1. Progress(c, c, tc) /\ SizeKnown(c, c)
    BY <1>1, PositionType DEF Progress, Resumes, SizeKnown
  <2> QED
    BY <1>1, <1>2, <2>1
<1>9. /\ c \in W[0]
      /\ \A i \in 0 .. n : W[i] \subseteq V
      /\ \A i \in 1 .. n : \A x \in W[i - 1] : F[x] \in W[i]
  <2> HIDE DEF n, F, V
  <2>1. c \in W[0]
    <3>1. Len(c.data) <= n - 0 /\ 0 \in 0 .. n
      BY <1>2 DEF n
    <3> QED
      BY <1>8, <3>1
  <2>2. \A i \in 0 .. n : W[i] \subseteq V
    OBVIOUS
  <2>3. ASSUME NEW i \in 1 .. n, NEW x \in W[i - 1]
        PROVE  F[x] \in W[i]
    <3>1. i - 1 \in 0 .. n /\ i \in 0 .. n
      BY <1>2
    <3>2. x \in V /\ (Len(x.data) <= n - (i - 1) \/ Stuck(x))
      BY <3>1
    <3>3. F[x] \in V /\ F[x] = Body(x)
      BY <1>5, <1>7, <3>2
    <3>4. Len(Body(x).data) <= n - i \/ Stuck(Body(x))
      BY <1>2, <1>5, <3>2
    <3> QED
      BY <3>1, <3>3, <3>4
  <2> QED
    BY <2>1, <2>2, <2>3
<1>10. PICK g : /\ IsRun(g, n, c, F)
                /\ \A i \in 0 .. n : g[i] \in W[i] /\ g[i] \in V
  <2> HIDE DEF n, F, W, V
  <2>1. Invariants(n, V, c, F, W)
    BY <1>9 DEF Invariants
  <2> QED
    BY <1>2, <2>1, Loop, Zenon
<1>11. g = [i \in 0 .. n |-> IF i = 0 THEN c
              ELSE CHOOSE d \in {Body(e) : e \in {g[i - 1]}} : TRUE]
  <2>1. ASSUME NEW i \in 0 .. n, i # 0
        PROVE  F[g[i - 1]] = CHOOSE d \in {Body(e) : e \in {g[i - 1]}} : TRUE
    <3>1. g[i - 1] \in V
      <4> HIDE DEF n, F, W, V
      <4>1. i - 1 \in 0 .. n
        BY <1>2, <2>1
      <4> QED
        BY <1>10, <4>1
    <3>2. F[g[i - 1]] = Body(g[i - 1])
      BY <1>7, <3>1
    <3> QED
      BY <1>6, <3>2
  <2> HIDE DEF n, F, V, W
  <2> QED
    BY <1>10, <2>1 DEF IsRun
<1>12. round = [i \in 0 .. n |-> IF i = 0 THEN c
                  ELSE CHOOSE d \in {Body(e) : e \in {round[i - 1]}} : TRUE]
  <2> HIDE DEF n
  <2>1. \E h : h = [i \in 0 .. n |-> IF i = 0 THEN c
                 ELSE CHOOSE d \in {Body(e) : e \in {h[i - 1]}} : TRUE]
    BY <1>11
  <2> QED
    BY <1>4, <2>1
<1>13. \A i \in 0 .. n : round[i] \in W[i]
  <2> HIDE DEF n, W, F, V
  <2>1. round[0] = c
    BY <1>2, <1>12
  <2>2. ASSUME NEW i \in 1 .. n PROVE round[i] = Body(round[i - 1])
    <3>1. round[i] = CHOOSE d \in {Body(e) : e \in {round[i - 1]}} : TRUE
      BY <1>2, <1>12
    <3> QED
      BY <1>6, <3>1
  <2>3. ASSUME NEW i \in 1 .. n, round[i - 1] \in W[i - 1]
        PROVE  round[i] \in W[i]
    <3>1. round[i - 1] \in V
      BY <1>2, <1>9, <2>3
    <3>2. round[i] = F[round[i - 1]]
      BY <1>7, <2>2, <3>1
    <3> QED
      BY <1>9, <2>3, <3>2
  <2> QED
    BY <1>2, <1>9, <2>1, <2>3, Stays
<1>14. round[n] \in V /\ (Len(round[n].data) <= n - n \/ Stuck(round[n]))
  <2> HIDE DEF n, V
  <2>1. n \in 0 .. n
    BY <1>2
  <2> QED
    BY <1>13, <2>1
<1>15. Stuck(round[n])
  <2> DEFINE d == round[n]
  <2>1. ASSUME Len(d.data) <= n - n PROVE Stuck(d)
    <3>1. d \in Clients
      BY <1>14
    <3>2. PICK dd \in Seq(StreamUnits) : dd = d.data
      BY <3>1, ClientFields
    <3>3. Len(dd) = 0
      BY <1>2, <2>1, <3>2, LenProperties
    <3>4. ~ HeadersIn(d)
      BY <3>2, <3>3, ClientAssumption DEF HeadersIn
    <3> QED
      BY <3>4 DEF Stuck, Acceptable, Complete
  <2> QED
    BY <1>14, <2>1
<1> QED
  BY <1>3, <1>14, <1>15

-----------------------------------------------------------------------------
(* The socket. *)

(* The largest message.                                                     *)
LEMMA LargestType ==
  /\ LargestMessage \in Nat /\ LargestMessage \in Sizes /\ 1 <= LargestMessage
  /\ \A s \in Sizes : s <= LargestMessage
<1> DEFINE T == {n \in Nat : n <= Capacity => \A s \in Sizes : s <= Capacity - n}
<1>1. Sizes # {} /\ Capacity \in Nat /\ \A s \in Sizes : s \in Nat /\ 1 <= s /\ s <= Capacity
  BY ClientAssumption
<1>5. \E l \in Sizes : \A s \in Sizes : s <= l
  <2>1. SUFFICES ASSUME \A l \in Sizes : \E s \in Sizes : ~ (s <= l) PROVE FALSE
    OBVIOUS
  <2>2. 0 \in T
    BY <1>1
  <2>3. ASSUME NEW n \in Nat, n \in T PROVE n + 1 \in T
    <3>1. ASSUME n + 1 <= Capacity, NEW s \in Sizes PROVE s <= Capacity - (n + 1)
      <4>1. \A t \in Sizes : t <= Capacity - n
        BY <1>1, <2>3, <3>1
      <4>2. s # Capacity - n
        BY <2>1, <4>1
      <4> QED
        BY <1>1, <4>1, <4>2
    <3> QED
      BY <3>1
  <2>4. Nat \subseteq T
    <3> HIDE DEF T
    <3> QED
      BY <2>2, <2>3, SetInduction
  <2>5. \A s \in Sizes : s <= Capacity - Capacity
    BY <1>1, <2>4
  <2> QED
    BY <1>1, <2>5
<1>6. LargestMessage \in Sizes /\ \A s \in Sizes : s <= LargestMessage
  BY <1>5 DEF LargestMessage
<1> QED
  BY <1>1, <1>6

(* The parser may be given the data in the socket: the first data hold the  *)
(* headers.                                                                 *)
ReadyToRead(c) ==
  /\ c.msgSize = 0 => c.data = <<>> /\ (c.rx = <<>> \/ Len(c.rx) >= HeaderSize)
  /\ Len(c.rx) <= RxCapacity
  /\ Len(c.data) < LargestMessage + RxCapacity

(* The parser has done what it could.                                       *)
Settled(c) ==
  /\ ParserSound(c)
  /\ Complete(c) => ~ P!Fits(c.player.buffer, Front(c))
  /\ c.rx # <<>> => Complete(c)
  /\ Len(c.data) < LargestMessage + RxCapacity

(* The socket is left as it was or emptied, and once there was anything in  *)
(* it the parser knows a size.                                              *)
Reads(c, d) ==
  /\ d.rx = c.rx \/ d.rx = <<>>
  /\ c.rx # <<>> => d.msgSize # 0

(* The size the parser has read is that of the message in front.            *)
LEMMA SizeRead ==
  ASSUME NEW c \in Clients, Stuck(c), c.msgSize # 0, Len(c.data) >= c.msgSize
  PROVE  Complete(c)
<1>1. c.msgSize \in Nat /\ c.msgSize \in Sizes
  BY ClientFields
<1>2. HeaderSize \in Nat /\ c.msgSize >= HeaderSize
  BY <1>1, ClientAssumption
<1>3. PICK l \in Nat : l = Len(c.data)
  <2>1. PICK data \in Seq(StreamUnits) : data = c.data
    BY ClientFields
  <2> QED
    BY <2>1, LenProperties
<1>4. HeadersIn(c)
  BY <1>1, <1>2, <1>3 DEF HeadersIn
<1> QED
  BY <1>4 DEF Complete, Stuck

(* The data of the socket moved behind those of the parser.                 *)
LEMMA TakeResult ==
  ASSUME NEW c, NEW tc, NEW ts, NEW sv, NEW lost, Sound(c, tc, ts, sv, lost)
  PROVE  LET d == [c EXCEPT !.data = c.data \o c.rx, !.rx = <<>>]
         IN  /\ Sound(d, tc, ts, sv, lost) /\ Progress(c, d, tc)
             /\ d.rx = <<>> /\ d.data = c.data \o c.rx
             /\ Len(d.data) = Len(c.data) + Len(c.rx)
             /\ d.player = c.player /\ d.msgSize = c.msgSize
<1>1. /\ c \in Clients /\ ClientSound(c, tc, ts \o c.out, sv, lost)
      /\ PlayerSound(c.player) /\ tc \in Seq(StreamUnits)
  BY DEF Sound, ClientSound
<1>2. c.data \in Seq(StreamUnits) /\ c.rx \in Seq(StreamUnits)
  BY <1>1, ClientFields
<1>3. SecondMoved(StreamUnits, c.data, c.rx, tc)
  BY <1>1, <1>2, MoveSecond
<1> DEFINE x == c.data \o c.rx
           y == <<>>
           d == [c EXCEPT !.data = x, !.rx = y]
<1>4. /\ x \in Seq(StreamUnits) /\ Len(x) = Len(c.data) + Len(c.rx)
      /\ Joined(x, y, tc) = InStream(c, tc) /\ y \in Seq(StreamUnits)
  BY <1>3 DEF SecondMoved, InStream
<1>5. y = <<>> /\ x = c.data \o c.rx
  OBVIOUS
<1> HIDE DEF x, y
<1>6. /\ d \in Clients /\ d.player = c.player /\ d.data = x /\ d.rx = y
      /\ d.msgSize = c.msgSize /\ d.socket = c.socket /\ d.connected = c.connected
      /\ d.pending = c.pending /\ d.segmentId = c.segmentId
      /\ d.segmentBytes = c.segmentBytes /\ d.measured = c.measured
      /\ d.delayed = c.delayed /\ d.out = c.out /\ d.aborted = c.aborted
  BY <1>1, <1>4 DEF Clients
<1>7. d = [c EXCEPT !.data = c.data \o c.rx, !.rx = <<>>]
  BY <1>5
<1> HIDE DEF d
<1>8. InStream(d, tc) = InStream(c, tc)
  BY <1>4, <1>6 DEF InStream
<1>9. StreamSound(d, InStream(d, tc), ts \o d.out, sv)
  BY <1>1, <1>6, <1>8, SameSound DEF ClientSound
<1>10. EventsSound(d, lost)
  BY <1>1, <1>6 DEF ClientSound, EventsSound
<1>11. ClientSound(d, tc, ts \o d.out, sv, lost)
  BY <1>1, <1>6, <1>9, <1>10 DEF ClientSound
<1>12. Progress(c, d, tc)
  BY <1>1, <1>6, <1>8, PositionType DEF Progress, Resumes
<1> QED
  BY <1>4, <1>5, <1>6, <1>7, <1>11, <1>12 DEF Sound

(* ReadSocket: the pending message first, then the data in the socket.      *)
LEMMA ReadResult ==
  ASSUME NEW c, NEW tc, NEW ts, NEW sv, NEW lost, Sound(c, tc, ts, sv, lost),
         NEW next \in Choices, ReadyToRead(c)
  PROVE  LET d == ReadSocket(c, next)
         IN  /\ Sound(d, tc, ts, sv, lost) /\ Progress(c, d, tc)
             /\ Settled(d) /\ Reads(c, d)
<1> DEFINE d == TryToPushToPlayer(c, next)
<1>1. c \in Clients /\ PlayerSound(c.player)
  BY DEF Sound, ClientSound
<1>2. PICK cdata \in Seq(StreamUnits), rx \in Seq(StreamUnits) : cdata = c.data /\ rx = c.rx
  BY <1>1, ClientFields
<1>3. Len(cdata) \in Nat /\ Len(rx) \in Nat /\ HeaderSize \in Nat /\ RxCapacity \in Nat
      /\ 1 <= HeaderSize /\ LargestMessage \in Nat /\ 1 <= LargestMessage
      /\ Len(cdata) < LargestMessage + RxCapacity /\ Len(rx) <= RxCapacity
  BY <1>2, LenProperties, ClientAssumption, LargestType DEF ReadyToRead
<1>4. Headed(c)
  BY DEF ReadyToRead, Headed
<1>5. /\ Sound(d, tc, ts, sv, lost) /\ Progress(c, d, tc) /\ Headed(d)
      /\ d.rx = c.rx /\ Len(d.data) <= Len(c.data) /\ Stuck(d) /\ SizeKnown(c, d)
  BY <1>4, ParserResult
<1>6. ReadSocket(c, next) = IF c.data # <<>> /\ Len(d.data) >= d.msgSize THEN SendBlank(d)
        ELSE TryToPushToPlayer([d EXCEPT !.data = d.data \o d.rx, !.rx = <<>>], next)
  <2>1. [d EXCEPT !.data = @ \o d.rx, !.rx = <<>>] = [d EXCEPT !.data = d.data \o d.rx, !.rx = <<>>]
    OBVIOUS
  <2> QED
    BY <2>1 DEF ReadSocket
<1> HIDE DEF d
<1>7. d \in Clients /\ PlayerSound(d.player)
  BY <1>5 DEF Sound, ClientSound
<1>8. PICK ddata \in Seq(StreamUnits) : ddata = d.data
  BY <1>7, ClientFields
<1>9. Len(ddata) \in Nat /\ Len(ddata) <= Len(cdata) /\ d.msgSize \in Nat
  BY <1>2, <1>5, <1>7, <1>8, ClientFields, LenProperties
<1>10. CASE c.data # <<>> /\ Len(d.data) >= d.msgSize
  <2> DEFINE e == SendBlank(d)
  <2>1. Sound(e, tc, ts, sv, lost) /\ SameStream(d, e) /\ e.segmentId = d.segmentId
    BY <1>5, SendBlankResult
  <2>2. ReadSocket(c, next) = e
    BY <1>6, <1>10
  <2> HIDE DEF e
  <2>3. d.msgSize # 0
    BY <1>5, <1>10 DEF Progress, ReadyToRead
  <2>4. Complete(d) /\ ~ P!Fits(d.player.buffer, Front(d))
    <3>1. Complete(d)
      BY <1>5, <1>7, <1>10, <2>3, SizeRead
    <3> QED
      BY <1>5, <3>1 DEF Stuck, Acceptable
  <2>5. Progress(c, e, tc)
    BY <1>5, <2>1 DEF Progress, SameStream, InStream
  <2>6. Complete(e) = Complete(d) /\ Front(e) = Front(d)
    BY <2>1 DEF SameStream, Complete, HeadersIn, Front
  <2>7. Len(e.data) < LargestMessage + RxCapacity /\ Len(e.rx) <= RxCapacity
    BY <1>2, <1>3, <1>5, <1>8, <1>9, <2>1 DEF SameStream
  <2>8. Settled(e)
    BY <2>1, <2>3, <2>4, <2>6, <2>7 DEF Settled, ParserSound, SameStream
  <2>9. Reads(c, e)
    BY <1>5, <2>1, <2>3 DEF SameStream, Reads
  <2> QED
    BY <2>1, <2>2, <2>5, <2>8, <2>9
<1>11. CASE ~ (c.data # <<>> /\ Len(d.data) >= d.msgSize)
  <2> DEFINE e == [d EXCEPT !.data = d.data \o d.rx, !.rx = <<>>]
             x == TryToPushToPlayer(e, next)
  <2>1. /\ Sound(e, tc, ts, sv, lost) /\ Progress(d, e, tc)
        /\ e.rx = <<>> /\ e.data = d.data \o d.rx
        /\ Len(e.data) = Len(d.data) + Len(d.rx)
        /\ e.player = d.player /\ e.msgSize = d.msgSize
    BY <1>5, TakeResult
  <2>2. ReadSocket(c, next) = x
    BY <1>6, <1>11
  <2> HIDE DEF e
  <2>3. e \in Clients /\ PlayerSound(e.player)
    BY <2>1 DEF Sound, ClientSound
  <2>4. PICK edata \in Seq(StreamUnits) : edata = e.data /\ Len(edata) = Len(ddata) + Len(rx)
    BY <1>2, <1>5, <1>8, <2>1, <2>3, ClientFields
  <2>5. Len(edata) \in Nat
    BY LenProperties
  <2>6. c.data = <<>> => ddata = <<>>
    BY <1>2, <1>9, EmptySeq
  <2>7. Headed(e)
    <3>1. ASSUME e.msgSize = 0 PROVE e.data = <<>> \/ HeadersIn(e)
      <4>1. c.msgSize = 0
        BY <1>5, <2>1, <3>1 DEF Progress
      <4>2. c.data = <<>> /\ (c.rx = <<>> \/ Len(c.rx) >= HeaderSize)
        BY <4>1 DEF ReadyToRead
      <4>3. Len(edata) = Len(rx)
        BY <1>3, <2>4, <2>6, <4>2, EmptySeq
      <4> QED
        BY <1>2, <2>4, <4>2, <4>3, EmptySeq DEF HeadersIn
    <3> QED
      BY <3>1 DEF Headed
  <2>8. /\ Sound(x, tc, ts, sv, lost) /\ Progress(e, x, tc) /\ Headed(x)
        /\ x.rx = e.rx /\ Len(x.data) <= Len(e.data) /\ Stuck(x) /\ SizeKnown(e, x)
    BY <2>1, <2>7, ParserResult
  <2> HIDE DEF x
  <2>9. x \in Clients /\ PlayerSound(x.player)
    BY <2>8 DEF Sound, ClientSound
  <2>10. Progress(c, x, tc)
    <3>1. Progress(c, e, tc)
      BY <1>1, <1>5, <1>7, <2>1, <2>3, ProgressOn
    <3> QED
      BY <1>1, <2>3, <2>8, <2>9, <3>1, ProgressOn
  <2>11. x.msgSize = 0 => x.data = <<>>
    <3>1. ASSUME HeadersIn(x) PROVE x.msgSize # 0
      <4>1. PICK xdata \in Seq(StreamUnits) : xdata = x.data
        BY <2>9, ClientFields
      <4>2. xdata # <<>>
        BY <1>3, <3>1, <4>1, EmptySeq DEF HeadersIn
      <4>3. Head(xdata) \in StreamUnits
        BY <4>2, HeadTailProperties
      <4>4. x.msgSize = Head(xdata).frame.size
        BY <2>8, <3>1, <4>1 DEF Stuck, Front
      <4> QED
        BY <4>3, <4>4, UnitFields
    <3> QED
      BY <2>8, <3>1 DEF Headed
  <2>12. Len(x.data) < LargestMessage + RxCapacity
    <3>1. Len(edata) < LargestMessage + RxCapacity
      <4>1. CASE c.data = <<>>
        <5>1. Len(ddata) = 0
          BY <2>6, <4>1, EmptySeq
        <5> QED
          BY <1>3, <2>4, <5>1
      <4>2. CASE c.data # <<>>
        <5>1. Len(ddata) < d.msgSize
          BY <1>8, <1>9, <1>11, <4>2
        <5>2. d.msgSize <= LargestMessage
          <6>1. PICK m \in Sizes \union {0} : m = d.msgSize
            BY <1>7, ClientFields
          <6>2. CASE m \in Sizes
            BY <6>1, <6>2, LargestType
          <6>3. CASE m = 0
            BY <1>3, <6>1, <6>3
          <6> QED
            BY <6>2, <6>3
        <5> QED
          BY <1>3, <1>9, <2>4, <5>1, <5>2
      <4> QED
        BY <4>1, <4>2
    <3>2. PICK xdata \in Seq(StreamUnits) : xdata = x.data
      BY <2>9, ClientFields
    <3>3. Len(xdata) \in Nat /\ Len(xdata) <= Len(edata)
      BY <2>4, <2>8, <3>2, LenProperties
    <3> QED
      BY <1>3, <2>5, <3>1, <3>2, <3>3
  <2>13. Settled(x)
    <3>1. Len(x.rx) <= RxCapacity
      BY <1>3, <2>1, <2>8, EmptySeq
    <3>2. Complete(x) => ~ P!Fits(x.player.buffer, Front(x))
      BY <2>8 DEF Stuck, Acceptable
    <3> QED
      BY <2>1, <2>8, <2>11, <2>12, <3>1, <3>2 DEF Settled, ParserSound
  <2>14. Reads(c, x)
    <3>1. x.rx = <<>>
      BY <2>1, <2>8
    <3>2. ASSUME x.msgSize = 0 PROVE c.rx = <<>>
      <4>1. d.msgSize = 0 /\ c.msgSize = 0
        BY <1>5, <2>1, <2>8, <3>2 DEF Progress
      <4>2. ddata = <<>>
        BY <1>5, <1>8, <4>1 DEF SizeKnown, ReadyToRead
      <4>3. edata = <<>>
        BY <2>4, <2>8, <2>11, <3>2 DEF SizeKnown
      <4>4. Len(rx) = 0
        BY <1>3, <2>4, <4>2, <4>3, EmptySeq
      <4> QED
        BY <1>2, <4>4, EmptySeq
    <3> QED
      BY <3>1, <3>2 DEF Reads
  <2> QED
    BY <2>2, <2>8, <2>10, <2>13, <2>14, SMTT(20)
<1> QED
  BY <1>10, <1>11

-----------------------------------------------------------------------------
(* The inductive invariant. *)

Answered == [seg : 0 .. MaxSegments - 1, bytes : Nat]

(* No call is missing that would move the stream of c on.                   *)
NotForgotten(c) ==
  c.player.checks = 0 =>
    /\ Complete(c) => ~ P!Fits(c.player.buffer, Front(c))
    /\ c.rx # <<>> => Complete(c)

ParserSettled(c) ==
  ParserSound(c) /\ NotForgotten(c) /\ Len(c.data) < LargestMessage + RxCapacity

Inv ==
  /\ Sound(client, toClient, toServer, served, losses) /\ client.out = <<>>
  /\ ParserSettled(client)
  /\ losses <= MaxLosses /\ served \in Seq(Answered)
  /\ unacked \in BOOLEAN /\ stopped \in BOOLEAN

(* What one event may do to the segments asked for and the frames.          *)
Moves(c, d) ==
  /\ Position(c.player) <= Position(d.player)
  /\ \/ d.segmentId = c.segmentId
     \/ /\ d.segmentId = c.segmentId + 1
        /\ Position(d.player) = c.segmentId * FramesPerSegment
  /\ \/ d.player.framesPlayed = c.player.framesPlayed
     \/ d.player.framesPlayed = c.player.framesPlayed + 1

(* The socket of d is that of c, and its buffer, which was x while the      *)
(* parser ran, is as it was or emptied.                                     *)
Receives(c, d, x) ==
  /\ d.socket = c.socket
  /\ d.rx = x \/ d.rx = <<>>
  /\ c.msgSize # 0 \/ x # <<>> => d.msgSize # 0

-----------------------------------------------------------------------------
(* What the handlers leave. *)

(* What a sound client is made of.                                          *)
LEMMA SoundFields ==
  ASSUME NEW c, NEW tc, NEW ts, NEW sv, NEW lost, Sound(c, tc, ts, sv, lost)
  PROVE  /\ c \in Clients /\ ClientSound(c, tc, ts \o c.out, sv, lost)
         /\ PlayerSound(c.player) /\ EventsSound(c, lost)
         /\ StreamSound(c, InStream(c, tc), ts \o c.out, sv)
         /\ tc \in Seq(StreamUnits) /\ ts \in Seq(ServerMessages) /\ lost \in Nat
         /\ Position(c.player) \in Nat
BY PositionType DEF Sound, ClientSound

(* An empty stream is one in which nothing waits.                           *)
LEMMA NothingInStream ==
  ASSUME NEW c, NEW tc, NEW ts, NEW sv, NEW lost, Sound(c, tc, ts, sv, lost)
  PROVE  InStream(c, tc) = <<>> <=> c.data = <<>> /\ c.rx = <<>> /\ tc = <<>>
<1>1. c.data \in Seq(StreamUnits) /\ c.rx \in Seq(StreamUnits) /\ tc \in Seq(StreamUnits)
  BY SoundFields, ClientFields
<1>2. PartsFit(StreamUnits, c.data, c.rx, tc)
  BY <1>1, StreamParts
<1> QED
  BY <1>2 DEF PartsFit, InStream

(* The parser waits as before while the player's buffer is the same.        *)
LEMMA SameParser ==
  ASSUME NEW c, NEW d, ParserSettled(c), d.data = c.data, d.msgSize = c.msgSize,
         d.rx = c.rx \/ d.rx = <<>>,
         d.player.checks = 0 => c.player.checks = 0 /\ d.player.buffer = c.player.buffer
  PROVE  ParserSettled(d)
<1>1. Front(d) = Front(c) /\ Complete(d) = Complete(c)
  BY DEF Front, Complete, HeadersIn
<1>2. RxCapacity \in Nat /\ Len(<<>>) = 0
  BY ClientAssumption
<1>3. ParserSound(d)
  BY <1>2 DEF ParserSettled, ParserSound
<1>4. NotForgotten(d)
  BY <1>1 DEF ParserSettled, NotForgotten
<1> QED
  BY <1>3, <1>4 DEF ParserSettled

(* What the event sent is on its way.                                       *)
LEMMA SentResult ==
  ASSUME NEW c, NEW tc, NEW ts, NEW sv, NEW lost, Sound(c, tc, ts, sv, lost)
  PROVE  LET d == [c EXCEPT !.out = <<>>]
         IN  /\ Sound(d, tc, ts \o c.out, sv, lost) /\ d.out = <<>>
             /\ d.player = c.player /\ d.segmentId = c.segmentId
             /\ ParserSettled(c) => ParserSettled(d)
<1>1. /\ c \in Clients /\ ClientSound(c, tc, ts \o c.out, sv, lost)
      /\ tc \in Seq(StreamUnits) /\ ts \in Seq(ServerMessages) /\ lost \in Nat
  BY SoundFields
<1>2. PICK o \in Seq(ServerMessages) : o = c.out
  BY <1>1, ClientFields
<1>3. PICK q \in Seq(ServerMessages) : q = ts \o o
  BY <1>1, ConcatProperties
<1> DEFINE e == <<>>
           d == [c EXCEPT !.out = e]
<1>4. e \in Seq(ServerMessages) /\ e = <<>>
  OBVIOUS
<1>5. q \o e = q
  BY ConcatEmptySeq
<1> HIDE DEF e
<1>6. /\ d \in Clients /\ d.player = c.player /\ d.data = c.data /\ d.rx = c.rx
      /\ d.msgSize = c.msgSize /\ d.socket = c.socket /\ d.connected = c.connected
      /\ d.pending = c.pending /\ d.segmentId = c.segmentId
      /\ d.segmentBytes = c.segmentBytes /\ d.measured = c.measured
      /\ d.delayed = c.delayed /\ d.out = e /\ d.aborted = c.aborted
  BY <1>1, <1>4 DEF Clients
<1>7. d = [c EXCEPT !.out = <<>>]
  BY <1>4
<1> HIDE DEF d
<1>8. InStream(d, tc) = InStream(c, tc)
  BY <1>6 DEF InStream
<1>9. StreamSound(d, InStream(d, tc), q, sv)
  BY <1>1, <1>2, <1>3, <1>6, <1>8, SameSound DEF ClientSound
<1>10. EventsSound(d, lost)
  BY <1>1, <1>6 DEF ClientSound, EventsSound
<1>11. ClientSound(d, tc, q \o d.out, sv, lost)
  BY <1>1, <1>5, <1>6, <1>9, <1>10 DEF ClientSound
<1>12. ParserSettled(c) => ParserSettled(d)
  BY <1>6, SameParser
<1> QED
  BY <1>1, <1>2, <1>3, <1>4, <1>6, <1>7, <1>11, <1>12 DEF Sound

(* The frames of the player may change, not their place in the video.       *)
LEMMA PlayerResult ==
  ASSUME NEW c, NEW tc, NEW ts, NEW sv, NEW lost, Sound(c, tc, ts, sv, lost),
         NEW p, PlayerSound(p), Position(p) = Position(c.player),
         p.state = "DONE" <=> c.player.state = "DONE"
  PROVE  LET d == [c EXCEPT !.player = p]
         IN  /\ Sound(d, tc, ts, sv, lost) /\ d.player = p /\ d.data = c.data
             /\ d.rx = c.rx /\ d.msgSize = c.msgSize /\ d.segmentId = c.segmentId
             /\ d.socket = c.socket
<1>1. /\ c \in Clients /\ ClientSound(c, tc, ts \o c.out, sv, lost)
      /\ p \in P!PlayerRecord
  BY SoundFields DEF PlayerSound
<1> DEFINE d == [c EXCEPT !.player = p]
<1>2. /\ d \in Clients /\ d.player = p /\ d.data = c.data /\ d.rx = c.rx
      /\ d.msgSize = c.msgSize /\ d.socket = c.socket /\ d.connected = c.connected
      /\ d.pending = c.pending /\ d.segmentId = c.segmentId
      /\ d.segmentBytes = c.segmentBytes /\ d.measured = c.measured
      /\ d.delayed = c.delayed /\ d.out = c.out /\ d.aborted = c.aborted
  BY <1>1 DEF Clients
<1> HIDE DEF d
<1>3. InStream(d, tc) = InStream(c, tc)
  BY <1>2 DEF InStream
<1>4. StreamSound(d, InStream(d, tc), ts \o d.out, sv)
  BY <1>1, <1>2, <1>3, SameSound DEF ClientSound
<1>5. EventsSound(d, lost)
  BY <1>1, <1>2 DEF ClientSound, EventsSound
<1>6. ClientSound(d, tc, ts \o d.out, sv, lost)
  BY <1>1, <1>2, <1>4, <1>5 DEF ClientSound
<1> QED
  BY <1>2, <1>6 DEF Sound, d

(* StartApplication, when there is no socket.                               *)
LEMMA StartResult ==
  ASSUME NEW c, NEW tc, NEW ts, NEW sv, NEW lost, Sound(c, tc, ts, sv, lost),
         c.socket = "NULL", ParserSettled(c)
  PROVE  LET d == StartApplication(c)
         IN  Sound(d, tc, ts, sv, lost) /\ ParserSettled(d) /\ Moves(c, d)
<1>1. /\ c \in Clients /\ ClientSound(c, tc, ts \o c.out, sv, lost)
      /\ EventsSound(c, lost) /\ lost \in Nat /\ Position(c.player) \in Nat
      /\ StreamSound(c, InStream(c, tc), ts \o c.out, sv)
  BY SoundFields
<1>2. ~ c.pending /\ c.delayed = 0
  BY <1>1 DEF EventsSound
<1>3. InStream(c, tc) = <<>>
  BY <1>1, <1>2 DEF StreamSound
<1>4. c.rx = <<>>
  BY <1>3, NothingInStream
<1> DEFINE d == [c EXCEPT !.socket = "SYN_SENT", !.rx = c.rx]
<1>5. StartApplication(c) = d
  BY <1>4 DEF StartApplication
<1>6. /\ d \in Clients /\ d.player = c.player /\ d.data = c.data /\ d.rx = c.rx
      /\ d.msgSize = c.msgSize /\ d.socket = "SYN_SENT" /\ d.connected = c.connected
      /\ d.pending = c.pending /\ d.segmentId = c.segmentId
      /\ d.segmentBytes = c.segmentBytes /\ d.measured = c.measured
      /\ d.delayed = c.delayed /\ d.out = c.out /\ d.aborted = c.aborted
  BY <1>1, ClientFields DEF Clients
<1> HIDE DEF d
<1>7. InStream(d, tc) = InStream(c, tc)
  BY <1>6 DEF InStream
<1>8. StreamSound(d, InStream(d, tc), ts \o d.out, sv)
  BY <1>1, <1>6, <1>7, SameSound
<1>9. EventsSound(d, lost)
  BY <1>1, <1>2, <1>6 DEF EventsSound
<1>10. ~ c.connected
  BY <1>1 DEF ClientSound
<1>11. ClientSound(d, tc, ts \o d.out, sv, lost)
  BY <1>1, <1>6, <1>8, <1>9, <1>10 DEF ClientSound
<1>12. ParserSettled(d)
  BY <1>6, SameParser
<1>13. Moves(c, d)
  BY <1>1, <1>6 DEF Moves
<1> QED
  BY <1>1, <1>5, <1>11, <1>12, <1>13, SoundFields DEF Sound

(* ConnectionSucceeded: the first request of the connection is sent.        *)
LEMMA ConnectedResult ==
  ASSUME NEW c, NEW tc, NEW ts, NEW sv, NEW lost, Sound(c, tc, ts, sv, lost),
         c.socket = "SYN_SENT", ParserSettled(c)
  PROVE  LET d == ConnectionSucceeded(c)
         IN  Sound(d, tc, ts, sv, lost) /\ ParserSettled(d) /\ Moves(c, d)
<1>1. /\ c \in Clients /\ ClientSound(c, tc, ts \o c.out, sv, lost)
      /\ EventsSound(c, lost) /\ lost \in Nat /\ Position(c.player) \in Nat
      /\ StreamSound(c, InStream(c, tc), ts \o c.out, sv)
      /\ c.delayed \in Nat
  BY SoundFields, ClientFields
<1> DEFINE e == [c EXCEPT !.socket = "ESTABLISHED", !.connected = TRUE]
           d == RequestSegment(e)
<1>2. ConnectionSucceeded(c) = d
  BY DEF ConnectionSucceeded
<1>3. /\ e \in Clients /\ e.player = c.player /\ e.data = c.data /\ e.rx = c.rx
      /\ e.msgSize = c.msgSize /\ e.socket = "ESTABLISHED" /\ e.connected = TRUE
      /\ e.pending = c.pending /\ e.segmentId = c.segmentId
      /\ e.segmentBytes = c.segmentBytes /\ e.measured = c.measured
      /\ e.delayed = c.delayed /\ e.out = c.out /\ e.aborted = c.aborted
  BY <1>1 DEF Clients
<1> HIDE DEF e
<1>4. InStream(e, tc) = InStream(c, tc)
  BY <1>3 DEF InStream
<1>5. StreamSound(e, InStream(e, tc), ts \o e.out, sv)
  BY <1>1, <1>3, <1>4, SameSound
<1>6. c.delayed <= lost
  BY <1>1 DEF EventsSound
<1>7. EventsSound(e, lost) /\ MayRequest(e, lost)
  BY <1>1, <1>3, <1>6 DEF EventsSound, MayRequest
<1>8. Sound(e, tc, ts, sv, lost)
  BY <1>1, <1>3, <1>5, <1>7, SoundFields DEF ClientSound, Sound
<1>9. Sound(d, tc, ts, sv, lost) /\ SameStream(e, d) /\ Asks(e, d, tc)
  BY <1>7, <1>8, RequestResult
<1> HIDE DEF d
<1>10. ParserSettled(d)
  BY <1>3, <1>9, SameParser DEF SameStream
<1>11. Moves(c, d)
  BY <1>1, <1>3, <1>9 DEF Moves, SameStream, Asks
<1> QED
  BY <1>2, <1>9, <1>10, <1>11

(* Nothing follows the last unit of a segment.                              *)
LEMMA WholeIsAll ==
  ASSUME NEW st \in Seq(StreamUnits), NEW seg, NEW id, Aligned(st, seg, id),
         NEW n \in 1 .. Len(st), st[n].k = st[n].frame.size,
         st[n].frame.id = FramesPerSegment - 1
  PROVE  n = Len(st)
<1>1. SUFFICES ASSUME n # Len(st) PROVE FALSE
  OBVIOUS
<1>2. Len(st) \in Nat /\ n + 1 \in 1 .. Len(st)
  BY <1>1, LenProperties
<1>3. PICK u \in StreamUnits : u = st[n]
  BY ElementOfSeq
<1>4. InPlace(st, n, u, seg)
  BY <1>3, AlignedUnits
<1>5. PICK k \in Nat : k = u.k /\ k = u.frame.size
  BY <1>3, UnitFields
<1>6. n - k + k + 1 = n + 1
  BY <1>2
<1>7. st[n + 1].frame.id = u.frame.id + 1
  BY <1>2, <1>4, <1>5, <1>6, SMTT(20) DEF InPlace
<1>8. st[n + 1] \in StreamUnits
  BY <1>2, ElementOfSeq
<1>9. st[n + 1].frame.id < FramesPerSegment
  BY <1>8, UnitFields
<1> QED
  BY <1>3, <1>7, <1>9, ClientAssumption

(* A connection lost cuts the stream behind what the parser has taken.      *)
LEMMA CutResult ==
  ASSUME NEW c, NEW tc, NEW ts, NEW sv, NEW lost, Sound(c, tc, ts, sv, lost),
         NEW d \in Clients, d.data = c.data, d.rx = <<>>, d.pending = c.pending,
         d.segmentId = c.segmentId, d.segmentBytes = c.segmentBytes,
         Position(d.player) = Position(c.player)
  PROVE  StreamSound(d, InStream(d, <<>>), <<>>, sv)
<1>1. /\ c \in Clients /\ StreamSound(c, InStream(c, tc), ts \o c.out, sv)
      /\ tc \in Seq(StreamUnits)
  BY SoundFields
<1>2. PICK data \in Seq(StreamUnits), rx \in Seq(StreamUnits) : data = c.data /\ rx = c.rx
  BY <1>1, ClientFields
<1>3. PartsFit(StreamUnits, data, rx, tc)
  BY <1>1, StreamParts
<1>4. PICK st \in Seq(StreamUnits) :
        /\ st = InStream(c, tc)
        /\ Len(st) = Len(data) + Len(rx) + Len(tc)
        /\ \A i \in 1 .. Len(data) : st[i] = data[i]
        /\ st = <<>> => data = <<>>
  BY <1>2, <1>3 DEF PartsFit, InStream
<1>5. Len(data) \in Nat /\ Len(rx) \in Nat /\ Len(tc) \in Nat /\ Len(st) \in Nat
  BY <1>1, LenProperties
<1>6. InStream(d, <<>>) = data
  <2>1. Joined(data, <<>>, <<>>) = data
    BY JoinedAlone
  <2> QED
    BY <1>2, <2>1 DEF InStream
<1>7. Requests(<<>>) = {}
  BY DEF Requests
<1>8. CASE ~ c.pending
  BY <1>1, <1>4, <1>6, <1>7, <1>8 DEF StreamSound
<1>9. CASE c.pending
  <2> DEFINE seg == c.segmentId - 1
             j == Position(c.player) - seg * FramesPerSegment
  <2>1. /\ j \in 0 .. FramesPerSegment /\ Aligned(st, seg, j)
        /\ Whole(st) => IsServed(sv, seg, c.segmentBytes + Len(st))
    BY <1>1, <1>4, <1>9 DEF StreamSound
  <2>2. d.segmentId - 1 = seg /\ Position(d.player) - seg * FramesPerSegment = j
    OBVIOUS
  <2> HIDE DEF seg, j
  <2>3. Aligned(data, seg, j)
    BY <1>4, <1>5, <2>1, AlignedPrefix
  <2>4. ASSUME Whole(data) PROVE IsServed(sv, seg, c.segmentBytes + Len(data))
    <3>1. data # <<>> /\ data[Len(data)].k = data[Len(data)].frame.size
          /\ data[Len(data)].frame.id = FramesPerSegment - 1
      BY <2>4 DEF Whole
    <3>2. Len(data) \in 1 .. Len(data) /\ Len(data) \in 1 .. Len(st)
      BY <1>4, <1>5, <3>1, EmptySeq
    <3>3. st[Len(data)] = data[Len(data)]
      BY <1>4, <3>2
    <3>4. Len(data) = Len(st)
      BY <2>1, <3>1, <3>2, <3>3, WholeIsAll
    <3>5. st # <<>>
      BY <1>4, <3>1
    <3>6. Whole(st)
      BY <3>1, <3>3, <3>4, <3>5 DEF Whole
    <3> QED
      BY <2>1, <3>4, <3>6
  <2>5. OneRequest(<<>>, seg)
    BY <1>7 DEF OneRequest
  <2> QED
    BY <1>6, <1>7, <1>9, <2>1, <2>2, <2>3, <2>4, <2>5 DEF StreamSound
<1> QED
  BY <1>8, <1>9

(* ConnectionLost, on a connection TCP gave up.                             *)
LEMMA LostResult ==
  ASSUME NEW c, NEW tc, NEW ts, NEW sv, NEW lost, Sound(c, tc, ts, sv, lost),
         c.socket # "NULL", ParserSettled(c), c.out = <<>>
  PROVE  LET d == ConnectionLost(c)
         IN  /\ Sound(d, <<>>, <<>>, sv, lost + 1) /\ ParserSettled(d)
             /\ Moves(c, d) /\ d.out = <<>>
<1>1. /\ c \in Clients /\ ClientSound(c, tc, ts \o c.out, sv, lost)
      /\ EventsSound(c, lost) /\ lost \in Nat /\ Position(c.player) \in Nat
      /\ c.delayed \in Nat
  BY SoundFields, ClientFields
<1> DEFINE x == <<>>
           d == [c EXCEPT !.socket = "SYN_SENT", !.connected = FALSE, !.rx = x]
<1>2. ConnectionLost(c) = d
  BY <1>1 DEF ConnectionLost, StartApplication, Clients
<1>3. x \in Seq(StreamUnits) /\ x = <<>>
  OBVIOUS
<1> HIDE DEF x
<1>4. /\ d \in Clients /\ d.player = c.player /\ d.data = c.data /\ d.rx = x
      /\ d.msgSize = c.msgSize /\ d.socket = "SYN_SENT" /\ d.connected = FALSE
      /\ d.pending = c.pending /\ d.segmentId = c.segmentId
      /\ d.segmentBytes = c.segmentBytes /\ d.measured = c.measured
      /\ d.delayed = c.delayed /\ d.out = c.out /\ d.aborted = c.aborted
  BY <1>1, <1>3 DEF Clients
<1> HIDE DEF d
<1>5. StreamSound(d, InStream(d, <<>>), <<>>, sv)
  BY <1>3, <1>4, CutResult
<1>6. EventsSound(d, lost + 1)
  BY <1>1, <1>4 DEF EventsSound
<1>7. <<>> \o d.out = <<>>
  BY <1>4
<1>8. ClientSound(d, <<>>, <<>> \o d.out, sv, lost + 1)
  BY <1>1, <1>4, <1>5, <1>6, <1>7 DEF ClientSound
<1>9. ParserSettled(d)
  BY <1>3, <1>4, SameParser
<1>10. Moves(c, d)
  BY <1>1, <1>4 DEF Moves
<1>11. lost + 1 \in Nat /\ <<>> \in Seq(StreamUnits) /\ <<>> \in Seq(ServerMessages)
  BY <1>1
<1> QED
  BY <1>2, <1>4, <1>8, <1>9, <1>10, <1>11 DEF Sound

(* StopApplication; a socket closed with data unread is reset and replaced. *)
StopLeaves(c, d, tc, ts, sv, lost) ==
  /\ d.out = c.out /\ ParserSettled(d) /\ Moves(c, d)
  /\ IF d.socket = "SYN_SENT" THEN Sound(d, <<>>, <<>>, sv, lost)
     ELSE Sound(d, tc, ts, sv, lost)

(* StopApplication leaves what is left of the segment, if the socket goes   *)
(* on sending, or a new connection.                                         *)
LEMMA StopResult ==
  ASSUME NEW c, NEW tc, NEW ts, NEW sv, NEW lost, Sound(c, tc, ts, sv, lost),
         c.socket # "NULL", ParserSettled(c), c.out = <<>>
  PROVE  StopLeaves(c, StopApplication(c), tc, ts, sv, lost)
<1>1. /\ c \in Clients /\ ClientSound(c, tc, ts \o c.out, sv, lost)
      /\ EventsSound(c, lost) /\ lost \in Nat /\ Position(c.player) \in Nat
      /\ StreamSound(c, InStream(c, tc), ts \o c.out, sv) /\ PlayerSound(c.player)
      /\ c.delayed \in Nat /\ tc \in Seq(StreamUnits) /\ ts \in Seq(ServerMessages)
  BY SoundFields, ClientFields
<1> DEFINE p == [c.player EXCEPT !.state = "DONE"]
<1>2. /\ p \in P!PlayerRecord /\ p.buffer = c.player.buffer /\ p.state = "DONE"
      /\ p.framesPlayed = c.player.framesPlayed /\ p.checks = c.player.checks
      /\ p.lastPaused = 0 /\ p.firstBuff = 0
  BY <1>1 DEF PlayerSound, P!PlayerRecord, P!PlayerStates
<1> HIDE DEF p
<1>3. PlayerSound(p) /\ Position(p) = Position(c.player)
  BY <1>1, <1>2, OtherMembers
<1> DEFINE Closed(s, x) ==
             [c EXCEPT !.player = p, !.socket = s, !.connected = FALSE, !.rx = x]
<1>4. ASSUME NEW s \in {"SYN_SENT", "CLOSING"}, NEW x \in Seq(StreamUnits),
             x = c.rx \/ x = <<>>
      PROVE  LET d == Closed(s, x)
             IN  /\ d \in Clients /\ d.player = p /\ d.data = c.data /\ d.rx = x
                 /\ d.msgSize = c.msgSize /\ d.socket = s /\ d.connected = FALSE
                 /\ d.pending = c.pending /\ d.segmentId = c.segmentId
                 /\ d.segmentBytes = c.segmentBytes /\ d.measured = c.measured
                 /\ d.delayed = c.delayed /\ d.out = c.out /\ d.aborted = c.aborted
                 /\ ParserSettled(d) /\ Moves(c, d)
  <2> DEFINE d == Closed(s, x)
  <2>1. /\ d \in Clients /\ d.player = p /\ d.data = c.data /\ d.rx = x
        /\ d.msgSize = c.msgSize /\ d.socket = s /\ d.connected = FALSE
        /\ d.pending = c.pending /\ d.segmentId = c.segmentId
        /\ d.segmentBytes = c.segmentBytes /\ d.measured = c.measured
        /\ d.delayed = c.delayed /\ d.out = c.out /\ d.aborted = c.aborted
    BY <1>1, <1>2, <1>4 DEF Clients
  <2> HIDE DEF d
  <2>2. ParserSettled(d)
    BY <1>2, <1>4, <2>1, SameParser
  <2>3. Moves(c, d)
    BY <1>1, <1>2, <1>3, <2>1 DEF Moves
  <2> QED
    BY <2>1, <2>2, <2>3 DEF d
<1>5. c.socket \in {"SYN_SENT", "ESTABLISHED", "CLOSING"}
  BY <1>1, ClientFields
<1>6. CASE c.socket = "SYN_SENT" \/ c.rx # <<>>
  <2> DEFINE x == <<>>
             d == Closed("SYN_SENT", x)
  <2>1. StopApplication(c) = d
    BY <1>1, <1>6 DEF StopApplication, CloseSocket, ConnectionLost, StartApplication, p, Clients
  <2>2. x \in Seq(StreamUnits) /\ x = <<>>
    OBVIOUS
  <2> HIDE DEF x
  <2>3. /\ d \in Clients /\ d.player = p /\ d.data = c.data /\ d.rx = x
        /\ d.msgSize = c.msgSize /\ d.socket = "SYN_SENT" /\ d.connected = FALSE
        /\ d.pending = c.pending /\ d.segmentId = c.segmentId
        /\ d.segmentBytes = c.segmentBytes /\ d.measured = c.measured
        /\ d.delayed = c.delayed /\ d.out = c.out /\ d.aborted = c.aborted
        /\ ParserSettled(d) /\ Moves(c, d)
    BY <1>4, <2>2
  <2> HIDE DEF d
  <2>4. c.socket # "SYN_SENT" => c.pending
    <3>1. c.rx # <<>> => InStream(c, tc) # <<>>
      BY NothingInStream
    <3> QED
      BY <1>1, <1>6, <3>1 DEF StreamSound
  <2>5. EventsSound(d, lost)
    BY <1>1, <1>2, <2>3, <2>4 DEF EventsSound
  <2>6. StreamSound(d, InStream(d, <<>>), <<>>, sv)
    BY <1>3, <2>2, <2>3, CutResult
  <2>7. <<>> \o d.out = <<>>
    BY <2>3
  <2>8. ClientSound(d, <<>>, <<>> \o d.out, sv, lost)
    BY <1>1, <1>3, <2>3, <2>5, <2>6, <2>7 DEF ClientSound
  <2>9. <<>> \in Seq(StreamUnits) /\ <<>> \in Seq(ServerMessages)
    OBVIOUS
  <2> QED
    BY <1>1, <2>1, <2>3, <2>8, <2>9 DEF StopLeaves, Sound
<1>7. CASE ~ (c.socket = "SYN_SENT" \/ c.rx # <<>>)
  <2> DEFINE x == c.rx
             d == Closed("CLOSING", x)
  <2>1. StopApplication(c) = d
    BY <1>1, <1>5, <1>7 DEF StopApplication, CloseSocket, p, Clients
  <2>2. x \in Seq(StreamUnits) /\ x = c.rx
    BY <1>1, ClientFields
  <2> HIDE DEF x
  <2>3. /\ d \in Clients /\ d.player = p /\ d.data = c.data /\ d.rx = x
        /\ d.msgSize = c.msgSize /\ d.socket = "CLOSING" /\ d.connected = FALSE
        /\ d.pending = c.pending /\ d.segmentId = c.segmentId
        /\ d.segmentBytes = c.segmentBytes /\ d.measured = c.measured
        /\ d.delayed = c.delayed /\ d.out = c.out /\ d.aborted = c.aborted
        /\ ParserSettled(d) /\ Moves(c, d)
    BY <1>4, <2>2
  <2> HIDE DEF d
  <2>4. EventsSound(d, lost)
    BY <1>1, <1>5, <1>7, <2>3 DEF EventsSound
  <2>5. InStream(d, tc) = InStream(c, tc)
    BY <2>2, <2>3 DEF InStream
  <2>6. StreamSound(d, InStream(d, tc), ts \o d.out, sv)
    BY <1>1, <1>3, <2>3, <2>5, SameSound
  <2>7. ClientSound(d, tc, ts \o d.out, sv, lost)
    BY <1>1, <1>3, <2>3, <2>4, <2>6 DEF ClientSound
  <2> QED
    BY <1>1, <2>1, <2>3, <2>7 DEF StopLeaves, Sound
<1> QED
  BY <1>6, <1>7

(* A delayed RequestSegment.                                                *)
LEMMA DelayedResult ==
  ASSUME NEW c, NEW tc, NEW ts, NEW sv, NEW lost, Sound(c, tc, ts, sv, lost),
         ParserSettled(c), c.delayed > 0
  PROVE  LET d == RequestSegment([c EXCEPT !.delayed = c.delayed - 1])
         IN  Sound(d, tc, ts, sv, lost) /\ ParserSettled(d) /\ Moves(c, d)
<1>1. /\ c \in Clients /\ ClientSound(c, tc, ts \o c.out, sv, lost)
      /\ EventsSound(c, lost) /\ lost \in Nat /\ Position(c.player) \in Nat
      /\ StreamSound(c, InStream(c, tc), ts \o c.out, sv) /\ c.delayed \in Nat
  BY SoundFields, ClientFields
<1> DEFINE n == c.delayed - 1
           e == [c EXCEPT !.delayed = n]
           d == RequestSegment(e)
<1>2. n \in Nat /\ n = c.delayed - 1
  BY <1>1
<1> HIDE DEF n
<1>3. /\ e \in Clients /\ e.player = c.player /\ e.data = c.data /\ e.rx = c.rx
      /\ e.msgSize = c.msgSize /\ e.socket = c.socket /\ e.connected = c.connected
      /\ e.pending = c.pending /\ e.segmentId = c.segmentId
      /\ e.segmentBytes = c.segmentBytes /\ e.measured = c.measured
      /\ e.delayed = n /\ e.out = c.out /\ e.aborted = c.aborted
  BY <1>1, <1>2 DEF Clients
<1>4. d = RequestSegment([c EXCEPT !.delayed = c.delayed - 1])
  BY <1>2
<1> HIDE DEF e
<1>5. InStream(e, tc) = InStream(c, tc)
  BY <1>3 DEF InStream
<1>6. StreamSound(e, InStream(e, tc), ts \o e.out, sv)
  BY <1>1, <1>3, <1>5, SameSound
<1>7. EventsSound(e, lost) /\ MayRequest(e, lost)
  BY <1>1, <1>2, <1>3 DEF EventsSound, MayRequest
<1>8. Sound(e, tc, ts, sv, lost)
  BY <1>1, <1>3, <1>6, <1>7, SoundFields DEF ClientSound, Sound
<1>9. Sound(d, tc, ts, sv, lost) /\ SameStream(e, d) /\ Asks(e, d, tc)
  BY <1>7, <1>8, RequestResult
<1> HIDE DEF d
<1>10. ParserSettled(d)
  BY <1>3, <1>9, SameParser DEF SameStream
<1>11. Moves(c, d)
  BY <1>1, <1>3, <1>9 DEF Moves, SameStream, Asks
<1> QED
  BY <1>4, <1>9, <1>10, <1>11

(* KeepAliveTimeout.                                                        *)
LEMMA KeepAliveResult ==
  ASSUME NEW c, NEW tc, NEW ts, NEW sv, NEW lost, Sound(c, tc, ts, sv, lost),
         ParserSettled(c), NEW b \in BOOLEAN
  PROVE  LET e == [c EXCEPT !.keepAlive = b]
             d == SendBlank(e)
         IN  /\ Sound(e, tc, ts, sv, lost) /\ e.data = c.data /\ e.rx = c.rx
             /\ e.msgSize = c.msgSize /\ e.player = c.player /\ e.segmentId = c.segmentId
             /\ Sound(d, tc, ts, sv, lost) /\ ParserSettled(d) /\ Moves(c, d)
<1>1. /\ c \in Clients /\ ClientSound(c, tc, ts \o c.out, sv, lost)
      /\ EventsSound(c, lost) /\ Position(c.player) \in Nat
      /\ StreamSound(c, InStream(c, tc), ts \o c.out, sv)
  BY SoundFields
<1> DEFINE e == [c EXCEPT !.keepAlive = b]
           d == SendBlank(e)
<1>2. /\ e \in Clients /\ e.player = c.player /\ e.data = c.data /\ e.rx = c.rx
      /\ e.msgSize = c.msgSize /\ e.socket = c.socket /\ e.connected = c.connected
      /\ e.pending = c.pending /\ e.segmentId = c.segmentId
      /\ e.segmentBytes = c.segmentBytes /\ e.measured = c.measured
      /\ e.delayed = c.delayed /\ e.out = c.out /\ e.aborted = c.aborted
  BY <1>1 DEF Clients
<1> HIDE DEF e
<1>3. InStream(e, tc) = InStream(c, tc)
  BY <1>2 DEF InStream
<1>4. StreamSound(e, InStream(e, tc), ts \o e.out, sv)
  BY <1>1, <1>2, <1>3, SameSound
<1>5. EventsSound(e, lost)
  BY <1>1, <1>2 DEF EventsSound
<1>6. Sound(e, tc, ts, sv, lost)
  BY <1>1, <1>2, <1>4, <1>5, SoundFields DEF ClientSound, Sound
<1>7. Sound(d, tc, ts, sv, lost) /\ SameStream(e, d) /\ d.segmentId = e.segmentId
  BY <1>6, SendBlankResult
<1> HIDE DEF d
<1>8. ParserSettled(d)
  BY <1>2, <1>7, SameParser DEF SameStream
<1>9. Moves(c, d)
  BY <1>1, <1>2, <1>7 DEF Moves, SameStream
<1> QED
  BY <1>2, <1>6, <1>7, <1>8, <1>9 DEF e, d

(* A PlayFrame event.                                                       *)
LEMMA PlayResult ==
  ASSUME NEW c, NEW tc, NEW ts, NEW sv, NEW lost, Sound(c, tc, ts, sv, lost),
         ParserSettled(c), c.player.wakeups # <<>>
  PROVE  LET d == [c EXCEPT !.player = P!PlayFrame(P!Unschedule(c.player, 1), 0)]
         IN  Sound(d, tc, ts, sv, lost) /\ ParserSettled(d) /\ Moves(c, d)
<1>1. PlayerSound(c.player) /\ c.player \in P!PlayerRecord /\ Position(c.player) \in Nat
  BY SoundFields DEF PlayerSound
<1>2. c.player.framesPlayed \in Nat /\ c.player.checks \in Nat
  BY <1>1, PlayerFields
<1> DEFINE q == P!Unschedule(c.player, 1)
           p == P!PlayFrame(q, 0)
           d == [c EXCEPT !.player = p]
<1>3. /\ PlayerSound(q) /\ Position(q) = Position(c.player)
      /\ q.buffer = c.player.buffer /\ q.framesPlayed = c.player.framesPlayed
      /\ q.checks = c.player.checks /\ q.state = c.player.state
  BY <1>1, UnscheduleResult
<1> HIDE DEF q
<1>4. Shows(q, p)
  BY <1>3, PlayFrameResult
<1> HIDE DEF p
<1>5. /\ PlayerSound(p) /\ Position(p) = Position(c.player)
      /\ p.state = "DONE" <=> c.player.state = "DONE"
      /\ \/ p.framesPlayed = c.player.framesPlayed /\ p.buffer = c.player.buffer
            /\ p.checks = c.player.checks
         \/ p.framesPlayed = c.player.framesPlayed + 1 /\ p.checks = c.player.checks + 1
  BY <1>3, <1>4 DEF Shows
<1>6. /\ Sound(d, tc, ts, sv, lost) /\ d.player = p /\ d.data = c.data
      /\ d.rx = c.rx /\ d.msgSize = c.msgSize /\ d.segmentId = c.segmentId
  BY <1>5, PlayerResult
<1> HIDE DEF d
<1>7. ParserSettled(d)
  BY <1>2, <1>5, <1>6, SameParser
<1>8. Moves(c, d)
  BY <1>1, <1>5, <1>6 DEF Moves
<1> QED
  BY <1>6, <1>7, <1>8 DEF d, p, q

(* What the parser does is what one event may do.                           *)
LEMMA ReadMoves ==
  ASSUME NEW c, NEW e, NEW d, NEW tc, Progress(e, d, tc), Settled(d),
         Position(e.player) = Position(c.player), e.segmentId = c.segmentId,
         e.player.framesPlayed = c.player.framesPlayed
  PROVE  Moves(c, d) /\ ParserSettled(d)
BY DEF Progress, Resumes, Moves, Settled, ParserSettled, NotForgotten

(* CheckBuffer.                                                             *)
LEMMA CheckResult ==
  ASSUME NEW c, NEW tc, NEW ts, NEW sv, NEW lost, Sound(c, tc, ts, sv, lost),
         ParserSettled(c), c.player.checks > 0, NEW next \in Choices
  PROVE  LET p == [c.player EXCEPT !.checks = c.player.checks - 1]
             d == ReadSocket([c EXCEPT !.player = p], next)
         IN  /\ Sound(d, tc, ts, sv, lost) /\ ParserSettled(d) /\ Moves(c, d)
             /\ Receives(c, d, c.rx)
<1> DEFINE p == [c.player EXCEPT !.checks = c.player.checks - 1]
           e == [c EXCEPT !.player = p]
           d == ReadSocket(e, next)
<1>1. PlayerSound(c.player) /\ c.player \in P!PlayerRecord
  BY SoundFields DEF PlayerSound
<1>2. c.player.checks - 1 \in Nat
  BY <1>1, PlayerFields
<1>3. /\ p \in P!PlayerRecord /\ p.buffer = c.player.buffer /\ p.state = c.player.state
      /\ p.framesPlayed = c.player.framesPlayed /\ p.lastPaused = 0 /\ p.firstBuff = 0
  BY <1>1, <1>2 DEF PlayerSound, P!PlayerRecord
<1> HIDE DEF p
<1>4. PlayerSound(p) /\ Position(p) = Position(c.player)
  BY <1>1, <1>3, OtherMembers
<1>5. /\ Sound(e, tc, ts, sv, lost) /\ e.player = p /\ e.data = c.data
      /\ e.rx = c.rx /\ e.msgSize = c.msgSize /\ e.segmentId = c.segmentId
      /\ e.socket = c.socket
  BY <1>3, <1>4, PlayerResult
<1> HIDE DEF e
<1>6. ReadyToRead(e)
  BY <1>5 DEF ReadyToRead, ParserSettled, ParserSound
<1>7. /\ Sound(d, tc, ts, sv, lost) /\ Progress(e, d, tc) /\ Settled(d)
      /\ Reads(e, d)
  BY <1>5, <1>6, ReadResult
<1> HIDE DEF d
<1>8. Moves(c, d) /\ ParserSettled(d)
  BY <1>3, <1>4, <1>5, <1>7, ReadMoves
<1>9. Receives(c, d, c.rx)
  BY <1>5, <1>7 DEF Receives, Reads, Progress
<1> QED
  BY <1>7, <1>8, <1>9 DEF d, e, p

(* Data from TCP.                                                           *)
LEMMA DeliverResult ==
  ASSUME NEW c, NEW tc, NEW ts, NEW sv, NEW lost, Sound(c, tc, ts, sv, lost),
         ParserSettled(c), NEW n \in Nat, n <= Len(tc), Len(c.rx) + n <= RxCapacity,
         c.msgSize = 0 => n >= HeaderSize, NEW next \in Choices
  PROVE  LET d == HandleRead([c EXCEPT !.rx = c.rx \o SubSeq(tc, 1, n)], next)
         IN  /\ Sound(d, SubSeq(tc, n + 1, Len(tc)), ts, sv, lost)
             /\ ParserSettled(d) /\ Moves(c, d)
             /\ Receives(c, d, c.rx \o SubSeq(tc, 1, n))
<1>1. /\ c \in Clients /\ ClientSound(c, tc, ts \o c.out, sv, lost)
      /\ EventsSound(c, lost) /\ lost \in Nat
      /\ StreamSound(c, InStream(c, tc), ts \o c.out, sv)
      /\ tc \in Seq(StreamUnits)
  BY SoundFields
<1>2. c.data \in Seq(StreamUnits) /\ c.rx \in Seq(StreamUnits)
  BY <1>1, ClientFields
<1> DEFINE x == c.rx \o SubSeq(tc, 1, n)
           t == SubSeq(tc, n + 1, Len(tc))
           f == [c EXCEPT !.rx = x]
           e == [f EXCEPT !.keepAlive = TRUE]
           d == ReadSocket(e, next)
<1>3. UnitsMoved(StreamUnits, c.data, c.rx, tc, n)
  BY <1>1, <1>2, MoveUnits
<1>4. /\ x \in Seq(StreamUnits) /\ Len(x) = Len(c.rx) + n /\ t \in Seq(StreamUnits)
      /\ Joined(c.data, x, t) = InStream(c, tc)
  BY <1>3 DEF UnitsMoved, InStream, UpTo, Behind
<1>5. HandleRead(f, next) = d
  BY DEF HandleRead
<1> HIDE DEF x, t
<1>6. /\ f \in Clients /\ f.player = c.player /\ f.data = c.data /\ f.rx = x
      /\ f.msgSize = c.msgSize /\ f.socket = c.socket /\ f.connected = c.connected
      /\ f.pending = c.pending /\ f.segmentId = c.segmentId
      /\ f.segmentBytes = c.segmentBytes /\ f.measured = c.measured
      /\ f.delayed = c.delayed /\ f.out = c.out /\ f.aborted = c.aborted
  BY <1>1, <1>4 DEF Clients
<1> HIDE DEF f
<1>7. InStream(f, t) = InStream(c, tc)
  BY <1>4, <1>6 DEF InStream
<1>8. StreamSound(f, InStream(f, t), ts \o f.out, sv)
  BY <1>1, <1>6, <1>7, SameSound
<1>9. EventsSound(f, lost)
  BY <1>1, <1>6 DEF EventsSound
<1>10. ClientSound(f, t, ts \o f.out, sv, lost)
  BY <1>1, <1>6, <1>8, <1>9 DEF ClientSound
<1>11. Sound(f, t, ts, sv, lost)
  BY <1>4, <1>10, SoundFields DEF Sound
<1>12. /\ e \in Clients /\ e.player = c.player /\ e.data = c.data /\ e.rx = x
       /\ e.msgSize = c.msgSize /\ e.socket = c.socket /\ e.connected = c.connected
       /\ e.pending = c.pending /\ e.segmentId = c.segmentId
       /\ e.segmentBytes = c.segmentBytes /\ e.measured = c.measured
       /\ e.delayed = c.delayed /\ e.out = c.out /\ e.aborted = c.aborted
  BY <1>6 DEF Clients
<1> HIDE DEF e
<1>13. InStream(e, t) = InStream(f, t)
  BY <1>6, <1>12 DEF InStream
<1>14. StreamSound(e, InStream(e, t), ts \o e.out, sv)
  BY <1>6, <1>8, <1>12, <1>13, SameSound
<1>15. EventsSound(e, lost)
  BY <1>1, <1>12 DEF EventsSound
<1>16. ClientSound(e, t, ts \o e.out, sv, lost)
  BY <1>1, <1>12, <1>14, <1>15 DEF ClientSound
<1>17. Sound(e, t, ts, sv, lost)
  BY <1>4, <1>16, SoundFields DEF Sound
<1>18. ReadyToRead(e)
  <2>1. PICK rx \in Seq(StreamUnits) : rx = c.rx
    BY <1>2
  <2>2. Len(rx) \in Nat /\ HeaderSize \in Nat /\ RxCapacity \in Nat
    BY LenProperties, ClientAssumption
  <2>3. Len(x) <= RxCapacity
    BY <1>4
  <2>4. c.msgSize = 0 => c.data = <<>> /\ Len(x) >= HeaderSize
    BY <1>4, <2>1, <2>2 DEF ParserSettled, ParserSound
  <2> QED
    BY <1>12, <2>3, <2>4 DEF ReadyToRead, ParserSettled
<1>19. Sound(d, t, ts, sv, lost) /\ Progress(e, d, t) /\ Settled(d) /\ Reads(e, d)
  BY <1>17, <1>18, ReadResult
<1> HIDE DEF d
<1>20. Moves(c, d) /\ ParserSettled(d)
  BY <1>12, <1>19, ReadMoves
<1>21. Receives(c, d, x)
  BY <1>12, <1>19 DEF Receives, Reads, Progress
<1> QED
  BY <1>5, <1>19, <1>20, <1>21 DEF t, x, f

-----------------------------------------------------------------------------
(* What the server leaves. *)

(* A message read and not answered.                                         *)
LEMMA UnansweredResult ==
  ASSUME NEW c, NEW tc, NEW ts, NEW sv, NEW lost, Sound(c, tc, ts, sv, lost),
         c.out = <<>>, ts # <<>>
  PROVE  Sound(c, tc, Tail(ts), sv, lost)
<1>1. /\ c \in Clients /\ ClientSound(c, tc, ts \o c.out, sv, lost)
      /\ StreamSound(c, InStream(c, tc), ts \o c.out, sv)
      /\ ts \in Seq(ServerMessages)
  BY SoundFields
<1>2. TailRequests(ts)
  BY <1>1, RequestsTail
<1>3. PICK q \in Seq(ServerMessages) : q = Tail(ts)
  BY <1>2 DEF TailRequests
<1>4. ts \o c.out = ts /\ q \o c.out = q
  BY <1>1, ConcatEmptySeq
<1>5. \A i \in Requests(q) : i \in Int /\ i + 1 \in Requests(ts) /\ q[i] = ts[i + 1]
  BY <1>2, <1>3 DEF TailRequests, Requests
<1>6. StreamSound(c, InStream(c, tc), ts, sv)
  BY <1>1, <1>4
<1>7. ASSUME NEW s, OneRequest(ts, s) PROVE OneRequest(q, s)
  BY <1>5, <1>7 DEF OneRequest
<1>8. Requests(ts) = {} => Requests(q) = {}
  BY <1>5
<1>9. StreamSound(c, InStream(c, tc), q, sv)
  <2>1. CASE c.pending
    <3> DEFINE seg == c.segmentId - 1
               j == Position(c.player) - seg * FramesPerSegment
               st == InStream(c, tc)
    <3>1. /\ j \in 0 .. FramesPerSegment /\ Aligned(st, seg, j)
          /\ Requests(ts) # {} => j = 0 /\ st = <<>> /\ c.segmentBytes = 0
          /\ OneRequest(ts, seg)
          /\ Whole(st) => IsServed(sv, seg, c.segmentBytes + Len(st))
      BY <1>6, <2>1 DEF StreamSound
    <3>2. OneRequest(q, seg)
      BY <1>7, <3>1
    <3> HIDE DEF j, st
    <3>3. Requests(q) # {} => j = 0 /\ st = <<>> /\ c.segmentBytes = 0
      BY <1>8, <3>1
    <3> QED
      BY <2>1, <3>1, <3>2, <3>3 DEF StreamSound, j, st
  <2>2. CASE ~ c.pending
    BY <1>6, <1>8, <2>2 DEF StreamSound
  <2> QED
    BY <2>1, <2>2
<1>10. ClientSound(c, tc, q \o c.out, sv, lost)
  BY <1>1, <1>4, <1>9 DEF ClientSound
<1> QED
  BY <1>3, <1>10, SoundFields DEF Sound

(* A request answered with the frames of its segment.                       *)
LEMMA AnsweredResult ==
  ASSUME NEW c, NEW tc, NEW ts, NEW sv \in Seq(Answered), NEW lost,
         Sound(c, tc, ts, sv, lost), c.out = <<>>, ts # <<>>,
         Head(ts).kind = "REQUEST", Head(ts).seg < MaxSegments,
         NEW size \in [0 .. FramesPerSegment - 1 -> Sizes]
  PROVE  LET units == Segment(Head(ts), size)
             sw == Append(sv, [seg |-> Head(ts).seg, bytes |-> Len(units)])
         IN  Sound(c, tc \o units, Tail(ts), sw, lost) /\ sw \in Seq(Answered)
<1>1. /\ c \in Clients /\ ClientSound(c, tc, ts \o c.out, sv, lost)
      /\ StreamSound(c, InStream(c, tc), ts \o c.out, sv)
      /\ ts \in Seq(ServerMessages) /\ lost \in Nat
  BY SoundFields
<1>2. TailRequests(ts)
  BY <1>1, RequestsTail
<1>3. PICK q \in Seq(ServerMessages), r \in ServerMessages : q = Tail(ts) /\ r = Head(ts)
  BY <1>2 DEF TailRequests
<1>4. ts \o c.out = ts /\ q \o c.out = q
  BY <1>1, ConcatEmptySeq
<1>5. /\ 1 \in Requests(ts) /\ ts[1] = r
      /\ \A i \in Requests(q) : i + 1 \in Requests(ts) /\ i + 1 # 1
  BY <1>2, <1>3 DEF TailRequests
<1>6. /\ c.pending
      /\ LET seg == c.segmentId - 1
         IN  /\ Position(c.player) - seg * FramesPerSegment = 0
             /\ InStream(c, tc) = <<>> /\ c.segmentBytes = 0 /\ OneRequest(ts, seg)
  BY <1>1, <1>4, <1>5 DEF StreamSound
<1>7. r.seg = c.segmentId - 1 /\ Requests(q) = {}
  BY <1>5, <1>6 DEF OneRequest
<1>8. r.seg \in 0 .. MaxSegments - 1 /\ r.rate \in Rates
  <2>1. r.seg \in Nat /\ r.kind = "REQUEST"
    BY <1>3, ClientAssumption DEF ServerMessages
  <2> QED
    BY <1>3, <2>1, ClientAssumption DEF ServerMessages
<1>9. PICK units \in Seq(StreamUnits) :
        units = Segment(r, size) /\ Aligned(units, r.seg, 0)
  BY <1>8, SegmentResult
<1>10. PICK n \in Nat : n = Len(units)
  BY LenProperties
<1>11. c.data = <<>> /\ c.rx = <<>> /\ tc = <<>>
  BY <1>6, NothingInStream
<1>12. tc \o units = units
  BY <1>11, ConcatEmptySeq
<1>13. InStream(c, units) = units
  <2>1. Joined(<<>>, <<>>, units) = units
    BY JoinedAlone
  <2> QED
    BY <1>11, <2>1 DEF InStream
<1> DEFINE a == [seg |-> r.seg, bytes |-> n]
<1>14. a \in Answered
  BY <1>8 DEF Answered
<1>15. a = [seg |-> r.seg, bytes |-> n]
  OBVIOUS
<1> HIDE DEF a
<1>16. PICK sw \in Seq(Answered) : sw = Append(sv, a)
  BY <1>14, AppendProperties
<1>17. PICK l \in Nat : l = Len(sv) /\ Len(sw) = l + 1
  BY <1>14, <1>16, AppendProperties, LenProperties, SMTT(30)
<1>18. (\A i \in 1 .. l : sw[i] = sv[i]) /\ sw[l + 1] = a
  BY <1>14, <1>16, <1>17, AppendProperties
<1>19. IsServed(sw, r.seg, n)
  <2>1. l + 1 \in 1 .. Len(sw)
    BY <1>17
  <2> QED
    BY <1>15, <1>18, <2>1 DEF IsServed
<1>20. c.measured.seg # -1 => \E i \in 1 .. Len(sw) : sw[i] = c.measured
  <2>1. ASSUME NEW i \in 1 .. l PROVE i \in 1 .. Len(sw) /\ sw[i] = sv[i]
    BY <1>17, <1>18
  <2>2. c.measured.seg # -1 => \E i \in 1 .. l : sv[i] = c.measured
    BY <1>1, <1>17 DEF ClientSound
  <2> QED
    BY <2>1, <2>2
<1>21. StreamSound(c, units, q, sw)
  <2>1. 0 \in 0 .. FramesPerSegment
    BY ClientAssumption
  <2>2. 0 + n = n /\ c.segmentBytes + Len(units) = n
    BY <1>6, <1>10
  <2>3. OneRequest(q, c.segmentId - 1)
    BY <1>7 DEF OneRequest
  <2>4. Whole(units) => IsServed(sw, c.segmentId - 1, c.segmentBytes + Len(units))
    BY <1>7, <1>19, <2>2
  <2>5. Aligned(units, c.segmentId - 1, Position(c.player) - (c.segmentId - 1) * FramesPerSegment)
    BY <1>6, <1>7, <1>9
  <2> QED
    BY <1>6, <1>7, <2>1, <2>3, <2>4, <2>5 DEF StreamSound
<1>22. ClientSound(c, units, q \o c.out, sw, lost)
  BY <1>1, <1>4, <1>13, <1>20, <1>21 DEF ClientSound
<1>23. Sound(c, units, q, sw, lost)
  BY <1>1, <1>22 DEF Sound
<1>24. sw = Append(sv, [seg |-> Head(ts).seg, bytes |-> Len(Segment(Head(ts), size))])
  BY <1>3, <1>9, <1>10, <1>15, <1>16
<1> QED
  BY <1>3, <1>9, <1>12, <1>23, <1>24

-----------------------------------------------------------------------------
(* The events. *)

(* An event that leaves the client as c, but for what it sends.             *)
LEMMA Becoming ==
  ASSUME Inv, NEW c, NEW tc, Sound(c, tc, toServer, served, losses),
         ParserSettled(c), Moves(client, c), Becomes(c), toClient' = tc,
         served' = served, losses' = losses, stopped' \in BOOLEAN
  PROVE  Inv' /\ Moves(client, client')
<1>1. PICK d : d = [c EXCEPT !.out = <<>>]
  OBVIOUS
<1>2. client' = d /\ toServer' = toServer \o c.out /\ unacked' \in BOOLEAN
  BY <1>1 DEF Becomes, Inv
<1>3. /\ Sound(d, tc, toServer \o c.out, served, losses) /\ d.out = <<>>
      /\ d.player = c.player /\ d.segmentId = c.segmentId /\ ParserSettled(d)
  BY <1>1, SentResult
<1>4. Moves(client, d)
  BY <1>3 DEF Moves
<1>5. Sound(client', toClient', toServer', served', losses')
  BY <1>2, <1>3
<1>6. client'.out = <<>> /\ ParserSettled(client')
  BY <1>2, <1>3
<1>7. losses' <= MaxLosses /\ served' \in Seq(Answered)
  BY DEF Inv
<1>8. Inv'
  BY <1>2, <1>5, <1>6, <1>7 DEF Inv
<1> QED
  BY <1>2, <1>4, <1>8

(* The client is as it was.                                                 *)
LEMMA StandsStill ==
  ASSUME Inv, client' = client
  PROVE  Moves(client, client')
<1>1. Position(client.player) \in Nat
  BY SoundFields DEF Inv
<1> QED
  BY <1>1 DEF Moves

(* Every event keeps the invariant, and moves the client on.                *)
Kept == Inv' /\ Moves(client, client')

(* Start keeps the invariant.                                               *)
LEMMA InvStart == ASSUME Inv, Start PROVE Kept
<1>1. Sound(client, toClient, toServer, served, losses) /\ ParserSettled(client)
  BY DEF Inv
<1>2. PICK c : c = StartApplication(client)
  OBVIOUS
<1>3. Sound(c, toClient, toServer, served, losses) /\ ParserSettled(c) /\ Moves(client, c)
  BY <1>1, <1>2, StartResult DEF Start
<1>4. /\ Becomes(c) /\ toClient' = toClient /\ served' = served /\ losses' = losses
      /\ stopped' \in BOOLEAN
  BY <1>2 DEF Start, Inv
<1> QED
  BY <1>3, <1>4, Becoming DEF Kept

(* Stop keeps the invariant.                                                *)
LEMMA InvStop == ASSUME Inv, Stop PROVE Kept
<1>1. /\ Sound(client, toClient, toServer, served, losses) /\ ParserSettled(client)
      /\ client.out = <<>> /\ client.socket # "NULL"
  BY DEF Inv, Stop
<1>2. PICK c : c = StopApplication(client)
  OBVIOUS
<1>3. StopLeaves(client, c, toClient, toServer, served, losses)
  BY <1>1, <1>2, StopResult
<1>4. served' = served /\ losses' = losses /\ stopped' \in BOOLEAN
  BY DEF Stop
<1>5. CASE c.socket = "SYN_SENT"
  <2>1. client' = c /\ toServer' = <<>> /\ toClient' = <<>> /\ unacked' = FALSE
    BY <1>2, <1>5 DEF Stop, Reconnects
  <2>2. /\ Sound(c, <<>>, <<>>, served, losses) /\ ParserSettled(c)
        /\ Moves(client, c) /\ c.out = <<>>
    BY <1>1, <1>3, <1>5 DEF StopLeaves
  <2>3. Sound(client', toClient', toServer', served', losses')
    BY <1>4, <2>1, <2>2
  <2>4. Inv'
    BY <1>4, <2>1, <2>2, <2>3 DEF Inv
  <2> QED
    BY <2>1, <2>2, <2>4 DEF Kept
<1>6. CASE c.socket # "SYN_SENT"
  <2>1. Becomes(c) /\ toClient' = toClient
    BY <1>2, <1>6 DEF Stop
  <2>2. /\ Sound(c, toClient, toServer, served, losses) /\ ParserSettled(c)
        /\ Moves(client, c)
    BY <1>3, <1>6 DEF StopLeaves
  <2> QED
    BY <1>4, <2>1, <2>2, Becoming DEF Kept
<1> QED
  BY <1>5, <1>6

(* Connected keeps the invariant.                                           *)
LEMMA InvConnected == ASSUME Inv, Connected PROVE Kept
<1>1. Sound(client, toClient, toServer, served, losses) /\ ParserSettled(client)
  BY DEF Inv
<1>2. PICK c : c = ConnectionSucceeded(client)
  OBVIOUS
<1>3. Sound(c, toClient, toServer, served, losses) /\ ParserSettled(c) /\ Moves(client, c)
  BY <1>1, <1>2, ConnectedResult DEF Connected
<1>4. /\ Becomes(c) /\ toClient' = toClient /\ served' = served /\ losses' = losses
      /\ stopped' \in BOOLEAN
  BY <1>2 DEF Connected, Inv
<1> QED
  BY <1>3, <1>4, Becoming DEF Kept

(* GivesUp keeps the invariant.                                             *)
LEMMA InvGivesUp == ASSUME Inv, GivesUp PROVE Kept
<1>1. /\ Sound(client, toClient, toServer, served, losses) /\ ParserSettled(client)
      /\ client.out = <<>> /\ losses \in Nat /\ losses < MaxLosses
      /\ client.socket # "NULL"
  BY SoundFields DEF Inv, GivesUp
<1>2. PICK c : c = ConnectionLost(client)
  OBVIOUS
<1>3. /\ Sound(c, <<>>, <<>>, served, losses + 1) /\ ParserSettled(c)
      /\ Moves(client, c) /\ c.out = <<>>
  BY <1>1, <1>2, LostResult
<1>4. /\ client' = c /\ toServer' = <<>> /\ toClient' = <<>> /\ unacked' = FALSE
      /\ served' = served /\ losses' = losses + 1 /\ stopped' = stopped
  BY <1>2 DEF GivesUp, Reconnects
<1>5. Sound(client', toClient', toServer', served', losses')
  BY <1>3, <1>4
<1>6. losses' <= MaxLosses
  BY <1>1, <1>4, ClientAssumption
<1>7. Inv'
  BY <1>3, <1>4, <1>5, <1>6 DEF Inv
<1> QED
  BY <1>3, <1>4, <1>7 DEF Kept

(* Acknowledge keeps the invariant.                                         *)
LEMMA InvAcknowledge == ASSUME Inv, Acknowledge PROVE Kept
<1>1. /\ client' = client /\ toServer' = toServer /\ toClient' = toClient
      /\ served' = served /\ losses' = losses /\ stopped' = stopped /\ unacked' = FALSE
  BY DEF Acknowledge
<1>2. Inv'
  BY <1>1 DEF Inv
<1> QED
  BY <1>1, <1>2, StandsStill DEF Kept

(* Serve keeps the invariant.                                               *)
LEMMA InvServe == ASSUME Inv, Serve PROVE Kept
<1>1. /\ Sound(client, toClient, toServer, served, losses) /\ client.out = <<>>
      /\ served \in Seq(Answered) /\ toServer # <<>>
  BY DEF Inv, Serve
<1>2. /\ client' = client /\ toServer' = Tail(toServer) /\ unacked' = unacked
      /\ losses' = losses /\ stopped' = stopped
  BY DEF Serve
<1>3. ASSUME Sound(client, toClient', Tail(toServer), served', losses),
             served' \in Seq(Answered)
      PROVE  Kept
  <2>1. Sound(client', toClient', toServer', served', losses')
    BY <1>2, <1>3
  <2>2. Inv'
    BY <1>2, <1>3, <2>1 DEF Inv
  <2> QED
    BY <1>2, <2>2, StandsStill DEF Kept
<1>4. CASE Head(toServer).kind = "REQUEST" /\ Head(toServer).seg < MaxSegments
  <2>1. PICK size \in [0 .. FramesPerSegment - 1 -> Sizes] :
          /\ toClient' = toClient \o Segment(Head(toServer), size)
          /\ served' = Append(served, [seg |-> Head(toServer).seg,
                                       bytes |-> Len(Segment(Head(toServer), size))])
    BY <1>4 DEF Serve
  <2>2. Sound(client, toClient', Tail(toServer), served', losses) /\ served' \in Seq(Answered)
    BY <1>1, <1>4, <2>1, AnsweredResult
  <2> QED
    BY <1>3, <2>2
<1>5. CASE ~ (Head(toServer).kind = "REQUEST" /\ Head(toServer).seg < MaxSegments)
  <2>1. toClient' = toClient /\ served' = served
    BY <1>5 DEF Serve
  <2>2. Sound(client, toClient, Tail(toServer), served, losses)
    BY <1>1, UnansweredResult
  <2> QED
    BY <1>1, <1>3, <2>1, <2>2
<1> QED
  BY <1>4, <1>5

(* DeliverSome keeps the invariant.                                         *)
LEMMA InvDeliver == ASSUME Inv, DeliverSome PROVE Kept
<1>1. Sound(client, toClient, toServer, served, losses) /\ ParserSettled(client)
  BY DEF Inv
<1>2. PICK n \in 1 .. RxCapacity : Deliver(n)
  BY DEF DeliverSome
<1>3. PICK next \in Choices :
        Becomes(HandleRead([client EXCEPT !.rx = client.rx \o SubSeq(toClient, 1, n)], next))
  BY <1>2 DEF Deliver
<1>4. PICK c : c = HandleRead([client EXCEPT !.rx = client.rx \o SubSeq(toClient, 1, n)], next)
  OBVIOUS
<1>5. PICK tc : tc = SubSeq(toClient, n + 1, Len(toClient))
  OBVIOUS
<1>6. /\ n \in Nat /\ n <= Len(toClient) /\ Len(client.rx) + n <= RxCapacity
      /\ client.msgSize = 0 => n >= HeaderSize
  BY <1>2, ClientAssumption DEF Deliver
<1>7. Sound(c, tc, toServer, served, losses) /\ ParserSettled(c) /\ Moves(client, c)
  BY <1>1, <1>4, <1>5, <1>6, DeliverResult
<1>8. /\ Becomes(c) /\ toClient' = tc /\ served' = served /\ losses' = losses
      /\ stopped' \in BOOLEAN
  BY <1>2, <1>3, <1>4, <1>5 DEF Deliver, Inv
<1> QED
  BY <1>7, <1>8, Becoming DEF Kept

(* FirePlayFrame keeps the invariant.                                       *)
LEMMA InvPlayFrame == ASSUME Inv, FirePlayFrame PROVE Kept
<1>1. /\ Sound(client, toClient, toServer, served, losses) /\ ParserSettled(client)
      /\ client.player.wakeups # <<>>
  BY DEF Inv, FirePlayFrame
<1>2. PICK c : c = [client EXCEPT !.player = P!PlayFrame(P!Unschedule(client.player, 1), 0)]
  OBVIOUS
<1>3. Sound(c, toClient, toServer, served, losses) /\ ParserSettled(c) /\ Moves(client, c)
  BY <1>1, <1>2, PlayResult
<1>4. /\ Becomes(c) /\ toClient' = toClient /\ served' = served /\ losses' = losses
      /\ stopped' \in BOOLEAN
  BY <1>2 DEF FirePlayFrame, Inv
<1> QED
  BY <1>3, <1>4, Becoming DEF Kept

(* FireCheckBuffer keeps the invariant.                                     *)
LEMMA InvCheckBuffer == ASSUME Inv, FireCheckBuffer PROVE Kept
<1>1. /\ Sound(client, toClient, toServer, served, losses) /\ ParserSettled(client)
      /\ client.player.checks > 0
  BY DEF Inv, FireCheckBuffer
<1>2. PICK next \in Choices :
        Becomes(ReadSocket([client EXCEPT !.player.checks = @ - 1], next))
  BY DEF FireCheckBuffer
<1>3. PICK c : c = ReadSocket([client EXCEPT !.player =
                     [client.player EXCEPT !.checks = client.player.checks - 1]], next)
  OBVIOUS
<1>4. c = ReadSocket([client EXCEPT !.player.checks = @ - 1], next)
  BY <1>3
<1>5. Sound(c, toClient, toServer, served, losses) /\ ParserSettled(c) /\ Moves(client, c)
  BY <1>1, <1>3, CheckResult
<1>6. /\ Becomes(c) /\ toClient' = toClient /\ served' = served /\ losses' = losses
      /\ stopped' \in BOOLEAN
  BY <1>2, <1>4 DEF FireCheckBuffer, Inv
<1> QED
  BY <1>5, <1>6, Becoming DEF Kept

(* FireRequestSegment keeps the invariant.                                  *)
LEMMA InvRequestSegment == ASSUME Inv, FireRequestSegment PROVE Kept
<1>1. /\ Sound(client, toClient, toServer, served, losses) /\ ParserSettled(client)
      /\ client.delayed > 0
  BY DEF Inv, FireRequestSegment
<1>2. PICK c : c = RequestSegment([client EXCEPT !.delayed = client.delayed - 1])
  OBVIOUS
<1>3. Sound(c, toClient, toServer, served, losses) /\ ParserSettled(c) /\ Moves(client, c)
  BY <1>1, <1>2, DelayedResult
<1>4. /\ Becomes(c) /\ toClient' = toClient /\ served' = served /\ losses' = losses
      /\ stopped' \in BOOLEAN
  BY <1>2 DEF FireRequestSegment, Inv
<1> QED
  BY <1>3, <1>4, Becoming DEF Kept

(* FireKeepAlive keeps the invariant.                                       *)
LEMMA InvKeepAlive == ASSUME Inv, FireKeepAlive PROVE Kept
<1>1. Sound(client, toClient, toServer, served, losses) /\ ParserSettled(client)
  BY DEF Inv
<1>2. PICK c : c = SendBlank([client EXCEPT !.keepAlive = FALSE])
  OBVIOUS
<1>3. Sound(c, toClient, toServer, served, losses) /\ ParserSettled(c) /\ Moves(client, c)
  BY <1>1, <1>2, KeepAliveResult
<1>4. /\ Becomes(c) /\ toClient' = toClient /\ served' = served /\ losses' = losses
      /\ stopped' \in BOOLEAN
  BY <1>2 DEF FireKeepAlive, Inv
<1> QED
  BY <1>3, <1>4, Becoming DEF Kept

(* Every event keeps the invariant.                                         *)
LEMMA InvNext == ASSUME Inv, Next PROVE Kept
BY InvStart, InvStop, InvConnected, InvGivesUp, InvAcknowledge, InvServe, InvDeliver,
   InvPlayFrame, InvCheckBuffer, InvRequestSegment, InvKeepAlive DEF Next

(* The client before it is started.                                         *)
LEMMA NewPlayerType == P!NewPlayer \in P!PlayerRecord
<1>1. P!NewPlayer.buffer \in P!FrameBuffers /\ P!NewPlayer.rates \in P!RateStatistics
  BY DEF P!NewPlayer, P!EmptyBuffer, P!NoRate, P!FrameBuffers, P!RateStatistics
<1> QED
  BY <1>1 DEF P!NewPlayer, P!PlayerRecord, P!PlayerStates

(* The rate of the first request is one of the rates.                       *)
LEMMA FirstRateType == FirstRate \in Rates
<1> DEFINE T == {n \in Nat : \A r \in Rates : r > n}
<1>1. Rates # {} /\ \A r \in Rates : r \in Nat
  BY ClientAssumption
<1>2. \E l \in Rates : \A r \in Rates : l <= r
  <2>1. SUFFICES ASSUME \A l \in Rates : \E r \in Rates : ~ (l <= r) PROVE FALSE
    OBVIOUS
  <2>2. 0 \in T
    BY <1>1, <2>1
  <2>3. ASSUME NEW n \in Nat, n \in T PROVE n + 1 \in T
    <3>1. ASSUME NEW r \in Rates PROVE r > n + 1
      <4>1. \A t \in Rates : t > n
        BY <2>3
      <4>2. r # n + 1
        BY <1>1, <2>1, <4>1
      <4> QED
        BY <1>1, <4>1, <4>2
    <3> QED
      BY <3>1
  <2>4. Nat \subseteq T
    <3> HIDE DEF T
    <3> QED
      BY <2>2, <2>3, SetInduction
  <2>5. PICK r \in Rates : r \in Nat
    BY <1>1
  <2>6. r > r
    BY <2>4, <2>5
  <2> QED
    BY <2>5, <2>6
<1> QED
  BY <1>2 DEF FirstRate

(* The invariant holds before StartApplication.                             *)
LEMMA InvInit == ASSUME Init PROVE Inv
<1>1. PICK p \in P!PlayerRecord : p = P!NewPlayer
  BY NewPlayerType
<1>2. /\ p.state = "NOT_STARTED" /\ p.buffer.queue = <<>> /\ p.framesPlayed = 0
      /\ p.lastPaused = 0 /\ p.firstBuff = 0 /\ p.checks = 0
  BY <1>1 DEF P!NewPlayer, P!EmptyBuffer
<1>3. PlayerSound(p) /\ Position(p) = 0
  BY <1>2 DEF PlayerSound, Position
<1>4. FirstRate \in Rates
  BY ClientAssumption, FirstRateType
<1>5. PICK m : m = [seg |-> -1, bytes |-> 0]
  OBVIOUS
<1>18. m \in [seg : -1 .. MaxSegments - 1, bytes : Nat] /\ m.seg = -1
  <2>1. -1 \in -1 .. MaxSegments - 1
    BY ClientAssumption
  <2> QED
    BY <1>5, <2>1
<1>19. PICK e : e = <<>>
  OBVIOUS
<1>6. /\ e = <<>> /\ e \in Seq(StreamUnits) /\ e \in Seq(ServerMessages)
      /\ e \in Seq(Answered) /\ Len(e) = 0
  BY <1>19
<1>7. 0 \in 0 .. MaxSegments + 1 /\ 0 <= MaxSegments
  BY ClientAssumption
<1>8. NewClient \in Clients
  BY <1>1, <1>4, <1>5, <1>6, <1>7, <1>18 DEF NewClient, Clients
<1>9. /\ NewClient.player = p /\ NewClient.socket = "NULL" /\ NewClient.connected = FALSE
      /\ NewClient.pending = FALSE /\ NewClient.segmentId = 0 /\ NewClient.measured = m
      /\ NewClient.delayed = 0 /\ NewClient.data = e /\ NewClient.msgSize = 0
      /\ NewClient.rx = e /\ NewClient.out = e /\ NewClient.aborted = FALSE
  BY <1>1, <1>5, <1>6 DEF NewClient
<1>10. /\ client = NewClient /\ toServer = e /\ toClient = e /\ unacked = FALSE
       /\ served = e /\ losses = 0 /\ stopped = FALSE
  BY <1>6 DEF Init
<1> HIDE DEF NewClient
<1>11. PICK c : c = client
  OBVIOUS
<1>12. InStream(c, e) = <<>> /\ e \o c.out = <<>>
  <2>1. Joined(<<>>, <<>>, <<>>) = <<>> /\ <<>> \o <<>> = <<>>
    BY DEF Joined
  <2> QED
    BY <1>6, <1>9, <1>10, <1>11, <2>1 DEF InStream
<1>13. StreamSound(c, <<>>, <<>>, e)
  <2>1. Requests(<<>>) = {} /\ 0 * FramesPerSegment = 0
    BY ClientAssumption DEF Requests
  <2> QED
    BY <1>3, <1>7, <1>9, <1>10, <1>11, <2>1 DEF StreamSound
<1>14. EventsSound(c, 0)
  BY <1>9, <1>10, <1>11 DEF EventsSound
<1>15. ClientSound(c, e, e \o c.out, e, 0)
  BY <1>3, <1>8, <1>9, <1>10, <1>11, <1>12, <1>13, <1>14, <1>18 DEF ClientSound
<1>16. Sound(c, e, e, e, 0)
  BY <1>6, <1>15 DEF Sound
<1>17. ParserSettled(c)
  <2>1. RxCapacity \in Nat /\ HeaderSize \in Nat \ {0} /\ LargestMessage \in Nat
        /\ 1 <= LargestMessage
    BY ClientAssumption, LargestType
  <2>2. ~ Complete(c)
    BY <1>6, <1>9, <1>10, <1>11, <2>1 DEF Complete, HeadersIn
  <2> QED
    BY <1>6, <1>9, <1>10, <1>11, <2>1, <2>2 DEF ParserSettled, ParserSound, NotForgotten
<1>20. 0 <= MaxLosses
  BY ClientAssumption
<1>21. c.out = <<>>
  BY <1>6, <1>9, <1>10, <1>11
<1> QED
  BY <1>6, <1>10, <1>11, <1>16, <1>17, <1>20, <1>21 DEF Inv

(* The invariant holds in every state, and every step but a stutter is an   *)
(* event that moves the client on.                                          *)
LEMMA Invariant == Spec => []Inv
<1>1. Init => Inv
  BY InvInit
<1>2. Inv /\ [Next]_vars => Inv'
  <2>1. ASSUME Inv, UNCHANGED vars PROVE Inv'
    BY <2>1 DEF Inv, vars
  <2> QED
    BY <2>1, InvNext DEF Kept
<1> QED
  BY <1>1, <1>2, PTL DEF Spec

(* What the parts of the invariant say of the properties.                   *)
LEMMA InvType == ASSUME Inv PROVE TypeOK
<1>1. /\ client \in Clients /\ client.out = <<>> /\ EventsSound(client, losses)
      /\ toClient \in Seq(StreamUnits) /\ toServer \in Seq(ServerMessages)
      /\ losses \in Nat /\ losses <= MaxLosses /\ served \in Seq(Answered)
      /\ unacked \in BOOLEAN /\ stopped \in BOOLEAN
  BY SoundFields DEF Inv
<1>2. PICK c \in Clients : c = client
  BY <1>1
<1>3. /\ c.player \in P!PlayerRecord
      /\ c.socket \in {"NULL", "SYN_SENT", "ESTABLISHED", "CLOSING"}
      /\ c.connected \in BOOLEAN /\ c.pending \in BOOLEAN
      /\ c.segmentId \in 0 .. MaxSegments + 1 /\ c.bitRate \in Rates
      /\ c.segmentBytes \in Nat
      /\ c.measured \in [seg : -1 .. MaxSegments - 1, bytes : Nat]
      /\ c.delayed \in Nat /\ c.keepAlive \in BOOLEAN
      /\ c.data \in Seq(StreamUnits) /\ c.msgSize \in Sizes \union {0}
      /\ c.rx \in Seq(StreamUnits)
  BY DEF Clients
<1>4. c.delayed \in 0 .. MaxLosses + 1 /\ losses \in 0 .. MaxLosses
  <2>1. c.delayed <= losses + 1
    BY <1>1, <1>2, <1>3, SMTT(20) DEF EventsSound
  <2> QED
    BY <1>1, <1>3, <2>1, ClientAssumption
<1>5. toServer \in Seq([kind : {"REQUEST", "BLANK"}, seg : Nat, rate : Rates \union {0}])
  <2>1. ServerMessages \subseteq [kind : {"REQUEST", "BLANK"}, seg : Nat, rate : Rates \union {0}]
    BY ClientAssumption DEF ServerMessages
  <2> HIDE DEF ServerMessages
  <2> QED
    BY <1>1, <2>1, SeqMonotonic
<1>6. served \in Seq([seg : 0 .. MaxSegments - 1, bytes : Nat])
  BY <1>1 DEF Answered
<1> QED
  BY <1>1, <1>2, <1>3, <1>4, <1>5, <1>6 DEF TypeOK

(* The invariant says of the stream what the properties say.                *)
LEMMA InvStream == ASSUME Inv PROVE OneSegmentAtATime /\ PlaysInOrder
<1>1. /\ Sound(client, toClient, toServer, served, losses)
      /\ PlayerSound(client.player) /\ toServer \in Seq(ServerMessages)
      /\ StreamSound(client, InStream(client, toClient), toServer \o client.out, served)
      /\ client.out = <<>>
  BY SoundFields DEF Inv
<1>2. toServer \o client.out = toServer
  BY <1>1, ConcatEmptySeq
<1>3. StreamSound(client, InStream(client, toClient), toServer, served)
  BY <1>1, <1>2
<1>4. InStream(client, toClient) = <<>> <=>
        client.data = <<>> /\ client.rx = <<>> /\ toClient = <<>>
  BY <1>1, NothingInStream
<1>5. OneSegmentAtATime
  BY <1>3, <1>4 DEF OneSegmentAtATime, StreamSound, OneRequest
<1>6. PlaysInOrder
  BY <1>1 DEF PlaysInOrder, PlayerSound
<1> QED
  BY <1>5, <1>6

(* The invariant says of the units of the stream what the property says.    *)
LEMMA InvAligned == ASSUME Inv PROVE ParserAligned
<1>1. /\ Sound(client, toClient, toServer, served, losses) /\ client \in Clients
      /\ toClient \in Seq(StreamUnits)
      /\ StreamSound(client, InStream(client, toClient), toServer \o client.out, served)
  BY SoundFields DEF Inv
<1>2. client.data \in Seq(StreamUnits) /\ client.rx \in Seq(StreamUnits)
  BY <1>1, ClientFields
<1>3. PartsFit(StreamUnits, client.data, client.rx, toClient)
  BY <1>1, <1>2, StreamParts
<1>4. PICK st \in Seq(StreamUnits) : st = InStream(client, toClient)
  BY <1>3 DEF PartsFit, InStream
<1>5. client.data \o client.rx \o toClient = st
  BY <1>4 DEF InStream, Joined
<1>6. ASSUME st # <<>>
      PROVE  /\ Head(st).k = 1
             /\ \A i \in 1 .. Len(st) - 1 :
                  \/ st[i + 1] = [frame |-> st[i].frame, k |-> st[i].k + 1]
                  \/ st[i].k = st[i].frame.size /\ st[i + 1].k = 1
  <2>1. client.pending
    BY <1>1, <1>4, <1>6 DEF StreamSound
  <2>2. PICK seg, id : Aligned(st, seg, id)
    BY <1>1, <1>4, <2>1 DEF StreamSound
  <2>3. Head(st) = st[1] /\ st[1].k = 1
    BY <1>6, <2>2, HeadTailProperties, AlignedUnits
  <2> QED
    BY <2>2, <2>3, AlignedNext
<1> QED
  BY <1>5, <1>6 DEF ParserAligned

(* The invariant says of the rest what the properties say.                  *)
LEMMA InvOthers ==
  ASSUME Inv PROVE MeasuredExactly /\ NeverAborts /\ StalledOnlyWhenFull /\ Backpressure
<1>1. ClientSound(client, toClient, toServer \o client.out, served, losses)
      /\ ParserSettled(client)
  BY SoundFields DEF Inv
<1>2. MeasuredExactly
  BY <1>1 DEF MeasuredExactly, ClientSound
<1>3. NeverAborts
  BY <1>1 DEF NeverAborts, ClientSound
<1>4. StalledOnlyWhenFull
  BY <1>1 DEF StalledOnlyWhenFull, ParserSettled, NotForgotten
<1>5. Backpressure
  BY <1>1 DEF Backpressure, ParserSettled
<1> QED
  BY <1>2, <1>3, <1>4, <1>5

(* No more frames than were asked for.                                      *)
LEMMA Due ==
  ASSUME NEW c, NEW tc, NEW ts, NEW sv, NEW lost, Sound(c, tc, ts, sv, lost)
  PROVE  Position(c.player) <= c.segmentId * FramesPerSegment
<1>1. /\ c \in Clients /\ StreamSound(c, InStream(c, tc), ts \o c.out, sv)
      /\ Position(c.player) \in Nat
  BY SoundFields
<1>2. PICK s \in Int : s = c.segmentId
  BY <1>1, ClientFields
<1>3. PICK base \in Int, past \in Int :
        base = s * FramesPerSegment /\ past = (s - 1) * FramesPerSegment
        /\ past + FramesPerSegment = base
  BY Before, SMTT(20)
<1>4. FramesPerSegment \in Int
  BY ClientAssumption
<1>5. CASE c.pending
  <2>1. Position(c.player) - past \in 0 .. FramesPerSegment
    BY <1>1, <1>2, <1>3, <1>5 DEF StreamSound
  <2> QED
    BY <1>1, <1>2, <1>3, <1>4, <2>1
<1>6. CASE ~ c.pending
  <2>1. Position(c.player) = base
    BY <1>1, <1>2, <1>3, <1>6 DEF StreamSound
  <2> QED
    BY <1>2, <1>3, <2>1
<1> QED
  BY <1>5, <1>6

(* Every event of the client is a step of SegmentStream.                    *)
LEMMA StepMaps == ASSUME Inv, Kept PROVE Stream!StreamStep
<1>1. /\ Sound(client, toClient, toServer, served, losses)
      /\ Sound(client', toClient', toServer', served', losses')
      /\ Moves(client, client')
  BY DEF Inv, Kept
<1>2. PICK p, q : p = client.player /\ q = client'.player
  OBVIOUS
<1>3. /\ PlayerSound(p) /\ PlayerSound(q)
      /\ client \in Clients /\ client' \in Clients
  BY <1>1, <1>2, SoundFields
<1>4. /\ Position(p) \in Nat /\ Position(q) \in Nat
      /\ q.framesPlayed \in Nat /\ p.framesPlayed \in Nat
      /\ q.framesPlayed <= Position(q)
  BY <1>3, PositionType
<1>5. PICK s \in Nat, t \in Nat : s = client.segmentId /\ t = client'.segmentId
  BY <1>3, ClientFields
<1>6. PICK base \in Int, next \in Int :
        base = s * FramesPerSegment /\ next = t * FramesPerSegment
  BY Before
<1>7. Position(q) <= next
  BY <1>1, <1>2, <1>5, <1>6, Due
<1>8. /\ Position(p) <= Position(q)
      /\ \/ t = s
         \/ t = s + 1 /\ Position(q) = base
      /\ \/ q.framesPlayed = p.framesPlayed
         \/ q.framesPlayed = p.framesPlayed + 1
  BY <1>1, <1>2, <1>5, <1>6 DEF Moves
<1>9. Position(q) \in Position(p) .. base
  BY <1>4, <1>6, <1>7, <1>8
<1>10. \/ q.framesPlayed = p.framesPlayed
       \/ q.framesPlayed = p.framesPlayed + 1 /\ p.framesPlayed < Position(q)
  BY <1>4, <1>8
<1>11. /\ Position(p) = client.player.framesPlayed + Len(client.player.buffer.queue)
       /\ Position(q) = client'.player.framesPlayed + Len(client'.player.buffer.queue)
  BY <1>2 DEF Position
<1> QED
  BY <1>2, <1>5, <1>6, <1>8, <1>9, <1>10, <1>11 DEF Stream!StreamStep

-----------------------------------------------------------------------------
(* The theorems. *)

(* Every member of the client, its player, parser and socket keeps its type, *)
(* and so does what is under way in either direction.                        *)
THEOREM TypeCorrect == Spec => []TypeOK
BY Invariant, InvType, PTL

(* m_RequestPending does its work through every loss of a connection and    *)
(* every stop: while it is not set nothing of an earlier segment is in the  *)
(* parser, the socket or the network, and a request sent has the connection *)
(* for itself.                                                              *)
THEOREM OneSegment == Spec => []OneSegmentAtATime
BY Invariant, InvStream, PTL

(* Parser, ReceiveFrame and PlayFrame together hand the frames of the video *)
(* to the viewer in order: none is lost, doubled or overtaken when the      *)
(* stream is cut anywhere or a full buffer refuses a frame.                 *)
THEOREM InOrder == Spec => []PlaysInOrder
BY Invariant, InvStream, PTL

(* The parser stands at the first unit of a message and what follows        *)
(* continues it, also in the data a lost connection leaves in               *)
(* m_pending_packet.                                                        *)
THEOREM KeepsAligned == Spec => []ParserAligned
BY Invariant, InvAligned, PTL

(* ReadMessage leaves a message in the parser, or data in the socket, only  *)
(* while the player has no room for it or CheckBuffer is due: the rounds of *)
(* TryToPushToPlayer end nowhere else.                                      *)
THEOREM NothingForgotten == Spec => []StalledOnlyWhenFull
BY Invariant, InvOthers, PTL

(* What m_pending_packet holds is bounded: ReadMessage leaves the socket    *)
(* alone while a complete message waits for the player.                     *)
THEOREM ReadsNoFurther == Spec => []Backpressure
BY Invariant, InvOthers, PTL

(* m_segment_bytes, when the last frame of a segment arrives, counts the    *)
(* bytes the server sent for this segment and no other.                     *)
THEOREM MeasuresOneSegment == Spec => []MeasuredExactly
BY Invariant, InvOthers, PTL

(* RequestSegment never finds a socket that refuses the request, so its     *)
(* NS_FATAL_ERROR is out of reach, and m_connected is only set on an        *)
(* established connection.                                                  *)
THEOREM RequestAccepted == Spec => []NeverAborts
BY Invariant, InvOthers, PTL

(* The client implements SegmentStream: each of its events asks for at most *)
(* the next segment, and only once the last one is complete, accepts only   *)
(* frames asked for, and shows at most one frame it has accepted.           *)
THEOREM Promise == Spec => KeepsPromise
<1>1. Init => Stream!StreamInit
  BY DEF Init, NewClient, P!NewPlayer, P!EmptyBuffer, Stream!StreamInit
<1>2. Inv /\ [Next]_vars => [Stream!StreamStep]_(Stream!streamVars)
  <2>1. ASSUME Inv, Next PROVE Stream!StreamStep
    BY <2>1, InvNext, StepMaps
  <2>2. ASSUME UNCHANGED vars PROVE UNCHANGED Stream!streamVars
    BY <2>2 DEF vars, Stream!streamVars
  <2> QED
    BY <2>1, <2>2
<1> QED
  BY <1>1, <1>2, Invariant, PTL DEF Spec, KeepsPromise, Stream!StreamSpec
=============================================================================
