-------------------------- MODULE MpegPlayerProofs --------------------------
(***************************************************************************)
(* Theorems about MpegPlayer, for every set of frames, capacity, frame      *)
(* interval, start delay and length of the simulation.  The inductive       *)
(* invariant is Sound, stated of a player and an instant so that its        *)
(* lemmas speak of the operators, whoever calls them.  The size of what is  *)
(* queued is a sum over the queue: its lemmas rest on the loops of          *)
(* ModelLemmas.                                                             *)
(***************************************************************************)
EXTENDS MpegPlayer, ModelLemmas

MediaClock(p) ==
  p.startTime + p.interruptionTime + FrameInterval * p.framesPlayed

(* The chain of PlayFrame events and the clock it runs on.                    *)
ChainSound(p) ==
  /\ p.state \in {"NOT_STARTED", "PAUSED"} => p.wakeups = <<>>
  /\ p.state = "INITIAL_BUFFERING" => Len(p.wakeups) = 1
  /\ p.state = "PLAYING" => p.wakeups = <<MediaClock(p)>>
  /\ p.state = "PAUSED" => p.lastPaused = MediaClock(p)
  /\ p.state = "DONE" => Len(p.wakeups) <= 1

(* What has been counted so far, and what the buffer holds.                   *)
CountsSound(p) ==
  /\ p.state \in {"NOT_STARTED", "INITIAL_BUFFERING"} =>
       p.framesPlayed = 0 /\ p.interruptions = 0 /\ p.interruptionTime = 0
  /\ p.state = "INITIAL_BUFFERING" => p.buffer.queue # <<>>
  /\ p.state = "PAUSED" => p.buffer.queue = <<>>
  /\ p.state = "PLAYING" => p.interruptions < p.framesPlayed
  /\ p.interruptions <= p.framesPlayed

(* No recorded instant lies in the future.                                    *)
InstantsSound(p, t) == p.lastPaused <= t /\ p.firstBuff <= t

Sound(p, t) ==
  /\ p \in PlayerRecord
  /\ ChainSound(p)
  /\ CountsSound(p)
  /\ InstantsSound(p, t)
  /\ p.buffer.bytes <= Capacity

-----------------------------------------------------------------------------
(* What the operators on a player return. *)

(* The types of the fields, for leaves that do arithmetic with them.          *)
LEMMA FieldTypes ==
  ASSUME NEW p \in PlayerRecord
  PROVE  /\ p.state \in PlayerStates /\ p.buffer \in FrameBuffers
         /\ p.startTime \in Nat /\ p.interruptionTime \in Nat
         /\ p.lastPaused \in Nat /\ p.interruptions \in Nat
         /\ p.framesPlayed \in Nat /\ p.rates \in RateStatistics
         /\ p.firstPlay \in BOOLEAN /\ p.firstBuff \in Nat
         /\ p.initBuff \in Nat /\ p.wakeups \in Seq(Nat) /\ p.checks \in Nat
  BY DEF PlayerRecord

(* The media clock is a natural number.                                       *)
LEMMA MediaClockType ==
  ASSUME NEW p \in PlayerRecord PROVE MediaClock(p) \in Nat
<1>1. FrameInterval * p.framesPlayed \in Nat
  BY FieldTypes, PlayerAssumption
<1> QED
  BY <1>1, FieldTypes DEF MediaClock

(* At most one PlayFrame event is ever scheduled.                             *)
LEMMA ChainLength ==
  ASSUME NEW p \in PlayerRecord, ChainSound(p)
  PROVE  /\ Len(p.wakeups) <= 1
         /\ p.state \in {"NOT_STARTED", "PAUSED"} => Len(p.wakeups) = 0
         /\ p.state \in {"INITIAL_BUFFERING", "PLAYING"} => Len(p.wakeups) = 1
<1>1. p.state \in PlayerStates /\ Len(p.wakeups) \in Nat
  BY FieldTypes
<1>2. CASE p.state \in {"NOT_STARTED", "PAUSED"}
  <2>1. p.wakeups = <<>> /\ Len(<<>>) = 0
    BY <1>2 DEF ChainSound
  <2>2. Len(p.wakeups) = 0
    BY <2>1
  <2> QED
    BY <1>2, <2>2
<1>3. CASE p.state = "PLAYING"
  <2>1. p.wakeups = <<MediaClock(p)>>
    BY <1>3 DEF ChainSound
  <2>2. Len(<<MediaClock(p)>>) = 1
    OBVIOUS
  <2>3. Len(p.wakeups) = 1
    BY <2>1, <2>2, Zenon
  <2> QED
    BY <1>3, <2>3
<1>4. CASE p.state = "INITIAL_BUFFERING"
  <2>1. Len(p.wakeups) = 1
    BY <1>4 DEF ChainSound
  <2> QED
    BY <1>4, <2>1
<1>5. CASE p.state = "DONE"
  <2>1. Len(p.wakeups) <= 1
    BY <1>5 DEF ChainSound
  <2> QED
    BY <1>5, <2>1
<1> QED
  BY <1>1, <1>2, <1>3, <1>4, <1>5 DEF PlayerStates

(* A frame that fits leaves a non-empty buffer within its capacity.           *)
LEMMA PushFacts ==
  ASSUME NEW b \in FrameBuffers, NEW f \in Frames, Fits(b, f)
  PROVE  /\ Push(b, f) \in FrameBuffers
         /\ Push(b, f).queue # <<>>
         /\ Push(b, f).bytes <= Capacity
<1>1. f.size \in Nat
  BY PlayerAssumption
<1>2. b.queue \in Seq(Frames) /\ b.bytes \in Int
  BY DEF FrameBuffers
<1>3. Append(b.queue, f) \in Seq(Frames) /\ Append(b.queue, f) # <<>>
  BY <1>2
<1>4. b.bytes + f.size \in Int /\ b.bytes + f.size <= Capacity
  BY <1>1, <1>2 DEF Fits
<1> QED
  BY <1>3, <1>4 DEF Push, FrameBuffers

(* Pop gives space back.                                                      *)
LEMMA PopFacts ==
  ASSUME NEW b \in FrameBuffers, b.queue # <<>>
  PROVE  /\ Head(b.queue) \in Frames
         /\ Pop(b) \in FrameBuffers
         /\ Pop(b).bytes <= b.bytes
<1>1. b.queue \in Seq(Frames) /\ b.bytes \in Int
  BY DEF FrameBuffers
<1>2. Head(b.queue) \in Frames /\ Tail(b.queue) \in Seq(Frames)
  BY <1>1
<1>3. Head(b.queue).size \in Nat
  BY <1>2, PlayerAssumption
<1>4. /\ b.bytes - Head(b.queue).size \in Int
      /\ b.bytes - Head(b.queue).size <= b.bytes
  BY <1>1, <1>3
<1> QED
  BY <1>2, <1>4 DEF Pop, FrameBuffers

(* The statistics stay statistics.                                            *)
LEMMA CountType ==
  ASSUME NEW r \in RateStatistics, NEW f \in Frames
  PROVE  Count(r, f) \in RateStatistics
<1>1. f.res \in Nat /\ f.seg \in Nat
  BY PlayerAssumption
<1>2. r.total \in Nat /\ r.min \in Nat /\ r.minmin \in Nat /\ r.max \in Nat
  BY DEF RateStatistics
<1> QED
  BY <1>1, <1>2 DEF Count, Smaller, Larger, RateStatistics

(* Showing a frame counts it and schedules one PlayFrame, an interval later.  *)
LEMMA ShowFrameFacts ==
  ASSUME NEW p \in PlayerRecord, NEW t \in Nat, p.buffer.queue # <<>>
  PROVE  LET q == ShowFrame(p, t)
         IN  /\ q \in PlayerRecord
             /\ q.state = p.state
             /\ q.startTime = p.startTime
             /\ q.interruptionTime = p.interruptionTime
             /\ q.lastPaused = p.lastPaused
             /\ q.interruptions = p.interruptions
             /\ q.firstBuff = p.firstBuff
             /\ q.framesPlayed = p.framesPlayed + 1
             /\ q.wakeups = Append(p.wakeups, t + FrameInterval)
             /\ q.buffer.bytes <= p.buffer.bytes
<1> DEFINE buf == Pop(p.buffer)
           rts == Count(p.rates, Head(p.buffer.queue))
           played == p.framesPlayed + 1
           due == Append(p.wakeups, t + FrameInterval)
           chk == p.checks + 1
<1>1. p.buffer \in FrameBuffers /\ p.rates \in RateStatistics
  BY FieldTypes
<1>2. buf \in FrameBuffers /\ buf.bytes <= p.buffer.bytes
  BY <1>1, PopFacts
<1>3. rts \in RateStatistics
  BY <1>1, PopFacts, CountType
<1>4. due \in Seq(Nat) /\ played \in Nat /\ chk \in Nat
  BY FieldTypes, PlayerAssumption
<1>5. ShowFrame(p, t) =
        [p EXCEPT !.buffer = buf, !.rates = rts, !.framesPlayed = played,
                  !.wakeups = due, !.checks = chk]
  BY Zenon DEF ShowFrame
<1>6. played = p.framesPlayed + 1 /\ due = Append(p.wakeups, t + FrameInterval)
  OBVIOUS
<1> HIDE DEF buf, rts, played, due, chk
<1>7. ShowFrame(p, t) \in PlayerRecord
  BY <1>2, <1>3, <1>4, <1>5, ZenonT(30) DEF PlayerRecord
<1> QED
  BY <1>2, <1>5, <1>6, <1>7 DEF PlayerRecord

-----------------------------------------------------------------------------
(* PlayFrame and ReceiveFrame keep a player sound. *)

(* A player whose PlayFrame event is running: the event is off the list.      *)
Due(p, t) ==
  /\ p \in PlayerRecord
  /\ p.wakeups = <<>>
  /\ InstantsSound(p, t)
  /\ p.buffer.bytes <= Capacity
  /\ p.interruptions <= p.framesPlayed
  /\ p.state \in {"INITIAL_BUFFERING", "PLAYING", "DONE"}
  /\ p.state = "INITIAL_BUFFERING" =>
       /\ p.framesPlayed = 0 /\ p.interruptions = 0 /\ p.interruptionTime = 0
       /\ p.buffer.queue # <<>>
  /\ p.state = "PLAYING" =>
       /\ MediaClock(p) = t
       /\ p.buffer.queue = <<>> => p.interruptions < p.framesPlayed

(* A playing player shows the next frame, on its clock, and stays sound.      *)
LEMMA ShowSound ==
  ASSUME NEW p, NEW t \in Nat, Due(p, t), p.state = "PLAYING",
         p.buffer.queue # <<>>
  PROVE  Sound(ShowFrame(p, t), t)
<1> DEFINE q == ShowFrame(p, t)
<1>1. p \in PlayerRecord
  BY DEF Due
<1>2. /\ q \in PlayerRecord
      /\ q.state = "PLAYING"
      /\ q.startTime = p.startTime
      /\ q.interruptionTime = p.interruptionTime
      /\ q.lastPaused = p.lastPaused
      /\ q.interruptions = p.interruptions
      /\ q.firstBuff = p.firstBuff
      /\ q.framesPlayed = p.framesPlayed + 1
      /\ q.wakeups = Append(p.wakeups, t + FrameInterval)
      /\ q.buffer.bytes <= p.buffer.bytes
  BY <1>1, ShowFrameFacts
<1>3. MediaClock(q) = t + FrameInterval
  <2>1. FrameInterval * (p.framesPlayed + 1)
          = FrameInterval * p.framesPlayed + FrameInterval
    BY <1>1, FieldTypes, PlayerAssumption
  <2>2. FrameInterval * p.framesPlayed \in Nat /\ FrameInterval \in Nat
    BY <1>1, FieldTypes, PlayerAssumption
  <2>3. p.startTime + p.interruptionTime + FrameInterval * p.framesPlayed = t
    BY DEF Due, MediaClock
  <2>4. p.startTime \in Nat /\ p.interruptionTime \in Nat
    BY <1>1, FieldTypes
  <2>5. MediaClock(q) = p.startTime + p.interruptionTime
                          + FrameInterval * (p.framesPlayed + 1)
    BY <1>2, Zenon DEF MediaClock
  <2> HIDE DEF q
  <2> QED
    BY <2>1, <2>2, <2>3, <2>4, <2>5, SMTT(20)
<1>4. q.wakeups = <<t + FrameInterval>>
  BY <1>2, PlayerAssumption DEF Due
<1>5. ChainSound(q)
  BY <1>2, <1>3, <1>4 DEF ChainSound
<1>6. /\ q.interruptions \in Nat /\ p.framesPlayed \in Nat
      /\ q.interruptions <= p.framesPlayed
  BY <1>1, <1>2, FieldTypes DEF Due
<1>7. CountsSound(q)
  BY <1>2, <1>6 DEF CountsSound
<1>8. q.buffer.bytes <= Capacity
  BY <1>1, <1>2, FieldTypes, PlayerAssumption, SMTT(30) DEF Due, FrameBuffers
<1>9. InstantsSound(q, t)
  BY <1>2 DEF Due, InstantsSound
<1> QED
  BY <1>2, <1>5, <1>7, <1>8, <1>9 DEF Sound

(* A playing player without frames is paused at its clock's instant.          *)
LEMMA PauseSound ==
  ASSUME NEW p, NEW t \in Nat, Due(p, t), p.state = "PLAYING",
         p.buffer.queue = <<>>
  PROVE  Sound(Pause(p, t), t)
<1> DEFINE n == p.interruptions + 1
           q == Pause(p, t)
<1>1. p \in PlayerRecord
  BY DEF Due
<1>2. n \in Nat /\ n <= p.framesPlayed
  BY <1>1, FieldTypes DEF Due
<1>3. q = [p EXCEPT !.state = "PAUSED", !.lastPaused = t, !.interruptions = n]
  BY DEF Pause
<1> HIDE DEF n, q
<1>4. /\ q \in PlayerRecord
      /\ q.state = "PAUSED" /\ q.lastPaused = t /\ q.interruptions = n
      /\ q.buffer = p.buffer /\ q.wakeups = p.wakeups
      /\ q.startTime = p.startTime /\ q.interruptionTime = p.interruptionTime
      /\ q.framesPlayed = p.framesPlayed /\ q.firstBuff = p.firstBuff
  BY <1>1, <1>2, <1>3 DEF PlayerRecord, PlayerStates
<1>5. MediaClock(q) = t
  BY <1>4 DEF Due, MediaClock
<1>6. ChainSound(q)
  BY <1>4, <1>5 DEF ChainSound, Due
<1>7. CountsSound(q)
  BY <1>2, <1>4 DEF CountsSound
<1>8. q.buffer.bytes <= Capacity /\ InstantsSound(q, t)
  BY <1>4 DEF Due, InstantsSound
<1> QED
  BY <1>4, <1>6, <1>7, <1>8 DEF Sound, q

(* The first PlayFrame sets the clock to its own instant.                     *)
LEMMA BeginPlaybackDue ==
  ASSUME NEW p, NEW t \in Nat, Due(p, t), p.state = "INITIAL_BUFFERING"
  PROVE  Due(BeginPlayback(p, t), t) /\ BeginPlayback(p, t).state = "PLAYING"
         /\ BeginPlayback(p, t).buffer.queue # <<>>
<1> DEFINE init == IF p.firstPlay THEN p.initBuff ELSE t - p.firstBuff
           q == BeginPlayback(p, t)
<1>1. p \in PlayerRecord
  BY DEF Due
<1>2. init \in Nat
  BY <1>1, FieldTypes DEF Due, InstantsSound
<1>3. q = [p EXCEPT !.startTime = t, !.state = "PLAYING", !.initBuff = init,
                    !.firstPlay = TRUE]
  BY DEF BeginPlayback
<1> HIDE DEF init, q
<1>4. /\ q \in PlayerRecord
      /\ q.state = "PLAYING" /\ q.startTime = t
      /\ q.buffer = p.buffer /\ q.wakeups = p.wakeups
      /\ q.interruptionTime = p.interruptionTime
      /\ q.interruptions = p.interruptions /\ q.lastPaused = p.lastPaused
      /\ q.framesPlayed = p.framesPlayed /\ q.firstBuff = p.firstBuff
  BY <1>1, <1>2, <1>3 DEF PlayerRecord, PlayerStates
<1>5. MediaClock(q) = t
  <2>1. FrameInterval * 0 = 0
    BY PlayerAssumption
  <2> QED
    BY <1>4, <2>1 DEF Due, MediaClock
<1> QED
  BY <1>4, <1>5 DEF Due, InstantsSound, q

(* Whatever it finds, a PlayFrame that is due leaves the player sound.        *)
LEMMA PlayFrameSound ==
  ASSUME NEW p, NEW t \in Nat, Due(p, t)
  PROVE  Sound(PlayFrame(p, t), t)
<1>1. CASE p.state = "DONE"
  <2>1. PlayFrame(p, t) = p
    BY <1>1 DEF PlayFrame
  <2>2. p.interruptions <= p.framesPlayed /\ p.wakeups = <<>>
    BY DEF Due
  <2>3. ChainSound(p) /\ CountsSound(p)
    BY <1>1, <2>2 DEF ChainSound, CountsSound
  <2> QED
    BY <2>1, <2>3 DEF Due, Sound
<1>2. CASE p.state = "PLAYING"
  <2>1. PlayFrame(p, t) = IF p.buffer.queue = <<>> THEN Pause(p, t)
                          ELSE ShowFrame(p, t)
    BY <1>2, Zenon DEF PlayFrame
  <2> QED
    BY <1>2, <2>1, ShowSound, PauseSound
<1>3. CASE p.state = "INITIAL_BUFFERING"
  <2>1. BeginPlayback(p, t).buffer.queue # <<>>
        /\ BeginPlayback(p, t).state = "PLAYING" /\ Due(BeginPlayback(p, t), t)
    BY <1>3, BeginPlaybackDue
  <2>2. PlayFrame(p, t) = ShowFrame(BeginPlayback(p, t), t)
    BY <1>3, <2>1, Zenon DEF PlayFrame
  <2> QED
    BY <2>1, <2>2, ShowSound
<1> QED
  BY <1>1, <1>2, <1>3 DEF Due

(* The player that a frame resumes, before its PlayFrame.                     *)
Resumed(p, t) ==
  [p EXCEPT !.state = "PLAYING",
            !.interruptionTime = p.interruptionTime + (t - p.lastPaused)]

(* A resumed player's clock has caught up with the instant: PlayFrame is due. *)
LEMMA ResumeDue ==
  ASSUME NEW p, NEW t \in Nat, p \in PlayerRecord, ChainSound(p),
         InstantsSound(p, t), p.state = "PAUSED", p.buffer.queue # <<>>,
         p.buffer.bytes <= Capacity, p.interruptions <= p.framesPlayed
  PROVE  /\ Due(Resumed(p, t), t)
         /\ Resumed(p, t).framesPlayed = p.framesPlayed
         /\ Resume(p, t, t - p.lastPaused) = PlayFrame(Resumed(p, t), t)
<1> DEFINE total == p.interruptionTime + (t - p.lastPaused)
           q == Resumed(p, t)
<1>1. total \in Nat
  BY FieldTypes DEF InstantsSound
<1>2. Resume(p, t, t - p.lastPaused) = PlayFrame(q, t)
  BY DEF Resume, Resumed
<1>3. p.startTime + total + FrameInterval * p.framesPlayed = t
  <2>1. FrameInterval * p.framesPlayed \in Nat
    BY FieldTypes, PlayerAssumption
  <2>2. p.lastPaused = MediaClock(p)
    BY DEF ChainSound
  <2>3. p.startTime \in Nat /\ p.interruptionTime \in Nat /\ p.lastPaused \in Nat
    BY FieldTypes
  <2> QED
    BY <2>1, <2>2, <2>3, SMTT(20) DEF MediaClock
<1>4. q = [p EXCEPT !.state = "PLAYING", !.interruptionTime = total]
  BY DEF Resumed
<1> HIDE DEF total, q
<1>5. /\ q \in PlayerRecord
      /\ q.state = "PLAYING" /\ q.interruptionTime = total
      /\ q.startTime = p.startTime /\ q.framesPlayed = p.framesPlayed
      /\ q.buffer = p.buffer /\ q.wakeups = p.wakeups
      /\ q.interruptions = p.interruptions /\ q.lastPaused = p.lastPaused
      /\ q.firstBuff = p.firstBuff
  BY <1>1, <1>4 DEF PlayerRecord, PlayerStates
<1>6. MediaClock(q) = t
  BY <1>3, <1>5 DEF MediaClock
<1>7. q.wakeups = <<>>
  BY <1>5 DEF ChainSound
<1>8. Due(q, t)
  BY <1>5, <1>6, <1>7 DEF Due, InstantsSound
<1> QED
  BY <1>2, <1>5, <1>8 DEF q

(* A player that a frame resumes is sound after the frame it shows.           *)
LEMMA ResumeSound ==
  ASSUME NEW p, NEW t \in Nat, p \in PlayerRecord, ChainSound(p),
         InstantsSound(p, t), p.state = "PAUSED", p.buffer.queue # <<>>,
         p.buffer.bytes <= Capacity, p.interruptions <= p.framesPlayed
  PROVE  Sound(Resume(p, t, t - p.lastPaused), t)
  BY ResumeDue, PlayFrameSound

(* The first frame starts the only chain of PlayFrame events.                 *)
LEMMA BeginSound ==
  ASSUME NEW p, NEW t \in Nat, p \in PlayerRecord, ChainSound(p),
         InstantsSound(p, t), p.state = "NOT_STARTED", p.buffer.queue # <<>>,
         p.buffer.bytes <= Capacity, CountsSound(p)
  PROVE  Sound(Begin(p, t, "INITIAL_BUFFERING", t), t)
<1> DEFINE first == IF p.firstPlay THEN p.firstBuff ELSE t
           due == Append(p.wakeups, t + StartDelay)
           q == Begin(p, t, "INITIAL_BUFFERING", t)
<1>1. first \in Nat /\ first <= t
  BY FieldTypes DEF InstantsSound
<1>2. due \in Seq(Nat) /\ Len(due) = 1
  BY FieldTypes, PlayerAssumption DEF ChainSound
<1>3. q = [p EXCEPT !.state = "INITIAL_BUFFERING", !.firstBuff = first,
                    !.wakeups = due]
  BY DEF Begin
<1> HIDE DEF first, due, q
<1>4. /\ q \in PlayerRecord
      /\ q.state = "INITIAL_BUFFERING" /\ q.firstBuff = first
      /\ q.wakeups = due /\ q.buffer = p.buffer
      /\ q.framesPlayed = p.framesPlayed /\ q.interruptions = p.interruptions
      /\ q.interruptionTime = p.interruptionTime /\ q.lastPaused = p.lastPaused
  BY <1>1, <1>2, <1>3 DEF PlayerRecord, PlayerStates
<1>5. ChainSound(q)
  BY <1>2, <1>4 DEF ChainSound
<1>6. CountsSound(q)
  BY <1>4 DEF CountsSound
<1>7. InstantsSound(q, t)
  BY <1>1, <1>4 DEF InstantsSound
<1> QED
  BY <1>4, <1>5, <1>6, <1>7 DEF Sound, q

(* ReceiveFrame keeps a player sound, in every state it can be called in.     *)
LEMMA ReceiveFrameSound ==
  ASSUME NEW p, NEW t \in Nat, Sound(p, t), NEW f \in Frames
  PROVE  Sound(ReceiveFrame(p, f, t), t)
<1> DEFINE buf == Push(p.buffer, f)
           q == [p EXCEPT !.buffer = buf]
<1>1. CASE ~Fits(p.buffer, f)
  BY <1>1 DEF ReceiveFrame
<1>2. CASE Fits(p.buffer, f)
  <2>1. p \in PlayerRecord /\ p.buffer \in FrameBuffers
    BY FieldTypes DEF Sound
  <2>2. buf \in FrameBuffers /\ buf.queue # <<>> /\ buf.bytes <= Capacity
    BY <1>2, <2>1, PushFacts
  <2>3. ReceiveFrame(p, f, t) = AfterPush(q, t)
    BY <1>2 DEF ReceiveFrame
  <2> HIDE DEF buf
  <2>4. /\ q \in PlayerRecord /\ q.buffer = buf
        /\ q.state = p.state /\ q.wakeups = p.wakeups
        /\ q.startTime = p.startTime /\ q.interruptionTime = p.interruptionTime
        /\ q.lastPaused = p.lastPaused /\ q.firstBuff = p.firstBuff
        /\ q.framesPlayed = p.framesPlayed
        /\ q.interruptions = p.interruptions
    BY <2>1, <2>2 DEF PlayerRecord
  <2> HIDE DEF q
  <2>5. ChainSound(q) /\ InstantsSound(q, t) /\ q.buffer.bytes <= Capacity
    BY <2>2, <2>4 DEF Sound, ChainSound, InstantsSound, MediaClock
  <2>6. q.interruptions <= q.framesPlayed
    BY <2>4 DEF Sound, CountsSound
  <2>7. CASE q.state = "PAUSED"
    BY <2>2, <2>3, <2>4, <2>5, <2>6, <2>7, ResumeSound DEF AfterPush
  <2>8. CASE q.state # "PAUSED"
    <3>1. CountsSound(q)
      BY <2>2, <2>4, <2>8 DEF Sound, CountsSound
    <3>2. CASE q.state = "NOT_STARTED"
      BY <2>2, <2>3, <2>4, <2>5, <2>8, <3>1, <3>2, BeginSound DEF AfterPush
    <3>3. CASE q.state # "NOT_STARTED"
      BY <2>3, <2>4, <2>5, <2>8, <3>1, <3>3 DEF AfterPush, Sound
    <3> QED
      BY <3>2, <3>3
  <2> QED
    BY <2>7, <2>8
<1> QED
  BY <1>1, <1>2

-----------------------------------------------------------------------------
(* A frame is shown at its instant on the media clock. *)

(* If a step from p to q at t shows a frame, t is the instant of that frame.  *)
OnTime(p, q, t) ==
  q.framesPlayed # p.framesPlayed =>
    t = q.startTime + q.interruptionTime + FrameInterval * p.framesPlayed

(* A playing player for which PlayFrame is due shows its frame on time.       *)
LEMMA ShowOnTime ==
  ASSUME NEW p, NEW t \in Nat, Due(p, t), p.state = "PLAYING"
  PROVE  OnTime(p, PlayFrame(p, t), t)
<1>1. p \in PlayerRecord /\ MediaClock(p) = t
  BY DEF Due
<1>2. PlayFrame(p, t) = IF p.buffer.queue = <<>> THEN Pause(p, t)
                        ELSE ShowFrame(p, t)
  BY Zenon DEF PlayFrame
<1>3. CASE p.buffer.queue = <<>>
  <2>1. Pause(p, t).framesPlayed = p.framesPlayed
    BY <1>1 DEF Pause, PlayerRecord
  <2> QED
    BY <1>2, <1>3, <2>1 DEF OnTime
<1>4. CASE p.buffer.queue # <<>>
  <2> DEFINE q == ShowFrame(p, t)
  <2>1. q.startTime = p.startTime /\ q.interruptionTime = p.interruptionTime
    BY <1>1, <1>4, ShowFrameFacts
  <2> HIDE DEF q
  <2>2. q.startTime + q.interruptionTime + FrameInterval * p.framesPlayed = t
    BY <1>1, <2>1 DEF MediaClock
  <2>3. PlayFrame(p, t) = q
    BY <1>2, <1>4 DEF q
  <2> QED
    BY <2>2, <2>3 DEF OnTime
<1> QED
  BY <1>3, <1>4

(* The same of every PlayFrame that is due, the first one included.           *)
LEMMA PlayFrameOnTime ==
  ASSUME NEW p, NEW t \in Nat, Due(p, t)
  PROVE  OnTime(p, PlayFrame(p, t), t)
<1>1. CASE p.state = "DONE"
  BY <1>1 DEF PlayFrame, OnTime
<1>2. CASE p.state = "PLAYING"
  BY <1>2, ShowOnTime
<1>3. CASE p.state = "INITIAL_BUFFERING"
  <2> DEFINE q == BeginPlayback(p, t)
  <2>1. Due(q, t) /\ q.state = "PLAYING"
    BY <1>3, BeginPlaybackDue
  <2>2. q.framesPlayed = p.framesPlayed
    BY DEF BeginPlayback, Due, PlayerRecord
  <2>3. PlayFrame(p, t) = PlayFrame(q, t)
    BY <1>3, <2>1, Zenon DEF PlayFrame
  <2> HIDE DEF q
  <2>4. OnTime(q, PlayFrame(q, t), t)
    BY <2>1, ShowOnTime
  <2> QED
    BY <2>2, <2>3, <2>4 DEF OnTime
<1> QED
  BY <1>1, <1>2, <1>3 DEF Due

(* A frame received shows a frame only by ending a pause, and then on time.   *)
LEMMA ReceiveFrameOnTime ==
  ASSUME NEW p, NEW t \in Nat, Sound(p, t), NEW f \in Frames
  PROVE  OnTime(p, ReceiveFrame(p, f, t), t)
<1> DEFINE buf == Push(p.buffer, f)
           q == [p EXCEPT !.buffer = buf]
<1>1. CASE ~Fits(p.buffer, f)
  BY <1>1 DEF ReceiveFrame, OnTime
<1>2. CASE Fits(p.buffer, f)
  <2>1. p \in PlayerRecord /\ p.buffer \in FrameBuffers
    BY FieldTypes DEF Sound
  <2>2. buf \in FrameBuffers /\ buf.queue # <<>> /\ buf.bytes <= Capacity
    BY <1>2, <2>1, PushFacts
  <2>3. ReceiveFrame(p, f, t) = AfterPush(q, t)
    BY <1>2 DEF ReceiveFrame
  <2> HIDE DEF buf
  <2>4. /\ q \in PlayerRecord /\ q.buffer = buf
        /\ q.state = p.state /\ q.wakeups = p.wakeups
        /\ q.startTime = p.startTime /\ q.interruptionTime = p.interruptionTime
        /\ q.lastPaused = p.lastPaused /\ q.firstBuff = p.firstBuff
        /\ q.framesPlayed = p.framesPlayed
        /\ q.interruptions = p.interruptions
    BY <2>1, <2>2 DEF PlayerRecord
  <2> HIDE DEF q
  <2>5. CASE q.state = "PAUSED"
    <3>1. ChainSound(q) /\ InstantsSound(q, t) /\ q.buffer.bytes <= Capacity
      BY <2>2, <2>4 DEF Sound, ChainSound, InstantsSound, MediaClock
    <3>2. q.interruptions <= q.framesPlayed
      BY <2>4 DEF Sound, CountsSound
    <3>3. AfterPush(q, t) = Resume(q, t, t - q.lastPaused)
      BY <2>5, Zenon DEF AfterPush
    <3>4. /\ Due(Resumed(q, t), t)
          /\ Resumed(q, t).framesPlayed = p.framesPlayed
          /\ AfterPush(q, t) = PlayFrame(Resumed(q, t), t)
      BY <2>2, <2>4, <2>5, <3>1, <3>2, <3>3, ResumeDue
    <3> QED
      BY <2>3, <3>4, PlayFrameOnTime DEF OnTime
  <2>6. CASE q.state # "PAUSED"
    <3>1. AfterPush(q, t).framesPlayed = q.framesPlayed
      BY <2>4, <2>6 DEF AfterPush, Begin, PlayerRecord
    <3> QED
      BY <2>3, <2>4, <3>1 DEF OnTime
  <2> QED
    BY <2>5, <2>6
<1> QED
  BY <1>1, <1>2

-----------------------------------------------------------------------------
(* The invariant of the specification. *)

IInv == Sound(player, now) /\ now \in 0 .. SimStop

(* A player that has not started is sound.                                    *)
LEMMA InitSound == Init => IInv
<1> SUFFICES ASSUME Init PROVE IInv
  OBVIOUS
<1>1. NewPlayer \in PlayerRecord
  BY DEF NewPlayer, PlayerRecord, PlayerStates, FrameBuffers, EmptyBuffer,
         RateStatistics, NoRate
<1>2. ChainSound(NewPlayer) /\ CountsSound(NewPlayer)
  BY DEF NewPlayer, ChainSound, CountsSound
<1>3. InstantsSound(NewPlayer, 0) /\ NewPlayer.buffer.bytes <= Capacity
  BY PlayerAssumption DEF NewPlayer, InstantsSound, EmptyBuffer
<1> QED
  BY <1>1, <1>2, <1>3, PlayerAssumption DEF Init, IInv, Sound

(* A PlayFrame event taken off the list leaves a player for which it is due.  *)
LEMMA UnscheduleDue ==
  ASSUME NEW p, NEW t \in Nat, Sound(p, t),
         NEW i \in 1 .. Len(p.wakeups), p.wakeups[i] = t
  PROVE  Due(Unschedule(p, i), t)
<1>1. p \in PlayerRecord /\ p.wakeups \in Seq(Nat)
  BY FieldTypes DEF Sound
<1>2. Len(p.wakeups) = 1 /\ p.state \in {"INITIAL_BUFFERING", "PLAYING", "DONE"}
  <2> DEFINE n == Len(p.wakeups)
  <2>1. n \in Nat /\ n # 0 /\ p.state \in PlayerStates
    BY <1>1, FieldTypes
  <2>2. /\ n <= 1
        /\ p.state \in {"NOT_STARTED", "PAUSED"} => n = 0
    BY <1>1, ChainLength DEF Sound
  <2> HIDE DEF n
  <2>3. n = 1
    BY <2>1, <2>2
  <2>4. p.state \in {"INITIAL_BUFFERING", "PLAYING", "DONE"}
    BY <2>1, <2>2 DEF PlayerStates
  <2> QED
    BY <2>3, <2>4 DEF n
<1> DEFINE left == [j \in 1 .. Len(p.wakeups) - 1 |->
                      IF j < i THEN p.wakeups[j] ELSE p.wakeups[j + 1]]
           q == Unschedule(p, i)
<1>3. left = <<>> /\ left \in Seq(Nat)
  BY <1>2
<1>4. q = [p EXCEPT !.wakeups = left]
  BY DEF Unschedule
<1> HIDE DEF left, q
<1>5. /\ q \in PlayerRecord /\ q.wakeups = <<>>
      /\ q.state = p.state /\ q.buffer = p.buffer
      /\ q.startTime = p.startTime /\ q.interruptionTime = p.interruptionTime
      /\ q.lastPaused = p.lastPaused /\ q.firstBuff = p.firstBuff
      /\ q.framesPlayed = p.framesPlayed /\ q.interruptions = p.interruptions
  BY <1>1, <1>3, <1>4 DEF PlayerRecord
<1>6. p.state = "PLAYING" => MediaClock(q) = t
  <2>1. i = 1
    BY <1>2
  <2> QED
    BY <1>2, <1>5, <2>1 DEF Sound, ChainSound, MediaClock
<1> QED
  BY <1>2, <1>5, <1>6 DEF Due, Sound, CountsSound, InstantsSound, q

(* Every action keeps the player sound.                                       *)
LEMMA NextSound == IInv /\ [Next]_vars => IInv'
<1> SUFFICES ASSUME IInv, [Next]_vars PROVE IInv'
  OBVIOUS
<1>1. now \in Nat
  BY PlayerAssumption DEF IInv
<1>2. player \in PlayerRecord
  BY DEF IInv, Sound
<1>3. ASSUME NEW f \in Frames, Receive(f) PROVE IInv'
  BY <1>1, <1>3, ReceiveFrameSound DEF IInv, Receive
<1>4. CASE FirePlayFrame
  <2>1. PICK i \in 1 .. Len(player.wakeups) :
          /\ player.wakeups[i] = now
          /\ player' = PlayFrame(Unschedule(player, i), now)
          /\ now' = now
    BY <1>4 DEF FirePlayFrame
  <2> QED
    BY <1>1, <2>1, UnscheduleDue, PlayFrameSound DEF IInv
<1>5. CASE FireCheckBuffer
  <2> DEFINE n == player.checks - 1
  <2>1. n \in Nat
    BY <1>2, <1>5, FieldTypes DEF FireCheckBuffer
  <2>2. player' = [player EXCEPT !.checks = n] /\ now' = now
    BY <1>5 DEF FireCheckBuffer
  <2> HIDE DEF n
  <2>3. /\ player' \in PlayerRecord
        /\ player'.state = player.state /\ player'.buffer = player.buffer
        /\ player'.startTime = player.startTime
        /\ player'.interruptionTime = player.interruptionTime
        /\ player'.lastPaused = player.lastPaused
        /\ player'.firstBuff = player.firstBuff
        /\ player'.framesPlayed = player.framesPlayed
        /\ player'.interruptions = player.interruptions
        /\ player'.wakeups = player.wakeups
    BY <1>2, <2>1, <2>2 DEF PlayerRecord
  <2> QED
    BY <2>2, <2>3 DEF IInv, Sound, ChainSound, CountsSound, InstantsSound,
                      MediaClock
<1>6. CASE Stop
  <2>1. /\ player' \in PlayerRecord /\ player'.state = "DONE"
        /\ player'.buffer = player.buffer
        /\ player'.lastPaused = player.lastPaused
        /\ player'.firstBuff = player.firstBuff
        /\ player'.framesPlayed = player.framesPlayed
        /\ player'.interruptions = player.interruptions
        /\ player'.wakeups = player.wakeups
    BY <1>2, <1>6 DEF Stop, PlayerRecord, PlayerStates
  <2>2. Len(player.wakeups) <= 1
    BY <1>2, ChainLength DEF IInv, Sound
  <2>3. player.interruptions <= player.framesPlayed
    BY DEF IInv, Sound, CountsSound
  <2>4. now' = now
    BY <1>6 DEF Stop
  <2> QED
    BY <2>1, <2>2, <2>3, <2>4
       DEF IInv, Sound, ChainSound, CountsSound, InstantsSound
<1>7. CASE Tick
  BY <1>1, <1>2, <1>7, FieldTypes, PlayerAssumption
     DEF Tick, IInv, Sound, InstantsSound
<1>8. CASE UNCHANGED vars
  BY <1>8 DEF vars, IInv
<1> QED
  BY <1>3, <1>4, <1>5, <1>6, <1>7, <1>8 DEF Next

(* No action shows a frame at another instant.                                *)
LEMMA NextOnTime == IInv /\ [Next]_vars => OnTime(player, player', now)
<1> SUFFICES ASSUME IInv, [Next]_vars PROVE OnTime(player, player', now)
  OBVIOUS
<1>1. now \in Nat /\ player \in PlayerRecord /\ Sound(player, now)
  BY PlayerAssumption DEF IInv, Sound
<1>2. ASSUME NEW f \in Frames, Receive(f) PROVE OnTime(player, player', now)
  BY <1>1, <1>2, ReceiveFrameOnTime DEF Receive
<1>3. CASE FirePlayFrame
  <2>1. PICK i \in 1 .. Len(player.wakeups) :
          /\ player.wakeups[i] = now
          /\ player' = PlayFrame(Unschedule(player, i), now)
    BY <1>3 DEF FirePlayFrame
  <2> DEFINE q == Unschedule(player, i)
  <2>2. q.framesPlayed = player.framesPlayed
    BY <1>1 DEF Unschedule, PlayerRecord
  <2>3. Due(q, now)
    BY <1>1, <2>1, UnscheduleDue
  <2> HIDE DEF q
  <2>4. OnTime(q, PlayFrame(q, now), now)
    BY <1>1, <2>3, PlayFrameOnTime
  <2> QED
    BY <2>1, <2>2, <2>4 DEF OnTime, q
<1>4. CASE FireCheckBuffer \/ Stop \/ Tick \/ UNCHANGED vars
  <2>1. player'.framesPlayed = player.framesPlayed
    BY <1>1, <1>4 DEF FireCheckBuffer, Stop, Tick, vars, PlayerRecord
  <2> QED
    BY <2>1 DEF OnTime
<1> QED
  BY <1>2, <1>3, <1>4 DEF Next

(* The play-out is sound in every reachable state.                            *)
LEMMA PlayerSound == Spec => []IInv
  BY InitSound, NextSound, PTL DEF Spec

(* Every member of the player keeps its type: durations that are differences  *)
(* of clock values never go negative.                                         *)
THEOREM PlayerTypeOK == Spec => []TypeOK
<1>1. IInv => TypeOK
  BY DEF IInv, Sound, TypeOK
<1> QED
  BY <1>1, PlayerSound, PTL

(* One chain of PlayFrame events while the player buffers or plays, none      *)
(* while it is paused or has not started.                                     *)
THEOREM PlayerSingleEventChain == Spec => []SingleEventChain
<1>1. IInv => SingleEventChain
  BY DEF IInv, Sound, ChainSound, SingleEventChain
<1> QED
  BY <1>1, PlayerSound, PTL

(* The next PlayFrame, or the pause, falls on the media clock.                *)
THEOREM PlayerClock == Spec => []PlayClock
<1>1. IInv => PlayClock
  BY DEF IInv, Sound, ChainSound, PlayClock, MediaClock
<1> QED
  BY <1>1, PlayerSound, PTL

(* A paused player has nothing to show.                                       *)
THEOREM PlayerPausedMeansStarved == Spec => []PausedMeansStarved
<1>1. IInv => PausedMeansStarved
  BY DEF IInv, Sound, CountsSound, PausedMeansStarved
<1> QED
  BY <1>1, PlayerSound, PTL

(* Interruptions never outnumber the frames shown.                            *)
THEOREM PlayerInterruptionsCounted == Spec => []InterruptionsCounted
<1>1. IInv => InterruptionsCounted
  BY DEF IInv, Sound, CountsSound, InterruptionsCounted
<1> QED
  BY <1>1, PlayerSound, PTL

(* A frame is shown only at its instant on the media clock, whoever called    *)
(* PlayFrame: the simulator, or ReceiveFrame at the end of a pause.           *)
THEOREM PlayerPlayedOnTime == Spec => PlayedOnTime
<1>1. IInv /\ [Next]_vars =>
        [player'.framesPlayed # player.framesPlayed =>
           now = player'.startTime + player'.interruptionTime
                   + FrameInterval * player.framesPlayed]_vars
  BY NextOnTime DEF OnTime
<1> QED
  BY <1>1, PlayerSound, PTL DEF Spec, PlayedOnTime

-----------------------------------------------------------------------------
(* The bytes of the buffer are those of the frames in it. *)

(* g[i] is the size of the first i frames of q.                               *)
IsSum(q, g) ==
  /\ g = [i \in 0 .. Len(q) |-> IF i = 0 THEN 0 ELSE g[i - 1] + q[i].size]
  /\ \A i \in 0 .. Len(q) : g[i] \in Int

(* SizeOf is computed by such a sum.                                          *)
LEMMA SizeIsSum ==
  ASSUME NEW q \in Seq(Frames)
  PROVE  \E g : IsSum(q, g) /\ SizeOf(q) = g[Len(q)]
<1> DEFINE Of(g) == [i \in 0 .. Len(q) |-> IF i = 0 THEN 0 ELSE g[i - 1] + q[i].size]
           F == [i \in 1 .. Len(q) |-> [x \in Int |-> x + q[i].size]]
<1>1. SizeOf(q) = (CHOOSE h : h = Of(h))[Len(q)]
  BY DEF SizeOf
<1>2. Len(q) \in Nat /\ \A i \in 1 .. Len(q) : q[i].size \in Int
  <2>1. ASSUME NEW i \in 1 .. Len(q) PROVE q[i].size \in Int
    <3>1. q[i] \in Frames
      BY ElementOfSeq
    <3> QED
      BY <3>1, PlayerAssumption
  <2> QED
    BY <2>1, LenProperties
<1>3. PICK f : IsRecursion(f, Len(q), 0, F)
  <2> HIDE DEF F
  <2> QED
    BY <1>2, Recursion
<1>4. f = [i \in 0 .. Len(q) |-> IF i = 0 THEN 0 ELSE F[i][f[i - 1]]]
  BY <1>3 DEF IsRecursion
<1>5. \A i \in 0 .. Len(q) : f[i] \in Int
  <2> DEFINE W == [i \in 0 .. Len(q) |-> Int]
  <2>1. f[0] \in W[0]
    BY <1>2, <1>4
  <2>2. ASSUME NEW i \in 1 .. Len(q), f[i - 1] \in W[i - 1] PROVE f[i] \in W[i]
    <3>1. i \in 0 .. Len(q) /\ i - 1 \in 0 .. Len(q) /\ i # 0
      BY <1>2
    <3>2. f[i] = F[i][f[i - 1]] /\ f[i - 1] \in Int
      BY <1>4, <2>2, <3>1
    <3>3. F[i][f[i - 1]] = f[i - 1] + q[i].size
      BY <3>2
    <3>4. PICK a \in Int, b \in Int : a = f[i - 1] /\ b = q[i].size
      BY <1>2, <3>2
    <3>5. f[i] = a + b
      BY <3>2, <3>3, <3>4
    <3> QED
      BY <3>1, <3>5
  <2>3. \A i \in 0 .. Len(q) : f[i] \in W[i]
    <3> HIDE DEF W, F
    <3> QED
      BY <1>2, <2>1, <2>2, Stays
  <2> QED
    BY <2>3
<1>6. f = Of(f)
  <2>1. ASSUME NEW i \in 0 .. Len(q), i # 0
        PROVE  F[i][f[i - 1]] = f[i - 1] + q[i].size
    <3>1. i \in 1 .. Len(q) /\ i - 1 \in 0 .. Len(q)
      BY <1>2, <2>1
    <3>2. f[i - 1] \in Int
      BY <1>5, <3>1
    <3> QED
      BY <3>1, <3>2
  <2> HIDE DEF F
  <2> QED
    BY <1>4, <2>1
<1>7. PICK h : h = (CHOOSE e : e = Of(e)) /\ h = Of(h)
  BY <1>6
<1>8. \A i \in 0 .. Len(q) : h[i] \in Int
  <2> DEFINE W == [i \in 0 .. Len(q) |-> Int]
  <2>1. h[0] \in W[0]
    BY <1>2, <1>7
  <2>2. ASSUME NEW i \in 1 .. Len(q), h[i - 1] \in W[i - 1] PROVE h[i] \in W[i]
    <3>1. i \in 0 .. Len(q) /\ i - 1 \in 0 .. Len(q) /\ i # 0
      BY <1>2
    <3>2. h[i] = h[i - 1] + q[i].size /\ h[i - 1] \in Int
      BY <1>7, <2>2, <3>1
    <3> QED
      BY <1>2, <3>1, <3>2
  <2>3. \A i \in 0 .. Len(q) : h[i] \in W[i]
    <3> HIDE DEF W, Of
    <3> QED
      BY <1>2, <2>1, <2>2, Stays
  <2> QED
    BY <2>3
<1>9. IsSum(q, h) /\ SizeOf(q) = h[Len(q)]
  BY <1>1, <1>7, <1>8 DEF IsSum
<1> QED
  BY <1>9

(* The steps of a sum.                                                        *)
LEMMA SumSteps ==
  ASSUME NEW q \in Seq(Frames), NEW g, IsSum(q, g)
  PROVE  /\ g[0] = 0 /\ Len(q) \in Nat
         /\ \A i \in 1 .. Len(q) :
              /\ g[i] = g[i - 1] + q[i].size
              /\ g[i] \in Int /\ g[i - 1] \in Int /\ q[i].size \in Int
<1>1. Len(q) \in Nat
  BY LenProperties
<1>2. g[0] = 0
  BY <1>1 DEF IsSum
<1>3. ASSUME NEW i \in 1 .. Len(q)
      PROVE  /\ g[i] = g[i - 1] + q[i].size
             /\ g[i] \in Int /\ g[i - 1] \in Int /\ q[i].size \in Int
  <2>1. i \in 0 .. Len(q) /\ i - 1 \in 0 .. Len(q) /\ i # 0
    BY <1>1
  <2>2. q[i].size \in Int
    <3>1. q[i] \in Frames
      BY ElementOfSeq
    <3> QED
      BY <3>1, PlayerAssumption
  <2> QED
    BY <2>1, <2>2 DEF IsSum
<1> QED
  BY <1>1, <1>2, <1>3

(* A frame pushed adds its size.                                              *)
LEMMA SizeOfAppend ==
  ASSUME NEW q \in Seq(Frames), NEW f \in Frames
  PROVE  SizeOf(Append(q, f)) = SizeOf(q) + f.size
<1>1. PICK r \in Seq(Frames) : r = Append(q, f)
  BY AppendProperties
<1>2. PICK n \in Nat : n = Len(q)
  BY LenProperties
<1>3. Len(r) = n + 1 /\ r[n + 1] = f /\ \A i \in 1 .. n : r[i] = q[i]
  BY <1>1, <1>2, AppendProperties
<1>4. PICK g, h : /\ IsSum(q, g) /\ SizeOf(q) = g[Len(q)]
                  /\ IsSum(r, h) /\ SizeOf(r) = h[Len(r)]
  BY SizeIsSum
<1>5. /\ g[0] = 0 /\ h[0] = 0
      /\ \A i \in 1 .. n : g[i] = g[i - 1] + q[i].size
      /\ \A i \in 1 .. n + 1 : h[i] = h[i - 1] + r[i].size
  BY <1>2, <1>3, <1>4, SumSteps
<1> DEFINE W == [i \in 0 .. n |-> {g[i]}]
<1>6. ASSUME NEW i \in 1 .. n, h[i - 1] \in W[i - 1] PROVE h[i] \in W[i]
  <2>1. i \in 0 .. n /\ i - 1 \in 0 .. n /\ i \in 1 .. n + 1
    OBVIOUS
  <2>2. h[i - 1] = g[i - 1]
    BY <1>6, <2>1
  <2>3. h[i] = g[i]
    BY <1>3, <1>5, <2>1, <2>2
  <2> QED
    BY <2>1, <2>3
<1>7. h[0] \in W[0]
  BY <1>5
<1>8. \A i \in 0 .. n : h[i] \in W[i]
  <2> HIDE DEF W
  <2> QED
    BY <1>6, <1>7, Stays
<1>9. h[n] = g[n]
  BY <1>8
<1>10. h[n + 1] = h[n] + f.size
  <2>1. n + 1 \in 1 .. n + 1 /\ (n + 1) - 1 = n
    OBVIOUS
  <2> QED
    BY <1>3, <1>5, <2>1
<1> QED
  BY <1>1, <1>2, <1>3, <1>4, <1>9, <1>10

(* A frame popped takes its size away.                                        *)
LEMMA SizeOfTail ==
  ASSUME NEW q \in Seq(Frames), q # <<>>
  PROVE  SizeOf(Tail(q)) = SizeOf(q) - Head(q).size
<1>1. PICK r \in Seq(Frames) : r = Tail(q)
  BY HeadTailProperties
<1>2. PICK n \in Nat : n = Len(r)
  BY LenProperties
<1>3. Len(q) = n + 1 /\ Head(q) = q[1] /\ \A i \in 1 .. n : r[i] = q[i + 1]
  <2>1. /\ Len(r) = Len(q) - 1 /\ Head(q) = q[1] /\ Len(q) \in Nat
        /\ \A i \in 1 .. Len(q) - 1 : r[i] = q[i + 1]
    BY <1>1, HeadTailProperties, LenProperties
  <2> QED
    BY <1>2, <2>1
<1>4. PICK g, h : /\ IsSum(q, g) /\ SizeOf(q) = g[Len(q)]
                  /\ IsSum(r, h) /\ SizeOf(r) = h[Len(r)]
  BY SizeIsSum
<1>5. /\ g[0] = 0 /\ h[0] = 0
      /\ \A i \in 1 .. n + 1 : /\ g[i] = g[i - 1] + q[i].size
                               /\ g[i] \in Int /\ q[i].size \in Int
      /\ \A i \in 1 .. n : h[i] = h[i - 1] + r[i].size
  <2>1. /\ g[0] = 0
        /\ \A i \in 1 .. n + 1 : /\ g[i] = g[i - 1] + q[i].size
                                 /\ g[i] \in Int /\ q[i].size \in Int
    BY <1>3, <1>4, SumSteps
  <2>2. h[0] = 0 /\ \A i \in 1 .. n : h[i] = h[i - 1] + r[i].size
    BY <1>2, <1>4, SumSteps
  <2> QED
    BY <2>1, <2>2
<1>6. PICK s \in Int : s = q[1].size /\ g[1] = s
  <2>1. 1 \in 1 .. n + 1 /\ 1 - 1 = 0
    OBVIOUS
  <2>2. g[1] = 0 + q[1].size /\ q[1].size \in Int
    BY <1>5, <2>1
  <2> QED
    BY <2>2
<1> DEFINE W == [i \in 0 .. n |-> {g[i + 1] - s}]
<1>7. ASSUME NEW i \in 1 .. n, h[i - 1] \in W[i - 1] PROVE h[i] \in W[i]
  <2>1. /\ i \in 0 .. n /\ i - 1 \in 0 .. n /\ i \in 1 .. n + 1 /\ i + 1 \in 1 .. n + 1
        /\ (i + 1) - 1 = i /\ (i - 1) + 1 = i
    OBVIOUS
  <2>2. h[i - 1] = g[i] - s
    BY <1>7, <2>1
  <2>3. PICK a \in Int, b \in Int, c \in Int :
          a = g[i] /\ b = g[i + 1] /\ c = q[i + 1].size /\ b = a + c
    <3>1. g[i] \in Int /\ g[i + 1] \in Int /\ q[i + 1].size \in Int
      BY <1>5, <2>1
    <3>2. g[i + 1] = g[i] + q[i + 1].size
      BY <1>5, <2>1
    <3> HIDE DEF W
    <3> QED
      BY <3>1, <3>2
  <2>4. h[i] = h[i - 1] + c
    BY <1>3, <1>5, <2>3
  <2>5. h[i] = b - s
    <3>1. h[i - 1] = a - s
      BY <2>2, <2>3
    <3>2. h[i] = (a - s) + c
      BY ONLY <2>4, <3>1
    <3>3. (a - s) + c = b - s
      BY ONLY <2>3, a \in Int, b \in Int, c \in Int, s \in Int
    <3> QED
      BY ONLY <3>2, <3>3
  <2> QED
    BY <2>1, <2>3, <2>5
<1>8. h[0] \in W[0]
  <2>1. g[0 + 1] - s = 0
    BY <1>6
  <2> QED
    BY <1>5, <2>1
<1>9. \A i \in 0 .. n : h[i] \in W[i]
  <2> HIDE DEF W
  <2> QED
    BY <1>7, <1>8, Stays
<1>10. h[n] = g[n + 1] - s
  BY <1>9
<1> QED
  BY <1>1, <1>2, <1>3, <1>4, <1>6, <1>10

(* What m_size_in_bytes should be.                                            *)
Accounted(b) == b.bytes = SizeOf(b.queue)

(* Push and Pop account for the frame they move.                              *)
LEMMA MovesAccounted ==
  ASSUME NEW b \in FrameBuffers, Accounted(b)
  PROVE  /\ \A f \in Frames : Accounted(Push(b, f))
         /\ b.queue # <<>> => Accounted(Pop(b))
<1>1. b.queue \in Seq(Frames)
  BY DEF FrameBuffers
<1>2. ASSUME NEW f \in Frames PROVE Accounted(Push(b, f))
  BY <1>1, SizeOfAppend DEF Accounted, Push
<1>3. ASSUME b.queue # <<>> PROVE Accounted(Pop(b))
  BY <1>1, <1>3, SizeOfTail DEF Accounted, Pop
<1> QED
  BY <1>2, <1>3

(* Whatever it does, PlayFrame keeps the account.                             *)
LEMMA PlayFrameAccounted ==
  ASSUME NEW p \in PlayerRecord, NEW t, Accounted(p.buffer)
  PROVE  Accounted(PlayFrame(p, t).buffer)
<1>1. p.buffer \in FrameBuffers
  BY FieldTypes
<1> DEFINE q == IF p.state = "INITIAL_BUFFERING" THEN BeginPlayback(p, t) ELSE p
<1>2. q.buffer = p.buffer
  BY DEF BeginPlayback, PlayerRecord
<1>3. Pause(q, t).buffer = p.buffer
  BY <1>2 DEF Pause, BeginPlayback, PlayerRecord
<1>4. ShowFrame(q, t).buffer = Pop(p.buffer)
  BY <1>2 DEF ShowFrame, BeginPlayback, PlayerRecord
<1>5. PlayFrame(p, t) = IF p.state = "DONE" THEN p
                        ELSE IF q.buffer.queue = <<>> THEN Pause(q, t)
                        ELSE ShowFrame(q, t)
  BY Zenon DEF PlayFrame
<1> HIDE DEF q
<1> QED
  BY <1>1, <1>2, <1>3, <1>4, <1>5, MovesAccounted

(* So does ReceiveFrame, which may show the frame it pushed.                  *)
LEMMA ReceiveFrameAccounted ==
  ASSUME NEW p \in PlayerRecord, NEW t \in Nat, NEW f \in Frames, Sound(p, t),
         Accounted(p.buffer)
  PROVE  Accounted(ReceiveFrame(p, f, t).buffer)
<1> DEFINE buf == Push(p.buffer, f)
           q == [p EXCEPT !.buffer = buf]
<1>1. CASE ~ Fits(p.buffer, f)
  BY <1>1 DEF ReceiveFrame
<1>2. CASE Fits(p.buffer, f)
  <2>1. p.buffer \in FrameBuffers
    BY FieldTypes
  <2>2. buf \in FrameBuffers /\ Accounted(buf)
    BY <1>2, <2>1, PushFacts, MovesAccounted
  <2>3. ReceiveFrame(p, f, t) = AfterPush(q, t)
    BY <1>2 DEF ReceiveFrame
  <2> HIDE DEF buf
  <2>4. q \in PlayerRecord /\ q.buffer = buf /\ q.lastPaused = p.lastPaused
    BY <2>2 DEF PlayerRecord
  <2> HIDE DEF q
  <2>5. CASE q.state = "PAUSED"
    <3> DEFINE time == q.interruptionTime + (t - q.lastPaused)
               r == [q EXCEPT !.state = "PLAYING", !.interruptionTime = time]
    <3>1. time \in Nat
      BY <2>4, FieldTypes DEF Sound, InstantsSound
    <3>2. AfterPush(q, t) = PlayFrame(r, t)
      BY <2>5, Zenon DEF AfterPush, Resume
    <3> HIDE DEF time
    <3>3. r \in PlayerRecord /\ r.buffer = buf
      BY <2>4, <3>1 DEF PlayerRecord, PlayerStates
    <3> HIDE DEF r
    <3> QED
      BY <2>2, <2>3, <3>2, <3>3, PlayFrameAccounted
  <2>6. CASE q.state # "PAUSED"
    <3>1. AfterPush(q, t).buffer = buf
      BY <2>4, <2>6 DEF AfterPush, Begin, PlayerRecord
    <3> QED
      BY <2>2, <2>3, <3>1
  <2> QED
    BY <2>5, <2>6
<1> QED
  BY <1>1, <1>2

(* The account of the player's own buffer.                                    *)
BufferAccounted == Accounted(player.buffer)

(* Every action keeps the account.                                            *)
LEMMA NextAccounted == IInv /\ BufferAccounted /\ [Next]_vars => BufferAccounted'
<1> SUFFICES ASSUME IInv, Accounted(player.buffer), [Next]_vars
             PROVE  Accounted(player'.buffer)
  BY DEF BufferAccounted
<1>1. now \in Nat /\ player \in PlayerRecord /\ Sound(player, now)
  BY PlayerAssumption DEF IInv, Sound
<1>2. ASSUME NEW f \in Frames, Receive(f) PROVE Accounted(player'.buffer)
  BY <1>1, <1>2, ReceiveFrameAccounted DEF Receive
<1>3. CASE FirePlayFrame
  <2>1. PICK i \in 1 .. Len(player.wakeups) :
          /\ player.wakeups[i] = now
          /\ player' = PlayFrame(Unschedule(player, i), now)
    BY <1>3 DEF FirePlayFrame
  <2> DEFINE q == Unschedule(player, i)
  <2>2. q.buffer = player.buffer
    BY <1>1 DEF Unschedule, PlayerRecord
  <2>3. q \in PlayerRecord
    BY <1>1, <2>1, UnscheduleDue DEF Due
  <2> HIDE DEF q
  <2>4. Accounted(PlayFrame(q, now).buffer)
    BY <2>2, <2>3, PlayFrameAccounted
  <2> QED
    BY <2>1, <2>4 DEF q
<1>4. CASE FireCheckBuffer \/ Stop \/ Tick \/ UNCHANGED vars
  <2>1. player'.buffer = player.buffer
    BY <1>1, <1>4 DEF FireCheckBuffer, Stop, Tick, vars, PlayerRecord
  <2> QED
    BY <2>1
<1> QED
  BY <1>2, <1>3, <1>4 DEF Next

(* m_size_in_bytes is the size of what is queued and within the capacity,     *)
(* whatever order the pushes of the parser and the pops of the play-out come  *)
(* in.                                                                        *)
THEOREM PlayerBytesAccounted == Spec => []BytesAccounted
<1>1. Init => BufferAccounted
  <2> SUFFICES ASSUME Init PROVE Accounted(player.buffer)
    BY DEF BufferAccounted
  <2>1. player.buffer = EmptyBuffer
    BY DEF Init, NewPlayer
  <2>2. <<>> \in Seq(Frames) /\ Len(<<>>) = 0
    BY EmptySeq
  <2>3. PICK g : IsSum(<<>>, g) /\ SizeOf(<<>>) = g[Len(<<>>)]
    BY <2>2, SizeIsSum
  <2>4. SizeOf(<<>>) = 0
    BY <2>2, <2>3, SumSteps
  <2> QED
    BY <2>1, <2>4 DEF Accounted, EmptyBuffer
<1>2. IInv /\ BufferAccounted => BytesAccounted
  BY DEF IInv, Sound, Accounted, BufferAccounted, BytesAccounted
<1> QED
  BY <1>1, <1>2, InitSound, NextSound, NextAccounted, PTL DEF Spec
=============================================================================
