----------------------------- MODULE MpegPlayer -----------------------------
(***************************************************************************)
(* The play-out side of a DASH client: class MpegPlayer and the FrameBuffer *)
(* it owns (contrib/dash/model/mpeg-player.{h,cc}), driven by the event     *)
(* list of the discrete-event simulator.                                    *)
(*                                                                         *)
(* A player is a record, one field per data member, so that a handler of    *)
(* the client that hands over several frames in one event can be written    *)
(* as a composition of the operators below.  Two more fields hold the part  *)
(* of the simulator's event list that belongs to this player:               *)
(*   wakeups  the due times of the scheduled PlayFrame events               *)
(*   checks   how many 0 ms CheckBuffer events wait for the current instant *)
(***************************************************************************)
EXTENDS Integers, Sequences

CONSTANTS
  Frames,         \* the MPEG messages that can arrive: [seg, res, size]
  Capacity,       \* FrameBuffer::m_capacity, in units of size
  FrameInterval,  \* MilliSeconds (20) in PlayFrame
  StartDelay,     \* Seconds (1) in ReceiveFrame
  SimStop         \* Simulator::Stop: no event after this instant is run

ASSUME PlayerAssumption ==
  /\ Capacity \in Nat
  /\ FrameInterval \in Nat \ {0}
  /\ StartDelay \in Nat \ {0}
  /\ SimStop \in Nat
  /\ \A f \in Frames : f.seg \in Nat /\ f.res \in Nat /\ f.size \in Nat

VARIABLES
  player,  \* the MpegPlayer object
  now      \* Simulator::Now ()

vars == <<player, now>>

PlayerStates ==
  {"NOT_STARTED", "INITIAL_BUFFERING", "PLAYING", "PAUSED", "DONE"}

\* The value m_minRate and m_minminRate start from.
NoRate == 100000000

-----------------------------------------------------------------------------
(* FrameBuffer: b.queue is m_queue, b.bytes is m_size_in_bytes. *)

EmptyBuffer == [queue |-> <<>>, bytes |-> 0]

Fits(b, f) == b.bytes + f.size <= Capacity

Push(b, f) == [queue |-> Append(b.queue, f), bytes |-> b.bytes + f.size]

\* Faulty variant: the size of the frame popped is not given back.
Pop_SizeKept(b) == [queue |-> Tail(b.queue), bytes |-> b.bytes]

Pop(b) == [queue |-> Tail(b.queue), bytes |-> b.bytes - Head(b.queue).size]

-----------------------------------------------------------------------------
(* MpegPlayer *)

NewPlayer ==
  [state |-> "NOT_STARTED", buffer |-> EmptyBuffer,
   startTime |-> 0, interruptionTime |-> 0, lastPaused |-> 0,
   interruptions |-> 0, framesPlayed |-> 0,
   rates |-> [total |-> 0, min |-> NoRate, minmin |-> NoRate, max |-> 0],
   firstPlay |-> FALSE, firstBuff |-> 0, initBuff |-> 0,
   wakeups |-> <<>>, checks |-> 0]

\* When, counted from t, the frame of media time playTime is due.
GetRealPlayTime(p, playTime, t) ==
  p.startTime + p.interruptionTime
    + (IF p.state = "PAUSED" THEN t - p.lastPaused ELSE 0) + playTime - t

\* Faulty variant: the instant of the pause is not recorded.
Pause_NotTimed(p, t) ==
  [p EXCEPT !.state = "PAUSED", !.interruptions = @ + 1]

\* PlayFrame found nothing to show.  No event is scheduled: only a call of
\* ReceiveFrame can get the player out of this state.
Pause(p, t) ==
  [p EXCEPT !.state = "PAUSED", !.lastPaused = t, !.interruptions = @ + 1]

Smaller(x, y) == IF x < y THEN x ELSE y
Larger(x, y) == IF x > y THEN x ELSE y

\* m_totalRate, m_maxRate, m_minminRate and m_minRate after the frame f; the
\* last leaves out the first segment, whose rate is always the lowest.
Count(r, f) ==
  [total |-> r.total + f.res,
   max |-> Larger(f.res, r.max),
   minmin |-> Smaller(f.res, r.minmin),
   min |-> IF f.seg > 0 THEN Smaller(f.res, r.min) ELSE r.min]

\* PlayFrame shows the head of the queue and schedules its successor and the
\* client's look at the socket, where the space just freed may be used.
ShowFrame(p, t) ==
  [p EXCEPT !.buffer = Pop(@),
            !.rates = Count(@, Head(p.buffer.queue)),
            !.framesPlayed = @ + 1,
            !.wakeups = Append(@, t + FrameInterval),
            !.checks = @ + 1]

\* The first PlayFrame ends the initial buffering.
BeginPlayback(p, t) ==
  [p EXCEPT !.startTime = t, !.state = "PLAYING",
            !.initBuff = IF p.firstPlay THEN @ ELSE t - p.firstBuff,
            !.firstPlay = TRUE]

PlayFrame(p, t) ==
  LET q == IF p.state = "INITIAL_BUFFERING" THEN BeginPlayback(p, t) ELSE p
  IN  IF p.state = "DONE" THEN p
      ELSE IF q.buffer.queue = <<>> THEN Pause(q, t)
      ELSE ShowFrame(q, t)

\* A paused player resumes at once, with the frame just pushed.
Resume(p, t, pause) ==
  PlayFrame([p EXCEPT !.state = "PLAYING", !.interruptionTime = @ + pause], t)

\* A player that has not started schedules its first PlayFrame.
Begin(p, t, state, base) ==
  [p EXCEPT !.state = state, !.firstBuff = IF p.firstPlay THEN @ ELSE t,
            !.wakeups = Append(@, base + StartDelay)]

\* Faulty variants of AfterPush: the pause subtracted the wrong way round; not
\* accounted at all; the player left paused; m_state not set, so that every
\* frame schedules a PlayFrame; the event scheduled before m_firstBuff is set.
AfterPush_PauseNegated(p, t) ==
  CASE p.state = "PAUSED" -> Resume(p, t, p.lastPaused - t)
    [] p.state = "NOT_STARTED" -> Begin(p, t, "INITIAL_BUFFERING", t)
    [] OTHER -> p

AfterPush_PauseForgotten(p, t) ==
  CASE p.state = "PAUSED" -> Resume(p, t, 0)
    [] p.state = "NOT_STARTED" -> Begin(p, t, "INITIAL_BUFFERING", t)
    [] OTHER -> p

AfterPush_StaysPaused(p, t) ==
  IF p.state = "NOT_STARTED" THEN Begin(p, t, "INITIAL_BUFFERING", t) ELSE p

AfterPush_StateNotSet(p, t) ==
  CASE p.state = "PAUSED" -> Resume(p, t, t - p.lastPaused)
    [] p.state = "NOT_STARTED" -> Begin(p, t, "NOT_STARTED", t)
    [] OTHER -> p

AfterPush_StaleBase(p, t) ==
  CASE p.state = "PAUSED" -> Resume(p, t, t - p.lastPaused)
    [] p.state = "NOT_STARTED" -> Begin(p, t, "INITIAL_BUFFERING", p.firstBuff)
    [] OTHER -> p

\* What ReceiveFrame does once the frame is in the buffer.
AfterPush(p, t) ==
  CASE p.state = "PAUSED" -> Resume(p, t, t - p.lastPaused)
    [] p.state = "NOT_STARTED" -> Begin(p, t, "INITIAL_BUFFERING", t)
    [] OTHER -> p

\* ReceiveFrame returns false, and changes nothing, exactly when the frame does
\* not fit.
ReceiveFrame(p, f, t) ==
  IF Fits(p.buffer, f) THEN AfterPush([p EXCEPT !.buffer = Push(@, f)], t) ELSE p

\* The event i of the list is taken off it before its handler runs.
Unschedule(p, i) ==
  [p EXCEPT !.wakeups =
     [j \in 1 .. Len(@) - 1 |-> IF j < i THEN @[j] ELSE @[j + 1]]]

-----------------------------------------------------------------------------
(* The player by itself: frames come from the parser at any instant. *)

Init == player = NewPlayer /\ now = 0

Receive(f) ==
  /\ player' = ReceiveFrame(player, f, now)
  /\ UNCHANGED now

FirePlayFrame ==
  \E i \in 1 .. Len(player.wakeups) :
    /\ player.wakeups[i] = now
    /\ player' = PlayFrame(Unschedule(player, i), now)
    /\ UNCHANGED now

\* DashClient::CheckBuffer, scheduled by PlayFrame; what it reads from the
\* socket reaches the player through Receive.
FireCheckBuffer ==
  /\ player.checks > 0
  /\ player' = [player EXCEPT !.checks = @ - 1]
  /\ UNCHANGED now

\* DashClient::StopApplication ends the play-out for good.
Stop ==
  /\ player' = [player EXCEPT !.state = "DONE"]
  /\ UNCHANGED now

\* The simulator moves on when no event of the current instant is left.
Tick ==
  /\ now < SimStop
  /\ player.checks = 0
  /\ \A i \in 1 .. Len(player.wakeups) : player.wakeups[i] > now
  /\ now' = now + 1
  /\ UNCHANGED player

Next ==
  \/ \E f \in Frames : Receive(f)
  \/ FirePlayFrame
  \/ FireCheckBuffer
  \/ Stop
  \/ Tick

\* The simulator runs every event of an instant and then moves on.
Fairness == WF_vars(FirePlayFrame) /\ WF_vars(FireCheckBuffer) /\ WF_vars(Tick)

Spec == Init /\ [][Next]_vars /\ Fairness
-----------------------------------------------------------------------------
(* Properties *)

FrameBuffers == [queue : Seq(Frames), bytes : Int]

RateStatistics == [total : Nat, min : Nat, minmin : Nat, max : Nat]

PlayerRecord ==
  [state : PlayerStates, buffer : FrameBuffers,
   startTime : Nat, interruptionTime : Nat, lastPaused : Nat,
   interruptions : Nat, framesPlayed : Nat, rates : RateStatistics,
   firstPlay : BOOLEAN, firstBuff : Nat, initBuff : Nat,
   wakeups : Seq(Nat), checks : Nat]

(* Every member keeps its type; in particular no clock difference that is    *)
(* added to a duration is ever negative.                                     *)
TypeOK == player \in PlayerRecord /\ now \in 0 .. SimStop

(* PlayFrame reschedules itself and ReceiveFrame starts it again after a     *)
(* pause: there is exactly one chain of PlayFrame events while the player    *)
(* buffers or plays, and none while it has not started or is paused.  A      *)
(* second chain would play the video at double speed, a lost one freeze it.  *)
SingleEventChain ==
  /\ player.state \in {"INITIAL_BUFFERING", "PLAYING"} => Len(player.wakeups) = 1
  /\ player.state \in {"NOT_STARTED", "PAUSED"} => Len(player.wakeups) = 0
  /\ player.state = "DONE" => Len(player.wakeups) <= 1

(* The media clock: start time, accumulated interruptions and the frames     *)
(* shown account for the instant of the next PlayFrame, or of the pause.     *)
(* This is what makes GetRealPlayTime, and every decision of the rate        *)
(* algorithms that rests on it, a true figure.                               *)
PlayClock ==
  LET clock == player.startTime + player.interruptionTime
                 + FrameInterval * player.framesPlayed
  IN  /\ player.state = "PLAYING" => player.wakeups = <<clock>>
      /\ player.state = "PAUSED" => player.lastPaused = clock

(* PlayFrame pauses the player only when it has nothing to show, and the     *)
(* frame that arrives next is shown at once: a paused player never sits on   *)
(* buffered frames, which no event would ever play.                          *)
PausedMeansStarved == player.state = "PAUSED" => player.buffer.queue = <<>>

(* An interruption is always preceded by at least one frame shown since the  *)
(* last one: a resumed player shows the frame that resumed it before it can  *)
(* starve again, and the play-out never begins with an interruption.         *)
InterruptionsCounted ==
  /\ player.interruptions <= player.framesPlayed
  /\ player.state = "PLAYING" => player.interruptions < player.framesPlayed

SizeOf(q) ==
  LET sum[i \in 0 .. Len(q)] == IF i = 0 THEN 0 ELSE sum[i - 1] + q[i].size
  IN  sum[Len(q)]

(* m_size_in_bytes is the size of what is queued and never exceeds the       *)
(* capacity, whatever order the pushes of the parser and the pops of the     *)
(* play-out come in.                                                         *)
BytesAccounted ==
  /\ player.buffer.bytes = SizeOf(player.buffer.queue)
  /\ player.buffer.bytes <= Capacity

(* A frame is shown only at its instant on the media clock, whether the      *)
(* simulator's event or the frame that ends a pause caused it.               *)
PlayedOnTime ==
  [][player'.framesPlayed # player.framesPlayed =>
       now = player'.startTime + player'.interruptionTime
               + FrameInterval * player.framesPlayed]_vars

(* No event is left behind and no chain of 0 ms events keeps the clock from  *)
(* moving: the simulation reaches its end.                                   *)
ReachesStop == <>(now = SimStop)
=============================================================================
