----------------------------- MODULE DashClient -----------------------------
(***************************************************************************)
(* One DASH client: class DashClient (contrib/dash/model/dash-client.cc),   *)
(* its HttpParser (http-parser.cc) and its MpegPlayer (module MpegPlayer),  *)
(* between a TCP socket and the event list of the simulator.                *)
(*                                                                         *)
(* The client is a record and every handler an operator on it, because the  *)
(* handlers call each other: data from the socket makes the parser hand     *)
(* frames to the client, which resumes the player and, on the last frame of *)
(* a segment, sends the next request, all in one event.                     *)
(*                                                                         *)
(* Time is abstracted: a scheduled event may run at any moment, except that *)
(* the CheckBuffer a PlayFrame schedules for the same instant runs before   *)
(* the next PlayFrame.  The player's clock stands still at 0.               *)
(*                                                                         *)
(* The bytes of the stream are units; a message is HeaderSize units of HTTP *)
(* and MPEG headers followed by its payload.  The unit [frame, k] is the    *)
(* k-th of its message, and only the first HeaderSize can be parsed.        *)
(***************************************************************************)
EXTENDS Integers, Sequences

CONSTANTS
  Rates,             \* the bit rates the client may ask for
  Sizes,             \* the sizes of messages, headers included
  HeaderSize,        \* HTTPHeader plus MPEGHeader, in units
  FramesPerSegment,  \* MPEG_FRAMES_PER_SEGMENT
  Capacity,          \* bufferSpace: the capacity of the player's buffer
  RxCapacity,        \* RcvBufSize of the socket
  MaxSegments,       \* bound: the server answers requests below this segment
  MaxLosses,         \* bound: how many connections TCP gives up
  MayStop            \* bound: whether StopApplication is ever called

ASSUME ClientAssumption ==
  /\ Rates \subseteq Nat /\ Rates # {}
  /\ HeaderSize \in Nat \ {0}
  /\ Sizes \subseteq {s \in Nat : s >= HeaderSize /\ s <= Capacity} /\ Sizes # {}
  /\ FramesPerSegment \in Nat \ {0}
  /\ Capacity \in Nat
  /\ RxCapacity \in Nat /\ RxCapacity >= HeaderSize
  /\ MaxSegments \in Nat
  /\ MaxLosses \in Nat
  /\ MayStop \in BOOLEAN

VARIABLES
  client,    \* the DashClient with its parser, player, socket and events
  toServer,  \* messages of this connection the server has not read
  toClient,  \* units of this connection that TCP has not delivered
  unacked,   \* whether TCP waits for an acknowledgement of the server
  served,    \* the segments generated so far: [seg, bytes]
  losses,    \* connections given up so far
  stopped    \* whether StopApplication was called

vars == <<client, toServer, toClient, unacked, served, losses, stopped>>

\* The MPEG messages the server can send.
Messages ==
  [seg : 0 .. MaxSegments - 1, id : 0 .. FramesPerSegment - 1,
   res : Rates, size : Sizes]

P == INSTANCE MpegPlayer
       WITH Frames <- Messages, FrameInterval <- 1, StartDelay <- 1,
            SimStop <- 0, player <- client.player, now <- 0

FirstRate == CHOOSE r \in Rates : \A s \in Rates : r <= s

-----------------------------------------------------------------------------
(* Helpers of the client *)

\* The client before StartApplication.  "delayed" counts the RequestSegment
\* events in the list, keepAlive says whether KeepAliveTimeout is in it,
\* "data" and msgSize are the parser's m_pending_packet and
\* m_pending_message_size, rx is the receive buffer of the socket, "out" what
\* the current event sends, "measured" what AddBitRate was last called with.
NewClient ==
  [player |-> P!NewPlayer, socket |-> "NULL", connected |-> FALSE,
   pending |-> FALSE, segmentId |-> 0, bitRate |-> FirstRate,
   segmentBytes |-> 0, measured |-> [seg |-> -1, bytes |-> 0],
   delayed |-> 0, keepAlive |-> FALSE,
   data |-> <<>>, msgSize |-> 0, rx |-> <<>>, out |-> <<>>, aborted |-> FALSE]

\* TcpSocketBase::Send succeeds in these states; otherwise it returns -1.
CanSend(c) == c.socket \in {"SYN_SENT", "ESTABLISHED"}

Blank == [kind |-> "BLANK", seg |-> 0, rate |-> 0]

\* SendBlank ignores the result of Send.
SendBlank(c) == IF CanSend(c) THEN [c EXCEPT !.out = Append(@, Blank)] ELSE c

\* The request for the current segment; NS_FATAL_ERROR when Send refuses it.
SendRequest(c) ==
  IF CanSend(c)
  THEN [c EXCEPT !.out = Append(@, [kind |-> "REQUEST", seg |-> c.segmentId,
                                    rate |-> c.bitRate]),
                 !.pending = TRUE, !.segmentId = @ + 1, !.segmentBytes = 0]
  ELSE [c EXCEPT !.aborted = TRUE]

\* Faulty variants of RequestSegment: m_RequestPending is not set;
\* m_segment_bytes is not reset; m_connected is not looked at.
RequestSegment_NotPending(c) ==
  CASE c.pending -> c
    [] ~c.pending /\ ~c.connected -> c
    [] OTHER -> [SendRequest(c) EXCEPT !.pending = FALSE]

RequestSegment_BytesKept(c) ==
  CASE c.pending -> c
    [] ~c.pending /\ ~c.connected -> [c EXCEPT !.pending = TRUE]
    [] OTHER -> [SendRequest(c) EXCEPT !.segmentBytes = c.segmentBytes]

RequestSegment_Unconnected(c) == IF c.pending THEN c ELSE SendRequest(c)

\* m_RequestPending is set before m_connected is looked at: a call without a
\* connection sends nothing and still counts as a request.
RequestSegment(c) ==
  CASE c.pending -> c
    [] ~c.pending /\ ~c.connected -> [c EXCEPT !.pending = TRUE]
    [] OTHER -> SendRequest(c)

\* StartApplication creates a socket and connects it unless there is one.
StartApplication(c) ==
  IF c.socket = "NULL" THEN [c EXCEPT !.socket = "SYN_SENT", !.rx = <<>>] ELSE c

\* Faulty variant: m_RequestPending is reset, so that the new connection asks
\* for the next segment while the parser still holds a part of this one.
ConnectionLost_RequestAgain(c) ==
  StartApplication([c EXCEPT !.socket = "NULL", !.connected = FALSE,
                             !.pending = FALSE])

\* ConnectionFailed and ConnectionErrorClosed: drop the socket, start again.
\* Parser, player and m_RequestPending are left as they are.
ConnectionLost(c) ==
  StartApplication([c EXCEPT !.socket = "NULL", !.connected = FALSE])

ConnectionSucceeded(c) ==
  RequestSegment([c EXCEPT !.socket = "ESTABLISHED", !.connected = TRUE])

\* TcpSocketBase::Close: with unread data, or while connecting, the socket
\* resets the connection and reports an error to its owner before returning.
CloseSocket(c) ==
  IF c.socket = "SYN_SENT" \/ c.rx # <<>> THEN ConnectionLost(c)
  ELSE IF c.socket = "ESTABLISHED" THEN [c EXCEPT !.socket = "CLOSING"]
  ELSE c

StopApplication(c) ==
  [CloseSocket(c) EXCEPT !.connected = FALSE, !.player.state = "DONE"]

-----------------------------------------------------------------------------
(* Receiving *)

\* The last frame of a segment: measure its throughput, let the adaptation
\* choose (next.rate, and whether to wait first), ask for the next segment.
LastFrame(c, f, next) ==
  LET d == [c EXCEPT !.pending = FALSE, !.bitRate = next.rate,
                     !.measured = [seg |-> f.seg, bytes |-> c.segmentBytes]]
  IN  IF next.wait THEN [d EXCEPT !.delayed = @ + 1] ELSE RequestSegment(d)

\* Faulty variant: the request is sent when the first frame of the next
\* segment is still due, one frame early.
MessageReceived_OneEarly(c, f, next) ==
  LET d == [c EXCEPT !.player = P!ReceiveFrame(@, f, 0),
                     !.segmentBytes = @ + f.size]
  IN  IF d.player.state # "DONE" /\ f.id = FramesPerSegment - 2
      THEN LastFrame(d, f, next) ELSE d

\* The player has room for f.  After StopApplication the frame is counted but
\* the segment is never completed.
MessageReceived(c, f, next) ==
  LET d == [c EXCEPT !.player = P!ReceiveFrame(@, f, 0),
                     !.segmentBytes = @ + f.size]
  IN  IF d.player.state # "DONE" /\ f.id = FramesPerSegment - 1
      THEN LastFrame(d, f, next) ELSE d

HeadersIn(c) == Len(c.data) >= HeaderSize

Front(c) == Head(c.data).frame

\* A complete message is at the front of m_pending_packet.
Complete(c) == HeadersIn(c) /\ Len(c.data) >= Front(c).size

\* One round of the loop in TryToPushToPlayer.
\* Faulty variants: a message the player refused is dropped; the whole pending
\* packet is dropped with the message.
ParseMessage_RefusedDropped(c, next) ==
  LET d == IF HeadersIn(c) THEN [c EXCEPT !.msgSize = Front(c).size] ELSE c
      f == Front(c)
      rest == [d EXCEPT !.data = SubSeq(@, f.size + 1, Len(@))]
  IN  IF ~Complete(c) THEN d
      ELSE IF P!Fits(c.player.buffer, f) THEN MessageReceived(rest, f, next)
      ELSE rest

ParseMessage_RestDropped(c, next) ==
  LET d == IF HeadersIn(c) THEN [c EXCEPT !.msgSize = Front(c).size] ELSE c
      f == Front(c)
  IN  IF Complete(c) /\ P!Fits(c.player.buffer, f)
      THEN MessageReceived([d EXCEPT !.data = <<>>], f, next) ELSE d

ParseMessage(c, next) ==
  LET d == IF HeadersIn(c) THEN [c EXCEPT !.msgSize = Front(c).size] ELSE c
      f == Front(c)
  IN  IF Complete(c) /\ P!Fits(c.player.buffer, f)
      THEN MessageReceived([d EXCEPT !.data = SubSeq(@, f.size + 1, Len(@))],
                           f, next)
      ELSE d

\* The loop: it ends when the front message is incomplete or refused, and a
\* further round then changes nothing, so Len(data) rounds are enough.  The
\* CHOOSE is from a singleton: it makes TLC evaluate a round only once.
TryToPushToPlayer(c, next) ==
  LET round[i \in 0 .. Len(c.data)] ==
        IF i = 0 THEN c
        ELSE CHOOSE d \in {ParseMessage(e, next) : e \in {round[i - 1]}} : TRUE
  IN  round[Len(c.data)]

\* Faulty variant: a blocked parser reads the socket all the same.
ReadSocket_NeverBlocked(c, next) ==
  LET d == TryToPushToPlayer(c, next)
  IN  TryToPushToPlayer([d EXCEPT !.data = @ \o d.rx, !.rx = <<>>], next)

\* Faulty variant: the pending message is not tried before the socket is read.
ReadSocket_NotRetried(c, next) ==
  IF c.data # <<>> /\ Len(c.data) >= c.msgSize THEN SendBlank(c)
  ELSE TryToPushToPlayer([c EXCEPT !.data = @ \o c.rx, !.rx = <<>>], next)

\* The parser leaves the socket alone while it holds a message the player has
\* no room for, and sends a blank message instead.
ReadSocket(c, next) ==
  LET d == TryToPushToPlayer(c, next)
  IN  IF c.data # <<>> /\ Len(d.data) >= d.msgSize THEN SendBlank(d)
      ELSE TryToPushToPlayer([d EXCEPT !.data = @ \o d.rx, !.rx = <<>>], next)

\* HandleRead also pushes the keep-alive back, 300 ms from now.
HandleRead(c, next) == ReadSocket([c EXCEPT !.keepAlive = TRUE], next)

-----------------------------------------------------------------------------
(* The events of the simulator, and a server at the other end of the         *)
(* connection that answers every request for a segment of the video.         *)

Init ==
  /\ client = NewClient
  /\ toServer = <<>> /\ toClient = <<>> /\ unacked = FALSE
  /\ served = <<>> /\ losses = 0 /\ stopped = FALSE

\* What the adaptation may answer: any rate, and a delay or none.
Choices == [rate : Rates, wait : BOOLEAN]

\* The event leaves the client as c: what it sent is on its way.
Becomes(c) ==
  \E d \in {c} :
    /\ client' = [d EXCEPT !.out = <<>>]
    /\ toServer' = toServer \o d.out
    /\ unacked' = (unacked \/ d.out # <<>>)

\* The event leaves the client as c with another socket: the old connection
\* and everything on it are gone.
Reconnects(c) ==
  /\ client' = c
  /\ toServer' = <<>> /\ toClient' = <<>> /\ unacked' = FALSE

Start ==
  /\ client.socket = "NULL"
  /\ Becomes(StartApplication(client))
  /\ UNCHANGED <<toClient, served, losses, stopped>>

Stop ==
  /\ MayStop /\ ~stopped /\ client.socket # "NULL"
  /\ stopped' = TRUE
  /\ LET c == StopApplication(client)
     IN  IF c.socket = "SYN_SENT" THEN Reconnects(c)
         ELSE Becomes(c) /\ UNCHANGED toClient
  /\ UNCHANGED <<served, losses>>

\* The handshake is over.
Connected ==
  /\ client.socket = "SYN_SENT"
  /\ Becomes(ConnectionSucceeded(client))
  /\ UNCHANGED <<toClient, served, losses, stopped>>

\* The SYN was retransmitted too often, or data or a FIN was.
GivesUp ==
  /\ losses < MaxLosses
  /\ \/ client.socket \in {"SYN_SENT", "CLOSING"}
     \/ client.socket = "ESTABLISHED" /\ unacked
  /\ losses' = losses + 1
  /\ Reconnects(ConnectionLost(client))
  /\ UNCHANGED <<served, stopped>>

Acknowledge ==
  /\ unacked /\ toServer = <<>>
  /\ unacked' = FALSE
  /\ UNCHANGED <<client, toServer, toClient, served, losses, stopped>>

\* The k-th unit of the stream of messages fs.
Units(f) == [k \in 1 .. f.size |-> [frame |-> f, k |-> k]]

Segment(r, size) ==
  LET stream[i \in 0 .. FramesPerSegment] ==
        IF i = 0 THEN <<>>
        ELSE stream[i - 1] \o Units([seg |-> r.seg, id |-> i - 1,
                                     res |-> r.rate, size |-> size[i - 1]])
  IN  stream[FramesPerSegment]

\* DashServer::HandleRead reads a message and answers a request with the
\* frames of the segment, each of a random size.
Serve ==
  /\ toServer # <<>>
  /\ toServer' = Tail(toServer)
  /\ LET r == Head(toServer)
     IN  IF r.kind = "REQUEST" /\ r.seg < MaxSegments
         THEN \E size \in [0 .. FramesPerSegment - 1 -> Sizes] :
                LET units == Segment(r, size)
                IN  /\ toClient' = toClient \o units
                    /\ served' = Append(served, [seg |-> r.seg,
                                                 bytes |-> Len(units)])
         ELSE UNCHANGED <<toClient, served>>
  /\ UNCHANGED <<client, unacked, losses, stopped>>

\* TCP delivers the next n units and tells the application.  The first data
\* of a connection fill a TCP segment and hold at least the headers.
Deliver(n) ==
  /\ client.socket \in {"ESTABLISHED", "CLOSING"}
  /\ n <= Len(toClient) /\ Len(client.rx) + n <= RxCapacity
  /\ client.msgSize = 0 => n >= HeaderSize
  /\ toClient' = SubSeq(toClient, n + 1, Len(toClient))
  /\ \E next \in Choices :
       Becomes(HandleRead([client EXCEPT !.rx = @ \o SubSeq(toClient, 1, n)],
                          next))
  /\ UNCHANGED <<served, losses, stopped>>

FirePlayFrame ==
  /\ client.player.wakeups # <<>> /\ client.player.checks = 0
  /\ Becomes([client EXCEPT !.player = P!PlayFrame(P!Unschedule(@, 1), 0)])
  /\ UNCHANGED <<toClient, served, losses, stopped>>

\* CheckBuffer, scheduled by PlayFrame.
FireCheckBuffer ==
  /\ client.player.checks > 0
  /\ \E next \in Choices :
       Becomes(ReadSocket([client EXCEPT !.player.checks = @ - 1], next))
  /\ UNCHANGED <<toClient, served, losses, stopped>>

\* The RequestSegment that MessageReceived scheduled.
FireRequestSegment ==
  /\ client.delayed > 0
  /\ Becomes(RequestSegment([client EXCEPT !.delayed = @ - 1]))
  /\ UNCHANGED <<toClient, served, losses, stopped>>

\* KeepAliveTimeout sends one blank message and does not schedule itself again.
FireKeepAlive ==
  /\ client.keepAlive
  /\ Becomes(SendBlank([client EXCEPT !.keepAlive = FALSE]))
  /\ UNCHANGED <<toClient, served, losses, stopped>>

DeliverSome == \E n \in 1 .. RxCapacity : Deliver(n)

Next ==
  \/ Start \/ Stop \/ Connected \/ GivesUp
  \/ Acknowledge \/ Serve \/ DeliverSome
  \/ FirePlayFrame \/ FireCheckBuffer \/ FireRequestSegment \/ FireKeepAlive

\* The simulator runs every event it has scheduled; TCP delivers what was sent
\* on a connection it has not given up.  Nothing forces a stop or a loss.
Fairness ==
  /\ WF_vars(Start) /\ WF_vars(Connected) /\ WF_vars(Serve)
  /\ WF_vars(DeliverSome)
  /\ WF_vars(FirePlayFrame) /\ WF_vars(FireCheckBuffer)
  /\ WF_vars(FireRequestSegment) /\ WF_vars(FireKeepAlive)

Spec == Init /\ [][Next]_vars /\ Fairness

-----------------------------------------------------------------------------
(* Properties *)

Requests(q) == {i \in 1 .. Len(q) : q[i].kind = "REQUEST"}

StreamUnits == [frame : Messages, k : Nat]

(* Every variable keeps its type; only a lost connection can leave a second  *)
(* RequestSegment event in the list, and the client never asks for more than *)
(* the one segment beyond the end of the video.                              *)
TypeOK ==
  /\ client.player \in P!PlayerRecord
  /\ client.socket \in {"NULL", "SYN_SENT", "ESTABLISHED", "CLOSING"}
  /\ client.connected \in BOOLEAN /\ client.pending \in BOOLEAN
  /\ client.keepAlive \in BOOLEAN
  /\ client.segmentId \in 0 .. MaxSegments + 1
  /\ client.bitRate \in Rates
  /\ client.segmentBytes \in Nat
  /\ client.measured \in [seg : -1 .. MaxSegments - 1, bytes : Nat]
  /\ client.delayed \in 0 .. MaxLosses + 1
  /\ client.data \in Seq(StreamUnits) /\ client.rx \in Seq(StreamUnits)
  /\ client.msgSize \in Sizes \union {0}
  /\ client.out = <<>>
  /\ toServer \in Seq([kind : {"REQUEST", "BLANK"}, seg : Nat,
                       rate : Rates \union {0}])
  /\ toClient \in Seq(StreamUnits)
  /\ unacked \in BOOLEAN /\ stopped \in BOOLEAN
  /\ served \in Seq([seg : 0 .. MaxSegments - 1, bytes : Nat])
  /\ losses \in 0 .. MaxLosses

(* "The client requests one segment at a time": while no request is pending  *)
(* nothing of an earlier one is anywhere between the server and the player,  *)
(* and a request on its way has the connection for itself.                   *)
OneSegmentAtATime ==
  /\ \A i, j \in Requests(toServer) : i = j
  /\ ~client.pending =>
       /\ Requests(toServer) = {}
       /\ toClient = <<>> /\ client.rx = <<>> /\ client.data = <<>>
  /\ Requests(toServer) # {} => toClient = <<>> /\ client.rx = <<>>

(* The frames in the player's buffer are the ones after the frames it has    *)
(* shown, in the order of the video: none is lost, doubled or overtaken,     *)
(* however the stream was cut and however often the player refused one.      *)
PlaysInOrder ==
  \A i \in 1 .. Len(client.player.buffer.queue) :
    LET f == client.player.buffer.queue[i]
    IN  f.seg * FramesPerSegment + f.id = client.player.framesPlayed + i - 1

(* The parser always stands at the first unit of a message, and what it has  *)
(* read and what the socket holds continue each other.                       *)
ParserAligned ==
  LET stream == client.data \o client.rx \o toClient
  IN  stream # <<>> =>
        /\ Head(stream).k = 1
        /\ \A i \in 1 .. Len(stream) - 1 :
             \/ stream[i + 1] = [frame |-> stream[i].frame, k |-> stream[i].k + 1]
             \/ stream[i].k = stream[i].frame.size /\ stream[i + 1].k = 1

(* A message waits in the parser, and data wait in the socket, only while    *)
(* the player has no room for that message, or until the CheckBuffer that    *)
(* is already scheduled: no call is missing that would move the stream on.   *)
StalledOnlyWhenFull ==
  client.player.checks = 0 =>
    /\ Complete(client) => ~P!Fits(client.player.buffer, Front(client))
    /\ client.rx # <<>> => Complete(client)

LargestMessage == CHOOSE s \in Sizes : \A t \in Sizes : t <= s

(* Backpressure: the parser never reads on past a message the player has no  *)
(* room for, so what it holds is bounded by one socket buffer and one        *)
(* incomplete message, and the TCP window closes behind it.                  *)
Backpressure == Len(client.data) < LargestMessage + RxCapacity

(* The throughput of a segment is computed from the bytes of exactly that    *)
(* segment, whichever way its request was sent and its data arrived.         *)
MeasuredExactly ==
  client.measured.seg # -1 =>
    \E i \in 1 .. Len(served) : served[i] = client.measured

(* The client believes it is connected only while its socket can send, so    *)
(* the NS_FATAL_ERROR in RequestSegment is never reached.                    *)
NeverAborts ==
  /\ ~client.aborted
  /\ client.connected => client.socket = "ESTABLISHED"

Stream ==
  INSTANCE SegmentStream
    WITH asked <- client.segmentId,
         received <- client.player.framesPlayed + Len(client.player.buffer.queue),
         shown <- client.player.framesPlayed

(* The client implements SegmentStream, connections lost and stops included. *)
KeepsPromise == Stream!StreamSpec

AllShown == client.player.framesPlayed = MaxSegments * FramesPerSegment

(* On a connection that holds, every frame of the video is shown in the end: *)
(* no message is stuck in the parser, no request is forgotten.               *)
PlaysToTheEnd == <>(AllShown \/ stopped \/ losses > 0)

(* ConnectionErrorClosed logs "Connection closed due to error, retrying...": *)
(* once no further connection is lost the video goes on to its end.          *)
RetryResumes == losses > 0 ~> (AllShown \/ stopped)

(* stopTime is "the time when the clients will stop requesting segments":    *)
(* no segment is requested after StopApplication.                            *)
NoRequestAfterStop ==
  [][stopped => client'.segmentId = client.segmentId]_vars
=============================================================================
