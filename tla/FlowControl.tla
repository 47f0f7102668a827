---------------------------- MODULE FlowControl ----------------------------
(***************************************************************************)
(* The flow control loop between a server that has data and a client whose  *)
(* player is full: the handlers of DashClient, with TCP (tcp-socket-base.cc)  *)
(* in between.  The receive buffer of the client bounds what the server may  *)
(* send; the server learns of free space only from the packets of the        *)
(* client; TCP itself sends none when the application reads (Recv), and the  *)
(* sender holds back while the window is smaller than a segment.             *)
(*                                                                         *)
(* Positions count the units of the stream the server sends.  The network    *)
(* neither loses nor reorders, and the congestion window is never the limit. *)
(***************************************************************************)
EXTENDS Integers, Sequences

CONSTANTS
  Rates, Sizes, HeaderSize, FramesPerSegment,  \* as in DashClient
  Capacity, RxCapacity, MaxSegments,           \* as in DashClient
  SegmentSize,      \* m_segmentSize of the server's socket
  KeepAliveFrames   \* frames shown in the 300 ms of the keep-alive timer

ASSUME FlowAssumption ==
  /\ Rates \subseteq Nat /\ Rates # {}
  /\ HeaderSize \in Nat \ {0}
  /\ Sizes \subseteq {s \in Nat : s >= HeaderSize /\ s <= Capacity} /\ Sizes # {}
  /\ FramesPerSegment \in Nat \ {0}
  /\ Capacity \in Nat /\ RxCapacity \in Nat /\ MaxSegments \in Nat
  /\ SegmentSize \in Nat /\ SegmentSize >= HeaderSize
  /\ SegmentSize <= RxCapacity
  /\ KeepAliveFrames \in Nat

VARIABLES
  client,   \* the client, as in DashClient
  packets,  \* packets on their way to the server
  served,   \* the segments generated so far, as in DashClient
  stream,   \* every unit the server has handed to TCP
  segs,     \* data segments on their way to the client: [first, last]
  server,   \* the server's socket: una, nxt (m_nextTxSequence), window (m_rWnd)
  rcv,      \* NextRxSequence of the client's socket
  delAck,   \* m_delAckCount of the client's socket
  plays     \* frames shown since the last HandleRead, up to KeepAliveFrames

flowVars == <<client, packets, served, stream, segs, server, rcv, delAck, plays>>

\* The message a packet carries, if any, and those in a sequence of packets.
Content(p) ==
  IF p.kind = "ACK" THEN <<>>
  ELSE <<[kind |-> p.kind, seg |-> p.seg, rate |-> p.rate]>>

Messages(q) ==
  LET sent[i \in 0 .. Len(q)] ==
        IF i = 0 THEN <<>> ELSE sent[i - 1] \o Content(q[i])
  IN  sent[Len(q)]

\* DashClient sees the messages among the packets, and every unit that has not
\* arrived as a unit TCP may deliver.
C == INSTANCE DashClient
       WITH MaxLosses <- 0, MayStop <- FALSE, losses <- 0, stopped <- FALSE,
            toServer <- Messages(packets),
            toClient <- SubSeq(stream, rcv + 1, Len(stream)),
            unacked <- client.segmentId > 0

FlowInit ==
  /\ client = C!NewClient /\ packets = <<>> /\ served = <<>> /\ stream = <<>>
  /\ segs = <<>> /\ server = [una |-> 0, nxt |-> 0, window |-> RxCapacity]
  /\ rcv = 0 /\ delAck = 0 /\ plays = 0

-----------------------------------------------------------------------------
(* The client's socket *)

\* Faulty variant: the window is the size of the buffer, not what is free.
Packet_WholeBuffer(m, c, r) ==
  [kind |-> m.kind, seg |-> m.seg, rate |-> m.rate, ack |-> r,
   win |-> RxCapacity]

\* Every packet carries the acknowledgement and AdvertisedWindowSize.
Packet(m, c, r) ==
  [kind |-> m.kind, seg |-> m.seg, rate |-> m.rate, ack |-> r,
   win |-> RxCapacity - Len(c.rx)]

Ack == [kind |-> "ACK", seg |-> 0, rate |-> 0]

\* An event of the client: what it sent leaves right after it (Send schedules
\* SendPendingData) and takes the place of a delayed acknowledgement.
Becomes(c) ==
  \E d \in {c} :
    /\ client' = [d EXCEPT !.out = <<>>]
    /\ packets' = packets \o [i \in 1 .. Len(d.out) |-> Packet(d.out[i], d, rcv)]
    /\ delAck' = IF d.out # <<>> THEN 0 ELSE delAck

ClientEvent(c) ==
  /\ Becomes(c)
  /\ UNCHANGED <<served, stream, segs, server, rcv>>

Smaller(x, y) == IF x < y THEN x ELSE y

\* Faulty variant: the receive buffer takes what is beyond its end.
Room_Unbounded(s) == s.last

\* The receive buffer drops what is beyond its end.
Room(s) == Smaller(s.last, rcv + RxCapacity - Len(client.rx))

\* ReceivedData: the application is told first and may read or send; then the
\* second segment that has not been acknowledged is, together with the first.
ReceivedData(upTo) ==
  \E next \in C!Choices :
    \E d \in {C!HandleRead([client EXCEPT !.rx = @ \o SubSeq(stream, rcv + 1, upTo)],
                           next)} :
      LET out == (IF delAck = 1 THEN <<Ack>> ELSE <<>>) \o d.out
      IN  /\ client' = [d EXCEPT !.out = <<>>]
          /\ packets' = packets \o [i \in 1 .. Len(out) |-> Packet(out[i], d, upTo)]
          /\ delAck' = IF out = <<>> THEN 1 ELSE 0
          /\ rcv' = upTo /\ plays' = 0

\* A segment without any new unit, or for which there is no room, is answered
\* with an acknowledgement and the application does not hear of it.
Deliver ==
  /\ segs # <<>>
  /\ segs' = Tail(segs)
  /\ \/ Room(Head(segs)) > rcv /\ ReceivedData(Room(Head(segs)))
     \/ /\ Room(Head(segs)) <= rcv
        /\ packets' = Append(packets, Packet(Ack, client, rcv))
        /\ delAck' = 0
        /\ UNCHANGED <<client, rcv, plays>>
  /\ UNCHANGED <<served, stream, server>>

DelAckTimeout ==
  /\ delAck = 1
  /\ delAck' = 0
  /\ packets' = Append(packets, Packet(Ack, client, rcv))
  /\ UNCHANGED <<client, served, stream, segs, server, rcv, plays>>

-----------------------------------------------------------------------------
(* The server's socket *)

Usable(s) == s.window - (s.nxt - s.una)

Unsent(s, total) == total - s.nxt

\* SendPendingData goes on while there is data and room for all of it, or for
\* a full segment ("Preventing Silly Window Syndrome").
CanSend(s, total) ==
  /\ Unsent(s, total) > 0 /\ Usable(s) > 0
  /\ Usable(s) < SegmentSize => Unsent(s, total) <= Usable(s)

\* Faulty variant: the last segment is filled up.
NextSegment_Padded(s, total) ==
  [first |-> s.nxt + 1, last |-> s.nxt + SegmentSize]

\* The next segment of data, [first, last].
NextSegment(s, total) ==
  [first |-> s.nxt + 1,
   last |-> s.nxt + Smaller(Unsent(s, total), SegmentSize)]

\* SendPendingData, as the state of the socket and the segments it has sent.
SendPendingData(s, total) ==
  LET round[i \in 0 .. total] ==
        IF i = 0 THEN [s |-> s, out |-> <<>>]
        ELSE CHOOSE q \in {IF CanSend(r.s, total)
                           THEN [s |-> [r.s EXCEPT !.nxt = NextSegment(r.s, total).last],
                                 out |-> Append(r.out, NextSegment(r.s, total))]
                           ELSE r : r \in {round[i - 1]}} : TRUE
  IN  round[total]

\* UpdateWindowSize and ReceivedAck.  Packets arrive in order, so the window is
\* always taken; an acknowledgement of the probe, which m_highTxMark does not
\* count, is not.
UpdateWindow(s, p) ==
  [s EXCEPT !.window = p.win,
            !.una = IF p.ack \in s.una .. s.nxt THEN p.ack ELSE @]

\* What is on its way once the front packet p was ignored: the packets behind
\* it still acknowledge, and the client's TCP sends their messages again.
Resent(q) ==
  [i \in 1 .. Len(q) - 1 |-> [q[i + 1] EXCEPT !.kind = "ACK", !.seg = 0, !.rate = 0]]
    \o [i \in 1 .. Len(Messages(q)) |-> Packet(Messages(q)[i], client, rcv)]

\* The server reads a packet: it answers a request (DashServer), then TCP sends
\* what the window allows.  With an acknowledgement of the probe it ignores
\* the message too.
Receive ==
  /\ packets # <<>>
  /\ LET p == Head(packets)
         ignored == p.kind # "ACK" /\ p.ack > server.nxt
         asks == ~ignored /\ p.kind = "REQUEST" /\ p.seg < MaxSegments
     IN  \E size \in IF asks THEN [0 .. FramesPerSegment - 1 -> Sizes] ELSE {<<>>} :
           LET units == IF asks THEN C!Segment(p, size) ELSE <<>>
               total == Len(stream) + Len(units)
           IN  \E q \in {SendPendingData(UpdateWindow(server, p), total)} :
                 /\ server' = q.s /\ segs' = segs \o q.out
                 /\ stream' = stream \o units
                 /\ served' = IF asks
                              THEN Append(served, [seg |-> p.seg, bytes |-> Len(units)])
                              ELSE served
                 /\ packets' = IF ignored THEN Resent(packets) ELSE Tail(packets)
  /\ UNCHANGED <<client, rcv, delAck, plays>>

\* Faulty variant: the timer is not armed.
PersistTimeout_NotArmed == FALSE /\ UNCHANGED flowVars

\* PersistTimeout: with a window of 0 the next unit is sent as a probe, without
\* moving m_nextTxSequence.  Its period is far above a round trip.
PersistTimeout ==
  /\ server.window = 0 /\ Unsent(server, Len(stream)) > 0
  /\ segs = <<>> /\ packets = <<>> /\ delAck = 0
  /\ segs' = <<[first |-> server.nxt + 1, last |-> server.nxt + 1]>>
  /\ UNCHANGED <<client, packets, served, stream, server, rcv, delAck, plays>>

-----------------------------------------------------------------------------
(* The client's other events, as in DashClient *)

Start ==
  /\ client.socket = "NULL"
  /\ ClientEvent(C!StartApplication(client)) /\ UNCHANGED plays

Connected ==
  /\ client.socket = "SYN_SENT"
  /\ ClientEvent(C!ConnectionSucceeded(client)) /\ UNCHANGED plays

FirePlayFrame ==
  /\ client.player.wakeups # <<>> /\ client.player.checks = 0
  /\ ClientEvent([client EXCEPT !.player = C!P!PlayFrame(C!P!Unschedule(@, 1), 0)])
  /\ plays' = Smaller(plays + 1, KeepAliveFrames)

FireCheckBuffer ==
  /\ client.player.checks > 0
  /\ \E next \in C!Choices :
       ClientEvent(C!ReadSocket([client EXCEPT !.player.checks = @ - 1], next))
  /\ UNCHANGED plays

FireRequestSegment ==
  /\ client.delayed > 0
  /\ ClientEvent(C!RequestSegment([client EXCEPT !.delayed = @ - 1]))
  /\ UNCHANGED plays

\* 300 ms after the last HandleRead: later than the 200 ms of the delayed
\* acknowledgement, and a playing player has shown KeepAliveFrames frames.
FireKeepAlive ==
  /\ client.keepAlive /\ delAck = 0
  /\ client.player.state = "PLAYING" => plays = KeepAliveFrames
  /\ ClientEvent(C!SendBlank([client EXCEPT !.keepAlive = FALSE]))
  /\ UNCHANGED plays

FlowNext ==
  \/ Start \/ Connected \/ Deliver \/ DelAckTimeout \/ Receive \/ PersistTimeout
  \/ FirePlayFrame \/ FireCheckBuffer \/ FireRequestSegment \/ FireKeepAlive

\* The simulator runs every event it has scheduled, and the network delivers.
FlowFairness ==
  /\ WF_flowVars(Start) /\ WF_flowVars(Connected)
  /\ WF_flowVars(Deliver) /\ WF_flowVars(DelAckTimeout)
  /\ WF_flowVars(Receive) /\ WF_flowVars(PersistTimeout)
  /\ WF_flowVars(FirePlayFrame) /\ WF_flowVars(FireCheckBuffer)
  /\ WF_flowVars(FireRequestSegment) /\ WF_flowVars(FireKeepAlive)

FlowSpec == FlowInit /\ [][FlowNext]_flowVars /\ FlowFairness

-----------------------------------------------------------------------------
(* Properties *)

Packets == [kind : {"REQUEST", "BLANK", "ACK"}, seg : 0 .. MaxSegments,
            rate : Rates \union {0}, ack : Nat, win : 0 .. RxCapacity]

(* Every variable keeps its type: no position overtakes the one it follows.  *)
FlowTypeOK ==
  /\ packets \in Seq(Packets)
  /\ segs \in Seq([first : 1 .. Len(stream), last : 1 .. Len(stream)])
  /\ server.una \in 0 .. server.nxt /\ server.nxt \in 0 .. Len(stream)
  /\ server.window \in 0 .. RxCapacity
  /\ rcv \in server.una .. Len(stream) /\ rcv <= server.nxt + 1
  /\ delAck \in 0 .. 1 /\ plays \in 0 .. KeepAliveFrames

(* What the server has sent always fits into what the client has free, in    *)
(* whatever order packets with old and new windows cross it: no data segment *)
(* is cut or dropped at the receive buffer.                                  *)
NeverOverruns == server.nxt - rcv <= RxCapacity - Len(client.rx)

(* The client behaves as it does in DashClient, where TCP may deliver any    *)
(* number of units at any moment: every invariant checked there holds here.  *)
RefinesDashClient == C!Init /\ [][C!Next]_(C!vars)

AllShown == client.player.framesPlayed = MaxSegments * FramesPerSegment

(* The video is shown to its end although the player, the parser and the     *)
(* receive buffer are full again and again.                                  *)
FlowsToTheEnd == <>AllShown
=============================================================================
