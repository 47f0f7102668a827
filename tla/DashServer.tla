----------------------------- MODULE DashServer -----------------------------
(***************************************************************************)
(* The DASH server: class DashServer (contrib/dash/model/dash-server.cc)    *)
(* with the sockets it has accepted, each seen through the part of TCP that  *)
(* the server depends on: a send buffer of TxCapacity units, the callback    *)
(* when an acknowledgement frees some of it, and what Send returns.          *)
(*                                                                         *)
(* A message of a client is HeaderSize units [conn, n, kind, seg, k], the    *)
(* n-th of that client.  A fragment of a frame is [seg, id, first, last, of],*)
(* the units first .. last of a message of size "of".                        *)
(***************************************************************************)
EXTENDS Integers, Sequences, FiniteSets, Functions

CONSTANTS
  Conns,             \* the connections clients open
  FramesPerSegment,  \* MPEG_FRAMES_PER_SEGMENT
  FrameSizes,        \* the sizes of frames, headers included
  HeaderSize,        \* HTTPHeader, in units
  TxCapacity,        \* SndBufSize of a socket
  Interleaves,       \* whether data of another client, or the end of the
                     \* connection, may come between two parts of a message
  MaxSegments,       \* bound: segments a client asks for
  MaxBlanks,         \* bound: blank messages the clients send
  MaxErrors,         \* bound: connections TCP gives up
  MayStop            \* bound: whether StopApplication is called

ASSUME ServerAssumption ==
  /\ FramesPerSegment \in Nat \ {0}
  /\ FrameSizes \subseteq Nat \ {0}
  /\ \E n \in FrameSizes : \A m \in FrameSizes : m <= n
  /\ HeaderSize \in Nat \ {0}
  /\ TxCapacity \in Nat \ {0}
  /\ Interleaves \in BOOLEAN
  /\ MaxSegments \in Nat /\ MaxBlanks \in Nat /\ MaxErrors \in Nat
  /\ MayStop \in BOOLEAN

VARIABLES
  pending,   \* m_pending_packet: one for all the clients
  sock,      \* the accepted socket of each connection, and its queue
  toServer,  \* per connection: units TCP has not delivered yet
  sent,      \* per client: how many messages it has sent
  asked,     \* per client: how many of them are requests
  errors,    \* connections given up so far
  stopped    \* whether StopApplication was called

vars == <<pending, sock, toServer, sent, asked, errors, stopped>>

-----------------------------------------------------------------------------
(* One socket: its state, m_queues[socket], the units in its send buffer     *)
(* and those of them not transmitted yet, m_closeOnEmpty, every fragment it  *)
(* has taken ("wire"), and the units Send refused ("lost").                  *)

NewSocket ==
  [state |-> "NONE", queue |-> <<>>, used |-> 0, unsent |-> 0,
   closeOnEmpty |-> FALSE, wire |-> <<>>, lost |-> 0]

Size(f) == f.last - f.first + 1

TxAvailable(s) == TxCapacity - s.used

\* Faulty variant: a socket whose peer has closed refuses to send.
CanSend_OpenOnly(s) == s.state = "OPEN"

\* TcpSocketBase::Send: the data is buffered while the socket may still send;
\* afterwards it returns -1 and keeps nothing.
CanSend(s) == s.state \in {"OPEN", "PEER_CLOSED"}

\* DataSend compares the result of Send as an unsigned number with the size of
\* the frame: -1 is larger than any size, so a refused frame goes unnoticed.
SendFragment(s, f) ==
  IF CanSend(s)
  THEN [s EXCEPT !.wire = Append(@, f),
                 !.used = @ + Size(f), !.unsent = @ + Size(f)]
  ELSE [s EXCEPT !.lost = @ + Size(f)]

\* Faulty variants of one round of DataSend: the whole frame is sent whatever
\* the space; the rest of a fragmented frame goes to the back of the queue.
SendFront_SpaceIgnored(s) ==
  SendFragment([s EXCEPT !.queue = Tail(@)], Head(s.queue))

SendFront_RestLast(s) ==
  LET f == Head(s.queue)
      end == f.first + TxAvailable(s) - 1
  IN  IF TxAvailable(s) < Size(f)
      THEN SendFragment([s EXCEPT !.queue = Append(Tail(@), [f EXCEPT !.first = end + 1])],
                        [f EXCEPT !.last = end])
      ELSE SendFragment([s EXCEPT !.queue = Tail(@)], f)

\* One round of the loop in DataSend: the front frame, or the part of it for
\* which there is room; the rest goes back to the front.
SendFront(s) ==
  LET f == Head(s.queue)
      end == f.first + TxAvailable(s) - 1
  IN  IF TxAvailable(s) < Size(f)
      THEN SendFragment([s EXCEPT !.queue = <<[f EXCEPT !.first = end + 1]>> \o Tail(@)],
                        [f EXCEPT !.last = end])
      ELSE SendFragment([s EXCEPT !.queue = Tail(@)], f)

\* Faulty variant: one frame per call.
DataSend_OneFrame(s) ==
  IF s.queue = <<>> \/ TxAvailable(s) = 0 THEN s ELSE SendFront(s)

LargestFrame == CHOOSE n \in FrameSizes : \A m \in FrameSizes : m <= n

\* The loop of DataSend: a round takes at least one unit off the queue, or ends
\* it.  The CHOOSE is from a singleton: it makes TLC evaluate a round only once.
DataSend(s) ==
  LET rounds == Len(s.queue) * LargestFrame
      round[i \in 0 .. rounds] ==
        IF i = 0 THEN s
        ELSE CHOOSE t \in {IF r.queue = <<>> \/ TxAvailable(r) <= 0 THEN r
                           ELSE SendFront(r) : r \in {round[i - 1]}} : TRUE
  IN  round[rounds]

\* The frames of a segment, of the sizes the server draws.
Frames(seg, size) ==
  [i \in 1 .. FramesPerSegment |->
     [seg |-> seg, id |-> i - 1, first |-> 1, last |-> size[i - 1],
      of |-> size[i - 1]]]

SendSegment(s, seg, size) ==
  DataSend([s EXCEPT !.queue = @ \o Frames(seg, size)])

\* The draw of a segment's frame sizes.
Draws == [0 .. FramesPerSegment - 1 -> FrameSizes]

-----------------------------------------------------------------------------
(* Reading *)

\* The units us are one message as a client sent it.
IsMessage(us) ==
  \A k \in 1 .. HeaderSize :
    us[k].k = k /\ us[k].conn = us[1].conn /\ us[k].n = us[1].n

\* RemoveHeader on the first HeaderSize units of p.  Units that are not one
\* message are read as whatever their bytes happen to say: misread tells
\* whether that is a request, for a segment nobody asked for.
Header(p, misread) ==
  LET us == SubSeq(p, 1, HeaderSize)
  IN  IF IsMessage(us) THEN [kind |-> us[1].kind, seg |-> us[1].seg]
      ELSE [kind |-> IF misread THEN "REQUEST" ELSE "BLANK", seg |-> MaxSegments]

\* Faulty variant: what is left after a message is dropped.
ReadHeader_RestDropped(h, size, misread) ==
  LET m == Header(h.pending, misread)
  IN  IF Len(h.pending) < HeaderSize THEN [h EXCEPT !.pending = <<>>]
      ELSE [pending |-> <<>>,
            socket |-> IF m.kind = "REQUEST" THEN SendSegment(h.socket, m.seg, size)
                       ELSE h.socket]

\* One round of the inner loop of HandleRead.
ReadHeader(h, size, misread) ==
  LET m == Header(h.pending, misread)
      rest == SubSeq(h.pending, HeaderSize + 1, Len(h.pending))
  IN  IF Len(h.pending) < HeaderSize THEN h
      ELSE [pending |-> rest,
            socket |-> IF m.kind = "REQUEST" THEN SendSegment(h.socket, m.seg, size)
                       ELSE h.socket]

\* HandleRead on socket s: what was received goes behind m_pending_packet, and
\* every header that is complete is taken off and answered on s.
HandleRead(s, p, units, size, misread) ==
  LET all == p \o units
      round[i \in 0 .. Len(all)] ==
        IF i = 0 THEN [pending |-> all, socket |-> s]
        ELSE CHOOSE h \in {ReadHeader(g, size, misread) : g \in {round[i - 1]}} : TRUE
  IN  round[Len(all)]

\* TcpSocketBase::Close with data not transmitted yet waits for it; otherwise
\* the FIN is sent at once.
CloseSocket(s) ==
  IF s.state \notin {"OPEN", "PEER_CLOSED"} THEN s
  ELSE IF s.unsent > 0 THEN [s EXCEPT !.closeOnEmpty = TRUE]
  ELSE [s EXCEPT !.state = "CLOSING"]

-----------------------------------------------------------------------------
(* The server, its clients and TCP *)

Init ==
  /\ pending = <<>>
  /\ sock = [c \in Conns |-> NewSocket]
  /\ toServer = [c \in Conns |-> <<>>]
  /\ sent = [c \in Conns |-> 0]
  /\ asked = [c \in Conns |-> 0]
  /\ errors = 0 /\ stopped = FALSE

\* HandleAccept; after StopApplication the listening socket is closed.
Accept(c) ==
  /\ sock[c].state = "NONE" /\ ~stopped
  /\ sock' = [sock EXCEPT ![c].state = "OPEN"]
  /\ UNCHANGED <<pending, toServer, sent, asked, errors, stopped>>

Message(c, kind, seg) ==
  [k \in 1 .. HeaderSize |->
     [conn |-> c, n |-> sent[c] + 1, kind |-> kind, seg |-> seg, k |-> k]]

Received(c) ==
  sock[c].queue = <<>> /\ sock[c].used = 0 /\ toServer[c] = <<>>

\* A client asks for its next segment when it has the one before (DashClient,
\* OneSegmentAtATime) ...
Ask(c) ==
  /\ sock[c].state = "OPEN" /\ asked[c] < MaxSegments
  /\ asked[c] = 0 \/ Received(c)
  /\ toServer' = [toServer EXCEPT ![c] = @ \o Message(c, "REQUEST", asked[c])]
  /\ sent' = [sent EXCEPT ![c] = @ + 1]
  /\ asked' = [asked EXCEPT ![c] = @ + 1]
  /\ UNCHANGED <<pending, sock, errors, stopped>>

\* ... and sends blank messages at any moment.
SendBlank(c) ==
  /\ sock[c].state = "OPEN" /\ SumFunction(sent) - SumFunction(asked) < MaxBlanks
  /\ toServer' = [toServer EXCEPT ![c] = @ \o Message(c, "BLANK", 0)]
  /\ sent' = [sent EXCEPT ![c] = @ + 1]
  /\ UNCHANGED <<pending, sock, asked, errors, stopped>>

\* What the server holds of a message that is not complete, from these clients.
PendingOf(conns) == {i \in DOMAIN pending : pending[i].conn \in conns}

\* TCP delivers the next n units of c's messages, cut anywhere.
Read(c, n) ==
  /\ sock[c].state # "NONE" /\ sock[c].state # "DEAD"
  /\ n <= Len(toServer[c])
  /\ Interleaves \/ PendingOf(Conns \ {c}) = {}
  /\ toServer' = [toServer EXCEPT ![c] = SubSeq(@, n + 1, Len(@))]
  /\ \E size \in Draws, misread \in BOOLEAN :
       LET h == HandleRead(sock[c], pending, SubSeq(toServer[c], 1, n), size, misread)
       IN  /\ pending' = h.pending
           /\ sock' = [sock EXCEPT ![c] = h.socket]
  /\ UNCHANGED <<sent, asked, errors, stopped>>

\* TCP transmits n of the buffered units; the last one of a socket that waits
\* to be closed carries the FIN.
Transmit(c, n) ==
  /\ sock[c].state # "DEAD"
  /\ n <= sock[c].unsent
  /\ sock' = [sock EXCEPT ![c].unsent = @ - n,
                          ![c].state = IF sock[c].closeOnEmpty /\ n = sock[c].unsent
                                       THEN "CLOSING" ELSE @]
  /\ UNCHANGED <<pending, toServer, sent, asked, errors, stopped>>

\* n transmitted units are acknowledged: NewAck reports the free space to
\* DataSend, also on a socket that is already closing.
Acknowledge(c, n) ==
  /\ sock[c].state # "DEAD"
  /\ n <= sock[c].used - sock[c].unsent
  /\ sock' = [sock EXCEPT ![c] = DataSend([sock[c] EXCEPT !.used = @ - n])]
  /\ UNCHANGED <<pending, toServer, sent, asked, errors, stopped>>

\* The client closes: the socket may still send.
PeerCloses(c) ==
  /\ sock[c].state = "OPEN"
  /\ sock' = [sock EXCEPT ![c].state = "PEER_CLOSED"]
  /\ UNCHANGED <<pending, toServer, sent, asked, errors, stopped>>

\* Retransmitted too often.  Nothing tells the server: accepted sockets have no
\* close callbacks, and its queue stays in m_queues.
ConnectionLost(c) ==
  /\ errors < MaxErrors
  /\ sock[c].state \notin {"NONE", "DEAD"} /\ sock[c].used > 0
  /\ Interleaves \/ PendingOf({c}) = {}
  /\ sock' = [sock EXCEPT ![c].state = "DEAD"]
  /\ errors' = errors + 1
  /\ UNCHANGED <<pending, toServer, sent, asked, stopped>>

Stop ==
  /\ MayStop /\ ~stopped
  /\ stopped' = TRUE
  /\ sock' = [c \in Conns |-> CloseSocket(sock[c])]
  /\ UNCHANGED <<pending, toServer, sent, asked, errors>>

ReadSome(c) == \E n \in 1 .. Len(toServer[c]) : Read(c, n)
TransmitSome(c) == \E n \in 1 .. TxCapacity : Transmit(c, n)
AcknowledgeSome(c) == \E n \in 1 .. TxCapacity : Acknowledge(c, n)

Next ==
  \/ \E c \in Conns :
       \/ Accept(c) \/ Ask(c) \/ SendBlank(c) \/ ReadSome(c)
       \/ TransmitSome(c) \/ AcknowledgeSome(c)
       \/ PeerCloses(c) \/ ConnectionLost(c)
  \/ Stop

\* TCP delivers, transmits and acknowledges on a connection it has not given up.
Fairness ==
  \A c \in Conns :
    /\ WF_vars(ReadSome(c)) /\ WF_vars(TransmitSome(c)) /\ WF_vars(AcknowledgeSome(c))

Spec == Init /\ [][Next]_vars /\ Fairness

-----------------------------------------------------------------------------
(* Properties *)

Fragments == [seg : 0 .. MaxSegments, id : 0 .. FramesPerSegment - 1,
              first : Nat \ {0}, last : Nat, of : FrameSizes]

ClientUnits == [conn : Conns, n : Nat \ {0}, kind : {"REQUEST", "BLANK"},
                seg : 0 .. MaxSegments, k : 1 .. HeaderSize]

Sockets ==
  [state : {"NONE", "OPEN", "PEER_CLOSED", "CLOSING", "DEAD"},
   queue : Seq(Fragments), used : 0 .. TxCapacity, unsent : 0 .. TxCapacity,
   closeOnEmpty : BOOLEAN, wire : Seq(Fragments), lost : Nat]

(* Every variable keeps its type; DataSend never offers Send more than the   *)
(* send buffer can take, which TCP would refuse and DataSend would not see.  *)
TypeOK ==
  /\ pending \in Seq(ClientUnits)
  /\ sock \in [Conns -> Sockets]
  /\ toServer \in [Conns -> Seq(ClientUnits)]
  /\ sent \in [Conns -> Nat] /\ asked \in [Conns -> 0 .. MaxSegments]
  /\ errors \in 0 .. MaxErrors /\ stopped \in BOOLEAN

\* g follows f in the stream of a connection without a gap or an overlap.
Follows(f, g) ==
  /\ g.first = IF f.last < f.of THEN f.last + 1 ELSE 1
  /\ f.last < f.of => <<g.seg, g.id, g.of>> = <<f.seg, f.id, f.of>>
  /\ f.last = f.of => g.seg * FramesPerSegment + g.id
                        = f.seg * FramesPerSegment + f.id + 1

\* The requests of c the server has not read yet.
UnreadIn(us, c) ==
  {us[i].n : i \in {j \in 1 .. Len(us) : us[j].conn = c /\ us[j].kind = "REQUEST"}}

Unread(c) == Cardinality(UnreadIn(pending, c) \union UnreadIn(toServer[c], c))

\* The stream of s, sent and queued, is the first n segments, whole and in order.
Answers(s, n) ==
  LET stream == s.wire \o s.queue
  IN  s.lost = 0 =>
        /\ (stream = <<>>) <=> (n = 0)
        /\ stream # <<>> =>
             LET f == stream[1]
                 l == stream[Len(stream)]
             IN  /\ f.seg = 0 /\ f.id = 0 /\ f.first = 1
                 /\ l.last = l.of /\ l.id = FramesPerSegment - 1
                 /\ l.seg = n - 1
        /\ \A i \in 1 .. Len(stream) - 1 : Follows(stream[i], stream[i + 1])

(* What a connection carries, with what is queued for it, is exactly the     *)
(* segments its own client has asked for and the server has read the request *)
(* of: whole, in order, without a gap or an overlap, however the frames were *)
(* fragmented and however the messages of the clients interleaved.           *)
AnswersItsClient ==
  \A c \in Conns : Answers(sock[c], asked[c] - Unread(c))

(* Frames wait in m_queues only while the send buffer is full: whatever      *)
(* order requests and acknowledgements come in, the callback that will send  *)
(* them is still to come.                                                    *)
QueueWaitsForSpace ==
  \A c \in Conns : sock[c].queue # <<>> => sock[c].used = TxCapacity

(* DataSend treats a frame that Send did not take as fatal ("Couldn't send   *)
(* packet, though space should be available"): no frame leaves the queue     *)
(* without being handed to TCP.                                              *)
NoFrameLost == \A c \in Conns : sock[c].lost = 0

(* The same while the server runs: whatever clients close or connections are *)
(* given up meanwhile, only StopApplication closes sockets under DataSend.   *)
NoFrameLostRunning == stopped \/ NoFrameLost

Transmitted(c) ==
  IF sock[c].wire = <<>> \/ sock[c].queue # <<>> THEN 0
  ELSE sock[c].wire[Len(sock[c].wire)].seg + 1

(* Every request is answered in full in the end, on a connection that is not *)
(* given up and before the server is stopped, whatever the others do.        *)
EveryRequestAnswered ==
  \A c \in Conns : \A n \in 1 .. MaxSegments :
    asked[c] = n ~> (Transmitted(c) >= n \/ sock[c].state = "DEAD" \/ stopped)
=============================================================================
