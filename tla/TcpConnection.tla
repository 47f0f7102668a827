--------------------------- MODULE TcpConnection ---------------------------
(***************************************************************************)
(* The life of the connection between a DASH client and its server: the    *)
(* TCP sockets of both (tcp-socket-base.cc) from the SYN to the last        *)
(* timer, over a network that loses packets but keeps their order.          *)
(*                                                                         *)
(* Sequence numbers count segments: the SYN is 0, data start at 1, a FIN    *)
(* takes one.  Windows never limit the sender (FlowControl models those),   *)
(* ECN, pacing, timestamps and the history of round trips are left out.     *)
(* A side has so few segments in flight that fast recovery never starts.    *)
(***************************************************************************)
EXTENDS Integers, Sequences, SequencesExt

CONSTANTS
    MaxData,       \* segments each application may write: [Peers -> Nat]
    Window,        \* the initial m_cWnd in segments
    SynRetries,    \* m_synRetries
    DataRetries,   \* m_dataRetries
    DelAckMax,     \* m_delAckMaxCount
    MaxLosses,     \* packets the network may lose
    MaxEarly       \* timeouts that may come while something is on its way

Client == "client"
Server == "server"
Peers == {Client, Server}
Other(p) == IF p = Client THEN Server ELSE Client

ASSUME ConnectionAssumption ==
    /\ MaxData \in [Peers -> Nat]
    /\ \A p \in Peers : MaxData[p] \in 0 .. 3   \* 3 duplicate ACKs are out of reach
    /\ {Window, SynRetries, DataRetries, DelAckMax} \subseteq Nat \ {0}
    /\ {MaxLosses, MaxEarly} \subseteq Nat

VARIABLES
    sock,      \* the socket of each peer
    net,       \* the packets on their way to each peer
    closed,    \* whether each application has called Close
    losses,    \* packets lost
    early      \* timeouts that came early

vars == <<sock, net, closed, losses, early>>

None == -1

\* The members of TcpSocketBase.  out collects what a handler sends; calls, the
\* callbacks of the application that it makes; broken, a failed NS_ASSERT.
NewSocket(state, endPoint, eager) ==
    [state |-> state, endPoint |-> endPoint, eager |-> eager,
     nextTx |-> 0, high |-> 0, head |-> 0, tail |-> 0, unsent |-> 0,
     lost |-> {}, again |-> {}, sacked |-> {},
     cong |-> "OPEN", cwnd |-> Window, recover |-> 0,
     rxNext |-> 0, avail |-> 0, gaps |-> {}, finSeq |-> None,
     synCount |-> SynRetries, dataRetr |-> DataRetries,
     closeOnEmpty |-> FALSE, closeNotified |-> FALSE, established |-> FALSE,
     retx |-> "off", delAck |-> 0, delTimer |-> FALSE, pending |-> FALSE,
     calls |-> <<>>, broken |-> FALSE, out |-> <<>>]

Init ==
    /\ sock = [p \in Peers |-> IF p = Client THEN NewSocket("CLOSED", FALSE, FALSE)
                               ELSE NewSocket("LISTEN", FALSE, TRUE)]
    /\ net = [p \in Peers |-> <<>>]
    /\ closed = [p \in Peers |-> FALSE]
    /\ losses = 0 /\ early = 0

-----------------------------------------------------------------------------
(* What every handler is built from *)

Notify(s, what) == [s EXCEPT !.calls = Append(@, what)]

NotifyClosed(s) ==
    IF s.closeNotified THEN s ELSE [Notify(s, "normal") EXCEPT !.closeNotified = TRUE]

CancelAllTimers(s) ==
    [s EXCEPT !.retx = "off", !.delTimer = FALSE, !.pending = FALSE]

DeallocateEndPoint(s) ==
    IF s.endPoint THEN [CancelAllTimers(s) EXCEPT !.endPoint = FALSE] ELSE s

CloseAndNotify(s) == DeallocateEndPoint([NotifyClosed(s) EXCEPT !.state = "CLOSED"])

\* A SYN or a FIN starts the timer that sends it again, unless one runs.
SendEmptyPacket(s, flags) ==
    LET fin == "FIN" \in flags
        all == IF fin THEN flags \cup {"ACK"} ELSE flags
        seq == IF ~fin /\ s.state \in {"FIN_WAIT_1", "LAST_ACK", "CLOSING"}
               THEN s.nextTx + 1 ELSE s.nextTx
        packet == [flags |-> all, seq |-> seq, len |-> 0, ack |-> s.rxNext,
                   sack |-> IF "ACK" \in all THEN s.gaps ELSE {}]
        syn == "SYN" \in flags
    IN  IF ~s.endPoint THEN s
        ELSE IF syn /\ s.synCount = 0
        THEN DeallocateEndPoint([Notify(s, "failed") EXCEPT !.state = "CLOSED"])
        ELSE [s EXCEPT
                !.out = Append(@, packet),
                !.synCount = IF syn THEN @ - 1 ELSE @,
                !.delTimer = @ /\ "ACK" \notin all,
                !.delAck = IF "ACK" \in all THEN 0 ELSE @,
                !.retx = IF @ = "off" /\ (syn \/ fin)
                         THEN (IF fin THEN "FIN" ELSE IF "ACK" \in all THEN "SYN+ACK" ELSE "SYN")
                         ELSE @]

SendAck(s) == SendEmptyPacket(s, {"ACK"})

SendRST(s) == DeallocateEndPoint(Notify(SendEmptyPacket(s, {"RST"}), "error"))

Finished(s) == s.finSeq # None /\ s.finSeq < s.rxNext

-----------------------------------------------------------------------------
(* Sending *)

InFlight(s) ==
    Cardinality((s.head .. s.unsent - 1) \ (s.sacked \cup (s.lost \ s.again)))

\* NextSeg of the transmit buffer: the first lost segment that was not sent
\* again, else the first one never sent, else none.
NextSeg(s) ==
    LET missing == s.lost \ s.again
    IN  IF missing # {} THEN Min(missing)
        ELSE IF s.unsent < s.tail THEN s.unsent ELSE None

SendDataPacket(s, seq) ==
    LET last == s.closeOnEmpty /\ seq + 1 >= s.tail
        packet == [flags |-> IF last THEN {"ACK", "FIN"} ELSE {"ACK"},
                   seq |-> seq, len |-> 1, ack |-> s.rxNext, sack |-> {}]
    IN  [s EXCEPT
           !.out = Append(@, packet),
           !.state = CASE last /\ @ = "ESTABLISHED" -> "FIN_WAIT_1"
                       [] last /\ @ = "CLOSE_WAIT" -> "LAST_ACK"
                       [] OTHER -> @,
           !.delTimer = FALSE, !.delAck = 0,
           !.retx = IF @ = "off" THEN "data" ELSE @,
           !.high = Max({@, seq + 1}),
           !.unsent = Max({@, seq + 1}),
           !.again = IF seq \in s.lost THEN @ \cup {seq} ELSE @,
           !.nextTx = seq + 1]

\* Faulty variant: nothing is sent after the FIN, not even what was lost.
SendNext_Closing(s) ==
    IF InFlight(s) >= s.cwnd \/ s.state = "FIN_WAIT_1" \/ NextSeg(s) = None
    THEN s ELSE SendDataPacket(s, NextSeg(s))

\* One round of the loop of SendPendingData.
SendNext(s) ==
    IF \/ InFlight(s) >= s.cwnd
       \/ s.cong = "OPEN" /\ s.state = "FIN_WAIT_1"
       \/ NextSeg(s) = None
    THEN s ELSE SendDataPacket(s, NextSeg(s))

SendPendingData(s) ==
    LET sent[n \in 0 .. s.tail - s.head] == IF n = 0 THEN s ELSE SendNext(sent[n - 1])
    IN  IF s.head >= s.tail \/ ~s.endPoint THEN s ELSE sent[s.tail - s.head]

-----------------------------------------------------------------------------
(* Receiving data and the end of it *)

SetFinSequence(s, q) == [s EXCEPT !.finSeq = q, !.rxNext = IF @ = q THEN q + 1 ELSE @]

DoPeerClose(s) ==
    SendAck(NotifyClosed(
        [s EXCEPT !.state = "CLOSE_WAIT",
                  !.broken = @ \/ s.state \notin {"ESTABLISHED", "SYN_RCVD",
                                                  "FIN_WAIT_1", "FIN_WAIT_2"}]))

\* Add of the receive buffer: what arrives in order, and what it joins up with,
\* becomes available; the server's application reads it in the callback.
AddToBuffer(s, seq) ==
    LET gaps == s.gaps \cup {seq}
        next == CHOOSE n \in s.rxNext .. s.rxNext + Cardinality(gaps) :
                    n \notin gaps /\ \A i \in s.rxNext .. n - 1 : i \in gaps
    IN  [s EXCEPT
           !.gaps = {i \in gaps : i > next},
           !.avail = IF s.eager THEN 0 ELSE @ + (next - s.rxNext),
           !.rxNext = IF next = s.finSeq THEN next + 1 ELSE next]

DelayAck(s) ==
    IF s.delAck + 1 >= DelAckMax THEN SendAck([s EXCEPT !.delTimer = FALSE, !.delAck = 0])
    ELSE [s EXCEPT !.delAck = @ + 1, !.delTimer = TRUE]

ReceivedData(s, p) ==
    LET t == AddToBuffer(s, p.seq)
    IN  IF p.seq < s.rxNext \/ p.seq \in s.gaps THEN SendAck(s)
        ELSE IF t.rxNext > s.rxNext /\ Finished(t) /\ "FIN" \notin p.flags THEN DoPeerClose(t)
        ELSE IF t.gaps # {} \/ t.rxNext > s.rxNext + p.len THEN SendAck(t)
        ELSE DelayAck(t)

PeerClose(s, p) ==
    LET t == SetFinSequence(s, p.seq + p.len)
        u == IF p.len > 0 THEN ReceivedData(t, p) ELSE t
    IN  IF p.seq < s.rxNext THEN s
        ELSE IF ~Finished(u) THEN u
        ELSE IF u.state = "FIN_WAIT_1" THEN [u EXCEPT !.state = "CLOSING"]
        ELSE DoPeerClose(u)

-----------------------------------------------------------------------------
(* Receiving acknowledgements *)

\* DiscardUpTo of the transmit buffer; the ACK of a FIN moves it past its end.
DiscardUpTo(s, ack) ==
    [s EXCEPT !.head = ack, !.tail = Max({@, ack}), !.unsent = Max({@, ack}),
              !.lost = {i \in @ : i >= ack}, !.again = {i \in @ : i >= ack},
              !.sacked = {i \in @ : i >= ack}]

\* Faulty variant: an empty transmit buffer stops the timer, FIN or not.
NewAck_Idle(s, ack) ==
    [s EXCEPT !.dataRetr = DataRetries,
              !.retx = IF s.head = s.tail THEN "off" ELSE "data",
              !.nextTx = Max({@, ack})]

NewAck(s, ack) ==
    [s EXCEPT
       !.dataRetr = DataRetries,
       !.retx = IF s.head = s.tail /\ s.state \notin {"FIN_WAIT_1", "CLOSING"}
                THEN "off" ELSE "data",
       !.nextTx = Max({@, ack})]

\* Data acknowledged for the first time enlarge the window; the ACK that ends
\* the recovery from a timeout does not.
ProcessAck(s, ack, dup, old) ==
    LET t == IF dup /\ s.cong = "OPEN" THEN [s EXCEPT !.cong = "DISORDER"] ELSE s
        grown == Min({Window, t.cwnd + Cardinality(old .. Min({ack, t.high}) - 1)})
    IN  CASE ack = old -> IF ack > t.high THEN [t EXCEPT !.nextTx = ack] ELSE t
          [] ack > old /\ t.cong = "LOSS" /\ ack < t.recover ->
                NewAck([t EXCEPT !.cwnd = grown], ack)
          [] ack > old /\ t.cong = "LOSS" /\ ack >= t.recover ->
                NewAck([t EXCEPT !.cong = "OPEN"], ack)
          [] ack > old /\ t.cong = "DISORDER" /\ dup -> t
          [] OTHER -> NewAck([t EXCEPT !.cong = "OPEN", !.cwnd = grown], ack)

ReceivedAck(s, p) ==
    LET blocks == (p.sack \cap (s.head .. s.unsent - 1)) \ s.sacked
        t == [s EXCEPT !.sacked = @ \cup blocks, !.lost = @ \ blocks, !.again = @ \ blocks]
        WithData(u) == IF p.len > 0 THEN ReceivedData(u, p) ELSE u
    IN  IF p.ack < s.head THEN WithData(t)
        ELSE SendPendingData(WithData(
                 ProcessAck(DiscardUpTo(t, p.ack), p.ack, blocks # {}, s.head)))

-----------------------------------------------------------------------------
(* The state machine: what each state does with a packet *)

\* The three-way handshake is over: sequence numbers start after the SYN.
Established(s, state) ==
    [s EXCEPT !.state = state, !.established = TRUE, !.retx = "off",
              !.nextTx = 1, !.high = 1, !.head = 1, !.tail = 1, !.unsent = 1,
              !.delAck = DelAckMax]

CompleteFork(p) ==
    SendEmptyPacket([NewSocket("SYN_RCVD", TRUE, TRUE) EXCEPT !.rxNext = p.seq + 1],
                    {"SYN", "ACK"})

ProcessSynSent(s, p) ==
    LET t == SendAck(Established([s EXCEPT !.rxNext = p.seq + 1], "ESTABLISHED"))
    IN  CASE p.flags = {"SYN", "ACK"} /\ p.ack = s.nextTx + 1 -> [t EXCEPT !.delAck = DelAckMax]
          [] "SYN" \notin p.flags /\ "ACK" \in p.flags -> s
          [] "RST" \in p.flags -> CloseAndNotify(s)

ProcessSynRcvd(s, p) ==
    CASE p.flags = {"ACK"} /\ p.ack = s.nextTx + 1 ->
            ReceivedAck(Established(s, "ESTABLISHED"), p)
      [] p.flags = {"SYN"} -> SendEmptyPacket([s EXCEPT !.rxNext = p.seq + 1], {"SYN", "ACK"})
      [] p.flags = {"FIN", "ACK"} ->
            IF p.seq = s.rxNext THEN PeerClose(Established(s, "SYN_RCVD"), p) ELSE s
      [] OTHER -> CloseAndNotify(IF p.flags # {"RST"} THEN SendRST(s) ELSE s)

ProcessEstablished(s, p) ==
    CASE p.flags = {"ACK"} ->
            IF p.ack < s.head THEN s
            ELSE IF p.ack > s.high THEN SendAck(s)
            ELSE ReceivedAck(s, p)
      [] "SYN" \in p.flags -> s
      [] "FIN" \in p.flags -> PeerClose(s, p)
      [] p.flags = {"RST"} -> CloseAndNotify(s)

TimeWait(s) == NotifyClosed(CancelAllTimers([s EXCEPT !.state = "TIME_WAIT"]))

\* Faulty variant: the ACK of the last data is taken for the ACK of the FIN.
ProcessWait_Early(s, p) ==
    LET acked == ReceivedAck(s, p)
        mine == acked.head = acked.tail /\ p.ack >= acked.high
        t == IF "FIN" \in p.flags THEN SetFinSequence(acked, p.seq)
             ELSE IF acked.state = "FIN_WAIT_1" /\ mine THEN [acked EXCEPT !.state = "FIN_WAIT_2"]
             ELSE acked
    IN  IF "SYN" \in p.flags THEN s
        ELSE IF "RST" \in p.flags THEN CloseAndNotify(s)
        ELSE IF t.state = "FIN_WAIT_2" /\ Finished(t) THEN SendAck(TimeWait(t))
        ELSE t

\* A FIN that comes with data leaves the end of the stream at their start.
ProcessWait(s, p) ==
    LET acked == ReceivedAck(s, p)
        mine == acked.head = acked.tail /\ p.ack = acked.high + 1
        t == IF "FIN" \in p.flags THEN SetFinSequence(acked, p.seq)
             ELSE IF acked.state = "FIN_WAIT_1" /\ mine THEN [acked EXCEPT !.state = "FIN_WAIT_2"]
             ELSE acked
        ended == CASE t.state = "FIN_WAIT_2" -> TimeWait(t)
                   [] t.state = "FIN_WAIT_1" /\ mine -> TimeWait(t)
                   [] OTHER -> [t EXCEPT !.state = "CLOSING"]
    IN  IF "SYN" \in p.flags THEN s
        ELSE IF "RST" \in p.flags THEN CloseAndNotify(s)
        ELSE IF t.state \in {"FIN_WAIT_1", "FIN_WAIT_2"} /\ Finished(t) THEN SendAck(ended)
        ELSE t

\* Any ACK in sequence is taken for the ACK of the FIN.
ProcessClosing(s, p) ==
    CASE p.flags = {"ACK"} -> IF p.seq = s.rxNext THEN TimeWait(s) ELSE s
      [] "FIN" \in p.flags -> CloseAndNotify(SendAck(s))
      [] p.flags = {"RST"} -> CloseAndNotify(s)
      [] "SYN" \in p.flags -> CloseAndNotify(SendRST(s))

ProcessLastAck(s, p) ==
    CASE p.flags = {"ACK"} -> IF p.seq = s.rxNext THEN CloseAndNotify(s) ELSE s
      [] "FIN" \in p.flags \/ p.flags = {"RST"} -> CloseAndNotify(s)
      [] "SYN" \in p.flags -> CloseAndNotify(SendRST(s))

\* IsValidTcpSegment: data out of the range of the receive buffer are answered
\* by an ACK and dropped.
OutOfRange(s, p) ==
    /\ p.len > 0
    /\ \/ s.state \in {"LAST_ACK", "CLOSING", "CLOSE_WAIT"} /\ p.seq # s.rxNext
       \/ s.state \in {"ESTABLISHED", "FIN_WAIT_1", "FIN_WAIT_2", "TIME_WAIT"}
          /\ p.seq + p.len < s.rxNext

DoForwardUp(s, p) ==
    IF OutOfRange(s, p) THEN SendAck(s)
    ELSE CASE s.state = "SYN_SENT" -> ProcessSynSent(s, p)
           [] s.state = "SYN_RCVD" -> ProcessSynRcvd(s, p)
           [] s.state = "ESTABLISHED" -> ProcessEstablished(s, p)
           [] s.state \in {"FIN_WAIT_1", "FIN_WAIT_2", "CLOSE_WAIT"} -> ProcessWait(s, p)
           [] s.state = "CLOSING" -> ProcessClosing(s, p)
           [] s.state = "LAST_ACK" -> ProcessLastAck(s, p)
           [] s.state = "TIME_WAIT" -> s

\* No end point takes the packet: the listening socket of the server forks on a
\* SYN and ignores the rest, a node without one answers with a reset.
WithoutEndPoint(self, s, p) ==
    LET reset == [flags |-> {"RST"}, seq |-> p.ack, len |-> 0, ack |-> 0, sack |-> {}]
    IN  IF self = Server /\ ~closed[self]
        THEN IF p.flags = {"SYN"} THEN CompleteFork(p) ELSE s
        ELSE IF p.flags = {"RST"} THEN s ELSE [s EXCEPT !.out = <<reset>>]

-----------------------------------------------------------------------------
(* The applications *)

DoClose(s) ==
    CASE s.state \in {"SYN_RCVD", "ESTABLISHED"} ->
            [SendEmptyPacket(s, {"FIN"}) EXCEPT !.state = "FIN_WAIT_1"]
      [] s.state = "CLOSE_WAIT" -> [SendEmptyPacket(s, {"FIN"}) EXCEPT !.state = "LAST_ACK"]
      [] s.state \in {"SYN_SENT", "CLOSING"} -> CloseAndNotify(SendRST(s))
      [] OTHER -> s

\* What is left to send, not what is left to be acknowledged, defers a close.
CloseSocket(s) ==
    IF s.avail + Cardinality(s.gaps) > 0 THEN SendRST(s)
    ELSE IF s.tail > s.nextTx THEN [s EXCEPT !.closeOnEmpty = TRUE]
    ELSE DoClose(s)

\* Carry out a handler of one socket and put what it sends on the network.
Do(self, handled) ==
    \E s \in {handled} :
        /\ sock' = [sock EXCEPT ![self] = [s EXCEPT !.out = <<>>]]
        /\ net' = [net EXCEPT ![Other(self)] = @ \o s.out]

\* A client that was told of a failure has given the socket up.
Holds(self) == self = Server \/ \A i \in DOMAIN sock[self].calls : sock[self].calls[i] = "normal"

Connect ==
    /\ sock[Client].calls = <<>> /\ sock[Client].state = "CLOSED" /\ ~closed[Client]
    /\ Do(Client, [SendEmptyPacket([sock[Client] EXCEPT !.endPoint = TRUE], {"SYN"})
                     EXCEPT !.state = "SYN_SENT"])
    /\ UNCHANGED <<closed, losses, early>>

\* Send: what the application writes goes out in an event of its own.
Send(self) ==
    LET s == sock[self]
    IN  /\ s.established /\ ~closed[self] /\ Holds(self) /\ s.tail <= MaxData[self]
        /\ s.state \in {"ESTABLISHED", "CLOSE_WAIT"}
        /\ Do(self, [s EXCEPT !.tail = @ + 1,
                              !.pending = @ \/ InFlight(s) < s.cwnd])
    /\ UNCHANGED <<closed, losses, early>>

SendPending(self) ==
    /\ sock[self].pending
    /\ Do(self, SendPendingData([sock[self] EXCEPT !.pending = FALSE]))
    /\ UNCHANGED <<closed, losses, early>>

\* The client's application reads what its player has room for.
Read(self) ==
    /\ sock[self].avail > 0 /\ ~closed[self]
    /\ Do(self, [sock[self] EXCEPT !.avail = 0])
    /\ UNCHANGED <<closed, losses, early>>

\* StopApplication of the client closes its socket, that of the server the
\* sockets it has accepted.
Close(self) ==
    /\ ~closed[self] /\ Holds(self)
    /\ IF self = Client THEN sock[self].calls # <<>> \/ sock[self].state # "CLOSED"
       ELSE sock[self].established
    /\ closed' = [closed EXCEPT ![self] = TRUE]
    /\ Do(self, CloseSocket(sock[self]))
    /\ UNCHANGED <<losses, early>>

-----------------------------------------------------------------------------
(* The network and the timers *)

Receive(self) ==
    /\ net[self] # <<>>
    /\ \E t \in {IF sock[self].endPoint THEN DoForwardUp(sock[self], Head(net[self]))
                 ELSE WithoutEndPoint(self, sock[self], Head(net[self]))} :
           /\ sock' = [sock EXCEPT ![self] = [t EXCEPT !.out = <<>>]]
           /\ net' = [net EXCEPT ![self] = Tail(@), ![Other(self)] = @ \o t.out]
    /\ UNCHANGED <<closed, losses, early>>

Lose(self) ==
    /\ net[self] # <<>> /\ losses < MaxLosses
    /\ losses' = losses + 1
    /\ net' = [net EXCEPT ![self] = Tail(@)]
    /\ UNCHANGED <<sock, closed, early>>

\* Faulty variant: what the receiver has selectively acknowledged counts as lost.
RetransmitData_Forgetful(s) ==
    SendPendingData(
        [s EXCEPT !.dataRetr = @ - 1,
                  !.lost = s.head .. s.unsent - 1, !.again = {},
                  !.recover = s.high, !.cong = "LOSS", !.cwnd = 1])

\* SetSentListLost and what else a timeout with data to send does.
RetransmitData(s) ==
    LET t == [s EXCEPT !.dataRetr = @ - 1,
                       !.lost = (s.head .. s.unsent - 1) \ s.sacked, !.again = {},
                       !.recover = s.high, !.cong = "LOSS", !.cwnd = 1]
        u == SendPendingData(t)
    IN  [u EXCEPT !.broken = @ \/ InFlight(t) # 0 \/ InFlight(u) > 1]

ReTxTimeout(s) ==
    IF s.state \in {"CLOSED", "TIME_WAIT"} THEN s
    ELSE IF s.head = s.tail
    THEN IF s.state \in {"FIN_WAIT_1", "CLOSING"} THEN SendEmptyPacket(s, {"FIN"}) ELSE s
    ELSE IF s.dataRetr = 0 THEN DeallocateEndPoint(Notify(s, "error"))
    ELSE RetransmitData(s)

\* A retransmission timer is longer than any other delay: it comes early only
\* when something is delayed.
Quiet == \A p \in Peers : net[p] = <<>> /\ ~sock[p].delTimer /\ ~sock[p].pending

RetxTimer(self) ==
    LET s == [sock[self] EXCEPT !.retx = "off"]
    IN  /\ sock[self].retx # "off"
        /\ Quiet \/ early < MaxEarly
        /\ early' = IF Quiet THEN early ELSE early + 1
        /\ Do(self, CASE sock[self].retx = "data" -> ReTxTimeout(s)
                      [] sock[self].retx = "SYN" -> SendEmptyPacket(s, {"SYN"})
                      [] sock[self].retx = "SYN+ACK" -> SendEmptyPacket(s, {"SYN", "ACK"})
                      [] sock[self].retx = "FIN" -> SendEmptyPacket(s, {"FIN"}))
        /\ UNCHANGED <<closed, losses>>

DelAckTimeout(self) ==
    /\ sock[self].delTimer
    /\ Do(self, SendAck([sock[self] EXCEPT !.delTimer = FALSE, !.delAck = 0]))
    /\ UNCHANGED <<closed, losses, early>>

\* The end of TIME_WAIT, minutes after the last packet.
TimeWaitEnds(self) ==
    /\ sock[self].state = "TIME_WAIT" /\ sock[self].endPoint /\ Quiet
    /\ Do(self, CloseAndNotify(sock[self]))
    /\ UNCHANGED <<closed, losses, early>>

Progress(self) ==
    \/ Receive(self) \/ SendPending(self) \/ DelAckTimeout(self)
    \/ TimeWaitEnds(self)

Next ==
    \/ Connect
    \/ \E self \in Peers :
         \/ Progress(self) \/ RetxTimer(self) \/ Lose(self)
         \/ Send(self) \/ Read(self) \/ Close(self)

\* Events happen, timers run out, the client's player makes room.  Of Receive
\* and RetxTimer, which change a variable whenever their guard holds, weak and
\* strong fairness are written out with that guard in the place of ENABLED.
Fairness ==
    \A self \in Peers :
      /\ []<>(net[self] = <<>>) \/ []<><<Receive(self)>>_vars
      /\ <>[]~(Quiet /\ sock[self].retx # "off") \/ []<><<RetxTimer(self) /\ Quiet>>_vars
      /\ WF_vars(SendPending(self)) /\ WF_vars(DelAckTimeout(self))
      /\ WF_vars(Read(self)) /\ SF_vars(TimeWaitEnds(self))

Spec == Init /\ [][Next]_vars
FairSpec == Spec /\ Fairness

-----------------------------------------------------------------------------
(* Properties *)

States == {"CLOSED", "LISTEN", "SYN_SENT", "SYN_RCVD", "ESTABLISHED", "CLOSE_WAIT",
           "LAST_ACK", "FIN_WAIT_1", "FIN_WAIT_2", "CLOSING", "TIME_WAIT"}

\* The sockets keep to their types, counters to their limits, the transmit
\* buffer keeps its order, and no assertion of tcp-socket-base.cc fails.
TypeOK ==
    /\ \A p \in Peers : LET s == sock[p] IN
         /\ s.state \in States /\ s.cwnd \in 1 .. Window
         /\ s.head <= s.unsent /\ s.unsent <= s.tail /\ s.tail <= MaxData[p] + 2
         /\ s.again \subseteq s.lost /\ s.lost \cap s.sacked = {}
         /\ s.synCount \in 0 .. SynRetries /\ s.dataRetr \in 0 .. DataRetries
         /\ s.delAck \in 0 .. DelAckMax /\ ~s.broken
    /\ losses \in 0 .. MaxLosses /\ early \in 0 .. MaxEarly

\* What a sender has dropped from its buffer as acknowledged (ReceivedAck) the
\* receiver has in order, and a sender waits for the peer's FIN only
\* (FIN_WAIT_2) when the peer has all the data and its own FIN.
AckedMeansReceived ==
    \A p \in Peers :
        /\ sock[p].head <= sock[Other(p)].rxNext
        /\ sock[p].state = "FIN_WAIT_2" => sock[Other(p)].rxNext > sock[p].high

\* Whoever has something unacknowledged, data, a SYN or a FIN, has a timer that
\* sends it again: a lost packet never stops both sides (NewAck, which cancels
\* the timer, and SendEmptyPacket, which starts one only if none runs).
UnackedIsTimed ==
    \A p \in Peers : LET s == sock[p] IN
        /\ s.endPoint
        /\ \/ s.head < s.unsent /\ s.state # "TIME_WAIT"
           \/ s.state \in {"SYN_SENT", "SYN_RCVD", "FIN_WAIT_1", "CLOSING", "LAST_ACK"}
        => s.retx # "off"

\* What an application writes reaches the other end, unless one of the sockets
\* is gone: losses are repaired by ReTxTimeout, whoever closes meanwhile.
Arrives ==
    \A p \in Peers :
        sock[p].tail > sock[Other(p)].rxNext
          ~> \/ sock[p].tail <= sock[Other(p)].rxNext
             \/ \E q \in Peers : ~sock[q].endPoint

\* The comment of ProcessLastAck (tcp-socket-base.cc:2618): the ACK on which a
\* socket in LAST_ACK closes peacefully corresponds to the FIN it sent.
LastAckIsOfTheFin ==
    [][\A p \in Peers :
         /\ sock[p].state = "LAST_ACK" /\ sock'[p].state = "CLOSED"
         /\ net[p] # <<>> /\ net'[p] = Tail(net[p]) /\ Head(net[p]).flags = {"ACK"}
         => Head(net[p]).ack > sock[p].high]_vars

\* The comment of Close (tcp-socket-base.cc:801): a close with pending data
\* waits until all data are transmitted; then the connection is closed.
DeferredCloseHappens ==
    \A p \in Peers :
        sock[p].closeOnEmpty
          ~> sock[p].state \notin {"ESTABLISHED", "CLOSE_WAIT"} \/ ~sock[p].endPoint
=============================================================================
