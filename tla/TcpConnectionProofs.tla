------------------------- MODULE TcpConnectionProofs -------------------------
(***************************************************************************)
(* Theorems about TcpConnection: a side takes for acknowledged only what   *)
(* its peer has received.                                                  *)
(*                                                                         *)
(* A handler takes a packet and runs through many methods of the socket    *)
(* before it ends, and each of them changes the socket in steps. The       *)
(* invariant is therefore one of a socket and the Context a handler runs   *)
(* in, Good: the numbers of the socket, its state, its timers and the      *)
(* packets it has put out fit each other and what the peer has received.   *)
(* Every method keeps it (the lemmas ...Keeps, from the inside out). What  *)
(* makes it hold are the packets: none, however old, acknowledges more     *)
(* than its sender has received (PacketsOf), since that never shrinks.     *)
(*                                                                         *)
(* A SYN is the exception: it sets the next sequence number the server     *)
(* expects back to 1. SynOrder says why this does no harm: the client      *)
(* sends nothing else before its SYN is answered and the network keeps the *)
(* order, so no SYN reaches the server behind a packet that may have moved *)
(* it on.                                                                  *)
(*                                                                         *)
(* The handler of one packet may end the handshake and take the end of the *)
(* stream as well; for the time between, a Context has reach and midway.   *)
(***************************************************************************)
EXTENDS TcpConnection, ModelLemmas

-----------------------------------------------------------------------------
(* Numbers and sequences. *)

(* The least and the larger of numbers.                                     *)
LEMMA LeastIs ==
  ASSUME NEW S \in SUBSET Nat, S # {}
  PROVE  Min(S) \in S /\ \A y \in S : Min(S) <= y
<1> DEFINE R == OpToRel(<, Nat)
<1>1. PICK x \in S : \A y \in S : ~ (<<y, x>> \in R)
  <2>1. IsWellFoundedOn(R, Nat)
    BY NatLessThanWellFounded
  <2> HIDE DEF R
  <2> QED
    BY <2>1, WFMin
<1>2. ASSUME NEW y \in S PROVE x <= y
  <2>1. ~ (y < x)
    BY <1>1 DEF OpToRel
  <2>2. x \in Nat /\ y \in Nat
    OBVIOUS
  <2> QED
    BY <2>1, <2>2
<1>3. x \in S /\ \A y \in S : x =< y
  BY <1>2
<1> QED
  BY <1>3 DEF Min

LEMMA LargerIs ==
  ASSUME NEW a \in Nat, NEW b \in Nat
  PROVE  Max({a, b}) \in Nat /\ Max({a, b}) >= a /\ Max({a, b}) >= b /\ Max({a, b}) \in {a, b}
<1>1. \E x \in {a, b} : \A y \in {a, b} : x >= y
  OBVIOUS
<1> QED
  BY <1>1 DEF Max

LEMMA WiderSeq ==
  ASSUME NEW S, NEW T, S \subseteq T, NEW q \in Seq(S)
  PROVE  q \in Seq(T)
<1>1. \A i \in 1 .. Len(q) : q[i] \in T
  BY ElementOfSeq
<1> QED
  BY <1>1, IsASeq

-----------------------------------------------------------------------------
(* Packets and sockets. *)

FlagSets == {{"SYN"}, {"SYN", "ACK"}, {"ACK"}, {"FIN", "ACK"}, {"RST"}}

Packets == [flags : FlagSets, seq : Nat, len : {0, 1}, ack : Nat, sack : SUBSET Nat]

(* What who sends that has received all up to n.                            *)
PacketsOf(who, n) ==
  {p \in Packets :
     /\ p.ack <= n
     /\ "ACK" \in p.flags => n >= 1
     /\ "SYN" \in p.flags =>
          /\ p.len = 0
          /\ who = Client => p.flags = {"SYN"} /\ p.seq = 0
          /\ who = Server => p.flags = {"SYN", "ACK"} /\ p.ack = 1}

(* The same without the SYN of a client.                                    *)
LaterPackets(who, n) == {p \in PacketsOf(who, n) : who = Client => "SYN" \notin p.flags}

(* What a handler is given: whose socket it runs for, what the peer has      *)
(* received, what its own socket may have received when it ends, whether a   *)
(* client has still been sending its SYN, and whether a server has seen the  *)
(* end of the handshake and of the stream in one packet.                     *)
Contexts == [who : Peers, peer : Nat, reach : SUBSET Nat, asks : BOOLEAN, midway : BOOLEAN]

(* The members of a socket that the invariant is about.                     *)
Fields == {"state", "endPoint", "nextTx", "high", "head", "tail", "unsent", "lost",
           "rxNext", "gaps", "finSeq", "established", "retx", "delTimer",
           "closeNotified", "calls", "out"}

Timers == {"off", "data", "SYN", "SYN+ACK", "FIN"}

Callbacks == {"normal", "error", "failed"}

Typed(s) ==
  /\ Fields \subseteq DOMAIN s
  /\ s.state \in States /\ s.endPoint \in BOOLEAN
  /\ s.nextTx \in Nat /\ s.high \in Nat /\ s.head \in Nat /\ s.tail \in Nat
  /\ s.unsent \in Nat /\ s.rxNext \in Nat
  /\ s.lost \in SUBSET Nat
  /\ s.gaps \in SUBSET Nat /\ IsFiniteSet(s.gaps)
  /\ s.finSeq \in Nat \cup {None}

(* The state fits the numbers: a side is acknowledged only what its peer has *)
(* received, and waits for the peer's FIN only when its own was; what has    *)
(* received nothing is still sending its SYN.                                *)
StateFits(s, c) ==
  /\ s.head <= c.peer
  /\ s.state = "FIN_WAIT_2" => c.peer > s.high /\ s.head = s.tail
  /\ s.state = "SYN_SENT" => /\ c.who = Client /\ ~s.established
                             /\ s.rxNext = 0 /\ s.nextTx = 0
  /\ s.state = "SYN_RCVD" => /\ c.who = Server
                             /\ IF s.established THEN c.midway ELSE s.gaps = {}
  /\ s.rxNext = 0 => /\ s.head = s.tail /\ ~s.established
                     /\ s.endPoint => s.state = "SYN_SENT"
  /\ s.endPoint => s.state \notin {"CLOSED", "LISTEN"}

(* The timers fit the state.                                                *)
TimersFit(s, c) ==
  /\ s.retx \in Timers
  /\ s.rxNext = 0 => ~s.delTimer /\ s.retx \in {"off", "SYN"}
  /\ s.retx = "SYN" => s.state = "SYN_SENT" /\ c.asks /\ s.out = <<>>
  /\ s.retx = "SYN+ACK" => s.state = "SYN_RCVD" /\ ~s.established /\ s.rxNext = 1
  /\ ~s.endPoint => s.retx = "off"

(* A socket is closed only when the application was told.                   *)
CallsFit(s) ==
  /\ s.calls \in Seq(Callbacks)
  /\ s.closeNotified \/ s.state = "CLOSED" => s.calls # <<>>

Good(s, c) ==
  /\ Typed(s) /\ StateFits(s, c) /\ TimersFit(s, c) /\ CallsFit(s)
  /\ s.rxNext \in c.reach
  /\ s.out \in Seq(LaterPackets(c.who, s.rxNext))

(* What s and t have sent and received is the same.                         *)
Unmoved(s, t) ==
  /\ Fields \subseteq DOMAIN t
  /\ t.nextTx = s.nextTx /\ t.high = s.high /\ t.head = s.head /\ t.tail = s.tail
  /\ t.unsent = s.unsent /\ t.lost = s.lost
  /\ t.rxNext = s.rxNext /\ t.gaps = s.gaps /\ t.finSeq = s.finSeq
  /\ t.established = s.established

(* And so is their state.                                                   *)
Alike(s, t) ==
  Unmoved(s, t) /\ t.state = s.state /\ t.endPoint = s.endPoint

LEMMA LaterMore ==
  ASSUME NEW who \in Peers, NEW n \in Nat, NEW m \in Nat, n <= m,
         NEW q \in Seq(LaterPackets(who, n))
  PROVE  q \in Seq(LaterPackets(who, m))
<1>1. LaterPackets(who, n) \subseteq LaterPackets(who, m)
  <2>1. PacketsOf(who, n) \subseteq PacketsOf(who, m)
    <3>1. \A p \in Packets : p.ack \in Nat
      BY DEF Packets
    <3>2. \A p \in Packets : (p.ack <= n => p.ack <= m) /\ (n >= 1 => m >= 1)
      BY <3>1
    <3> QED
      BY <3>2, Zenon DEF PacketsOf
  <2> QED
    BY <2>1, Zenon DEF LaterPackets
<1> QED
  BY <1>1, WiderSeq

(* The state of t is one s may go to without anything sent or received.     *)
MovesTo(s, t) ==
  /\ t.state \in States /\ t.endPoint \in BOOLEAN
  /\ t.state \in {"SYN_SENT", "SYN_RCVD", "FIN_WAIT_2"} => t.state = s.state
  /\ t.endPoint => /\ t.state \notin {"CLOSED", "LISTEN"}
                   /\ t.rxNext = 0 => t.state = "SYN_SENT"

LEMMA UnmovedIsGood ==
  ASSUME NEW c \in Contexts, NEW s, Good(s, c), NEW t, Unmoved(s, t), MovesTo(s, t),
         TimersFit(t, c), CallsFit(t), t.out \in Seq(LaterPackets(c.who, s.rxNext))
  PROVE  Good(t, c)
<1>1. Typed(t)
  BY DEF Good, Typed, Unmoved, MovesTo
<1>2. StateFits(t, c)
  <2>1. StateFits(s, c)
    BY DEF Good
  <2> QED
    BY <2>1 DEF StateFits, Unmoved, MovesTo
<1>3. t.rxNext \in c.reach
  BY DEF Good, Unmoved
<1>4. t.out \in Seq(LaterPackets(c.who, t.rxNext))
  BY DEF Unmoved
<1> QED
  BY <1>1, <1>2, <1>3, <1>4 DEF Good

LEMMA StaysThere ==
  ASSUME NEW c \in Contexts, NEW s, Good(s, c), NEW t, Alike(s, t)
  PROVE  MovesTo(s, t)
BY DEF Good, Typed, StateFits, Alike, Unmoved, MovesTo

(* An empty packet with an ACK.                                             *)
LEMMA EmptyPacketKeeps ==
  ASSUME NEW c \in Contexts, NEW s, Good(s, c), NEW flags \in {{"ACK"}, {"FIN"}},
         s.rxNext # 0
  PROVE  /\ Good(SendEmptyPacket(s, flags), c)
         /\ Alike(s, SendEmptyPacket(s, flags))
<1> DEFINE t == SendEmptyPacket(s, flags)
<1> SUFFICES Good(t, c) /\ Alike(s, t)
  OBVIOUS
<1>1. CASE ~s.endPoint
  <2>1. t = s
    BY <1>1 DEF SendEmptyPacket
  <2> HIDE DEF t
  <2>2. Alike(s, t)
    BY <2>1 DEF Alike, Unmoved, Good, Typed
  <2> QED
    BY <2>1, <2>2
<1>2. CASE s.endPoint
  <2>1. Typed(s) /\ TimersFit(s, c) /\ StateFits(s, c) /\ s.rxNext \in Nat /\ s.rxNext >= 1
    BY DEF Good, Typed
  <2>2. Fields \subseteq DOMAIN s /\ s.out \in Seq(LaterPackets(c.who, s.rxNext))
    BY <2>1 DEF Typed, Good
  <2> DEFINE all == IF "FIN" \in flags THEN flags \cup {"ACK"} ELSE flags
             seq == IF "FIN" \notin flags /\ s.state \in {"FIN_WAIT_1", "LAST_ACK", "CLOSING"}
                    THEN s.nextTx + 1 ELSE s.nextTx
             p == [flags |-> all, seq |-> seq, len |-> 0, ack |-> s.rxNext,
                   sack |-> IF "ACK" \in all THEN s.gaps ELSE {}]
  <2>3. p \in LaterPackets(c.who, s.rxNext)
    <3>1. all \in {{"ACK"}, {"FIN", "ACK"}} /\ "SYN" \notin all
      OBVIOUS
    <3>2. seq \in Nat /\ s.gaps \in SUBSET Nat
      BY <2>1 DEF Typed
    <3>3. p \in Packets
      <4> HIDE DEF all, seq
      <4> QED
        BY <2>1, <3>1, <3>2 DEF Packets, FlagSets
    <3> HIDE DEF all, seq
    <3> QED
      BY <2>1, <3>1, <3>3 DEF PacketsOf, LaterPackets
  <2>a. "SYN" \notin flags
    OBVIOUS
  <2>4. t.out = Append(s.out, p)
    BY <1>2, <2>a, <2>2 DEF SendEmptyPacket, Fields
  <2>5. Alike(s, t) /\ (t.retx = s.retx \/ t.retx = "FIN") /\ (t.delTimer => s.delTimer)
        /\ t.calls = s.calls /\ t.closeNotified = s.closeNotified
    BY <1>2, <2>a, <2>2 DEF SendEmptyPacket, Fields, Alike, Unmoved
  <2> HIDE DEF p, t
  <2>6. t.out \in Seq(LaterPackets(c.who, s.rxNext))
    BY <2>2, <2>3, <2>4, AppendProperties
  <2>7. TimersFit(t, c)
    <3>1. s.retx # "SYN"
      BY <2>1 DEF StateFits, TimersFit
    <3> QED
      BY <1>2, <2>1, <2>5, <3>1 DEF TimersFit, Timers, Alike, Unmoved
  <2>8. CallsFit(t) /\ MovesTo(s, t) /\ Unmoved(s, t)
    BY <2>5, StaysThere DEF CallsFit, Good, Alike
  <2> QED
    BY <2>5, <2>6, <2>7, <2>8, UnmovedIsGood
<1> QED
  BY <1>1, <1>2

LEMMA SendRstKeeps ==
  ASSUME NEW c \in Contexts, NEW s, Good(s, c)
  PROVE  /\ Good(SendRST(s), c)
         /\ Unmoved(s, SendRST(s)) /\ SendRST(s).state = s.state
<1> DEFINE t == SendRST(s)
<1> SUFFICES Good(t, c) /\ Unmoved(s, t) /\ t.state = s.state
  OBVIOUS
<1>1. /\ Typed(s) /\ TimersFit(s, c) /\ StateFits(s, c) /\ CallsFit(s) /\ s.rxNext \in Nat
      /\ Fields \subseteq DOMAIN s /\ s.out \in Seq(LaterPackets(c.who, s.rxNext))
  BY DEF Good, Typed
<1> DEFINE seq == IF s.state \in {"FIN_WAIT_1", "LAST_ACK", "CLOSING"}
                  THEN s.nextTx + 1 ELSE s.nextTx
           p == [flags |-> {"RST"}, seq |-> seq, len |-> 0, ack |-> s.rxNext, sack |-> {}]
<1>2. p \in LaterPackets(c.who, s.rxNext)
  <2>1. seq \in Nat
    BY <1>1 DEF Typed
  <2>2. p \in Packets
    <3> HIDE DEF seq
    <3> QED
      BY <1>1, <2>1 DEF Packets, FlagSets
  <2> HIDE DEF seq
  <2> QED
    BY <1>1, <2>2 DEF PacketsOf, LaterPackets
<1>3. /\ t.out = (IF s.endPoint THEN Append(s.out, p) ELSE s.out)
      /\ t.calls = Append(s.calls, "error")
      /\ Unmoved(s, t) /\ t.state = s.state /\ ~t.endPoint /\ t.endPoint \in BOOLEAN
      /\ t.retx = "off" /\ (t.delTimer => s.delTimer)
  <2>1. "SYN" \notin {"RST"} /\ "FIN" \notin {"RST"} /\ "ACK" \notin {"RST"}
    OBVIOUS
  <2>2. CASE s.endPoint
    <3>1. PICK u : u = SendEmptyPacket(s, {"RST"})
      OBVIOUS
    <3>2. /\ Unmoved(s, u) /\ u.state = s.state /\ u.endPoint = s.endPoint
          /\ u.out = Append(s.out, p) /\ u.calls = s.calls /\ (u.delTimer => s.delTimer)
      BY <1>1, <2>1, <2>2, <3>1 DEF SendEmptyPacket, Fields, Unmoved
    <3>3. t = DeallocateEndPoint(Notify(u, "error"))
      BY <3>1 DEF SendRST
    <3> HIDE DEF t, p
    <3>4. /\ Unmoved(u, t) /\ t.state = u.state /\ t.endPoint = FALSE
          /\ t.out = u.out /\ t.calls = Append(u.calls, "error") /\ t.retx = "off"
          /\ t.delTimer = FALSE
      BY <2>2, <3>2, <3>3 DEF DeallocateEndPoint, CancelAllTimers, Notify, Fields, Unmoved
    <3> QED
      BY <2>2, <3>2, <3>4 DEF Unmoved
  <2>3. CASE ~s.endPoint
    BY <1>1, <2>1, <2>3 DEF SendRST, SendEmptyPacket, DeallocateEndPoint, Notify, Fields,
                            Unmoved, TimersFit, Typed
  <2> QED
    BY <2>2, <2>3
<1> HIDE DEF t, p
<1>4. t.out \in Seq(LaterPackets(c.who, s.rxNext))
  BY <1>1, <1>2, <1>3, AppendProperties
<1>5. TimersFit(t, c)
  BY <1>1, <1>3 DEF TimersFit, Timers, Unmoved
<1>6. CallsFit(t)
  <2>1. Append(s.calls, "error") \in Seq(Callbacks) /\ Append(s.calls, "error") # <<>>
    BY <1>1, AppendProperties DEF CallsFit, Callbacks
  <2> QED
    BY <1>3, <2>1 DEF CallsFit
<1>7. MovesTo(s, t)
  BY <1>1, <1>3 DEF MovesTo, Typed
<1> QED
  BY <1>3, <1>4, <1>5, <1>6, <1>7, UnmovedIsGood

LEMMA NotifyClosedKeeps ==
  ASSUME NEW c \in Contexts, NEW s, Good(s, c)
  PROVE  /\ Good(NotifyClosed(s), c)
         /\ Alike(s, NotifyClosed(s)) /\ NotifyClosed(s).calls # <<>>
         /\ NotifyClosed(s).calls \in Seq(Callbacks)
<1> DEFINE t == NotifyClosed(s)
<1> SUFFICES Good(t, c) /\ Alike(s, t) /\ t.calls # <<>> /\ t.calls \in Seq(Callbacks)
  OBVIOUS
<1>1. Typed(s) /\ CallsFit(s) /\ TimersFit(s, c) /\ Fields \subseteq DOMAIN s
      /\ s.out \in Seq(LaterPackets(c.who, s.rxNext))
  BY DEF Good, Typed
<1>2. CASE s.closeNotified
  <2>1. t = s
    BY <1>2 DEF NotifyClosed
  <2> HIDE DEF t
  <2> QED
    BY <1>1, <1>2, <2>1 DEF Alike, Unmoved, CallsFit
<1>3. CASE ~s.closeNotified
  <2>1. /\ Alike(s, t) /\ t.calls = Append(s.calls, "normal") /\ t.out = s.out
        /\ t.retx = s.retx /\ t.delTimer = s.delTimer
    BY <1>1, <1>3 DEF NotifyClosed, Notify, Alike, Unmoved, Fields
  <2>2. Append(s.calls, "normal") \in Seq(Callbacks) /\ Append(s.calls, "normal") # <<>>
    BY <1>1, AppendProperties DEF CallsFit, Callbacks
  <2> HIDE DEF t
  <2>3. TimersFit(t, c) /\ CallsFit(t)
    BY <1>1, <2>1, <2>2 DEF TimersFit, CallsFit, Alike, Unmoved
  <2> QED
    BY <1>1, <2>1, <2>2, <2>3, StaysThere, UnmovedIsGood DEF Alike
<1> QED
  BY <1>2, <1>3

LEMMA CloseAndNotifyKeeps ==
  ASSUME NEW c \in Contexts, NEW s, Good(s, c)
  PROVE  Good(CloseAndNotify(s), c) /\ Unmoved(s, CloseAndNotify(s))
<1> DEFINE u == NotifyClosed(s)
           t == CloseAndNotify(s)
<1> SUFFICES Good(t, c) /\ Unmoved(s, t)
  OBVIOUS
<1>1. t = DeallocateEndPoint([u EXCEPT !.state = "CLOSED"])
  BY DEF CloseAndNotify
<1>2. Good(u, c) /\ Alike(s, u) /\ u.calls # <<>> /\ u.calls \in Seq(Callbacks)
  BY NotifyClosedKeeps
<1> HIDE DEF u
<1>3. /\ Fields \subseteq DOMAIN u /\ TimersFit(u, c) /\ u.endPoint \in BOOLEAN
      /\ u.out \in Seq(LaterPackets(c.who, u.rxNext))
  BY <1>2 DEF Good, Typed
<1>4. /\ t.out = u.out /\ t.calls = u.calls
      /\ Unmoved(u, t) /\ t.state = "CLOSED" /\ t.endPoint = FALSE
      /\ t.retx = "off" /\ (t.delTimer => u.delTimer)
  <2>1. CASE u.endPoint
    BY <1>1, <1>3, <2>1 DEF DeallocateEndPoint, CancelAllTimers, Fields, Unmoved
  <2>2. CASE ~u.endPoint
    BY <1>1, <1>3, <2>2 DEF DeallocateEndPoint, Fields, Unmoved, TimersFit
  <2> QED
    BY <2>1, <2>2
<1> HIDE DEF t
<1>5. TimersFit(t, c)
  BY <1>3, <1>4 DEF TimersFit, Timers, Unmoved
<1>6. CallsFit(t) /\ MovesTo(u, t)
  BY <1>2, <1>4 DEF CallsFit, MovesTo, States
<1>7. Good(t, c)
  BY <1>2, <1>3, <1>4, <1>5, <1>6, UnmovedIsGood
<1>8. Unmoved(s, t)
  BY <1>2, <1>4 DEF Alike, Unmoved
<1> QED
  BY <1>7, <1>8

-----------------------------------------------------------------------------
(* Sending. *)

(* The members of s and t that matter are the same.                         *)
Same(s, t) == Fields \subseteq DOMAIN t /\ \A f \in Fields : t[f] = s[f]

LEMMA SameIsGood ==
  ASSUME NEW c \in Contexts, NEW s, Good(s, c), NEW t, Same(s, t)
  PROVE  Good(t, c) /\ Alike(s, t)
<1>1. /\ Alike(s, t) /\ t.out = s.out /\ t.calls = s.calls /\ t.retx = s.retx
      /\ t.closeNotified = s.closeNotified /\ t.delTimer = s.delTimer
  BY DEF Same, Fields, Alike, Unmoved
<1>2. TimersFit(t, c) /\ CallsFit(t) /\ t.out \in Seq(LaterPackets(c.who, s.rxNext))
  BY <1>1 DEF Good, TimersFit, CallsFit, Alike, Unmoved
<1> QED
  BY <1>1, <1>2, StaysThere, UnmovedIsGood DEF Alike

(* A socket that is not waiting for the answer to its SYN.                  *)
Awake(s) == s.endPoint /\ s.rxNext # 0

(* t is still awake and has received what s has.                            *)
Wakes(s, t) == t.endPoint /\ t.rxNext = s.rxNext

LEMMA SendDataPacketKeeps ==
  ASSUME NEW c \in Contexts, NEW s, Good(s, c), s.endPoint, s.head < s.tail, NEW seq \in Nat
  PROVE  /\ Good(SendDataPacket(s, seq), c) /\ Wakes(s, SendDataPacket(s, seq))
         /\ SendDataPacket(s, seq).head = s.head /\ SendDataPacket(s, seq).tail = s.tail
         /\ SendDataPacket(s, seq).state \in {s.state, "FIN_WAIT_1", "LAST_ACK"}
<1> DEFINE last == s.closeOnEmpty /\ seq + 1 >= s.tail
           p == [flags |-> IF last THEN {"ACK", "FIN"} ELSE {"ACK"},
                 seq |-> seq, len |-> 1, ack |-> s.rxNext, sack |-> {}]
           t == SendDataPacket(s, seq)
<1> SUFFICES /\ Good(t, c) /\ Wakes(s, t) /\ t.head = s.head /\ t.tail = s.tail
             /\ t.state \in {s.state, "FIN_WAIT_1", "LAST_ACK"}
  OBVIOUS
<1>1. /\ Typed(s) /\ TimersFit(s, c) /\ StateFits(s, c) /\ CallsFit(s) /\ s.rxNext \in Nat
      /\ s.head \in Nat /\ s.tail \in Nat /\ s.high \in Nat /\ s.unsent \in Nat
      /\ Fields \subseteq DOMAIN s /\ s.out \in Seq(LaterPackets(c.who, s.rxNext))
  BY DEF Good, Typed
<1>2. /\ s.rxNext >= 1 /\ s.state \notin {"FIN_WAIT_2", "SYN_SENT"} /\ s.retx # "SYN"
  BY <1>1 DEF StateFits, TimersFit
<1>3. p \in LaterPackets(c.who, s.rxNext)
  <2>1. p.flags \in {{"ACK"}, {"FIN", "ACK"}} /\ "SYN" \notin p.flags
    OBVIOUS
  <2>2. p \in Packets
    BY <1>1, <2>1 DEF Packets, FlagSets
  <2>3. p.ack = s.rxNext
    OBVIOUS
  <2> HIDE DEF p
  <2> QED
    BY <1>1, <1>2, <2>1, <2>2, <2>3 DEF PacketsOf, LaterPackets
<1>4. /\ t.out = Append(s.out, p) /\ t.head = s.head /\ t.tail = s.tail
      /\ t.state \in {s.state, "FIN_WAIT_1", "LAST_ACK"} /\ t.endPoint = s.endPoint
      /\ t.retx = (IF s.retx = "off" THEN "data" ELSE s.retx)
      /\ (t.state # s.state => s.state \in {"ESTABLISHED", "CLOSE_WAIT"})
      /\ t.delTimer = FALSE /\ t.calls = s.calls /\ t.closeNotified = s.closeNotified
  BY <1>1 DEF SendDataPacket, Fields
<1>5. /\ t.nextTx = seq + 1 /\ t.high = Max({s.high, seq + 1})
      /\ t.unsent = Max({s.unsent, seq + 1}) /\ t.lost = s.lost
      /\ t.rxNext = s.rxNext /\ t.gaps = s.gaps /\ t.finSeq = s.finSeq
      /\ t.established = s.established /\ Fields \subseteq DOMAIN t
  BY <1>1 DEF SendDataPacket, Fields
<1>6. t.high \in Nat /\ t.unsent \in Nat
  <2>1. seq + 1 \in Nat
    OBVIOUS
  <2> QED
    BY <1>1, <1>5, <2>1, LargerIs
<1> HIDE DEF p, t
<1>7. Typed(t)
  BY <1>1, <1>4, <1>5, <1>6 DEF Typed, States
<1>8. StateFits(t, c)
  BY <1>1, <1>2, <1>4, <1>5 DEF StateFits
<1>9. TimersFit(t, c)
  <2>1. t.state = "SYN_RCVD" <=> s.state = "SYN_RCVD"
    BY <1>4
  <2> QED
    BY <1>1, <1>2, <1>4, <1>5, <2>1 DEF TimersFit, Timers
<1>10. CallsFit(t) /\ t.rxNext \in c.reach
  BY <1>1, <1>4, <1>5 DEF CallsFit, Good
<1>11. t.out \in Seq(LaterPackets(c.who, t.rxNext))
  BY <1>1, <1>3, <1>4, <1>5, AppendProperties
<1> QED
  BY <1>4, <1>5, <1>7, <1>8, <1>9, <1>10, <1>11 DEF Good, Wakes

LEMMA NextSegIsOne ==
  ASSUME NEW s, s.lost \in SUBSET Nat, s.unsent \in Nat, NextSeg(s) # None
  PROVE  NextSeg(s) \in Nat
<1> DEFINE missing == s.lost \ s.again
<1>1. missing \in SUBSET Nat
  OBVIOUS
<1>2. missing # {} => Min(missing) \in Nat
  <2> HIDE DEF missing
  <2> QED
    BY <1>1, LeastIs
<1>3. NextSeg(s) = IF missing # {} THEN Min(missing)
                   ELSE IF s.unsent < s.tail THEN s.unsent ELSE None
  BY DEF NextSeg
<1> QED
  BY <1>2, <1>3

(* What stays true from one round of SendPendingData to the next, and to    *)
(* its end.                                                                 *)
Sending(s, c, t) ==
  /\ Good(t, c) /\ Wakes(s, t) /\ t.head = s.head /\ t.tail = s.tail
  /\ t.state \in {s.state, "FIN_WAIT_1", "LAST_ACK"}

LEMMA SendNextKeeps ==
  ASSUME NEW c \in Contexts, NEW s, s.head < s.tail, s.endPoint, NEW t, Sending(s, c, t)
  PROVE  Sending(s, c, SendNext(t))
<1>1. CASE SendNext(t) = t
  BY <1>1
<1>2. CASE NextSeg(t) # None /\ SendNext(t) = SendDataPacket(t, NextSeg(t))
  <2>1. t.endPoint /\ t.head < t.tail /\ Good(t, c)
    BY DEF Sending, Wakes
  <2>2. t.lost \in SUBSET Nat /\ t.unsent \in Nat
    BY <2>1 DEF Good, Typed
  <2>3. PICK n \in Nat : n = NextSeg(t)
    BY <1>2, <2>2, NextSegIsOne
  <2>4. /\ Good(SendDataPacket(t, n), c) /\ Wakes(t, SendDataPacket(t, n))
        /\ SendDataPacket(t, n).head = t.head /\ SendDataPacket(t, n).tail = t.tail
        /\ SendDataPacket(t, n).state \in {t.state, "FIN_WAIT_1", "LAST_ACK"}
    BY <2>1, SendDataPacketKeeps
  <2> QED
    BY <1>2, <2>3, <2>4 DEF Sending, Wakes
<1> QED
  BY <1>1, <1>2 DEF SendNext

(* k rounds from s on.                                                      *)
Rounds(h, s, k) == h = [n \in 0 .. k |-> IF n = 0 THEN s ELSE SendNext(h[n - 1])]

LEMMA RoundsExist ==
  ASSUME NEW s, NEW k \in Nat
  PROVE  \E h : Rounds(h, s, k)
<1> DEFINE S == {m \in Nat : \E h : Rounds(h, s, m)}
<1>1. 0 \in S
  <2>1. Rounds([n \in 0 .. 0 |-> s], s, 0)
    BY DEF Rounds
  <2> QED
    BY <2>1
<1>2. ASSUME NEW m \in Nat, m \in S PROVE m + 1 \in S
  <2>1. PICK g : Rounds(g, s, m)
    BY <1>2
  <2> DEFINE h == [n \in 0 .. m + 1 |-> IF n <= m THEN g[n] ELSE SendNext(g[m])]
  <2>2. ASSUME NEW n \in 0 .. m + 1
        PROVE  h[n] = IF n = 0 THEN s ELSE SendNext(h[n - 1])
    <3>1. \A i \in 0 .. m : g[i] = IF i = 0 THEN s ELSE SendNext(g[i - 1])
      BY <2>1 DEF Rounds
    <3>2. CASE n = 0
      BY <3>1, <3>2
    <3>3. CASE n \in 1 .. m
      <4>1. h[n] = g[n] /\ h[n - 1] = g[n - 1] /\ n \in 0 .. m /\ n # 0
        BY <3>3
      <4> HIDE DEF h
      <4> QED
        BY <3>1, <4>1
    <3>4. CASE n = m + 1
      <4>1. h[n] = SendNext(g[m]) /\ h[n - 1] = g[m] /\ n # 0
        BY <3>4
      <4> HIDE DEF h
      <4> QED
        BY <4>1
    <3> QED
      BY <3>2, <3>3, <3>4
  <2>3. h = [n \in 0 .. m + 1 |-> IF n = 0 THEN s ELSE SendNext(h[n - 1])]
    BY <2>2
  <2> HIDE DEF h
  <2> QED
    BY <2>3 DEF Rounds
<1> HIDE DEF S
<1>3. Nat \subseteq S
  BY <1>1, <1>2, SetInduction
<1> QED
  BY <1>3 DEF S

LEMMA SendPendingDataKeeps ==
  ASSUME NEW c \in Contexts, NEW s, Good(s, c)
  PROVE  /\ Good(SendPendingData(s), c)
         /\ SendPendingData(s).endPoint = s.endPoint
         /\ SendPendingData(s).rxNext = s.rxNext
         /\ SendPendingData(s).state \in {s.state, "FIN_WAIT_1", "LAST_ACK"}
<1>1. CASE s.head >= s.tail \/ ~s.endPoint
  BY <1>1 DEF SendPendingData
<1>2. CASE ~(s.head >= s.tail \/ ~s.endPoint)
  <2>1. s.head \in Nat /\ s.tail \in Nat /\ s.endPoint \in BOOLEAN
    BY DEF Good, Typed
  <2>2. s.head < s.tail /\ s.endPoint
    BY <1>2, <2>1
  <2>3. PICK k \in Nat : k = s.tail - s.head
    BY <2>1, <2>2
  <2>4. SendPendingData(s) = (CHOOSE h : Rounds(h, s, k))[k]
    BY <1>2, <2>3 DEF SendPendingData, Rounds
  <2>5. PICK h : h = (CHOOSE e : Rounds(e, s, k)) /\ Rounds(h, s, k)
    BY RoundsExist
  <2>6. \A n \in 0 .. k : h[n] = IF n = 0 THEN s ELSE SendNext(h[n - 1])
    BY <2>5 DEF Rounds
  <2> DEFINE S == {n \in Nat : n <= k => Sending(s, c, h[n])}
  <2>7. 0 \in S
    BY <2>2, <2>6 DEF Sending, Wakes
  <2>8. ASSUME NEW n \in Nat, n \in S PROVE n + 1 \in S
    <3>1. SUFFICES ASSUME n + 1 <= k PROVE Sending(s, c, h[n + 1])
      OBVIOUS
    <3>2. Sending(s, c, h[n])
      BY <2>8, <3>1
    <3>3. h[n + 1] = SendNext(h[n])
      <4>1. n + 1 \in 0 .. k /\ n + 1 # 0 /\ (n + 1) - 1 = n
        BY <3>1
      <4> QED
        BY <2>6, <4>1
    <3> QED
      BY <2>2, <3>2, <3>3, SendNextKeeps
  <2> HIDE DEF S
  <2>9. Nat \subseteq S
    BY <2>7, <2>8, SetInduction
  <2>10. Sending(s, c, h[k])
    BY <2>9 DEF S
  <2> QED
    BY <2>2, <2>4, <2>5, <2>10 DEF Sending, Wakes
<1> QED
  BY <1>1, <1>2

-----------------------------------------------------------------------------
(* Receiving acknowledgements. *)

(* And its state is that of s.                                              *)
Acks(s, t) == Wakes(s, t) /\ t.state = s.state /\ t.established = s.established

LEMMA DiscardUpToKeeps ==
  ASSUME NEW c \in Contexts, NEW s, Good(s, c), Awake(s),
         NEW ack \in Nat, s.head <= ack, ack <= c.peer
  PROVE  Good(DiscardUpTo(s, ack), c) /\ Acks(s, DiscardUpTo(s, ack))
<1> DEFINE t == DiscardUpTo(s, ack)
<1> SUFFICES Good(t, c) /\ Acks(s, t)
  OBVIOUS
<1>1. /\ Typed(s) /\ TimersFit(s, c) /\ StateFits(s, c) /\ CallsFit(s)
      /\ s.head \in Nat /\ s.tail \in Nat /\ s.unsent \in Nat
      /\ Fields \subseteq DOMAIN s /\ s.out \in Seq(LaterPackets(c.who, s.rxNext))
  BY DEF Good, Typed
<1>2. /\ t.head = ack /\ t.tail = Max({s.tail, ack}) /\ t.unsent = Max({s.unsent, ack})
      /\ t.lost = {i \in s.lost : i >= ack}
      /\ t.nextTx = s.nextTx /\ t.high = s.high /\ Fields \subseteq DOMAIN t
      /\ t.rxNext = s.rxNext /\ t.gaps = s.gaps /\ t.finSeq = s.finSeq
      /\ t.established = s.established
  BY <1>1 DEF DiscardUpTo, Fields
<1>3. /\ t.state = s.state /\ t.endPoint = s.endPoint /\ t.retx = s.retx
      /\ t.delTimer = s.delTimer /\ t.calls = s.calls /\ t.closeNotified = s.closeNotified
      /\ t.out = s.out
  BY <1>1 DEF DiscardUpTo, Fields
<1> HIDE DEF t
<1>4. /\ t.tail \in Nat /\ t.unsent \in Nat /\ (s.tail <= ack => t.tail = ack)
      /\ t.lost \in SUBSET Nat
  <2>1. t.lost \in SUBSET Nat
    BY <1>1, <1>2 DEF Typed
  <2> QED
    BY <1>1, <1>2, <2>1, LargerIs
<1>5. Typed(t)
  BY <1>1, <1>2, <1>3, <1>4 DEF Typed
<1>6. StateFits(t, c)
  BY <1>1, <1>2, <1>3, <1>4 DEF StateFits, Awake
<1>7. TimersFit(t, c) /\ CallsFit(t)
  BY <1>1, <1>2, <1>3 DEF TimersFit, CallsFit
<1> QED
  BY <1>1, <1>2, <1>3, <1>5, <1>6, <1>7 DEF Good, Acks, Wakes, Awake

(* t is s with another next sequence number and another retransmission timer. *)
LEMMA RetimedIsGood ==
  ASSUME NEW c \in Contexts, NEW s, Good(s, c), Awake(s), NEW ack \in Nat, NEW t,
         Fields \subseteq DOMAIN t,
         \A f \in Fields \ {"nextTx", "retx"} : t[f] = s[f],
         t.nextTx \in Nat, t.retx \in {s.retx, "data", "off"}
  PROVE  Good(t, c) /\ Acks(s, t)
<1>1. /\ Typed(s) /\ TimersFit(s, c) /\ StateFits(s, c) /\ CallsFit(s)
      /\ s.out \in Seq(LaterPackets(c.who, s.rxNext))
  BY DEF Good
<1>2. /\ t.head = s.head /\ t.tail = s.tail /\ t.unsent = s.unsent /\ t.lost = s.lost
      /\ t.high = s.high /\ t.rxNext = s.rxNext /\ t.gaps = s.gaps /\ t.finSeq = s.finSeq
      /\ t.established = s.established
      /\ t.state = s.state /\ t.endPoint = s.endPoint
      /\ t.delTimer = s.delTimer /\ t.calls = s.calls /\ t.closeNotified = s.closeNotified
      /\ t.out = s.out
  BY DEF Fields
<1>3. Typed(t)
  BY <1>1, <1>2 DEF Typed
<1>4. StateFits(t, c) /\ TimersFit(t, c) /\ CallsFit(t)
  BY <1>1, <1>2 DEF StateFits, TimersFit, CallsFit, Awake, Timers
<1> QED
  BY <1>1, <1>2, <1>3, <1>4 DEF Good, Acks, Wakes, Awake

LEMMA NewAckKeeps ==
  ASSUME NEW c \in Contexts, NEW s, Good(s, c), Awake(s), NEW ack \in Nat
  PROVE  Good(NewAck(s, ack), c) /\ Acks(s, NewAck(s, ack))
<1> DEFINE t == NewAck(s, ack)
<1>1. Fields \subseteq DOMAIN s /\ s.nextTx \in Nat
  BY DEF Good, Typed
<1>2. /\ \A f \in Fields \ {"nextTx", "retx"} : t[f] = s[f]
      /\ Fields \subseteq DOMAIN t /\ t.nextTx = Max({s.nextTx, ack}) /\ t.retx \in {"data", "off"}
  BY <1>1 DEF NewAck, Fields
<1>3. t.nextTx \in Nat
  BY <1>1, <1>2, LargerIs
<1> HIDE DEF t
<1>4. Good(t, c) /\ Acks(s, t)
  BY <1>2, <1>3, RetimedIsGood
<1> QED
  BY <1>4 DEF t

LEMMA ProcessAckKeeps ==
  ASSUME NEW c \in Contexts, NEW s, Good(s, c), Awake(s),
         NEW ack \in Nat, NEW dup \in BOOLEAN, NEW old \in Nat
  PROVE  /\ Good(ProcessAck(s, ack, dup, old), c)
         /\ Acks(s, ProcessAck(s, ack, dup, old))
<1> DEFINE t == IF dup /\ s.cong = "OPEN" THEN [s EXCEPT !.cong = "DISORDER"] ELSE s
           grown == Min({Window, t.cwnd + Cardinality(old .. Min({ack, t.high}) - 1)})
           u == ProcessAck(s, ack, dup, old)
<1>1. Fields \subseteq DOMAIN s
  BY DEF Good, Typed
<1>2. Same(s, t)
  BY <1>1 DEF Same, Fields
<1>3. PICK v : v = t
  OBVIOUS
<1>4. Good(v, c) /\ Acks(s, v) /\ Awake(v) /\ Fields \subseteq DOMAIN v
  BY <1>2, <1>3, SameIsGood DEF Alike, Unmoved, Acks, Wakes, Awake
<1>5. PICK g : g = grown
  OBVIOUS
<1>6. ASSUME NEW w, \E x, y : w \in {[v EXCEPT !.cwnd = x], [v EXCEPT !.cong = x],
                                     [v EXCEPT !.cong = x, !.cwnd = y]}
      PROVE  Good(NewAck(w, ack), c) /\ Acks(s, NewAck(w, ack))
  <2>1. Same(v, w)
    BY <1>4, <1>6 DEF Same, Fields
  <2>2. Good(w, c) /\ Alike(v, w)
    BY <1>4, <2>1, SameIsGood
  <2>3. Awake(w) /\ Acks(s, w)
    BY <1>4, <2>2 DEF Alike, Unmoved, Awake, Acks, Wakes
  <2> QED
    BY <2>2, <2>3, NewAckKeeps DEF Acks, Wakes
<1>7. Good([v EXCEPT !.nextTx = ack], c) /\ Acks(s, [v EXCEPT !.nextTx = ack])
  <2>1. PICK w : w = [v EXCEPT !.nextTx = ack]
    OBVIOUS
  <2>2. /\ \A f \in Fields \ {"nextTx", "retx"} : w[f] = v[f]
        /\ Fields \subseteq DOMAIN w /\ w.nextTx = ack /\ w.retx = v.retx
    BY <1>4, <2>1 DEF Fields
  <2> QED
    BY <1>4, <2>1, <2>2, RetimedIsGood DEF Acks, Wakes
<1>8. u \in {v, [v EXCEPT !.nextTx = ack], NewAck([v EXCEPT !.cwnd = g], ack),
             NewAck([v EXCEPT !.cong = "OPEN"], ack),
             NewAck([v EXCEPT !.cong = "OPEN", !.cwnd = g], ack)}
  BY <1>3, <1>5 DEF ProcessAck
<1> HIDE DEF u
<1>9. Good(u, c) /\ Acks(s, u)
  BY <1>4, <1>6, <1>7, <1>8
<1> QED
  BY <1>9 DEF u

-----------------------------------------------------------------------------
(* Receiving data and the end of it. *)

(* There is a first number from a on that is not in G.                      *)
LEMMA FirstMissing ==
  ASSUME NEW G \in SUBSET Nat, IsFiniteSet(G), NEW a \in Nat
  PROVE  \E n \in a .. a + Cardinality(G) : n \notin G /\ \A i \in a .. n - 1 : i \in G
<1>1. PICK k \in Nat : k = Cardinality(G)
  BY FS_CardinalityType
<1>2. SUFFICES ASSUME \A n \in a .. a + k : n \in G \/ \E i \in a .. n - 1 : i \notin G
               PROVE  FALSE
  BY <1>1
<1> DEFINE S == {m \in Nat : m <= k => \A i \in a .. a + m : i \in G}
<1>3. 0 \in S
  <2>1. a \in a .. a + k /\ \A i \in a .. a - 1 : FALSE
    OBVIOUS
  <2> QED
    BY <1>2, <2>1
<1>4. ASSUME NEW m \in Nat, m \in S PROVE m + 1 \in S
  <2>1. SUFFICES ASSUME m + 1 <= k, NEW i \in a .. a + (m + 1) PROVE i \in G
    OBVIOUS
  <2>2. \A j \in a .. a + m : j \in G
    BY <1>4, <2>1
  <2>3. CASE i \in a .. a + m
    BY <2>2, <2>3
  <2>4. CASE i = a + (m + 1)
    <3>1. i \in a .. a + k /\ \A j \in a .. i - 1 : j \in a .. a + m
      BY <2>1, <2>4
    <3> QED
      BY <1>2, <2>2, <3>1
  <2> QED
    BY <2>3, <2>4
<1> HIDE DEF S
<1>5. Nat \subseteq S
  BY <1>3, <1>4, SetInduction
<1>6. a .. a + k \subseteq G
  BY <1>5 DEF S
<1>7. Cardinality(a .. a + k) <= k
  BY <1>1, <1>6, FS_Subset
<1>8. Cardinality(a .. a + k) = (a + k) - a + 1
  <2>1. a \in Int /\ a + k \in Int /\ ~(a > a + k)
    OBVIOUS
  <2> QED
    BY <2>1, FS_Interval
<1> QED
  BY <1>7, <1>8

(* Whatever the socket has received more is fine.                           *)
Grows(c) == \A n \in c.reach, m \in Nat : m >= n => m \in c.reach

(* A socket that may receive data.                                          *)
Open(s) == s.endPoint /\ s.rxNext # 0 /\ (s.state = "SYN_RCVD" => s.established)

(* What receiving data does to one.                                         *)
Opens(s, t) ==
  /\ t.endPoint /\ t.rxNext \in Nat /\ t.rxNext >= s.rxNext /\ t.established = s.established
  /\ t.state = s.state \/ t.state = "CLOSE_WAIT"

LEMMA StillOpen ==
  ASSUME NEW s, s.rxNext \in Nat, Open(s), NEW t, Opens(s, t)
  PROVE  Open(t) /\ Awake(t)
BY DEF Open, Opens, Awake

LEMMA OpensAgain ==
  ASSUME NEW s, s.rxNext \in Nat, NEW t, Opens(s, t), NEW u, Opens(t, u)
  PROVE  Opens(s, u)
BY DEF Opens

LEMMA AlikeOpens ==
  ASSUME NEW c \in Contexts, NEW s, Good(s, c), s.endPoint, NEW t, Alike(s, t)
  PROVE  Opens(s, t)
BY DEF Opens, Alike, Unmoved, Good, Typed

LEMMA ReceivedIsGood ==
  ASSUME NEW c \in Contexts, Grows(c), NEW s, Good(s, c), Open(s), NEW t,
         Fields \subseteq DOMAIN t,
         \A f \in Fields \ {"gaps", "rxNext", "finSeq"} : t[f] = s[f],
         t.gaps \in SUBSET Nat, IsFiniteSet(t.gaps),
         t.rxNext \in Nat, t.rxNext >= s.rxNext, t.finSeq \in Nat \cup {None}
  PROVE  Good(t, c) /\ Opens(s, t)
<1>1. /\ Typed(s) /\ TimersFit(s, c) /\ StateFits(s, c) /\ CallsFit(s) /\ s.rxNext \in Nat
      /\ s.out \in Seq(LaterPackets(c.who, s.rxNext)) /\ s.rxNext \in c.reach /\ c.who \in Peers
  BY DEF Good, Typed, Contexts
<1>2. /\ t.head = s.head /\ t.tail = s.tail /\ t.unsent = s.unsent /\ t.lost = s.lost
      /\ t.high = s.high /\ t.nextTx = s.nextTx
      /\ t.established = s.established
      /\ t.state = s.state /\ t.endPoint = s.endPoint /\ t.retx = s.retx
      /\ t.delTimer = s.delTimer /\ t.calls = s.calls /\ t.closeNotified = s.closeNotified
      /\ t.out = s.out
  BY DEF Fields
<1>3. t.rxNext \in c.reach
  BY <1>1 DEF Grows
<1>4. t.out \in Seq(LaterPackets(c.who, t.rxNext))
  BY <1>1, <1>2, LaterMore
<1>5. Typed(t)
  BY <1>1, <1>2 DEF Typed
<1>6. StateFits(t, c)
  BY <1>1, <1>2 DEF StateFits, Open
<1>7. TimersFit(t, c) /\ CallsFit(t)
  BY <1>1, <1>2 DEF StateFits, TimersFit, CallsFit, Open
<1> QED
  BY <1>2, <1>3, <1>4, <1>5, <1>6, <1>7 DEF Good, Opens, Open

LEMMA SetFinSequenceKeeps ==
  ASSUME NEW c \in Contexts, Grows(c), NEW s, Good(s, c), Open(s), NEW q \in Nat
  PROVE  /\ Good(SetFinSequence(s, q), c) /\ Opens(s, SetFinSequence(s, q))
         /\ SetFinSequence(s, q).finSeq = q /\ SetFinSequence(s, q).gaps = s.gaps
         /\ SetFinSequence(s, q).state = s.state
         /\ SetFinSequence(s, q).rxNext = IF s.rxNext = q THEN q + 1 ELSE s.rxNext
<1> DEFINE t == SetFinSequence(s, q)
<1>1. Fields \subseteq DOMAIN s /\ s.rxNext \in Nat /\ s.gaps \in SUBSET Nat /\ IsFiniteSet(s.gaps)
  BY DEF Good, Typed
<1>2. /\ \A f \in Fields \ {"gaps", "rxNext", "finSeq"} : t[f] = s[f]
      /\ Fields \subseteq DOMAIN t /\ t.finSeq = q /\ t.gaps = s.gaps /\ t.state = s.state
      /\ t.rxNext = IF s.rxNext = q THEN q + 1 ELSE s.rxNext
  BY <1>1 DEF SetFinSequence, Fields
<1> HIDE DEF t
<1>3. t.rxNext \in Nat /\ t.rxNext >= s.rxNext
  BY <1>1, <1>2
<1>4. Good(t, c) /\ Opens(s, t)
  BY <1>1, <1>2, <1>3, ReceivedIsGood
<1> QED
  BY <1>2, <1>4 DEF t

LEMMA AddToBufferKeeps ==
  ASSUME NEW c \in Contexts, Grows(c), NEW s, Good(s, c), Open(s), NEW seq \in Nat
  PROVE  /\ Good(AddToBuffer(s, seq), c) /\ Opens(s, AddToBuffer(s, seq))
         /\ AddToBuffer(s, seq).finSeq = s.finSeq /\ AddToBuffer(s, seq).state = s.state
         /\ s.rxNext = seq /\ s.finSeq = seq + 1 => AddToBuffer(s, seq).rxNext > seq + 1
<1> DEFINE gaps == s.gaps \cup {seq}
           t == AddToBuffer(s, seq)
<1>1. Fields \subseteq DOMAIN s /\ s.rxNext \in Nat /\ s.gaps \in SUBSET Nat /\ IsFiniteSet(s.gaps)
      /\ s.finSeq \in Nat \cup {None}
  BY DEF Good, Typed
<1>2. gaps \in SUBSET Nat /\ IsFiniteSet(gaps)
  BY <1>1, FS_AddElement
<1>3. seq \in gaps
  OBVIOUS
<1>4. PICK G \in SUBSET Nat : G = gaps /\ IsFiniteSet(G) /\ seq \in G
  BY <1>2, <1>3
<1> DEFINE Gap(n) == n \notin G /\ \A i \in s.rxNext .. n - 1 : i \in G
<1>5. PICK next : /\ next = (CHOOSE n \in s.rxNext .. s.rxNext + Cardinality(G) : Gap(n))
                  /\ next \in s.rxNext .. s.rxNext + Cardinality(G) /\ Gap(next)
  BY <1>1, <1>4, FirstMissing
<1>6. Cardinality(G) \in Nat
  BY <1>4, FS_CardinalityType
<1>7. next \in Nat /\ next >= s.rxNext /\ (s.rxNext = seq => next > seq)
  <2>1. PICK a \in Nat, k \in Nat : a = s.rxNext /\ k = Cardinality(G)
    BY <1>1, <1>6
  <2>2. next \in a .. a + k /\ next # seq
    BY <1>4, <1>5, <2>1
  <2> QED
    BY <2>1, <2>2
<1>8. /\ \A f \in Fields \ {"gaps", "rxNext", "finSeq"} : t[f] = s[f]
      /\ Fields \subseteq DOMAIN t /\ t.finSeq = s.finSeq /\ t.state = s.state
      /\ t.gaps = {i \in G : i > next}
      /\ t.rxNext = IF next = s.finSeq THEN next + 1 ELSE next
  <2> HIDE DEF Gap
  <2>1. t = [s EXCEPT
               !.gaps = {i \in G : i > next},
               !.avail = IF s.eager THEN 0 ELSE @ + (next - s.rxNext),
               !.rxNext = IF next = s.finSeq THEN next + 1 ELSE next]
    BY <1>4, <1>5 DEF AddToBuffer, Gap
  <2> HIDE DEF t
  <2> QED
    BY <1>1, <2>1 DEF Fields
<1> HIDE DEF t, gaps, Gap
<1>9. t.gaps \in SUBSET Nat /\ IsFiniteSet(t.gaps)
  <2>1. t.gaps \subseteq G
    BY <1>8
  <2> QED
    BY <1>4, <2>1, FS_Subset
<1>10. t.rxNext \in Nat /\ t.rxNext >= s.rxNext
       /\ (s.rxNext = seq /\ s.finSeq = seq + 1 => t.rxNext > seq + 1)
  BY <1>1, <1>7, <1>8
<1>11. Good(t, c) /\ Opens(s, t)
  BY <1>1, <1>8, <1>9, <1>10, ReceivedIsGood
<1> QED
  BY <1>8, <1>10, <1>11 DEF t

LEMMA SendAckKeeps ==
  ASSUME NEW c \in Contexts, NEW s, Good(s, c), s.rxNext # 0
  PROVE  Good(SendAck(s), c) /\ Alike(s, SendAck(s))
BY EmptyPacketKeeps DEF SendAck

LEMMA DoPeerCloseKeeps ==
  ASSUME NEW c \in Contexts, NEW s, Good(s, c), Awake(s), s.retx # "SYN+ACK"
  PROVE  /\ Good(DoPeerClose(s), c) /\ Opens(s, DoPeerClose(s))
         /\ DoPeerClose(s).state = "CLOSE_WAIT"
         /\ DoPeerClose(s).rxNext = s.rxNext
<1> DEFINE t == DoPeerClose(s)
<1>1. PICK u : u = [s EXCEPT !.state = "CLOSE_WAIT",
                             !.broken = @ \/ s.state \notin {"ESTABLISHED", "SYN_RCVD",
                                                             "FIN_WAIT_1", "FIN_WAIT_2"}]
  OBVIOUS
<1>2. Typed(s) /\ TimersFit(s, c) /\ StateFits(s, c) /\ CallsFit(s) /\ s.rxNext \in Nat
      /\ Fields \subseteq DOMAIN s /\ s.out \in Seq(LaterPackets(c.who, s.rxNext))
  BY DEF Good, Typed
<1>3. /\ Unmoved(s, u) /\ u.state = "CLOSE_WAIT" /\ u.endPoint = s.endPoint
      /\ u.out = s.out /\ u.calls = s.calls /\ u.closeNotified = s.closeNotified
      /\ u.retx = s.retx /\ u.delTimer = s.delTimer
  BY <1>1, <1>2 DEF Unmoved, Fields
<1>4. TimersFit(u, c) /\ CallsFit(u) /\ MovesTo(s, u)
  BY <1>2, <1>3 DEF TimersFit, StateFits, CallsFit, MovesTo, States, Unmoved, Awake
<1>5. Good(u, c)
  BY <1>2, <1>3, <1>4, UnmovedIsGood
<1>6. PICK v : v = NotifyClosed(u) /\ Good(v, c) /\ Alike(u, v)
  BY <1>5, NotifyClosedKeeps
<1>7. v.rxNext # 0
  BY <1>3, <1>6 DEF Alike, Unmoved, Awake
<1>8. Good(SendAck(v), c) /\ Alike(v, SendAck(v))
  BY <1>6, <1>7, SendAckKeeps
<1>9. t = SendAck(v)
  BY <1>1, <1>6 DEF DoPeerClose
<1> HIDE DEF t
<1>10. t.rxNext = s.rxNext /\ t.state = "CLOSE_WAIT" /\ t.endPoint = s.endPoint
       /\ t.established = s.established
  BY <1>3, <1>6, <1>8, <1>9 DEF Alike, Unmoved
<1>11. Good(t, c) /\ Opens(s, t)
  BY <1>2, <1>8, <1>9, <1>10 DEF Opens, Awake
<1> QED
  BY <1>10, <1>11 DEF t

LEMMA DelayAckKeeps ==
  ASSUME NEW c \in Contexts, NEW s, Good(s, c), s.rxNext # 0
  PROVE  Good(DelayAck(s), c) /\ Alike(s, DelayAck(s))
<1> DEFINE t == DelayAck(s)
<1>0. Typed(s) /\ TimersFit(s, c) /\ CallsFit(s) /\ s.rxNext \in Nat
      /\ Fields \subseteq DOMAIN s /\ s.out \in Seq(LaterPackets(c.who, s.rxNext))
  BY DEF Good, Typed
<1>1. ASSUME NEW x, NEW y, NEW u, u = [s EXCEPT !.delAck = x, !.delTimer = y]
      PROVE  Good(u, c) /\ Alike(s, u)
  <2>1. /\ Alike(s, u) /\ u.out = s.out /\ u.calls = s.calls
        /\ u.closeNotified = s.closeNotified /\ u.retx = s.retx
    BY <1>0, <1>1 DEF Fields, Alike, Unmoved
  <2>2. TimersFit(u, c) /\ CallsFit(u)
    BY <1>0, <2>1 DEF TimersFit, CallsFit, Alike, Unmoved
  <2> QED
    BY <1>0, <2>1, <2>2, StaysThere, UnmovedIsGood DEF Alike
<1>2. CASE s.delAck + 1 >= DelAckMax
  <2>1. PICK u : u = [s EXCEPT !.delTimer = FALSE, !.delAck = 0]
    OBVIOUS
  <2>2. u = [s EXCEPT !.delAck = 0, !.delTimer = FALSE]
    BY <2>1
  <2>3. Good(u, c) /\ Alike(s, u)
    BY <1>1, <2>2
  <2>4. Good(SendAck(u), c) /\ Alike(u, SendAck(u))
    BY <2>3, SendAckKeeps DEF Alike, Unmoved
  <2>5. t = SendAck(u)
    BY <1>2, <2>1 DEF DelayAck
  <2> HIDE DEF t
  <2>6. Good(t, c) /\ Alike(s, t)
    BY <2>3, <2>4, <2>5 DEF Alike, Unmoved
  <2> QED
    BY <2>6 DEF t
<1>3. CASE ~(s.delAck + 1 >= DelAckMax)
  <2>1. t = [s EXCEPT !.delAck = s.delAck + 1, !.delTimer = TRUE]
    BY <1>3 DEF DelayAck
  <2> HIDE DEF t
  <2>2. Good(t, c) /\ Alike(s, t)
    BY <1>1, <2>1
  <2> QED
    BY <2>2 DEF t
<1> QED
  BY <1>2, <1>3

LEMMA ReceivedDataKeeps ==
  ASSUME NEW c \in Contexts, Grows(c), NEW s, Good(s, c), Open(s),
         NEW p, p.seq \in Nat
  PROVE  Good(ReceivedData(s, p), c) /\ Opens(s, ReceivedData(s, p))
<1>1. s.rxNext \in Nat /\ TimersFit(s, c)
  BY DEF Good, Typed
<1>2. PICK t : /\ t = AddToBuffer(s, p.seq) /\ Good(t, c) /\ Opens(s, t)
  BY AddToBufferKeeps
<1>3. Open(t) /\ Awake(t) /\ t.rxNext # 0 /\ t.endPoint
  BY <1>1, <1>2, StillOpen DEF Open
<1>4. t.retx # "SYN+ACK"
  BY <1>2, <1>3 DEF Open, TimersFit, Good
<1>5. ReceivedData(s, p) \in {SendAck(s), DoPeerClose(t), SendAck(t), DelayAck(t)}
  BY <1>2 DEF ReceivedData
<1>6. Good(SendAck(s), c) /\ Opens(s, SendAck(s))
  BY SendAckKeeps, AlikeOpens DEF Open
<1>7. Good(DoPeerClose(t), c) /\ Opens(s, DoPeerClose(t))
  BY <1>1, <1>2, <1>3, <1>4, DoPeerCloseKeeps, OpensAgain
<1>8. Good(SendAck(t), c) /\ Opens(s, SendAck(t))
  BY <1>1, <1>2, <1>3, SendAckKeeps, AlikeOpens, OpensAgain
<1>9. Good(DelayAck(t), c) /\ Opens(s, DelayAck(t))
  BY <1>1, <1>2, <1>3, DelayAckKeeps, AlikeOpens, OpensAgain
<1> QED
  BY <1>5, <1>6, <1>7, <1>8, <1>9

LEMMA PeerCloseKeeps ==
  ASSUME NEW c \in Contexts, Grows(c), NEW s, Good(s, c), Open(s),
         NEW p, p.seq \in Nat, p.len \in {0, 1}
  PROVE  Good(PeerClose(s, p), c) /\ PeerClose(s, p).endPoint
<1>1. s.rxNext \in Nat /\ s.endPoint
  BY DEF Good, Typed, Open
<1>2. PICK t : t = SetFinSequence(s, p.seq + p.len) /\ Good(t, c) /\ Opens(s, t)
  <2>1. p.seq + p.len \in Nat
    OBVIOUS
  <2> QED
    BY <2>1, SetFinSequenceKeeps
<1>3. Open(t) /\ t.rxNext \in Nat
  BY <1>1, <1>2, StillOpen DEF Opens
<1>4. PICK u : u = (IF p.len > 0 THEN ReceivedData(t, p) ELSE t) /\ Good(u, c) /\ Opens(t, u)
  <2>1. Good(ReceivedData(t, p), c) /\ Opens(t, ReceivedData(t, p))
    BY <1>2, <1>3, ReceivedDataKeeps
  <2>2. Opens(t, t)
    BY <1>3 DEF Opens, Open
  <2> QED
    BY <1>2, <2>1, <2>2
<1>5. Open(u) /\ Awake(u) /\ u.retx # "SYN+ACK" /\ u.endPoint /\ u.rxNext \in Nat
  BY <1>3, <1>4, StillOpen DEF Open, TimersFit, Good, Opens
<1>6. Good(DoPeerClose(u), c) /\ Opens(u, DoPeerClose(u))
  BY <1>4, <1>5, DoPeerCloseKeeps
<1>7. u.state = "FIN_WAIT_1" =>
        Good([u EXCEPT !.state = "CLOSING"], c) /\ [u EXCEPT !.state = "CLOSING"].endPoint
  <2>1. SUFFICES ASSUME u.state = "FIN_WAIT_1", NEW v, v = [u EXCEPT !.state = "CLOSING"]
                 PROVE  Good(v, c) /\ v.endPoint
    OBVIOUS
  <2>2. Fields \subseteq DOMAIN u /\ TimersFit(u, c) /\ CallsFit(u)
        /\ u.out \in Seq(LaterPackets(c.who, u.rxNext))
    BY <1>4 DEF Good, Typed
  <2>3. /\ Unmoved(u, v) /\ v.state = "CLOSING" /\ v.endPoint = u.endPoint
        /\ v.out = u.out /\ v.calls = u.calls /\ v.closeNotified = u.closeNotified
        /\ v.retx = u.retx /\ v.delTimer = u.delTimer
    BY <2>1, <2>2 DEF Unmoved, Fields
  <2>4. TimersFit(v, c) /\ CallsFit(v) /\ MovesTo(u, v)
    BY <1>5, <2>1, <2>2, <2>3 DEF TimersFit, CallsFit, MovesTo, States, Unmoved, Open
  <2> QED
    BY <1>4, <1>5, <2>2, <2>3, <2>4, UnmovedIsGood
<1>8. PeerClose(s, p) = IF p.seq < s.rxNext THEN s
                        ELSE IF ~Finished(u) THEN u
                        ELSE IF u.state = "FIN_WAIT_1" THEN [u EXCEPT !.state = "CLOSING"]
                        ELSE DoPeerClose(u)
  BY <1>2, <1>4 DEF PeerClose
<1>9. DoPeerClose(u).endPoint
  BY <1>6 DEF Opens
<1> QED
  BY <1>1, <1>4, <1>5, <1>6, <1>7, <1>8, <1>9

(* The end of the stream in the packet that ends the handshake.             *)
LEMMA PeerCloseShakes ==
  ASSUME NEW c \in Contexts, Grows(c), NEW s, Good(s, c), Open(s), s.state = "SYN_RCVD",
         s.gaps = {}, NEW p, p.seq = s.rxNext, p.len \in {0, 1}, "FIN" \in p.flags
  PROVE  PeerClose(s, p).state = "CLOSE_WAIT"
<1>1. s.rxNext \in Nat /\ p.seq \in Nat
  BY DEF Good, Typed
<1>2. PICK q \in Nat : q = p.seq + p.len
  BY <1>1
<1>3. PICK t : /\ t = SetFinSequence(s, q) /\ Good(t, c) /\ Opens(s, t)
               /\ t.finSeq = q /\ t.gaps = {} /\ t.state = "SYN_RCVD"
               /\ t.rxNext = IF s.rxNext = q THEN q + 1 ELSE s.rxNext
  BY SetFinSequenceKeeps
<1>4. Open(t) /\ t.rxNext \in Nat
  BY <1>1, <1>3, StillOpen DEF Opens
<1>5. CASE p.len = 0
  <2>1. PeerClose(s, p) = DoPeerClose(t)
    <3>1. q = s.rxNext /\ ~(p.seq < s.rxNext) /\ t.finSeq # None /\ t.finSeq < t.rxNext
      BY <1>1, <1>2, <1>3, <1>5 DEF None
    <3>2. ~(p.len > 0) /\ t.state # "FIN_WAIT_1"
      BY <1>3, <1>5
    <3> QED
      BY <1>2, <1>3, <3>1, <3>2 DEF PeerClose, Finished
  <2> QED
    BY <1>3, <1>4, <2>1, DoPeerCloseKeeps, StillOpen DEF Open, Awake, TimersFit, Good
<1>6. CASE p.len = 1
  <2>0. q = p.seq + 1 /\ t.rxNext = p.seq
    BY <1>1, <1>2, <1>3, <1>6
  <2>1. PICK a : /\ a = AddToBuffer(t, p.seq) /\ Good(a, c) /\ Opens(t, a)
                 /\ a.finSeq = q /\ a.state = "SYN_RCVD" /\ a.rxNext > q
    BY <1>1, <1>3, <1>4, <2>0, AddToBufferKeeps
  <2>2. ~(p.seq < t.rxNext \/ p.seq \in t.gaps)
    BY <1>1, <1>3, <2>0
  <2>3. ReceivedData(t, p) \in {SendAck(a), DelayAck(a)}
    BY <2>1, <2>2 DEF ReceivedData
  <2>4. PICK u : u = ReceivedData(t, p) /\ Good(u, c) /\ Alike(a, u)
    BY <1>4, <2>1, <2>3, StillOpen, SendAckKeeps, DelayAckKeeps DEF Awake
  <2>5. Opens(a, u) /\ Open(u) /\ Awake(u) /\ u.retx # "SYN+ACK"
    <3>1. a.endPoint /\ a.rxNext \in Nat /\ Open(a)
      BY <1>4, <2>1, StillOpen DEF Opens
    <3>2. Opens(a, u)
      BY <2>1, <2>4, <3>1, AlikeOpens
    <3>3. Open(u) /\ Awake(u)
      BY <3>1, <3>2, StillOpen
    <3> QED
      BY <2>4, <3>2, <3>3 DEF Open, TimersFit, Good
  <2>6. Finished(u) /\ u.state # "FIN_WAIT_1"
    BY <2>1, <2>4 DEF Finished, Alike, Unmoved, None
  <2>7. PeerClose(s, p) = DoPeerClose(u)
    BY <1>1, <1>2, <1>3, <1>6, <2>4, <2>6 DEF PeerClose
  <2> QED
    BY <2>4, <2>5, <2>7, DoPeerCloseKeeps
<1> QED
  BY <1>5, <1>6

-----------------------------------------------------------------------------
(* The state machine. *)

(* A packet that is on its way to the socket of c.                          *)
Comes(p, c) == p \in PacketsOf(Other(c.who), c.peer)

LEMMA ComesTyped ==
  ASSUME NEW c \in Contexts, NEW p, Comes(p, c)
  PROVE  /\ p.seq \in Nat /\ p.len \in {0, 1} /\ p.ack \in Nat /\ p.ack <= c.peer
         /\ p.flags \in FlagSets /\ ("ACK" \in p.flags => c.peer >= 1)
BY DEF Comes, PacketsOf, Packets

(* The states a socket that has shaken hands may be turned to.              *)
NextStates == {"CLOSE_WAIT", "CLOSING", "FIN_WAIT_1", "LAST_ACK", "TIME_WAIT"}

(* s in the state st.                                                      *)
Turned(s, st) == [s EXCEPT !.state = st]

LEMMA TurnsTo ==
  ASSUME NEW c \in Contexts, NEW s, Good(s, c), Awake(s), s.state # "SYN_RCVD",
         NEW st \in NextStates, NEW u, u = Turned(s, st)
  PROVE  Good(u, c) /\ Unmoved(s, u) /\ u.state = st /\ u.endPoint
<1>1. /\ Fields \subseteq DOMAIN s /\ TimersFit(s, c) /\ CallsFit(s) /\ StateFits(s, c)
      /\ s.out \in Seq(LaterPackets(c.who, s.rxNext))
  BY DEF Good, Typed
<1>2. /\ Unmoved(s, u) /\ u.state = st /\ u.endPoint = s.endPoint
      /\ u.out = s.out /\ u.calls = s.calls /\ u.closeNotified = s.closeNotified
      /\ u.retx = s.retx /\ u.delTimer = s.delTimer
  BY <1>1 DEF Turned, Unmoved, Fields
<1>3. TimersFit(u, c) /\ CallsFit(u) /\ MovesTo(s, u)
  BY <1>1, <1>2 DEF TimersFit, StateFits, CallsFit, MovesTo, States, Unmoved, Awake, NextStates
<1> QED
  BY <1>1, <1>2, <1>3, UnmovedIsGood DEF Awake

LEMMA ReceivedAckKeeps ==
  ASSUME NEW c \in Contexts, Grows(c), NEW s, Good(s, c), Open(s),
         NEW p, p.seq \in Nat, p.ack \in Nat, p.ack <= c.peer
  PROVE  /\ Good(ReceivedAck(s, p), c) /\ Awake(ReceivedAck(s, p))
         /\ ReceivedAck(s, p).state \in {s.state, "CLOSE_WAIT", "FIN_WAIT_1", "LAST_ACK"}
<1> DEFINE blocks == (p.sack \cap (s.head .. s.unsent - 1)) \ s.sacked
           WithData(u) == IF p.len > 0 THEN ReceivedData(u, p) ELSE u
<1>1. /\ Fields \subseteq DOMAIN s /\ s.rxNext \in Nat /\ s.head \in Nat /\ s.lost \in SUBSET Nat
      /\ s.rxNext # 0 /\ s.endPoint
      /\ TimersFit(s, c) /\ CallsFit(s) /\ s.out \in Seq(LaterPackets(c.who, s.rxNext))
  BY DEF Good, Typed, Open
<1>2. PICK t : t = [s EXCEPT !.sacked = @ \cup blocks, !.lost = @ \ blocks, !.again = @ \ blocks]
  OBVIOUS
<1>3. /\ \A f \in Fields \ {"lost"} : t[f] = s[f]
      /\ Fields \subseteq DOMAIN t /\ t.lost \in SUBSET Nat
  BY <1>1, <1>2 DEF Fields
<1>4. /\ Good(t, c) /\ t.rxNext = s.rxNext /\ t.endPoint /\ t.state = s.state
      /\ t.established = s.established /\ t.head = s.head
  <2>1. /\ t.head = s.head /\ t.tail = s.tail /\ t.unsent = s.unsent /\ t.gaps = s.gaps
        /\ t.high = s.high /\ t.rxNext = s.rxNext /\ t.finSeq = s.finSeq
        /\ t.established = s.established /\ t.nextTx = s.nextTx
        /\ t.state = s.state /\ t.endPoint = s.endPoint /\ t.retx = s.retx
        /\ t.delTimer = s.delTimer /\ t.calls = s.calls /\ t.closeNotified = s.closeNotified
        /\ t.out = s.out
    BY <1>3 DEF Fields
  <2>2. Typed(t) /\ StateFits(t, c) /\ TimersFit(t, c) /\ CallsFit(t) /\ t.rxNext \in c.reach
    BY <1>3, <2>1 DEF Good, Typed, StateFits, TimersFit, CallsFit
  <2> QED
    BY <1>1, <1>3, <2>1, <2>2 DEF Good
<1>5. Open(t) /\ Awake(t)
  BY <1>1, <1>4 DEF Open, Awake
<1>6. ASSUME NEW u, Good(u, c), Open(u)
      PROVE  Good(WithData(u), c) /\ Opens(u, WithData(u))
  <2>1. Good(ReceivedData(u, p), c) /\ Opens(u, ReceivedData(u, p))
    BY <1>6, ReceivedDataKeeps
  <2>2. Opens(u, u)
    BY <1>6 DEF Opens, Open, Good, Typed
  <2> QED
    BY <1>6, <2>1, <2>2
<1>7. CASE p.ack < s.head
  <2>1. ReceivedAck(s, p) = WithData(t)
    BY <1>2, <1>7 DEF ReceivedAck
  <2>2. Good(WithData(t), c) /\ Opens(t, WithData(t))
    BY <1>4, <1>5, <1>6
  <2>3. PICK v : v = WithData(t)
    OBVIOUS
  <2>4. Awake(v) /\ v.state \in {s.state, "CLOSE_WAIT"}
    BY <1>1, <1>4, <1>5, <2>2, <2>3, StillOpen DEF Opens
  <2> QED
    BY <2>1, <2>2, <2>3, <2>4
<1>8. CASE ~(p.ack < s.head)
  <2>0. s.head <= p.ack /\ t.head <= p.ack
    BY <1>1, <1>4, <1>8
  <2>1. PICK u : u = DiscardUpTo(t, p.ack) /\ Good(u, c) /\ Acks(t, u)
    BY <1>4, <1>5, <2>0, DiscardUpToKeeps
  <2>2. Awake(u)
    BY <1>1, <1>4, <2>1 DEF Awake, Acks, Wakes
  <2>3. PICK d \in BOOLEAN : d = (blocks # {})
    OBVIOUS
  <2>4. PICK v : v = ProcessAck(u, p.ack, d, s.head) /\ Good(v, c) /\ Acks(u, v)
    BY <1>1, <2>1, <2>2, ProcessAckKeeps
  <2>6. Open(v) /\ v.state = s.state /\ v.rxNext = s.rxNext
    BY <1>1, <1>4, <2>1, <2>4 DEF Open, Acks, Wakes
  <2>7. PICK w : w = WithData(v) /\ Good(w, c) /\ Opens(v, w)
    BY <1>6, <2>4, <2>6
  <2>8. w.endPoint /\ w.rxNext # 0 /\ w.state \in {s.state, "CLOSE_WAIT"}
    BY <1>1, <2>6, <2>7, StillOpen DEF Awake, Opens
  <2>9. ReceivedAck(s, p) = SendPendingData(w)
    BY <1>2, <1>8, <2>1, <2>3, <2>4, <2>7 DEF ReceivedAck
  <2> QED
    BY <2>7, <2>8, <2>9, SendPendingDataKeeps DEF Awake
<1> QED
  BY <1>7, <1>8

LEMMA EstablishedIs ==
  ASSUME NEW c \in Contexts, c.peer >= 1, NEW x, Typed(x), CallsFit(x), x.endPoint,
         x.rxNext # 0, x.rxNext \in c.reach, x.out \in Seq(LaterPackets(c.who, x.rxNext)),
         NEW st, st = "ESTABLISHED" \/ (st = "SYN_RCVD" /\ c.who = Server /\ c.midway)
  PROVE  LET t == Established(x, st)
         IN  /\ Good(t, c) /\ Open(t) /\ t.rxNext = x.rxNext /\ t.gaps = x.gaps /\ t.state = st
<1> DEFINE t == Established(x, st)
<1> SUFFICES /\ Good(t, c) /\ Open(t) /\ t.rxNext = x.rxNext /\ t.gaps = x.gaps /\ t.state = st
  OBVIOUS
<1>1. Fields \subseteq DOMAIN x /\ x.rxNext \in Nat /\ c.peer \in Nat
  BY DEF Typed, Contexts
<1>2. /\ t.state = st /\ t.established = TRUE /\ t.retx = "off" /\ t.nextTx = 1 /\ t.high = 1
      /\ t.head = 1 /\ t.tail = 1 /\ t.unsent = 1
      /\ t.endPoint = x.endPoint /\ t.lost = x.lost /\ t.rxNext = x.rxNext
      /\ t.gaps = x.gaps /\ t.finSeq = x.finSeq /\ t.delTimer = x.delTimer
      /\ t.closeNotified = x.closeNotified /\ t.calls = x.calls /\ t.out = x.out
      /\ Fields \subseteq DOMAIN t
  BY <1>1 DEF Established, Fields
<1> HIDE DEF t
<1>3. Typed(t)
  BY <1>2 DEF Typed, States
<1>4. StateFits(t, c)
  BY <1>1, <1>2 DEF StateFits
<1>5. TimersFit(t, c) /\ CallsFit(t)
  BY <1>2 DEF TimersFit, CallsFit, Timers
<1> QED
  BY <1>2, <1>3, <1>4, <1>5 DEF Good, Open

(* The handlers lead from one good socket to another.                       *)
LEMMA SynSentKeeps ==
  ASSUME NEW c \in Contexts, Grows(c), NEW s, Good(s, c), s.endPoint, s.state = "SYN_SENT",
         NEW p, Comes(p, c)
  PROVE  Good(ProcessSynSent(s, p), c)
<1>1. /\ Typed(s) /\ CallsFit(s) /\ s.rxNext = 0 /\ s.nextTx = 0 /\ c.who = Client
      /\ s.rxNext \in c.reach /\ s.out \in Seq(LaterPackets(c.who, s.rxNext)) /\ c.who \in Peers
  BY DEF Good, StateFits, Contexts
<1>2. /\ p.seq \in Nat /\ p.flags \in FlagSets /\ ("ACK" \in p.flags => c.peer >= 1)
      /\ ("SYN" \in p.flags => p.flags = {"SYN", "ACK"} /\ p.ack = 1)
  <2>1. Other(c.who) = Server
    BY <1>1 DEF Other
  <2> QED
    BY <2>1, ComesTyped DEF Comes, PacketsOf
<1>3. CASE p.flags = {"SYN", "ACK"}
  <2>1. PICK x : x = [s EXCEPT !.rxNext = p.seq + 1]
    OBVIOUS
  <2>2. p.seq + 1 \in Nat /\ p.seq + 1 # 0 /\ p.seq + 1 >= 0 /\ 0 \in Nat
    BY <1>2
  <2>3. /\ Typed(x) /\ CallsFit(x) /\ x.endPoint /\ x.rxNext = p.seq + 1 /\ x.out = s.out
    BY <1>1, <2>1, <2>2 DEF Typed, CallsFit, Fields
  <2>4. x.rxNext \in c.reach
    BY <1>1, <2>2, <2>3 DEF Grows
  <2>5. x.out \in Seq(LaterPackets(c.who, x.rxNext))
    BY <1>1, <2>2, <2>3, LaterMore
  <2>6. PICK e : e = Established(x, "ESTABLISHED") /\ Good(e, c) /\ e.rxNext # 0
    BY <1>2, <1>3, <2>2, <2>3, <2>4, <2>5, EstablishedIs
  <2>7. PICK t : t = SendAck(e) /\ Good(t, c)
    BY <2>6, SendAckKeeps
  <2>8. ProcessSynSent(s, p) = [t EXCEPT !.delAck = DelAckMax]
    BY <1>1, <1>2, <1>3, <2>1, <2>6, <2>7 DEF ProcessSynSent
  <2>9. Same(t, [t EXCEPT !.delAck = DelAckMax])
    BY <2>7 DEF Same, Fields, Good, Typed
  <2> QED
    BY <2>7, <2>8, <2>9, SameIsGood
<1>4. CASE p.flags # {"SYN", "ACK"}
  <2>1. p.flags \in {{"ACK"}, {"FIN", "ACK"}, {"RST"}}
    BY <1>2, <1>4 DEF FlagSets
  <2>2. CASE "ACK" \in p.flags
    <3>1. ProcessSynSent(s, p) = s
      BY <2>1, <2>2 DEF ProcessSynSent
    <3> QED
      BY <3>1
  <2>3. CASE p.flags = {"RST"}
    <3>1. ProcessSynSent(s, p) = CloseAndNotify(s)
      BY <2>3 DEF ProcessSynSent
    <3> QED
      BY <3>1, CloseAndNotifyKeeps
  <2> QED
    BY <2>1, <2>2, <2>3
<1> QED
  BY <1>3, <1>4

LEMMA EstablishedKeeps ==
  ASSUME NEW c \in Contexts, Grows(c), NEW s, Good(s, c), Open(s), NEW p, Comes(p, c)
  PROVE  Good(ProcessEstablished(s, p), c)
<1>1. /\ p.seq \in Nat /\ p.len \in {0, 1} /\ p.ack \in Nat /\ p.ack <= c.peer
      /\ p.flags \in FlagSets
  BY ComesTyped
<1>2. CASE p.flags = {"ACK"}
  <2>1. ProcessEstablished(s, p) \in {s, SendAck(s), ReceivedAck(s, p)}
    BY <1>2 DEF ProcessEstablished
  <2> QED
    BY <1>1, <2>1, SendAckKeeps, ReceivedAckKeeps DEF Open
<1>3. CASE p.flags \in {{"SYN"}, {"SYN", "ACK"}}
  <2>1. ProcessEstablished(s, p) = s
    BY <1>3 DEF ProcessEstablished
  <2> QED
    BY <2>1
<1>4. CASE p.flags = {"FIN", "ACK"}
  <2>1. ProcessEstablished(s, p) = PeerClose(s, p)
    BY <1>4 DEF ProcessEstablished
  <2> QED
    BY <1>1, <2>1, PeerCloseKeeps
<1>5. CASE p.flags = {"RST"}
  <2>1. ProcessEstablished(s, p) = CloseAndNotify(s)
    BY <1>5 DEF ProcessEstablished
  <2> QED
    BY <2>1, CloseAndNotifyKeeps
<1>6. p.flags \in {{"SYN"}, {"SYN", "ACK"}, {"ACK"}, {"FIN", "ACK"}, {"RST"}}
  BY <1>1 DEF FlagSets
<1> QED
  BY <1>2, <1>3, <1>4, <1>5, <1>6, Zenon

LEMMA TimeWaitKeeps ==
  ASSUME NEW c \in Contexts, NEW s, Good(s, c), Awake(s), s.state # "SYN_RCVD"
  PROVE  Good(TimeWait(s), c) /\ TimeWait(s).rxNext = s.rxNext
<1>1. PICK u : u = [s EXCEPT !.state = "TIME_WAIT"]
  OBVIOUS
<1>2. Good(u, c) /\ Unmoved(s, u) /\ u.state = "TIME_WAIT" /\ u.endPoint
  <2>1. "TIME_WAIT" \in NextStates /\ u = Turned(s, "TIME_WAIT")
    BY <1>1 DEF NextStates, Turned
  <2> QED
    BY <2>1, TurnsTo
<1>3. PICK v : v = [u EXCEPT !.retx = "off", !.delTimer = FALSE, !.pending = FALSE]
  OBVIOUS
<1>4. /\ Fields \subseteq DOMAIN u /\ CallsFit(u) /\ u.out \in Seq(LaterPackets(c.who, u.rxNext))
  BY <1>2 DEF Good, Typed
<1>5. /\ Alike(u, v) /\ v.out = u.out /\ v.calls = u.calls
      /\ v.closeNotified = u.closeNotified /\ v.retx = "off" /\ v.delTimer = FALSE
  BY <1>3, <1>4 DEF Alike, Unmoved, Fields
<1>6. Good(v, c)
  <2>1. TimersFit(v, c) /\ CallsFit(v)
    BY <1>4, <1>5 DEF TimersFit, CallsFit, Timers, Alike
  <2> QED
    BY <1>2, <1>4, <1>5, <2>1, StaysThere, UnmovedIsGood DEF Alike
<1>7. Good(NotifyClosed(v), c) /\ Alike(v, NotifyClosed(v))
  BY <1>6, NotifyClosedKeeps
<1>8. TimeWait(s) = NotifyClosed(v)
  BY <1>1, <1>3 DEF TimeWait, CancelAllTimers
<1> QED
  BY <1>2, <1>5, <1>7, <1>8 DEF Alike, Unmoved

LEMMA WaitKeeps ==
  ASSUME NEW c \in Contexts, Grows(c), NEW s, Good(s, c), Open(s),
         s.state \in {"FIN_WAIT_1", "FIN_WAIT_2", "CLOSE_WAIT"}, NEW p, Comes(p, c)
  PROVE  Good(ProcessWait(s, p), c)
<1>1. /\ p.seq \in Nat /\ p.len \in {0, 1} /\ p.ack \in Nat /\ p.ack <= c.peer
      /\ p.flags \in FlagSets
  BY ComesTyped
<1>2. PICK acked : acked = ReceivedAck(s, p) /\ Good(acked, c) /\ Awake(acked)
                   /\ acked.state \in {"FIN_WAIT_1", "FIN_WAIT_2", "CLOSE_WAIT", "LAST_ACK"}
  BY <1>1, ReceivedAckKeeps
<1>3. Open(acked) /\ acked.rxNext \in Nat /\ acked.rxNext # 0 /\ acked.endPoint
  BY <1>2 DEF Open, Awake, Good, Typed
<1>4. PICK mine \in BOOLEAN : mine = (acked.head = acked.tail /\ p.ack = acked.high + 1)
  OBVIOUS
<1>5. PICK t : t = (IF "FIN" \in p.flags THEN SetFinSequence(acked, p.seq)
                    ELSE IF acked.state = "FIN_WAIT_1" /\ mine
                    THEN [acked EXCEPT !.state = "FIN_WAIT_2"] ELSE acked)
  OBVIOUS
<1>6. Good(t, c) /\ Open(t) /\ t.state # "SYN_RCVD" /\ Awake(t)
  <2>1. CASE "FIN" \in p.flags
    <3>1. PICK u : u = SetFinSequence(acked, p.seq) /\ Good(u, c) /\ Opens(acked, u)
                   /\ u.state = acked.state
      BY <1>1, <1>2, <1>3, SetFinSequenceKeeps
    <3>2. Open(u) /\ Awake(u)
      BY <1>3, <3>1, StillOpen
    <3> QED
      BY <1>2, <1>5, <2>1, <3>1, <3>2
  <2>2. CASE "FIN" \notin p.flags /\ acked.state = "FIN_WAIT_1" /\ mine
    <3>1. t = [acked EXCEPT !.state = "FIN_WAIT_2"]
      BY <1>5, <2>2
    <3>2. /\ Typed(acked) /\ Fields \subseteq DOMAIN acked /\ TimersFit(acked, c)
          /\ CallsFit(acked) /\ StateFits(acked, c) /\ acked.high \in Nat
          /\ acked.rxNext \in c.reach
          /\ acked.out \in Seq(LaterPackets(c.who, acked.rxNext))
      BY <1>2 DEF Good, Typed
    <3>3. /\ Unmoved(acked, t) /\ t.state = "FIN_WAIT_2" /\ t.endPoint = acked.endPoint
          /\ t.out = acked.out /\ t.calls = acked.calls /\ t.closeNotified = acked.closeNotified
          /\ t.retx = acked.retx /\ t.delTimer = acked.delTimer
      BY <3>1, <3>2 DEF Unmoved, Fields
    <3>4. c.peer > acked.high /\ acked.head = acked.tail
      <4>1. c.peer \in Nat /\ acked.head = acked.tail /\ p.ack = acked.high + 1
        BY <1>4, <2>2 DEF Contexts
      <4> QED
        BY <1>1, <3>2, <4>1
    <3>5. Typed(t)
      BY <3>2, <3>3 DEF Typed, Unmoved, States
    <3>6. StateFits(t, c)
      BY <1>3, <3>2, <3>3, <3>4 DEF StateFits, Unmoved
    <3>7. TimersFit(t, c) /\ CallsFit(t)
      BY <1>2, <2>2, <3>2, <3>3 DEF TimersFit, CallsFit, Unmoved
    <3>8. Good(t, c)
      BY <3>2, <3>3, <3>5, <3>6, <3>7 DEF Good, Unmoved
    <3> QED
      BY <1>3, <3>3, <3>8 DEF Open, Awake, Unmoved
  <2>3. CASE "FIN" \notin p.flags /\ ~(acked.state = "FIN_WAIT_1" /\ mine)
    BY <1>2, <1>3, <1>5, <2>3
  <2> QED
    BY <2>1, <2>2, <2>3
<1>7. PICK ended : ended = (CASE t.state = "FIN_WAIT_2" -> TimeWait(t)
                              [] t.state = "FIN_WAIT_1" /\ mine -> TimeWait(t)
                              [] OTHER -> [t EXCEPT !.state = "CLOSING"])
  OBVIOUS
<1>8. Good(ended, c) /\ ended.rxNext # 0
  <2>1. ended \in {TimeWait(t), [t EXCEPT !.state = "CLOSING"]}
    BY <1>7
  <2>2. Good(TimeWait(t), c) /\ TimeWait(t).rxNext # 0
    BY <1>6, TimeWaitKeeps DEF Awake
  <2>3. ASSUME NEW v, v = [t EXCEPT !.state = "CLOSING"] PROVE Good(v, c) /\ v.rxNext # 0
    <3>1. "CLOSING" \in NextStates /\ v = Turned(t, "CLOSING")
      BY <2>3 DEF NextStates, Turned
    <3>2. Good(v, c) /\ Unmoved(t, v)
      BY <1>6, <3>1, TurnsTo
    <3> QED
      BY <1>6, <3>2 DEF Awake, Unmoved
  <2> QED
    BY <2>1, <2>2, <2>3
<1>9. ProcessWait(s, p) \in {s, CloseAndNotify(s), SendAck(ended), t}
  BY <1>2, <1>4, <1>5, <1>7 DEF ProcessWait
<1> QED
  BY <1>6, <1>8, <1>9, CloseAndNotifyKeeps, SendAckKeeps

LEMMA SynAckKeeps ==
  ASSUME NEW c \in Contexts, NEW s, Good(s, c), s.endPoint, s.state = "SYN_RCVD",
         ~s.established, s.rxNext = 1
  PROVE  Good(SendEmptyPacket(s, {"SYN", "ACK"}), c)
<1> DEFINE t == SendEmptyPacket(s, {"SYN", "ACK"})
           p == [flags |-> {"SYN", "ACK"}, seq |-> s.nextTx, len |-> 0, ack |-> s.rxNext,
                 sack |-> s.gaps]
<1> SUFFICES Good(t, c)
  OBVIOUS
<1>1. /\ Typed(s) /\ Fields \subseteq DOMAIN s /\ TimersFit(s, c) /\ CallsFit(s) /\ StateFits(s, c)
      /\ s.out \in Seq(LaterPackets(c.who, s.rxNext)) /\ c.who = Server
  BY DEF Good, Typed, StateFits
<1>2. p \in LaterPackets(c.who, s.rxNext)
  <2>1. p \in Packets
    BY <1>1 DEF Packets, FlagSets, Typed
  <2>2. p.flags = {"SYN", "ACK"} /\ p.ack = 1 /\ p.len = 0
    OBVIOUS
  <2> HIDE DEF p
  <2>3. p \in PacketsOf(c.who, s.rxNext)
    BY <1>1, <2>1, <2>2 DEF PacketsOf, Client, Server
  <2> QED
    BY <1>1, <2>3 DEF LaterPackets, Client, Server
<1>3. "FIN" \notin {"SYN", "ACK"} /\ "SYN" \in {"SYN", "ACK"} /\ "ACK" \in {"SYN", "ACK"}
      /\ s.state \notin {"FIN_WAIT_1", "LAST_ACK", "CLOSING"}
  OBVIOUS
<1>4. CASE s.synCount = 0
  <2>1. /\ t.out = s.out /\ t.calls = Append(s.calls, "failed")
        /\ Unmoved(s, t) /\ t.state = "CLOSED" /\ t.endPoint = FALSE
        /\ t.retx = "off" /\ t.delTimer = FALSE
    BY <1>1, <1>3, <1>4 DEF SendEmptyPacket, DeallocateEndPoint, CancelAllTimers, Notify,
                            Fields, Unmoved
  <2>2. Append(s.calls, "failed") \in Seq(Callbacks) /\ Append(s.calls, "failed") # <<>>
    <3>1. s.calls \in Seq(Callbacks) /\ "failed" \in Callbacks
      BY <1>1 DEF CallsFit, Callbacks
    <3> QED
      BY ONLY <3>1, AppendProperties
  <2> HIDE DEF t
  <2>3. TimersFit(t, c) /\ CallsFit(t) /\ MovesTo(s, t)
    BY <2>1, <2>2 DEF TimersFit, Timers, CallsFit, MovesTo, States
  <2> QED
    BY <1>1, <2>1, <2>3, UnmovedIsGood
<1>5. CASE s.synCount # 0
  <2>1. /\ t.out = Append(s.out, p) /\ t.calls = s.calls /\ t.closeNotified = s.closeNotified
        /\ Alike(s, t) /\ t.delTimer = FALSE
        /\ t.retx = IF s.retx = "off" THEN "SYN+ACK" ELSE s.retx
    BY <1>1, <1>3, <1>5 DEF SendEmptyPacket, Fields, Unmoved, Alike
  <2> HIDE DEF t, p
  <2>2. t.out \in Seq(LaterPackets(c.who, s.rxNext))
    BY <1>1, <1>2, <2>1, AppendProperties
  <2>3. TimersFit(t, c) /\ CallsFit(t)
    BY <1>1, <2>1 DEF TimersFit, Timers, CallsFit, Alike, Unmoved
  <2> QED
    BY <2>1, <2>2, <2>3, StaysThere, UnmovedIsGood DEF Alike
<1> QED
  BY <1>4, <1>5

(* A server gets a SYN only before it has received anything else.           *)
LEMMA SynKeeps ==
  ASSUME NEW c \in Contexts, ~c.midway, NEW s, Good(s, c), s.endPoint, s.rxNext <= 1,
         c.who = Server, NEW p, Comes(p, c), "SYN" \in p.flags
  PROVE  Good(DoForwardUp(s, p), c)
<1>1. p.flags = {"SYN"} /\ p.seq = 0 /\ p.len = 0
  <2>1. Other(c.who) = Client
    BY DEF Other, Client, Server
  <2> QED
    BY <2>1 DEF Comes, PacketsOf
<1>2. /\ Typed(s) /\ StateFits(s, c) /\ s.rxNext \in Nat /\ s.state \in States
      /\ s.state \notin {"CLOSED", "LISTEN", "SYN_SENT"}
  BY DEF Good, Typed, StateFits, Client, Server
<1>3. s.rxNext = 1
  BY <1>2 DEF StateFits
<1>4. ~OutOfRange(s, p)
  BY <1>1 DEF OutOfRange
<1>5. Good(CloseAndNotify(SendRST(s)), c)
  BY SendRstKeeps, CloseAndNotifyKeeps
<1>6. CASE s.state = "SYN_RCVD"
  <2>1. PICK x : x = [s EXCEPT !.rxNext = p.seq + 1]
    OBVIOUS
  <2>2. Same(s, x)
    BY <1>1, <1>2, <1>3, <2>1 DEF Same, Fields, Typed
  <2>3. Good(x, c) /\ Alike(s, x)
    BY <2>2, SameIsGood
  <2>4. ~s.established
    BY <1>2, <1>6 DEF StateFits
  <2>5. Good(SendEmptyPacket(x, {"SYN", "ACK"}), c)
    BY <1>3, <1>6, <2>3, <2>4, SynAckKeeps DEF Alike, Unmoved
  <2>6. DoForwardUp(s, p) = ProcessSynRcvd(s, p)
    BY <1>4, <1>6 DEF DoForwardUp
  <2>7. ProcessSynRcvd(s, p) = SendEmptyPacket(x, {"SYN", "ACK"})
    BY <1>1, <2>1 DEF ProcessSynRcvd
  <2> QED
    BY <2>5, <2>6, <2>7
<1>7. CASE s.state = "ESTABLISHED"
  <2>1. DoForwardUp(s, p) = ProcessEstablished(s, p) /\ ProcessEstablished(s, p) = s
    BY <1>1, <1>4, <1>7 DEF DoForwardUp, ProcessEstablished
  <2> QED
    BY <2>1
<1>8. CASE s.state \in {"FIN_WAIT_1", "FIN_WAIT_2", "CLOSE_WAIT"}
  <2>1. DoForwardUp(s, p) = ProcessWait(s, p) /\ ProcessWait(s, p) = s
    BY <1>1, <1>4, <1>8 DEF DoForwardUp, ProcessWait
  <2> QED
    BY <2>1
<1>9. CASE s.state = "CLOSING"
  <2>1. DoForwardUp(s, p) = ProcessClosing(s, p) /\ ProcessClosing(s, p) = CloseAndNotify(SendRST(s))
    BY <1>1, <1>4, <1>9 DEF DoForwardUp, ProcessClosing
  <2> QED
    BY <1>5, <2>1
<1>10. CASE s.state = "LAST_ACK"
  <2>1. DoForwardUp(s, p) = ProcessLastAck(s, p) /\ ProcessLastAck(s, p) = CloseAndNotify(SendRST(s))
    BY <1>1, <1>4, <1>10 DEF DoForwardUp, ProcessLastAck
  <2> QED
    BY <1>5, <2>1
<1>11. CASE s.state = "TIME_WAIT"
  <2>1. DoForwardUp(s, p) = s
    BY <1>4, <1>11 DEF DoForwardUp
  <2> QED
    BY <2>1
<1> QED
  BY <1>2, <1>6, <1>7, <1>8, <1>9, <1>10, <1>11 DEF States

LEMMA SynRcvdKeeps ==
  ASSUME NEW c \in Contexts, ~c.midway, Grows(c), NEW s, Good(s, c), s.endPoint,
         s.state = "SYN_RCVD", NEW p, Comes(p, c), "SYN" \notin p.flags
  PROVE  Good(ProcessSynRcvd(s, p), c)
<1>1. /\ p.seq \in Nat /\ p.len \in {0, 1} /\ p.ack \in Nat /\ p.ack <= c.peer
      /\ p.flags \in FlagSets /\ ("ACK" \in p.flags => c.peer >= 1)
  BY ComesTyped
<1>2. /\ Typed(s) /\ CallsFit(s) /\ s.rxNext \in Nat /\ c.who = Server /\ s.gaps = {}
      /\ s.rxNext # 0 /\ s.rxNext \in c.reach /\ s.out \in Seq(LaterPackets(c.who, s.rxNext))
  BY DEF Good, Typed, StateFits
<1>3. CASE p.flags = {"ACK"} /\ p.ack = s.nextTx + 1
  <2>1. PICK e : e = Established(s, "ESTABLISHED") /\ Good(e, c) /\ Open(e)
    BY <1>1, <1>2, <1>3, EstablishedIs
  <2>2. ProcessSynRcvd(s, p) = ReceivedAck(e, p)
    BY <1>3, <2>1 DEF ProcessSynRcvd
  <2> QED
    BY <1>1, <2>1, <2>2, ReceivedAckKeeps
<1>4. CASE p.flags = {"FIN", "ACK"} /\ p.seq = s.rxNext
  <2>1. PICK m \in Contexts : m = [c EXCEPT !.midway = TRUE]
    BY DEF Contexts
  <2>2. m.who = c.who /\ m.peer = c.peer /\ m.reach = c.reach /\ m.asks = c.asks /\ m.midway
    BY <2>1 DEF Contexts
  <2>3. Grows(m)
    BY <2>2 DEF Grows
  <2>4. PICK e : /\ e = Established(s, "SYN_RCVD") /\ Good(e, m) /\ Open(e)
                 /\ e.rxNext = s.rxNext /\ e.gaps = {} /\ e.state = "SYN_RCVD"
    BY <1>1, <1>2, <1>4, <2>2, EstablishedIs
  <2>5. PICK t : t = PeerClose(e, p)
    OBVIOUS
  <2>6. Good(t, m)
    BY <1>1, <2>3, <2>4, <2>5, PeerCloseKeeps
  <2>7. t.state = "CLOSE_WAIT"
    BY <1>1, <1>4, <2>3, <2>4, <2>5, PeerCloseShakes
  <2>8. Good(t, c)
    BY <2>2, <2>6, <2>7 DEF Good, StateFits, TimersFit
  <2>9. ProcessSynRcvd(s, p) = t
    <3>1. p.flags # {"ACK"} /\ p.flags # {"SYN"}
      BY <1>4
    <3> QED
      BY <1>4, <2>4, <2>5, <3>1 DEF ProcessSynRcvd
  <2> QED
    BY <2>8, <2>9
<1>5. CASE p.flags = {"FIN", "ACK"} /\ p.seq # s.rxNext
  <2>1. ProcessSynRcvd(s, p) = s
    BY <1>5 DEF ProcessSynRcvd
  <2> QED
    BY <2>1
<1>6. CASE p.flags = {"RST"} \/ (p.flags = {"ACK"} /\ p.ack # s.nextTx + 1)
  <2>1. ProcessSynRcvd(s, p) \in {CloseAndNotify(SendRST(s)), CloseAndNotify(s)}
    BY <1>6 DEF ProcessSynRcvd
  <2> QED
    BY <2>1, SendRstKeeps, CloseAndNotifyKeeps
<1> QED
  BY <1>1, <1>3, <1>4, <1>5, <1>6 DEF FlagSets

LEMMA ClosingKeeps ==
  ASSUME NEW c \in Contexts, NEW s, Good(s, c), Awake(s), s.state # "SYN_RCVD",
         NEW p, Comes(p, c)
  PROVE  Good(ProcessClosing(s, p), c) /\ Good(ProcessLastAck(s, p), c)
<1>1. p.flags \in FlagSets
  BY ComesTyped
<1>2. ProcessClosing(s, p) \in {TimeWait(s), s, CloseAndNotify(SendAck(s)), CloseAndNotify(s),
                                CloseAndNotify(SendRST(s))}
  BY <1>1 DEF ProcessClosing, FlagSets
<1>3. ProcessLastAck(s, p) \in {s, CloseAndNotify(s), CloseAndNotify(SendRST(s))}
  BY <1>1 DEF ProcessLastAck, FlagSets
<1>4. Good(TimeWait(s), c) /\ Good(SendAck(s), c) /\ Good(SendRST(s), c)
  BY TimeWaitKeeps, SendAckKeeps, SendRstKeeps DEF Awake
<1> QED
  BY <1>2, <1>3, <1>4, CloseAndNotifyKeeps

LEMMA DoForwardUpKeeps ==
  ASSUME NEW c \in Contexts, ~c.midway, Grows(c), NEW s, Good(s, c), s.endPoint,
         NEW p, Comes(p, c), c.who = Server => "SYN" \notin p.flags
  PROVE  Good(DoForwardUp(s, p), c)
<1>1. /\ Typed(s) /\ StateFits(s, c) /\ s.rxNext \in Nat /\ s.state \in States
      /\ s.state \notin {"CLOSED", "LISTEN"}
  BY DEF Good, Typed, StateFits
<1>2. s.state # "SYN_SENT" => s.rxNext # 0 /\ Awake(s)
  BY <1>1 DEF StateFits, Awake
<1>3. s.state \notin {"SYN_SENT", "SYN_RCVD"} => Open(s)
  BY <1>2 DEF Open
<1>4. CASE OutOfRange(s, p)
  <2>1. DoForwardUp(s, p) = SendAck(s) /\ s.state # "SYN_SENT"
    BY <1>4 DEF DoForwardUp, OutOfRange
  <2> QED
    BY <1>2, <2>1, SendAckKeeps
<1>5. CASE ~OutOfRange(s, p)
  <2>1. CASE s.state = "SYN_SENT"
    <3>1. DoForwardUp(s, p) = ProcessSynSent(s, p)
      BY <1>5, <2>1 DEF DoForwardUp
    <3> QED
      BY <2>1, <3>1, SynSentKeeps
  <2>2. CASE s.state = "SYN_RCVD"
    <3>1. DoForwardUp(s, p) = ProcessSynRcvd(s, p)
      BY <1>5, <2>2 DEF DoForwardUp
    <3>2. c.who = Server
      BY <1>1, <2>2 DEF StateFits
    <3> QED
      BY <2>2, <3>1, <3>2, SynRcvdKeeps
  <2>3. CASE s.state = "ESTABLISHED"
    <3>1. DoForwardUp(s, p) = ProcessEstablished(s, p)
      BY <1>5, <2>3 DEF DoForwardUp
    <3> QED
      BY <1>3, <2>3, <3>1, EstablishedKeeps
  <2>4. CASE s.state \in {"FIN_WAIT_1", "FIN_WAIT_2", "CLOSE_WAIT"}
    <3>1. DoForwardUp(s, p) = ProcessWait(s, p)
      BY <1>5, <2>4 DEF DoForwardUp
    <3> QED
      BY <1>3, <2>4, <3>1, WaitKeeps
  <2>5. CASE s.state \in {"CLOSING", "LAST_ACK"}
    <3>1. DoForwardUp(s, p) \in {ProcessClosing(s, p), ProcessLastAck(s, p)}
      BY <1>5, <2>5 DEF DoForwardUp
    <3> QED
      BY <1>2, <2>5, <3>1, ClosingKeeps
  <2>6. CASE s.state = "TIME_WAIT"
    <3>1. DoForwardUp(s, p) = s
      BY <1>5, <2>6 DEF DoForwardUp
    <3> QED
      BY <3>1
  <2> QED
    BY <1>1, <2>1, <2>2, <2>3, <2>4, <2>5, <2>6 DEF States
<1> QED
  BY <1>4, <1>5

-----------------------------------------------------------------------------
(* The applications and the timers. *)

LEMMA DoCloseKeeps ==
  ASSUME NEW c \in Contexts, NEW s, Good(s, c), s.state # "SYN_RCVD"
  PROVE  Good(DoClose(s), c)
<1>1. /\ StateFits(s, c) /\ Fields \subseteq DOMAIN s /\ s.rxNext \in Nat /\ s.endPoint \in BOOLEAN
  BY DEF Good, Typed
<1>2. CASE s.state \in {"ESTABLISHED", "CLOSE_WAIT"}
  <2>1. PICK t : t = SendEmptyPacket(s, {"FIN"})
    OBVIOUS
  <2> DEFINE st == IF s.state = "ESTABLISHED" THEN "FIN_WAIT_1" ELSE "LAST_ACK"
  <2>2. PICK u : u = [t EXCEPT !.state = st]
    OBVIOUS
  <2>3. DoClose(s) = u
    BY <1>2, <2>1, <2>2 DEF DoClose
  <2>4. CASE s.endPoint
    <3>1. s.rxNext # 0
      BY <1>1, <1>2, <2>4 DEF StateFits
    <3>2. Good(t, c) /\ Alike(s, t)
      BY <2>1, <3>1, EmptyPacketKeeps
    <3>3. Awake(t) /\ t.state # "SYN_RCVD"
      BY <1>2, <2>4, <3>1, <3>2 DEF Alike, Unmoved, Awake
    <3>4. st \in NextStates /\ u = Turned(t, st)
      BY <2>2 DEF NextStates, Turned
    <3> HIDE DEF st
    <3>5. Good(u, c)
      BY <3>2, <3>3, <3>4, TurnsTo
    <3> QED
      BY <2>3, <3>5
  <2>5. CASE ~s.endPoint
    <3>1. t = s
      BY <2>1, <2>5 DEF SendEmptyPacket
    <3>2. /\ TimersFit(s, c) /\ CallsFit(s) /\ s.out \in Seq(LaterPackets(c.who, s.rxNext))
      BY DEF Good
    <3>3. /\ Unmoved(s, u) /\ u.state = st /\ u.endPoint = FALSE
          /\ u.out = s.out /\ u.calls = s.calls /\ u.closeNotified = s.closeNotified
          /\ u.retx = s.retx /\ u.delTimer = s.delTimer
      BY <1>1, <2>2, <2>5, <3>1 DEF Unmoved, Fields
    <3>4. TimersFit(u, c) /\ CallsFit(u) /\ MovesTo(s, u)
      BY <1>2, <2>5, <3>2, <3>3 DEF TimersFit, CallsFit, MovesTo, States, Unmoved, Timers
    <3> QED
      BY <2>3, <3>2, <3>3, <3>4, UnmovedIsGood
  <2> QED
    BY <1>1, <2>4, <2>5
<1>3. CASE s.state \in {"SYN_SENT", "CLOSING"}
  <2>1. DoClose(s) = CloseAndNotify(SendRST(s))
    BY <1>3 DEF DoClose
  <2> QED
    BY <2>1, SendRstKeeps, CloseAndNotifyKeeps
<1>4. CASE s.state \notin {"ESTABLISHED", "CLOSE_WAIT", "SYN_SENT", "CLOSING"}
  <2>1. DoClose(s) = s
    BY <1>4 DEF DoClose
  <2> QED
    BY <2>1
<1> QED
  BY <1>2, <1>3, <1>4

LEMMA CloseSocketKeeps ==
  ASSUME NEW c \in Contexts, NEW s, Good(s, c), s.state # "SYN_RCVD"
  PROVE  Good(CloseSocket(s), c)
<1>1. CloseSocket(s) \in {SendRST(s), [s EXCEPT !.closeOnEmpty = TRUE], DoClose(s)}
  BY DEF CloseSocket
<1>2. Same(s, [s EXCEPT !.closeOnEmpty = TRUE])
  BY DEF Good, Typed, Same, Fields
<1> QED
  BY <1>1, <1>2, SendRstKeeps, SameIsGood, DoCloseKeeps

LEMMA LostIsGood ==
  ASSUME NEW c \in Contexts, NEW s, Good(s, c), NEW t, Fields \subseteq DOMAIN t,
         \A f \in Fields \ {"lost"} : t[f] = s[f], t.lost \in SUBSET Nat
  PROVE  Good(t, c)
<1>1. /\ t.head = s.head /\ t.tail = s.tail /\ t.unsent = s.unsent /\ t.gaps = s.gaps
      /\ t.high = s.high /\ t.rxNext = s.rxNext /\ t.finSeq = s.finSeq
      /\ t.established = s.established /\ t.nextTx = s.nextTx
      /\ t.state = s.state /\ t.endPoint = s.endPoint /\ t.retx = s.retx
      /\ t.delTimer = s.delTimer /\ t.calls = s.calls /\ t.closeNotified = s.closeNotified
      /\ t.out = s.out
  BY DEF Fields
<1>2. Typed(t) /\ StateFits(t, c) /\ TimersFit(t, c) /\ CallsFit(t) /\ t.rxNext \in c.reach
  BY <1>1 DEF Good, Typed, StateFits, TimersFit, CallsFit
<1> QED
  BY <1>1, <1>2 DEF Good

LEMMA ReTxTimeoutKeeps ==
  ASSUME NEW c \in Contexts, NEW s, Good(s, c), s.rxNext # 0
  PROVE  Good(ReTxTimeout(s), c)
<1>1. /\ Typed(s) /\ Fields \subseteq DOMAIN s /\ s.head \in Nat /\ s.unsent \in Nat
      /\ TimersFit(s, c) /\ CallsFit(s) /\ s.out \in Seq(LaterPackets(c.who, s.rxNext))
  BY DEF Good, Typed
<1>2. Good(SendEmptyPacket(s, {"FIN"}), c)
  BY EmptyPacketKeeps
<1>3. Good(DeallocateEndPoint(Notify(s, "error")), c)
  <2>1. PICK t : t = DeallocateEndPoint(Notify(s, "error"))
    OBVIOUS
  <2>2. /\ t.out = s.out /\ t.calls = Append(s.calls, "error")
        /\ Unmoved(s, t) /\ t.state = s.state /\ t.endPoint = FALSE
        /\ t.retx = "off" /\ (t.delTimer => s.delTimer)
    <3>1. CASE s.endPoint
      BY <1>1, <2>1, <3>1 DEF DeallocateEndPoint, CancelAllTimers, Notify, Fields, Unmoved
    <3>2. CASE ~s.endPoint
      BY <1>1, <2>1, <3>2 DEF DeallocateEndPoint, Notify, Fields, Unmoved, TimersFit, Typed
    <3> QED
      BY <3>1, <3>2
  <2>3. Append(s.calls, "error") \in Seq(Callbacks) /\ Append(s.calls, "error") # <<>>
    <3>1. s.calls \in Seq(Callbacks) /\ "error" \in Callbacks
      BY <1>1 DEF CallsFit, Callbacks
    <3> QED
      BY ONLY <3>1, AppendProperties
  <2>4. TimersFit(t, c) /\ CallsFit(t) /\ MovesTo(s, t)
    BY <1>1, <2>2, <2>3 DEF TimersFit, Timers, CallsFit, MovesTo, Typed, Unmoved
  <2> QED
    BY <1>1, <2>1, <2>2, <2>4, UnmovedIsGood
<1>4. Good(RetransmitData(s), c)
  <2>1. PICK t : t = [s EXCEPT !.dataRetr = @ - 1,
                       !.lost = (s.head .. s.unsent - 1) \ s.sacked, !.again = {},
                       !.recover = s.high, !.cong = "LOSS", !.cwnd = 1]
    OBVIOUS
  <2>2. /\ Fields \subseteq DOMAIN t /\ \A f \in Fields \ {"lost"} : t[f] = s[f]
        /\ t.lost = (s.head .. s.unsent - 1) \ s.sacked
    BY <1>1, <2>1 DEF Fields
  <2>3. t.lost \in SUBSET Nat
    BY <1>1, <2>2
  <2>4. Good(t, c)
    BY <2>2, <2>3, LostIsGood
  <2>5. PICK u : u = SendPendingData(t) /\ Good(u, c)
    BY <2>4, SendPendingDataKeeps
  <2>6. PICK b : b = (u.broken \/ InFlight(t) # 0 \/ InFlight(u) > 1)
    OBVIOUS
  <2>7. RetransmitData(s) = [u EXCEPT !.broken = b]
    BY <2>1, <2>5, <2>6 DEF RetransmitData
  <2>8. Same(u, [u EXCEPT !.broken = b])
    BY <2>5 DEF Good, Typed, Same, Fields
  <2> QED
    BY <2>5, <2>7, <2>8, SameIsGood
<1>5. ReTxTimeout(s) \in {s, SendEmptyPacket(s, {"FIN"}),
                          DeallocateEndPoint(Notify(s, "error")), RetransmitData(s)}
  BY DEF ReTxTimeout
<1> QED
  BY <1>2, <1>3, <1>4, <1>5

(* The timer that has run out is off.                                       *)
LEMMA TimerOffIsGood ==
  ASSUME NEW c \in Contexts, NEW s, Good(s, c),
         NEW t, t = [s EXCEPT !.retx = "off"]
  PROVE  Good(t, c) /\ Alike(s, t) /\ t.retx = "off" /\ t.out = s.out /\ t.delTimer = s.delTimer
<1>1. Fields \subseteq DOMAIN s /\ TimersFit(s, c) /\ CallsFit(s)
      /\ s.out \in Seq(LaterPackets(c.who, s.rxNext))
  BY DEF Good, Typed
<1>2. /\ Alike(s, t) /\ t.retx = "off" /\ t.out = s.out /\ t.delTimer = s.delTimer
      /\ t.calls = s.calls /\ t.closeNotified = s.closeNotified
  BY <1>1 DEF Alike, Unmoved, Fields
<1>3. TimersFit(t, c) /\ CallsFit(t)
  BY <1>1, <1>2 DEF TimersFit, CallsFit, Timers, Alike, Unmoved
<1> QED
  BY <1>1, <1>2, <1>3, StaysThere, UnmovedIsGood DEF Alike

(* The acknowledgement that was held back.                                  *)
LEMMA DelAckKeeps ==
  ASSUME NEW c \in Contexts, NEW s, Good(s, c), s.delTimer
  PROVE  Good(SendAck([s EXCEPT !.delTimer = FALSE, !.delAck = 0]), c)
<1>1. Fields \subseteq DOMAIN s /\ TimersFit(s, c) /\ CallsFit(s) /\ s.rxNext # 0
      /\ s.out \in Seq(LaterPackets(c.who, s.rxNext))
  BY DEF Good, Typed, TimersFit
<1>2. PICK t : t = [s EXCEPT !.delTimer = FALSE, !.delAck = 0]
  OBVIOUS
<1>3. /\ Alike(s, t) /\ t.retx = s.retx /\ t.out = s.out /\ t.delTimer = FALSE
      /\ t.calls = s.calls /\ t.closeNotified = s.closeNotified
  BY <1>1, <1>2 DEF Alike, Unmoved, Fields
<1>4. TimersFit(t, c) /\ CallsFit(t)
  BY <1>1, <1>3 DEF TimersFit, CallsFit, Timers, Alike, Unmoved
<1>5. Good(t, c) /\ t.rxNext # 0
  BY <1>1, <1>3, <1>4, StaysThere, UnmovedIsGood DEF Alike, Unmoved
<1> QED
  BY <1>2, <1>5, SendAckKeeps

(* What the application writes.                                             *)
LEMMA SendKeeps ==
  ASSUME NEW c \in Contexts, NEW s, Good(s, c), s.state \in {"ESTABLISHED", "CLOSE_WAIT"},
         s.established, NEW x
  PROVE  Good([s EXCEPT !.tail = @ + 1, !.pending = x], c)
<1>1. /\ Fields \subseteq DOMAIN s /\ Typed(s) /\ s.tail \in Nat
  BY DEF Good, Typed
<1>2. PICK t : t = [s EXCEPT !.tail = @ + 1, !.pending = x]
  OBVIOUS
<1>3. /\ Fields \subseteq DOMAIN t /\ \A f \in Fields \ {"tail"} : t[f] = s[f]
      /\ t.tail = s.tail + 1
  BY <1>1, <1>2 DEF Fields
<1>4. /\ t.head = s.head /\ t.lost = s.lost /\ t.unsent = s.unsent /\ t.gaps = s.gaps
      /\ t.high = s.high /\ t.rxNext = s.rxNext /\ t.finSeq = s.finSeq
      /\ t.established = s.established /\ t.nextTx = s.nextTx
      /\ t.state = s.state /\ t.endPoint = s.endPoint /\ t.retx = s.retx
      /\ t.delTimer = s.delTimer /\ t.calls = s.calls /\ t.closeNotified = s.closeNotified
      /\ t.out = s.out
  BY <1>3 DEF Fields
<1>5. Typed(t)
  BY <1>1, <1>3, <1>4 DEF Typed
<1>6. StateFits(t, c)
  BY <1>3, <1>4 DEF Good, StateFits
<1>7. TimersFit(t, c) /\ CallsFit(t) /\ t.rxNext \in c.reach
  BY <1>4 DEF Good, TimersFit, CallsFit
<1> QED
  BY <1>2, <1>4, <1>5, <1>6, <1>7 DEF Good

-----------------------------------------------------------------------------
(* The inductive invariant. *)

IsSyn(p) == "SYN" \in p.flags
SomeSyn(q) == \E i \in 1 .. Len(q) : IsSyn(q[i])
AllSyn(q) == \A i \in 1 .. Len(q) : IsSyn(q[i])
SynFirst(q) == \A i, j \in 1 .. Len(q) : i < j /\ IsSyn(q[j]) => IsSyn(q[i])

(* The client sends its SYN again and again.                                *)
Asks == sock[Client].retx = "SYN"

(* A handler of self that leaves in R what it has received.                 *)
Context(self, R) ==
  [who |-> self, peer |-> sock[Other(self)].rxNext, reach |-> R,
   asks |-> self = Client /\ Asks, midway |-> FALSE]

(* Each socket is good, and what it has sent is what it may send.           *)
Sound ==
  /\ DOMAIN sock = Peers /\ DOMAIN net = Peers
  /\ \A p \in Peers :
       /\ sock[p].rxNext \in Nat
       /\ Good(sock[p], Context(p, Nat)) /\ sock[p].out = <<>>
       /\ net[Other(p)] \in Seq(PacketsOf(p, sock[p].rxNext))

(* SYNs come to the server before all else.                                 *)
SynOrder ==
  /\ SynFirst(net[Server])
  /\ Asks => AllSyn(net[Server])
  /\ Asks \/ SomeSyn(net[Server]) => sock[Server].rxNext <= 1

(* Nothing has happened yet.                                                *)
Fresh ==
  /\ sock = [p \in Peers |-> IF p = Client THEN NewSocket("CLOSED", FALSE, FALSE)
                             ELSE NewSocket("LISTEN", FALSE, TRUE)]
  /\ net = [p \in Peers |-> <<>>]
  /\ closed = [p \in Peers |-> FALSE]

Inv == Fresh \/ (Sound /\ SynOrder)

LEMMA TwoPeers ==
  /\ Client # Server /\ Client \in Peers /\ Server \in Peers
  /\ Other(Client) = Server /\ Other(Server) = Client
  /\ \A p \in Peers : Other(p) \in Peers /\ Other(Other(p)) = p /\ Other(p) # p
  /\ \A p \in Peers : p = Client \/ p = Server
BY DEF Client, Server, Peers, Other

LEMMA ContextIs ==
  ASSUME Sound, NEW self \in Peers, NEW R \in SUBSET Nat
  PROVE  Context(self, R) \in Contexts
<1>1. sock[Other(self)].rxNext \in Nat
  BY TwoPeers DEF Sound
<1> QED
  BY <1>1 DEF Context, Contexts

LEMMA Focus ==
  ASSUME Sound, NEW self \in Peers, NEW R \in SUBSET Nat, sock[self].rxNext \in R
  PROVE  Good(sock[self], Context(self, R))
<1> DEFINE s == sock[self]
<1>1. Good(s, Context(self, Nat)) /\ s.out = <<>>
  BY DEF Sound
<1>2. StateFits(s, Context(self, R))
  BY <1>1 DEF Good, StateFits, Context
<1>3. TimersFit(s, Context(self, R))
  BY <1>1, <1>2 DEF Good, TimersFit, StateFits, Context, Asks
<1>4. Typed(s) /\ CallsFit(s) /\ s.out \in Seq(LaterPackets(self, s.rxNext))
  BY <1>1 DEF Good, Context
<1> HIDE DEF s
<1>5. Good(s, Context(self, R))
  BY <1>2, <1>3, <1>4 DEF Good, Context, s
<1> QED
  BY <1>5 DEF s

(* What a step may do to the socket of self and to the network: t is what a *)
(* handler leads to, q what is still on its way to self.                    *)
Steps(self, t, q) ==
  /\ sock' = [sock EXCEPT ![self] = [t EXCEPT !.out = <<>>]]
  /\ net' = [net EXCEPT ![self] = q, ![Other(self)] = @ \o t.out]
  /\ q = net[self] \/ (net[self] # <<>> /\ q = Tail(net[self]))

LEMMA DoSteps ==
  ASSUME Sound, NEW self \in Peers, NEW t, Do(self, t)
  PROVE  Steps(self, t, net[self])
<1>1. /\ sock' = [sock EXCEPT ![self] = [t EXCEPT !.out = <<>>]]
      /\ net' = [net EXCEPT ![Other(self)] = @ \o t.out]
  BY DEF Do
<1>2. net' = [net EXCEPT ![self] = net[self], ![Other(self)] = @ \o t.out]
  BY <1>1, TwoPeers DEF Sound
<1> QED
  BY <1>1, <1>2 DEF Steps

(* The sockets and the network after a step.                                *)
LEMMA StepIs ==
  ASSUME Sound, NEW self \in Peers, NEW t, NEW q, Steps(self, t, q), Fields \subseteq DOMAIN t
  PROVE  /\ DOMAIN sock' = Peers /\ DOMAIN net' = Peers
         /\ \A f \in Fields \ {"out"} : sock'[self][f] = t[f]
         /\ sock'[self].out = <<>> /\ Fields \subseteq DOMAIN (sock'[self])
         /\ sock'[Other(self)] = sock[Other(self)]
         /\ net'[self] = q /\ net'[Other(self)] = net[Other(self)] \o t.out
<1>1. PICK u : u = [t EXCEPT !.out = <<>>]
  OBVIOUS
<1>2. /\ \A f \in Fields \ {"out"} : u[f] = t[f]
      /\ u.out = <<>> /\ Fields \subseteq DOMAIN u
  BY <1>1 DEF Fields
<1>3. sock' = [sock EXCEPT ![self] = u] /\ sock'[self] = u
      /\ sock'[Other(self)] = sock[Other(self)] /\ DOMAIN sock' = Peers
  BY <1>1, TwoPeers DEF Steps, Sound
<1>4. DOMAIN net' = Peers /\ net'[self] = q /\ net'[Other(self)] = net[Other(self)] \o t.out
  BY TwoPeers DEF Steps, Sound
<1> QED
  BY <1>2, <1>3, <1>4

(* A good socket stays good when its peer has received more.                *)
LEMMA PeerGrows ==
  ASSUME NEW c \in Contexts, NEW d \in Contexts, NEW s, Good(s, c), s.out = <<>>,
         d.who = c.who, d.peer >= c.peer, d.reach = Nat, d.midway = FALSE, c.midway = FALSE,
         s.retx = "SYN" => d.asks
  PROVE  Good(s, d)
<1>1. /\ Typed(s) /\ s.rxNext \in Nat /\ s.head \in Nat /\ s.high \in Nat
      /\ StateFits(s, c) /\ TimersFit(s, c) /\ CallsFit(s)
      /\ c.peer \in Nat /\ d.peer \in Nat /\ s.out \in Seq(LaterPackets(c.who, s.rxNext))
  BY DEF Good, Typed, Contexts
<1>2. StateFits(s, d)
  BY <1>1 DEF StateFits
<1>3. TimersFit(s, d)
  BY <1>1 DEF TimersFit
<1> QED
  BY <1>1, <1>2, <1>3 DEF Good

LEMMA PacketsMore ==
  ASSUME NEW who \in Peers, NEW n \in Nat, NEW m \in Nat, n <= m
  PROVE  PacketsOf(who, n) \subseteq PacketsOf(who, m)
<1>1. \A p \in Packets : p.ack \in Nat
  BY DEF Packets
<1>2. \A p \in Packets : (p.ack <= n => p.ack <= m) /\ (n >= 1 => m >= 1)
  BY <1>1
<1> QED
  BY <1>2, Zenon DEF PacketsOf

(* u is t without what it has sent.                                         *)
LEMMA SoundStep ==
  ASSUME Sound, NEW self \in Peers, NEW t, NEW q, Steps(self, t, q), Fields \subseteq DOMAIN t,
         NEW c \in Contexts, c.who = self, c.peer = sock[Other(self)].rxNext, ~c.midway,
         NEW u, \A f \in Fields \ {"out"} : u[f] = t[f], u.out = <<>>, Good(u, c),
         t.rxNext >= sock[self].rxNext,
         t.out \in Seq(PacketsOf(self, t.rxNext))
  PROVE  Sound'
<1> DEFINE o == Other(self)
<1>1. /\ DOMAIN sock' = Peers /\ DOMAIN net' = Peers
      /\ \A f \in Fields \ {"out"} : sock'[self][f] = t[f]
      /\ sock'[self].out = <<>> /\ Fields \subseteq DOMAIN (sock'[self])
      /\ sock'[o] = sock[o]
      /\ net'[self] = q /\ net'[o] = net[o] \o t.out
  BY StepIs
<1>2. self \in Peers /\ o \in Peers /\ Other(o) = self /\ o # self
      /\ \A p \in Peers : p = self \/ p = o
  BY TwoPeers
<1>3. /\ sock[o].rxNext \in Nat /\ sock[self].rxNext \in Nat
      /\ Good(sock[o], Context(o, Nat)) /\ sock[o].out = <<>>
      /\ net[o] \in Seq(PacketsOf(self, sock[self].rxNext))
      /\ net[self] \in Seq(PacketsOf(o, sock[o].rxNext))
  BY <1>2 DEF Sound
<1>4. t.rxNext \in Nat /\ sock'[self].rxNext = t.rxNext /\ u.rxNext = t.rxNext
  BY <1>1 DEF Fields, Good, Typed
<1> HIDE DEF o
<1>5. Good(sock'[self], Context(self, Nat)')
  <2>1. PICK v : v = sock'[self]
    OBVIOUS
  <2>2. Same(u, v)
    BY <1>1, <2>1 DEF Same, Fields
  <2>3. Good(v, c) /\ v.out = <<>>
    BY <1>1, <2>1, <2>2, SameIsGood
  <2>4. PICK d \in Contexts : d = [who |-> self, peer |-> sock[o].rxNext, reach |-> Nat,
                                   asks |-> self = Client /\ sock'[Client].retx = "SYN",
                                   midway |-> FALSE]
    BY <1>3 DEF Contexts
  <2>5. d.who = c.who /\ d.peer >= c.peer /\ d.reach = Nat /\ d.midway = FALSE /\ c.midway = FALSE
    BY <1>3, <2>4 DEF Contexts, o
  <2>6. v.retx = "SYN" => d.asks
    <3>1. v.retx = "SYN" => self = Client
      BY <2>3 DEF Good, TimersFit, StateFits
    <3> QED
      BY <2>1, <2>4, <3>1
  <2>7. Good(v, d)
    BY <2>3, <2>5, <2>6, PeerGrows
  <2>8. Context(self, Nat)' = d
    BY <1>1, <2>4 DEF Context, Asks, o
  <2> QED
    BY <2>1, <2>7, <2>8
<1>6. Good(sock'[o], Context(o, Nat)')
  <2>1. PICK d \in Contexts : d = [who |-> o, peer |-> t.rxNext, reach |-> Nat,
                                   asks |-> o = Client /\ sock'[Client].retx = "SYN",
                                   midway |-> FALSE]
    BY <1>2, <1>4 DEF Contexts
  <2>2. PICK e \in Contexts : e = Context(o, Nat)
    BY <1>2, ContextIs
  <2>3. /\ e.who = o /\ e.peer = sock[self].rxNext /\ e.midway = FALSE
    BY <1>2, <2>2 DEF Context
  <2>4. PICK v : v = sock[o]
    OBVIOUS
  <2>5. Good(v, e) /\ v.out = <<>>
    BY <1>3, <2>2, <2>4
  <2>6. v.retx = "SYN" => d.asks
    <3>1. v.retx = "SYN" => o = Client
      BY <2>3, <2>5 DEF Good, TimersFit, StateFits
    <3> QED
      BY <1>1, <2>1, <2>4, <3>1
  <2>7. Good(v, d)
    BY <2>1, <2>3, <2>5, <2>6, PeerGrows
  <2>8. Context(o, Nat)' = d
    BY <1>1, <1>2, <1>4, <2>1 DEF Context, Asks
  <2> QED
    BY <1>1, <2>4, <2>7, <2>8
<1>7. net'[o] \in Seq(PacketsOf(self, t.rxNext))
  <2>1. net[o] \in Seq(PacketsOf(self, t.rxNext))
    BY <1>3, <1>4, PacketsMore, WiderSeq
  <2> QED
    BY <1>1, <2>1, ConcatProperties
<1>8. net'[self] \in Seq(PacketsOf(o, sock[o].rxNext))
  <2>1. CASE q = net[self]
    BY <1>1, <1>3, <2>1
  <2>2. CASE net[self] # <<>> /\ q = Tail(net[self])
    <3>1. PICK S, z : S = PacketsOf(o, sock[o].rxNext) /\ z = net[self]
      OBVIOUS
    <3>2. z \in Seq(S) /\ z # <<>>
      BY <1>3, <2>2, <3>1
    <3>3. Tail(z) \in Seq(S)
      BY ONLY <3>2, HeadTailProperties
    <3> QED
      BY <1>1, <2>2, <3>1, <3>3
  <2> QED
    BY <2>1, <2>2 DEF Steps
<1>9. \A p \in Peers :
       /\ sock'[p].rxNext \in Nat
       /\ Good(sock'[p], Context(p, Nat)') /\ sock'[p].out = <<>>
       /\ net'[Other(p)] \in Seq(PacketsOf(p, sock'[p].rxNext))
  <2>1. Other(self) = o
    BY DEF o
  <2> QED
    BY <1>1, <1>2, <1>3, <1>4, <1>5, <1>6, <1>7, <1>8, <2>1
<1> QED
  BY <1>1, <1>9 DEF Sound

LEMMA SynsBehind ==
  ASSUME NEW S, NEW a \in Seq(S), NEW b \in Seq(S), \A i \in 1 .. Len(b) : ~IsSyn(b[i])
  PROVE  /\ SynFirst(a) => SynFirst(a \o b)
         /\ SomeSyn(a \o b) => SomeSyn(a)
         /\ b = <<>> /\ AllSyn(a) => AllSyn(a \o b)
<1>1. /\ Len(a) \in Nat /\ Len(b) \in Nat /\ Len(a \o b) = Len(a) + Len(b)
      /\ \A i \in 1 .. Len(a) + Len(b) :
           (a \o b)[i] = IF i <= Len(a) THEN a[i] ELSE b[i - Len(a)]
  BY ConcatProperties, LenProperties
<1>2. PICK z, n, m : z = a \o b /\ n = Len(a) /\ m = Len(b)
  OBVIOUS
<1>3. /\ n \in Nat /\ m \in Nat /\ Len(z) = n + m
      /\ \A i \in 1 .. n + m : z[i] = IF i <= n THEN a[i] ELSE b[i - n]
  BY <1>1, <1>2
<1>4. ASSUME NEW i \in 1 .. Len(z), IsSyn(z[i]) PROVE i \in 1 .. n /\ IsSyn(a[i])
  <2>1. CASE i <= n
    BY <1>3, <1>4, <2>1
  <2>2. CASE ~(i <= n)
    <3>1. i - n \in 1 .. m /\ z[i] = b[i - n]
      BY <1>3, <2>2
    <3> QED
      BY <1>2, <1>4, <3>1
  <2> QED
    BY <2>1, <2>2
<1>5. \A i \in 1 .. n : i \in 1 .. Len(z) /\ z[i] = a[i]
  BY <1>3
<1>6. ASSUME SynFirst(a), NEW i \in 1 .. Len(z), NEW j \in 1 .. Len(z), i < j, IsSyn(z[j])
      PROVE  IsSyn(z[i])
  <2>1. j \in 1 .. n /\ IsSyn(a[j])
    BY <1>4, <1>6
  <2>2. i \in 1 .. n
    BY <1>3, <1>6, <2>1
  <2>3. IsSyn(a[i])
    BY <1>2, <1>6, <2>1, <2>2 DEF SynFirst
  <2> QED
    BY <1>5, <2>2, <2>3
<1>7. SomeSyn(z) => SomeSyn(a)
  BY <1>2, <1>4 DEF SomeSyn
<1>8. b = <<>> /\ AllSyn(a) => AllSyn(z)
  <2>1. b = <<>> => z = a
    BY <1>2, ConcatEmptySeq
  <2> QED
    BY <2>1
<1> QED
  BY <1>2, <1>6, <1>7, <1>8 DEF SynFirst

LEMMA SynsAll ==
  ASSUME NEW S, NEW a \in Seq(S), NEW b \in Seq(S), AllSyn(a), AllSyn(b)
  PROVE  AllSyn(a \o b) /\ SynFirst(a \o b)
<1>1. /\ Len(a) \in Nat /\ Len(b) \in Nat /\ Len(a \o b) = Len(a) + Len(b)
      /\ \A i \in 1 .. Len(a) + Len(b) :
           (a \o b)[i] = IF i <= Len(a) THEN a[i] ELSE b[i - Len(a)]
  BY ConcatProperties, LenProperties
<1>2. PICK z, n, m : z = a \o b /\ n = Len(a) /\ m = Len(b)
  OBVIOUS
<1>3. /\ n \in Nat /\ m \in Nat /\ Len(z) = n + m
      /\ \A i \in 1 .. n + m : z[i] = IF i <= n THEN a[i] ELSE b[i - n]
  BY <1>1, <1>2
<1>4. ASSUME NEW i \in 1 .. Len(z) PROVE IsSyn(z[i])
  <2>1. CASE i <= n
    <3>1. i \in 1 .. n /\ z[i] = a[i]
      BY <1>3, <2>1
    <3> QED
      BY <1>2, <3>1 DEF AllSyn
  <2>2. CASE ~(i <= n)
    <3>1. i - n \in 1 .. m /\ z[i] = b[i - n]
      BY <1>3, <2>2
    <3> QED
      BY <1>2, <3>1 DEF AllSyn
  <2> QED
    BY <2>1, <2>2
<1> QED
  BY <1>2, <1>4 DEF AllSyn, SynFirst

(* A stream whose head is gone.                                             *)
LEMMA SynsTail ==
  ASSUME NEW S, NEW a \in Seq(S), a # <<>>
  PROVE  /\ SynFirst(a) => SynFirst(Tail(a))
         /\ SomeSyn(Tail(a)) => SomeSyn(a)
         /\ AllSyn(a) => AllSyn(Tail(a))
         /\ SynFirst(a) /\ ~IsSyn(Head(a)) => ~SomeSyn(a)
         /\ IsSyn(Head(a)) => SomeSyn(a)
         /\ ~IsSyn(Head(a)) => ~AllSyn(a)
<1>1. PICK z, n, m : z = Tail(a) /\ n = Len(a) /\ m = Len(z)
  OBVIOUS
<1>2. /\ n \in Nat /\ n >= 1 /\ m = n - 1 /\ Head(a) = a[1]
      /\ \A i \in 1 .. m : z[i] = a[i + 1]
  <2>1. /\ Len(Tail(a)) = Len(a) - 1
        /\ \A i \in 1 .. Len(Tail(a)) : Tail(a)[i] = a[i + 1]
    BY ONLY a \in Seq(S), a # <<>>, HeadTailProperties
  <2>2. Len(a) \in Nat /\ Len(a) # 0 /\ Head(a) = a[1]
    BY EmptySeq
  <2> QED
    BY <1>1, <2>1, <2>2
<1>3. \A i \in 1 .. m : i + 1 \in 1 .. n /\ z[i] = a[i + 1]
  BY <1>2
<1>4. ASSUME SynFirst(a), NEW i \in 1 .. m, NEW j \in 1 .. m, i < j, IsSyn(z[j])
      PROVE  IsSyn(z[i])
  <2>1. i + 1 \in 1 .. n /\ j + 1 \in 1 .. n /\ i + 1 < j + 1 /\ z[i] = a[i + 1]
        /\ z[j] = a[j + 1] /\ IsSyn(a[j + 1])
    BY <1>2, <1>3, <1>4
  <2>2. \A x, y \in 1 .. n : x < y /\ IsSyn(a[y]) => IsSyn(a[x])
    BY <1>1, <1>4 DEF SynFirst
  <2> QED
    BY <2>1, <2>2
<1>5. SomeSyn(z) => SomeSyn(a)
  BY <1>1, <1>3 DEF SomeSyn
<1>6. AllSyn(a) => AllSyn(z)
  BY <1>1, <1>3 DEF AllSyn
<1>7. 1 \in 1 .. n /\ \A i \in 1 .. n : i = 1 \/ 1 < i
  BY <1>2
<1>8. SynFirst(a) /\ ~IsSyn(Head(a)) => ~SomeSyn(a)
  BY <1>1, <1>2, <1>7 DEF SynFirst, SomeSyn
<1>9. /\ IsSyn(Head(a)) => SomeSyn(a)
      /\ ~IsSyn(Head(a)) => ~AllSyn(a)
  BY <1>1, <1>2, <1>7 DEF SomeSyn, AllSyn
<1> QED
  BY <1>1, <1>4, <1>5, <1>6, <1>8, <1>9 DEF SynFirst

(* What a step must leave as it is for the SYNs to stay first.              *)
LEMMA SynOrderStep ==
  ASSUME Sound, SynOrder, NEW self \in Peers, NEW t, NEW q, Steps(self, t, q),
         Fields \subseteq DOMAIN t, t.out \in Seq(LaterPackets(self, t.rxNext)),
         self = Client /\ t.retx = "SYN" => Asks /\ t.out = <<>>,
         self = Server /\ (Asks \/ SomeSyn(q)) => t.rxNext <= 1
  PROVE  SynOrder'
<1>1. PICK a, b : a = net[Server] /\ b = t.out
  OBVIOUS
<1>2. CASE self = Client
  <2>1. /\ sock'[Server] = sock[Server] /\ net'[Server] = a \o b
        /\ sock'[Client].retx = t.retx
    <3>1. /\ DOMAIN sock' = Peers /\ DOMAIN net' = Peers
          /\ \A f \in Fields \ {"out"} : sock'[self][f] = t[f]
          /\ sock'[self].out = <<>> /\ Fields \subseteq DOMAIN (sock'[self])
          /\ sock'[Other(self)] = sock[Other(self)]
          /\ net'[self] = q /\ net'[Other(self)] = net[Other(self)] \o t.out
      BY StepIs
    <3>2. Other(self) = Server
      BY <1>2, TwoPeers
    <3>3. sock'[self].retx = t.retx
      BY <3>1 DEF Fields
    <3> QED
      BY <1>1, <1>2, <3>1, <3>2, <3>3
  <2>2. PICK S : S = PacketsOf(Client, sock[Client].rxNext) \cup LaterPackets(Client, t.rxNext)
    OBVIOUS
  <2>3. a \in Seq(S)
    <3>1. a \in Seq(PacketsOf(Client, sock[Client].rxNext))
      BY <1>1, TwoPeers DEF Sound
    <3> QED
      BY <2>2, <3>1, WiderSeq
  <2>4. b \in Seq(S)
    <3>1. b \in Seq(LaterPackets(Client, t.rxNext))
      BY <1>1, <1>2
    <3> QED
      BY <2>2, <3>1, WiderSeq
  <2>5. \A i \in 1 .. Len(b) : ~IsSyn(b[i])
    <3>1. \A i \in 1 .. Len(b) : b[i] \in LaterPackets(Client, t.rxNext)
      BY <1>1, <1>2, ElementOfSeq
    <3> QED
      BY <3>1 DEF LaterPackets, IsSyn
  <2>6. /\ SynFirst(a) => SynFirst(a \o b)
        /\ SomeSyn(a \o b) => SomeSyn(a)
        /\ b = <<>> /\ AllSyn(a) => AllSyn(a \o b)
    BY <2>3, <2>4, <2>5, SynsBehind
  <2>7. Asks' => Asks /\ b = <<>>
    BY <1>1, <1>2, <2>1 DEF Asks
  <2> QED
    BY <1>1, <2>1, <2>6, <2>7 DEF SynOrder, SynFirst, SomeSyn, AllSyn
<1>3. CASE self = Server
  <2>1. /\ sock'[Client] = sock[Client] /\ net'[Server] = q
        /\ sock'[Server].rxNext = t.rxNext
    BY <1>3, StepIs, TwoPeers DEF Fields
  <2>2. q = a \/ (a # <<>> /\ q = Tail(a))
    BY <1>1, <1>3 DEF Steps
  <2>3. PICK S : S = PacketsOf(Client, sock[Client].rxNext)
    OBVIOUS
  <2>4. a \in Seq(S)
    BY <1>1, <2>3, TwoPeers DEF Sound
  <2>5. /\ SynFirst(a) => SynFirst(q)
        /\ AllSyn(a) => AllSyn(q)
    BY <2>2, <2>4, SynsTail
  <2>6. Asks' = Asks
    BY <2>1 DEF Asks
  <2> QED
    BY <1>1, <1>3, <2>1, <2>5, <2>6 DEF SynOrder, SynFirst, SomeSyn, AllSyn
<1> QED
  BY <1>2, <1>3, TwoPeers

(* A handler of self that leads from its good socket to a good one.         *)
LEMMA HandledStep ==
  ASSUME Sound, SynOrder, NEW self \in Peers, NEW R \in SUBSET Nat,
         \A n \in R : n >= sock[self].rxNext,
         NEW t, Good(t, Context(self, R)), NEW q, Steps(self, t, q),
         self = Server /\ (Asks \/ SomeSyn(q)) => t.rxNext <= 1
  PROVE  Sound' /\ SynOrder'
<1>1. PICK c \in Contexts : c = Context(self, R)
  BY ContextIs
<1>2. /\ Good(t, c) /\ c.who = self /\ c.peer = sock[Other(self)].rxNext /\ ~c.midway
      /\ c.reach = R /\ c.asks = (self = Client /\ Asks)
  BY <1>1 DEF Context
<1>3. /\ Fields \subseteq DOMAIN t /\ t.out \in Seq(LaterPackets(self, t.rxNext))
      /\ TimersFit(t, c) /\ CallsFit(t) /\ t.rxNext \in Nat /\ t.rxNext >= sock[self].rxNext
  BY <1>2 DEF Good, Typed
<1>4. t.out \in Seq(PacketsOf(self, t.rxNext))
  BY <1>3, WiderSeq DEF LaterPackets
<1>5. PICK u : u = [t EXCEPT !.out = <<>>]
  OBVIOUS
<1>6. (\A f \in Fields \ {"out"} : u[f] = t[f]) /\ u.out = <<>> /\ Fields \subseteq DOMAIN u
  BY <1>3, <1>5 DEF Fields
<1>7. Good(u, c)
  <2>1. /\ Alike(t, u) /\ u.retx = t.retx /\ u.delTimer = t.delTimer
        /\ u.calls = t.calls /\ u.closeNotified = t.closeNotified
    BY <1>6 DEF Fields, Alike, Unmoved
  <2>2. TimersFit(u, c) /\ CallsFit(u)
    BY <1>3, <1>6, <2>1 DEF TimersFit, CallsFit, Alike, Unmoved
  <2>3. u.out \in Seq(LaterPackets(c.who, t.rxNext))
    BY <1>6, EmptySeq
  <2> QED
    BY <1>2, <2>1, <2>2, <2>3, StaysThere, UnmovedIsGood DEF Alike
<1>8. Sound'
  BY <1>2, <1>3, <1>4, <1>6, <1>7, SoundStep
<1>9. self = Client /\ t.retx = "SYN" => Asks /\ t.out = <<>>
  BY <1>2, <1>3 DEF TimersFit
<1> QED
  BY <1>3, <1>8, <1>9, SynOrderStep

(* One that leaves what it has received as it was.                          *)
LEMMA LocalStep ==
  ASSUME Sound, SynOrder, NEW self \in Peers,
         NEW t, Good(t, Context(self, {sock[self].rxNext})), Do(self, t)
  PROVE  Sound' /\ SynOrder'
<1>1. PICK R : R = {sock[self].rxNext}
  OBVIOUS
<1>2. R \in SUBSET Nat /\ \A n \in R : n >= sock[self].rxNext
  BY <1>1 DEF Sound
<1>3. Steps(self, t, net[self])
  BY DoSteps
<1>4. Good(t, Context(self, R))
  BY <1>1
<1>5. t.rxNext = sock[self].rxNext
  BY <1>1, <1>4 DEF Good, Context
<1>6. self = Server /\ (Asks \/ SomeSyn(net[self])) => t.rxNext <= 1
  BY <1>5 DEF SynOrder
<1> HIDE DEF Do
<1> QED
  BY <1>2, <1>3, <1>4, <1>6, HandledStep

(* A packet without an end point to take it.                                *)
LEMMA ResetKeeps ==
  ASSUME NEW c \in Contexts, NEW s, Good(s, c), ~s.endPoint, NEW p, p.seq \in Nat, p.ack \in Nat
  PROVE  Good([s EXCEPT !.out = <<[flags |-> {"RST"}, seq |-> p.ack, len |-> 0, ack |-> 0,
                                   sack |-> {}]>>], c)
<1>1. PICK r : r = [flags |-> {"RST"}, seq |-> p.ack, len |-> 0, ack |-> 0, sack |-> {}]
  OBVIOUS
<1>2. r \in LaterPackets(c.who, s.rxNext)
  <2>1. r \in Packets
    BY <1>1 DEF Packets, FlagSets
  <2>2. r.flags = {"RST"} /\ r.ack = 0 /\ s.rxNext \in Nat
    BY <1>1 DEF Good, Typed
  <2> QED
    BY <2>1, <2>2 DEF LaterPackets, PacketsOf
<1>3. PICK t : t = [s EXCEPT !.out = <<r>>]
  OBVIOUS
<1>4. /\ Fields \subseteq DOMAIN s /\ TimersFit(s, c) /\ CallsFit(s)
  BY DEF Good, Typed
<1>5. /\ Alike(s, t) /\ t.out = <<r>> /\ t.retx = s.retx /\ t.delTimer = s.delTimer
      /\ t.calls = s.calls /\ t.closeNotified = s.closeNotified
  BY <1>3, <1>4 DEF Alike, Unmoved, Fields
<1>6. t.out \in Seq(LaterPackets(c.who, s.rxNext))
  BY <1>2, <1>5, SMTT(20)
<1>7. TimersFit(t, c) /\ CallsFit(t)
  BY <1>4, <1>5 DEF TimersFit, CallsFit, Alike, Unmoved
<1>8. Good(t, c)
  BY <1>5, <1>6, <1>7, StaysThere, UnmovedIsGood DEF Alike
<1> QED
  BY <1>1, <1>3, <1>8

(* The listening socket of the server makes one for the connection.         *)
LEMMA ForkKeeps ==
  ASSUME NEW c \in Contexts, c.who = Server, 1 \in c.reach, NEW p, p.seq = 0
  PROVE  Good(CompleteFork(p), c)
<1>1. PICK x : x = [NewSocket("SYN_RCVD", TRUE, TRUE) EXCEPT !.rxNext = p.seq + 1]
  OBVIOUS
<1>2. /\ x.state = "SYN_RCVD" /\ x.endPoint = TRUE /\ x.nextTx = 0 /\ x.high = 0 /\ x.head = 0
      /\ x.tail = 0 /\ x.unsent = 0 /\ x.lost = {} /\ x.rxNext = 1 /\ x.gaps = {}
      /\ x.finSeq = None /\ x.established = FALSE /\ x.retx = "off" /\ x.delTimer = FALSE
      /\ x.closeNotified = FALSE /\ x.calls = <<>> /\ x.out = <<>>
      /\ Fields \subseteq DOMAIN x
  BY <1>1 DEF NewSocket, Fields
<1>3. Typed(x)
  <2>1. IsFiniteSet(x.gaps)
    BY <1>2, FS_EmptySet
  <2>2. /\ x.nextTx \in Nat /\ x.high \in Nat /\ x.head \in Nat /\ x.tail \in Nat
        /\ x.unsent \in Nat /\ x.rxNext \in Nat
    BY <1>2
  <2>3. x.state \in States /\ x.endPoint \in BOOLEAN
    BY <1>2 DEF States
  <2>4. x.lost \in SUBSET Nat /\ x.gaps \in SUBSET Nat /\ x.finSeq \in Nat \cup {None}
    BY <1>2
  <2> QED
    BY <1>2, <2>1, <2>2, <2>3, <2>4 DEF Typed
<1>4. c.peer \in Nat /\ Client # Server
  BY TwoPeers DEF Contexts
<1>5. StateFits(x, c)
  BY <1>2, <1>4 DEF StateFits
<1>6. TimersFit(x, c)
  BY <1>2 DEF TimersFit, Timers
<1>7. CallsFit(x) /\ x.out \in Seq(LaterPackets(c.who, x.rxNext))
  BY <1>2, EmptySeq DEF CallsFit
<1>8. Good(x, c)
  BY <1>2, <1>3, <1>5, <1>6, <1>7 DEF Good
<1>9. CompleteFork(p) = SendEmptyPacket(x, {"SYN", "ACK"})
  BY <1>1 DEF CompleteFork
<1> QED
  BY <1>2, <1>8, <1>9, SynAckKeeps

(* The packet a socket receives.                                            *)
LEMMA HeadComes ==
  ASSUME Sound, NEW self \in Peers, net[self] # <<>>, NEW R \in SUBSET Nat,
         sock[self].rxNext \in R
  PROVE  /\ Context(self, R) \in Contexts /\ Good(sock[self], Context(self, R))
         /\ Comes(Head(net[self]), Context(self, R))
         /\ net[self] \in Seq(PacketsOf(Other(self), sock[Other(self)].rxNext))
<1>1. Context(self, R) \in Contexts /\ Good(sock[self], Context(self, R))
  BY ContextIs, Focus
<1>2. net[self] \in Seq(PacketsOf(Other(self), sock[Other(self)].rxNext))
  BY TwoPeers DEF Sound
<1>3. PICK S, z : S = PacketsOf(Other(self), sock[Other(self)].rxNext) /\ z = net[self]
  OBVIOUS
<1>4. z \in Seq(S) /\ z # <<>>
  BY <1>2, <1>3
<1>5. Head(z) \in S
  BY ONLY <1>4, HeadTailProperties
<1> QED
  BY <1>1, <1>2, <1>3, <1>5 DEF Comes, Context

(* The server receives a SYN.                                               *)
LEMMA SynStep ==
  ASSUME Sound, SynOrder, Receive(Server), IsSyn(Head(net[Server]))
  PROVE  Sound' /\ SynOrder'
<1>1. PICK s, p, z : s = sock[Server] /\ p = Head(net[Server]) /\ z = net[Server]
  OBVIOUS
<1>2. PICK t : /\ t = IF s.endPoint THEN DoForwardUp(s, p) ELSE WithoutEndPoint(Server, s, p)
               /\ sock' = [sock EXCEPT ![Server] = [t EXCEPT !.out = <<>>]]
               /\ net' = [net EXCEPT ![Server] = Tail(@), ![Other(Server)] = @ \o t.out]
  BY <1>1 DEF Receive
<1>3. z # <<>> /\ net[Server] # <<>>
  BY <1>1 DEF Receive
<1>4. PICK R : R = {n \in Nat : n >= s.rxNext /\ n <= 1}
  OBVIOUS
<1>5. /\ Server \in Peers /\ Client # Server /\ Other(Server) = Client
  BY TwoPeers
<1>6. s.rxNext \in Nat /\ s.rxNext <= 1
  <2>1. z \in Seq(PacketsOf(Client, sock[Client].rxNext))
    BY <1>1, TwoPeers DEF Sound
  <2>2. SomeSyn(z)
    BY <1>1, <1>3, <2>1, SynsTail
  <2> QED
    BY <1>1, <1>5, <2>2 DEF Sound, SynOrder
<1>7. R \in SUBSET Nat /\ s.rxNext \in R /\ 1 \in R /\ \A n \in R : n >= s.rxNext /\ n <= 1
  BY <1>4, <1>6
<1>8. PICK c \in Contexts : c = Context(Server, R)
  BY <1>1, <1>5, <1>7, ContextIs
<1>9. c.who = Server /\ c.reach = R /\ ~c.midway /\ Good(s, c) /\ Comes(p, c)
  BY <1>1, <1>3, <1>5, <1>7, <1>8, HeadComes DEF Context
<1>10. Good(t, c)
  <2>1. CASE s.endPoint
    BY <1>1, <1>2, <1>6, <1>9, <2>1, SynKeeps DEF IsSyn
  <2>2. CASE ~s.endPoint
    <3>1. p.flags = {"SYN"} /\ p.seq = 0 /\ p.seq \in Nat /\ p.ack \in Nat
      BY <1>1, <1>5, <1>9, ComesTyped DEF Comes, PacketsOf, IsSyn
    <3>2. t \in {CompleteFork(p),
                 [s EXCEPT !.out = <<[flags |-> {"RST"}, seq |-> p.ack, len |-> 0, ack |-> 0,
                                      sack |-> {}]>>]}
      BY <1>2, <2>2, <3>1 DEF WithoutEndPoint
    <3> QED
      BY <1>7, <1>9, <2>2, <3>1, <3>2, ForkKeeps, ResetKeeps
  <2> QED
    BY <2>1, <2>2
<1>11. PICK q : q = Tail(net[Server])
  OBVIOUS
<1>12. Steps(Server, t, q)
  BY <1>2, <1>3, <1>11 DEF Steps
<1>13. t.rxNext <= 1
  BY <1>7, <1>9, <1>10 DEF Good
<1>14. Good(t, Context(Server, R)) /\ \A n \in R : n >= sock[Server].rxNext
  BY <1>1, <1>7, <1>8, <1>10
<1> QED
  BY ONLY Sound, SynOrder, <1>5, <1>7, <1>12, <1>13, <1>14, HandledStep

(* A socket receives anything else.                                         *)
LEMMA ReceiveStep ==
  ASSUME Sound, SynOrder, NEW self \in Peers, Receive(self),
         self = Server => ~IsSyn(Head(net[self]))
  PROVE  Sound' /\ SynOrder'
<1>1. PICK s, p, z : s = sock[self] /\ p = Head(net[self]) /\ z = net[self]
  OBVIOUS
<1>2. PICK t : /\ t = IF s.endPoint THEN DoForwardUp(s, p) ELSE WithoutEndPoint(self, s, p)
               /\ sock' = [sock EXCEPT ![self] = [t EXCEPT !.out = <<>>]]
               /\ net' = [net EXCEPT ![self] = Tail(@), ![Other(self)] = @ \o t.out]
  BY <1>1 DEF Receive
<1>3. z # <<>> /\ net[self] # <<>>
  BY <1>1 DEF Receive
<1>4. PICK R : R = {n \in Nat : n >= s.rxNext}
  OBVIOUS
<1>5. s.rxNext \in Nat
  BY <1>1 DEF Sound
<1>6. R \in SUBSET Nat /\ s.rxNext \in R /\ \A n \in R : n >= s.rxNext
  BY <1>4, <1>5
<1>7. PICK c \in Contexts : c = Context(self, R)
  BY <1>1, <1>6, ContextIs
<1>8. c.who = self /\ c.reach = R /\ ~c.midway /\ Good(s, c) /\ Comes(p, c)
  BY <1>1, <1>3, <1>6, <1>7, HeadComes DEF Context
<1>9. Grows(c)
  BY <1>4, <1>5, <1>8 DEF Grows
<1>10. Good(t, c)
  <2>1. CASE s.endPoint
    BY <1>1, <1>2, <1>8, <1>9, <2>1, DoForwardUpKeeps DEF IsSyn
  <2>2. CASE ~s.endPoint
    <3>1. p.seq \in Nat /\ p.ack \in Nat
      BY <1>8, ComesTyped
    <3>2. self = Server => p.flags # {"SYN"}
      BY <1>1 DEF IsSyn
    <3>3. t \in {s, [s EXCEPT !.out = <<[flags |-> {"RST"}, seq |-> p.ack, len |-> 0, ack |-> 0,
                                         sack |-> {}]>>]}
      BY <1>2, <2>2, <3>2 DEF WithoutEndPoint
    <3> QED
      BY <1>8, <2>2, <3>1, <3>3, ResetKeeps
  <2> QED
    BY <2>1, <2>2
<1>11. PICK q : q = Tail(net[self])
  OBVIOUS
<1>12. Steps(self, t, q)
  BY <1>2, <1>3, <1>11 DEF Steps
<1>13. self = Server => ~Asks /\ ~SomeSyn(q)
  <2>1. z \in Seq(PacketsOf(Other(self), sock[Other(self)].rxNext))
    BY <1>1, TwoPeers DEF Sound
  <2>2. SUFFICES ASSUME self = Server PROVE ~Asks /\ ~SomeSyn(q)
    OBVIOUS
  <2>3. ~IsSyn(Head(z)) /\ SynFirst(z) /\ (Asks => AllSyn(z))
    BY <1>1, <2>2 DEF SynOrder
  <2> QED
    BY <1>1, <1>3, <1>11, <2>1, <2>3, SynsTail
<1>14. Good(t, Context(self, R)) /\ \A n \in R : n >= sock[self].rxNext
  BY <1>1, <1>6, <1>7, <1>10
<1> QED
  BY ONLY Sound, SynOrder, self \in Peers, <1>6, <1>12, <1>13, <1>14, HandledStep

(* The network loses a packet.                                              *)
LEMMA LoseStep ==
  ASSUME Sound, SynOrder, NEW self \in Peers, Lose(self)
  PROVE  Sound' /\ SynOrder'
<1>1. net[self] # <<>> /\ net' = [net EXCEPT ![self] = Tail(@)] /\ sock' = sock
  BY DEF Lose
<1>2. DOMAIN net = Peers /\ DOMAIN net' = Peers
  BY <1>1 DEF Sound
<1>3. \A p \in Peers : net'[p] = net[p] \/ (net[p] # <<>> /\ net'[p] = Tail(net[p]))
  BY <1>1, <1>2
<1>4. ASSUME NEW p \in Peers, NEW S, net[p] \in Seq(S)
      PROVE  /\ net'[p] \in Seq(S)
             /\ SynFirst(net[p]) => SynFirst(net'[p])
             /\ SomeSyn(net'[p]) => SomeSyn(net[p])
             /\ AllSyn(net[p]) => AllSyn(net'[p])
  <2>1. PICK z, y : z = net[p] /\ y = net'[p]
    OBVIOUS
  <2>2. z \in Seq(S) /\ (y = z \/ (z # <<>> /\ y = Tail(z)))
    BY <1>3, <1>4, <2>1
  <2>3. CASE y = z
    BY <1>4, <2>1, <2>3, Zenon
  <2>4. CASE z # <<>> /\ y = Tail(z)
    <3>1. Tail(z) \in Seq(S)
      BY ONLY <2>2, <2>4, HeadTailProperties
    <3>2. /\ SynFirst(z) => SynFirst(y)
          /\ SomeSyn(y) => SomeSyn(z)
          /\ AllSyn(z) => AllSyn(y)
      BY <2>2, <2>4, SynsTail
    <3> QED
      BY <2>1, <2>4, <3>1, <3>2
  <2> QED
    BY <2>2, <2>3, <2>4
<1>5. \A p \in Peers : Context(p, Nat)' = Context(p, Nat)
  BY <1>1 DEF Context, Asks
<1>6. \A p \in Peers : net'[Other(p)] \in Seq(PacketsOf(p, sock'[p].rxNext))
  <2>1. TAKE p \in Peers
  <2>2. net[Other(p)] \in Seq(PacketsOf(p, sock[p].rxNext)) /\ Other(p) \in Peers
    BY TwoPeers DEF Sound
  <2>3. net'[Other(p)] \in Seq(PacketsOf(p, sock[p].rxNext))
    BY <1>4, <2>2
  <2> QED
    BY <1>1, <2>3
<1>7. Sound'
  BY <1>1, <1>2, <1>5, <1>6 DEF Sound
<1>8. SynOrder'
  <2>1. /\ SynFirst(net[Server]) => SynFirst(net'[Server])
        /\ SomeSyn(net'[Server]) => SomeSyn(net[Server])
        /\ AllSyn(net[Server]) => AllSyn(net'[Server])
    <3>1. Server \in Peers /\ net[Server] \in Seq(PacketsOf(Client, sock[Client].rxNext))
      BY TwoPeers DEF Sound
    <3> QED
      BY <1>4, <3>1
  <2>2. Asks' = Asks
    BY <1>1 DEF Asks
  <2> QED
    BY <1>1, <2>1, <2>2 DEF SynOrder, SynFirst, SomeSyn, AllSyn
<1> QED
  BY <1>7, <1>8

(* The context of a handler that receives nothing.                          *)
LEMMA HereIsGood ==
  ASSUME Sound, NEW self \in Peers
  PROVE  /\ Context(self, {sock[self].rxNext}) \in Contexts
         /\ Good(sock[self], Context(self, {sock[self].rxNext}))
         /\ ~Context(self, {sock[self].rxNext}).midway
         /\ Context(self, {sock[self].rxNext}).who = self
         /\ Context(self, {sock[self].rxNext}).asks = (self = Client /\ Asks)
<1>1. PICK R : R = {sock[self].rxNext}
  OBVIOUS
<1>2. R \in SUBSET Nat /\ sock[self].rxNext \in R
  BY <1>1 DEF Sound
<1>3. /\ Context(self, R) \in Contexts /\ Good(sock[self], Context(self, R))
  BY <1>2, ContextIs, Focus
<1>4. /\ ~Context(self, R).midway /\ Context(self, R).who = self
      /\ Context(self, R).asks = (self = Client /\ Asks)
  BY DEF Context
<1> QED
  BY <1>1, <1>3, <1>4

(* The applications and the timers other than the retransmission timer.     *)
LEMMA ApplicationStep ==
  ASSUME Sound, SynOrder, NEW self \in Peers,
         Send(self) \/ SendPending(self) \/ Read(self) \/ Close(self)
         \/ DelAckTimeout(self) \/ TimeWaitEnds(self)
  PROVE  Sound' /\ SynOrder'
<1>1. PICK s : s = sock[self]
  OBVIOUS
<1>2. PICK c \in Contexts :
        c = Context(self, {sock[self].rxNext}) /\ Good(s, c) /\ ~c.midway /\ c.who = self
  BY <1>1, HereIsGood
<1>3. ASSUME NEW t, Good(t, c), Do(self, t) PROVE Sound' /\ SynOrder'
  BY <1>2, <1>3, LocalStep
<1>4. CASE Send(self)
  <2>1. PICK x : x = (s.pending \/ InFlight(s) < s.cwnd)
    OBVIOUS
  <2>2. /\ s.established /\ s.state \in {"ESTABLISHED", "CLOSE_WAIT"}
        /\ Do(self, [s EXCEPT !.tail = @ + 1, !.pending = x])
    BY <1>1, <1>4, <2>1 DEF Send
  <2>3. PICK t : t = [s EXCEPT !.tail = @ + 1, !.pending = x]
    OBVIOUS
  <2>4. Good(t, c)
    BY <1>2, <2>2, <2>3, SendKeeps
  <2>5. Do(self, t)
    BY <2>2, <2>3
  <2> QED
    BY <1>3, <2>4, <2>5
<1>5. CASE SendPending(self)
  <2>1. PICK u : u = [s EXCEPT !.pending = FALSE]
    OBVIOUS
  <2>2. PICK t : t = SendPendingData(u)
    OBVIOUS
  <2>3. Do(self, t)
    BY <1>1, <1>5, <2>1, <2>2 DEF SendPending
  <2>4. Same(s, u)
    BY <1>2, <2>1 DEF Good, Typed, Same, Fields
  <2>5. Good(t, c)
    BY <1>2, <2>2, <2>4, SameIsGood, SendPendingDataKeeps
  <2> QED
    BY <1>3, <2>3, <2>5
<1>6. CASE Read(self)
  <2>1. PICK t : t = [s EXCEPT !.avail = 0]
    OBVIOUS
  <2>2. Do(self, t)
    BY <1>1, <1>6, <2>1 DEF Read
  <2>3. Same(s, t)
    BY <1>2, <2>1 DEF Good, Typed, Same, Fields
  <2> QED
    BY <1>2, <1>3, <2>2, <2>3, SameIsGood
<1>7. CASE Close(self)
  <2>1. PICK t : t = CloseSocket(s)
    OBVIOUS
  <2>2. Do(self, t) /\ (self = Server => s.established)
    BY <1>1, <1>7, <2>1, TwoPeers DEF Close
  <2>3. s.state # "SYN_RCVD"
    BY <1>2, <2>2 DEF Good, StateFits
  <2>4. Good(t, c)
    BY <1>2, <2>1, <2>3, CloseSocketKeeps
  <2> QED
    BY <1>3, <2>2, <2>4
<1>8. CASE DelAckTimeout(self)
  <2>1. PICK t : t = SendAck([s EXCEPT !.delTimer = FALSE, !.delAck = 0])
    OBVIOUS
  <2>2. Do(self, t) /\ s.delTimer
    BY <1>1, <1>8, <2>1 DEF DelAckTimeout
  <2>3. Good(t, c)
    BY <1>2, <2>1, <2>2, DelAckKeeps
  <2> QED
    BY <1>3, <2>2, <2>3
<1>9. CASE TimeWaitEnds(self)
  <2>1. PICK t : t = CloseAndNotify(s)
    OBVIOUS
  <2>2. Do(self, t)
    BY <1>1, <1>9, <2>1 DEF TimeWaitEnds
  <2>3. Good(t, c)
    BY <1>2, <2>1, CloseAndNotifyKeeps
  <2> QED
    BY <1>3, <2>2, <2>3
<1> QED
  BY <1>4, <1>5, <1>6, <1>7, <1>8, <1>9

(* The retransmission timer, unless it sends the SYN again.                 *)
LEMMA TimerStep ==
  ASSUME Sound, SynOrder, NEW self \in Peers, RetxTimer(self), sock[self].retx # "SYN"
  PROVE  Sound' /\ SynOrder'
<1>1. PICK s : s = [sock[self] EXCEPT !.retx = "off"]
  OBVIOUS
<1>2. PICK c \in Contexts :
        c = Context(self, {sock[self].rxNext}) /\ Good(sock[self], c)
  BY HereIsGood
<1>3. ASSUME NEW t, Good(t, c), Do(self, t) PROVE Sound' /\ SynOrder'
  BY <1>2, <1>3, LocalStep
<1>4. Good(s, c) /\ Alike(sock[self], s)
  BY <1>1, <1>2, TimerOffIsGood
<1>5. PICK r : r = sock[self].retx
  OBVIOUS
<1>6. r \in {"data", "SYN+ACK", "FIN"} /\ TimersFit(sock[self], c)
  BY <1>2, <1>5 DEF RetxTimer, Good, TimersFit, Timers
<1>7. Do(self, CASE r = "data" -> ReTxTimeout(s)
                 [] r = "SYN" -> SendEmptyPacket(s, {"SYN"})
                 [] r = "SYN+ACK" -> SendEmptyPacket(s, {"SYN", "ACK"})
                 [] r = "FIN" -> SendEmptyPacket(s, {"FIN"}))
  BY <1>1, <1>5 DEF RetxTimer
<1>8. PICK t : t = CASE r = "data" -> ReTxTimeout(s)
                     [] r = "SYN" -> SendEmptyPacket(s, {"SYN"})
                     [] r = "SYN+ACK" -> SendEmptyPacket(s, {"SYN", "ACK"})
                     [] r = "FIN" -> SendEmptyPacket(s, {"FIN"})
  OBVIOUS
<1>9. Do(self, t)
  BY ONLY <1>7, <1>8
<1>10. CASE r = "data"
  <2>1. t = ReTxTimeout(s)
    BY ONLY <1>8, <1>10
  <2>2. s.rxNext # 0
    BY <1>4, <1>5, <1>6, <1>10 DEF TimersFit, Alike, Unmoved
  <2>3. Good(t, c)
    BY <1>4, <2>1, <2>2, ReTxTimeoutKeeps
  <2> QED
    BY <1>3, <1>9, <2>3
<1>11. CASE r = "SYN+ACK"
  <2>1. t = SendEmptyPacket(s, {"SYN", "ACK"})
    BY ONLY <1>8, <1>11
  <2>2. s.state = "SYN_RCVD" /\ ~s.established /\ s.rxNext = 1 /\ s.endPoint
    BY <1>2, <1>4, <1>5, <1>6, <1>11 DEF TimersFit, Alike, Unmoved, Good, Typed
  <2>3. Good(t, c)
    BY <1>4, <2>1, <2>2, SynAckKeeps
  <2> QED
    BY <1>3, <1>9, <2>3
<1>12. CASE r = "FIN"
  <2>1. t = SendEmptyPacket(s, {"FIN"})
    BY ONLY <1>8, <1>12
  <2>2. s.rxNext # 0
    BY <1>4, <1>5, <1>6, <1>12 DEF TimersFit, Alike, Unmoved
  <2>3. Good(t, c)
    BY <1>4, <2>1, <2>2, EmptyPacketKeeps
  <2> QED
    BY <1>3, <1>9, <2>3
<1> QED
  BY <1>6, <1>10, <1>11, <1>12

(* The SYN of the client.                                                   *)
Syn == [flags |-> {"SYN"}, seq |-> 0, len |-> 0, ack |-> 0, sack |-> {}]

LEMMA SynIs ==
  /\ <<Syn>> \in Seq(PacketsOf(Client, 0)) /\ Len(<<Syn>>) = 1
  /\ AllSyn(<<Syn>>) /\ SynFirst(<<Syn>>)
<1>1. Syn \in Packets
  BY DEF Syn, Packets, FlagSets
<1>2. Syn.flags = {"SYN"} /\ Syn.ack = 0 /\ Syn.len = 0 /\ Syn.seq = 0
  BY DEF Syn
<1>3. Syn \in PacketsOf(Client, 0)
  BY <1>1, <1>2, TwoPeers DEF PacketsOf
<1>4. IsSyn(Syn)
  BY <1>2 DEF IsSyn
<1> HIDE DEF Syn
<1>5. \A i \in 1 .. Len(<<Syn>>) : <<Syn>>[i] = Syn
  OBVIOUS
<1>6. <<Syn>> \in Seq(PacketsOf(Client, 0)) /\ Len(<<Syn>>) = 1
  BY <1>3, SMTT(20)
<1> QED
  BY <1>4, <1>5, <1>6 DEF AllSyn, SynFirst

LEMMA SendsSyn ==
  ASSUME NEW s, Fields \subseteq DOMAIN s, s.endPoint, s.retx = "off", s.out = <<>>,
         s.nextTx = 0, s.rxNext = 0, s.state \in {"CLOSED", "SYN_SENT"}, s.synCount # 0,
         NEW t, t = SendEmptyPacket(s, {"SYN"})
  PROVE  /\ Fields \subseteq DOMAIN t /\ t.out = <<Syn>> /\ t.retx = "SYN"
         /\ \A f \in Fields \ {"out", "retx", "delTimer"} : t[f] = s[f]
         /\ (t.delTimer => s.delTimer)
<1>1. /\ "FIN" \notin {"SYN"} /\ "ACK" \notin {"SYN"} /\ "SYN" \in {"SYN"}
      /\ s.state \notin {"FIN_WAIT_1", "LAST_ACK", "CLOSING"}
  OBVIOUS
<1>2. t = [s EXCEPT !.out = Append(@, Syn), !.synCount = @ - 1,
                    !.delTimer = @ /\ TRUE, !.delAck = @, !.retx = "SYN"]
  BY <1>1 DEF SendEmptyPacket, Syn
<1>3. /\ Fields \subseteq DOMAIN t /\ t.out = Append(s.out, Syn) /\ t.retx = "SYN"
      /\ \A f \in Fields \ {"out", "retx", "delTimer"} : t[f] = s[f]
      /\ (t.delTimer => s.delTimer)
  <2> HIDE DEF Syn
  <2>1. DOMAIN t = DOMAIN s
    BY <1>2
  <2>2. t.out = Append(s.out, Syn) /\ t.retx = "SYN" /\ (t.delTimer => s.delTimer)
    BY <1>2 DEF Fields
  <2>3. \A f \in Fields \ {"out", "retx", "delTimer"} : t[f] = s[f]
    <3>1. ASSUME NEW f \in Fields \ {"out", "retx", "delTimer"}
          PROVE  /\ f \in DOMAIN s
                 /\ f \notin {"out", "synCount", "delTimer", "delAck", "retx"}
      BY DEF Fields
    <3> QED
      BY <1>2, <3>1, Zenon
  <2> QED
    BY <2>1, <2>2, <2>3
<1>4. Append(<<>>, Syn) = <<Syn>>
  BY SMTT(20)
<1> QED
  BY <1>3, <1>4

(* The client's timer sends its SYN again.                                  *)
LEMMA AskStep ==
  ASSUME Sound, SynOrder, NEW self \in Peers, RetxTimer(self), sock[self].retx = "SYN"
  PROVE  Sound' /\ SynOrder'
<1>1. PICK s, t : s = [sock[self] EXCEPT !.retx = "off"] /\ t = SendEmptyPacket(s, {"SYN"})
  OBVIOUS
<1>2. PICK c \in Contexts :
        /\ c = Context(self, {sock[self].rxNext}) /\ Good(sock[self], c)
        /\ ~c.midway /\ c.who = self /\ c.asks = (self = Client /\ Asks)
  BY HereIsGood
<1>3. /\ Good(s, c) /\ Alike(sock[self], s) /\ s.retx = "off" /\ s.out = sock[self].out
  BY <1>1, <1>2, TimerOffIsGood
<1>4. /\ sock[self].state = "SYN_SENT" /\ sock[self].endPoint = TRUE /\ c.asks
      /\ sock[self].out = <<>>
  BY <1>2 DEF Good, Typed, TimersFit, Sound
<1>5. /\ s.state = "SYN_SENT" /\ s.endPoint /\ s.rxNext = 0 /\ s.nextTx = 0 /\ self = Client
      /\ Asks /\ s.out = <<>> /\ Typed(s) /\ Fields \subseteq DOMAIN s
      /\ StateFits(s, c) /\ TimersFit(s, c) /\ CallsFit(s) /\ s.rxNext \in c.reach
  BY <1>2, <1>3, <1>4 DEF Alike, Good, StateFits, Typed, Unmoved
<1>6. Do(self, t)
  <2>1. Do(self, CASE sock[self].retx = "data" -> ReTxTimeout(s)
                   [] sock[self].retx = "SYN" -> SendEmptyPacket(s, {"SYN"})
                   [] sock[self].retx = "SYN+ACK" -> SendEmptyPacket(s, {"SYN", "ACK"})
                   [] sock[self].retx = "FIN" -> SendEmptyPacket(s, {"FIN"}))
    BY <1>1 DEF RetxTimer
  <2>2. (CASE sock[self].retx = "data" -> ReTxTimeout(s)
           [] sock[self].retx = "SYN" -> SendEmptyPacket(s, {"SYN"})
           [] sock[self].retx = "SYN+ACK" -> SendEmptyPacket(s, {"SYN", "ACK"})
           [] sock[self].retx = "FIN" -> SendEmptyPacket(s, {"FIN"})) = t
    BY <1>1
  <2> QED
    BY ONLY <2>1, <2>2
<1>7. CASE s.synCount = 0
  <2>1. /\ t.out = s.out /\ t.calls = Append(s.calls, "failed")
        /\ Unmoved(s, t) /\ t.state = "CLOSED" /\ t.endPoint = FALSE
        /\ t.retx = "off" /\ t.delTimer = FALSE
    BY <1>1, <1>5, <1>7 DEF SendEmptyPacket, DeallocateEndPoint, CancelAllTimers, Notify,
                            Fields, Unmoved
  <2>2. Append(s.calls, "failed") \in Seq(Callbacks) /\ Append(s.calls, "failed") # <<>>
    <3>1. s.calls \in Seq(Callbacks) /\ "failed" \in Callbacks
      BY <1>5 DEF CallsFit, Callbacks
    <3> QED
      BY ONLY <3>1, AppendProperties
  <2>3. TimersFit(t, c) /\ CallsFit(t) /\ MovesTo(s, t)
    BY <1>5, <2>1, <2>2 DEF TimersFit, Timers, CallsFit, MovesTo, States
  <2>4. t.out \in Seq(LaterPackets(c.who, s.rxNext))
    BY <1>3, <2>1 DEF Good
  <2>5. Good(t, c)
    BY <1>3, <2>1, <2>3, <2>4, UnmovedIsGood
  <2> QED
    BY <1>2, <1>6, <2>5, LocalStep
<1>8. CASE s.synCount # 0
  <2>1. /\ Fields \subseteq DOMAIN t /\ t.out = <<Syn>> /\ t.retx = "SYN"
        /\ \A f \in Fields \ {"out", "retx", "delTimer"} : t[f] = s[f]
        /\ (t.delTimer => s.delTimer)
    <3>1. s.state \in {"CLOSED", "SYN_SENT"} /\ t = SendEmptyPacket(s, {"SYN"})
      BY <1>1, <1>5
    <3> QED
      BY ONLY <1>3, <1>5, <1>8, <3>1, SendsSyn
  <2>2. PICK u : u = [t EXCEPT !.out = <<>>]
    OBVIOUS
  <2>3. (\A f \in Fields \ {"out"} : u[f] = t[f]) /\ u.out = <<>> /\ Fields \subseteq DOMAIN u
    BY <2>1, <2>2 DEF Fields
  <2>4. /\ Alike(s, u) /\ u.retx = "SYN" /\ (u.delTimer => s.delTimer)
        /\ u.calls = s.calls /\ u.closeNotified = s.closeNotified
    BY <2>1, <2>3 DEF Fields, Alike, Unmoved
  <2>5. TimersFit(u, c) /\ CallsFit(u)
    BY <1>4, <1>5, <2>3, <2>4 DEF TimersFit, CallsFit, Timers, Alike, Unmoved
  <2>6. Good(u, c)
    BY <1>3, <1>5, <2>3, <2>4, <2>5, EmptySeq, StaysThere, UnmovedIsGood DEF Alike
  <2>7. Steps(self, t, net[self])
    BY <1>6, DoSteps
  <2>8. t.rxNext = 0 /\ sock[self].rxNext = 0
    BY <1>3, <1>5, <2>1 DEF Fields, Alike, Unmoved
  <2>9. t.out \in Seq(PacketsOf(self, t.rxNext)) /\ t.rxNext >= sock[self].rxNext
    BY <1>5, <2>1, <2>8, SynIs
  <2>10. c.peer = sock[Other(self)].rxNext
    BY <1>2 DEF Context
  <2>11. Sound'
    <3>1. ~c.midway /\ c.who = self /\ Fields \subseteq DOMAIN t
      BY <1>2, <2>1
    <3> QED
      BY ONLY Sound, self \in Peers, c \in Contexts, <2>3, <2>6, <2>7, <2>9, <2>10, <3>1,
              SoundStep
  <2>12. SynOrder'
    <3>1. /\ DOMAIN sock' = Peers /\ DOMAIN net' = Peers
          /\ \A f \in Fields \ {"out"} : sock'[self][f] = t[f]
          /\ sock'[self].out = <<>> /\ Fields \subseteq DOMAIN (sock'[self])
          /\ sock'[Other(self)] = sock[Other(self)]
          /\ net'[self] = net[self] /\ net'[Other(self)] = net[Other(self)] \o t.out
      BY <2>1, <2>7, StepIs
    <3>2. PICK z : z = net[Server]
      OBVIOUS
    <3>3. net'[Server] = z \o <<Syn>> /\ sock'[Server] = sock[Server]
      BY <1>5, <2>1, <3>1, <3>2, TwoPeers
    <3>4. z \in Seq(PacketsOf(Client, 0)) /\ AllSyn(z) /\ sock[Server].rxNext <= 1
      BY <1>5, <2>8, <3>2, TwoPeers DEF Sound, SynOrder
    <3>5. AllSyn(z \o <<Syn>>) /\ SynFirst(z \o <<Syn>>)
      BY <3>4, SynIs, SynsAll
    <3> QED
      BY <3>3, <3>4, <3>5 DEF SynOrder, AllSyn, SynFirst
  <2> QED
    BY <2>11, <2>12
<1> QED
  BY <1>7, <1>8

(* The client connects.                                                     *)
LEMMA ConnectStep ==
  ASSUME Fresh, Connect
  PROVE  Sound' /\ SynOrder'
<1>1. /\ Client # Server /\ Client \in Peers /\ Server \in Peers
      /\ Other(Client) = Server /\ Other(Server) = Client /\ Peers = {Client, Server}
  BY TwoPeers DEF Peers
<1>2. PICK a, b : a = NewSocket("CLOSED", FALSE, FALSE) /\ b = NewSocket("LISTEN", FALSE, TRUE)
  OBVIOUS
<1>4. DOMAIN sock = Peers /\ sock[Client] = a /\ sock[Server] = b
  BY <1>1, <1>2 DEF Fresh
<1>5. PICK s : s = [a EXCEPT !.endPoint = TRUE]
  OBVIOUS
<1>6. /\ s.state = "CLOSED" /\ s.endPoint = TRUE /\ s.nextTx = 0 /\ s.high = 0 /\ s.head = 0
      /\ s.tail = 0 /\ s.unsent = 0 /\ s.lost = {} /\ s.rxNext = 0 /\ s.gaps = {}
      /\ s.finSeq = None /\ s.established = FALSE /\ s.retx = "off" /\ s.delTimer = FALSE
      /\ s.closeNotified = FALSE /\ s.calls = <<>> /\ s.out = <<>> /\ s.synCount = SynRetries
      /\ Fields \subseteq DOMAIN s
  BY <1>2, <1>5 DEF NewSocket, Fields
<1>7. /\ b.state = "LISTEN" /\ b.endPoint = FALSE /\ b.nextTx = 0 /\ b.high = 0 /\ b.head = 0
      /\ b.tail = 0 /\ b.unsent = 0 /\ b.lost = {} /\ b.rxNext = 0 /\ b.gaps = {}
      /\ b.finSeq = None /\ b.established = FALSE /\ b.retx = "off" /\ b.delTimer = FALSE
      /\ b.closeNotified = FALSE /\ b.calls = <<>> /\ b.out = <<>>
      /\ Fields \subseteq DOMAIN b
  BY <1>2 DEF NewSocket, Fields
<1>8. PICK v, t : v = SendEmptyPacket(s, {"SYN"}) /\ t = [v EXCEPT !.state = "SYN_SENT"]
  OBVIOUS
<1>9. /\ Fields \subseteq DOMAIN v /\ v.out = <<Syn>> /\ v.retx = "SYN"
      /\ \A f \in Fields \ {"out", "retx", "delTimer"} : v[f] = s[f]
      /\ (v.delTimer => s.delTimer)
  <2>1. s.synCount # 0
    BY <1>6, ConnectionAssumption
  <2>2. v = SendEmptyPacket(s, {"SYN"}) /\ s.state \in {"CLOSED", "SYN_SENT"}
    BY <1>6, <1>8
  <2> QED
    BY ONLY <1>6, <2>1, <2>2, SendsSyn
<1>10. PICK u : u = [t EXCEPT !.out = <<>>]
  OBVIOUS
<1>11. /\ Fields \subseteq DOMAIN u /\ u.out = <<>> /\ u.retx = "SYN" /\ u.state = "SYN_SENT"
       /\ \A f \in Fields \ {"out", "retx", "delTimer", "state"} : u[f] = s[f]
       /\ (u.delTimer => s.delTimer) /\ t.out = <<Syn>>
  BY <1>8, <1>9, <1>10 DEF Fields
<1>12. Do(Client, t)
  <2>1. Do(Client, [SendEmptyPacket([sock[Client] EXCEPT !.endPoint = TRUE], {"SYN"})
                      EXCEPT !.state = "SYN_SENT"])
    BY DEF Connect
  <2> QED
    BY <1>4, <1>5, <1>8, <2>1
<1>13. /\ DOMAIN sock' = Peers /\ sock'[Client] = u /\ sock'[Server] = b
  <2>1. sock' = [sock EXCEPT ![Client] = u]
    BY <1>10, <1>12 DEF Do
  <2> QED
    BY <1>1, <1>4, <2>1
<1>14. DOMAIN net' = Peers /\ net'[Client] = <<>> /\ net'[Server] = <<Syn>>
  <2>1. net = [p \in Peers |-> <<>>] /\ net' = [net EXCEPT ![Server] = @ \o t.out]
    BY <1>1, <1>12 DEF Do, Fresh
  <2>2. <<>> \o <<Syn>> = <<Syn>>
    BY SynIs, ConcatEmptySeq
  <2> QED
    BY <1>1, <1>11, <2>1, <2>2
<1>15. /\ u.endPoint = TRUE /\ u.nextTx = 0 /\ u.high = 0 /\ u.head = 0
       /\ u.tail = 0 /\ u.unsent = 0 /\ u.lost = {} /\ u.rxNext = 0 /\ u.gaps = {}
       /\ u.finSeq = None /\ u.established = FALSE /\ ~u.delTimer
       /\ u.closeNotified = FALSE /\ u.calls = <<>>
  BY <1>6, <1>11 DEF Fields
<1>16. PICK c \in Contexts : c = [who |-> Client, peer |-> 0, reach |-> Nat, asks |-> TRUE,
                                  midway |-> FALSE]
  BY <1>1 DEF Contexts
<1>17. PICK d \in Contexts : d = [who |-> Server, peer |-> 0, reach |-> Nat, asks |-> FALSE,
                                  midway |-> FALSE]
  BY <1>1 DEF Contexts
<1>18. Good(u, c)
  <2>1. Typed(u)
    <3>1. u.gaps \in SUBSET Nat /\ IsFiniteSet(u.gaps) /\ u.lost \in SUBSET Nat
      BY <1>15, FS_EmptySet
    <3>2. u.state \in States /\ u.endPoint \in BOOLEAN
      BY <1>11, <1>15 DEF States
    <3> QED
      BY <1>11, <1>15, <3>1, <3>2 DEF Typed
  <2>2. StateFits(u, c)
    BY <1>11, <1>15, <1>16 DEF StateFits
  <2>3. TimersFit(u, c)
    BY <1>11, <1>15, <1>16 DEF TimersFit, Timers
  <2>4. CallsFit(u) /\ u.out \in Seq(LaterPackets(c.who, u.rxNext)) /\ u.rxNext \in c.reach
    BY <1>11, <1>15, <1>16, EmptySeq DEF CallsFit
  <2> QED
    BY <2>1, <2>2, <2>3, <2>4 DEF Good
<1>19. Good(b, d)
  <2>1. Typed(b)
    <3>1. b.gaps \in SUBSET Nat /\ IsFiniteSet(b.gaps) /\ b.lost \in SUBSET Nat
      BY <1>7, FS_EmptySet
    <3>2. b.state \in States /\ b.endPoint \in BOOLEAN
      BY <1>7 DEF States
    <3> QED
      BY <1>7, <3>1, <3>2 DEF Typed
  <2>2. StateFits(b, d)
    BY <1>7, <1>17 DEF StateFits
  <2>3. TimersFit(b, d)
    BY <1>7 DEF TimersFit, Timers
  <2>4. CallsFit(b) /\ b.out \in Seq(LaterPackets(d.who, b.rxNext)) /\ b.rxNext \in d.reach
    BY <1>7, <1>17, EmptySeq DEF CallsFit
  <2> QED
    BY <2>1, <2>2, <2>3, <2>4 DEF Good
<1>20. Context(Client, Nat)' = c /\ Context(Server, Nat)' = d
  BY <1>1, <1>7, <1>11, <1>13, <1>15, <1>16, <1>17 DEF Context, Asks
<1>21. Sound'
  <2>1. ASSUME NEW p \in Peers
        PROVE  /\ sock'[p].rxNext \in Nat
               /\ Good(sock'[p], Context(p, Nat)') /\ sock'[p].out = <<>>
               /\ net'[Other(p)] \in Seq(PacketsOf(p, sock'[p].rxNext))
    <3>1. CASE p = Client
      <4>1. /\ sock'[p] = u /\ Context(p, Nat)' = c /\ Other(p) = Server
            /\ net'[Other(p)] = <<Syn>>
        BY <1>1, <1>13, <1>14, <1>20, <3>1
      <4>2. net'[Other(p)] \in Seq(PacketsOf(p, sock'[p].rxNext))
        BY <1>15, <3>1, <4>1, SynIs
      <4> QED
        BY <1>11, <1>15, <1>18, <4>1, <4>2
    <3>2. CASE p = Server
      BY <1>1, <1>7, <1>13, <1>14, <1>19, <1>20, <3>2, EmptySeq
    <3> QED
      BY <1>1, <3>1, <3>2
  <2> QED
    BY <1>13, <1>14, <2>1 DEF Sound
<1>22. SynOrder'
  BY <1>7, <1>13, <1>14, SynIs DEF SynOrder, AllSyn, SynFirst
<1> QED
  BY <1>21, <1>22

(* Before it does, nothing else happens.                                    *)
LEMMA FirstConnects ==
  ASSUME Fresh, Next
  PROVE  Connect
<1>1. PICK a, b : a = NewSocket("CLOSED", FALSE, FALSE) /\ b = NewSocket("LISTEN", FALSE, TRUE)
  OBVIOUS
<1>3. sock[Client] = a /\ sock[Server] = b
  BY <1>1, TwoPeers DEF Fresh
<1>4. \A p \in Peers : /\ net[p] = <<>> /\ ~sock[p].pending /\ ~sock[p].delTimer
                       /\ sock[p].retx = "off" /\ ~sock[p].established /\ sock[p].avail = 0
                       /\ ~sock[p].endPoint
                       /\ p = Client => sock[p].calls = <<>> /\ sock[p].state = "CLOSED"
  <2>1. \A x \in {a, b} : /\ ~x.pending /\ ~x.delTimer /\ x.retx = "off" /\ ~x.established
                          /\ x.avail = 0 /\ ~x.endPoint
    BY <1>1 DEF NewSocket
  <2>2. a.calls = <<>> /\ a.state = "CLOSED"
    BY <1>1 DEF NewSocket
  <2>3. \A p \in Peers : net[p] = <<>>
    BY DEF Fresh
  <2> QED
    BY <1>3, <2>1, <2>2, <2>3, TwoPeers
<1>5. ASSUME NEW self \in Peers
      PROVE  /\ ~Receive(self) /\ ~SendPending(self) /\ ~DelAckTimeout(self)
             /\ ~TimeWaitEnds(self) /\ ~RetxTimer(self) /\ ~Lose(self)
             /\ ~Send(self) /\ ~Read(self)
  <2>1. ~Receive(self) /\ ~Lose(self)
    BY <1>4 DEF Receive, Lose
  <2>2. ~SendPending(self) /\ ~DelAckTimeout(self) /\ ~TimeWaitEnds(self)
    BY <1>4, Zenon DEF SendPending, DelAckTimeout, TimeWaitEnds
  <2>3. ~RetxTimer(self)
    BY <1>4, Zenon DEF RetxTimer
  <2>4. ~Send(self)
    BY <1>4, Zenon DEF Send
  <2>5. ~Read(self)
    <3>1. sock[self].avail = 0
      BY <1>4
    <3>2. ~(sock[self].avail > 0)
      BY ONLY <3>1
    <3> QED
      BY <3>2, Zenon DEF Read
  <2> QED
    BY <2>1, <2>2, <2>3, <2>4, <2>5
<1>6. ASSUME NEW self \in Peers PROVE ~Close(self)
  BY <1>4, TwoPeers DEF Close
<1> QED
  BY <1>5, <1>6, Zenon DEF Next, Progress

(* Every step of a connection that is going on.                             *)
LEMMA SoundNext ==
  ASSUME Sound, SynOrder, Next
  PROVE  Sound' /\ SynOrder'
<1>1. ASSUME Connect PROVE FALSE
  <2>1. sock[Client].calls = <<>> /\ sock[Client].state = "CLOSED"
    BY <1>1 DEF Connect
  <2>2. CallsFit(sock[Client])
    BY TwoPeers DEF Sound, Good
  <2> QED
    BY <2>1, <2>2 DEF CallsFit
<1>2. ASSUME NEW self \in Peers, Receive(self) PROVE Sound' /\ SynOrder'
  <2>1. CASE self = Server /\ IsSyn(Head(net[self]))
    BY <1>2, <2>1, SynStep
  <2>2. CASE self = Server => ~IsSyn(Head(net[self]))
    BY <1>2, <2>2, ReceiveStep
  <2> QED
    BY <2>1, <2>2
<1>3. ASSUME NEW self \in Peers, RetxTimer(self) PROVE Sound' /\ SynOrder'
  <2>1. CASE sock[self].retx = "SYN"
    BY <1>3, <2>1, AskStep
  <2>2. CASE sock[self].retx # "SYN"
    BY <1>3, <2>2, TimerStep
  <2> QED
    BY <2>1, <2>2
<1>4. ASSUME NEW self \in Peers, Lose(self) PROVE Sound' /\ SynOrder'
  BY <1>4, LoseStep
<1>5. ASSUME NEW self \in Peers,
             Send(self) \/ SendPending(self) \/ Read(self) \/ Close(self)
             \/ DelAckTimeout(self) \/ TimeWaitEnds(self)
      PROVE  Sound' /\ SynOrder'
  BY <1>5, ApplicationStep
<1> QED
  BY <1>1, <1>2, <1>3, <1>4, <1>5, Zenon DEF Next, Progress

-----------------------------------------------------------------------------
(* The theorems. *)

LEMMA InvHolds == Spec => []Inv
<1>1. Init => Inv
  BY DEF Init, Inv, Fresh
<1>2. Inv /\ [Next]_vars => Inv'
  <2> SUFFICES ASSUME Inv, [Next]_vars PROVE Inv'
    OBVIOUS
  <2>1. CASE Next
    <3>1. CASE Fresh
      BY <2>1, <3>1, FirstConnects, ConnectStep DEF Inv
    <3>2. CASE Sound /\ SynOrder
      BY <2>1, <3>2, SoundNext DEF Inv
    <3> QED
      BY <3>1, <3>2 DEF Inv
  <2>2. CASE UNCHANGED vars
    <3>1. sock' = sock /\ net' = net /\ closed' = closed
      BY <2>2 DEF vars
    <3>2. Fresh => Fresh'
      BY <3>1 DEF Fresh
    <3>3. Sound => Sound'
      <4>1. \A p \in Peers : Context(p, Nat)' = Context(p, Nat)
        BY <3>1 DEF Context, Asks
      <4> QED
        BY <3>1, <4>1 DEF Sound
    <3>4. SynOrder => SynOrder'
      BY <3>1 DEF SynOrder, Asks, SynFirst, SomeSyn, AllSyn
    <3> QED
      BY <3>2, <3>3, <3>4 DEF Inv
  <2> QED
    BY <2>1, <2>2
<1> QED
  BY <1>1, <1>2, PTL DEF Spec

LEMMA InvAcked ==
  ASSUME Inv
  PROVE  AckedMeansReceived
<1>1. CASE Fresh
  <2>1. PICK a, b : /\ a = NewSocket("CLOSED", FALSE, FALSE)
                    /\ b = NewSocket("LISTEN", FALSE, TRUE)
    OBVIOUS
  <2>3. sock[Client] = a /\ sock[Server] = b
    BY <1>1, <2>1, TwoPeers DEF Fresh
  <2>4. \A x \in {a, b} : x.head = 0 /\ x.rxNext = 0 /\ x.state # "FIN_WAIT_2"
    BY <2>1 DEF NewSocket
  <2> QED
    BY <2>3, <2>4, TwoPeers DEF AckedMeansReceived
<1>2. CASE Sound
  <2>1. ASSUME NEW p \in Peers
        PROVE  /\ sock[p].head <= sock[Other(p)].rxNext
               /\ sock[p].state = "FIN_WAIT_2" => sock[Other(p)].rxNext > sock[p].high
    <3>1. StateFits(sock[p], Context(p, Nat))
      BY <1>2 DEF Sound, Good
    <3>2. Context(p, Nat).peer = sock[Other(p)].rxNext
      BY DEF Context
    <3> QED
      BY <3>1, <3>2 DEF StateFits
  <2> QED
    BY <2>1 DEF AckedMeansReceived
<1> QED
  BY <1>1, <1>2 DEF Inv

(* What a sender has dropped from its buffer as acknowledged the receiver   *)
(* has, and a sender waits for the peer's FIN only when the peer has all the *)
(* data and its own FIN: however many packets are lost, whoever closes       *)
(* first, and whatever each side writes (ReceivedAck and ProcessWait of      *)
(* tcp-socket-base.cc).                                                     *)
THEOREM AckedIsReceived == Spec => []AckedMeansReceived
BY InvHolds, InvAcked, PTL
=============================================================================
