--------------------------- MODULE DashServerProofs ---------------------------
(***************************************************************************)
(* Proofs about the DASH server.  The inductive invariant has three parts:   *)
(*   ServerSound   the types, and no socket has both a queue and room: the   *)
(*                 loop of DataSend ran to its end;                          *)
(*   RunningSound  before StopApplication no socket is being closed;         *)
(*   ClientsSound  unless the clients' messages mix, what the server has not *)
(*                 read of each client is whole messages with at most one    *)
(*                 request, and the socket has answered all the others.      *)
(* The loops of DataSend and HandleRead are reasoned about with the lemma    *)
(* Loop of ModelLemmas.                                                      *)
(***************************************************************************)
EXTENDS DashServer, ModelLemmas

(* A frame, or what is left of one.                                         *)
Whole == {f \in Fragments : f.first <= f.last /\ f.last = f.of}

(* A socket, whose queue holds nothing else.                                *)
Socket == {s \in Sockets : s.queue \in Seq(Whole) /\ s.unsent <= s.used}

(* DataSend has something to do.                                            *)
Sendable(s) == s.queue # <<>> /\ TxAvailable(s) > 0

(* A bound on the rounds DataSend has left.                                 *)
Work(s) ==
  IF Sendable(s) THEN (Len(s.queue) - 1) * LargestFrame + Size(Head(s.queue))
  ELSE 0

(* LargestFrame bounds the sizes of frames.                                 *)
LEMMA LargestFrameType ==
  LargestFrame \in Nat \ {0} /\ \A m \in FrameSizes : m <= LargestFrame
BY ServerAssumption DEF LargestFrame

(* The fields of a socket.                                                  *)
LEMMA SocketType ==
  ASSUME NEW s \in Socket
  PROVE  /\ s.state \in {"NONE", "OPEN", "PEER_CLOSED", "CLOSING", "DEAD"}
         /\ s.queue \in Seq(Whole) /\ s.used \in 0 .. TxCapacity
         /\ s.unsent \in 0 .. TxCapacity /\ s.unsent <= s.used
         /\ s.closeOnEmpty \in BOOLEAN /\ s.wire \in Seq(Fragments)
         /\ s.lost \in Nat /\ TxAvailable(s) \in Nat
BY ServerAssumption DEF Socket, Sockets, TxAvailable

(* The sizes of frames are positive numbers.                                *)
LEMMA FrameSizeType ==
  ASSUME NEW x \in FrameSizes PROVE x \in Nat /\ 1 <= x
BY ServerAssumption

(* The fields of a fragment are numbers.                                    *)
LEMMA FragmentFields ==
  ASSUME NEW f \in Fragments
  PROVE  /\ f.seg \in Nat /\ f.id \in Nat /\ f.first \in Nat /\ f.last \in Nat
         /\ f.of \in Nat /\ f.of \in FrameSizes
<1>1. /\ f.seg \in 0 .. MaxSegments /\ f.id \in 0 .. FramesPerSegment - 1
      /\ f.first \in Nat \ {0} /\ f.last \in Nat /\ f.of \in FrameSizes
  BY DEF Fragments
<1>2. f.of \in Nat
  BY ONLY <1>1, ServerAssumption
<1> QED
  BY <1>1, <1>2, ServerAssumption

(* The fields of a fragment that reaches to the end of its frame.           *)
LEMMA FragmentType ==
  ASSUME NEW f \in Whole
  PROVE  /\ f \in Fragments
         /\ f.seg \in 0 .. MaxSegments /\ f.id \in 0 .. FramesPerSegment - 1
         /\ f.first \in Nat \ {0} /\ f.last \in Nat /\ f.of \in FrameSizes
         /\ f.last = f.of /\ f.first <= f.last
         /\ Size(f) \in 1 .. LargestFrame
BY ServerAssumption, LargestFrameType DEF Whole, Fragments, Size

(* Send takes a fragment there is room for: the socket stays one, and only  *)
(* a socket that may not send counts the fragment as lost.                  *)
LEMMA SendFragmentType ==
  ASSUME NEW s \in Socket, NEW f \in Fragments, 
         Size(f) \in Nat, Size(f) <= TxAvailable(s)
  PROVE  /\ SendFragment(s, f) \in Socket
         /\ SendFragment(s, f).state = s.state
         /\ SendFragment(s, f).closeOnEmpty = s.closeOnEmpty
         /\ SendFragment(s, f).queue = s.queue
         /\ CanSend(s) => /\ SendFragment(s, f).wire = Append(s.wire, f)
                          /\ SendFragment(s, f).lost = s.lost
                          /\ SendFragment(s, f).used = s.used + Size(f)
         /\ ~ CanSend(s) => /\ SendFragment(s, f).wire = s.wire
                            /\ SendFragment(s, f).lost = s.lost + Size(f)
                            /\ SendFragment(s, f).used = s.used
<1> DEFINE t == SendFragment(s, f)
<1>1. s.wire \in Seq(Fragments) /\ Append(s.wire, f) \in Seq(Fragments)
  BY SocketType, AppendProperties
<1>2. CASE CanSend(s)
  <2>1. t = [s EXCEPT !.wire = Append(s.wire, f), !.used = s.used + Size(f), 
                      !.unsent = s.unsent + Size(f)]
    BY <1>2 DEF SendFragment
  <2>2. /\ s.used + Size(f) \in 0 .. TxCapacity
        /\ s.unsent + Size(f) \in 0 .. TxCapacity
        /\ s.unsent + Size(f) <= s.used + Size(f)
    BY SocketType, ServerAssumption, SMTT(20) DEF TxAvailable
  <2> QED
    BY <1>1, <1>2, <2>1, <2>2 DEF Socket, Sockets
<1>3. CASE ~ CanSend(s)
  <2>1. t = [s EXCEPT !.lost = s.lost + Size(f)]
    BY <1>3 DEF SendFragment
  <2>2. s.lost + Size(f) \in Nat
    BY SocketType
  <2> QED
    BY <1>1, <1>3, <2>1, <2>2 DEF Socket, Sockets
<1> QED
  BY <1>2, <1>3

(* A round that sends the front frame to its end.                           *)
LEMMA SendWhole ==
  ASSUME NEW s \in Socket, Sendable(s), ~ (TxAvailable(s) < Size(Head(s.queue)))
  PROVE  /\ SendFront(s) = SendFragment([s EXCEPT !.queue = Tail(@)], Head(s.queue))
         /\ SendFront(s) \in Socket
         /\ SendFront(s).state = s.state
         /\ SendFront(s).closeOnEmpty = s.closeOnEmpty
         /\ SendFront(s).queue = Tail(s.queue)
         /\ CanSend(s) => /\ SendFront(s).wire = Append(s.wire, Head(s.queue))
                          /\ SendFront(s).lost = s.lost
         /\ ~ CanSend(s) => SendFront(s).lost > 0
         /\ Work(SendFront(s)) < Work(s)
<1> DEFINE f == Head(s.queue)
           r == [s EXCEPT !.queue = Tail(@)]
           t == SendFront(s)
<1>1. t = SendFragment(r, f)
  BY DEF SendFront
<1>2. /\ f \in Whole /\ Tail(s.queue) \in Seq(Whole)
      /\ Len(Tail(s.queue)) = Len(s.queue) - 1 /\ Len(s.queue) \in Nat
  BY SocketType, HeadTailProperties, LenProperties DEF Sendable
<1>3. r \in Socket /\ r.state = s.state /\ r.closeOnEmpty = s.closeOnEmpty
      /\ r.queue = Tail(s.queue) /\ r.wire = s.wire /\ r.lost = s.lost
      /\ r.used = s.used
  <2>1. Tail(s.queue) \in Seq(Fragments)
    BY <1>2, SeqMonotonic DEF Whole
  <2> QED
    BY <1>2, <2>1 DEF Socket, Sockets
<1>4. f \in Fragments /\ Size(f) \in 1 .. LargestFrame /\ Size(f) <= TxAvailable(r)
      /\ Size(f) \in Nat
  BY <1>2, <1>3, FragmentType, SocketType, LargestFrameType, SMTT(20) DEF TxAvailable
<1>5. CanSend(r) <=> CanSend(s)
  BY <1>3 DEF CanSend
<1>6. /\ t \in Socket /\ t.state = s.state /\ t.closeOnEmpty = s.closeOnEmpty
      /\ t.queue = Tail(s.queue)
      /\ CanSend(s) => t.wire = Append(s.wire, f) /\ t.lost = s.lost
      /\ ~ CanSend(s) => t.lost = s.lost + Size(f)
  <2> HIDE DEF r, f, t
  <2> QED
    BY <1>1, <1>3, <1>4, <1>5, SendFragmentType, SMTT(20)
<1>7. ~ CanSend(s) => t.lost > 0
  BY <1>4, <1>6, SocketType, LargestFrameType
<1>8. Work(t) < Work(s)
  <2> DEFINE L == LargestFrame
             k == Len(s.queue)
  <2>1. Work(s) = (k - 1) * L + Size(f)
    BY DEF Work
  <2>2. CASE Sendable(t)
    <3>1. Head(t.queue) \in Whole
      BY <1>6, <2>2, SocketType, HeadTailProperties DEF Sendable
    <3>2. Size(Head(t.queue)) \in 1 .. L
      BY <3>1, FragmentType
    <3>3. Work(t) = (k - 2) * L + Size(Head(t.queue))
      <4>1. Len(t.queue) - 1 = k - 2
        BY <1>2, <1>6
      <4> HIDE DEF k, t
      <4> QED
        BY <2>2, <4>1 DEF Work
    <3>4. (k - 1) * L = (k - 2) * L + L
      BY <1>2, LargestFrameType
    <3> HIDE DEF L, k
    <3>5. /\ L \in Nat /\ k \in Nat /\ (k - 2) * L \in Int
      BY <1>2, LargestFrameType DEF L, k
    <3> QED
      BY <1>4, <2>1, <3>2, <3>3, <3>4, <3>5, SMTT(20) DEF L
  <2>3. CASE ~ Sendable(t)
    <3>1. k >= 1
      BY <1>2, SocketType, EmptySeq DEF Sendable
    <3>2. (k - 1) * L \in Nat
      BY <1>2, <3>1, LargestFrameType
    <3>3. Work(t) = 0
      BY <2>3 DEF Work
    <3> HIDE DEF L, k
    <3> QED
      BY <1>4, <2>1, <3>2, <3>3
  <2> QED
    BY <2>2, <2>3
<1> QED
  BY <1>1, <1>6, <1>7, <1>8

(* The two parts of a fragmented frame.                                     *)
LEMMA SendPart ==
  ASSUME NEW s \in Socket, Sendable(s), TxAvailable(s) < Size(Head(s.queue))
  PROVE  LET f == Head(s.queue)
             end == f.first + TxAvailable(s) - 1
             t == SendFront(s)
         IN  /\ end \in Nat /\ f.first <= end /\ end < f.last
             /\ [f EXCEPT !.first = end + 1] \in Whole
             /\ [f EXCEPT !.last = end] \in Fragments
             /\ t \in Socket
             /\ t.state = s.state
             /\ t.closeOnEmpty = s.closeOnEmpty
             /\ t.queue = <<[f EXCEPT !.first = end + 1]>> \o Tail(s.queue)
             /\ CanSend(s) => /\ t.wire = Append(s.wire, [f EXCEPT !.last = end])
                              /\ t.lost = s.lost
             /\ ~ CanSend(s) => t.lost > 0
             /\ Work(t) < Work(s)
<1> DEFINE f == Head(s.queue)
           end == f.first + TxAvailable(s) - 1
           a == [f EXCEPT !.last = end]
           b == [f EXCEPT !.first = end + 1]
           q == <<b>> \o Tail(s.queue)
           r == [s EXCEPT !.queue = q]
           t == SendFront(s)
<1>1. t = SendFragment(r, a)
  BY DEF SendFront
<1>2. /\ f \in Whole /\ Tail(s.queue) \in Seq(Whole)
      /\ Len(Tail(s.queue)) = Len(s.queue) - 1 /\ Len(s.queue) \in Nat
      /\ Len(s.queue) >= 1
  BY SocketType, HeadTailProperties, LenProperties, EmptySeq DEF Sendable
<1>3. /\ f.first \in Nat \ {0} /\ f.last \in Nat /\ TxAvailable(s) \in Nat \ {0}
      /\ Size(f) = f.last - f.first + 1
  BY <1>2, FragmentType, SocketType DEF Sendable, Size
<1>4. end \in Nat /\ f.first <= end /\ end < f.last
  BY <1>3
<1>5. a \in Fragments /\ b \in Whole /\ Size(a) = TxAvailable(s)
      /\ Size(b) = Size(f) - TxAvailable(s)
  <2>1. f \in Fragments /\ f.last = f.of
    BY <1>2 DEF Whole
  <2>2. end \in Nat /\ end + 1 \in Nat \ {0} /\ end + 1 <= f.last
    BY <1>4, <1>3
  <2>3. a \in Fragments /\ a.first = f.first /\ a.last = end
    BY <2>1, <2>2 DEF Fragments
  <2>4. b \in Fragments /\ b.first = end + 1 /\ b.last = f.last /\ b.of = f.of
    BY <2>1, <2>2 DEF Fragments
  <2>5. b \in Whole
    BY <2>1, <2>2, <2>4 DEF Whole
  <2> QED
    BY <1>3, <2>3, <2>4, <2>5 DEF Size
<1>6. /\ q \in Seq(Whole) /\ Len(q) = Len(s.queue) /\ q # <<>> /\ Head(q) = b
  <2>1. <<b>> \in Seq(Whole) /\ Len(<<b>>) = 1
    BY <1>5
  <2>2. q \in Seq(Whole) /\ Len(q) = Len(s.queue) /\ q[1] = b
    <3> HIDE DEF b
    <3> QED
      BY <1>2, <2>1, ConcatProperties
  <2> QED
    BY <1>2, <2>2
<1>7. r \in Socket /\ r.state = s.state /\ r.closeOnEmpty = s.closeOnEmpty
      /\ r.queue = q /\ r.wire = s.wire /\ r.lost = s.lost /\ r.used = s.used
  <2>1. q \in Seq(Fragments)
    BY <1>6, SeqMonotonic DEF Whole
  <2> HIDE DEF q
  <2> QED
    BY <1>6, <2>1 DEF Socket, Sockets
<1>8. TxAvailable(r) = TxAvailable(s) /\ (CanSend(r) <=> CanSend(s))
  BY <1>7 DEF CanSend, TxAvailable
<1>9. /\ t \in Socket /\ t.state = s.state /\ t.closeOnEmpty = s.closeOnEmpty
      /\ t.queue = q
      /\ CanSend(s) => t.wire = Append(s.wire, a) /\ t.lost = s.lost
                       /\ t.used = s.used + TxAvailable(s)
      /\ ~ CanSend(s) => t.lost = s.lost + TxAvailable(s) /\ t.used = s.used
  <2> HIDE DEF r, f, t, a, q, end
  <2>1. /\ Size(a) \in Nat /\ Size(a) <= TxAvailable(r) /\ Size(a) = TxAvailable(s)
        /\ r \in Socket /\ a \in Fragments
    BY <1>3, <1>5, <1>7, <1>8
  <2>2. /\ t \in Socket /\ t.state = r.state /\ t.closeOnEmpty = r.closeOnEmpty
        /\ t.queue = r.queue
        /\ CanSend(r) => t.wire = Append(r.wire, a) /\ t.lost = r.lost
                         /\ t.used = r.used + Size(a)
        /\ ~ CanSend(r) => t.lost = r.lost + Size(a) /\ t.used = r.used
    BY <1>1, <2>1, SendFragmentType
  <2> QED
    BY <1>7, <1>8, <2>1, <2>2
<1>10. ~ CanSend(s) => t.lost > 0
  BY <1>3, <1>9, SocketType
<1>11. Work(t) < Work(s)
  <2> DEFINE L == LargestFrame
             k == Len(s.queue)
  <2>1. Work(s) = (k - 1) * L + Size(f)
    BY DEF Work
  <2>2. (k - 1) * L \in Nat /\ Size(f) \in Nat \ {0}
    <3>1. k - 1 \in Nat /\ L \in Nat /\ Size(f) \in 1 .. L
      BY <1>2, LargestFrameType, FragmentType
    <3> HIDE DEF k, L, f
    <3> QED
      BY <3>1
  <2>3. CASE Sendable(t)
    <3>1. Work(t) = (k - 1) * L + Size(b)
      <4> HIDE DEF b, q, t
      <4> QED
        BY <1>6, <1>9, <2>3 DEF Work
    <3> HIDE DEF k, L, f, b, t
    <3> QED
      BY <1>3, <1>5, <2>1, <2>2, <3>1
  <2>4. CASE ~ Sendable(t)
    <3>1. Work(t) = 0
      BY <2>4 DEF Work
    <3> HIDE DEF k, L, f, b, t
    <3> QED
      BY <2>1, <2>2, <3>1
  <2> QED
    BY <2>3, <2>4
<1> HIDE DEF a, b, q, r, t, end, f
<1>12. QED
  BY <1>4, <1>5, <1>9, <1>10, <1>11 DEF a, b, q, t, end, f

(* A round takes work off the socket.                                       *)
LEMMA SendFrontWorks ==
  ASSUME NEW s \in Socket, Sendable(s)
  PROVE  SendFront(s) \in Socket /\ Work(SendFront(s)) < Work(s)
BY SendWhole, SendPart

(* The work of a socket is at most what DataSend has rounds for, and none   *)
(* is left exactly when nothing can be sent.                                *)
LEMMA WorkType ==
  ASSUME NEW s \in Socket
  PROVE  /\ Work(s) \in Nat
         /\ Work(s) <= Len(s.queue) * LargestFrame
         /\ Len(s.queue) * LargestFrame \in Nat
         /\ Sendable(s) => Work(s) > 0
<1> DEFINE k == Len(s.queue)
           L == LargestFrame
<1>1. k \in Nat /\ L \in Nat
  BY LargestFrameType, SocketType, LenProperties
<1>2. k * L \in Nat
  <2> HIDE DEF k, L
  <2> QED
    BY <1>1
<1>3. CASE Sendable(s)
  <2>1. k >= 1 /\ Head(s.queue) \in Whole
    BY <1>3, SocketType, EmptySeq, HeadTailProperties DEF Sendable
  <2>2. Size(Head(s.queue)) \in 1 .. L
    BY <2>1, FragmentType
  <2>3. Work(s) = (k - 1) * L + Size(Head(s.queue))
    BY <1>3 DEF Work
  <2>4. (k - 1) * L \in Nat /\ (k - 1) * L + L = k * L
    <3> HIDE DEF k, L
    <3> QED
      BY <1>1, <2>1
  <2> HIDE DEF k, L
  <2>5. Work(s) \in Nat /\ Work(s) > 0 /\ Work(s) <= k * L
    BY <1>1, <1>2, <2>2, <2>3, <2>4
  <2> QED
    BY <1>2, <2>5 DEF k, L
<1>4. CASE ~ Sendable(s)
  <2>1. Work(s) = 0
    BY <1>4 DEF Work
  <2> QED
    BY <1>2, <1>4, <2>1
<1> QED
  BY <1>3, <1>4

(* What every round of DataSend keeps holds when it returns, and then the   *)
(* queue is empty or the send buffer full.                                  *)
LEMMA DataSendKeeps ==
  ASSUME NEW V, V \subseteq Socket, NEW s \in V,
         \A v \in V : Sendable(v) => SendFront(v) \in V
  PROVE  DataSend(s) \in V /\ ~ Sendable(DataSend(s))
<1> DEFINE rounds == Len(s.queue) * LargestFrame
           Body(r) == IF r.queue = <<>> \/ TxAvailable(r) <= 0 THEN r ELSE SendFront(r)
           round[i \in 0 .. rounds] ==
             IF i = 0 THEN s
             ELSE CHOOSE t \in {Body(r) : r \in {round[i - 1]}} : TRUE
           F == [v \in V |-> Body(v)]
           W == [i \in 0 .. rounds |-> {v \in V : Work(v) <= rounds - i}]
<1>1. DataSend(s) = round[rounds]
  BY DEF DataSend
<1>2. rounds \in Nat /\ Work(s) <= rounds
  BY WorkType
<1>3. ASSUME NEW v \in V
      PROVE  Body(v) = IF Sendable(v) THEN SendFront(v) ELSE v
  BY SocketType DEF Sendable
<1>4. round = CHOOSE g : g = [i \in 0 .. rounds |-> IF i = 0 THEN s
                 ELSE CHOOSE t \in {Body(r) : r \in {g[i - 1]}} : TRUE]
  OBVIOUS
<1> HIDE DEF round, Body
<1>5. ASSUME NEW e PROVE (CHOOSE t \in {Body(r) : r \in {e}} : TRUE) = Body(e)
  BY Zenon
<1>6. \A v \in V : F[v] = Body(v)
  OBVIOUS
<1>7. /\ s \in W[0]
      /\ \A i \in 0 .. rounds : W[i] \subseteq V
      /\ \A i \in 1 .. rounds : \A x \in W[i - 1] : F[x] \in W[i]
  <2> HIDE DEF rounds, F
  <2>1. s \in W[0]
    BY <1>2
  <2>2. \A i \in 0 .. rounds : W[i] \subseteq V
    OBVIOUS
  <2>3. ASSUME NEW i \in 1 .. rounds, NEW x \in W[i - 1]
        PROVE  F[x] \in W[i]
    <3>1. x \in V /\ x \in Socket /\ Work(x) <= rounds - i + 1
      BY <1>2, <2>3
    <3>2. CASE Sendable(x)
      <4>1. F[x] = SendFront(x) /\ F[x] \in V
        BY <1>3, <1>6, <3>1, <3>2
      <4>2. Work(SendFront(x)) < Work(x) /\ Work(x) \in Nat /\ Work(SendFront(x)) \in Nat
        BY <3>1, <3>2, SendFrontWorks, WorkType
      <4> QED
        BY <1>2, <3>1, <4>1, <4>2
    <3>3. CASE ~ Sendable(x)
      <4>1. F[x] = x /\ Work(x) = 0
        BY <1>3, <1>6, <3>1, <3>3 DEF Work
      <4> QED
        BY <1>2, <3>1, <4>1
    <3> QED
      BY <3>2, <3>3
  <2> QED
    BY <2>1, <2>2, <2>3
<1>8. PICK g : /\ IsRun(g, rounds, s, F)
               /\ \A i \in 0 .. rounds : g[i] \in W[i] /\ g[i] \in V
  <2> HIDE DEF rounds, F, W
  <2>1. rounds \in Nat
    BY <1>2
  <2>2. Invariants(rounds, V, s, F, W)
    BY <1>7 DEF Invariants
  <2> QED
    BY <2>1, <2>2, Loop, Zenon
<1>9. g = [i \in 0 .. rounds |-> IF i = 0 THEN s
             ELSE CHOOSE t \in {Body(r) : r \in {g[i - 1]}} : TRUE]
  <2>1. ASSUME NEW i \in 0 .. rounds, i # 0
        PROVE  F[g[i - 1]] = CHOOSE t \in {Body(r) : r \in {g[i - 1]}} : TRUE
    <3>1. g[i - 1] \in V
      <4>1. i - 1 \in 0 .. rounds
        BY <1>2, <2>1
      <4> QED
        BY ONLY <1>8, <4>1
    <3>2. F[g[i - 1]] = Body(g[i - 1])
      BY <1>6, <3>1
    <3> QED
      BY <1>5, <3>2
  <2> HIDE DEF rounds, F
  <2> QED
    BY <1>8, <2>1 DEF IsRun
<1>10. round = [i \in 0 .. rounds |-> IF i = 0 THEN s
                  ELSE CHOOSE t \in {Body(r) : r \in {round[i - 1]}} : TRUE]
  <2> HIDE DEF rounds
  <2>1. \E h : h = [i \in 0 .. rounds |-> IF i = 0 THEN s
                 ELSE CHOOSE t \in {Body(r) : r \in {h[i - 1]}} : TRUE]
    BY <1>9
  <2> QED
    BY <1>4, <2>1
<1>11. \A i \in 0 .. rounds : round[i] \in W[i]
  <2>1. round[0] = s
    BY <1>2, <1>10
  <2>2. ASSUME NEW i \in 1 .. rounds PROVE round[i] = Body(round[i - 1])
    <3>1. round[i] = CHOOSE t \in {Body(r) : r \in {round[i - 1]}} : TRUE
      <4> HIDE DEF rounds
      <4> QED
        BY <1>2, <1>10
    <3> QED
      BY <1>5, <3>1
  <2>3. \A i \in 1 .. rounds : round[i - 1] \in W[i - 1] => round[i] \in W[i]
    <3> HIDE DEF rounds, W, F
    <3>1. ASSUME NEW i \in 1 .. rounds, round[i - 1] \in W[i - 1]
          PROVE  round[i] \in W[i]
      <4>1. round[i - 1] \in V
        BY <1>2, <1>7, <3>1
      <4>2. round[i] = F[round[i - 1]]
        BY <1>6, <2>2, <4>1
      <4> QED
        BY <1>7, <3>1, <4>2
    <3> QED
      BY <3>1
  <2> HIDE DEF rounds, W
  <2> QED
    BY <1>2, <1>7, <2>1, <2>3, Stays
<1>12. round[rounds] \in V /\ Work(round[rounds]) <= 0
  <2> HIDE DEF rounds
  <2> QED
    BY <1>2, <1>11
<1> QED
  BY <1>1, <1>12, WorkType

(* The stream st is the first n segments, whole and in order.               *)
InOrder(st, n) ==
  /\ (st = <<>>) <=> (n = 0)
  /\ st # <<>> =>
       /\ st[1].seg = 0 /\ st[1].id = 0 /\ st[1].first = 1
       /\ st[Len(st)].last = st[Len(st)].of
       /\ st[Len(st)].id = FramesPerSegment - 1
       /\ st[Len(st)].seg = n - 1
  /\ \A i \in 1 .. Len(st) - 1 : Follows(st[i], st[i + 1])

(* Answers, in terms of the order of the stream.                            *)
LEMMA AnswersInOrder ==
  ASSUME NEW s, NEW n
  PROVE  Answers(s, n) <=> (s.lost = 0 => InOrder(s.wire \o s.queue, n))
BY DEF Answers, InOrder

(* a and b are the parts of the frame f up to its unit end and after it.    *)
PartsOf(f, end, a, b) ==
  /\ a.seg = f.seg /\ a.id = f.id /\ a.of = f.of
  /\ a.first = f.first /\ a.last = end
  /\ b.seg = f.seg /\ b.id = f.id /\ b.of = f.of
  /\ b.first = end + 1 /\ b.last = f.last

(* Cutting the k-th fragment in two.                                        *)
LEMMA SplitKeepsOrder ==
  ASSUME NEW st \in Seq(Fragments), NEW n \in Int, NEW k,
         NEW end \in Nat, end < st[k].last, st[k].last = st[k].of,
         NEW a, NEW b, PartsOf(st[k], end, a, b),
         NEW cut \in Seq(Fragments), Parted(st, cut, k, a, b),
         InOrder(st, n)
  PROVE  InOrder(cut, n)
<1>1. /\ k \in 1 .. Len(st) /\ Len(cut) = Len(st) + 1
      /\ \A i \in 1 .. k - 1 : cut[i] = st[i]
      /\ cut[k] = a /\ cut[k + 1] = b
      /\ \A i \in k + 2 .. Len(cut) : cut[i] = st[i - 1]
  BY DEF Parted
<1>2. Len(st) \in Nat /\ Len(st) >= 1 /\ st # <<>> /\ cut # <<>> /\ n # 0 /\ k \in Nat
  BY <1>1, LenProperties, EmptySeq DEF InOrder
<1>3. cut[1].seg = 0 /\ cut[1].id = 0 /\ cut[1].first = 1
  <2>1. CASE k = 1
    BY <1>1, <1>2, <2>1 DEF InOrder, PartsOf
  <2>2. CASE k # 1
    <3>1. cut[1] = st[1]
      BY <1>1, <1>2, <2>2
    <3> QED
      BY <1>2, <3>1 DEF InOrder
  <2> QED
    BY <2>1, <2>2
<1>4. /\ cut[Len(cut)].last = cut[Len(cut)].of
      /\ cut[Len(cut)].id = FramesPerSegment - 1
      /\ cut[Len(cut)].seg = n - 1
  <2>1. CASE k = Len(st)
    BY <1>1, <1>2, <2>1 DEF InOrder, PartsOf
  <2>2. CASE k # Len(st)
    <3>1. cut[Len(cut)] = st[Len(st)]
      BY <1>1, <1>2, <2>2
    <3> QED
      BY <1>2, <3>1 DEF InOrder
  <2> QED
    BY <2>1, <2>2
<1>5. ASSUME NEW i \in 1 .. Len(cut) - 1
      PROVE  Follows(cut[i], cut[i + 1])
  <2>1. CASE i < k - 1
    <3>1. cut[i] = st[i] /\ cut[i + 1] = st[i + 1] /\ i \in 1 .. Len(st) - 1
      BY <1>1, <1>2, <2>1
    <3> QED
      BY <3>1 DEF InOrder
  <2>2. CASE i = k - 1
    <3>0. i \in 1 .. k - 1 /\ i + 1 = k
      BY <1>1, <1>2, <2>2
    <3>1. cut[i] = st[i] /\ i \in 1 .. Len(st) - 1 /\ i + 1 = k /\ cut[i + 1] = a
      BY ONLY <1>1, <1>2, <3>0
    <3>2. Follows(st[i], st[k])
      BY <3>1 DEF InOrder
    <3> QED
      BY <3>1, <3>2 DEF Follows, PartsOf
  <2>3. CASE i = k
    <3>1. st[k].of \in Int
      <4>1. st[k] \in Fragments
        BY <1>1
      <4> QED
        BY <4>1, FragmentFields
    <3>2. cut[i] = a /\ cut[i + 1] = b /\ a.last < a.of /\ a.last # a.of
      BY <1>1, <2>3, <3>1 DEF PartsOf
    <3> QED
      BY <3>2 DEF Follows, PartsOf
  <2>4. CASE i = k + 1
    <3>1. cut[i + 1] = st[k + 1] /\ k \in 1 .. Len(st) - 1 /\ cut[i] = b
      BY <1>1, <1>2, <2>4, SMTT(20)
    <3>2. Follows(st[k], st[k + 1])
      BY <3>1 DEF InOrder
    <3> QED
      BY <3>1, <3>2 DEF Follows, PartsOf
  <2>5. CASE i > k + 1
    <3>1. i \in k + 2 .. Len(cut) /\ i + 1 \in k + 2 .. Len(cut)
          /\ (i + 1) - 1 = i /\ (i - 1) + 1 = i /\ i - 1 \in 1 .. Len(st) - 1
      BY <1>1, <1>2, <2>5
    <3>2. cut[i] = st[i - 1] /\ cut[i + 1] = st[(i - 1) + 1]
      BY <1>1, <3>1
    <3>3. Follows(st[i - 1], st[(i - 1) + 1])
      BY <3>1 DEF InOrder
    <3> QED
      BY <3>2, <3>3
  <2> QED
    BY <1>1, <1>2, <2>1, <2>2, <2>3, <2>4, <2>5
<1> QED
  BY <1>2, <1>3, <1>4, <1>5 DEF InOrder

(* A round of DataSend leaves the stream of the socket as it is.            *)
LEMMA SendFrontAnswers ==
  ASSUME NEW s \in Socket, Sendable(s), NEW n \in Int, Answers(s, n)
  PROVE  Answers(SendFront(s), n)
<1> DEFINE t == SendFront(s)
           f == Head(s.queue)
           st == s.wire \o s.queue
           cut == t.wire \o t.queue
<1>1. SUFFICES ASSUME CanSend(s), t.lost = 0, s.lost = 0 PROVE InOrder(cut, n)
  <2>1. CASE ~ CanSend(s)
    <3>1. t.lost > 0
      BY <2>1, SendWhole, SendPart
    <3> QED
      BY <3>1, AnswersInOrder
  <2>2. CASE CanSend(s)
    <3>1. t.lost = s.lost
      BY <2>2, SendWhole, SendPart
    <3>2. t.lost = 0 => InOrder(cut, n)
      BY <1>1, <2>2, <3>1
    <3> QED
      BY <3>2, AnswersInOrder
  <2> QED
    BY <2>1, <2>2
<1>2. InOrder(st, n)
  BY <1>1, AnswersInOrder
<1>3. /\ s.wire \in Seq(Fragments) /\ s.queue \in Seq(Fragments)
      /\ f \in Whole /\ s.queue # <<>>
  <2>1. s.queue \in Seq(Fragments)
    BY SocketType, SeqMonotonic DEF Whole
  <2> QED
    BY <2>1, SocketType, HeadTailProperties DEF Sendable
<1>4. CASE ~ (TxAvailable(s) < Size(f))
  <2>1. t.wire = Append(s.wire, f) /\ t.queue = Tail(s.queue)
    BY <1>1, <1>4, SendWhole
  <2>2. cut = st
    BY <1>3, <2>1, MoveHead
  <2> QED
    BY <1>2, <2>2
<1>5. CASE TxAvailable(s) < Size(f)
  <2> DEFINE end == f.first + TxAvailable(s) - 1
             a == [f EXCEPT !.last = end]
             b == [f EXCEPT !.first = end + 1]
             k == Len(s.wire) + 1
  <2>1. /\ end \in Nat /\ f.first <= end /\ end < f.last
        /\ b \in Fragments /\ a \in Fragments
        /\ t.queue = <<b>> \o Tail(s.queue) /\ t.wire = Append(s.wire, a)
    BY <1>1, <1>5, SendPart DEF Whole
  <2>2. f.last = f.of
    BY <1>3, FragmentType
  <2> HIDE DEF a, b, end, f, k
  <2>3. cut = Append(s.wire, a) \o (<<b>> \o Tail(s.queue))
    BY <2>1
  <2> HIDE DEF st, cut
  <2>4. /\ st \in Seq(Fragments) /\ cut \in Seq(Fragments) /\ st[k] = f
        /\ Parted(st, cut, k, a, b)
    <3>1. CutsHead(st, cut, k, s.wire, s.queue, a, b)
      BY <2>3 DEF st, k, CutsHead
    <3> QED
      BY <1>3, <2>1, <3>1, MoveParts DEF f
  <2>5. PartsOf(st[k], end, a, b)
    <3>1. f \in Fragments
      BY <1>3 DEF Whole
    <3> QED
      BY <2>4, <3>1 DEF a, b, PartsOf, Fragments
  <2>6. end < st[k].last /\ st[k].last = st[k].of
    BY <2>1, <2>2, <2>4
  <2> QED
    BY <1>2, <2>1, <2>4, <2>5, <2>6, SplitKeepsOrder
<1> QED
  BY <1>4, <1>5

(* What DataSend leaves of socket s as it was.                              *)
Sending(s) ==
  {v \in Socket :
     /\ v.state = s.state /\ v.closeOnEmpty = s.closeOnEmpty
     /\ CanSend(s) => v.lost = s.lost
     /\ \A n \in Int : Answers(s, n) => Answers(v, n)}

(* DataSend sends until the queue or the room is used up.                   *)
LEMMA DataSendResult ==
  ASSUME NEW s \in Socket
  PROVE  DataSend(s) \in Sending(s) /\ ~ Sendable(DataSend(s))
<1>1. Sending(s) \subseteq Socket /\ s \in Sending(s)
  BY DEF Sending
<1>2. ASSUME NEW v \in Sending(s), Sendable(v)
      PROVE  SendFront(v) \in Sending(s)
  <2>1. /\ v \in Socket /\ v.state = s.state /\ v.closeOnEmpty = s.closeOnEmpty
        /\ CanSend(s) => v.lost = s.lost
        /\ \A n \in Int : Answers(s, n) => Answers(v, n)
    BY <1>2 DEF Sending
  <2>2. CanSend(v) <=> CanSend(s)
    BY <2>1 DEF CanSend
  <2>3. /\ SendFront(v) \in Socket /\ SendFront(v).state = v.state
        /\ SendFront(v).closeOnEmpty = v.closeOnEmpty
        /\ CanSend(v) => SendFront(v).lost = v.lost
    BY <1>2, <2>1, SendWhole, SendPart
  <2>4. \A n \in Int : Answers(v, n) => Answers(SendFront(v), n)
    BY <1>2, <2>1, SendFrontAnswers
  <2> QED
    BY <2>1, <2>2, <2>3, <2>4 DEF Sending
<1> HIDE DEF Sendable
<1> QED
  BY <1>1, <1>2, DataSendKeeps

(* The frames of a segment, whole.                                          *)
LEMMA FramesType ==
  ASSUME NEW seg \in 0 .. MaxSegments, NEW size \in Draws
  PROVE  /\ Frames(seg, size) \in Seq(Whole)
         /\ Len(Frames(seg, size)) = FramesPerSegment
         /\ \A i \in 1 .. FramesPerSegment :
              LET f == Frames(seg, size)[i]
              IN  f.seg = seg /\ f.id = i - 1 /\ f.first = 1 /\ f.last = f.of
<1> DEFINE F(i) == [seg |-> seg, id |-> i - 1, first |-> 1, last |-> size[i - 1],
                    of |-> size[i - 1]]
<1>1. ASSUME NEW i \in 1 .. FramesPerSegment PROVE F(i) \in Whole
  <2>1. i - 1 \in 0 .. FramesPerSegment - 1
    BY ServerAssumption
  <2>2. size[i - 1] \in FrameSizes
    BY <2>1 DEF Draws
  <2>3. size[i - 1] \in Nat /\ 1 <= size[i - 1]
    BY <2>2, FrameSizeType
  <2> QED
    BY <2>1, <2>2, <2>3 DEF Whole, Fragments
<1>2. Frames(seg, size) = [i \in 1 .. FramesPerSegment |-> F(i)]
  BY DEF Frames
<1>3. FramesPerSegment \in Nat
  BY ServerAssumption
<1>4. Frames(seg, size) \in Seq(Whole) /\ Len(Frames(seg, size)) = FramesPerSegment
  <2> HIDE DEF F
  <2> QED
    BY <1>1, <1>2, <1>3
<1>5. ASSUME NEW i \in 1 .. FramesPerSegment
      PROVE  LET f == Frames(seg, size)[i]
             IN  f.seg = seg /\ f.id = i - 1 /\ f.first = 1 /\ f.last = f.of
  <2>1. Frames(seg, size)[i] = F(i)
    BY <1>2
  <2> QED
    BY <2>1
<1> QED
  BY <1>4, <1>5

(* The next segment behind a stream.                                        *)
LEMMA SegmentKeepsOrder ==
  ASSUME NEW st \in Seq(Fragments), NEW n \in 0 .. MaxSegments, NEW size \in Draws,
         InOrder(st, n)
  PROVE  InOrder(st \o Frames(n, size), n + 1)
<1> DEFINE fr == Frames(n, size)
           new == st \o fr
           F == FramesPerSegment
<1>1. /\ fr \in Seq(Fragments) /\ Len(fr) = F
      /\ \A i \in 1 .. F : fr[i].seg = n /\ fr[i].id = i - 1 /\ fr[i].first = 1
                           /\ fr[i].last = fr[i].of
  <2>1. fr \in Seq(Whole)
    BY FramesType
  <2>2. fr \in Seq(Fragments)
    BY <2>1, SeqMonotonic DEF Whole
  <2> QED
    BY <2>2, FramesType
<1>2. F \in Nat /\ F >= 1 /\ n \in Nat /\ Len(st) \in Nat
  BY ServerAssumption, LenProperties
<1> HIDE DEF fr, F
<1>3. /\ new \in Seq(Fragments) /\ Len(new) = Len(st) + F
      /\ \A i \in 1 .. Len(st) + F :
           new[i] = IF i <= Len(st) THEN st[i] ELSE fr[i - Len(st)]
  BY <1>1, ConcatProperties
<1> HIDE DEF new
<1>4. new # <<>>
  BY <1>2, <1>3
<1>5. new[1].seg = 0 /\ new[1].id = 0 /\ new[1].first = 1
  <2>1. CASE st = <<>>
    <3>1. n = 0 /\ new[1] = fr[1]
      BY <1>2, <1>3, <2>1 DEF InOrder
    <3> QED
      BY <1>1, <1>2, <3>1
  <2>2. CASE st # <<>>
    <3>1. new[1] = st[1]
      BY <1>2, <1>3, <2>2, EmptySeq
    <3> QED
      BY <2>2, <3>1 DEF InOrder
  <2> QED
    BY <2>1, <2>2
<1>6. /\ new[Len(new)].last = new[Len(new)].of
      /\ new[Len(new)].id = F - 1
      /\ new[Len(new)].seg = n
  <2>1. new[Len(new)] = fr[F]
    BY <1>2, <1>3
  <2> QED
    BY <1>1, <1>2, <2>1
<1>7. ASSUME NEW i \in 1 .. Len(new) - 1
      PROVE  Follows(new[i], new[i + 1])
  <2>1. CASE i < Len(st)
    <3>1. new[i] = st[i] /\ new[i + 1] = st[i + 1] /\ i \in 1 .. Len(st) - 1
      BY <1>2, <1>3, <2>1
    <3> QED
      BY <3>1 DEF InOrder
  <2>2. CASE i = Len(st)
    <3>1. new[i] = st[i] /\ new[i + 1] = fr[1] /\ i \in 1 .. Len(st) /\ st # <<>>
      BY <1>2, <1>3, <2>2, SMTT(20)
    <3>2. /\ st[i].last = st[i].of /\ st[i].id = F - 1 /\ st[i].seg = n - 1
      BY <2>2, <3>1 DEF InOrder, F
    <3>3. /\ fr[1].seg = n /\ fr[1].id = 0 /\ fr[1].first = 1
      BY <1>1, <1>2
    <3>4. st[i] \in Fragments
      BY <3>1
    <3>5. st[i].last \in Nat /\ ~ (st[i].last < st[i].of)
      BY <3>2, <3>4, FragmentFields
    <3>6. n * F + 0 = (n - 1) * F + (F - 1) + 1
      BY <1>2
    <3> QED
      BY <3>1, <3>2, <3>3, <3>5, <3>6 DEF Follows, F
  <2>3. CASE i > Len(st)
    <3> DEFINE k == i - Len(st)
    <3>1. k \in 1 .. F - 1 /\ k + 1 = (i + 1) - Len(st)
          /\ i \in 1 .. Len(st) + F /\ i + 1 \in 1 .. Len(st) + F
          /\ ~ (i <= Len(st)) /\ ~ (i + 1 <= Len(st))
      BY <1>2, <1>3, <2>3
    <3>2. new[i] = fr[k] /\ new[i + 1] = fr[k + 1]
      BY <1>3, <3>1
    <3> HIDE DEF k
    <3>3. /\ fr[k].seg = n /\ fr[k].id = k - 1 /\ fr[k].last = fr[k].of
          /\ fr[k + 1].seg = n /\ fr[k + 1].id = k /\ fr[k + 1].first = 1
          /\ fr[k] \in Fragments
      BY <1>1, <1>2, <3>1, SMTT(20)
    <3>4. fr[k].last \in Nat /\ ~ (fr[k].last < fr[k].of)
      BY <3>3, FragmentFields
    <3>5. n * F + k = n * F + (k - 1) + 1
      <4>1. n * F \in Nat
        BY <1>2
      <4> QED
        BY <3>1, <4>1
    <3> QED
      BY <3>2, <3>3, <3>4, <3>5 DEF Follows, F
  <2> QED
    BY <1>2, <1>3, <2>1, <2>2, <2>3
<1>8. (new = <<>>) <=> (n + 1 = 0)
  BY <1>2, <1>4
<1>9. n + 1 - 1 = n
  BY <1>2
<1> QED
  BY <1>4, <1>5, <1>6, <1>7, <1>8, <1>9 DEF InOrder, F, new, fr

(* What a request makes of a socket.                                        *)
LEMMA SendSegmentResult ==
  ASSUME NEW s \in Socket, NEW seg \in 0 .. MaxSegments, NEW size \in Draws
  PROVE  LET t == SendSegment(s, seg, size)
         IN  /\ t \in Socket /\ ~ Sendable(t)
             /\ t.state = s.state /\ t.closeOnEmpty = s.closeOnEmpty
             /\ CanSend(s) => t.lost = s.lost
             /\ Answers(s, seg) => Answers(t, seg + 1)
<1> DEFINE fr == Frames(seg, size)
           r == [s EXCEPT !.queue = @ \o fr]
           t == SendSegment(s, seg, size)
<1>1. t = DataSend(r)
  BY DEF SendSegment
<1>2. /\ fr \in Seq(Whole) /\ s.queue \in Seq(Whole)
      /\ s.queue \o fr \in Seq(Whole) /\ s.queue \o fr \in Seq(Fragments)
      /\ s.queue \in Seq(Fragments) /\ fr \in Seq(Fragments)
      /\ s.wire \in Seq(Fragments)
  <2>1. fr \in Seq(Whole) /\ s.queue \in Seq(Whole) /\ s.wire \in Seq(Fragments)
    BY FramesType, SocketType
  <2> HIDE DEF fr
  <2>2. s.queue \o fr \in Seq(Whole)
    BY <2>1, ConcatProperties
  <2> QED
    BY <2>1, <2>2, SeqMonotonic DEF Whole
<1> HIDE DEF fr
<1>3. /\ r \in Socket /\ r.state = s.state /\ r.closeOnEmpty = s.closeOnEmpty
      /\ r.lost = s.lost /\ r.wire = s.wire /\ r.queue = s.queue \o fr
  BY <1>2 DEF Socket, Sockets
<1>4. CanSend(r) <=> CanSend(s)
  BY <1>3 DEF CanSend
<1>5. Answers(s, seg) => Answers(r, seg + 1)
  <2>1. SUFFICES ASSUME s.lost = 0, InOrder(s.wire \o s.queue, seg)
                 PROVE  InOrder(r.wire \o r.queue, seg + 1)
    BY <1>3, AnswersInOrder
  <2>2. s.wire \o s.queue \in Seq(Fragments)
    BY <1>2, ConcatProperties
  <2>3. r.wire \o r.queue = (s.wire \o s.queue) \o fr
    <3> HIDE DEF r
    <3>1. ASSUME NEW w \in Seq(Fragments), NEW q \in Seq(Fragments),
                 NEW f \in Seq(Fragments)
          PROVE  (w \o q) \o f = w \o (q \o f)
      BY ConcatAssociative, SMTT(30)
    <3>2. (s.wire \o s.queue) \o fr = s.wire \o (s.queue \o fr)
      BY <1>2, <3>1, Zenon
    <3> QED
      BY <1>3, <3>2
  <2> QED
    BY <2>1, <2>2, <2>3, SegmentKeepsOrder DEF fr
<1>6. DataSend(r) \in Sending(r) /\ ~ Sendable(DataSend(r))
  BY <1>3, DataSendResult
<1>7. /\ t \in Socket /\ t.state = r.state /\ t.closeOnEmpty = r.closeOnEmpty
      /\ CanSend(r) => t.lost = r.lost
      /\ \A n \in Int : Answers(r, n) => Answers(t, n)
      /\ ~ Sendable(t)
  BY <1>1, <1>6 DEF Sending
<1>8. seg + 1 \in Int
  OBVIOUS
<1> HIDE DEF r, t
<1> QED
  BY <1>3, <1>4, <1>5, <1>7, <1>8 DEF t

(* An invariant of the rounds of HandleRead's loop holds when it ends, and  *)
(* then less than a header is left.                                         *)
Reading == [pending : Seq(ClientUnits), socket : Socket]

(* One round takes one header off and may queue one segment.                *)
LEMMA ReadHeaderResult ==
  ASSUME NEW h \in Reading, NEW size \in Draws, NEW misread \in BOOLEAN,
         Len(h.pending) >= HeaderSize
  PROVE  LET m == Header(h.pending, misread)
             t == ReadHeader(h, size, misread)
         IN  /\ m.seg \in 0 .. MaxSegments
             /\ t = [pending |-> SubSeq(h.pending, HeaderSize + 1, Len(h.pending)),
                     socket |-> IF m.kind = "REQUEST"
                                THEN SendSegment(h.socket, m.seg, size) ELSE h.socket]
             /\ t \in Reading
             /\ Len(t.pending) = Len(h.pending) - HeaderSize
             /\ Len(h.pending) \in Nat
<1> DEFINE m == Header(h.pending, misread)
           p == h.pending
           us == SubSeq(p, 1, HeaderSize)
           rest == SubSeq(p, HeaderSize + 1, Len(p))
           t == ReadHeader(h, size, misread)
<1>1. /\ p \in Seq(ClientUnits) /\ Len(p) \in Nat /\ h.socket \in Socket
      /\ \A i \in 1 .. Len(p) : p[i] \in ClientUnits
  <2>1. p \in Seq(ClientUnits) /\ h.socket \in Socket
    BY DEF Reading
  <2> HIDE DEF p
  <2> QED
    BY <2>1
<1>2. HeaderSize \in Nat /\ HeaderSize >= 1 /\ HeaderSize <= Len(p)
  BY ServerAssumption
<1> HIDE DEF p
<1>3. us \in Seq(ClientUnits) /\ Len(us) = HeaderSize
  BY <1>1, <1>2, SubSeqProperties
<1>4. rest \in Seq(ClientUnits) /\ Len(rest) = Len(p) - HeaderSize
  BY <1>1, <1>2, SubSeqProperties
<1>5. m.seg \in 0 .. MaxSegments
  <2>1. us[1] \in ClientUnits
    BY <1>2, <1>3
  <2>2. us[1].seg \in 0 .. MaxSegments
    BY <2>1 DEF ClientUnits
  <2>3. MaxSegments \in 0 .. MaxSegments
    BY ServerAssumption
  <2>4. CASE IsMessage(us)
    <3>1. m = [kind |-> us[1].kind, seg |-> us[1].seg]
      BY <2>4 DEF Header, p
    <3> HIDE DEF us, m
    <3> QED
      BY <2>2, <3>1
  <2>5. CASE ~ IsMessage(us)
    <3>1. m = [kind |-> IF misread THEN "REQUEST" ELSE "BLANK", seg |-> MaxSegments]
      BY <2>5 DEF Header, p
    <3> QED
      BY <2>3, <3>1
  <2> QED
    BY <2>4, <2>5
<1> HIDE DEF m
<1>6. t = [pending |-> rest,
           socket |-> IF m.kind = "REQUEST" THEN SendSegment(h.socket, m.seg, size)
                      ELSE h.socket]
  <2>1. ~ (Len(h.pending) < HeaderSize)
    BY <1>1, <1>2 DEF p
  <2> QED
    BY <2>1 DEF ReadHeader, m, p
<1>7. SendSegment(h.socket, m.seg, size) \in Socket
  BY <1>1, <1>5, SendSegmentResult
<1>8. t \in Reading
  BY <1>1, <1>4, <1>6, <1>7 DEF Reading
<1>9. Len(t.pending) = Len(p) - HeaderSize
  BY <1>4, <1>6
<1> QED
  BY <1>1, <1>5, <1>6, <1>8, <1>9 DEF m, p

(* What every round of HandleRead keeps holds when it returns, and then     *)
(* less than a header is left.                                              *)
LEMMA HandleReadKeeps ==
  ASSUME NEW s, NEW p \in Seq(ClientUnits), NEW units \in Seq(ClientUnits),
         NEW size \in Draws, NEW misread \in BOOLEAN,
         NEW V, V \subseteq Reading, [pending |-> p \o units, socket |-> s] \in V,
         \A h \in V : Len(h.pending) >= HeaderSize => ReadHeader(h, size, misread) \in V
  PROVE  /\ HandleRead(s, p, units, size, misread) \in V
         /\ Len(HandleRead(s, p, units, size, misread).pending) < HeaderSize
<1> DEFINE all == p \o units
           n == Len(all)
           start == [pending |-> all, socket |-> s]
           Body(g) == ReadHeader(g, size, misread)
           round[i \in 0 .. n] ==
             IF i = 0 THEN start
             ELSE CHOOSE h \in {Body(g) : g \in {round[i - 1]}} : TRUE
           F == [h \in V |-> Body(h)]
           W == [i \in 0 .. n |->
                   {h \in V : Len(h.pending) < HeaderSize \/ Len(h.pending) <= n - i}]
<1>1. HandleRead(s, p, units, size, misread) = round[n]
  BY DEF HandleRead
<1>2. n \in Nat /\ HeaderSize \in Nat /\ HeaderSize >= 1
  BY ConcatProperties, LenProperties, ServerAssumption
<1>3. round = CHOOSE g : g = [i \in 0 .. n |-> IF i = 0 THEN start
                 ELSE CHOOSE h \in {Body(r) : r \in {g[i - 1]}} : TRUE]
  OBVIOUS
<1>4. start \in V /\ start.pending = all
  OBVIOUS
<1> HIDE DEF round, start, all
<1>5. ASSUME NEW h \in V
      PROVE  /\ Len(h.pending) \in Nat
             /\ Body(h) \in V
             /\ ~ (Len(h.pending) < HeaderSize) =>
                  Len(Body(h).pending) = Len(h.pending) - HeaderSize
             /\ Len(h.pending) < HeaderSize => Body(h) = h
  <2>1. h \in Reading /\ h.pending \in Seq(ClientUnits)
    BY DEF Reading
  <2>2. Len(h.pending) \in Nat
    BY <2>1, LenProperties
  <2>3. CASE Len(h.pending) >= HeaderSize
    BY <1>2, <2>1, <2>2, <2>3, ReadHeaderResult
  <2>4. CASE ~ (Len(h.pending) >= HeaderSize)
    <3>1. Len(h.pending) < HeaderSize
      BY <1>2, <2>2, <2>4
    <3> QED
      BY <2>2, <3>1 DEF ReadHeader
  <2> QED
    BY <2>3, <2>4
<1> HIDE DEF Body
<1>6. ASSUME NEW e PROVE (CHOOSE t \in {Body(r) : r \in {e}} : TRUE) = Body(e)
  BY Zenon
<1>7. \A h \in V : F[h] = Body(h)
  OBVIOUS
<1>8. Invariants(n, V, start, F, W)
  <2> HIDE DEF n, F
  <2>1. start \in W[0]
    BY <1>2, <1>4 DEF n
  <2>2. \A i \in 0 .. n : W[i] \subseteq V
    OBVIOUS
  <2>3. ASSUME NEW i \in 1 .. n, NEW h \in W[i - 1]
        PROVE  F[h] \in W[i]
    <3>1. h \in V /\ (Len(h.pending) < HeaderSize \/ Len(h.pending) <= n - i + 1)
      BY <1>2
    <3>2. F[h] = Body(h)
      BY <1>7, <3>1
    <3>3. \/ Len(Body(h).pending) < HeaderSize
          \/ Len(Body(h).pending) <= n - i
      BY <1>2, <1>5, <3>1, SMTT(20)
    <3> QED
      BY <1>2, <1>5, <3>1, <3>2, <3>3
  <2> HIDE DEF W
  <2> QED
    BY <2>1, <2>2, <2>3 DEF Invariants
<1>9. PICK g : /\ IsRun(g, n, start, F)
               /\ \A i \in 0 .. n : g[i] \in W[i] /\ g[i] \in V
  <2> HIDE DEF n, F, W
  <2> QED
    BY <1>2, <1>8, Loop, Zenon
<1>10. g = [i \in 0 .. n |-> IF i = 0 THEN start
              ELSE CHOOSE h \in {Body(r) : r \in {g[i - 1]}} : TRUE]
  <2>1. ASSUME NEW i \in 0 .. n, i # 0
        PROVE  F[g[i - 1]] = CHOOSE h \in {Body(r) : r \in {g[i - 1]}} : TRUE
    <3>1. g[i - 1] \in V
      <4> HIDE DEF n, F, W
      <4> QED
        BY <1>2, <1>9, <2>1
    <3>2. F[g[i - 1]] = Body(g[i - 1])
      BY <1>7, <3>1
    <3> QED
      BY <1>6, <3>2
  <2> HIDE DEF n, F
  <2> QED
    BY <1>9, <2>1 DEF IsRun
<1>11. round = [i \in 0 .. n |-> IF i = 0 THEN start
                  ELSE CHOOSE h \in {Body(r) : r \in {round[i - 1]}} : TRUE]
  <2> HIDE DEF n
  <2>1. \E f : f = [i \in 0 .. n |-> IF i = 0 THEN start
                      ELSE CHOOSE h \in {Body(r) : r \in {f[i - 1]}} : TRUE]
    BY <1>10
  <2> QED
    BY <1>3, <2>1
<1>12. \A i \in 0 .. n : round[i] \in W[i]
  <2> HIDE DEF n, W, F
  <2>1. round[0] \in W[0]
    BY <1>2, <1>8, <1>11 DEF Invariants
  <2>2. ASSUME NEW i \in 1 .. n, round[i - 1] \in W[i - 1]
        PROVE  round[i] \in W[i]
    <3>1. round[i] = CHOOSE h \in {Body(r) : r \in {round[i - 1]}} : TRUE
      BY <1>2, <1>11
    <3>2. round[i - 1] \in V
      BY <1>2, <1>8, <2>2 DEF Invariants
    <3>3. round[i] = F[round[i - 1]]
      BY <1>6, <1>7, <3>1, <3>2
    <3> QED
      BY <1>8, <2>2, <3>3 DEF Invariants
  <2> QED
    BY <1>2, <2>1, <2>2, Stays
<1>13. round[n] \in V /\ Len(round[n].pending) < HeaderSize
  <2>1. round[n] \in V
        /\ (Len(round[n].pending) < HeaderSize \/ Len(round[n].pending) <= n - n)
    <3> HIDE DEF n
    <3> QED
      BY <1>2, <1>12
  <2> QED
    BY <1>2, <1>5, <2>1
<1> QED
  BY <1>1, <1>13

-----------------------------------------------------------------------------
(* The inductive invariant. *)

SocketSound(s) ==
  /\ s \in Socket
  /\ ~ Sendable(s)
  /\ s.state = "NONE" => s.used = 0

ServerSound == TypeOK /\ \A c \in Conns : SocketSound(sock[c])

(* Before StopApplication no socket is being closed, so none refuses a frame.*)
RunningSound ==
  stopped \/ \A c \in Conns :
    sock[c].state # "CLOSING" /\ ~ sock[c].closeOnEmpty /\ sock[c].lost = 0

(* The units us are whole messages.                                         *)
Aligned(us) ==
  \A i \in 1 .. Len(us) :
    /\ 0 <= i - us[i].k /\ i - us[i].k + HeaderSize <= Len(us)
    /\ \A k \in 1 .. HeaderSize : us[i - us[i].k + k] = [us[i] EXCEPT !.k = k]

HasRequest(us) == \E i \in 1 .. Len(us) : us[i].kind = "REQUEST"

(* The units us are what the server has not read of client c, whose a-th    *)
(* request is its last one, and s is the socket it is answered on.          *)
ClientSound(us, s, c, a) ==
  /\ \A i \in 1 .. Len(us) : us[i].conn = c
  /\ Aligned(us)
  /\ \A i, j \in 1 .. Len(us) :
       us[i].kind = "REQUEST" /\ us[j].kind = "REQUEST" =>
         i - us[i].k = j - us[j].k
  /\ \A i \in 1 .. Len(us) : us[i].kind = "REQUEST" => us[i].seg = a - 1
  /\ Answers(s, IF HasRequest(us) THEN a - 1 ELSE a)

Undelivered(c) ==
  IF pending # <<>> /\ pending[1].conn = c THEN pending \o toServer[c]
  ELSE toServer[c]

ClientsSound ==
  Interleaves \/
    /\ Len(pending) < HeaderSize
    /\ \A i \in 1 .. Len(pending) : pending[i].conn = pending[1].conn
    /\ \A c \in Conns : ClientSound(Undelivered(c), sock[c], c, asked[c])

(* The fields of a sound socket.                                            *)
LEMMA SoundSocketType ==
  ASSUME NEW s, SocketSound(s)
  PROVE  /\ s \in Socket /\ s \in Sockets
         /\ s.used \in Nat /\ s.used <= TxCapacity /\ s.unsent \in Nat
         /\ s.unsent <= s.used
         /\ s.state \in {"NONE", "OPEN", "PEER_CLOSED", "CLOSING", "DEAD"}
         /\ s.closeOnEmpty \in BOOLEAN /\ s.lost \in Nat
         /\ s.queue # <<>> => TxAvailable(s) = 0
<1>1. s \in Socket /\ s \in Sockets /\ ~ Sendable(s)
  BY DEF SocketSound, Socket
<1> QED
  BY <1>1, SocketType, ServerAssumption DEF Sendable, TxAvailable

(* A socket nobody has accepted is sound.                                   *)
LEMMA NewSocketSound == SocketSound(NewSocket)
<1>1. <<>> \in Seq(Whole) /\ <<>> \in Seq(Fragments)
  BY EmptySeq
<1>2. 0 \in 0 .. TxCapacity
  BY ServerAssumption
<1>3. NewSocket \in Sockets
  BY <1>1, <1>2 DEF NewSocket, Sockets
<1>4. NewSocket \in Socket
  <2>1. NewSocket.queue = <<>> /\ NewSocket.unsent <= NewSocket.used
    BY DEF NewSocket
  <2> QED
    BY <1>1, <1>3, <2>1 DEF Socket
<1> QED
  BY <1>4 DEF NewSocket, SocketSound, Sendable

(* The steps that do not run DataSend.                                      *)
LEMMA StateChangeSound ==
  ASSUME NEW s, SocketSound(s), NEW st \in {"OPEN", "PEER_CLOSED", "CLOSING", "DEAD"}
  PROVE  SocketSound([s EXCEPT !.state = st])
BY DEF SocketSound, Socket, Sockets, Sendable, TxAvailable

(* A transmission keeps a socket sound.                                     *)
LEMMA TransmitSound ==
  ASSUME NEW s, SocketSound(s), s.state # "DEAD", NEW n \in 1 .. TxCapacity, n <= s.unsent
  PROVE  SocketSound([s EXCEPT !.unsent = @ - n,
                               !.state = IF s.closeOnEmpty /\ n = s.unsent
                                         THEN "CLOSING" ELSE @])
<1> DEFINE st == IF s.closeOnEmpty /\ n = s.unsent THEN "CLOSING" ELSE s.state
           t == [s EXCEPT !.unsent = s.unsent - n, !.state = st]
<1>1. s.unsent - n \in 0 .. TxCapacity /\ s.unsent - n <= s.used
  BY SoundSocketType, ServerAssumption
<1>2. st \in {"NONE", "OPEN", "PEER_CLOSED", "CLOSING", "DEAD"}
  BY SoundSocketType
<1>3. st = "NONE" => s.state = "NONE"
  OBVIOUS
<1> HIDE DEF st
<1>4. /\ t \in Sockets /\ t.used = s.used /\ t.queue = s.queue /\ t.state = st
      /\ t.unsent = s.unsent - n
  BY <1>1, <1>2, SoundSocketType DEF Sockets
<1>5. t \in Socket
  <2> HIDE DEF t
  <2> QED
    BY <1>1, <1>4, SoundSocketType DEF Socket
<1>6. SocketSound(t)
  BY <1>3, <1>4, <1>5 DEF SocketSound, Sendable, TxAvailable
<1> QED
  BY <1>6 DEF st

(* Close keeps a socket sound.                                              *)
LEMMA CloseSocketSound ==
  ASSUME NEW s, SocketSound(s)
  PROVE  SocketSound(CloseSocket(s))
<1>1. CASE s.state \notin {"OPEN", "PEER_CLOSED"}
  BY <1>1 DEF CloseSocket
<1>2. CASE s.state \in {"OPEN", "PEER_CLOSED"} /\ s.unsent > 0
  <2>1. CloseSocket(s) = [s EXCEPT !.closeOnEmpty = TRUE]
    BY <1>2 DEF CloseSocket
  <2> QED
    BY <2>1 DEF SocketSound, Socket, Sockets, Sendable, TxAvailable
<1>3. CASE s.state \in {"OPEN", "PEER_CLOSED"} /\ ~ (s.unsent > 0)
  <2>1. CloseSocket(s) = [s EXCEPT !.state = "CLOSING"]
    BY <1>3 DEF CloseSocket
  <2> QED
    BY <2>1, StateChangeSound
<1> QED
  BY <1>1, <1>2, <1>3

(* An acknowledgement.                                                      *)
LEMMA AcknowledgeResult ==
  ASSUME NEW s, SocketSound(s), NEW n \in 1 .. TxCapacity, n <= s.used - s.unsent
  PROVE  LET t == DataSend([s EXCEPT !.used = @ - n])
         IN  /\ SocketSound(t)
             /\ t.state = s.state /\ t.closeOnEmpty = s.closeOnEmpty
             /\ CanSend(s) => t.lost = s.lost
             /\ \A m \in Int : Answers(s, m) => Answers(t, m)
<1> DEFINE r == [s EXCEPT !.used = s.used - n]
           t == DataSend(r)
<1>1. /\ s.used - n \in 0 .. TxCapacity /\ s.unsent <= s.used - n
      /\ s.used # 0
  BY SoundSocketType, ServerAssumption
<1>2. /\ r \in Socket /\ r.state = s.state /\ r.closeOnEmpty = s.closeOnEmpty
      /\ r.lost = s.lost /\ r.wire = s.wire /\ r.queue = s.queue
  <2>1. s \in Sockets /\ s \in Socket
    BY SoundSocketType
  <2>2. /\ r \in Sockets /\ r.state = s.state /\ r.closeOnEmpty = s.closeOnEmpty
        /\ r.lost = s.lost /\ r.wire = s.wire /\ r.queue = s.queue
        /\ r.used = s.used - n /\ r.unsent = s.unsent
    BY <1>1, <2>1 DEF Sockets
  <2> HIDE DEF r
  <2> QED
    BY <1>1, <2>1, <2>2 DEF Socket
<1>3. s.state # "NONE"
  BY <1>1 DEF SocketSound
<1> HIDE DEF r
<1>4. t \in Sending(r) /\ ~ Sendable(t)
  BY <1>2, DataSendResult
<1> HIDE DEF t
<1>5. /\ t \in Socket /\ t.state = r.state /\ t.closeOnEmpty = r.closeOnEmpty
      /\ CanSend(r) => t.lost = r.lost
      /\ \A m \in Int : Answers(r, m) => Answers(t, m)
  BY <1>4 DEF Sending
<1>6. (CanSend(r) <=> CanSend(s)) /\ \A m \in Int : Answers(s, m) => Answers(r, m)
  BY <1>2 DEF CanSend, Answers
<1> QED
  BY <1>2, <1>3, <1>4, <1>5, <1>6 DEF SocketSound, t, r

(* A delivery, whoever sent the units.                                      *)
LEMMA HandleReadResult ==
  ASSUME NEW s, SocketSound(s), s.state # "NONE",
         NEW p \in Seq(ClientUnits), NEW units \in Seq(ClientUnits),
         NEW size \in Draws, NEW misread \in BOOLEAN
  PROVE  LET h == HandleRead(s, p, units, size, misread)
         IN  /\ h.pending \in Seq(ClientUnits) /\ SocketSound(h.socket)
             /\ h.socket.state = s.state
             /\ h.socket.closeOnEmpty = s.closeOnEmpty
             /\ CanSend(s) => h.socket.lost = s.lost
<1> DEFINE V == {h \in Reading :
                   /\ ~ Sendable(h.socket)
                   /\ h.socket.state = s.state
                   /\ h.socket.closeOnEmpty = s.closeOnEmpty
                   /\ CanSend(s) => h.socket.lost = s.lost}
           h0 == [pending |-> p \o units, socket |-> s]
           hn == HandleRead(s, p, units, size, misread)
<1>1. V \subseteq Reading
  OBVIOUS
<1>2. h0 \in V
  <2>1. p \o units \in Seq(ClientUnits)
    BY ConcatProperties
  <2> QED
    BY <2>1 DEF SocketSound, Reading
<1>3. ASSUME NEW h \in V, Len(h.pending) >= HeaderSize
      PROVE  ReadHeader(h, size, misread) \in V
  <2> DEFINE t == ReadHeader(h, size, misread)
             m == Header(h.pending, misread)
             u == SendSegment(h.socket, m.seg, size)
  <2>1. h \in Reading /\ h.socket \in Socket
    BY DEF Reading
  <2>2. /\ m.seg \in 0 .. MaxSegments /\ t \in Reading
        /\ t.socket = IF m.kind = "REQUEST" THEN u ELSE h.socket
    BY <1>3, <2>1, ReadHeaderResult
  <2> HIDE DEF t, m
  <2>3. /\ ~ Sendable(u) /\ u.state = h.socket.state
        /\ u.closeOnEmpty = h.socket.closeOnEmpty
        /\ CanSend(h.socket) => u.lost = h.socket.lost
    BY <2>1, <2>2, SendSegmentResult
  <2>4. CanSend(s) => CanSend(h.socket)
    BY <1>3 DEF CanSend
  <2> HIDE DEF u
  <2> QED
    BY <1>3, <2>2, <2>3, <2>4 DEF t
<1> HIDE DEF V
<1>4. hn \in V
  BY <1>1, <1>2, <1>3, HandleReadKeeps
<1> QED
  BY <1>4 DEF V, SocketSound, Reading

-----------------------------------------------------------------------------
(* Steps *)

(* Both parts of a stream that is cut are streams.                          *)
LEMMA UnitsType ==
  ASSUME NEW us \in Seq(ClientUnits), NEW n \in 0 .. Len(us)
  PROVE  /\ SubSeq(us, 1, n) \in Seq(ClientUnits)
         /\ SubSeq(us, n + 1, Len(us)) \in Seq(ClientUnits)
<1>1. Len(us) \in Nat /\ \A i \in 1 .. Len(us) : us[i] \in ClientUnits
  BY LenProperties, ElementOfSeq
<1> QED
  BY <1>1, SubSeqProperties

(* What a client sends is a message.                                        *)
LEMMA MessageType ==
  ASSUME TypeOK, NEW c \in Conns, NEW kind \in {"REQUEST", "BLANK"},
         NEW seg \in 0 .. MaxSegments
  PROVE  /\ Message(c, kind, seg) \in Seq(ClientUnits)
         /\ Len(Message(c, kind, seg)) = HeaderSize
         /\ \A k \in 1 .. HeaderSize : Message(c, kind, seg)[k] =
              [conn |-> c, n |-> sent[c] + 1, kind |-> kind, seg |-> seg, k |-> k]
<1> DEFINE F(k) == [conn |-> c, n |-> sent[c] + 1, kind |-> kind, seg |-> seg, k |-> k]
<1>1. sent[c] + 1 \in Nat \ {0}
  BY DEF TypeOK
<1>2. \A k \in 1 .. HeaderSize : F(k) \in ClientUnits
  BY <1>1 DEF ClientUnits
<1>3. Message(c, kind, seg) = [k \in 1 .. HeaderSize |-> F(k)]
  BY DEF Message
<1>4. HeaderSize \in Nat
  BY ServerAssumption
<1>5. Message(c, kind, seg) \in Seq(ClientUnits) /\ Len(Message(c, kind, seg)) = HeaderSize
  <2> HIDE DEF F
  <2> QED
    BY <1>2, <1>3, <1>4
<1> QED
  BY <1>3, <1>5

(* The state after the socket of c became t.                                *)
LEMMA SocketStep ==
  ASSUME ServerSound, NEW c \in Conns, NEW t, SocketSound(t),
         sock' = [sock EXCEPT ![c] = t]
  PROVE  sock' \in [Conns -> Sockets] /\ \A d \in Conns : SocketSound(sock[d])'
<1>1. t \in Sockets /\ sock \in [Conns -> Sockets]
  BY SoundSocketType DEF ServerSound, TypeOK
<1>2. sock' \in [Conns -> Sockets]
  BY <1>1
<1>3. ASSUME NEW d \in Conns PROVE SocketSound(sock'[d])
  BY <1>1 DEF ServerSound
<1> QED
  BY <1>2, <1>3

(* The first two parts of the inductive invariant: initially ...            *)
LEMMA SoundInit == Init => ServerSound /\ RunningSound
<1> SUFFICES ASSUME Init PROVE ServerSound /\ RunningSound
  OBVIOUS
<1>1. \A c \in Conns : sock[c] = NewSocket
  BY DEF Init
<1>2. \A c \in Conns : SocketSound(sock[c])
  BY <1>1, NewSocketSound
<1>3. NewSocket \in Sockets
  BY NewSocketSound, SoundSocketType
<1>4. TypeOK
  <2>1. <<>> \in Seq(ClientUnits)
    BY EmptySeq
  <2>2. 0 \in 0 .. MaxSegments /\ 0 \in 0 .. MaxErrors
    BY ServerAssumption
  <2> QED
    BY <1>3, <2>1, <2>2 DEF Init, TypeOK
<1>5. RunningSound
  BY <1>1 DEF RunningSound, NewSocket
<1> QED
  BY <1>2, <1>4, <1>5 DEF ServerSound

(* ... and in every step.                                                   *)
LEMMA SoundNext == ServerSound /\ RunningSound /\ [Next]_vars => ServerSound' /\ RunningSound'
<1> SUFFICES ASSUME ServerSound, RunningSound, [Next]_vars
             PROVE  ServerSound' /\ RunningSound'
  OBVIOUS
<1>t. TypeOK /\ \A c \in Conns : SocketSound(sock[c])
  BY ONLY ServerSound DEF ServerSound
<1> USE DEF RunningSound
<1>1. ASSUME NEW c \in Conns, Accept(c) PROVE ServerSound' /\ RunningSound'
  <2> DEFINE t == [sock[c] EXCEPT !.state = "OPEN"]
  <2>1. /\ SocketSound(t) /\ t.state = "OPEN" /\ t.lost = sock[c].lost
        /\ t.closeOnEmpty = sock[c].closeOnEmpty
    BY <1>t, StateChangeSound, SoundSocketType, ZenonT(30) DEF Sockets
  <2>2. sock' = [sock EXCEPT ![c] = t]
    BY <1>1, <1>t DEF Accept, TypeOK
  <2> HIDE DEF t
  <2>3. sock' \in [Conns -> Sockets] /\ \A d \in Conns : SocketSound(sock[d])'
    BY <2>1, <2>2, SocketStep
  <2>4. TypeOK'
    BY <1>1, <1>t, <2>3 DEF Accept, TypeOK
  <2>5. RunningSound'
    BY <1>1, <1>t, <2>1, <2>2 DEF Accept, TypeOK
  <2> QED
    BY <2>3, <2>4, <2>5 DEF ServerSound
<1>2. ASSUME NEW c \in Conns, Ask(c) PROVE ServerSound' /\ RunningSound'
  <2>1. Message(c, "REQUEST", asked[c]) \in Seq(ClientUnits)
    BY <1>t, MessageType DEF TypeOK
  <2>2. toServer[c] \o Message(c, "REQUEST", asked[c]) \in Seq(ClientUnits)
    BY <1>t, <2>1, ConcatProperties DEF TypeOK
  <2>3. TypeOK'
    <3>1. asked[c] + 1 \in 0 .. MaxSegments
      BY <1>2, <1>t, ServerAssumption DEF Ask, TypeOK
    <3> QED
      BY <1>2, <1>t, <2>2, <3>1 DEF Ask, TypeOK
  <2> QED
    BY <1>2, <1>t, <2>3 DEF Ask, ServerSound
<1>3. ASSUME NEW c \in Conns, SendBlank(c) PROVE ServerSound' /\ RunningSound'
  <2>1. Message(c, "BLANK", 0) \in Seq(ClientUnits)
    BY <1>t, MessageType, ServerAssumption
  <2>2. toServer[c] \o Message(c, "BLANK", 0) \in Seq(ClientUnits)
    BY <1>t, <2>1, ConcatProperties DEF TypeOK
  <2>3. TypeOK'
    BY <1>3, <1>t, <2>2 DEF SendBlank, TypeOK
  <2> QED
    BY <1>3, <1>t, <2>3 DEF SendBlank, ServerSound
<1>4. ASSUME NEW c \in Conns, ReadSome(c) PROVE ServerSound' /\ RunningSound'
  <2>1. PICK n \in 1 .. Len(toServer[c]) : Read(c, n)
    BY <1>4 DEF ReadSome
  <2> DEFINE head == SubSeq(toServer[c], 1, n)
             rest == SubSeq(toServer[c], n + 1, Len(toServer[c]))
  <2>2. PICK size \in Draws, misread \in BOOLEAN :
          /\ pending' = HandleRead(sock[c], pending, head, size, misread).pending
          /\ sock' = [sock EXCEPT ![c] =
                        HandleRead(sock[c], pending, head, size, misread).socket]
    BY <2>1 DEF Read
  <2>3. head \in Seq(ClientUnits) /\ rest \in Seq(ClientUnits)
    <3>1. toServer[c] \in Seq(ClientUnits)
      BY <1>t DEF TypeOK
    <3>2. n \in 0 .. Len(toServer[c])
      BY <3>1, LenProperties
    <3> QED
      BY <3>1, <3>2, UnitsType
  <2> HIDE DEF head
  <2> DEFINE h == HandleRead(sock[c], pending, head, size, misread)
  <2>4. /\ h.pending \in Seq(ClientUnits) /\ SocketSound(h.socket)
        /\ h.socket.state = sock[c].state
        /\ h.socket.closeOnEmpty = sock[c].closeOnEmpty
        /\ CanSend(sock[c]) => h.socket.lost = sock[c].lost
    <3>1. /\ sock[c].state # "NONE" /\ pending \in Seq(ClientUnits)
          /\ SocketSound(sock[c])
      BY <1>t, <2>1 DEF Read, TypeOK
    <3> QED
      BY <2>3, <3>1, HandleReadResult
  <2>5. pending' = h.pending /\ sock' = [sock EXCEPT ![c] = h.socket]
    BY <2>2
  <2>6. toServer' = [toServer EXCEPT ![c] = rest] /\ UNCHANGED <<sent, asked, errors, stopped>>
    BY <2>1, <1>t DEF Read, TypeOK
  <2> HIDE DEF h, rest
  <2>7. sock' \in [Conns -> Sockets] /\ \A d \in Conns : SocketSound(sock[d])'
    BY <2>4, <2>5, SocketStep
  <2>8. TypeOK'
    BY <1>t, <2>3, <2>4, <2>5, <2>6, <2>7 DEF TypeOK
  <2>9. RunningSound'
    <3>1. sock[c].state # "CLOSING" => CanSend(sock[c])
      BY <1>t, <2>1, SoundSocketType DEF Read, CanSend
    <3> QED
      BY <1>t, <2>4, <2>5, <2>6, <3>1 DEF TypeOK
  <2> QED
    BY <2>7, <2>8, <2>9 DEF ServerSound
<1>5. ASSUME NEW c \in Conns, TransmitSome(c) PROVE ServerSound' /\ RunningSound'
  <2>1. PICK n \in 1 .. TxCapacity : Transmit(c, n)
    BY <1>5 DEF TransmitSome
  <2> DEFINE s == sock[c]
             t == [s EXCEPT !.unsent = @ - n,
                            !.state = IF s.closeOnEmpty /\ n = s.unsent
                                      THEN "CLOSING" ELSE @]
  <2>2. sock' = [sock EXCEPT ![c] = t]
    BY <1>t, <2>1 DEF Transmit, TypeOK
  <2>3. SocketSound(t)
    BY <1>t, <2>1, TransmitSound DEF Transmit
  <2>4. /\ t.closeOnEmpty = s.closeOnEmpty /\ t.lost = s.lost
        /\ ~ s.closeOnEmpty => t.state = s.state
    BY <1>t, SoundSocketType DEF Sockets
  <2> HIDE DEF t
  <2>5. sock' \in [Conns -> Sockets] /\ \A d \in Conns : SocketSound(sock[d])'
    BY <2>2, <2>3, SocketStep
  <2>6. TypeOK'
    BY <1>t, <2>1, <2>5 DEF Transmit, TypeOK
  <2>7. RunningSound'
    BY <1>t, <2>1, <2>2, <2>4 DEF Transmit, TypeOK
  <2> QED
    BY <2>5, <2>6, <2>7 DEF ServerSound
<1>6. ASSUME NEW c \in Conns, AcknowledgeSome(c) PROVE ServerSound' /\ RunningSound'
  <2>1. PICK n \in 1 .. TxCapacity : Acknowledge(c, n)
    BY <1>6 DEF AcknowledgeSome
  <2> DEFINE s == sock[c]
             t == DataSend([s EXCEPT !.used = @ - n])
  <2>2. sock' = [sock EXCEPT ![c] = t]
    BY <2>1 DEF Acknowledge
  <2>3. /\ SocketSound(t) /\ t.closeOnEmpty = s.closeOnEmpty /\ t.state = s.state
        /\ CanSend(s) => t.lost = s.lost
    BY <1>t, <2>1, AcknowledgeResult DEF Acknowledge
  <2> HIDE DEF t
  <2>4. s.state # "CLOSING" => CanSend(s)
    <3>1. s.used # 0 /\ s.state # "DEAD"
      BY <1>t, <2>1, SoundSocketType DEF Acknowledge
    <3> QED
      BY <1>t, <3>1, SoundSocketType DEF CanSend, SocketSound
  <2>5. sock' \in [Conns -> Sockets] /\ \A d \in Conns : SocketSound(sock[d])'
    BY <2>2, <2>3, SocketStep
  <2>6. TypeOK'
    BY <1>t, <2>1, <2>5 DEF Acknowledge, TypeOK
  <2>7. RunningSound'
    BY <1>t, <2>1, <2>2, <2>3, <2>4 DEF Acknowledge, TypeOK
  <2> QED
    BY <2>5, <2>6, <2>7 DEF ServerSound
<1>7. ASSUME NEW c \in Conns, PeerCloses(c) \/ ConnectionLost(c)
      PROVE  ServerSound' /\ RunningSound'
  <2>1. PICK st \in {"PEER_CLOSED", "DEAD"} : sock' = [sock EXCEPT ![c].state = st]
    BY <1>7 DEF PeerCloses, ConnectionLost
  <2> DEFINE t == [sock[c] EXCEPT !.state = st]
  <2>2. sock' = [sock EXCEPT ![c] = t]
    BY <2>1, <1>t DEF TypeOK
  <2>3. /\ SocketSound(t) /\ t.state # "CLOSING" /\ t.lost = sock[c].lost
        /\ t.closeOnEmpty = sock[c].closeOnEmpty
    BY <1>t, StateChangeSound, SoundSocketType DEF Sockets
  <2> HIDE DEF t
  <2>4. sock' \in [Conns -> Sockets] /\ \A d \in Conns : SocketSound(sock[d])'
    BY <2>2, <2>3, SocketStep
  <2>5. TypeOK' /\ stopped' = stopped
    <3>1. errors' \in 0 .. MaxErrors
      BY <1>7, <1>t, ServerAssumption DEF PeerCloses, ConnectionLost, TypeOK
    <3>2. UNCHANGED <<pending, toServer, sent, asked, stopped>>
      BY <1>7 DEF PeerCloses, ConnectionLost
    <3> QED
      BY <1>t, <2>4, <3>1, <3>2 DEF TypeOK
  <2>6. RunningSound'
    BY <1>t, <2>2, <2>3, <2>5 DEF TypeOK
  <2> QED
    BY <2>4, <2>5, <2>6 DEF ServerSound
<1>8. CASE Stop
  <2>1. /\ stopped' = TRUE /\ UNCHANGED <<pending, toServer, sent, asked, errors>>
        /\ sock' = [c \in Conns |-> CloseSocket(sock[c])]
    BY <1>8 DEF Stop
  <2>2. \A c \in Conns : SocketSound(CloseSocket(sock[c]))
    BY <1>t, CloseSocketSound
  <2>3. \A c \in Conns : CloseSocket(sock[c]) \in Sockets
    BY <2>2, SoundSocketType
  <2>4. TypeOK'
    BY <1>t, <2>1, <2>3 DEF TypeOK
  <2> QED
    BY <2>1, <2>2, <2>4 DEF ServerSound
<1>9. CASE UNCHANGED vars
  BY <1>9, <1>t DEF vars, ServerSound, TypeOK
<1> QED
  BY <1>1, <1>2, <1>3, <1>4, <1>5, <1>6, <1>7, <1>8, <1>9 DEF Next

-----------------------------------------------------------------------------
(* Messages in the stream of a client. *)

(* The fields of a unit.                                                    *)
LEMMA UnitType ==
  ASSUME NEW u \in ClientUnits
  PROVE  /\ u.conn \in Conns /\ u.kind \in {"REQUEST", "BLANK"}
         /\ u.seg \in Nat /\ u.seg <= MaxSegments
         /\ u.k \in Nat /\ 1 <= u.k /\ u.k <= HeaderSize
BY ServerAssumption DEF ClientUnits

(* The k-th unit of the message u belongs to.                               *)
Peer(u, k) == [u EXCEPT !.k = k]

(* The fields of another unit of the same message.                          *)
LEMMA PeerType ==
  ASSUME NEW u \in ClientUnits, NEW k \in 1 .. HeaderSize
  PROVE  /\ Peer(u, k).conn = u.conn /\ Peer(u, k).kind = u.kind
         /\ Peer(u, k).seg = u.seg /\ Peer(u, k).n = u.n /\ Peer(u, k).k = k
BY DEF ClientUnits, Peer

(* The first message of an aligned stream.                                  *)
LEMMA FirstMessage ==
  ASSUME NEW us \in Seq(ClientUnits), Aligned(us), us # <<>>
  PROVE  /\ HeaderSize <= Len(us) /\ us[1] \in ClientUnits
         /\ \A k \in 1 .. HeaderSize : us[k] = Peer(us[1], k)
<1>1. 1 \in 1 .. Len(us) /\ us[1] \in ClientUnits
  BY EmptySeq, LenProperties, ElementOfSeq
<1>2. us[1].k \in Nat /\ 1 <= us[1].k /\ Len(us) \in Nat
  BY <1>1, UnitType, LenProperties
<1>3. 0 <= 1 - us[1].k /\ 1 - us[1].k + HeaderSize <= Len(us)
  BY <1>1 DEF Aligned
<1>4. 1 - us[1].k = 0
  BY <1>2, <1>3
<1>5. \A k \in 1 .. HeaderSize : us[0 + k] = Peer(us[1], k)
  BY <1>1, <1>4 DEF Aligned, Peer
<1>6. HeaderSize <= Len(us)
  BY <1>2, <1>3, <1>4, ServerAssumption
<1>7. ASSUME NEW k \in 1 .. HeaderSize PROVE us[k] = Peer(us[1], k)
  <2>1. 0 + k = k
    BY ServerAssumption
  <2> QED
    BY <1>5, <2>1
<1> QED
  BY <1>1, <1>6, <1>7

(* The stream without its first message.                                    *)
LEMMA AlignedRest ==
  ASSUME NEW us \in Seq(ClientUnits), Aligned(us), us # <<>>,
         NEW vs \in Seq(ClientUnits), Len(vs) = Len(us) - HeaderSize,
         \A i \in 1 .. Len(vs) : vs[i] = us[i + HeaderSize]
  PROVE  Aligned(vs)
<1>1. HeaderSize \in Nat /\ HeaderSize >= 1 /\ Len(us) \in Nat /\ Len(vs) \in Nat
  BY ServerAssumption, LenProperties
<1>2. SUFFICES ASSUME NEW i \in 1 .. Len(vs)
               PROVE  /\ 0 <= i - vs[i].k /\ i - vs[i].k + HeaderSize <= Len(vs)
                      /\ \A k \in 1 .. HeaderSize : vs[i - vs[i].k + k] = [vs[i] EXCEPT !.k = k]
  BY DEF Aligned
<1> DEFINE u == us[i + HeaderSize]
           b == (i + HeaderSize) - u.k
<1>3. vs[i] = u /\ i + HeaderSize \in 1 .. Len(us) /\ u \in ClientUnits
  BY <1>1
<1>4. u.k \in Nat /\ 1 <= u.k /\ u.k <= HeaderSize
  BY <1>3, UnitType
<1>5. /\ 0 <= b /\ b + HeaderSize <= Len(us)
      /\ \A k \in 1 .. HeaderSize : us[b + k] = Peer(u, k)
  BY <1>3 DEF Aligned, Peer
<1> HIDE DEF u
<1>6. b \in Nat /\ i - u.k = b - HeaderSize
  BY <1>1, <1>4, <1>5
<1>7. b >= HeaderSize
  <2>1. SUFFICES ASSUME b < HeaderSize PROVE FALSE
    BY <1>1, <1>6
  <2>2. b + 1 \in 1 .. HeaderSize /\ 1 \in 1 .. HeaderSize
    BY <1>1, <1>6, <2>1
  <2> HIDE DEF b
  <2>3. us[b + 1] = Peer(us[1], b + 1) /\ us[1] \in ClientUnits
    BY <2>2, FirstMessage
  <2>4. us[b + 1].k = b + 1
    BY <2>2, <2>3, PeerType
  <2>5. us[b + 1] = Peer(u, 1)
    BY <1>5, <2>2
  <2>6. us[b + 1].k = 1
    BY <1>3, <2>2, <2>5, PeerType
  <2>7. b = 0
    BY <1>6, <2>4, <2>6
  <2> QED
    BY <1>1, <1>2, <1>4, <2>7 DEF b
<1>8. 0 <= i - vs[i].k /\ i - vs[i].k + HeaderSize <= Len(vs)
  BY <1>1, <1>3, <1>4, <1>5, <1>6, <1>7, SMTT(30)
<1>9. ASSUME NEW k \in 1 .. HeaderSize
      PROVE  vs[i - vs[i].k + k] = [vs[i] EXCEPT !.k = k]
  <2> DEFINE j == b - HeaderSize + k
  <2>1. j \in 1 .. Len(vs) /\ j + HeaderSize = b + k
    BY <1>1, <1>5, <1>6, <1>7, SMTT(20)
  <2>2. i - vs[i].k + k = j
    BY <1>1, <1>3, <1>4, <1>6
  <2> HIDE DEF j, b
  <2>3. vs[j] = us[b + k]
    BY <2>1
  <2> QED
    BY <1>3, <1>5, <2>2, <2>3 DEF Peer
<1> QED
  BY <1>8, <1>9

(* The stream with one more message.                                        *)
LEMMA AlignedMore ==
  ASSUME NEW us \in Seq(ClientUnits), Aligned(us),
         NEW msg \in Seq(ClientUnits), Len(msg) = HeaderSize,
         \A k, l \in 1 .. HeaderSize : msg[l].k = l /\ msg[k] = Peer(msg[l], k),
         NEW vs \in Seq(ClientUnits), Len(vs) = Len(us) + HeaderSize,
         \A i \in 1 .. Len(us) : vs[i] = us[i],
         \A k \in 1 .. HeaderSize : vs[Len(us) + k] = msg[k]
  PROVE  Aligned(vs)
<1>1. HeaderSize \in Nat /\ HeaderSize >= 1 /\ Len(us) \in Nat /\ Len(vs) \in Nat
  BY ServerAssumption, LenProperties
<1>2. SUFFICES ASSUME NEW i \in 1 .. Len(vs)
               PROVE  /\ 0 <= i - vs[i].k /\ i - vs[i].k + HeaderSize <= Len(vs)
                      /\ \A k \in 1 .. HeaderSize : vs[i - vs[i].k + k] = Peer(vs[i], k)
  BY DEF Aligned, Peer
<1>3. CASE i <= Len(us)
  <2>1. vs[i] = us[i] /\ i \in 1 .. Len(us) /\ us[i] \in ClientUnits
    BY <1>1, <1>3
  <2>2. us[i].k \in Nat /\ 1 <= us[i].k
    BY <2>1, UnitType
  <2>3. /\ 0 <= i - us[i].k /\ i - us[i].k + HeaderSize <= Len(us)
        /\ \A k \in 1 .. HeaderSize : us[i - us[i].k + k] = Peer(us[i], k)
    BY <2>1 DEF Aligned, Peer
  <2>4. \A k \in 1 .. HeaderSize : i - us[i].k + k \in 1 .. Len(us)
    BY <1>1, <2>1, <2>2, <2>3, SMTT(30)
  <2>5. i - vs[i].k = i - us[i].k /\ i - vs[i].k + HeaderSize <= Len(vs)
    BY <1>1, <2>1, <2>2, <2>3
  <2>6. ASSUME NEW k \in 1 .. HeaderSize
        PROVE  vs[i - vs[i].k + k] = Peer(vs[i], k)
    <3>1. vs[i - us[i].k + k] = us[i - us[i].k + k]
      BY <2>4
    <3> QED
      BY <2>1, <2>3, <2>5, <3>1
  <2> QED
    BY <2>3, <2>5, <2>6
<1>4. CASE i > Len(us)
  <2> DEFINE l == i - Len(us)
  <2>1. l \in 1 .. HeaderSize /\ i = Len(us) + l
    BY <1>1, <1>4
  <2> HIDE DEF l
  <2>2. vs[i] = msg[l] /\ vs[i].k = l
    BY <2>1
  <2>3. i - vs[i].k = Len(us)
    BY <1>1, <2>1, <2>2
  <2>4. \A k \in 1 .. HeaderSize : vs[Len(us) + k] = Peer(vs[i], k)
    BY <2>1, <2>2
  <2>5. 0 <= i - vs[i].k /\ i - vs[i].k + HeaderSize <= Len(vs)
    BY <1>1, <2>3
  <2>6. \A k \in 1 .. HeaderSize : vs[i - vs[i].k + k] = Peer(vs[i], k)
    BY ONLY <2>3, <2>4
  <2> QED
    BY ONLY <2>5, <2>6
<1> QED
  BY <1>1, <1>3, <1>4

(* The units of the n-th message of client c.                               *)
IsMessageOf(msg, c, n, kind, seg) ==
  /\ Len(msg) = HeaderSize
  /\ \A k \in 1 .. HeaderSize :
       msg[k] = [conn |-> c, n |-> n, kind |-> kind, seg |-> seg, k |-> k]

(* A client sends a message: a blank one, or a request with none before it. *)
LEMMA MessageSent ==
  ASSUME NEW us \in Seq(ClientUnits), NEW s, NEW c, NEW a \in Nat, NEW b \in Nat,
         ClientSound(us, s, c, a),
         NEW msg \in Seq(ClientUnits),
         NEW kind, NEW seg, NEW n, IsMessageOf(msg, c, n, kind, seg),
         \/ kind = "BLANK" /\ b = a
         \/ kind = "REQUEST" /\ seg = a /\ b = a + 1 /\ ~ HasRequest(us)
  PROVE  ClientSound(us \o msg, s, c, b)
<1>m. /\ Len(msg) = HeaderSize
      /\ \A k \in 1 .. HeaderSize :
           msg[k] = [conn |-> c, n |-> n, kind |-> kind, seg |-> seg, k |-> k]
  BY DEF IsMessageOf
<1>1. HeaderSize \in Nat /\ HeaderSize >= 1 /\ Len(us) \in Nat
  BY ServerAssumption, LenProperties
<1>2. PICK vs : vs = us \o msg
  OBVIOUS
<1>3. /\ vs \in Seq(ClientUnits) /\ Len(vs) = Len(us) + HeaderSize
      /\ \A i \in 1 .. Len(us) + HeaderSize :
           vs[i] = IF i <= Len(us) THEN us[i] ELSE msg[i - Len(us)]
  BY <1>m, <1>2, ConcatProperties, ZenonT(30)
<1>4. ASSUME NEW i \in 1 .. Len(us) PROVE vs[i] = us[i]
  <2>1. i \in 1 .. Len(us) + HeaderSize /\ i <= Len(us)
    BY <1>1
  <2> QED
    BY ONLY <1>3, <2>1
<1>5. ASSUME NEW k \in 1 .. HeaderSize PROVE vs[Len(us) + k] = msg[k]
  <2>1. Len(us) + k \in 1 .. Len(us) + HeaderSize /\ ~ (Len(us) + k <= Len(us))
        /\ (Len(us) + k) - Len(us) = k
    BY <1>1
  <2> QED
    BY <1>3, <2>1
<1>6. ASSUME NEW i \in 1 .. Len(vs), i > Len(us)
      PROVE  /\ i - Len(us) \in 1 .. HeaderSize
             /\ vs[i].conn = c /\ vs[i].kind = kind /\ vs[i].seg = seg
             /\ vs[i].k = i - Len(us)
  <2>1. i - Len(us) \in 1 .. HeaderSize /\ vs[i] = msg[i - Len(us)]
    BY <1>1, <1>3, <1>6
  <2> QED
    BY <1>m, <2>1
<1>7. /\ \A i \in 1 .. Len(us) : us[i].conn = c
      /\ Aligned(us)
      /\ \A i, j \in 1 .. Len(us) :
           us[i].kind = "REQUEST" /\ us[j].kind = "REQUEST" =>
             i - us[i].k = j - us[j].k
      /\ \A i \in 1 .. Len(us) : us[i].kind = "REQUEST" => us[i].seg = a - 1
      /\ Answers(s, IF HasRequest(us) THEN a - 1 ELSE a)
  BY DEF ClientSound
<1>8. \A i \in 1 .. Len(vs) : i > Len(us) \/ i \in 1 .. Len(us)
  BY <1>1, <1>3
<1>9. \A i \in 1 .. Len(vs) : vs[i].conn = c
  BY <1>4, <1>6, <1>7, <1>8
<1>10. Aligned(vs)
  <2>1. \A k, l \in 1 .. HeaderSize : msg[l].k = l /\ msg[k] = Peer(msg[l], k)
    BY <1>m, SMTT(20) DEF Peer
  <2> QED
    BY <1>m, <1>3, <1>4, <1>5, <1>7, <2>1, AlignedMore, ZenonT(30)
<1>11. CASE kind = "BLANK" /\ b = a
  <2>1. \A i \in 1 .. Len(vs) :
          vs[i].kind = "REQUEST" => i \in 1 .. Len(us) /\ vs[i] = us[i]
    BY <1>4, <1>6, <1>8, <1>11
  <2>2. HasRequest(vs) <=> HasRequest(us)
    <3>1. \A i \in 1 .. Len(us) : i \in 1 .. Len(vs)
      BY <1>1, <1>3
    <3> QED
      BY <1>4, <2>1, <3>1 DEF HasRequest
  <2>3. ClientSound(vs, s, c, b)
    BY <1>7, <1>9, <1>10, <1>11, <2>1, <2>2, SMTT(20) DEF ClientSound
  <2> QED
    BY <1>2, <2>3
<1>12. CASE kind = "REQUEST" /\ seg = a /\ b = a + 1 /\ ~ HasRequest(us)
  <2>1. ASSUME NEW i \in 1 .. Len(vs), vs[i].kind = "REQUEST"
        PROVE  i - vs[i].k = Len(us) /\ vs[i].seg = b - 1
    <3>1. i > Len(us)
      BY <1>4, <1>8, <1>12, <2>1 DEF HasRequest
    <3> QED
      BY <1>1, <1>6, <1>12, <3>1, SMTT(30)
  <2>2. HasRequest(vs)
    <3>1. Len(us) + 1 \in 1 .. Len(vs) /\ Len(us) + 1 > Len(us)
      BY <1>1, <1>3
    <3> QED
      BY <1>6, <1>12, <3>1 DEF HasRequest
  <2>3. b - 1 = a
    BY <1>12
  <2>4. ClientSound(vs, s, c, b)
    BY <1>7, <1>9, <1>10, <1>12, <2>1, <2>2, <2>3 DEF ClientSound
  <2> QED
    BY <1>2, <2>4
<1> QED
  BY <1>11, <1>12

(* The server reads a message of client c.                                  *)
LEMMA MessageRead ==
  ASSUME NEW h \in Reading, NEW size \in Draws, NEW misread \in BOOLEAN,
         Len(h.pending) >= HeaderSize,
         NEW rest \in Seq(ClientUnits), NEW c, NEW a \in Nat,
         ClientSound(h.pending \o rest, h.socket, c, a)
  PROVE  ClientSound(ReadHeader(h, size, misread).pending \o rest,
                     ReadHeader(h, size, misread).socket, c, a)
<1> DEFINE t == ReadHeader(h, size, misread)
<1>1. PICK p \in Seq(ClientUnits) : p = h.pending
  BY DEF Reading
<1>2. PICK us : us = p \o rest
  OBVIOUS
<1>3. PICK q : q = SubSeq(p, HeaderSize + 1, Len(p))
  OBVIOUS
<1>4. PICK vs : vs = q \o rest
  OBVIOUS
<1>5. /\ HeaderSize \in Nat /\ HeaderSize >= 1 /\ Len(p) \in Nat /\ Len(rest) \in Nat
      /\ HeaderSize <= Len(p)
  BY <1>1, ServerAssumption, LenProperties
<1>6. /\ us \in Seq(ClientUnits) /\ Len(us) = Len(p) + Len(rest) /\ us # <<>>
      /\ \A i \in 1 .. Len(p) + Len(rest) :
           us[i] = IF i <= Len(p) THEN p[i] ELSE rest[i - Len(p)]
  BY <1>2, <1>5, ConcatProperties
<1>7. /\ q \in Seq(ClientUnits) /\ Len(q) = Len(p) - HeaderSize
      /\ \A i \in 1 .. Len(q) : q[i] = p[i + HeaderSize]
  <2>1. \A i \in 1 .. Len(p) : p[i] \in ClientUnits
    BY ElementOfSeq
  <2>2. \A i \in HeaderSize + 1 .. Len(p) : p[i] \in ClientUnits
    BY <1>5, <2>1
  <2>3. /\ q \in Seq(ClientUnits) /\ Len(q) = Len(p) - HeaderSize
        /\ \A i \in 1 .. Len(p) - (HeaderSize + 1) + 1 : q[i] = p[(HeaderSize + 1) + i - 1]
    BY <1>3, <1>5, <2>2, SubSeqProperties, SMTT(30)
  <2> QED
    BY <1>5, <2>3
<1>8. /\ vs \in Seq(ClientUnits) /\ Len(vs) = Len(q) + Len(rest)
      /\ \A i \in 1 .. Len(q) + Len(rest) :
           vs[i] = IF i <= Len(q) THEN q[i] ELSE rest[i - Len(q)]
  BY <1>4, <1>7, ConcatProperties
<1>9. Len(vs) = Len(us) - HeaderSize
  BY <1>5, <1>6, <1>7, <1>8
<1>10. ASSUME NEW i \in 1 .. Len(vs)
       PROVE  vs[i] = us[i + HeaderSize] /\ i + HeaderSize \in 1 .. Len(us)
  BY <1>5, <1>6, <1>7, <1>8, SMTT(30)
<1>11. /\ \A i \in 1 .. Len(us) : us[i].conn = c
       /\ Aligned(us)
       /\ \A i, j \in 1 .. Len(us) :
            us[i].kind = "REQUEST" /\ us[j].kind = "REQUEST" =>
              i - us[i].k = j - us[j].k
       /\ \A i \in 1 .. Len(us) : us[i].kind = "REQUEST" => us[i].seg = a - 1
       /\ Answers(h.socket, IF HasRequest(us) THEN a - 1 ELSE a)
  BY <1>1, <1>2, SMTT(30) DEF ClientSound
<1>12. Aligned(vs)
  BY <1>6, <1>8, <1>9, <1>10, <1>11, AlignedRest
<1>13. \A i \in 1 .. Len(vs) : vs[i].conn = c
  BY <1>10, <1>11
<1>14. ASSUME NEW i \in 1 .. Len(vs), NEW j \in 1 .. Len(vs),
              vs[i].kind = "REQUEST", vs[j].kind = "REQUEST"
       PROVE  i - vs[i].k = j - vs[j].k
  <2>1. (i + HeaderSize) - vs[i].k = (j + HeaderSize) - vs[j].k
    BY <1>10, <1>11, <1>14
  <2>2. vs[i].k \in Nat /\ vs[j].k \in Nat
    BY <1>8, ElementOfSeq, UnitType
  <2>3. PICK x \in Nat, y \in Nat : x = vs[i].k /\ y = vs[j].k
    BY <2>2
  <2>4. i \in Nat /\ j \in Nat
    OBVIOUS
  <2>5. (i + HeaderSize) - x = (j + HeaderSize) - y
    BY <2>1, <2>3
  <2>6. i - x = j - y
    BY ONLY <1>5, <2>4, <2>5, x \in Nat, y \in Nat
  <2> QED
    BY <2>3, <2>6
<1>15. \A i \in 1 .. Len(vs) : vs[i].kind = "REQUEST" => vs[i].seg = a - 1
  BY <1>10, <1>11
<1>16. /\ us[1] \in ClientUnits
       /\ \A k \in 1 .. HeaderSize : us[k] = Peer(us[1], k)
  BY <1>6, <1>11, FirstMessage
<1>17. Header(h.pending, misread) = [kind |-> us[1].kind, seg |-> us[1].seg]
  <2> DEFINE hd == SubSeq(p, 1, HeaderSize)
  <2>1. \A k \in 1 .. HeaderSize : hd[k] = us[k]
    BY <1>5, <1>6
  <2>2. 1 \in 1 .. HeaderSize
    BY <1>5
  <2>3. IsMessage(hd)
    <3> HIDE DEF hd
    <3> QED
      BY <1>16, <2>1, <2>2, PeerType DEF IsMessage
  <2> QED
    BY <1>1, <2>1, <2>2, <2>3 DEF Header
<1>18. /\ t.pending = q
       /\ t.socket = IF us[1].kind = "REQUEST"
                     THEN SendSegment(h.socket, us[1].seg, size) ELSE h.socket
  BY <1>1, <1>3, <1>17, ReadHeaderResult
<1>19. Answers(t.socket, IF HasRequest(vs) THEN a - 1 ELSE a)
  <2>1. CASE us[1].kind = "REQUEST"
    <3>1. HasRequest(us) /\ us[1].seg = a - 1 /\ us[1].k = 1 /\ 1 \in 1 .. Len(us)
      <4>1. 1 \in 1 .. Len(us) /\ 1 \in 1 .. HeaderSize
        BY <1>5, <1>6
      <4>2. us[1].k = 1
        BY <1>16, <4>1, PeerType
      <4> QED
        BY <1>11, <2>1, <4>1, <4>2 DEF HasRequest
    <3>2. ~ HasRequest(vs)
      <4>1. SUFFICES ASSUME NEW i \in 1 .. Len(vs), vs[i].kind = "REQUEST"
                     PROVE  FALSE
        BY DEF HasRequest
      <4>2. (i + HeaderSize) - us[i + HeaderSize].k = 1 - us[1].k
        BY <1>10, <1>11, <2>1, <3>1, <4>1
      <4>3. us[i + HeaderSize].k \in Nat /\ us[i + HeaderSize].k <= HeaderSize
        BY <1>6, <1>10, ElementOfSeq, UnitType
      <4> QED
        BY <1>5, <3>1, <4>2, <4>3, SMTT(30)
    <3>3. a - 1 \in 0 .. MaxSegments /\ (a - 1) + 1 = a
      BY <1>16, <3>1, UnitType
    <3>4. h.socket \in Socket /\ Answers(h.socket, a - 1)
      BY <1>11, <3>1 DEF Reading
    <3>5. Answers(SendSegment(h.socket, a - 1, size), (a - 1) + 1)
      BY <3>3, <3>4, SendSegmentResult
    <3> QED
      BY <1>18, <2>1, <3>1, <3>2, <3>3, <3>5
  <2>2. CASE us[1].kind # "REQUEST"
    <3>1. HasRequest(us) <=> HasRequest(vs)
      <4>1. ASSUME NEW i \in 1 .. Len(us), us[i].kind = "REQUEST"
            PROVE  i - HeaderSize \in 1 .. Len(vs) /\ vs[i - HeaderSize].kind = "REQUEST"
        <5>1. ~ (i \in 1 .. HeaderSize)
          BY <1>16, <2>2, <4>1, PeerType
        <5>2. i - HeaderSize \in 1 .. Len(vs) /\ (i - HeaderSize) + HeaderSize = i
          BY <1>5, <1>6, <1>9, <5>1
        <5> QED
          BY <1>10, <4>1, <5>2
      <4> QED
        BY <1>10, <4>1 DEF HasRequest
    <3> QED
      BY <1>11, <1>18, <2>2, <3>1
  <2> QED
    BY <2>1, <2>2
<1>20. ClientSound(vs, t.socket, c, a)
  BY <1>12, <1>13, <1>14, <1>15, <1>19 DEF ClientSound
<1> HIDE DEF t
<1>21. t.pending \o rest = vs
  BY <1>4, <1>18
<1> QED
  BY <1>20, <1>21 DEF t

(* Steps that leave the messages and the streams alone.                     *)
LEMMA StreamsStep ==
  ASSUME TypeOK, ClientsSound, UNCHANGED <<pending, toServer, asked>>,
         \A c \in Conns : \A m \in Int : Answers(sock[c], m) => Answers(sock'[c], m)
  PROVE  ClientsSound'
<1>1. ASSUME NEW c \in Conns, ClientSound(Undelivered(c), sock[c], c, asked[c])
      PROVE  ClientSound(Undelivered(c)', sock'[c], c, asked'[c])
  <2>1. Undelivered(c)' = Undelivered(c) /\ asked'[c] = asked[c]
    BY DEF Undelivered
  <2>2. asked[c] \in Int /\ asked[c] - 1 \in Int
    BY DEF TypeOK
  <2> HIDE DEF Undelivered
  <2>3. Answers(sock'[c], IF HasRequest(Undelivered(c)) THEN asked[c] - 1 ELSE asked[c])
    BY <1>1, <2>2 DEF ClientSound
  <2> QED
    BY <1>1, <2>1, <2>3 DEF ClientSound
<1> QED
  BY <1>1 DEF ClientsSound

(* A socket with the same stream answers the same requests.                 *)
LEMMA SameStream ==
  ASSUME NEW s, NEW t, t.wire = s.wire, t.queue = s.queue, t.lost = s.lost, NEW m
  PROVE  Answers(s, m) => Answers(t, m)
BY DEF Answers

(* What the server has not read of c when c sends a message, and of another *)
(* client.                                                                  *)
LEMMA UndeliveredGrows ==
  ASSUME TypeOK, NEW c \in Conns, NEW msg \in Seq(ClientUnits), NEW d \in Conns,
         pending' = pending, toServer' = [toServer EXCEPT ![c] = @ \o msg]
  PROVE  /\ Undelivered(d) \in Seq(ClientUnits)
         /\ Undelivered(d)' = IF d = c THEN Undelivered(d) \o msg ELSE Undelivered(d)
<1>1. pending \in Seq(ClientUnits) /\ toServer[d] \in Seq(ClientUnits)
  BY DEF TypeOK
<1>2. pending \o toServer[d] \in Seq(ClientUnits)
  BY <1>1, ConcatProperties
<1>3. toServer'[d] = IF d = c THEN toServer[d] \o msg ELSE toServer[d]
  BY DEF TypeOK
<1>4. ASSUME NEW a \in Seq(ClientUnits), NEW b \in Seq(ClientUnits)
      PROVE  (a \o b) \o msg = a \o (b \o msg)
  BY ConcatAssociative, SMTT(30)
<1>5. (pending \o toServer[d]) \o msg = pending \o (toServer[d] \o msg)
  BY <1>1, <1>4, Zenon
<1>6. Undelivered(d)' = IF pending # <<>> /\ pending[1].conn = d
                        THEN pending \o toServer'[d] ELSE toServer'[d]
  BY DEF Undelivered
<1>7. CASE d = c
  <2>1. toServer'[d] = toServer[d] \o msg
    BY <1>3, <1>7
  <2> QED
    BY <1>2, <1>1, <1>5, <1>6, <1>7, <2>1 DEF Undelivered
<1>8. CASE d # c
  BY <1>2, <1>3, <1>6, <1>8 DEF Undelivered
<1> QED
  BY <1>7, <1>8

(* A client that has received what it asked for has nothing undelivered.    *)
LEMMA ReceivedAll ==
  ASSUME TypeOK, ClientsSound, ~ Interleaves, NEW c \in Conns,
         asked[c] = 0 \/ Received(c)
  PROVE  ~ HasRequest(Undelivered(c))
<1>1. ClientSound(Undelivered(c), sock[c], c, asked[c]) /\ Len(pending) < HeaderSize
  BY DEF ClientsSound
<1>2. Undelivered(c) \in Seq(ClientUnits) /\ pending \in Seq(ClientUnits)
      /\ toServer[c] \in Seq(ClientUnits)
  BY ConcatProperties DEF Undelivered, TypeOK
<1>3. CASE asked[c] = 0
  <2>1. SUFFICES ASSUME NEW i \in 1 .. Len(Undelivered(c)),
                        Undelivered(c)[i].kind = "REQUEST"
                 PROVE  FALSE
    BY DEF HasRequest
  <2>2. Undelivered(c)[i].seg = 0 - 1
    BY <1>1, <1>3, <2>1 DEF ClientSound
  <2>3. Undelivered(c)[i].seg \in Nat
    BY <1>2, ElementOfSeq, UnitType
  <2> QED
    BY <2>2, <2>3
<1>4. CASE Received(c)
  <2>1. Undelivered(c) = pending \/ Undelivered(c) = <<>>
    <3>1. toServer[c] = <<>>
      BY <1>4 DEF Received
    <3>2. pending \o <<>> = pending
      BY <1>2, ConcatEmptySeq
    <3> QED
      BY <3>1, <3>2 DEF Undelivered
  <2>2. CASE Undelivered(c) = <<>>
    <3>1. Len(Undelivered(c)) = 0
      BY <2>2
    <3> QED
      BY <3>1 DEF HasRequest
  <2>3. CASE Undelivered(c) = pending /\ pending # <<>>
    <3>1. HeaderSize <= Len(pending)
      BY <1>1, <1>2, <2>3, FirstMessage DEF ClientSound
    <3>2. Len(pending) \in Nat /\ HeaderSize \in Nat
      BY <1>2, LenProperties, ServerAssumption
    <3> QED
      BY <1>1, <3>1, <3>2
  <2> QED
    BY <2>1, <2>2, <2>3
<1> QED
  BY <1>3, <1>4

(* Sending a message keeps every client sound.                              *)
LEMMA SendStep ==
  ASSUME TypeOK, ClientsSound, ~ Interleaves, NEW c \in Conns,
         NEW kind \in {"REQUEST", "BLANK"}, NEW seg \in 0 .. MaxSegments, NEW b \in Nat,
         \/ kind = "BLANK" /\ b = asked[c]
         \/ /\ kind = "REQUEST" /\ seg = asked[c] /\ b = asked[c] + 1
            /\ ~ HasRequest(Undelivered(c)),
         toServer' = [toServer EXCEPT ![c] = @ \o Message(c, kind, seg)],
         asked' = [asked EXCEPT ![c] = b],
         UNCHANGED <<pending, sock>>
  PROVE  ClientsSound'
<1> DEFINE msg == Message(c, kind, seg)
<1>1. msg \in Seq(ClientUnits) /\ IsMessageOf(msg, c, sent[c] + 1, kind, seg)
  BY MessageType DEF IsMessageOf
<1> HIDE DEF msg
<1>2. /\ Len(pending) < HeaderSize
      /\ \A i \in 1 .. Len(pending) : pending[i].conn = pending[1].conn
      /\ \A d \in Conns : ClientSound(Undelivered(d), sock[d], d, asked[d])
  BY DEF ClientsSound
<1>3. ASSUME NEW d \in Conns
      PROVE  ClientSound(Undelivered(d)', sock[d], d, asked'[d])
  <2>1. /\ Undelivered(d) \in Seq(ClientUnits)
        /\ Undelivered(d)' = IF d = c THEN Undelivered(d) \o msg ELSE Undelivered(d)
    BY <1>1, UndeliveredGrows DEF msg
  <2>2. asked'[d] = IF d = c THEN b ELSE asked[d]
    BY DEF TypeOK
  <2>3. CASE d # c
    BY <1>2, <2>1, <2>2, <2>3
  <2>4. CASE d = c
    <3>1. asked[c] \in Nat
      BY DEF TypeOK
    <3>2. Undelivered(c) \in Seq(ClientUnits) /\ ClientSound(Undelivered(c), sock[c], c, asked[c])
      BY <1>2, <2>1, <2>4
    <3> HIDE DEF Undelivered
    <3>3. ClientSound(Undelivered(c) \o msg, sock[c], c, b)
      BY <1>1, <3>1, <3>2, MessageSent
    <3> QED
      BY <2>1, <2>2, <2>4, <3>3
  <2> QED
    BY <2>3, <2>4
<1> QED
  BY <1>2, <1>3 DEF ClientsSound

(* What HandleRead leaves of a delivery of n units of client c.             *)
LEMMA ReadResult ==
  ASSUME NEW s, SocketSound(s), s.state # "NONE",
         NEW p \in Seq(ClientUnits), NEW units \in Seq(ClientUnits),
         NEW rest \in Seq(ClientUnits), NEW c, NEW a \in Nat,
         ClientSound((p \o units) \o rest, s, c, a),
         NEW size \in Draws, NEW misread \in BOOLEAN
  PROVE  LET h == HandleRead(s, p, units, size, misread)
         IN  /\ h.pending \in Seq(ClientUnits) /\ Len(h.pending) < HeaderSize
             /\ ClientSound(h.pending \o rest, h.socket, c, a)
<1> DEFINE V == {h \in Reading : ClientSound(h.pending \o rest, h.socket, c, a)}
           h0 == [pending |-> p \o units, socket |-> s]
<1>1. V \subseteq Reading
  OBVIOUS
<1>2. h0 \in V
  <2>1. p \o units \in Seq(ClientUnits)
    BY ConcatProperties
  <2> QED
    BY <2>1 DEF SocketSound, Reading
<1>3. ASSUME NEW h \in V, Len(h.pending) >= HeaderSize
      PROVE  ReadHeader(h, size, misread) \in V
  <2>1. h \in Reading /\ ClientSound(h.pending \o rest, h.socket, c, a)
    OBVIOUS
  <2>2. ReadHeader(h, size, misread) \in Reading
    BY <1>3, <2>1, ReadHeaderResult
  <2>3. ClientSound(ReadHeader(h, size, misread).pending \o rest,
                    ReadHeader(h, size, misread).socket, c, a)
    BY <1>3, <2>1, MessageRead
  <2> QED
    BY <2>2, <2>3
<1> HIDE DEF V
<1>4. /\ HandleRead(s, p, units, size, misread) \in V
      /\ Len(HandleRead(s, p, units, size, misread).pending) < HeaderSize
  BY <1>1, <1>2, <1>3, HandleReadKeeps
<1> QED
  BY <1>4 DEF V, Reading


(* Units in front of a stream belong to the client the stream belongs to.   *)
LEMMA FrontUnits ==
  ASSUME NEW p \in Seq(ClientUnits), NEW rest \in Seq(ClientUnits),
         NEW s, NEW c, NEW a, ClientSound(p \o rest, s, c, a)
  PROVE  \A i \in 1 .. Len(p) : p[i].conn = c
<1>1. \A i \in 1 .. Len(p \o rest) : (p \o rest)[i].conn = c
  BY DEF ClientSound
<1>2. /\ Len(p \o rest) = Len(p) + Len(rest) /\ Len(p) \in Nat /\ Len(rest) \in Nat
      /\ \A i \in 1 .. Len(p) + Len(rest) :
           (p \o rest)[i] = IF i <= Len(p) THEN p[i] ELSE rest[i - Len(p)]
  BY ConcatProperties, LenProperties
<1> QED
  BY <1>1, <1>2

(* The units before and behind a cut, put together again.                   *)
LEMMA CutAndJoin ==
  ASSUME NEW us \in Seq(ClientUnits), NEW n \in 0 .. Len(us), NEW p \in Seq(ClientUnits)
  PROVE  (p \o SubSeq(us, 1, n)) \o SubSeq(us, n + 1, Len(us)) = p \o us
<1>1. PICK x \in Seq(ClientUnits), y \in Seq(ClientUnits) :
        x = SubSeq(us, 1, n) /\ y = SubSeq(us, n + 1, Len(us))
  BY UnitsType
<1>2. (p \o x) \o y = p \o (x \o y)
  BY ConcatAssociative, SMTT(30)
<1>3. PICK z \in Seq(ClientUnits) : z = x \o y
  BY ConcatProperties
<1>4. /\ Len(us) \in Nat /\ Len(x) = n /\ Len(y) = Len(us) - n
      /\ \A i \in 1 .. n : x[i] = us[i]
      /\ \A i \in 1 .. Len(us) - n : y[i] = us[n + 1 + i - 1]
  BY <1>1, LenProperties, ElementOfSeq, SubSeqProperties
<1>5. /\ Len(z) = Len(x) + Len(y)
      /\ \A i \in 1 .. Len(x) + Len(y) : z[i] = IF i <= Len(x) THEN x[i] ELSE y[i - Len(x)]
  BY <1>3, ConcatProperties
<1>6. Len(z) = Len(us)
  BY <1>4, <1>5
<1>7. ASSUME NEW i \in 1 .. Len(us) PROVE z[i] = us[i]
  <2>1. CASE i <= n
    BY <1>4, <1>5, <2>1
  <2>2. CASE i > n
    <3>1. i - n \in 1 .. Len(us) - n /\ n + 1 + (i - n) - 1 = i
      BY <1>4, <2>2
    <3> QED
      BY <1>4, <1>5, <2>2, <3>1
  <2> QED
    BY <1>4, <2>1, <2>2
<1>8. z = us
  BY <1>3, <1>6, <1>7, SeqEqual
<1> QED
  BY <1>1, <1>2, <1>3, <1>8

(* What the server has not read of c, when what it holds is c's.            *)
LEMMA UndeliveredOwn ==
  ASSUME NEW c \in Conns, pending \in Seq(ClientUnits), toServer[c] \in Seq(ClientUnits),
         \A i \in 1 .. Len(pending) : pending[i].conn = c
  PROVE  /\ Undelivered(c) = pending \o toServer[c]
         /\ \A d \in Conns : d # c => Undelivered(d) = toServer[d]
<1>1. pending # <<>> => pending[1].conn = c
  <2>1. pending # <<>> => 1 \in 1 .. Len(pending)
    BY EmptySeq, LenProperties
  <2> QED
    BY <2>1
<1>2. pending = <<>> => pending \o toServer[c] = toServer[c]
  BY ConcatEmptySeq
<1> QED
  BY <1>1, <1>2 DEF Undelivered


(* Units of the other clients wait behind those of c.                       *)
LEMMA OnlyOwnPending ==
  ASSUME TypeOK, NEW c \in Conns, PendingOf(Conns \ {c}) = {}
  PROVE  \A i \in 1 .. Len(pending) : pending[i].conn = c
<1>1. SUFFICES ASSUME NEW i \in 1 .. Len(pending), pending[i].conn # c PROVE FALSE
  OBVIOUS
<1>2. pending \in Seq(ClientUnits)
  BY DEF TypeOK
<1>3. pending[i] \in ClientUnits /\ i \in DOMAIN pending
  BY <1>2, ElementOfSeq, LenProperties
<1>4. pending[i].conn \in Conns
  BY <1>3, UnitType
<1>5. i \in PendingOf(Conns \ {c})
  BY <1>1, <1>3, <1>4 DEF PendingOf
<1> QED
  BY <1>5

(* A delivery keeps every client sound.                                     *)
LEMMA ReadStep ==
  ASSUME ServerSound, ClientsSound, ~ Interleaves, NEW c \in Conns,
         NEW n \in 1 .. Len(toServer[c]), Read(c, n)
  PROVE  ClientsSound'
<1> DEFINE head == SubSeq(toServer[c], 1, n)
           rest == SubSeq(toServer[c], n + 1, Len(toServer[c]))
<1>t. TypeOK /\ \A d \in Conns : SocketSound(sock[d])
  BY DEF ServerSound
<1>1. PICK size \in Draws, misread \in BOOLEAN :
        /\ pending' = HandleRead(sock[c], pending, head, size, misread).pending
        /\ sock' = [sock EXCEPT ![c] =
                      HandleRead(sock[c], pending, head, size, misread).socket]
  BY DEF Read
<1>2. /\ toServer[c] \in Seq(ClientUnits) /\ pending \in Seq(ClientUnits)
      /\ n \in 0 .. Len(toServer[c])
  BY <1>t, LenProperties DEF TypeOK
<1>3. head \in Seq(ClientUnits) /\ rest \in Seq(ClientUnits)
  BY <1>2, UnitsType
<1>4. toServer' = [toServer EXCEPT ![c] = rest] /\ asked' = asked
  BY <1>t DEF Read, TypeOK
<1>5. \A i \in 1 .. Len(pending) : pending[i].conn = c
  BY <1>t, OnlyOwnPending DEF Read
<1>6. /\ Undelivered(c) = pending \o toServer[c]
      /\ \A d \in Conns : d # c => Undelivered(d) = toServer[d]
  BY <1>2, <1>5, UndeliveredOwn
<1>7. (pending \o head) \o rest = pending \o toServer[c]
  BY <1>2, CutAndJoin
<1> HIDE DEF head, rest
<1>8. \A d \in Conns : ClientSound(Undelivered(d), sock[d], d, asked[d])
  BY DEF ClientsSound
<1>9. ClientSound((pending \o head) \o rest, sock[c], c, asked[c])
  BY <1>6, <1>7, <1>8
<1> DEFINE h == HandleRead(sock[c], pending, head, size, misread)
<1>10. /\ h.pending \in Seq(ClientUnits) /\ Len(h.pending) < HeaderSize
       /\ ClientSound(h.pending \o rest, h.socket, c, asked[c])
  <2>1. SocketSound(sock[c]) /\ sock[c].state # "NONE" /\ asked[c] \in Nat
    BY <1>t DEF Read, TypeOK
  <2> QED
    BY <1>2, <1>3, <1>9, <2>1, ReadResult
<1>11. pending' = h.pending /\ sock' = [sock EXCEPT ![c] = h.socket]
  BY <1>1
<1> HIDE DEF h
<1>12. \A i \in 1 .. Len(h.pending) : h.pending[i].conn = c
  <2>1. PICK p \in Seq(ClientUnits) : p = h.pending
    BY <1>10
  <2>2. ClientSound(p \o rest, h.socket, c, asked[c])
    BY <1>10, <2>1
  <2>3. \A i \in 1 .. Len(p) : p[i].conn = c
    BY <1>3, <2>2, FrontUnits
  <2> QED
    BY <2>1, <2>3
<1>13. /\ toServer'[c] = rest /\ sock'[c] = h.socket
       /\ \A d \in Conns : d # c => toServer'[d] = toServer[d] /\ sock'[d] = sock[d]
  BY <1>t, <1>4, <1>11 DEF TypeOK
<1>14. /\ Undelivered(c)' = pending' \o toServer'[c]
       /\ \A d \in Conns : d # c => Undelivered(d)' = toServer'[d]
  <2>1. pending' \in Seq(ClientUnits) /\ toServer'[c] \in Seq(ClientUnits)
    BY <1>3, <1>10, <1>11, <1>13
  <2>2. \A i \in 1 .. Len(pending') : pending'[i].conn = c
    BY <1>11, <1>12
  <2>3. pending' # <<>> => pending'[1].conn = c
    <3>1. pending' # <<>> => 1 \in 1 .. Len(pending')
      BY <2>1, EmptySeq, LenProperties
    <3> QED
      BY <2>2, <3>1
  <2>4. pending' = <<>> => pending' \o toServer'[c] = toServer'[c]
    BY <2>1, ConcatEmptySeq
  <2> QED
    BY <2>3, <2>4 DEF Undelivered
<1>15. ASSUME NEW d \in Conns
       PROVE  ClientSound(Undelivered(d)', sock'[d], d, asked'[d])
  <2>1. CASE d = c
    BY <1>4, <1>10, <1>11, <1>13, <1>14, <2>1
  <2>2. CASE d # c
    BY <1>4, <1>6, <1>8, <1>13, <1>14, <2>2
  <2> QED
    BY <2>1, <2>2
<1>16. \A i \in 1 .. Len(pending') : pending'[i].conn = pending'[1].conn
  <2>1. ASSUME NEW i \in 1 .. Len(pending')
        PROVE  1 \in 1 .. Len(pending')
    <3>1. Len(pending') \in Nat
      BY <1>10, <1>11, LenProperties
    <3> QED
      BY <3>1
  <2> QED
    BY <1>11, <1>12, <2>1
<1> QED
  BY <1>10, <1>11, <1>15, <1>16 DEF ClientsSound

(* The third part of the inductive invariant: initially ...                 *)
LEMMA ClientsInit == Init => ClientsSound
<1> SUFFICES ASSUME Init PROVE ClientsSound
  OBVIOUS
<1>1. pending = <<>> /\ Len(pending) = 0 /\ 0 < HeaderSize
  BY ServerAssumption DEF Init
<1>2. ASSUME NEW c \in Conns
      PROVE  ClientSound(Undelivered(c), sock[c], c, asked[c])
  <2>1. Undelivered(c) = <<>> /\ sock[c] = NewSocket /\ asked[c] = 0
    BY DEF Init, Undelivered
  <2>2. Answers(NewSocket, 0)
    <3>1. NewSocket.wire \o NewSocket.queue = <<>> /\ Len(<<>>) = 0
      BY DEF NewSocket
    <3> QED
      BY <3>1 DEF Answers
  <2>3. ~ HasRequest(<<>>)
    BY DEF HasRequest
  <2> QED
    BY <2>1, <2>2, <2>3 DEF ClientSound, Aligned
<1> QED
  BY <1>1, <1>2 DEF ClientsSound


(* ... and in every step.                                                   *)
LEMMA ClientsNext == ServerSound /\ ClientsSound /\ [Next]_vars => ClientsSound'
<1> SUFFICES ASSUME ServerSound, ClientsSound, [Next]_vars, ~ Interleaves
             PROVE  ClientsSound'
  BY DEF ClientsSound
<1>t. TypeOK /\ \A c \in Conns : SocketSound(sock[c])
  BY DEF ServerSound
<1>1. ASSUME NEW c \in Conns, Ask(c) PROVE ClientsSound'
  <2>1. asked[c] \in 0 .. MaxSegments /\ asked[c] + 1 \in Nat
    BY <1>t DEF TypeOK
  <2>2. ~ HasRequest(Undelivered(c))
    BY <1>t, <1>1, ReceivedAll DEF Ask
  <2>3. /\ toServer' = [toServer EXCEPT ![c] = @ \o Message(c, "REQUEST", asked[c])]
        /\ asked' = [asked EXCEPT ![c] = asked[c] + 1]
        /\ UNCHANGED <<pending, sock>>
    BY <1>1, <1>t DEF Ask, TypeOK
  <2> HIDE DEF HasRequest, Undelivered, Message
  <2> QED
    BY <1>t, <2>1, <2>2, <2>3, SendStep
<1>2. ASSUME NEW c \in Conns, SendBlank(c) PROVE ClientsSound'
  <2>1. 0 \in 0 .. MaxSegments /\ asked[c] \in Nat
    BY <1>t, ServerAssumption DEF TypeOK
  <2>2. /\ toServer' = [toServer EXCEPT ![c] = @ \o Message(c, "BLANK", 0)]
        /\ asked' = [asked EXCEPT ![c] = asked[c]]
        /\ UNCHANGED <<pending, sock>>
    BY <1>2, <1>t DEF SendBlank, TypeOK
  <2> HIDE DEF HasRequest, Undelivered, Message
  <2> QED
    BY <1>t, <2>1, <2>2, SendStep
<1>3. ASSUME NEW c \in Conns, ReadSome(c) PROVE ClientsSound'
  <2>1. PICK n \in 1 .. Len(toServer[c]) : Read(c, n)
    BY <1>3 DEF ReadSome
  <2> QED
    BY <2>1, ReadStep
<1>4. ASSUME NEW c \in Conns, AcknowledgeSome(c) PROVE ClientsSound'
  <2>1. PICK n \in 1 .. TxCapacity : Acknowledge(c, n)
    BY <1>4 DEF AcknowledgeSome
  <2> DEFINE t == DataSend([sock[c] EXCEPT !.used = @ - n])
  <2>2. sock' = [sock EXCEPT ![c] = t] /\ UNCHANGED <<pending, toServer, asked>>
    BY <2>1 DEF Acknowledge
  <2>3. \A m \in Int : Answers(sock[c], m) => Answers(t, m)
    BY <1>t, <2>1, AcknowledgeResult DEF Acknowledge
  <2> HIDE DEF t
  <2>4. \A d \in Conns : sock'[d] = IF d = c THEN t ELSE sock[d]
    BY <1>t, <2>2 DEF TypeOK
  <2>5. \A d \in Conns : \A m \in Int : Answers(sock[d], m) => Answers(sock'[d], m)
    BY <2>3, <2>4
  <2> QED
    BY <1>t, <2>2, <2>5, StreamsStep
<1>5. ASSUME UNCHANGED <<pending, toServer, asked>>,
             \A c \in Conns : /\ sock'[c].wire = sock[c].wire
                              /\ sock'[c].queue = sock[c].queue
                              /\ sock'[c].lost = sock[c].lost
      PROVE  ClientsSound'
  <2>1. \A c \in Conns : \A m \in Int : Answers(sock[c], m) => Answers(sock'[c], m)
    BY <1>5, SameStream
  <2> QED
    BY <1>t, <1>5, <2>1, StreamsStep
<1>6. ASSUME NEW c \in Conns,
             Accept(c) \/ TransmitSome(c) \/ PeerCloses(c) \/ ConnectionLost(c)
      PROVE  ClientsSound'
  <2>1. UNCHANGED <<pending, toServer, asked>>
    BY <1>6 DEF Accept, TransmitSome, Transmit, PeerCloses, ConnectionLost
  <2>2. PICK t : /\ sock' = [sock EXCEPT ![c] = t]
                 /\ t.wire = sock[c].wire /\ t.queue = sock[c].queue
                 /\ t.lost = sock[c].lost
    <3>s. sock \in [Conns -> Sockets] /\ sock[c] \in Sockets
      BY <1>t DEF TypeOK
    <3>1. CASE Accept(c) \/ PeerCloses(c) \/ ConnectionLost(c)
      <4>1. PICK st : sock' = [sock EXCEPT ![c].state = st]
        BY <3>1 DEF Accept, PeerCloses, ConnectionLost
      <4> DEFINE t == [sock[c] EXCEPT !.state = st]
      <4>2. sock' = [sock EXCEPT ![c] = t]
        BY <3>s, <4>1
      <4>3. t.wire = sock[c].wire /\ t.queue = sock[c].queue /\ t.lost = sock[c].lost
        BY <3>s DEF Sockets
      <4> HIDE DEF t
      <4> QED
        BY <4>2, <4>3
    <3>2. CASE TransmitSome(c)
      <4>1. PICK n \in 1 .. TxCapacity : Transmit(c, n)
        BY <3>2 DEF TransmitSome
      <4> DEFINE t == [sock[c] EXCEPT !.unsent = @ - n,
                                      !.state = IF sock[c].closeOnEmpty /\ n = sock[c].unsent
                                                THEN "CLOSING" ELSE @]
      <4>2. sock' = [sock EXCEPT ![c] = t]
        BY <3>s, <4>1 DEF Transmit
      <4>3. t.wire = sock[c].wire /\ t.queue = sock[c].queue /\ t.lost = sock[c].lost
        BY <3>s DEF Sockets
      <4> HIDE DEF t
      <4> QED
        BY <4>2, <4>3
    <3> QED
      BY <1>6, <3>1, <3>2
  <2>3. \A d \in Conns : sock'[d] = IF d = c THEN t ELSE sock[d]
    BY <1>t, <2>2 DEF TypeOK
  <2> QED
    BY <1>5, <2>1, <2>2, <2>3
<1>7. CASE Stop
  <2>1. /\ UNCHANGED <<pending, toServer, asked>>
        /\ sock' = [c \in Conns |-> CloseSocket(sock[c])]
    BY <1>7 DEF Stop
  <2>2. ASSUME NEW s \in Sockets
        PROVE  /\ CloseSocket(s).wire = s.wire /\ CloseSocket(s).queue = s.queue
               /\ CloseSocket(s).lost = s.lost
    BY DEF CloseSocket, Sockets
  <2> QED
    BY <1>t, <1>5, <2>1, <2>2 DEF TypeOK
<1>8. CASE UNCHANGED vars
  BY <1>5, <1>8 DEF vars
<1> QED
  BY <1>1, <1>2, <1>3, <1>4, <1>6, <1>7, <1>8 DEF Next

(* What AnswersItsClient counts.                                            *)
LEMMA UnreadRequests ==
  ASSUME TypeOK, ClientsSound, ~ Interleaves, NEW c \in Conns
  PROVE  Unread(c) = IF HasRequest(Undelivered(c)) THEN 1 ELSE 0
<1> DEFINE N == UnreadIn(pending, c) \union UnreadIn(toServer[c], c)
           us == Undelivered(c)
<1>1. us \in Seq(ClientUnits) /\ pending \in Seq(ClientUnits) /\ toServer[c] \in Seq(ClientUnits)
  BY ConcatProperties DEF Undelivered, TypeOK
<1>2. ClientSound(us, sock[c], c, asked[c])
  BY DEF ClientsSound
<1>3. N = {us[i].n : i \in {j \in 1 .. Len(us) : us[j].kind = "REQUEST"}}
  <2>1. CASE pending # <<>> /\ pending[1].conn = c
    <3>1. us = pending \o toServer[c]
      BY <2>1 DEF Undelivered
    <3>2. /\ Len(us) = Len(pending) + Len(toServer[c])
          /\ \A i \in 1 .. Len(pending) + Len(toServer[c]) :
               us[i] = IF i <= Len(pending) THEN pending[i] ELSE toServer[c][i - Len(pending)]
          /\ Len(pending) \in Nat /\ Len(toServer[c]) \in Nat
      BY <1>1, <3>1, ConcatProperties, LenProperties
    <3>3. \A i \in 1 .. Len(us) : us[i].conn = c
      BY <1>2 DEF ClientSound
    <3> HIDE DEF us
    <3>4. ASSUME NEW i \in 1 .. Len(pending)
          PROVE  i \in 1 .. Len(us) /\ us[i] = pending[i]
      BY <3>2
    <3>5. ASSUME NEW i \in 1 .. Len(toServer[c])
          PROVE  i + Len(pending) \in 1 .. Len(us) /\ us[i + Len(pending)] = toServer[c][i]
      <4>1. /\ i + Len(pending) \in 1 .. Len(pending) + Len(toServer[c])
            /\ ~ (i + Len(pending) <= Len(pending)) /\ (i + Len(pending)) - Len(pending) = i
        BY <3>2
      <4> QED
        BY <3>2, <4>1
    <3>6. ASSUME NEW i \in 1 .. Len(us)
          PROVE  \/ i \in 1 .. Len(pending) /\ us[i] = pending[i]
                 \/ \E j \in 1 .. Len(toServer[c]) : us[i] = toServer[c][j]
      <4>1. i <= Len(pending) \/ i - Len(pending) \in 1 .. Len(toServer[c])
        BY <3>2
      <4> QED
        BY <3>2, <4>1
    <3>7. ASSUME NEW x
          PROVE  x \in N <=> \E i \in 1 .. Len(us) : us[i].kind = "REQUEST" /\ us[i].n = x
      <4>1. x \in N <=>
              \/ \E i \in 1 .. Len(pending) :
                   pending[i].conn = c /\ pending[i].kind = "REQUEST" /\ pending[i].n = x
              \/ \E i \in 1 .. Len(toServer[c]) :
                   /\ toServer[c][i].conn = c /\ toServer[c][i].kind = "REQUEST"
                   /\ toServer[c][i].n = x
        BY DEF UnreadIn
      <4> HIDE DEF N
      <4>2. ASSUME NEW i \in 1 .. Len(us), us[i].kind = "REQUEST", us[i].n = x
            PROVE  x \in N
        BY <3>3, <3>6, <4>1, <4>2
      <4>3. ASSUME x \in N
            PROVE  \E i \in 1 .. Len(us) : us[i].kind = "REQUEST" /\ us[i].n = x
        BY <3>4, <3>5, <4>1, <4>3
      <4> QED
        BY <4>2, <4>3
    <3> HIDE DEF N
    <3> QED
      BY <3>7
  <2>2. CASE ~ (pending # <<>> /\ pending[1].conn = c)
    <3>1. us = toServer[c] /\ \A i \in 1 .. Len(us) : us[i].conn = c
      BY <1>2, <2>2 DEF Undelivered, ClientSound
    <3>2. ASSUME NEW i \in 1 .. Len(pending) PROVE pending[i].conn # c
      <4>1. pending # <<>>
        BY <1>1
      <4>2. pending[i].conn = pending[1].conn
        BY DEF ClientsSound
      <4> QED
        BY <2>2, <4>1, <4>2
    <3>3. UnreadIn(pending, c) = {}
      BY <3>2 DEF UnreadIn
    <3> HIDE DEF us
    <3> QED
      BY <3>1, <3>3 DEF UnreadIn
  <2> QED
    BY <2>1, <2>2
<1> HIDE DEF us, N
<1>4. ASSUME NEW i \in 1 .. Len(us), NEW j \in 1 .. Len(us),
             us[i].kind = "REQUEST", us[j].kind = "REQUEST"
      PROVE  us[i].n = us[j].n
  <2>1. i - us[i].k = j - us[j].k
    BY <1>2, <1>4 DEF ClientSound
  <2>2. us[i] \in ClientUnits /\ us[j] \in ClientUnits
    BY <1>1, ElementOfSeq
  <2>3. us[j].k \in 1 .. HeaderSize
    BY <2>2 DEF ClientUnits
  <2>4. us[i - us[i].k + us[j].k] = Peer(us[i], us[j].k)
    BY <1>2, <2>3 DEF ClientSound, Aligned, Peer
  <2>5. i - us[i].k + us[j].k = j
    <3>1. PICK x \in Int, y \in Int : x = us[i].k /\ y = us[j].k
      BY <2>2, UnitType
    <3>2. i \in Int /\ j \in Int /\ i - x = j - y
      BY <2>1, <3>1
    <3>3. i - x + y = j
      BY ONLY <3>2, x \in Int, y \in Int
    <3> QED
      BY <3>1, <3>3
  <2> QED
    BY <2>2, <2>3, <2>4, <2>5, PeerType
<1>5. CASE HasRequest(us)
  <2>1. PICK i \in 1 .. Len(us) : us[i].kind = "REQUEST"
    BY <1>5 DEF HasRequest
  <2>2. N = {us[i].n}
    BY <1>3, <1>4, <2>1
  <2> QED
    BY <1>5, <2>2, FS_Singleton DEF Unread, N, us
<1>6. CASE ~ HasRequest(us)
  <2>1. N = {}
    BY <1>3, <1>6 DEF HasRequest
  <2> QED
    BY <1>6, <2>1, FS_EmptySet DEF Unread, N, us
<1> QED
  BY <1>5, <1>6

(* The invariant says what AnswersItsClient does.                           *)
LEMMA AnswersFollow ==
  ASSUME TypeOK, ClientsSound, ~ Interleaves
  PROVE  AnswersItsClient
<1>1. SUFFICES ASSUME NEW c \in Conns
               PROVE  Answers(sock[c], asked[c] - Unread(c))
  BY DEF AnswersItsClient
<1>2. Answers(sock[c], IF HasRequest(Undelivered(c)) THEN asked[c] - 1 ELSE asked[c])
  BY DEF ClientsSound, ClientSound
<1>3. Unread(c) = IF HasRequest(Undelivered(c)) THEN 1 ELSE 0
  BY UnreadRequests
<1>4. asked[c] \in Int
  BY DEF TypeOK
<1>5. asked[c] - Unread(c) = IF HasRequest(Undelivered(c)) THEN asked[c] - 1 ELSE asked[c]
  BY <1>3, <1>4
<1> QED
  BY <1>2, <1>5


-----------------------------------------------------------------------------
(* The theorems *)

(* Every variable keeps its type, and no socket ever holds more than its     *)
(* send buffer: DataSend never offers Send more than there is room for.      *)
THEOREM TypeCorrect == Spec => []TypeOK
<1>1. ServerSound => TypeOK
  BY DEF ServerSound
<1> QED
  BY <1>1, SoundInit, SoundNext, PTL DEF Spec

(* Frames wait in m_queues only behind a full send buffer: DataSend, called  *)
(* from SendSegment and from every acknowledgement, goes on until the queue  *)
(* or the room is used up, so the callback that sends the rest is still due. *)
THEOREM WaitsForSpace == Spec => []QueueWaitsForSpace
<1>1. ASSUME ServerSound PROVE QueueWaitsForSpace
  <2>1. SUFFICES ASSUME NEW c \in Conns, sock[c].queue # <<>>
                 PROVE  sock[c].used = TxCapacity
    BY DEF QueueWaitsForSpace
  <2>2. SocketSound(sock[c])
    BY <1>1 DEF ServerSound
  <2>3. TxAvailable(sock[c]) = 0 /\ sock[c].used \in Nat
    BY <2>1, <2>2, SoundSocketType
  <2> QED
    BY <2>3, ServerAssumption DEF TxAvailable
<1> QED
  BY <1>1, SoundInit, SoundNext, PTL DEF Spec

(* While the server runs Send takes every frame DataSend hands it: only      *)
(* StopApplication closes a socket that still has frames to send.            *)
THEOREM FramesKept == Spec => []NoFrameLostRunning
<1>1. RunningSound => NoFrameLostRunning
  BY DEF RunningSound, NoFrameLostRunning, NoFrameLost
<1> QED
  BY <1>1, SoundInit, SoundNext, PTL DEF Spec

(* As long as the messages of the clients do not mix in the one buffer       *)
(* m_pending_packet, each connection carries, and has queued, exactly the    *)
(* segments its client asked for in the requests the server has read: whole, *)
(* in order, however messages and frames are cut.                            *)
THEOREM ClientsAnswered ==
  ASSUME ~ Interleaves
  PROVE  Spec => []AnswersItsClient
<1>1. ServerSound /\ ClientsSound => AnswersItsClient
  BY AnswersFollow DEF ServerSound
<1> QED
  BY <1>1, SoundInit, SoundNext, ClientsInit, ClientsNext, PTL DEF Spec
=============================================================================
