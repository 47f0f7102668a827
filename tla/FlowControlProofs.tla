------------------------- MODULE FlowControlProofs -------------------------
(***************************************************************************)
(* Theorems about FlowControl: its types, that the sender never overruns the *)
(* receive buffer of the client, and that it implements DashClient.          *)
(*                                                                         *)
(* The inductive invariant, FlowInv, is that of DashClient and Net, which    *)
(* relates what is under way: no packet promises the server room beyond what *)
(* the client has (PacketsIn), so nothing sent goes beyond it (Positions);   *)
(* segments end with what was sent or with the probe (SegmentsIn); the first *)
(* data hold the headers of a message (FirstData), as DashClient wants of a  *)
(* delivery; and nothing is under way before the first request (Quiet).      *)
(*                                                                         *)
(* A step of FlowControl is an event of DashClient, or leaves alone all that *)
(* DashClient sees; which of the two is what the lemmas ...Step say.         *)
(***************************************************************************)
EXTENDS FlowControl, ModelLemmas

-----------------------------------------------------------------------------
(* The messages among the packets. *)

(* The messages of the client, as a packet carries them.                    *)
Carried == [kind : {"REQUEST", "BLANK"}, seg : 0 .. MaxSegments, rate : Rates \union {0}]

(* Each element of S carries a message or none.                             *)
Carriers(S) == \A p \in S : Content(p) \in Seq(Carried)

(* sent[i] is what the first i elements of q carry.                         *)
IsSent(q, sent) ==
  /\ sent[0] = <<>> /\ Messages(q) = sent[Len(q)]
  /\ \A i \in 1 .. Len(q) : sent[i] = sent[i - 1] \o Content(q[i])
  /\ \A i \in 0 .. Len(q) : sent[i] \in Seq(Carried)

(* The recursion of Messages can be carried on to the end of q.             *)
LEMMA SentSoFar ==
  ASSUME NEW S, Carriers(S), NEW q \in Seq(S)
  PROVE  \E sent : IsSent(q, sent)
<1> DEFINE n == Len(q)
           V == Seq(Carried)
           F == [i \in 1 .. n |-> [x \in V |-> x \o Content(q[i])]]
           W == [i \in 0 .. n |-> V]
           Of(g) == [i \in 0 .. n |-> IF i = 0 THEN <<>> ELSE g[i - 1] \o Content(q[i])]
<1>1. n \in Nat
  BY LenProperties
<1>2. ASSUME NEW i \in 1 .. n, NEW x \in V PROVE x \o Content(q[i]) \in V
  <2>1. q[i] \in S
    BY ElementOfSeq
  <2> QED
    BY <2>1, ConcatProperties DEF Carriers
<1>3. \A i \in 1 .. n : \A x \in V : F[i][x] = x \o Content(q[i])
  OBVIOUS
<1>4. \A i \in 0 .. n : W[i] = V
  OBVIOUS
<1>5. PICK g : IsRecursion(g, n, <<>>, F)
  BY <1>1, Recursion
<1>6. Messages(q) = (CHOOSE h : h = Of(h))[n]
  BY DEF Messages
<1> HIDE DEF F, W, n
<1>7. g[0] = <<>> /\ \A i \in 1 .. n : g[i] = F[i][g[i - 1]]
  BY <1>1, <1>5 DEF IsRecursion
<1>8. <<>> \in V
  OBVIOUS
<1> HIDE DEF V
<1>9. \A i \in 0 .. n : g[i] \in V
  <2>1. ASSUME NEW i \in 1 .. n, g[i - 1] \in W[i - 1] PROVE g[i] \in W[i]
    <3>1. i - 1 \in 0 .. n /\ i \in 0 .. n
      BY <1>1
    <3>2. g[i - 1] \in V /\ g[i] = F[i][g[i - 1]]
      BY <1>4, <1>7, <2>1, <3>1
    <3>3. g[i] = g[i - 1] \o Content(q[i])
      BY <1>3, <3>2, Zenon
    <3> QED
      BY <1>2, <1>4, <3>1, <3>2, <3>3
  <2>2. g[0] \in W[0]
    BY <1>1, <1>4, <1>7, <1>8
  <2> QED
    BY <1>1, <1>4, <2>1, <2>2, Stays
<1>10. g = Of(g)
  <2>1. ASSUME NEW i \in 0 .. n, i # 0
        PROVE  F[i][g[i - 1]] = g[i - 1] \o Content(q[i])
    <3>1. i \in 1 .. n /\ i - 1 \in 0 .. n
      BY <1>1, <2>1
    <3> QED
      BY <1>3, <1>9, <3>1
  <2>2. g = [i \in 0 .. n |-> IF i = 0 THEN <<>> ELSE F[i][g[i - 1]]]
    BY <1>5 DEF IsRecursion
  <2> QED
    BY <2>1, <2>2, Zenon
<1>11. PICK h : h = (CHOOSE e : e = Of(e)) /\ h = Of(h)
  BY <1>10
<1>12. /\ h[0] = <<>>
       /\ \A i \in 1 .. n : h[i] = h[i - 1] \o Content(q[i])
  <2>1. \A i \in 0 .. n : h[i] = IF i = 0 THEN <<>> ELSE h[i - 1] \o Content(q[i])
    BY <1>11, Zenon
  <2>2. 0 \in 0 .. n /\ \A i \in 1 .. n : i \in 0 .. n /\ i # 0
    BY <1>1
  <2> QED
    BY <2>1, <2>2
<1>13. \A i \in 0 .. n : h[i] \in V
  <2>1. ASSUME NEW i \in 1 .. n, h[i - 1] \in W[i - 1] PROVE h[i] \in W[i]
    <3>1. i - 1 \in 0 .. n /\ i \in 0 .. n
      BY <1>1
    <3> QED
      BY <1>2, <1>4, <1>12, <2>1, <3>1
  <2>2. h[0] \in W[0]
    BY <1>1, <1>4, <1>12, <1>8
  <2> QED
    BY <1>1, <1>4, <2>1, <2>2, Stays
<1>14. Messages(q) = h[n]
  BY <1>6, <1>11
<1> QED
  BY <1>12, <1>13, <1>14 DEF IsSent, n, V

(* What is carried is a sequence of messages.                               *)
LEMMA MessagesType ==
  ASSUME NEW S, Carriers(S), NEW q \in Seq(S)
  PROVE  Messages(q) \in Seq(Carried)
<1>1. PICK sent : IsSent(q, sent)
  BY SentSoFar
<1>2. Len(q) \in 0 .. Len(q)
  BY LenProperties
<1> QED
  BY <1>1, <1>2 DEF IsSent

(* Two sequences whose elements carry the same carry the same.              *)
LEMMA SameMessages ==
  ASSUME NEW S, Carriers(S), NEW q \in Seq(S), NEW r \in Seq(S), Len(q) = Len(r),
         \A i \in 1 .. Len(q) : Content(q[i]) = Content(r[i])
  PROVE  Messages(q) = Messages(r)
<1>1. PICK g, h : IsSent(q, g) /\ IsSent(r, h)
  BY SentSoFar
<1>2. PICK n \in Nat : n = Len(q)
  BY LenProperties
<1> DEFINE W == [i \in 0 .. n |-> {h[i]}]
<1>3. ASSUME NEW i \in 1 .. n, g[i - 1] \in W[i - 1] PROVE g[i] \in W[i]
  <2>1. i - 1 \in 0 .. n /\ i \in 0 .. n
    BY <1>2
  <2>2. g[i - 1] = h[i - 1]
    BY <1>3, <2>1
  <2>3. g[i] = g[i - 1] \o Content(q[i]) /\ h[i] = h[i - 1] \o Content(r[i])
    BY <1>1, <1>2 DEF IsSent
  <2> QED
    BY <1>2, <2>1, <2>2, <2>3
<1>4. g[0] \in W[0]
  BY <1>1, <1>2 DEF IsSent
<1>5. \A i \in 0 .. n : g[i] \in W[i]
  <2> HIDE DEF W
  <2> QED
    BY <1>3, <1>4, Stays
<1>6. g[n] = h[n]
  <2>1. n \in 0 .. n
    OBVIOUS
  <2> QED
    BY <1>5, <2>1
<1> QED
  BY <1>1, <1>2, <1>6 DEF IsSent

(* What no element carries.                                                 *)
LEMMA NoMessages ==
  ASSUME NEW S, Carriers(S), NEW q \in Seq(S), \A i \in 1 .. Len(q) : Content(q[i]) = <<>>
  PROVE  Messages(q) = <<>>
<1>1. PICK g : IsSent(q, g)
  BY SentSoFar
<1>2. PICK n \in Nat : n = Len(q)
  BY LenProperties
<1> DEFINE W == [i \in 0 .. n |-> {<<>>}]
<1>3. ASSUME NEW i \in 1 .. n, g[i - 1] \in W[i - 1] PROVE g[i] \in W[i]
  <2>1. i - 1 \in 0 .. n /\ i \in 0 .. n
    BY <1>2
  <2>2. g[i - 1] = <<>>
    BY <1>3, <2>1
  <2>3. g[i] = g[i - 1] \o Content(q[i])
    BY <1>1, <1>2 DEF IsSent
  <2>4. g[i] = <<>> \o <<>>
    BY <1>2, <2>2, <2>3
  <2> QED
    BY <2>1, <2>4
<1>4. g[0] \in W[0]
  BY <1>1, <1>2 DEF IsSent
<1>5. \A i \in 0 .. n : g[i] \in W[i]
  <2> HIDE DEF W
  <2> QED
    BY <1>3, <1>4, Stays
<1>6. g[n] = <<>>
  <2>1. n \in 0 .. n
    OBVIOUS
  <2> QED
    BY <1>5, <2>1
<1> QED
  BY <1>1, <1>2, <1>6 DEF IsSent

(* What two sequences carry one after the other.                            *)
LEMMA MessagesOfBoth ==
  ASSUME NEW S, Carriers(S), NEW q \in Seq(S), NEW r \in Seq(S)
  PROVE  Messages(q \o r) = Messages(q) \o Messages(r)
<1>1. PICK b \in Seq(S) : b = q \o r
  BY ConcatProperties
<1>2. PICK m \in Nat, n \in Nat : m = Len(q) /\ n = Len(r)
  BY LenProperties
<1>3. /\ Len(b) = m + n
      /\ \A i \in 1 .. m : b[i] = q[i]
      /\ \A i \in 1 .. n : b[m + i] = r[i]
  <2>1. /\ Len(b) = m + n
        /\ \A i \in 1 .. m + n : b[i] = IF i <= m THEN q[i] ELSE r[i - m]
    BY <1>1, <1>2, ConcatProperties
  <2>2. ASSUME NEW i \in 1 .. n PROVE b[m + i] = r[i]
    <3>1. m + i \in 1 .. m + n /\ ~ (m + i <= m) /\ (m + i) - m = i
      OBVIOUS
    <3> QED
      BY <2>1, <3>1
  <2> QED
    BY <2>1, <2>2, SMTT(20)
<1>4. PICK f, g, h : IsSent(q, f) /\ IsSent(r, g) /\ IsSent(b, h)
  BY SentSoFar
<1> DEFINE W == [i \in 0 .. m |-> {f[i]}]
           x == f[m]
           k == [i \in 0 .. n |-> h[m + i]]
           X == [i \in 0 .. n |-> {x \o g[i]}]
<1>5. h[m] = x
  <2>1. ASSUME NEW i \in 1 .. m, h[i - 1] \in W[i - 1] PROVE h[i] \in W[i]
    <3>1. i - 1 \in 0 .. m /\ i \in 0 .. m /\ i \in 1 .. m + n
      BY <1>2
    <3>2. h[i - 1] = f[i - 1]
      BY <2>1, <3>1
    <3>3. h[i] = h[i - 1] \o Content(b[i]) /\ f[i] = f[i - 1] \o Content(q[i])
      BY <1>2, <1>3, <1>4, <3>1 DEF IsSent
    <3>4. b[i] = q[i]
      BY <1>3
    <3> QED
      BY <3>1, <3>2, <3>3, <3>4
  <2>2. h[0] \in W[0]
    BY <1>4 DEF IsSent
  <2>3. \A i \in 0 .. m : h[i] \in W[i]
    <3> HIDE DEF W
    <3> QED
      BY <2>1, <2>2, Stays
  <2>4. m \in 0 .. m
    OBVIOUS
  <2> QED
    BY <2>3, <2>4
<1>6. x \in Seq(Carried)
  BY <1>2, <1>4 DEF IsSent
<1> HIDE DEF x
<1>7. ASSUME NEW i \in 1 .. n, k[i - 1] \in X[i - 1] PROVE k[i] \in X[i]
  <2>1. i - 1 \in 0 .. n /\ i \in 0 .. n /\ m + i \in 1 .. m + n /\ m + (i - 1) = (m + i) - 1
    BY <1>2
  <2>2. h[(m + i) - 1] = x \o g[i - 1]
    BY <1>7, <2>1
  <2>3. h[m + i] = h[(m + i) - 1] \o Content(b[m + i]) /\ g[i] = g[i - 1] \o Content(r[i])
    BY <1>2, <1>3, <1>4, <2>1 DEF IsSent
  <2>4. b[m + i] = r[i]
    BY <1>3
  <2>5. PICK y \in Seq(Carried) : y = g[i - 1]
    BY <1>2, <1>4, <2>1 DEF IsSent
  <2>6. PICK z \in Seq(Carried) : z = Content(r[i])
    <3>1. r[i] \in S
      BY <1>2, ElementOfSeq
    <3> QED
      BY <3>1 DEF Carriers
  <2>7. (x \o y) \o z = x \o (y \o z)
    BY ONLY <1>6, y \in Seq(Carried), z \in Seq(Carried), ConcatAssociative, SMTT(30)
  <2>8. h[m + i] = x \o g[i]
    BY <2>2, <2>3, <2>4, <2>5, <2>6, <2>7
  <2> QED
    BY <2>1, <2>8
<1>8. k[0] \in X[0]
  <2>1. k[0] = h[m] /\ g[0] = <<>>
    BY <1>4 DEF IsSent
  <2>2. x \o <<>> = x
    BY <1>6, ConcatEmptySeq
  <2>3. 0 \in 0 .. n
    OBVIOUS
  <2>4. X[0] = {x \o g[0]}
    BY <2>3
  <2> QED
    BY <1>5, <2>1, <2>2, <2>4
<1>9. \A i \in 0 .. n : k[i] \in X[i]
  <2> HIDE DEF k, X
  <2> QED
    BY <1>7, <1>8, Stays
<1>10. h[m + n] = x \o g[n]
  <2>1. n \in 0 .. n
    OBVIOUS
  <2> QED
    BY <1>9, <2>1
<1>11. Messages(b) = h[m + n] /\ Messages(q) = x /\ Messages(r) = g[n]
  BY <1>2, <1>3, <1>4 DEF IsSent, x
<1> QED
  BY <1>1, <1>10, <1>11

(* Whatever can be sent, alone or in a packet.                              *)
Mail == Packets \union Carried \union {Ack}

(* All of it carries a message or none.                                     *)
LEMMA MailCarries == Carriers(Mail)
<1>1. MaxSegments \in Nat /\ 0 \in 0 .. MaxSegments
  BY FlowAssumption
<1> SUFFICES ASSUME NEW p \in Mail PROVE Content(p) \in Seq(Carried)
  BY DEF Carriers
<1>2. CASE p.kind = "ACK"
  BY <1>2 DEF Content
<1>3. CASE p.kind # "ACK"
  <2> DEFINE m == [kind |-> p.kind, seg |-> p.seg, rate |-> p.rate]
  <2>1. m \in Carried
    BY <1>3 DEF Mail, Packets, Carried, Ack
  <2> HIDE DEF m
  <2>2. <<m>> \in Seq(Carried)
    BY <2>1
  <2> QED
    BY <1>3, <2>2 DEF Content, m
<1> QED
  BY <1>2, <1>3

(* Messages carry themselves.                                               *)
LEMMA CarryThemselves ==
  ASSUME NEW q \in Seq(Carried)
  PROVE  q \in Seq(Mail) /\ Messages(q) = q
<1>1. q \in Seq(Mail)
  <2>1. Carried \subseteq Mail
    BY DEF Mail
  <2> HIDE DEF Carried, Mail
  <2> QED
    BY <2>1, SeqMonotonic
<1>2. PICK g : IsSent(q, g)
  BY <1>1, MailCarries, SentSoFar
<1>3. PICK n \in Nat : n = Len(q)
  BY LenProperties
<1> DEFINE W == [i \in 0 .. n |-> {SubSeq(q, 1, i)}]
<1>4. ASSUME NEW i \in 1 .. n, g[i - 1] \in W[i - 1] PROVE g[i] \in W[i]
  <2>1. i - 1 \in 0 .. n /\ i \in 0 .. n
    BY <1>3
  <2>2. g[i - 1] = SubSeq(q, 1, i - 1)
    BY <1>4, <2>1
  <2>3. g[i] = g[i - 1] \o Content(q[i])
    BY <1>2, <1>3 DEF IsSent
  <2>4. PICK m \in Carried : m = q[i]
    BY <1>3, ElementOfSeq
  <2>5. Content(m) = <<m>>
    <3>1. m = [kind |-> m.kind, seg |-> m.seg, rate |-> m.rate] /\ m.kind # "ACK"
      BY DEF Carried
    <3> QED
      BY <3>1 DEF Content
  <2>6. SubSeq(q, 1, i - 1) \o <<m>> = SubSeq(q, 1, i)
    BY <1>3, <2>4, OneMore
  <2>7. g[i] = SubSeq(q, 1, i)
    BY <2>2, <2>3, <2>4, <2>5, <2>6
  <2> QED
    BY <2>1, <2>7
<1>5. g[0] \in W[0]
  <2>1. SubSeq(q, 1, 0) = <<>> /\ 0 \in 0 .. n
    OBVIOUS
  <2>2. W[0] = {SubSeq(q, 1, 0)}
    BY <2>1
  <2> QED
    BY <1>2, <2>1, <2>2 DEF IsSent
<1>6. \A i \in 0 .. n : g[i] \in W[i]
  <2> HIDE DEF W
  <2> QED
    BY <1>4, <1>5, Stays
<1>7. g[n] = SubSeq(q, 1, n)
  <2>1. n \in 0 .. n
    OBVIOUS
  <2> QED
    BY <1>6, <2>1
<1>8. SubSeq(q, 1, n) = q
  <2>1. PICK x \in Seq(Carried) :
            x = SubSeq(q, 1, n) /\ Len(x) = n /\ \A k \in 1 .. n : x[k] = q[k]
    BY <1>3, SubSeqProperties, ElementOfSeq
  <2>2. x = q
    BY <1>3, <2>1, SeqEqual
  <2> QED
    BY <2>1, <2>2
<1> QED
  BY <1>1, <1>2, <1>3, <1>7, <1>8 DEF IsSent

(* The packets in which the client c, which expects the unit after r, sends *)
(* the messages of out.                                                     *)
Sends(out, c, r) == [i \in 1 .. Len(out) |-> Packet(out[i], c, r)]

\* What the client has free.
Free(c) == RxCapacity - Len(c.rx)

(* A packet carries the message sent in it.                                 *)
LEMMA PacketOf ==
  ASSUME NEW m \in Carried \union {Ack}, NEW c, NEW r \in Nat, Free(c) \in 0 .. RxCapacity
  PROVE  LET p == Packet(m, c, r)
         IN  /\ p \in Packets /\ p.ack = r /\ p.win = Free(c)
             /\ Content(p) = Content(m)
<1>1. /\ m.kind \in {"REQUEST", "BLANK", "ACK"} /\ m.seg \in 0 .. MaxSegments
      /\ m.rate \in Rates \union {0}
  BY FlowAssumption DEF Carried, Ack
<1> QED
  BY <1>1 DEF Packet, Packets, Content, Free

(* The packets carry the messages sent in them.                             *)
LEMMA SendsResult ==
  ASSUME NEW out \in Seq(Carried \union {Ack}), NEW c, NEW r \in Nat,
         Free(c) \in 0 .. RxCapacity
  PROVE  LET q == Sends(out, c, r)
         IN  /\ q \in Seq(Packets) /\ Len(q) = Len(out) /\ Messages(q) = Messages(out)
             /\ \A i \in 1 .. Len(q) : q[i].ack = r /\ q[i].win = Free(c)
<1>1. PICK n \in Nat : n = Len(out)
  BY LenProperties
<1>2. \A i \in 1 .. n : out[i] \in Carried \union {Ack}
  BY <1>1, ElementOfSeq
<1> DEFINE q == Sends(out, c, r)
<1>3. \A i \in 1 .. n : q[i] = Packet(out[i], c, r)
  BY <1>1 DEF Sends
<1>4. q \in Seq(Packets) /\ Len(q) = n
  <2>1. \A i \in 1 .. n : Packet(out[i], c, r) \in Packets
    BY <1>2, PacketOf
  <2> HIDE DEF Packets
  <2>2. q \in [1 .. n -> Packets]
    BY <1>1, <2>1 DEF Sends
  <2> QED
    BY <2>2, SeqDef
<1> HIDE DEF q
<1>5. \A i \in 1 .. n : q[i].ack = r /\ q[i].win = Free(c) /\ Content(q[i]) = Content(out[i])
  BY <1>2, <1>3, PacketOf
<1>6. q \in Seq(Mail) /\ out \in Seq(Mail)
  <2>1. Packets \subseteq Mail /\ Carried \union {Ack} \subseteq Mail
    BY DEF Mail
  <2> HIDE DEF Mail, Packets, Carried, Ack
  <2> QED
    BY <1>4, <2>1, SeqMonotonic
<1>7. Messages(q) = Messages(out)
  BY <1>1, <1>4, <1>5, <1>6, MailCarries, SameMessages
<1> QED
  BY <1>1, <1>4, <1>5, <1>7 DEF q

-----------------------------------------------------------------------------
(* DashClient, seen through the instance whose theorems are proved. *)

D == INSTANCE DashClientProofs
       WITH MaxLosses <- 0, MayStop <- FALSE, losses <- 0, stopped <- FALSE,
            toServer <- Messages(packets),
            toClient <- SubSeq(stream, rcv + 1, Len(stream)),
            unacked <- client.segmentId > 0

(* What DashClient assumes of its constants.                                *)
LEMMA ClientConstants ==
  /\ Rates \subseteq Nat /\ Rates # {}
  /\ HeaderSize \in Nat \ {0}
  /\ Sizes \subseteq {s \in Nat : s >= HeaderSize /\ s <= Capacity} /\ Sizes # {}
  /\ FramesPerSegment \in Nat \ {0}
  /\ Capacity \in Nat
  /\ RxCapacity \in Nat /\ RxCapacity >= HeaderSize
  /\ MaxSegments \in Nat
  /\ 0 \in Nat
  /\ FALSE \in BOOLEAN
BY FlowAssumption

(* The handlers of the player and of the client are those of DashClient.    *)
LEMMA SamePlayFrame ==
  ASSUME NEW p, NEW t
  PROVE  C!P!PlayFrame(p, t) = D!P!PlayFrame(p, t)
BY DEF C!P!PlayFrame, D!P!PlayFrame, C!P!BeginPlayback, D!P!BeginPlayback,
       C!P!Pause, D!P!Pause, C!P!ShowFrame, D!P!ShowFrame, C!P!Pop, D!P!Pop,
       C!P!Count, D!P!Count, C!P!Smaller, D!P!Smaller, C!P!Larger, D!P!Larger

(* The same for Resume.                                                     *)
LEMMA SameResume ==
  ASSUME NEW p, NEW t, NEW w
  PROVE  C!P!Resume(p, t, w) = D!P!Resume(p, t, w)
BY SamePlayFrame DEF C!P!Resume, D!P!Resume

(* The same for AfterPush.                                                  *)
LEMMA SameAfterPush ==
  ASSUME NEW p, NEW t
  PROVE  C!P!AfterPush(p, t) = D!P!AfterPush(p, t)
BY SameResume DEF C!P!AfterPush, D!P!AfterPush, C!P!Begin, D!P!Begin

(* The same for ReceiveFrame.                                               *)
LEMMA SameReceiveFrame ==
  ASSUME NEW p, NEW f, NEW t
  PROVE  C!P!ReceiveFrame(p, f, t) = D!P!ReceiveFrame(p, f, t)
BY SameAfterPush
  DEF C!P!ReceiveFrame, D!P!ReceiveFrame, C!P!Fits, D!P!Fits, C!P!Push, D!P!Push

(* The same for Unschedule.                                                 *)
LEMMA SameUnschedule ==
  ASSUME NEW p, NEW i
  PROVE  C!P!Unschedule(p, i) = D!P!Unschedule(p, i)
BY DEF C!P!Unschedule, D!P!Unschedule

(* The same for SendBlank.                                                  *)
LEMMA SameSendBlank == ASSUME NEW c PROVE C!SendBlank(c) = D!SendBlank(c)
BY DEF C!SendBlank, D!SendBlank, C!CanSend, D!CanSend, C!Blank, D!Blank

(* The same for RequestSegment.                                             *)
LEMMA SameRequestSegment ==
  ASSUME NEW c
  PROVE  C!RequestSegment(c) = D!RequestSegment(c)
BY DEF C!RequestSegment, D!RequestSegment, C!SendRequest, D!SendRequest,
       C!CanSend, D!CanSend

(* The same for StartApplication.                                           *)
LEMMA SameStartApplication ==
  ASSUME NEW c
  PROVE  C!StartApplication(c) = D!StartApplication(c)
BY DEF C!StartApplication, D!StartApplication

(* The same for ConnectionLost.                                             *)
LEMMA SameConnectionLost ==
  ASSUME NEW c
  PROVE  C!ConnectionLost(c) = D!ConnectionLost(c)
BY SameStartApplication DEF C!ConnectionLost, D!ConnectionLost

(* The same for ConnectionSucceeded.                                        *)
LEMMA SameConnectionSucceeded ==
  ASSUME NEW c
  PROVE  C!ConnectionSucceeded(c) = D!ConnectionSucceeded(c)
BY SameRequestSegment DEF C!ConnectionSucceeded, D!ConnectionSucceeded

(* The same for CloseSocket.                                                *)
LEMMA SameCloseSocket == ASSUME NEW c PROVE C!CloseSocket(c) = D!CloseSocket(c)
BY SameConnectionLost DEF C!CloseSocket, D!CloseSocket

(* The same for StopApplication.                                            *)
LEMMA SameStopApplication ==
  ASSUME NEW c
  PROVE  C!StopApplication(c) = D!StopApplication(c)
BY SameCloseSocket DEF C!StopApplication, D!StopApplication

(* The same for LastFrame.                                                  *)
LEMMA SameLastFrame ==
  ASSUME NEW c, NEW f, NEW next
  PROVE  C!LastFrame(c, f, next) = D!LastFrame(c, f, next)
BY SameRequestSegment DEF C!LastFrame, D!LastFrame

(* The same for MessageReceived.                                            *)
LEMMA SameMessageReceived ==
  ASSUME NEW c, NEW f, NEW next
  PROVE  C!MessageReceived(c, f, next) = D!MessageReceived(c, f, next)
BY SameReceiveFrame, SameLastFrame DEF C!MessageReceived, D!MessageReceived

(* The same for ParseMessage.                                               *)
LEMMA SameParseMessage ==
  ASSUME NEW c, NEW next
  PROVE  C!ParseMessage(c, next) = D!ParseMessage(c, next)
BY SameMessageReceived
  DEF C!ParseMessage, D!ParseMessage, C!HeadersIn, D!HeadersIn, C!Front,
      D!Front, C!Complete, D!Complete, C!P!Fits, D!P!Fits

(* The rounds of the loop are the same, so the loop is.                     *)
LEMMA SameTry ==
  ASSUME NEW c, NEW next PROVE C!TryToPushToPlayer(c, next) = D!TryToPushToPlayer(c, next)
<1> DEFINE n == Len(c.data)
           Of(g) == [i \in 0 .. n |->
             IF i = 0 THEN c
             ELSE CHOOSE d \in {C!ParseMessage(e, next) : e \in {g[i - 1]}} : TRUE]
           Od(g) == [i \in 0 .. n |->
             IF i = 0 THEN c
             ELSE CHOOSE d \in {D!ParseMessage(e, next) : e \in {g[i - 1]}} : TRUE]
<1>1. C!TryToPushToPlayer(c, next) = (CHOOSE g : g = Of(g))[n]
  BY DEF C!TryToPushToPlayer
<1>2. D!TryToPushToPlayer(c, next) = (CHOOSE g : g = Od(g))[n]
  BY DEF D!TryToPushToPlayer
<1>3. ASSUME NEW g PROVE Of(g) = Od(g)
  <2>1. ASSUME NEW x PROVE {C!ParseMessage(e, next) : e \in {x}} = {D!ParseMessage(e, next) : e \in {x}}
    BY SameParseMessage
  <2> QED
    BY <2>1, Zenon
<1> HIDE DEF Of, Od, n
<1>4. (CHOOSE g : g = Of(g)) = (CHOOSE g : g = Od(g))
  BY <1>3
<1> QED
  BY <1>1, <1>2, <1>4
(* The same for ReadSocket.                                                 *)
LEMMA SameReadSocket ==
  ASSUME NEW c, NEW next
  PROVE  C!ReadSocket(c, next) = D!ReadSocket(c, next)
BY SameTry, SameSendBlank DEF C!ReadSocket, D!ReadSocket

(* The same for HandleRead.                                                 *)
LEMMA SameHandleRead ==
  ASSUME NEW c, NEW next
  PROVE  C!HandleRead(c, next) = D!HandleRead(c, next)
BY SameReadSocket DEF C!HandleRead, D!HandleRead

(* The same for Segment.                                                    *)
LEMMA SameSegment ==
  ASSUME NEW r, NEW size
  PROVE  C!Segment(r, size) = D!Segment(r, size)
BY DEF C!Segment, D!Segment, C!Units, D!Units

(* So are its initial states and its events.                                *)
LEMMA SameInit == C!Init <=> D!Init
BY DEF C!Init, D!Init, C!NewClient, D!NewClient, C!P!NewPlayer, D!P!NewPlayer,
       C!P!EmptyBuffer, D!P!EmptyBuffer, C!P!NoRate, D!P!NoRate, C!FirstRate,
       D!FirstRate

(* The same for Start.                                                      *)
LEMMA SameStart == C!Start <=> D!Start
BY SameStartApplication DEF C!Start, D!Start, C!Becomes, D!Becomes

(* The same for Stop.                                                       *)
LEMMA SameStop == C!Stop <=> D!Stop
BY SameStopApplication
  DEF C!Stop, D!Stop, C!Becomes, D!Becomes, C!Reconnects, D!Reconnects

(* The same for Connected.                                                  *)
LEMMA SameConnected == C!Connected <=> D!Connected
BY SameConnectionSucceeded DEF C!Connected, D!Connected, C!Becomes, D!Becomes

(* The same for GivesUp.                                                    *)
LEMMA SameGivesUp == C!GivesUp <=> D!GivesUp
BY SameConnectionLost DEF C!GivesUp, D!GivesUp, C!Reconnects, D!Reconnects

(* The same for Acknowledge.                                                *)
LEMMA SameAcknowledge == C!Acknowledge <=> D!Acknowledge
BY DEF C!Acknowledge, D!Acknowledge

(* The same for Serve.                                                      *)
LEMMA SameServe == C!Serve <=> D!Serve
BY SameSegment DEF C!Serve, D!Serve

(* The same for DeliverSome.                                                *)
LEMMA SameDeliverSome == C!DeliverSome <=> D!DeliverSome
BY SameHandleRead
  DEF C!DeliverSome, D!DeliverSome, C!Deliver, D!Deliver, C!Choices, D!Choices,
      C!Becomes, D!Becomes

(* The same for FirePlayFrame.                                              *)
LEMMA SameFirePlayFrame == C!FirePlayFrame <=> D!FirePlayFrame
BY SamePlayFrame, SameUnschedule
  DEF C!FirePlayFrame, D!FirePlayFrame, C!Becomes, D!Becomes

(* The same for FireCheckBuffer.                                            *)
LEMMA SameFireCheckBuffer == C!FireCheckBuffer <=> D!FireCheckBuffer
BY SameReadSocket
  DEF C!FireCheckBuffer, D!FireCheckBuffer, C!Becomes, D!Becomes, C!Choices,
      D!Choices

(* The same for FireRequestSegment.                                         *)
LEMMA SameFireRequestSegment == C!FireRequestSegment <=> D!FireRequestSegment
BY SameRequestSegment
  DEF C!FireRequestSegment, D!FireRequestSegment, C!Becomes, D!Becomes

(* The same for FireKeepAlive.                                              *)
LEMMA SameFireKeepAlive == C!FireKeepAlive <=> D!FireKeepAlive
BY SameSendBlank DEF C!FireKeepAlive, D!FireKeepAlive, C!Becomes, D!Becomes

(* The same for Next.                                                       *)
LEMMA SameNext == C!Next <=> D!Next
BY SameStart, SameStop, SameConnected, SameGivesUp, SameAcknowledge, SameServe,
   SameDeliverSome, SameFirePlayFrame, SameFireCheckBuffer,
   SameFireRequestSegment, SameFireKeepAlive
  DEF C!Next, D!Next

-----------------------------------------------------------------------------
(* The server's socket. *)

Sockets == [una : Nat, nxt : Nat, window : 0 .. RxCapacity]

(* Data segments of the first total units of the stream.                    *)
SegmentsOf(total) == [first : 1 .. total, last : 1 .. total]

(* The socket, and the segments it has sent.                                *)
Sendings(total) == [s : Sockets, out : Seq(SegmentsOf(total))]

(* Zero units, or the headers of a message at least.                        *)
HoldsHeaders(n) == n = 0 \/ HeaderSize <= n

(* The socket s has become q.s when q.out was sent.                         *)
SentWithin(s, q, total) ==
  /\ q.s.una = s.una /\ q.s.window = s.window
  /\ s.nxt <= q.s.nxt /\ q.s.nxt <= total
  /\ q.s.nxt = s.nxt \/ q.s.nxt <= s.una + s.window
  /\ \A i \in 1 .. Len(q.out) : q.out[i].last <= q.s.nxt
  /\ HoldsHeaders(s.nxt) /\ HoldsHeaders(total) =>
       /\ HoldsHeaders(q.s.nxt)
       /\ \A i \in 1 .. Len(q.out) : HeaderSize <= q.out[i].last

(* One round of SendPendingData.                                            *)
Round(r, total) ==
  IF CanSend(r.s, total)
  THEN [s |-> [r.s EXCEPT !.nxt = NextSegment(r.s, total).last],
        out |-> Append(r.out, NextSegment(r.s, total))]
  ELSE r

(* A segment that can be sent has room, and new units up to its end.        *)
LEMMA NextResult ==
  ASSUME NEW total \in Nat, NEW s \in Sockets, s.nxt <= total, CanSend(s, total)
  PROVE  LET g == NextSegment(s, total)
         IN  /\ g \in SegmentsOf(total) /\ s.nxt < g.last /\ g.last <= total
             /\ g.last <= s.una + s.window
             /\ HoldsHeaders(s.nxt) /\ HoldsHeaders(total) => HeaderSize <= g.last
<1>1. PICK u \in Nat, n \in Nat, w \in Nat : u = s.una /\ n = s.nxt /\ w = s.window
  BY FlowAssumption DEF Sockets
<1>2. PICK z \in Nat, h \in Nat : z = SegmentSize /\ h = HeaderSize /\ h <= z /\ 1 <= h
  BY FlowAssumption
<1>3. n < total /\ (w - (n - u) < z => total - n <= w - (n - u)) /\ 0 < w - (n - u)
  BY <1>1, <1>2 DEF CanSend, Unsent, Usable
<1>4. PICK l \in Nat : l = n + (IF total - n < z THEN total - n ELSE z)
  BY <1>3
<1>5. NextSegment(s, total) = [first |-> n + 1, last |-> l]
  BY <1>1, <1>2, <1>4 DEF NextSegment, Smaller, Unsent
<1>6. n < l /\ l <= total /\ l <= u + w /\ n + 1 \in 1 .. total /\ l \in 1 .. total
  BY <1>2, <1>3, <1>4
<1>7. (n = 0 \/ h <= n) /\ (total = 0 \/ h <= total) => h <= l
  BY <1>2, <1>3, <1>4
<1> QED
  BY <1>1, <1>2, <1>5, <1>6, <1>7 DEF SegmentsOf, HoldsHeaders

(* One round sends nothing, or one segment more.                            *)
LEMMA RoundResult ==
  ASSUME NEW total \in Nat, NEW s \in Sockets, s.nxt <= total,
         NEW r \in Sendings(total), SentWithin(s, r, total)
  PROVE  Round(r, total) \in Sendings(total) /\ SentWithin(s, Round(r, total), total)
<1>1. CASE ~ CanSend(r.s, total)
  BY <1>1 DEF Round
<1>2. CASE CanSend(r.s, total)
  <2>1. PICK t \in Sockets : t = r.s
    BY DEF Sendings
  <2>2. /\ t.una = s.una /\ t.window = s.window /\ s.nxt <= t.nxt /\ t.nxt <= total
        /\ HoldsHeaders(s.nxt) /\ HoldsHeaders(total) => HoldsHeaders(t.nxt)
    BY <2>1 DEF SentWithin
  <2>3. PICK g \in SegmentsOf(total) : g = NextSegment(t, total)
    BY <1>2, <2>1, <2>2, NextResult
  <2>4. /\ t.nxt < g.last /\ g.last <= total /\ g.last <= t.una + t.window
        /\ HoldsHeaders(t.nxt) /\ HoldsHeaders(total) => HeaderSize <= g.last
    BY <1>2, <2>1, <2>2, <2>3, NextResult
  <2>5. PICK m \in Nat : m = g.last
    BY DEF SegmentsOf
  <2>6. PICK o \in Seq(SegmentsOf(total)) : o = r.out
    BY DEF Sendings
  <2>7. PICK v \in Seq(SegmentsOf(total)) : v = Append(o, g)
    BY AppendProperties
  <2>8. PICK k \in Nat : k = Len(o)
    BY LenProperties
  <2>9. Len(v) = k + 1 /\ (\A i \in 1 .. k : v[i] = o[i]) /\ v[k + 1] = g
    BY <2>7, <2>8, AppendProperties
  <2>10. PICK e \in Sockets : e = [t EXCEPT !.nxt = m]
    BY DEF Sockets
  <2>11. e.una = t.una /\ e.window = t.window /\ e.nxt = m
    BY <2>10 DEF Sockets
  <2>12. PICK q \in Sendings(total) : q = [s |-> e, out |-> v]
    BY DEF Sendings
  <2>13. q.s = e /\ q.out = v
    BY <2>12
  <2>14. Round(r, total) = q
    BY <1>2, <2>1, <2>3, <2>5, <2>6, <2>7, <2>10, <2>12 DEF Round
  <2>15. s.nxt \in Nat /\ t.nxt \in Nat
    BY DEF Sockets
  <2>16. ASSUME NEW i \in 1 .. k + 1 PROVE v[i].last <= m
    <3>1. CASE i = k + 1
      BY <2>5, <2>9, <3>1
    <3>2. CASE i # k + 1
      <4>1. i \in 1 .. k
        BY <3>2
      <4>2. o[i].last <= t.nxt
        BY <2>1, <2>6, <2>8, <4>1 DEF SentWithin
      <4>3. o[i] \in SegmentsOf(total)
        BY <2>8, <4>1, ElementOfSeq
      <4>4. o[i].last \in Nat
        BY <4>3 DEF SegmentsOf
      <4> QED
        BY <2>4, <2>5, <2>9, <2>15, <4>1, <4>2, <4>4
    <3> QED
      BY <3>1, <3>2
  <2>17. ASSUME HoldsHeaders(s.nxt), HoldsHeaders(total)
         PROVE  HoldsHeaders(m) /\ \A i \in 1 .. k + 1 : HeaderSize <= v[i].last
    <3>1. HeaderSize <= m
      BY <2>2, <2>4, <2>5, <2>17
    <3>2. ASSUME NEW i \in 1 .. k + 1 PROVE HeaderSize <= v[i].last
      <4>1. CASE i = k + 1
        BY <2>5, <2>9, <3>1, <4>1
      <4>2. CASE i # k + 1
        <5>1. i \in 1 .. k
          BY <4>2
        <5> QED
          BY <2>6, <2>8, <2>9, <2>17, <5>1 DEF SentWithin
      <4> QED
        BY <4>1, <4>2
    <3> QED
      BY <3>1, <3>2 DEF HoldsHeaders
  <2>18. s.nxt <= m
    BY <2>2, <2>4, <2>5, <2>15
  <2> QED
    BY <2>2, <2>4, <2>5, <2>9, <2>11, <2>13, <2>14, <2>16, <2>17, <2>18 DEF SentWithin
<1> QED
  BY <1>1, <1>2

(* SendPendingData keeps the positions in order; the loop ends within total *)
(* rounds.                                                                  *)
LEMMA SendResult ==
  ASSUME NEW total \in Nat, NEW s \in Sockets, s.nxt <= total
  PROVE  LET q == SendPendingData(s, total)
         IN  q \in Sendings(total) /\ SentWithin(s, q, total)
<1> DEFINE Start0 == [s |-> s, out |-> <<>>]
           V == {r \in Sendings(total) : SentWithin(s, r, total)}
           F == [r \in V |-> Round(r, total)]
           W == [i \in 0 .. total |-> V]
           Body(r) == IF CanSend(r.s, total)
                      THEN [s |-> [r.s EXCEPT !.nxt = NextSegment(r.s, total).last],
                            out |-> Append(r.out, NextSegment(r.s, total))]
                      ELSE r
           Of(g) == [i \in 0 .. total |->
                       IF i = 0 THEN Start0
                       ELSE CHOOSE q \in {Body(r) : r \in {g[i - 1]}} : TRUE]
<1>1. \A r : Body(r) = Round(r, total)
  BY DEF Round
<1>2. SendPendingData(s, total) = (CHOOSE g : g = Of(g))[total]
  BY DEF SendPendingData
<1> HIDE DEF Body
<1>3. \A x : (CHOOSE q \in {Body(r) : r \in {x}} : TRUE) = Round(x, total)
  BY <1>1
<1>4. Start0 \in V
  <2>1. PICK e \in Seq(SegmentsOf(total)) : e = <<>>
    BY EmptySeq
  <2>2. PICK q \in Sendings(total) : q = [s |-> s, out |-> e]
    BY DEF Sendings
  <2>3. q.s = s /\ q.out = <<>> /\ Len(<<>>) = 0 /\ q = Start0
    BY <2>1, <2>2
  <2>4. s.nxt \in Nat
    BY DEF Sockets
  <2>5. SentWithin(s, q, total)
    BY <2>3, <2>4 DEF SentWithin
  <2> QED
    BY <2>3, <2>5
<1>5. \A x \in V : F[x] = Round(x, total) /\ F[x] \in V
  BY RoundResult
<1>6. \A i \in 0 .. total : W[i] = V
  OBVIOUS
<1> HIDE DEF V, F, W, Start0
<1>7. PICK g : IsRun(g, total, Start0, F) /\ \A i \in 0 .. total : g[i] \in W[i] /\ g[i] \in V
  <2>1. \A i \in 1 .. total : i - 1 \in 0 .. total /\ i \in 0 .. total
    OBVIOUS
  <2>2. 0 \in 0 .. total
    OBVIOUS
  <2>3. Invariants(total, V, Start0, F, W)
    BY <1>4, <1>5, <1>6, <2>1, <2>2 DEF Invariants
  <2> QED
    BY <2>3, Loop, Zenon
<1>8. g = Of(g)
  <2>1. ASSUME NEW i \in 0 .. total, i # 0
        PROVE  F[g[i - 1]] = CHOOSE q \in {Body(r) : r \in {g[i - 1]}} : TRUE
    <3>1. i - 1 \in 0 .. total
      BY <2>1
    <3>2. g[i - 1] \in V
      BY <1>7, <3>1
    <3> QED
      BY <1>3, <1>5, <3>2
  <2> QED
    BY <1>7, <2>1 DEF IsRun
<1>9. PICK h : h = (CHOOSE e : e = Of(e)) /\ h = Of(h)
  BY <1>8
<1>10. h[0] = Start0 /\ \A i \in 1 .. total : h[i] = Round(h[i - 1], total)
  <2>1. \A i \in 0 .. total : h[i] = IF i = 0 THEN Start0 ELSE CHOOSE q \in {Body(r) : r \in {h[i - 1]}} : TRUE
    BY <1>9, Zenon
  <2>2. 0 \in 0 .. total /\ \A i \in 1 .. total : i \in 0 .. total /\ i # 0
    OBVIOUS
  <2> QED
    BY <1>3, <2>1, <2>2
<1>11. \A i \in 0 .. total : h[i] \in W[i]
  <2>1. ASSUME NEW i \in 1 .. total, h[i - 1] \in W[i - 1] PROVE h[i] \in W[i]
    <3>1. i - 1 \in 0 .. total /\ i \in 0 .. total
      OBVIOUS
    <3>2. h[i - 1] \in V
      BY <1>6, <2>1, <3>1
    <3>3. h[i] \in V
      BY <1>5, <1>10, <3>2
    <3> QED
      BY <1>6, <3>1, <3>3
  <2>2. h[0] \in W[0]
    BY <1>4, <1>6, <1>10
  <2> QED
    BY <2>1, <2>2, Stays
<1>12. SendPendingData(s, total) \in V
  <2>1. total \in 0 .. total
    OBVIOUS
  <2> QED
    BY <1>2, <1>6, <1>9, <1>11, <2>1
<1> QED
  BY <1>12 DEF V

-----------------------------------------------------------------------------
(* The inductive invariant. *)

\* The position up to which the client has room.
Edge(c, r) == r + Free(c)

(* The packets q acknowledge, each at least as much as the one before it,   *)
(* between una and r, and none promises room beyond e.                      *)
PacketsIn(q, una, r, e) ==
  /\ q \in Seq(Packets)
  /\ \A i \in 1 .. Len(q) : una <= q[i].ack /\ q[i].ack <= r /\ q[i].ack + q[i].win <= e
  /\ \A i, j \in 1 .. Len(q) : i <= j => q[i].ack <= q[j].ack

(* What is acknowledged was received, what was received was sent or is the  *)
(* probe, and what was sent has room up to e.                               *)
Positions(s, r, e, total) ==
  /\ s \in Sockets /\ s.una <= s.nxt /\ s.nxt <= total /\ s.nxt <= e
  /\ r \in Nat /\ s.una <= r /\ r <= s.nxt + 1 /\ r <= total

(* The segments q end with what was sent, or with the probe.                *)
SegmentsIn(q, nxt, total) ==
  q \in Seq(SegmentsOf(total)) /\ \A i \in 1 .. Len(q) : q[i].last <= nxt + 1

(* Until the first data arrive the window is open, and they hold the        *)
(* headers of a message; then the parser knows the size of one.             *)
FirstData(c, q, sg, s, r, total) ==
  /\ r = 0 =>
       /\ c.rx = <<>> /\ s.window = RxCapacity
       /\ \A i \in 1 .. Len(q) : q[i].win = RxCapacity
       /\ HoldsHeaders(s.nxt) /\ \A i \in 1 .. Len(sg) : HeaderSize <= sg[i].last
  /\ c.msgSize = 0 => r = 0
  /\ HoldsHeaders(total)

(* A client that has asked for nothing has nothing under way.               *)
Silent(c) ==
  /\ ~ c.pending /\ c.player.wakeups = <<>> /\ c.player.checks = 0
  /\ c.delayed = 0 /\ ~ c.keepAlive

(* Nothing happens before the first request, and then the client stays      *)
(* connected.                                                               *)
Quiet(c, q, sg, st, da) ==
  IF c.segmentId = 0 THEN Silent(c) /\ q = <<>> /\ sg = <<>> /\ st = <<>> /\ da = 0
  ELSE c.socket = "ESTABLISHED"

Net(c, q, st, sg, s, r, da) ==
  /\ st \in Seq(D!StreamUnits) /\ da \in 0 .. 1
  /\ PacketsIn(q, s.una, r, Edge(c, r))
  /\ Positions(s, r, Edge(c, r), Len(st))
  /\ SegmentsIn(sg, s.nxt, Len(st))
  /\ FirstData(c, q, sg, s, r, Len(st))
  /\ Quiet(c, q, sg, st, da)

FlowInv ==
  /\ D!Inv
  /\ Net(client, packets, stream, segs, server, rcv, delAck)
  /\ plays \in 0 .. KeepAliveFrames

-----------------------------------------------------------------------------
(* What the steps leave. *)

(* The packets t, sent now, follow those on their way.                      *)
LEMMA PacketsFollow ==
  ASSUME NEW q, NEW una \in Nat, NEW r \in Nat, NEW e \in Nat, PacketsIn(q, una, r, e),
         NEW x \in Nat, NEW f \in Nat, una <= r, r <= x, e <= f,
         NEW t \in Seq(Packets),
         \A i \in 1 .. Len(t) : t[i].ack = x /\ x + t[i].win <= f
  PROVE  PacketsIn(q \o t, una, x, f)
<1>1. PICK p \in Seq(Packets) : p = q
  BY DEF PacketsIn
<1>2. PICK m \in Nat, n \in Nat : m = Len(p) /\ n = Len(t)
  BY LenProperties
<1>3. PICK v \in Seq(Packets) : v = p \o t
  BY ConcatProperties
<1>4. Len(v) = m + n /\ \A i \in 1 .. m + n : v[i] = IF i <= m THEN p[i] ELSE t[i - m]
  BY <1>2, <1>3, ConcatProperties
<1>5. ASSUME NEW i \in 1 .. m
      PROVE  /\ una <= p[i].ack /\ p[i].ack <= r /\ p[i].ack + p[i].win <= e
             /\ p[i].ack \in Nat /\ p[i].win \in Nat
  <2>1. PICK z \in Packets : z = p[i]
    BY <1>2, ElementOfSeq
  <2>2. z.ack \in Nat /\ z.win \in Nat
    BY FlowAssumption DEF Packets
  <2> QED
    BY <1>1, <1>2, <2>1, <2>2 DEF PacketsIn
<1>6. ASSUME NEW i \in 1 .. m + n, ~ (i <= m)
      PROVE  v[i].ack = x /\ x + v[i].win <= f
  <2>1. i - m \in 1 .. n
    BY <1>6
  <2> QED
    BY <1>2, <1>4, <1>6, <2>1
<1>7. ASSUME NEW i \in 1 .. m + n
      PROVE  una <= v[i].ack /\ v[i].ack <= x /\ v[i].ack + v[i].win <= f
  <2>1. CASE i <= m
    <3>1. i \in 1 .. m /\ v[i] = p[i]
      BY <1>4, <2>1
    <3>2. PICK a \in Nat, w \in Nat : a = p[i].ack /\ w = p[i].win
      BY <1>5, <3>1
    <3>3. una <= a /\ a <= r /\ a + w <= e
      BY <1>5, <3>1, <3>2
    <3>4. una <= a /\ a <= x /\ a + w <= f
      BY <3>3
    <3> QED
      BY <3>1, <3>2, <3>4
  <2>2. CASE ~ (i <= m)
    BY <1>6, <2>2
  <2> QED
    BY <2>1, <2>2
<1>8. ASSUME NEW i \in 1 .. m + n, NEW j \in 1 .. m + n, i <= j
      PROVE  v[i].ack <= v[j].ack
  <2>1. CASE j <= m
    <3>1. i \in 1 .. m /\ j \in 1 .. m
      BY <1>8, <2>1
    <3>a. i <= m /\ i \in 1 .. m + n /\ j <= m /\ j \in 1 .. m + n
      BY <3>1
    <3>2. v[i] = p[i] /\ v[j] = p[j]
      BY <1>4, <3>a
    <3> QED
      BY <1>1, <1>2, <1>8, <3>1, <3>2 DEF PacketsIn
  <2>2. CASE ~ (j <= m)
    BY <1>6, <1>7, <2>2
  <2> QED
    BY <2>1, <2>2
<1> QED
  BY <1>1, <1>2, <1>3, <1>4, <1>7, <1>8 DEF PacketsIn

(* The packets behind the first.                                            *)
LEMMA PacketsBehind ==
  ASSUME NEW q, NEW una \in Nat, NEW r \in Nat, NEW e \in Nat, PacketsIn(q, una, r, e),
         q # <<>>
  PROVE  LET p == Head(q)
         IN  /\ p \in Packets /\ una <= p.ack /\ p.ack <= r /\ p.ack + p.win <= e
             /\ PacketsIn(Tail(q), p.ack, r, e)
<1>1. PICK v \in Seq(Packets) : v = q
  BY DEF PacketsIn
<1>a. PICK k \in Nat : k = Len(v)
  BY LenProperties
<1>b. k # 0
  BY <1>1, <1>a, EmptySeq
<1>2. PICK n \in Nat : n = Len(v) - 1 /\ Len(v) = n + 1
  BY <1>a, <1>b
<1>3. PICK t \in Seq(Packets) : t = Tail(v)
  BY <1>1, HeadTailProperties
<1>4. Len(t) = n /\ (\A i \in 1 .. n : t[i] = v[i + 1]) /\ Head(v) = v[1] /\ Head(v) \in Packets
  BY <1>1, <1>2, <1>3, HeadTailProperties
<1>5. \A i \in 1 .. n + 1 : una <= v[i].ack /\ v[i].ack <= r /\ v[i].ack + v[i].win <= e
  BY <1>1, <1>2 DEF PacketsIn
<1>6. \A i, j \in 1 .. n + 1 : i <= j => v[i].ack <= v[j].ack
  BY <1>1, <1>2 DEF PacketsIn
<1>7. 1 \in 1 .. n + 1 /\ \A i \in 1 .. n : i + 1 \in 1 .. n + 1 /\ 1 <= i + 1
  OBVIOUS
<1>8. \A i \in 1 .. n : v[1].ack <= t[i].ack /\ t[i].ack <= r /\ t[i].ack + t[i].win <= e
  BY <1>4, <1>5, <1>6, <1>7
<1>9. ASSUME NEW i \in 1 .. n, NEW j \in 1 .. n, i <= j PROVE t[i].ack <= t[j].ack
  <2>1. i + 1 <= j + 1
    BY <1>9
  <2> QED
    BY <1>4, <1>6, <1>7, <2>1
<1>10. PacketsIn(t, v[1].ack, r, e)
  BY <1>4, <1>8, <1>9 DEF PacketsIn
<1> QED
  BY <1>1, <1>3, <1>4, <1>5, <1>7, <1>10

-----------------------------------------------------------------------------
(* What a step of either side leaves. *)

(* What the packets t say that the client d sends after it received x.      *)
SentAt(t, d, x) ==
  t \in Seq(Packets) /\ \A i \in 1 .. Len(t) : t[i].ack = x /\ t[i].win = Free(d)

(* The client d has received x, having been c with r: it has not taken back *)
(* room, and knows the size of a message when it has received anything.     *)
Advances(c, d, r, x) ==
  /\ r <= x /\ Edge(c, r) <= Edge(d, x)
  /\ Free(c) \in 0 .. RxCapacity /\ Free(d) \in 0 .. RxCapacity
  /\ x = 0 => d.rx = <<>>
  /\ d.msgSize = 0 => x = 0

(* A step of the client c, which leaves it as d, keeps the invariant when the*)
(* packets t it sends say what it has received and what it has free.        *)
LEMMA ClientMoves ==
  ASSUME NEW c, NEW q, NEW st, NEW sg, NEW s, NEW r, NEW da, Net(c, q, st, sg, s, r, da),
         NEW d, NEW x \in Nat, NEW t, NEW sf, NEW db \in 0 .. 1,
         Advances(c, d, r, x), SentAt(t, d, x), x <= s.nxt + 1, x <= Len(st),
         SegmentsIn(sf, s.nxt, Len(st)),
         x = 0 => \A i \in 1 .. Len(sf) : HeaderSize <= sf[i].last,
         Quiet(d, q \o t, sf, st, db)
  PROVE  Net(d, q \o t, st, sf, s, x, db)
<1>1. /\ st \in Seq(D!StreamUnits) /\ PacketsIn(q, s.una, r, Edge(c, r))
      /\ Positions(s, r, Edge(c, r), Len(st)) /\ FirstData(c, q, sg, s, r, Len(st))
  BY DEF Net
<1>2. PICK una \in Nat, nxt \in Nat, e \in Nat, f \in Nat, l \in Nat :
        una = s.una /\ nxt = s.nxt /\ e = Edge(c, r) /\ f = Edge(d, x) /\ l = Len(st)
  <2>1. s.una \in Nat /\ s.nxt \in Nat /\ r \in Nat
    BY <1>1 DEF Positions, Sockets
  <2>2. Edge(c, r) \in Nat /\ Edge(d, x) \in Nat
    BY <2>1, FlowAssumption DEF Advances, Edge
  <2>3. Len(st) \in Nat
    BY <1>1, LenProperties
  <2> QED
    BY <2>1, <2>2, <2>3
<1>3. r \in Nat /\ una <= nxt /\ nxt <= l /\ nxt <= e /\ una <= r
  BY <1>1, <1>2 DEF Positions
<1>4. r <= x /\ e <= f /\ x <= nxt + 1 /\ x <= l
  BY <1>2 DEF Advances
<1>5. PacketsIn(q \o t, una, x, f)
  <2>1. PacketsIn(q, una, r, e) /\ t \in Seq(Packets)
    BY <1>1, <1>2 DEF SentAt
  <2>2. \A i \in 1 .. Len(t) : t[i].ack = x /\ x + t[i].win <= f
    BY <1>2 DEF SentAt, Edge
  <2> QED
    BY <1>3, <1>4, <2>1, <2>2, PacketsFollow
<1>6. Positions(s, x, f, l)
  BY <1>1, <1>2, <1>3, <1>4 DEF Positions
<1>7. FirstData(d, q \o t, sf, s, x, l)
  <2>1. ASSUME x = 0
        PROVE  /\ d.rx = <<>> /\ s.window = RxCapacity
               /\ \A i \in 1 .. Len(q \o t) : (q \o t)[i].win = RxCapacity
               /\ HoldsHeaders(s.nxt) /\ \A i \in 1 .. Len(sf) : HeaderSize <= sf[i].last
    <3>1. r = 0 /\ d.rx = <<>>
      BY <1>3, <1>4, <2>1 DEF Advances
    <3>2. /\ s.window = RxCapacity /\ HoldsHeaders(s.nxt)
          /\ \A i \in 1 .. Len(q) : q[i].win = RxCapacity
      BY <1>1, <3>1 DEF FirstData
    <3>3. Free(d) = RxCapacity
      BY <3>1, FlowAssumption DEF Free
    <3>4. \A i \in 1 .. Len(t) : t[i].win = RxCapacity
      BY <3>3 DEF SentAt
    <3>5. ASSUME NEW i \in 1 .. Len(q \o t) PROVE (q \o t)[i].win = RxCapacity
      <4>1. PICK a \in Seq(Packets), b \in Seq(Packets) : a = q /\ b = t
        BY <1>1 DEF PacketsIn, SentAt
      <4>2. PICK m \in Nat, n \in Nat : m = Len(a) /\ n = Len(b)
        BY LenProperties
      <4>3. PICK v \in Seq(Packets) : v = a \o b
        BY ConcatProperties
      <4>4. /\ Len(v) = m + n
            /\ \A j \in 1 .. m + n : v[j] = IF j <= m THEN a[j] ELSE b[j - m]
        BY <4>2, <4>3, ConcatProperties
      <4>5. i \in 1 .. m + n
        BY <4>1, <4>3, <4>4
      <4>6. CASE i <= m
        <5>1. i \in 1 .. Len(q) /\ v[i] = q[i]
          BY <4>1, <4>2, <4>4, <4>5, <4>6
        <5> QED
          BY <3>2, <4>1, <4>3, <5>1
      <4>7. CASE ~ (i <= m)
        <5>a. v[i] = b[i - m] /\ i - m \in 1 .. n
          BY <4>4, <4>5, <4>7
        <5>1. i - m \in 1 .. Len(t) /\ v[i] = t[i - m]
          BY <4>1, <4>2, <5>a
        <5> QED
          BY <3>4, <4>1, <4>3, <5>1
      <4> QED
        BY <4>6, <4>7
    <3> QED
      BY <2>1, <3>1, <3>2, <3>5
  <2>2. HoldsHeaders(l)
    BY <1>1, <1>2 DEF FirstData
  <2> QED
    BY <2>1, <2>2 DEF FirstData, Advances
<1> QED
  BY <1>1, <1>2, <1>5, <1>6, <1>7 DEF Net

(* The window and the acknowledgement of the packet p taken.                *)
LEMMA UpdateResult ==
  ASSUME NEW s \in Sockets, NEW p \in Packets, s.una <= p.ack, s.una <= s.nxt
  PROVE  LET u == UpdateWindow(s, p)
         IN  /\ u \in Sockets /\ u.nxt = s.nxt /\ u.window = p.win
             /\ s.una <= u.una /\ u.una <= p.ack /\ u.una <= u.nxt
<1>1. PICK una \in Nat, nxt \in Nat, a \in Nat, w \in 0 .. RxCapacity :
        una = s.una /\ nxt = s.nxt /\ a = p.ack /\ w = p.win
  BY DEF Sockets, Packets
<1>2. PICK n \in Nat : n = IF a \in una .. nxt THEN a ELSE una
  OBVIOUS
<1>3. UpdateWindow(s, p) = [s EXCEPT !.window = w, !.una = n]
  BY <1>1, <1>2 DEF UpdateWindow, Sockets
<1>4. PICK u \in Sockets : u = [s EXCEPT !.window = w, !.una = n]
  BY DEF Sockets
<1>5. u.nxt = nxt /\ u.window = w /\ u.una = n
  BY <1>1, <1>4 DEF Sockets
<1>6. una <= n /\ n <= a /\ n <= nxt
  BY <1>1, <1>2
<1> QED
  BY <1>1, <1>3, <1>4, <1>5, <1>6

(* The server has read the packet p, and the packets rest are then on their *)
(* way; it has added units to the stream.                                   *)
LEMMA ServerMoves ==
  ASSUME NEW c, NEW q, NEW st, NEW sg, NEW s, NEW r, NEW da, Net(c, q, st, sg, s, r, da),
         q # <<>>, Free(c) \in 0 .. RxCapacity,
         NEW units \in Seq(D!StreamUnits), HoldsHeaders(Len(units)),
         NEW z, z = SendPendingData(UpdateWindow(s, Head(q)), Len(st) + Len(units)),
         NEW rest, PacketsIn(rest, Head(q).ack, r, Edge(c, r)),
         r = 0 => \A i \in 1 .. Len(rest) : rest[i].win = RxCapacity
  PROVE  Net(c, rest, st \o units, sg \o z.out, z.s, r, da)
<1>1. /\ st \in Seq(D!StreamUnits) /\ PacketsIn(q, s.una, r, Edge(c, r)) /\ da \in 0 .. 1
      /\ Positions(s, r, Edge(c, r), Len(st)) /\ FirstData(c, q, sg, s, r, Len(st))
      /\ SegmentsIn(sg, s.nxt, Len(st)) /\ Quiet(c, q, sg, st, da)
  BY DEF Net
<1>2. PICK una \in Nat, nxt \in Nat, e \in Nat, l \in Nat, n \in Nat :
        una = s.una /\ nxt = s.nxt /\ e = Edge(c, r) /\ l = Len(st) /\ n = Len(units)
  BY <1>1, FlowAssumption, LenProperties, SMTT(20) DEF Positions, Sockets, Edge
<1>3. s \in Sockets /\ r \in Nat /\ una <= nxt /\ nxt <= l /\ nxt <= e /\ una <= r
      /\ r <= nxt + 1 /\ r <= l
  BY <1>1, <1>2 DEF Positions
<1>4. PICK p \in Packets : p = Head(q)
  BY <1>1, <1>2, <1>3, PacketsBehind
<1>5. una <= p.ack /\ p.ack <= r /\ p.ack + p.win <= e
  <2>1. PacketsIn(q, una, r, e)
    BY <1>1, <1>2
  <2> QED
    BY <1>3, <1>4, <2>1, PacketsBehind
<1>6. PICK a \in Nat, w \in Nat : a = p.ack /\ w = p.win
  BY FlowAssumption DEF Packets
<1>7. PICK u \in Sockets : u = UpdateWindow(s, p)
  BY <1>2, <1>3, <1>5, UpdateResult
<1>8. u.nxt = s.nxt /\ u.window = p.win /\ s.una <= u.una /\ u.una <= p.ack /\ u.una <= u.nxt
  BY <1>2, <1>3, <1>5, <1>7, UpdateResult
<1>9. PICK v \in Nat : v = u.una
  BY DEF Sockets
<1>10. una <= v /\ v <= a /\ v <= nxt
  BY <1>2, <1>6, <1>8, <1>9
<1>11. PICK total \in Nat : total = l + n
  OBVIOUS
<1>12. z = SendPendingData(u, total)
  BY <1>2, <1>4, <1>7, <1>11
<1>13. z \in Sendings(total) /\ SentWithin(u, z, total)
  BY <1>2, <1>3, <1>8, <1>11, <1>12, SendResult, SMTT(20)
<1>14. PICK y \in Sockets, o \in Seq(SegmentsOf(total)) : y = z.s /\ o = z.out
  BY <1>13 DEF Sendings
<1>15. PICK m \in Nat : m = y.nxt
  BY DEF Sockets
<1>16. /\ y.una = v /\ y.window = w /\ nxt <= m /\ m <= total /\ (m = nxt \/ m <= v + w)
       /\ \A i \in 1 .. Len(o) : o[i].last <= m
       /\ HoldsHeaders(nxt) /\ HoldsHeaders(total) =>
            HoldsHeaders(m) /\ \A i \in 1 .. Len(o) : HeaderSize <= o[i].last
  BY <1>2, <1>6, <1>8, <1>9, <1>13, <1>14, <1>15 DEF SentWithin
<1>17. PICK sw \in Seq(D!StreamUnits) : sw = st \o units
  BY <1>1, ConcatProperties
<1>18. Len(sw) = total
  BY <1>1, <1>2, <1>11, <1>17, ConcatProperties
<1>19. Positions(y, r, e, total)
  <2>a. a <= r /\ a + w <= e
    BY <1>5, <1>6
  <2>b. nxt <= m /\ (m = nxt \/ m <= v + w)
    BY <1>16
  <2>c. r \in Nat /\ nxt <= e /\ r <= nxt + 1 /\ r <= l
    BY <1>3
  <2>1. m <= e
    BY <1>10, <2>a, <2>b, <2>c
  <2>2. v <= m /\ v <= r /\ r <= m + 1 /\ r <= total
    BY <1>10, <1>11, <2>a, <2>b, <2>c
  <2> QED
    BY <1>3, <1>15, <1>16, <2>1, <2>2 DEF Positions
<1>20. PacketsIn(rest, v, r, e)
  <2>1. PacketsIn(rest, a, r, e)
    BY <1>2, <1>4, <1>6
  <2>2. ASSUME NEW i \in 1 .. Len(rest) PROVE v <= rest[i].ack
    <3>1. PICK t \in Seq(Packets) : t = rest
      BY <2>1 DEF PacketsIn
    <3>2. t[i] \in Packets
      BY <3>1, ElementOfSeq
    <3>3. PICK b \in Nat : b = rest[i].ack
      BY <3>1, <3>2 DEF Packets
    <3>4. a <= b
      BY <2>1, <3>3 DEF PacketsIn
    <3> QED
      BY <1>10, <3>3, <3>4, SMTT(20)
  <2> QED
    BY <2>1, <2>2 DEF PacketsIn
<1>21. SegmentsIn(sg \o o, m, total) /\ Len(sg \o o) = Len(sg) + Len(o)
       /\ \A i \in 1 .. Len(sg \o o) :
            (sg \o o)[i] = IF i <= Len(sg) THEN sg[i] ELSE o[i - Len(sg)]
  <2>1. SegmentsOf(l) \subseteq SegmentsOf(total)
    BY <1>11 DEF SegmentsOf
  <2>2. sg \in Seq(SegmentsOf(l))
    BY <1>1, <1>2 DEF SegmentsIn
  <2>3. PICK g \in Seq(SegmentsOf(total)) : g = sg
    BY <2>1, <2>2, SeqMonotonic
  <2>4. PICK j \in Nat, k \in Nat : j = Len(g) /\ k = Len(o)
    BY LenProperties
  <2>5. PICK h \in Seq(SegmentsOf(total)) : h = g \o o
    BY ConcatProperties
  <2>6. /\ Len(h) = j + k
        /\ \A i \in 1 .. j + k : h[i] = IF i <= j THEN g[i] ELSE o[i - j]
    BY <2>4, <2>5, ConcatProperties
  <2>7. ASSUME NEW i \in 1 .. j + k PROVE h[i].last <= m + 1
    <3>1. PICK b \in Nat : b = h[i].last
      <4>1. h[i] \in SegmentsOf(total)
        BY <2>6, ElementOfSeq
      <4> QED
        BY <4>1 DEF SegmentsOf
    <3>2. CASE i <= j
      <4>1. i \in 1 .. Len(sg) /\ h[i] = sg[i]
        BY <2>3, <2>4, <2>6, <3>2
      <4>2. b <= nxt + 1
        BY <1>1, <1>2, <3>1, <4>1 DEF SegmentsIn
      <4> QED
        BY <1>16, <3>1, <4>2, SMTT(20)
    <3>3. CASE ~ (i <= j)
      <4>a. i - j \in 1 .. k /\ h[i] = o[i - j]
        BY <2>6, <3>3
      <4>1. i - j \in 1 .. Len(o)
        BY <2>4, <4>a
      <4>2. b <= m
        BY <1>16, <3>1, <4>a, <4>1
      <4> QED
        BY <3>1, <4>2, SMTT(20)
    <3> QED
      BY <3>2, <3>3
  <2> QED
    BY <2>3, <2>4, <2>5, <2>6, <2>7 DEF SegmentsIn
<1>22. HoldsHeaders(total)
  <2>1. HoldsHeaders(l) /\ HoldsHeaders(n)
    BY <1>1, <1>2 DEF FirstData
  <2> QED
    BY <1>11, <2>1, FlowAssumption, SMTT(20) DEF HoldsHeaders
<1>23. FirstData(c, rest, sg \o o, y, r, total)
  <2>1. ASSUME r = 0
        PROVE  /\ c.rx = <<>> /\ y.window = RxCapacity
               /\ \A i \in 1 .. Len(rest) : rest[i].win = RxCapacity
               /\ HoldsHeaders(y.nxt)
               /\ \A i \in 1 .. Len(sg \o o) : HeaderSize <= (sg \o o)[i].last
    <3>1. /\ c.rx = <<>> /\ HoldsHeaders(nxt) /\ \A i \in 1 .. Len(q) : q[i].win = RxCapacity
          /\ \A i \in 1 .. Len(sg) : HeaderSize <= sg[i].last
      BY <1>1, <1>2, <2>1 DEF FirstData
    <3>2. p = q[1] /\ 1 \in 1 .. Len(q)
      <4>1. PICK t \in Seq(Packets) : t = q
        BY <1>1 DEF PacketsIn
      <4>2. Len(t) \in Nat \ {0} /\ Head(t) = t[1]
        BY <4>1, EmptySeq, HeadTailProperties
      <4> QED
        BY <1>4, <4>1, <4>2
    <3>3. y.window = RxCapacity
      BY <1>6, <1>16, <3>1, <3>2
    <3>4. HoldsHeaders(m) /\ \A i \in 1 .. Len(o) : HeaderSize <= o[i].last
      BY <1>16, <1>22, <3>1
    <3>5. ASSUME NEW i \in 1 .. Len(sg \o o) PROVE HeaderSize <= (sg \o o)[i].last
      <4>1. PICK j \in Nat, k \in Nat : j = Len(sg) /\ k = Len(o)
        <5>1. sg \in Seq(SegmentsOf(l))
          BY <1>1, <1>2 DEF SegmentsIn
        <5> QED
          BY <5>1, LenProperties
      <4>2. i \in 1 .. j + k
        BY <1>21, <4>1
      <4>3. CASE i <= j
        BY <1>21, <3>1, <4>1, <4>2, <4>3
      <4>4. CASE ~ (i <= j)
        <5>1. i - j \in 1 .. Len(o)
          BY <4>1, <4>2, <4>4
        <5> QED
          BY <1>21, <3>4, <4>1, <4>2, <4>4, <5>1
      <4> QED
        BY <4>3, <4>4
    <3> QED
      BY <1>15, <2>1, <3>1, <3>3, <3>4, <3>5
  <2>2. c.msgSize = 0 => r = 0
    BY <1>1 DEF FirstData
  <2> QED
    BY <1>22, <2>1, <2>2 DEF FirstData
<1>24. Quiet(c, rest, sg \o o, sw, da)
  BY <1>1 DEF Quiet
<1> QED
  BY <1>1, <1>2, <1>14, <1>15, <1>16, <1>17, <1>18, <1>19, <1>20, <1>21, <1>23, <1>24 DEF Net

-----------------------------------------------------------------------------
(* What the client sends. *)

(* Packets carry messages.                                                  *)
LEMMA PacketsCarry == Carriers(Packets)
<1>1. Packets \subseteq Mail
  BY DEF Mail
<1> HIDE DEF Mail, Packets
<1> QED
  BY <1>1, MailCarries DEF Carriers

(* An acknowledgement, or none.                                             *)
AnAck(a) == a = <<>> \/ a = <<Ack>>

(* The client d, which has received x, sends the messages o in packets      *)
(* behind those of q, and a before them.                                    *)
Sent(q, a, o, d, x) ==
  LET t == Sends(a \o o, d, x)
  IN  /\ SentAt(t, d, x) /\ q \o t \in Seq(Packets)
      /\ Messages(q \o t) = Messages(q) \o o
      /\ a \o o = <<>> => t = <<>>

(* What the client sends acknowledges, and carries its messages.            *)
LEMMA SentMessages ==
  ASSUME NEW q \in Seq(Packets), NEW a, AnAck(a), NEW o \in Seq(Carried),
         NEW d, NEW x \in Nat, Free(d) \in 0 .. RxCapacity
  PROVE  Sent(q, a, o, d, x)
<1>1. a \in Seq(Mail) /\ Messages(a) = <<>> /\ a \in Seq(Carried \union {Ack})
  <2>1. CASE a = <<>>
    <3>1. a \in Seq(Mail) /\ Len(a) = 0 /\ a \in Seq(Carried \union {Ack})
      BY <2>1, EmptySeq
    <3>2. \A i \in 1 .. Len(a) : Content(a[i]) = <<>>
      BY <3>1
    <3> QED
      BY <3>1, <3>2, MailCarries, NoMessages
  <2>2. CASE a = <<Ack>>
    <3>1. Ack \in Mail /\ Ack \in Carried \union {Ack} /\ Content(Ack) = <<>>
      BY DEF Mail, Ack, Content
    <3>2. a \in Seq(Mail) /\ a \in Seq(Carried \union {Ack})
      BY <2>2, <3>1
    <3>3. \A i \in 1 .. Len(a) : Content(a[i]) = <<>>
      <4>1. Len(a) = 1 /\ a[1] = Ack
        BY <2>2
      <4> QED
        BY <3>1, <4>1
    <3> QED
      BY <3>2, <3>3, MailCarries, NoMessages
  <2> QED
    BY <2>1, <2>2 DEF AnAck
<1>2. o \in Seq(Mail) /\ Messages(o) = o /\ o \in Seq(Carried \union {Ack})
  <2>1. Carried \subseteq Carried \union {Ack}
    OBVIOUS
  <2> HIDE DEF Carried
  <2> QED
    BY <2>1, CarryThemselves, SeqMonotonic
<1>3. Messages(a \o o) = o
  <2>1. Messages(a \o o) = Messages(a) \o Messages(o)
    BY <1>1, <1>2, MailCarries, MessagesOfBoth
  <2>2. <<>> \o o = o
    BY ConcatEmptySeq
  <2> QED
    BY <1>1, <1>2, <2>1, <2>2
<1>4. PICK out \in Seq(Carried \union {Ack}) : out = a \o o
  BY <1>1, <1>2, ConcatProperties
<1>5. PICK t \in Seq(Packets) : t = Sends(out, d, x)
  BY SendsResult
<1>6. Len(t) = Len(out) /\ Messages(t) = Messages(out)
      /\ \A i \in 1 .. Len(t) : t[i].ack = x /\ t[i].win = Free(d)
  BY <1>5, SendsResult
<1>7. Messages(q \o t) = Messages(q) \o Messages(t)
  BY PacketsCarry, MessagesOfBoth
<1>8. q \o t \in Seq(Packets)
  BY ConcatProperties
<1>9. out = <<>> => t = <<>>
  BY <1>6, EmptySeq
<1> QED
  BY <1>3, <1>4, <1>5, <1>6, <1>7, <1>8, <1>9 DEF Sent, SentAt

(* The client d between its handlers.                                       *)
LEMMA ClientIs ==
  ASSUME NEW d, NEW tc, NEW ts, NEW sv, D!Sound(d, tc, ts, sv, 0), D!ParserSettled(d)
  PROVE  /\ d \in D!Clients /\ d.rx \in Seq(D!StreamUnits) /\ d.out \in Seq(Carried)
         /\ Len(d.rx) \in Nat /\ Len(d.rx) <= RxCapacity /\ Free(d) \in 0 .. RxCapacity
         /\ d.segmentId \in Nat
<1>1. d \in D!Clients
  BY ClientConstants, D!SoundFields
<1>2. d.rx \in Seq(D!StreamUnits) /\ d.out \in Seq(D!ServerMessages) /\ d.segmentId \in Nat
  BY <1>1, FlowAssumption DEF D!Clients
<1>3. D!ServerMessages \subseteq Carried
  BY DEF D!ServerMessages, Carried
<1>4. d.out \in Seq(Carried)
  BY <1>2, <1>3, SeqMonotonic
<1>5. Len(d.rx) <= RxCapacity
  BY DEF D!ParserSettled, D!ParserSound
<1>6. Len(d.rx) \in Nat
  BY <1>2, LenProperties
<1> QED
  BY <1>1, <1>2, <1>4, <1>5, <1>6, FlowAssumption DEF Free

(* What FlowInv says of the client.                                         *)
LEMMA InvClient ==
  ASSUME FlowInv
  PROVE  /\ D!Sound(client, Behind(stream, rcv), Messages(packets), served, 0)
         /\ D!ParserSettled(client) /\ client.out = <<>>
         /\ client \in D!Clients /\ client.rx \in Seq(D!StreamUnits)
         /\ Len(client.rx) \in Nat /\ Len(client.rx) <= RxCapacity
         /\ Free(client) \in 0 .. RxCapacity /\ client.segmentId \in Nat
<1>1. /\ D!Sound(client, Behind(stream, rcv), Messages(packets), served, 0)
      /\ D!ParserSettled(client) /\ client.out = <<>>
  BY DEF FlowInv, D!Inv, Behind
<1> QED
  BY <1>1, ClientIs

(* What an event leaves of the client, d, before what it sent is gone.      *)
Comes(d) ==
  /\ D!Sound(d, Behind(stream, rcv), Messages(packets), served, 0) /\ D!ParserSettled(d)
  /\ d.rx = client.rx \/ d.rx = <<>>
  /\ client.msgSize # 0 => d.msgSize # 0

(* The client d has asked for nothing and sent nothing, or it is connected. *)
Lives(d) ==
  IF d.segmentId = 0 THEN client.segmentId = 0 /\ d.out = <<>> /\ Silent(d)
  ELSE d.socket = "ESTABLISHED" /\ (client.segmentId > 0 \/ d.out # <<>>)

(* The invariant of the network after a step.                               *)
NetNext == Net(client', packets', stream', segs', server', rcv', delAck')

(* Nothing but the client and what it sends changes in its module.          *)
Elsewhere == UNCHANGED <<SubSeq(stream, rcv + 1, Len(stream)), served>>

(* An event of the client leaves an invariant network, and is an event of   *)
(* DashClient.                                                              *)
LEMMA EventStep ==
  ASSUME FlowInv, NEW d, ClientEvent(d), Comes(d), Lives(d)
  PROVE  NetNext /\ C!Becomes(d) /\ Elsewhere
<1>1. /\ Net(client, packets, stream, segs, server, rcv, delAck)
      /\ Free(client) \in 0 .. RxCapacity /\ Len(client.rx) \in Nat
      /\ client.segmentId \in Nat
  BY InvClient DEF FlowInv
<1>2. /\ d \in D!Clients /\ d.out \in Seq(Carried) /\ Free(d) \in 0 .. RxCapacity
      /\ d.segmentId \in Nat /\ Len(d.rx) \in Nat
  BY ClientIs DEF Comes
<1>3. packets \in Seq(Packets) /\ rcv \in Nat /\ rcv <= server.nxt + 1 /\ rcv <= Len(stream)
  BY <1>1 DEF Net, PacketsIn, Positions
<1>4. PICK e : e = [d EXCEPT !.out = <<>>]
  OBVIOUS
<1>5. /\ e.rx = d.rx /\ e.msgSize = d.msgSize /\ e.segmentId = d.segmentId
      /\ e.socket = d.socket /\ e.pending = d.pending /\ e.player = d.player
      /\ e.delayed = d.delayed /\ e.keepAlive = d.keepAlive
  BY <1>2, <1>4 DEF D!Clients
<1>6. PICK o \in Seq(Carried) : o = <<>> \o d.out /\ o = d.out
  BY <1>2, ConcatEmptySeq
<1>7. PICK t : t = Sends(o, d, rcv)
  OBVIOUS
<1>8. /\ SentAt(t, d, rcv) /\ packets \o t \in Seq(Packets)
      /\ Messages(packets \o t) = Messages(packets) \o o /\ (o = <<>> => t = <<>>)
  <2> DEFINE a == <<>>
  <2>1. AnAck(a) /\ o = a \o o
    BY <1>6, ConcatEmptySeq DEF AnAck
  <2> HIDE DEF a
  <2>2. Sent(packets, a, o, d, rcv)
    BY <1>2, <1>3, <2>1, SentMessages
  <2>3. t = Sends(a \o o, d, rcv)
    BY <1>7, <2>1
  <2> QED
    BY <2>1, <2>2, <2>3 DEF Sent
<1>9. /\ client' = e /\ packets' = packets \o t
      /\ delAck' = (IF d.out # <<>> THEN 0 ELSE delAck) /\ served' = served
      /\ stream' = stream /\ segs' = segs /\ server' = server /\ rcv' = rcv
  BY <1>4, <1>6, <1>7 DEF ClientEvent, Becomes, Sends
<1>10. Advances(client, e, rcv, rcv)
  <2>1. Free(e) = Free(d)
    BY <1>5 DEF Free
  <2>2. Free(client) <= Free(d)
    <3>1. Len(<<>>) = 0
      OBVIOUS
    <3>2. Len(d.rx) <= Len(client.rx)
      BY <1>1, <3>1 DEF Comes
    <3> QED
      BY <1>1, <1>2, <3>2, FlowAssumption DEF Free
  <2>3. e.msgSize = 0 => rcv = 0
    BY <1>1, <1>5 DEF Comes, Net, FirstData
  <2>4. rcv = 0 => e.rx = <<>>
    BY <1>1, <1>5 DEF Comes, Net, FirstData
  <2>5. Edge(client, rcv) <= Edge(e, rcv)
    BY <1>1, <1>2, <1>3, <2>1, <2>2 DEF Edge
  <2> QED
    BY <1>1, <1>2, <1>3, <2>1, <2>3, <2>4, <2>5 DEF Advances
<1>11. SentAt(t, e, rcv)
  BY <1>5, <1>8 DEF SentAt, Free
<1>12. PICK db \in 0 .. 1 : db = delAck'
  BY <1>1, <1>9 DEF Net
<1>13. Quiet(e, packets \o t, segs, stream, db)
  <2>1. CASE d.segmentId = 0
    <3>1. client.segmentId = 0 /\ d.out = <<>> /\ Silent(d)
      BY <2>1 DEF Lives
    <3>2. packets = <<>> /\ segs = <<>> /\ stream = <<>> /\ delAck = 0
      BY <1>1, <3>1 DEF Net, Quiet
    <3>3. packets \o t = <<>> /\ db = 0
      BY <1>6, <1>8, <1>9, <1>12, <3>1, <3>2
    <3> QED
      BY <1>5, <2>1, <3>1, <3>2, <3>3 DEF Quiet, Silent
  <2>2. CASE d.segmentId # 0
    BY <1>5, <2>2 DEF Quiet, Lives
  <2> QED
    BY <2>1, <2>2
<1>14. Net(e, packets \o t, stream, segs, server, rcv, db)
  <2>1. SegmentsIn(segs, server.nxt, Len(stream))
        /\ (rcv = 0 => \A i \in 1 .. Len(segs) : HeaderSize <= segs[i].last)
    BY <1>1 DEF Net, FirstData
  <2> QED
    BY <1>1, <1>3, <1>10, <1>11, <1>13, <2>1, ClientMoves
<1>15. C!Becomes(d)
  <2>1. Messages(packets)' = Messages(packets) \o d.out
    BY <1>6, <1>8, <1>9
  <2>2. (client.segmentId > 0)' = (client.segmentId > 0 \/ d.out # <<>>)
    <3>1. client'.segmentId = d.segmentId
      BY <1>5, <1>9
    <3>2. CASE d.segmentId = 0
      BY <1>1, <3>1, <3>2 DEF Lives
    <3>3. CASE d.segmentId # 0
      <4>1. d.segmentId > 0 /\ (client.segmentId > 0 \/ d.out # <<>>)
        BY <1>2, <3>3 DEF Lives
      <4> QED
        BY <3>1, <4>1
    <3> QED
      BY <3>2, <3>3
  <2> QED
    BY <1>4, <1>9, <2>1, <2>2 DEF C!Becomes
<1>16. Elsewhere
  BY <1>9 DEF Elsewhere
<1> QED
  BY <1>9, <1>12, <1>14, <1>15, <1>16 DEF NetNext

-----------------------------------------------------------------------------
(* The events of the client. *)

(* The step is one of DashClient and keeps the invariant of the network.    *)
Implements == NetNext /\ (C!Next \/ UNCHANGED C!vars)

(* A client with something under way has asked for a segment.               *)
LEMMA Awake ==
  ASSUME FlowInv, ~ Silent(client)
  PROVE  client.segmentId > 0 /\ client.socket = "ESTABLISHED"
<1>1. Quiet(client, packets, segs, stream, delAck) /\ client.segmentId \in Nat
  BY InvClient DEF FlowInv, Net
<1> QED
  BY <1>1 DEF Quiet

(* A client that has asked for a segment goes on.                           *)
LEMMA GoesOn ==
  ASSUME FlowInv, NEW d, client.segmentId > 0, client.socket = "ESTABLISHED",
         d.socket = client.socket, D!Moves(client, d)
  PROVE  Lives(d)
<1>1. client.segmentId \in Nat
  BY InvClient
<1>2. d.segmentId # 0
  BY <1>1 DEF D!Moves
<1> QED
  BY <1>2 DEF Lives

(* The events that leave TCP alone are those of DashClient of the same name.*)
LEMMA StartStep == ASSUME FlowInv, Start PROVE Implements
<1>1. /\ D!Sound(client, Behind(stream, rcv), Messages(packets), served, 0)
      /\ D!ParserSettled(client) /\ client.out = <<>> /\ client \in D!Clients
      /\ client.socket = "NULL"
  BY InvClient DEF Start
<1>2. PICK d : d = C!StartApplication(client) /\ d = D!StartApplication(client)
  BY SameStartApplication
<1>3. D!Sound(d, Behind(stream, rcv), Messages(packets), served, 0) /\ D!ParserSettled(d)
  BY <1>1, <1>2, ClientConstants, D!StartResult
<1>4. /\ d.rx = <<>> /\ d.msgSize = client.msgSize /\ d.out = client.out
      /\ d.segmentId = client.segmentId /\ d.pending = client.pending
      /\ d.player = client.player /\ d.delayed = client.delayed
      /\ d.keepAlive = client.keepAlive
  BY <1>1, <1>2 DEF D!StartApplication, D!Clients
<1>5. Comes(d)
  BY <1>3, <1>4 DEF Comes
<1>6. Lives(d)
  <2>1. Quiet(client, packets, segs, stream, delAck)
    BY DEF FlowInv, Net
  <2>2. client.segmentId = 0 /\ Silent(client)
    BY <1>1, <2>1 DEF Quiet
  <2> QED
    BY <1>1, <1>4, <2>2 DEF Lives, Silent
<1>7. ClientEvent(d)
  BY <1>2 DEF Start
<1>8. NetNext /\ C!Becomes(d) /\ Elsewhere
  BY <1>5, <1>6, <1>7, EventStep
<1>9. C!Start
  BY <1>1, <1>2, <1>8 DEF C!Start, Elsewhere
<1> QED
  BY <1>8, <1>9 DEF Implements, C!Next

(* The connection stands, and the first request is sent.                    *)
LEMMA ConnectedStep == ASSUME FlowInv, Connected PROVE Implements
<1>1. /\ D!Sound(client, Behind(stream, rcv), Messages(packets), served, 0)
      /\ D!ParserSettled(client) /\ client.out = <<>> /\ client \in D!Clients
      /\ client.socket = "SYN_SENT"
  BY InvClient DEF Connected
<1>2. PICK d : d = C!ConnectionSucceeded(client) /\ d = D!ConnectionSucceeded(client)
  BY SameConnectionSucceeded
<1>3. D!Sound(d, Behind(stream, rcv), Messages(packets), served, 0) /\ D!ParserSettled(d)
  BY <1>1, <1>2, ClientConstants, D!ConnectedResult
<1>4. client.segmentId = 0 /\ Silent(client)
  <2>1. Quiet(client, packets, segs, stream, delAck)
    BY DEF FlowInv, Net
  <2> QED
    BY <1>1, <2>1 DEF Quiet
<1>5. /\ d.rx = client.rx /\ d.msgSize = client.msgSize /\ d.segmentId = 1
      /\ d.socket = "ESTABLISHED" /\ d.out # <<>>
  <2> DEFINE e == [client EXCEPT !.socket = "ESTABLISHED", !.connected = TRUE]
  <2>1. /\ e \in D!Clients /\ e.rx = client.rx /\ e.msgSize = client.msgSize
        /\ e.segmentId = 0 /\ e.socket = "ESTABLISHED" /\ e.connected /\ ~ e.pending
        /\ e.out = <<>>
    BY <1>1, <1>4 DEF D!Clients, Silent
  <2>2. d = D!RequestSegment(e)
    BY <1>2 DEF D!ConnectionSucceeded
  <2> HIDE DEF e
  <2>3. d = D!SendRequest(e) /\ D!CanSend(e)
    BY <2>1, <2>2 DEF D!RequestSegment, D!CanSend
  <2>4. PICK m : m = [kind |-> "REQUEST", seg |-> e.segmentId, rate |-> e.bitRate]
    OBVIOUS
  <2>5. d = [e EXCEPT !.out = Append(e.out, m), !.pending = TRUE,
                      !.segmentId = e.segmentId + 1, !.segmentBytes = 0]
    BY <2>3, <2>4 DEF D!SendRequest
  <2>6. PICK o : o = Append(e.out, m)
    OBVIOUS
  <2>7. o # <<>>
    <3>1. o = <<m>>
      BY <2>1, <2>6
    <3> QED
      BY <3>1
  <2>8. d = [e EXCEPT !.out = o, !.pending = TRUE,
                      !.segmentId = e.segmentId + 1, !.segmentBytes = 0]
    BY <2>5, <2>6
  <2>9. /\ d.rx = e.rx /\ d.msgSize = e.msgSize /\ d.segmentId = e.segmentId + 1
        /\ d.socket = e.socket /\ d.out = o
    BY <2>1, <2>8 DEF D!Clients
  <2> QED
    BY <2>1, <2>7, <2>9
<1>6. Comes(d)
  BY <1>3, <1>5 DEF Comes
<1>7. Lives(d)
  BY <1>5 DEF Lives
<1>8. ClientEvent(d)
  BY <1>2 DEF Connected
<1>9. NetNext /\ C!Becomes(d) /\ Elsewhere
  BY <1>6, <1>7, <1>8, EventStep
<1>10. C!Connected
  BY <1>1, <1>2, <1>9 DEF C!Connected, Elsewhere
<1> QED
  BY <1>9, <1>10 DEF Implements, C!Next

(* PlayFrame frees room in the player.                                      *)
LEMMA PlayFrameStep == ASSUME FlowInv, FirePlayFrame PROVE Implements
<1>1. /\ D!Sound(client, Behind(stream, rcv), Messages(packets), served, 0)
      /\ D!ParserSettled(client) /\ client \in D!Clients
      /\ client.player.wakeups # <<>> /\ client.player.checks = 0
  BY InvClient DEF FirePlayFrame
<1>2. client.segmentId > 0 /\ client.socket = "ESTABLISHED"
  BY <1>1, Awake DEF Silent
<1>3. PICK p : p = C!P!PlayFrame(C!P!Unschedule(client.player, 1), 0)
  OBVIOUS
<1>4. p = D!P!PlayFrame(D!P!Unschedule(client.player, 1), 0)
  BY <1>3, SamePlayFrame, SameUnschedule
<1>5. PICK d : d = [client EXCEPT !.player = p]
  OBVIOUS
<1>6. /\ D!Sound(d, Behind(stream, rcv), Messages(packets), served, 0)
      /\ D!ParserSettled(d) /\ D!Moves(client, d)
  <2>1. d = [client EXCEPT !.player = D!P!PlayFrame(D!P!Unschedule(client.player, 1), 0)]
    BY <1>4, <1>5
  <2> QED
    BY <1>1, <2>1, ClientConstants, D!PlayResult
<1>7. d.rx = client.rx /\ d.msgSize = client.msgSize /\ d.socket = client.socket
  BY <1>1, <1>5 DEF D!Clients
<1>8. Comes(d) /\ Lives(d)
  BY <1>2, <1>6, <1>7, GoesOn DEF Comes
<1>9. ClientEvent(d)
  BY <1>3, <1>5 DEF FirePlayFrame
<1>10. NetNext /\ C!Becomes(d) /\ Elsewhere
  BY <1>8, <1>9, EventStep
<1>11. C!FirePlayFrame
  BY <1>1, <1>3, <1>5, <1>10 DEF C!FirePlayFrame, Elsewhere
<1> QED
  BY <1>10, <1>11 DEF Implements, C!Next

(* CheckBuffer may read the socket, which frees room in it.                 *)
LEMMA CheckBufferStep == ASSUME FlowInv, FireCheckBuffer PROVE Implements
<1>1. /\ D!Sound(client, Behind(stream, rcv), Messages(packets), served, 0)
      /\ D!ParserSettled(client) /\ client \in D!Clients
      /\ client.player.checks > 0
  BY InvClient DEF FireCheckBuffer
<1>2. client.segmentId > 0 /\ client.socket = "ESTABLISHED"
  <2>1. client.player.checks # 0
    BY <1>1
  <2> QED
    BY <2>1, Awake DEF Silent
<1>3. PICK next \in C!Choices :
        ClientEvent(C!ReadSocket([client EXCEPT !.player.checks = client.player.checks - 1], next))
  BY DEF FireCheckBuffer
<1>4. PICK p : p = [client.player EXCEPT !.checks = client.player.checks - 1]
  OBVIOUS
<1>5. PICK e : e = [client EXCEPT !.player = p]
  OBVIOUS
<1>6. e = [client EXCEPT !.player.checks = client.player.checks - 1]
  BY <1>4, <1>5
<1>7. PICK d : d = C!ReadSocket(e, next) /\ d = D!ReadSocket(e, next)
  BY SameReadSocket
<1>8. next \in D!Choices
  BY <1>3 DEF C!Choices, D!Choices
<1>9. /\ D!Sound(d, Behind(stream, rcv), Messages(packets), served, 0)
      /\ D!ParserSettled(d) /\ D!Moves(client, d) /\ D!Receives(client, d, client.rx)
  <2>1. d = D!ReadSocket([client EXCEPT !.player =
                            [client.player EXCEPT !.checks = client.player.checks - 1]], next)
    BY <1>4, <1>5, <1>7
  <2> QED
    BY <1>1, <1>8, <2>1, ClientConstants, D!CheckResult
<1>10. Comes(d) /\ Lives(d)
  BY <1>2, <1>9, GoesOn DEF Comes, D!Receives
<1>11. ClientEvent(d)
  BY <1>3, <1>6, <1>7
<1>12. NetNext /\ C!Becomes(d) /\ Elsewhere
  BY <1>10, <1>11, EventStep
<1>13. C!FireCheckBuffer
  BY <1>1, <1>3, <1>6, <1>7, <1>12 DEF C!FireCheckBuffer, Elsewhere
<1> QED
  BY <1>12, <1>13 DEF Implements, C!Next

(* RequestSegment, which was delayed.                                       *)
LEMMA RequestStep == ASSUME FlowInv, FireRequestSegment PROVE Implements
<1>1. /\ D!Sound(client, Behind(stream, rcv), Messages(packets), served, 0)
      /\ D!ParserSettled(client) /\ client \in D!Clients /\ client.delayed > 0
  BY InvClient DEF FireRequestSegment
<1>2. client.segmentId > 0 /\ client.socket = "ESTABLISHED"
  <2>1. client.delayed # 0
    BY <1>1
  <2> QED
    BY <2>1, Awake DEF Silent
<1>3. PICK n : n = client.delayed - 1
  OBVIOUS
<1>4. PICK e : e = [client EXCEPT !.delayed = n]
  OBVIOUS
<1>5. PICK d : d = C!RequestSegment(e) /\ d = D!RequestSegment(e)
  BY SameRequestSegment
<1>6. /\ D!Sound(d, Behind(stream, rcv), Messages(packets), served, 0)
      /\ D!ParserSettled(d) /\ D!Moves(client, d)
  <2>1. d = D!RequestSegment([client EXCEPT !.delayed = client.delayed - 1])
    BY <1>3, <1>4, <1>5
  <2> QED
    BY <1>1, <2>1, ClientConstants, D!DelayedResult
<1>7. d.rx = client.rx /\ d.msgSize = client.msgSize /\ d.socket = client.socket
  <2>1. /\ e \in D!Clients
        /\ e.rx = client.rx /\ e.msgSize = client.msgSize /\ e.socket = client.socket
    <3>1. client.delayed \in Nat /\ n \in Nat
      BY <1>1, <1>3 DEF D!Clients
    <3> QED
      BY <1>1, <1>4, <3>1 DEF D!Clients
  <2>2. PICK o, k : o = Append(e.out, [kind |-> "REQUEST", seg |-> e.segmentId, rate |-> e.bitRate])
                    /\ k = e.segmentId + 1
    OBVIOUS
  <2>3. \/ d = e \/ d = [e EXCEPT !.pending = TRUE] \/ d = [e EXCEPT !.aborted = TRUE]
        \/ d = [e EXCEPT !.out = o, !.pending = TRUE, !.segmentId = k, !.segmentBytes = 0]
    BY <1>5, <2>2 DEF D!RequestSegment, D!SendRequest
  <2>4. d.rx = e.rx /\ d.msgSize = e.msgSize /\ d.socket = e.socket
    BY <2>1, <2>3 DEF D!Clients
  <2> QED
    BY <2>1, <2>4
<1>8. Comes(d) /\ Lives(d)
  BY <1>2, <1>6, <1>7, GoesOn DEF Comes
<1>9. ClientEvent(d)
  BY <1>3, <1>4, <1>5 DEF FireRequestSegment
<1>10. NetNext /\ C!Becomes(d) /\ Elsewhere
  BY <1>8, <1>9, EventStep
<1>11. C!FireRequestSegment
  BY <1>1, <1>3, <1>4, <1>5, <1>10 DEF C!FireRequestSegment, Elsewhere
<1> QED
  BY <1>10, <1>11 DEF Implements, C!Next

(* The keep-alive sends a blank message.                                    *)
LEMMA KeepAliveStep == ASSUME FlowInv, FireKeepAlive PROVE Implements
<1>1. /\ D!Sound(client, Behind(stream, rcv), Messages(packets), served, 0)
      /\ D!ParserSettled(client) /\ client \in D!Clients /\ client.keepAlive
  BY InvClient DEF FireKeepAlive
<1>2. client.segmentId > 0 /\ client.socket = "ESTABLISHED"
  BY <1>1, Awake DEF Silent
<1>3. PICK e : e = [client EXCEPT !.keepAlive = FALSE]
  OBVIOUS
<1>4. PICK d : d = C!SendBlank(e) /\ d = D!SendBlank(e)
  BY SameSendBlank
<1>5. /\ D!Sound(d, Behind(stream, rcv), Messages(packets), served, 0)
      /\ D!ParserSettled(d) /\ D!Moves(client, d)
  <2>1. d = D!SendBlank([client EXCEPT !.keepAlive = FALSE]) /\ FALSE \in BOOLEAN
    BY <1>3, <1>4
  <2> QED
    BY <1>1, <2>1, ClientConstants, D!KeepAliveResult
<1>6. d.rx = client.rx /\ d.msgSize = client.msgSize /\ d.socket = client.socket
  <2>1. /\ e \in D!Clients
        /\ e.rx = client.rx /\ e.msgSize = client.msgSize /\ e.socket = client.socket
    BY <1>1, <1>3 DEF D!Clients
  <2>2. PICK o : o = Append(e.out, D!Blank)
    OBVIOUS
  <2>3. d = e \/ d = [e EXCEPT !.out = o]
    BY <1>4, <2>2 DEF D!SendBlank
  <2>4. d.rx = e.rx /\ d.msgSize = e.msgSize /\ d.socket = e.socket
    BY <2>1, <2>3 DEF D!Clients
  <2> QED
    BY <2>1, <2>4
<1>7. Comes(d) /\ Lives(d)
  BY <1>2, <1>5, <1>6, GoesOn DEF Comes
<1>8. ClientEvent(d)
  BY <1>3, <1>4 DEF FireKeepAlive
<1>9. NetNext /\ C!Becomes(d) /\ Elsewhere
  BY <1>7, <1>8, EventStep
<1>10. C!FireKeepAlive
  BY <1>1, <1>3, <1>4, <1>9 DEF C!FireKeepAlive, Elsewhere
<1> QED
  BY <1>9, <1>10 DEF Implements, C!Next

-----------------------------------------------------------------------------
(* The client receives. *)

(* The segments behind the first.                                           *)
LEMMA SegmentsBehind ==
  ASSUME NEW q, NEW nxt \in Nat, NEW total \in Nat, SegmentsIn(q, nxt, total), q # <<>>
  PROVE  /\ Head(q) \in SegmentsOf(total) /\ Head(q).last <= nxt + 1
         /\ SegmentsIn(Tail(q), nxt, total)
         /\ \A h : (\A i \in 1 .. Len(q) : h <= q[i].last) =>
              /\ h <= Head(q).last
              /\ \A i \in 1 .. Len(Tail(q)) : h <= Tail(q)[i].last
<1>1. PICK v \in Seq(SegmentsOf(total)) : v = q
  BY DEF SegmentsIn
<1>a. PICK k \in Nat : k = Len(v)
  BY LenProperties
<1>b. k # 0
  BY <1>1, <1>a, EmptySeq
<1>2. PICK n \in Nat : n = Len(v) - 1 /\ Len(v) = n + 1
  BY <1>a, <1>b
<1>3. PICK t \in Seq(SegmentsOf(total)) : t = Tail(v)
  BY <1>1, HeadTailProperties
<1>4. /\ Len(t) = n /\ (\A i \in 1 .. n : t[i] = v[i + 1]) /\ Head(v) = v[1]
      /\ Head(v) \in SegmentsOf(total)
  BY <1>1, <1>2, <1>3, HeadTailProperties
<1>5. \A i \in 1 .. n + 1 : v[i].last <= nxt + 1
  BY <1>1, <1>2 DEF SegmentsIn
<1>6. 1 \in 1 .. n + 1 /\ \A i \in 1 .. n : i + 1 \in 1 .. n + 1
  OBVIOUS
<1>7. SegmentsIn(t, nxt, total)
  BY <1>4, <1>5, <1>6 DEF SegmentsIn
<1>8. ASSUME NEW h, \A i \in 1 .. n + 1 : h <= v[i].last
      PROVE  h <= Head(v).last /\ \A i \in 1 .. Len(t) : h <= t[i].last
  BY <1>4, <1>6, <1>8
<1> QED
  BY <1>1, <1>2, <1>3, <1>4, <1>5, <1>6, <1>7, <1>8

(* TCP hands the next n units to the client, up to u.                       *)
Arrives(n, u) ==
  /\ n \in 1 .. RxCapacity /\ u \in Nat /\ u = rcv + n
  /\ u <= server.nxt + 1 /\ u <= Len(stream) /\ Len(client.rx) + n <= RxCapacity
  /\ client.msgSize = 0 => n >= HeaderSize

(* What TCP hands to the client when a segment has something new for it.    *)
LEMMA RoomResult ==
  ASSUME FlowInv, segs # <<>>, Room(Head(segs)) > rcv
  PROVE  \E n : Arrives(n, Room(Head(segs)))
<1>1. Net(client, packets, stream, segs, server, rcv, delAck)
  BY DEF FlowInv
<1>2. PICK nxt \in Nat, l \in Nat, r \in Nat : nxt = server.nxt /\ l = Len(stream) /\ r = rcv
  BY <1>1, LenProperties DEF Net, Positions, Sockets
<1>3. SegmentsIn(segs, nxt, l)
  BY <1>1, <1>2 DEF Net
<1>4. PICK g \in SegmentsOf(l) : g = Head(segs)
  BY <1>3, SegmentsBehind
<1>5. PICK last \in Nat : last = g.last /\ last <= l
  BY DEF SegmentsOf
<1>6. last <= nxt + 1
  BY <1>3, <1>4, <1>5, SegmentsBehind
<1>7. PICK x \in Nat : x = Len(client.rx) /\ x <= RxCapacity
  BY InvClient
<1>8. PICK k \in Nat, h \in Nat : k = RxCapacity /\ h = HeaderSize /\ h <= k /\ x <= k
  BY <1>7, FlowAssumption
<1>e. PICK e \in Nat : e = (r + k) - x /\ e + x = r + k
  BY <1>8
<1>9. PICK u \in Nat : u = IF last < e THEN last ELSE e
  OBVIOUS
<1>10. Room(Head(segs)) = u
  BY <1>2, <1>4, <1>5, <1>7, <1>8, <1>e, <1>9 DEF Room, Smaller
<1>11. r < u
  BY <1>2, <1>10
<1>12. PICK n \in Nat : n = u - r
  BY <1>11
<1>a. u <= last /\ u <= e
  BY ONLY <1>9, last \in Nat, e \in Nat
<1>13. u <= last /\ x + n <= k /\ n \in 1 .. k /\ u = r + n
  BY ONLY <1>a, <1>e, <1>11, <1>12, x \in Nat, k \in Nat, r \in Nat, n \in Nat, u \in Nat, e \in Nat
<1>14. ASSUME client.msgSize = 0 PROVE n >= h
  <2>1. r = 0 /\ client.rx = <<>> /\ \A i \in 1 .. Len(segs) : HeaderSize <= segs[i].last
    BY <1>1, <1>2, <1>14 DEF Net, FirstData
  <2>2. h <= last
    BY <1>3, <1>4, <1>5, <1>8, <2>1, SegmentsBehind
  <2>3. x = 0
    BY <1>7, <2>1
  <2> QED
    BY <1>8, <1>e, <1>9, <1>12, <2>1, <2>2, <2>3
<1>15. u <= nxt + 1 /\ u <= l
  BY <1>5, <1>6, <1>13
<1>16. Arrives(n, u)
  BY <1>2, <1>7, <1>8, <1>13, <1>14, <1>15 DEF Arrives
<1> QED
  BY <1>10, <1>16

(* The units handed to the client are the next n of those that have not     *)
(* arrived.                                                                 *)
LEMMA NextUnits ==
  ASSUME FlowInv, NEW n, NEW u, Arrives(n, u)
  PROVE  LET tc == Behind(stream, rcv)
             x == client.rx \o UpTo(tc, n)
         IN  /\ n <= Len(tc) /\ UpTo(tc, n) = SubSeq(stream, rcv + 1, u)
             /\ Behind(tc, n) = Behind(stream, u)
             /\ x \in Seq(D!StreamUnits) /\ Len(x) = Len(client.rx) + n
<1>1. stream \in Seq(D!StreamUnits) /\ rcv \in Nat
  BY DEF FlowInv, Net, Positions
<1>2. PICK l \in Nat : l = Len(stream)
  BY <1>1, LenProperties
<1>3. n \in Nat /\ u = rcv + n /\ rcv + n <= l
  BY <1>2 DEF Arrives
<1>4. CutsBehind(stream, rcv, n)
  BY <1>1, <1>2, <1>3, CutBehind
<1>5. PICK v \in Seq(D!StreamUnits) : v = SubSeq(stream, rcv + 1, u)
  <2>1. SubSeq(stream, rcv + 1, u) \in Seq(D!StreamUnits)
    BY <1>1, <1>2, <1>3, Cut
  <2> QED
    BY <2>1
<1>6. Len(v) = n
  <2>1. IsCut(v, stream, rcv, u)
    BY <1>1, <1>2, <1>3, <1>5, Cut
  <2> QED
    BY <1>1, <1>3, <2>1 DEF IsCut
<1>7. client.rx \o v \in Seq(D!StreamUnits) /\ Len(client.rx \o v) = Len(client.rx) + n
  <2>1. PICK w \in Seq(D!StreamUnits) : w = client.rx
    BY InvClient
  <2>2. w \o v \in Seq(D!StreamUnits) /\ Len(w \o v) = Len(w) + Len(v)
    BY ONLY <2>1, v \in Seq(D!StreamUnits), ConcatProperties
  <2> QED
    BY <1>6, <2>1, <2>2
<1>8. /\ Len(Behind(stream, rcv)) = l - rcv /\ UpTo(Behind(stream, rcv), n) = v
      /\ Behind(Behind(stream, rcv), n) = Behind(stream, u)
  BY <1>2, <1>3, <1>4, <1>5 DEF CutsBehind
<1>9. n <= Len(Behind(stream, rcv))
  BY <1>1, <1>3, <1>8
<1> QED
  BY <1>5, <1>7, <1>8, <1>9

(* The data units that arrive are a Deliver of DashClient; with them the    *)
(* client acknowledges, whatever it sends.                                  *)
LEMMA ReceivedStep ==
  ASSUME FlowInv, segs # <<>>, segs' = Tail(segs), UNCHANGED <<served, stream, server>>,
         Room(Head(segs)) > rcv, ReceivedData(Room(Head(segs)))
  PROVE  Implements
<1>1. /\ Net(client, packets, stream, segs, server, rcv, delAck)
      /\ D!Sound(client, Behind(stream, rcv), Messages(packets), served, 0)
      /\ D!ParserSettled(client) /\ client \in D!Clients
      /\ Free(client) \in 0 .. RxCapacity /\ Len(client.rx) \in Nat
      /\ client.segmentId \in Nat
  BY InvClient DEF FlowInv
<1>2. client.segmentId > 0 /\ client.socket = "ESTABLISHED"
  <2>1. Quiet(client, packets, segs, stream, delAck)
    BY <1>1 DEF Net
  <2> QED
    BY <1>1, <2>1 DEF Quiet
<1>3. PICK u, n : u = Room(Head(segs)) /\ Arrives(n, u)
  BY RoomResult
<1>4. /\ n \in 1 .. RxCapacity /\ u \in Nat /\ u = rcv + n /\ u <= server.nxt + 1
      /\ u <= Len(stream) /\ Len(client.rx) + n <= RxCapacity
      /\ client.msgSize = 0 => n >= HeaderSize
  BY <1>3 DEF Arrives
<1>5. PICK tc : tc = Behind(stream, rcv)
  OBVIOUS
<1>6. PICK x \in Seq(D!StreamUnits) : x = client.rx \o UpTo(tc, n)
  BY <1>3, <1>5, NextUnits
<1>7. /\ n <= Len(tc) /\ UpTo(tc, n) = SubSeq(stream, rcv + 1, u)
      /\ Behind(tc, n) = Behind(stream, u) /\ Len(x) = Len(client.rx) + n
  BY <1>3, <1>5, <1>6, NextUnits
<1>8. PICK next \in C!Choices :
        \E d \in {C!HandleRead([client EXCEPT !.rx = x], next)} :
          LET out == (IF delAck = 1 THEN <<Ack>> ELSE <<>>) \o d.out
          IN  /\ client' = [d EXCEPT !.out = <<>>]
              /\ packets' = packets \o [i \in 1 .. Len(out) |-> Packet(out[i], d, u)]
              /\ delAck' = IF out = <<>> THEN 1 ELSE 0
              /\ rcv' = u /\ plays' = 0
  <2>1. PICK c : c = [client EXCEPT !.rx = client.rx \o SubSeq(stream, rcv + 1, u)]
    OBVIOUS
  <2>2. c = [client EXCEPT !.rx = x]
    BY <1>6, <1>7, <2>1
  <2>3. PICK next \in C!Choices :
          \E d \in {C!HandleRead(c, next)} :
            LET out == (IF delAck = 1 THEN <<Ack>> ELSE <<>>) \o d.out
            IN  /\ client' = [d EXCEPT !.out = <<>>]
                /\ packets' = packets \o [i \in 1 .. Len(out) |-> Packet(out[i], d, u)]
                /\ delAck' = IF out = <<>> THEN 1 ELSE 0
                /\ rcv' = u /\ plays' = 0
    <3>1. ReceivedData(u)
      BY <1>3
    <3> QED
      BY <2>1, <3>1, Zenon DEF ReceivedData
  <2> QED
    BY <2>2, <2>3
<1>9. PICK d : d = C!HandleRead([client EXCEPT !.rx = x], next)
               /\ d = D!HandleRead([client EXCEPT !.rx = x], next)
  BY SameHandleRead
<1>10. PICK a : a = IF delAck = 1 THEN <<Ack>> ELSE <<>>
  OBVIOUS
<1>11. PICK t : t = Sends(a \o d.out, d, u)
  OBVIOUS
<1>12. /\ client' = [d EXCEPT !.out = <<>>] /\ packets' = packets \o t
       /\ delAck' = (IF a \o d.out = <<>> THEN 1 ELSE 0) /\ rcv' = u
  BY <1>8, <1>9, <1>10, <1>11 DEF Sends
<1>13. /\ D!Sound(d, Behind(stream, u), Messages(packets), served, 0)
       /\ D!ParserSettled(d) /\ D!Moves(client, d) /\ D!Receives(client, d, x)
  <2>1. n \in Nat /\ next \in D!Choices
    BY <1>4 DEF C!Choices, D!Choices
  <2>2. d = D!HandleRead([client EXCEPT !.rx = client.rx \o SubSeq(tc, 1, n)], next)
    BY <1>6, <1>9 DEF UpTo
  <2>3. D!Sound(client, tc, Messages(packets), served, 0)
    BY <1>1, <1>5
  <2>4. /\ D!Sound(d, SubSeq(tc, n + 1, Len(tc)), Messages(packets), served, 0)
        /\ D!ParserSettled(d) /\ D!Moves(client, d)
        /\ D!Receives(client, d, client.rx \o SubSeq(tc, 1, n))
    BY <1>1, <1>4, <1>7, <2>1, <2>2, <2>3, ClientConstants, D!DeliverResult
  <2>5. SubSeq(tc, n + 1, Len(tc)) = Behind(stream, u)
    BY <1>7 DEF Behind
  <2> QED
    BY <1>6, <2>4, <2>5 DEF UpTo
<1>14. /\ d \in D!Clients /\ d.out \in Seq(Carried) /\ Free(d) \in 0 .. RxCapacity
       /\ d.segmentId \in Nat /\ Len(d.rx) \in Nat
  BY <1>13, ClientIs
<1>15. PICK e : e = [d EXCEPT !.out = <<>>]
  OBVIOUS
<1>16. /\ e.rx = d.rx /\ e.msgSize = d.msgSize /\ e.segmentId = d.segmentId
       /\ e.socket = d.socket
  BY <1>14, <1>15 DEF D!Clients
<1>17. packets \in Seq(Packets) /\ rcv \in Nat
  BY <1>1 DEF Net, PacketsIn, Positions
<1>18. Sent(packets, a, d.out, d, u)
  <2>1. AnAck(a)
    BY <1>10 DEF AnAck
  <2> QED
    BY <1>4, <1>14, <1>17, <2>1, SentMessages
<1>19. SentAt(t, e, u) /\ Messages(packets \o t) = Messages(packets) \o d.out
  <2>1. SentAt(t, d, u) /\ Messages(packets \o t) = Messages(packets) \o d.out
    BY <1>11, <1>18 DEF Sent
  <2> QED
    BY <1>16, <2>1 DEF SentAt, Free
<1>20. d.socket = "ESTABLISHED" /\ d.msgSize # 0 /\ d.segmentId > 0
  <2>1. x # <<>>
    <3>1. Len(x) # 0
      BY <1>1, <1>4, <1>7
    <3> QED
      BY <3>1
  <2>2. d.segmentId > 0
    BY <1>1, <1>2, <1>13, <1>14 DEF D!Moves
  <2> QED
    BY <1>2, <1>13, <2>1, <2>2 DEF D!Receives
<1>21. Advances(client, e, rcv, u)
  <2>1. PICK j \in Nat, k \in Nat, l \in Nat, m \in Nat, r \in Nat :
          j = Len(client.rx) /\ k = Len(d.rx) /\ l = RxCapacity /\ m = n /\ r = rcv
    BY <1>1, <1>4, <1>14, <1>17, FlowAssumption, SMTT(20)
  <2>2. k <= j + m
    <3>1. Len(<<>>) = 0
      OBVIOUS
    <3>2. CASE d.rx = x
      BY <1>7, <2>1, <3>2
    <3>3. CASE d.rx = <<>>
      BY <2>1, <3>1, <3>3
    <3> QED
      BY <1>13, <3>2, <3>3 DEF D!Receives
  <2>3. r + (l - j) <= (r + m) + (l - k) /\ r <= r + m /\ r + m # 0
    <3>1. 1 <= m
      BY <1>4, <2>1
    <3> QED
      BY <2>2, <3>1
  <2>4. Edge(client, rcv) = r + (l - j) /\ Edge(e, u) = (r + m) + (l - k) /\ u = r + m
    BY <1>4, <1>16, <2>1 DEF Edge, Free
  <2>5. Free(e) = Free(d)
    BY <1>16 DEF Free
  <2> QED
    BY <1>1, <1>14, <1>16, <1>20, <2>1, <2>3, <2>4, <2>5 DEF Advances
<1>22. PICK db \in 0 .. 1 : db = delAck'
  BY <1>12
<1>23. Net(e, packets \o t, stream, Tail(segs), server, u, db)
  <2>1. SegmentsIn(segs, server.nxt, Len(stream)) /\ server.nxt \in Nat /\ Len(stream) \in Nat
    BY <1>1, LenProperties DEF Net, Positions, Sockets
  <2>2. SegmentsIn(Tail(segs), server.nxt, Len(stream))
    BY <2>1, SegmentsBehind
  <2>3. u # 0
    <3>1. 1 <= n /\ n \in Nat
      BY <1>4
    <3> QED
      BY <1>4, <1>17, <3>1
  <2>4. Quiet(e, packets \o t, Tail(segs), stream, db)
    <3>1. e.segmentId # 0 /\ e.socket = "ESTABLISHED"
      BY <1>14, <1>16, <1>20
    <3> QED
      BY <3>1 DEF Quiet
  <2> QED
    BY <1>1, <1>4, <1>19, <1>21, <2>2, <2>3, <2>4, ClientMoves
<1>24. NetNext
  BY <1>12, <1>15, <1>22, <1>23 DEF NetNext
<1>25. C!Deliver(n)
  <2>1. /\ client.socket \in {"ESTABLISHED", "CLOSING"} /\ n <= Len(tc)
        /\ Len(client.rx) + n <= RxCapacity /\ (client.msgSize = 0 => n >= HeaderSize)
    BY <1>2, <1>4, <1>7
  <2>2. SubSeq(stream, rcv + 1, Len(stream))' = SubSeq(tc, n + 1, Len(tc))
    BY <1>7, <1>12 DEF Behind
  <2>3. C!Becomes(d)
    <3>1. Messages(packets)' = Messages(packets) \o d.out
      BY <1>12, <1>19
    <3>2. (client.segmentId > 0)' = (client.segmentId > 0 \/ d.out # <<>>)
      BY <1>2, <1>12, <1>15, <1>16, <1>20
    <3> QED
      BY <1>12, <3>1, <3>2 DEF C!Becomes
  <2>4. d = C!HandleRead([client EXCEPT !.rx = client.rx \o SubSeq(tc, 1, n)], next)
    BY <1>6, <1>9 DEF UpTo
  <2>5. tc = SubSeq(stream, rcv + 1, Len(stream))
    BY <1>5 DEF Behind
  <2> QED
    BY <2>1, <2>2, <2>3, <2>4, <2>5 DEF C!Deliver
<1>26. C!DeliverSome
  BY <1>4, <1>25 DEF C!DeliverSome
<1> QED
  BY <1>24, <1>26 DEF Implements, C!Next

-----------------------------------------------------------------------------
(* The client acknowledges, the server probes. *)

(* The step is none of DashClient.                                          *)
Stands ==
  /\ UNCHANGED <<client, served, stream, rcv>>
  /\ Messages(packets') = Messages(packets)

(* Nothing that DashClient sees has changed.                                *)
LEMMA StandsStill == ASSUME Stands PROVE UNCHANGED C!vars
<1>1. Messages(packets)' = Messages(packets')
  OBVIOUS
<1> QED
  BY <1>1 DEF Stands, C!vars

(* The client acknowledges, and nothing else, with the segments sf on their *)
(* way to it.                                                               *)
Acknowledges(sf) ==
  /\ segs' = sf /\ packets' = Append(packets, Packet(Ack, client, rcv)) /\ delAck' = 0
  /\ UNCHANGED <<client, served, stream, server, rcv>>

(* An acknowledgement keeps the invariant and is no step of DashClient.     *)
LEMMA AcknowledgesStep ==
  ASSUME FlowInv, NEW sf, Acknowledges(sf), client.segmentId > 0,
         SegmentsIn(sf, server.nxt, Len(stream)),
         rcv = 0 => \A i \in 1 .. Len(sf) : HeaderSize <= sf[i].last
  PROVE  Implements
<1>1. /\ Net(client, packets, stream, segs, server, rcv, delAck)
      /\ Free(client) \in 0 .. RxCapacity /\ client.segmentId \in Nat
  BY InvClient DEF FlowInv
<1>2. /\ packets \in Seq(Packets) /\ rcv \in Nat /\ rcv <= server.nxt + 1
      /\ rcv <= Len(stream)
  BY <1>1 DEF Net, PacketsIn, Positions
<1> DEFINE a == <<Ack>>
           o == <<>>
<1>3. a \o o = a /\ Len(a) = 1 /\ a[1] = Ack /\ AnAck(a) /\ o \in Seq(Carried)
  BY ConcatEmptySeq DEF AnAck
<1> HIDE DEF a, o
<1>4. Sent(packets, a, o, client, rcv)
  BY <1>1, <1>2, <1>3, SentMessages
<1>5. PICK t : t = Sends(a \o o, client, rcv)
  OBVIOUS
<1>6. /\ SentAt(t, client, rcv) /\ packets \o t \in Seq(Packets)
      /\ Messages(packets \o t) = Messages(packets) \o o
  BY <1>4, <1>5 DEF Sent
<1>7. packets' = packets \o t
  <2>1. PICK p \in Packets : p = Packet(Ack, client, rcv)
    BY <1>1, <1>2, PacketOf
  <2>2. t = [i \in 1 .. 1 |-> Packet(a[i], client, rcv)]
    BY <1>3, <1>5 DEF Sends
  <2>3. t = <<p>>
    BY <1>3, <2>1, <2>2
  <2>4. Append(packets, p) = packets \o <<p>>
    BY <1>2, AppendIsConcat
  <2> QED
    BY <2>1, <2>3, <2>4 DEF Acknowledges
<1>8. Messages(packets') = Messages(packets)
  <2>1. Messages(packets) \in Seq(Carried)
    BY <1>2, PacketsCarry, MessagesType
  <2>2. Messages(packets) \o <<>> = Messages(packets)
    BY ONLY <2>1, ConcatEmptySeq
  <2> QED
    BY <1>6, <1>7, <2>2 DEF o
<1>9. Advances(client, client, rcv, rcv)
  <2>1. Edge(client, rcv) <= Edge(client, rcv)
    BY <1>1, <1>2 DEF Edge
  <2>2. (rcv = 0 => client.rx = <<>>) /\ (client.msgSize = 0 => rcv = 0)
    BY <1>1 DEF Net, FirstData
  <2> QED
    BY <1>1, <1>2, <2>1, <2>2 DEF Advances
<1>10. PICK db \in 0 .. 1 : db = 0
  OBVIOUS
<1>11. Quiet(client, packets \o t, sf, stream, db)
  <2>1. client.segmentId # 0 /\ client.socket = "ESTABLISHED"
    BY <1>1 DEF Net, Quiet
  <2> QED
    BY <2>1 DEF Quiet
<1>12. Net(client, packets \o t, stream, sf, server, rcv, db)
  BY <1>1, <1>2, <1>6, <1>9, <1>11, ClientMoves
<1>13. NetNext
  BY <1>7, <1>10, <1>12 DEF NetNext, Acknowledges
<1>14. Stands
  BY <1>8 DEF Stands, Acknowledges
<1> QED
  BY <1>13, <1>14, StandsStill DEF Implements

(* A segment is dropped, or cut at the receive buffer, and acknowledged.    *)
LEMMA DeliverStep == ASSUME FlowInv, Deliver PROVE Implements
<1>1. /\ Net(client, packets, stream, segs, server, rcv, delAck)
      /\ client.segmentId \in Nat
  BY InvClient DEF FlowInv
<1>2. segs # <<>> /\ segs' = Tail(segs) /\ UNCHANGED <<served, stream, server>>
  BY DEF Deliver
<1>3. CASE Room(Head(segs)) > rcv /\ ReceivedData(Room(Head(segs)))
  BY <1>2, <1>3, ReceivedStep
<1>4. CASE /\ Room(Head(segs)) <= rcv
           /\ packets' = Append(packets, Packet(Ack, client, rcv))
           /\ delAck' = 0
           /\ UNCHANGED <<client, rcv, plays>>
  <2>1. client.segmentId > 0
    <3>1. client.segmentId # 0
      BY <1>1, <1>2 DEF Net, Quiet
    <3> QED
      BY <1>1, <3>1
  <2>2. PICK sf : sf = Tail(segs)
    OBVIOUS
  <2>3. SegmentsIn(segs, server.nxt, Len(stream)) /\ server.nxt \in Nat /\ Len(stream) \in Nat
    BY <1>1, LenProperties DEF Net, Positions, Sockets
  <2>4. SegmentsIn(sf, server.nxt, Len(stream))
    BY <1>2, <2>2, <2>3, SegmentsBehind
  <2>5. ASSUME rcv = 0 PROVE \A i \in 1 .. Len(sf) : HeaderSize <= sf[i].last
    <3>1. \A i \in 1 .. Len(segs) : HeaderSize <= segs[i].last
      BY <1>1, <2>5 DEF Net, FirstData
    <3> QED
      BY <1>2, <2>2, <2>3, <3>1, SegmentsBehind
  <2>6. Acknowledges(sf)
    BY <1>2, <1>4, <2>2 DEF Acknowledges
  <2> QED
    BY <2>1, <2>4, <2>5, <2>6, AcknowledgesStep
<1> QED
  BY <1>3, <1>4 DEF Deliver

(* The delayed acknowledgement carries what any packet does.                *)
LEMMA DelAckStep == ASSUME FlowInv, DelAckTimeout PROVE Implements
<1>1. /\ Net(client, packets, stream, segs, server, rcv, delAck)
      /\ client.segmentId \in Nat /\ delAck = 1
  BY InvClient DEF FlowInv, DelAckTimeout
<1>2. client.segmentId > 0
  <2>1. client.segmentId # 0
    BY <1>1 DEF Net, Quiet
  <2> QED
    BY <1>1, <2>1
<1>3. SegmentsIn(segs, server.nxt, Len(stream))
  BY <1>1 DEF Net
<1>4. rcv = 0 => \A i \in 1 .. Len(segs) : HeaderSize <= segs[i].last
  BY <1>1 DEF Net, FirstData
<1>5. Acknowledges(segs)
  BY DEF Acknowledges, DelAckTimeout
<1> QED
  BY <1>2, <1>3, <1>4, <1>5, AcknowledgesStep

(* The probe is sent with a window of 0, so some data have arrived.         *)
LEMMA PersistStep == ASSUME FlowInv, PersistTimeout PROVE Implements
<1>1. /\ Net(client, packets, stream, segs, server, rcv, delAck)
      /\ client.segmentId \in Nat
  BY InvClient DEF FlowInv
<1>2. PICK n \in Nat, l \in Nat : n = server.nxt /\ l = Len(stream)
  BY <1>1, LenProperties DEF Net, Positions, Sockets
<1>3. server.window = 0 /\ n < l
  BY <1>2 DEF PersistTimeout, Unsent
<1>a. PICK k \in 1 .. l : k = n + 1
  <2>1. n + 1 \in 1 .. l
    BY <1>2, <1>3
  <2> QED
    BY <2>1
<1>4. PICK g \in SegmentsOf(l) : g = [first |-> n + 1, last |-> n + 1]
  <2>1. [first |-> k, last |-> k] \in SegmentsOf(l)
    BY DEF SegmentsOf
  <2> QED
    BY <1>a, <2>1
<1>5. PICK sf \in Seq(SegmentsOf(l)) : sf = <<g>>
  <2>1. <<g>> \in Seq(SegmentsOf(l))
    BY ONLY g \in SegmentsOf(l)
  <2> QED
    BY <2>1
<1>6. Len(sf) = 1 /\ sf[1] = g /\ g.last = n + 1
  BY <1>4, <1>5
<1>7. /\ segs' = sf
      /\ UNCHANGED <<client, packets, served, stream, server, rcv, delAck>>
  BY <1>2, <1>4, <1>5 DEF PersistTimeout
<1>8. rcv # 0
  <2>1. RxCapacity # 0
    BY FlowAssumption
  <2> QED
    BY <1>1, <1>3, <2>1 DEF Net, FirstData
<1>9. SegmentsIn(sf, server.nxt, Len(stream))
  <2>1. \A i \in 1 .. Len(sf) : sf[i].last <= n + 1
    BY <1>2, <1>6
  <2> QED
    BY <1>2, <2>1 DEF SegmentsIn
<1>10. FirstData(client, packets, sf, server, rcv, Len(stream))
  BY <1>1, <1>8 DEF Net, FirstData
<1>11. Quiet(client, packets, sf, stream, delAck)
  <2>1. stream # <<>>
    <3>1. Len(stream) # 0
      BY <1>2, <1>3
    <3> QED
      BY <3>1
  <2> QED
    BY <1>1, <2>1 DEF Net, Quiet
<1>12. NetNext
  BY <1>1, <1>7, <1>9, <1>10, <1>11 DEF NetNext, Net
<1>13. Stands
  BY <1>7 DEF Stands
<1> QED
  BY <1>12, <1>13, StandsStill DEF Implements

-----------------------------------------------------------------------------
(* The server receives. *)

(* The server ignores the packet p, or answers its request.                 *)
Ignores(p) == p.kind # "ACK" /\ p.ack > server.nxt
Asks(p) == ~ Ignores(p) /\ p.kind = "REQUEST" /\ p.seg < MaxSegments

Answers(p, size, units) ==
  IF Asks(p)
  THEN size \in [0 .. FramesPerSegment - 1 -> Sizes] /\ units = C!Segment(p, size)
  ELSE units = <<>>

(* The server has read p, units are its answer, and z is what TCP did.      *)
ServerReads(p, size, units, z) ==
  /\ Answers(p, size, units)
  /\ z = SendPendingData(UpdateWindow(server, p), Len(stream) + Len(units))
  /\ server' = z.s /\ segs' = segs \o z.out /\ stream' = stream \o units
  /\ served' = IF Asks(p) THEN Append(served, [seg |-> p.seg, bytes |-> Len(units)])
               ELSE served
  /\ packets' = IF Ignores(p) THEN Resent(packets) ELSE Tail(packets)
  /\ UNCHANGED <<client, rcv, delAck>>

(* What the server does with a packet, named.                               *)
LEMMA ReceiveReads ==
  ASSUME Receive
  PROVE  packets # <<>> /\ \E size, units, z : ServerReads(Head(packets), size, units, z)
<1>1. PICK p : p = Head(packets)
  BY ZenonT(40)
<1>2. packets # <<>> /\ UNCHANGED <<client, rcv, delAck>>
  BY DEF Receive
<1>3. PICK size \in IF Asks(p) THEN [0 .. FramesPerSegment - 1 -> Sizes] ELSE {<<>>} :
        LET units == IF Asks(p) THEN C!Segment(p, size) ELSE <<>>
            total == Len(stream) + Len(units)
        IN  \E q \in {SendPendingData(UpdateWindow(server, p), total)} :
              /\ server' = q.s /\ segs' = segs \o q.out /\ stream' = stream \o units
              /\ served' = IF Asks(p)
                           THEN Append(served, [seg |-> p.seg, bytes |-> Len(units)])
                           ELSE served
              /\ packets' = IF Ignores(p) THEN Resent(packets) ELSE Tail(packets)
  BY <1>1, Zenon DEF Receive, Asks, Ignores
<1>4. PICK units : units = IF Asks(p) THEN C!Segment(p, size) ELSE <<>>
  OBVIOUS
<1>5. PICK z : z = SendPendingData(UpdateWindow(server, p), Len(stream) + Len(units))
  OBVIOUS
<1>6. Answers(p, size, units)
  BY <1>3, <1>4 DEF Answers
<1>7. ServerReads(p, size, units, z)
  BY <1>2, <1>3, <1>4, <1>5, <1>6 DEF ServerReads
<1> QED
  BY <1>1, <1>2, <1>7

(* A segment is longer than the headers of a message.                       *)
LEMMA SegmentHolds ==
  ASSUME NEW r, r.seg \in 0 .. MaxSegments - 1, r.rate \in Rates,
         NEW size \in [0 .. FramesPerSegment - 1 -> Sizes]
  PROVE  LET st == C!Segment(r, size)
         IN  st \in Seq(D!StreamUnits) /\ HoldsHeaders(Len(st))
<1>1. PICK st : st = C!Segment(r, size) /\ st = D!Segment(r, size)
  BY SameSegment
<1>2. st \in Seq(D!StreamUnits) /\ D!Aligned(st, r.seg, 0) /\ D!Whole(st)
  BY <1>1, ClientConstants, D!SegmentResult
<1>3. PICK n \in Nat : n = Len(st)
  BY <1>2, LenProperties
<1>4. n # 0
  BY <1>2, <1>3, EmptySeq DEF D!Whole
<1>5. n \in 1 .. n
  BY <1>4
<1>6. PICK u \in D!StreamUnits : u = st[n]
  BY <1>2, <1>3, <1>5, ElementOfSeq
<1>7. u.k = u.frame.size /\ 0 <= n - u.k
  BY <1>2, <1>3, <1>5, <1>6 DEF D!Whole, D!Aligned
<1>8. PICK k \in Nat : k = u.k /\ HeaderSize <= k
  <2>1. u.frame \in D!Messages /\ u.k \in Nat
    BY DEF D!StreamUnits
  <2>2. HeaderSize <= u.frame.size
    BY <2>1, ClientConstants, D!MessageFields
  <2> QED
    BY <1>7, <2>1, <2>2
<1>9. HeaderSize <= n
  BY <1>7, <1>8, FlowAssumption
<1> QED
  BY <1>1, <1>2, <1>3, <1>9 DEF HoldsHeaders

(* What the first packet and the others carry.                              *)
LEMMA FirstCarries ==
  ASSUME NEW q \in Seq(Packets), q # <<>>
  PROVE  /\ Tail(q) \in Seq(Packets) /\ Head(q) \in Packets
         /\ Messages(q) = Content(Head(q)) \o Messages(Tail(q))
<1>1. PICK p \in Packets, t \in Seq(Packets) : p = Head(q) /\ t = Tail(q)
  BY HeadTailProperties
<1>2. q = <<p>> \o t
  <2>1. PICK n \in Nat : n = Len(q) - 1 /\ Len(q) = n + 1
    <3>1. PICK k \in Nat : k = Len(q)
      BY LenProperties
    <3>2. k # 0
      BY <3>1, EmptySeq
    <3> QED
      BY <3>1, <3>2
  <2>2. Len(t) = n /\ (\A i \in 1 .. n : t[i] = q[i + 1]) /\ p = q[1]
    BY <1>1, <2>1, HeadTailProperties
  <2>3. PICK s \in Seq(Packets) : s = <<p>>
    <3>1. <<p>> \in Seq(Packets)
      BY ONLY p \in Packets
    <3> QED
      BY <3>1
  <2>4. Len(s) = 1 /\ s[1] = p
    BY <2>3
  <2>5. PICK v \in Seq(Packets) : v = s \o t
    BY ConcatProperties
  <2>6. /\ Len(v) = 1 + n
        /\ \A i \in 1 .. 1 + n : v[i] = IF i <= 1 THEN s[i] ELSE t[i - 1]
    <3>1. /\ Len(v) = Len(s) + Len(t)
          /\ \A i \in 1 .. Len(s) + Len(t) : v[i] = IF i <= Len(s) THEN s[i] ELSE t[i - Len(s)]
      BY ONLY <2>5, s \in Seq(Packets), t \in Seq(Packets), ConcatProperties
    <3> QED
      BY ONLY <2>2, <2>4, <3>1
  <2>7. ASSUME NEW i \in 1 .. 1 + n PROVE v[i] = q[i]
    <3>1. CASE i = 1
      BY <2>2, <2>4, <2>6, <3>1
    <3>2. CASE i # 1
      <4>1. i - 1 \in 1 .. n /\ ~ (i <= 1) /\ (i - 1) + 1 = i
        BY <3>2
      <4> QED
        BY <2>2, <2>6, <4>1
    <3> QED
      BY <3>1, <3>2
  <2>8. Len(v) = Len(q)
    BY <2>1, <2>6
  <2>9. v = q
    BY <2>1, <2>6, <2>7, <2>8, SeqEqual
  <2> QED
    BY <2>3, <2>5, <2>9
<1>3. PICK s \in Seq(Packets) : s = <<p>>
  <2>1. <<p>> \in Seq(Packets)
    BY ONLY p \in Packets
  <2> QED
    BY <2>1
<1>4. Messages(s) = Content(p)
  <2>1. PICK g : IsSent(s, g)
    BY PacketsCarry, SentSoFar
  <2>2. Len(s) = 1 /\ s[1] = p
    BY <1>3
  <2>3. 1 \in 1 .. 1 /\ 1 - 1 = 0 /\ 0 \in 0 .. 1
    OBVIOUS
  <2>4. g[1] = <<>> \o Content(p)
    BY <2>1, <2>2, <2>3 DEF IsSent
  <2>5. Content(p) \in Seq(Carried)
    BY PacketsCarry DEF Carriers
  <2>6. <<>> \o Content(p) = Content(p)
    BY ONLY <2>5, ConcatEmptySeq
  <2> QED
    BY <2>1, <2>2, <2>4, <2>6 DEF IsSent
<1>5. Messages(q) = Messages(s) \o Messages(t)
  BY <1>2, <1>3, PacketsCarry, MessagesOfBoth
<1> QED
  BY <1>1, <1>4, <1>5

(* The packets t only acknowledge, and in place of those of q.              *)
InPlace(t, q) ==
  /\ t \in Seq(Packets) /\ Len(t) = Len(q)
  /\ \A i \in 1 .. Len(q) : t[i].ack = q[i].ack /\ t[i].win = q[i].win /\ Content(t[i]) = <<>>

(* They are as good as those they replace.                                  *)
LEMMA PacketsInPlace ==
  ASSUME NEW t, NEW q, InPlace(t, q), NEW una, NEW r, NEW e, PacketsIn(q, una, r, e)
  PROVE  PacketsIn(t, una, r, e) /\ Messages(t) = <<>>
<1>1. /\ t \in Seq(Packets) /\ Len(t) = Len(q)
      /\ \A i \in 1 .. Len(t) : Content(t[i]) = <<>>
  BY DEF InPlace
<1>2. Messages(t) = <<>>
  BY <1>1, PacketsCarry, NoMessages
<1>3. \A i \in 1 .. Len(t) : una <= t[i].ack /\ t[i].ack <= r /\ t[i].ack + t[i].win <= e
  BY DEF InPlace, PacketsIn
<1>4. \A i, j \in 1 .. Len(t) : i <= j => t[i].ack <= t[j].ack
  BY DEF InPlace, PacketsIn
<1> QED
  BY <1>1, <1>2, <1>3, <1>4 DEF PacketsIn

(* The packets on their way once the front packet was ignored carry what    *)
(* those before did.                                                        *)
LEMMA ResentResult ==
  ASSUME FlowInv, packets # <<>>
  PROVE  /\ PacketsIn(Resent(packets), Head(packets).ack, rcv, Edge(client, rcv))
         /\ Messages(Resent(packets)) = Messages(packets)
<1>1. /\ Net(client, packets, stream, segs, server, rcv, delAck)
      /\ Free(client) \in 0 .. RxCapacity
  BY InvClient DEF FlowInv
<1>2. PICK r \in Nat, una \in Nat, e \in Nat :
        r = rcv /\ una = server.una /\ e = Edge(client, rcv)
  <2>1. rcv \in Nat /\ server.una \in Nat
    BY <1>1 DEF Net, Positions, Sockets
  <2>2. Edge(client, rcv) \in Nat
    BY <1>1, <2>1, FlowAssumption DEF Edge
  <2> QED
    BY <2>1, <2>2
<1>3. packets \in Seq(Packets) /\ PacketsIn(packets, una, r, e)
  BY <1>1, <1>2 DEF Net, PacketsIn
<1>4. PICK p \in Packets, q \in Seq(Packets) : p = Head(packets) /\ q = Tail(packets)
  BY <1>3, FirstCarries
<1>5. p.ack <= r /\ PacketsIn(q, p.ack, r, e)
  BY <1>2, <1>3, <1>4, PacketsBehind
<1>6. PICK n \in Nat : n = Len(packets) - 1 /\ n = Len(q) /\ \A i \in 1 .. n : q[i] = packets[i + 1]
  <2>1. PICK k \in Nat : k = Len(packets)
    BY <1>3, LenProperties
  <2>2. k # 0
    BY <1>3, <2>1, EmptySeq
  <2>3. PICK n \in Nat : n = k - 1
    BY <2>2
  <2>4. Len(q) = Len(packets) - 1 /\ \A i \in 1 .. Len(packets) - 1 : q[i] = packets[i + 1]
    BY <1>3, <1>4, HeadTailProperties
  <2> QED
    BY <2>1, <2>3, <2>4
<1>7. PICK t : t = [i \in 1 .. n |-> [packets[i + 1] EXCEPT !.kind = "ACK", !.seg = 0, !.rate = 0]]
  BY Zenon
<1>8. InPlace(t, q)
  <2>1. ASSUME NEW i \in 1 .. n
        PROVE  /\ t[i] \in Packets /\ t[i].ack = q[i].ack /\ t[i].win = q[i].win
               /\ Content(t[i]) = <<>>
    <3>1. q[i] \in Packets /\ t[i] = [q[i] EXCEPT !.kind = "ACK", !.seg = 0, !.rate = 0]
      BY <1>6, <1>7, ElementOfSeq, Zenon
    <3>2. PICK x \in Packets : x = q[i]
      BY <3>1
    <3>3. 0 \in 0 .. MaxSegments /\ 0 \in Rates \union {0}
      BY FlowAssumption
    <3>4. PICK y \in Packets : y = [x EXCEPT !.kind = "ACK", !.seg = 0, !.rate = 0]
      BY <3>3 DEF Packets
    <3>5. y.ack = x.ack /\ y.win = x.win /\ y.kind = "ACK"
      BY <3>4 DEF Packets
    <3> QED
      BY <3>1, <3>2, <3>4, <3>5 DEF Content
  <2>2. t \in [1 .. n -> Packets]
    <3> HIDE DEF Packets
    <3> QED
      BY <1>7, <2>1, Zenon
  <2>3. t \in Seq(Packets) /\ Len(t) = n
    BY <2>2, SeqDef
  <2> QED
    BY <1>6, <2>1, <2>3 DEF InPlace
<1>9. PacketsIn(t, p.ack, r, e) /\ Messages(t) = <<>> /\ t \in Seq(Packets)
  BY <1>5, <1>8, PacketsInPlace DEF InPlace
<1>10. PICK m \in Seq(Carried) : m = Messages(packets)
  BY <1>3, PacketsCarry, MessagesType
<1>11. PICK s : s = Sends(m, client, r)
  OBVIOUS
<1>12. /\ s \in Seq(Packets) /\ Messages(s) = m
       /\ \A i \in 1 .. Len(s) : s[i].ack = r /\ s[i].win = Free(client)
  <2>1. m \in Seq(Carried \union {Ack})
    <3>1. Carried \subseteq Carried \union {Ack}
      OBVIOUS
    <3> HIDE DEF Carried
    <3> QED
      BY <3>1, SeqMonotonic
  <2>2. Messages(m) = m
    BY CarryThemselves, SMTT(20)
  <2> QED
    BY <1>1, <1>11, <2>1, <2>2, SendsResult
<1>13. Resent(packets) = t \o s
  BY <1>2, <1>6, <1>7, <1>10, <1>11, Zenon DEF Resent, Sends
<1>14. PacketsIn(t \o s, p.ack, r, e)
  <2>1. PICK a \in Nat : a = p.ack
    BY DEF Packets
  <2>2. \A i \in 1 .. Len(s) : s[i].ack = r /\ r + s[i].win <= e
    BY <1>2, <1>12 DEF Edge
  <2>3. a <= r /\ r <= r /\ e <= e
    BY <1>5, <2>1
  <2>4. PacketsIn(t, a, r, e)
    BY <1>9, <2>1
  <2> QED
    BY <1>12, <2>1, <2>2, <2>3, <2>4, PacketsFollow
<1>15. Messages(t \o s) = Messages(packets)
  <2>1. Messages(t \o s) = <<>> \o m
    BY <1>9, <1>12, PacketsCarry, MessagesOfBoth
  <2>2. <<>> \o m = m
    BY ConcatEmptySeq
  <2> QED
    BY <1>10, <2>1, <2>2
<1> QED
  BY <1>2, <1>4, <1>13, <1>14, <1>15

(* What the server does with a packet keeps the invariant of the network.   *)
LEMMA ServerNet ==
  ASSUME FlowInv, packets # <<>>, NEW size, NEW units, NEW z,
         ServerReads(Head(packets), size, units, z),
         units \in Seq(D!StreamUnits), HoldsHeaders(Len(units))
  PROVE  NetNext
<1>1. /\ Net(client, packets, stream, segs, server, rcv, delAck)
      /\ Free(client) \in 0 .. RxCapacity
  BY InvClient DEF FlowInv
<1>2. PICK p : p = Head(packets)
  OBVIOUS
<1>3. PICK rest : rest = IF Ignores(p) THEN Resent(packets) ELSE Tail(packets)
  OBVIOUS
<1>4. PICK una \in Nat, r \in Nat, e \in Nat, nxt \in Nat :
        una = server.una /\ r = rcv /\ e = Edge(client, rcv) /\ nxt = server.nxt
  <2>1. rcv \in Nat /\ server.una \in Nat /\ server.nxt \in Nat
    BY <1>1 DEF Net, Positions, Sockets
  <2>2. Edge(client, rcv) \in Nat
    BY <1>1, <2>1, FlowAssumption DEF Edge
  <2> QED
    BY <2>1, <2>2
<1>5. packets \in Seq(Packets) /\ PacketsIn(packets, una, r, e)
  BY <1>1, <1>4 DEF Net, PacketsIn
<1>6. p \in Packets /\ p.ack <= r /\ PacketsIn(Tail(packets), p.ack, r, e)
  BY <1>2, <1>4, <1>5, PacketsBehind
<1>7. PacketsIn(rest, p.ack, rcv, Edge(client, rcv))
  BY <1>2, <1>3, <1>4, <1>6, ResentResult
<1>8. ASSUME rcv = 0 PROVE \A i \in 1 .. Len(rest) : rest[i].win = RxCapacity
  <2>1. \A i \in 1 .. Len(packets) : packets[i].win = RxCapacity
    BY <1>1, <1>8 DEF Net, FirstData
  <2>2. ~ Ignores(p)
    <3>1. PICK a \in Nat : a = p.ack
      BY <1>6 DEF Packets
    <3>2. a <= 0
      BY <1>4, <1>6, <1>8, <3>1
    <3> QED
      BY <1>4, <3>1, <3>2 DEF Ignores
  <2>3. rest = Tail(packets)
    BY <1>3, <2>2
  <2>4. PICK k \in Nat : k = Len(packets)
    BY <1>5, LenProperties
  <2>5. k # 0
    BY <1>5, <2>4, EmptySeq
  <2>6. Len(rest) = k - 1 /\ \A i \in 1 .. k - 1 : rest[i] = packets[i + 1]
    BY <1>5, <2>3, <2>4, HeadTailProperties
  <2>7. \A i \in 1 .. k - 1 : i + 1 \in 1 .. k
    BY <2>5
  <2> QED
    BY <2>1, <2>4, <2>6, <2>7
<1>9. z = SendPendingData(UpdateWindow(server, Head(packets)), Len(stream) + Len(units))
  BY DEF ServerReads
<1>10. Net(client, rest, stream \o units, segs \o z.out, z.s, rcv, delAck)
  <2>1. PacketsIn(rest, Head(packets).ack, rcv, Edge(client, rcv))
    BY <1>2, <1>7
  <2> QED
    BY <1>1, <1>8, <1>9, <2>1, ServerMoves
<1> QED
  BY <1>2, <1>3, <1>10 DEF ServerReads, NetNext

(* The message in the first packet is the first the client sent.            *)
IsMessage(m, p) == m = [kind |-> p.kind, seg |-> p.seg, rate |-> p.rate] /\ Content(p) = <<m>>

(* A packet that is not an acknowledgement carries the first message.       *)
LEMMA FirstMessage ==
  ASSUME FlowInv, packets # <<>>, NEW p, p = Head(packets), p.kind # "ACK"
  PROVE  \E m \in D!ServerMessages :
           /\ IsMessage(m, p) /\ Messages(packets) # <<>> /\ Head(Messages(packets)) = m
           /\ Tail(Messages(packets)) = Messages(Tail(packets))
<1>1. packets \in Seq(Packets) /\ Messages(packets) \in Seq(D!ServerMessages)
  BY InvClient DEF FlowInv, Net, PacketsIn, D!Sound
<1>2. PICK m : m = [kind |-> p.kind, seg |-> p.seg, rate |-> p.rate]
  OBVIOUS
<1>3. Content(p) = <<m>>
  BY <1>2 DEF Content
<1>4. PICK r \in Seq(Carried) : r = Messages(Tail(packets))
  <2>1. Tail(packets) \in Seq(Packets)
    BY <1>1, FirstCarries
  <2>2. Messages(Tail(packets)) \in Seq(Carried)
    BY <2>1, PacketsCarry, MessagesType
  <2> QED
    BY <2>2
<1>5. m \in Carried
  <2>1. p \in Packets
    BY <1>1, FirstCarries
  <2> QED
    BY <1>2, <2>1 DEF Packets, Carried
<1>6. Messages(packets) = <<m>> \o r
  BY <1>1, <1>3, <1>4, FirstCarries
<1>7. PICK s \in Seq(Carried) : s = <<m>>
  <2>1. <<m>> \in Seq(Carried)
    BY ONLY <1>5
  <2> QED
    BY <2>1
<1>8. PICK v \in Seq(Carried) : v = s \o r
  BY ONLY s \in Seq(Carried), r \in Seq(Carried), ConcatProperties
<1>9. v # <<>> /\ Head(v) = m /\ Tail(v) = r
  <2>1. PICK n \in Nat : n = Len(r)
    BY LenProperties
  <2>2. Len(s) = 1 /\ s[1] = m
    BY <1>7
  <2>3. /\ Len(v) = Len(s) + Len(r)
        /\ \A i \in 1 .. Len(s) + Len(r) : v[i] = IF i <= Len(s) THEN s[i] ELSE r[i - Len(s)]
    BY ONLY <1>8, s \in Seq(Carried), r \in Seq(Carried), ConcatProperties
  <2>4. Len(v) = 1 + n /\ \A i \in 1 .. 1 + n : v[i] = IF i <= 1 THEN s[i] ELSE r[i - 1]
    BY ONLY <2>1, <2>2, <2>3
  <2>5. v # <<>>
    BY <2>4, EmptySeq
  <2>6. Head(v) = v[1] /\ v[1] = m
    BY <2>2, <2>4, <2>5, HeadTailProperties
  <2>7. PICK t \in Seq(Carried) : t = Tail(v)
    BY <2>5, HeadTailProperties
  <2>8. Len(t) = n /\ \A i \in 1 .. n : t[i] = v[i + 1]
    <3>1. Len(t) = Len(v) - 1 /\ \A i \in 1 .. Len(v) - 1 : t[i] = v[i + 1]
      BY <2>5, <2>7, HeadTailProperties
    <3>2. Len(v) - 1 = n
      BY <2>4
    <3> QED
      BY <3>1, <3>2
  <2>9. ASSUME NEW i \in 1 .. n PROVE t[i] = r[i]
    <3>1. i + 1 \in 1 .. 1 + n /\ ~ (i + 1 <= 1) /\ (i + 1) - 1 = i
      OBVIOUS
    <3> QED
      BY <2>4, <2>8, <3>1
  <2>10. t = r
    BY <2>1, <2>8, <2>9, SeqEqual
  <2> QED
    BY <2>5, <2>6, <2>7, <2>10
<1>10. m \in D!ServerMessages
  BY <1>1, <1>6, <1>7, <1>8, <1>9, HeadTailProperties
<1> QED
  BY <1>2, <1>3, <1>4, <1>6, <1>7, <1>8, <1>9, <1>10 DEF IsMessage

(* The server's answer to a request is a Serve of DashClient.               *)
LEMMA AskedStep ==
  ASSUME FlowInv, packets # <<>>, NEW p, p = Head(packets), Asks(p), NEW size, NEW units,
         NEW z, ServerReads(p, size, units, z)
  PROVE  Implements
<1>1. p.kind = "REQUEST" /\ p.seg < MaxSegments /\ ~ Ignores(p)
  BY DEF Asks
<1>2. size \in [0 .. FramesPerSegment - 1 -> Sizes] /\ units = C!Segment(p, size)
  BY DEF ServerReads, Answers
<1>3. PICK m \in D!ServerMessages :
        /\ IsMessage(m, p) /\ Messages(packets) # <<>> /\ Head(Messages(packets)) = m
        /\ Tail(Messages(packets)) = Messages(Tail(packets))
  BY <1>1, FirstMessage
<1>4. /\ m.kind = "REQUEST" /\ m.seg = p.seg /\ m.rate = p.rate
      /\ m.seg \in 0 .. MaxSegments - 1 /\ m.rate \in Rates
  <2>1. m.kind = p.kind /\ m.seg = p.seg /\ m.rate = p.rate
    BY <1>3 DEF IsMessage
  <2>2. m.seg \in 0 .. MaxSegments /\ (m.kind = "REQUEST" => m.rate \in Rates)
    BY SMTT(20) DEF D!ServerMessages
  <2> QED
    BY <1>1, <2>1, <2>2, FlowAssumption
<1>5. units = C!Segment(m, size)
  BY <1>2, <1>4, Zenon DEF C!Segment
<1>6. units \in Seq(D!StreamUnits) /\ HoldsHeaders(Len(units))
  BY <1>2, <1>4, <1>5, SegmentHolds
<1>7. NetNext
  BY <1>6, ServerNet
<1>8. /\ stream' = stream \o units /\ packets' = Tail(packets)
      /\ served' = Append(served, [seg |-> m.seg, bytes |-> Len(units)])
      /\ UNCHANGED <<client, rcv, delAck>>
  BY <1>1, <1>4 DEF ServerReads
<1>9. SubSeq(stream, rcv + 1, Len(stream))' = SubSeq(stream, rcv + 1, Len(stream)) \o units
  <2>1. stream \in Seq(D!StreamUnits) /\ rcv \in Nat /\ rcv <= Len(stream)
    BY DEF FlowInv, Net, Positions
  <2>2. Behind(stream \o units, rcv) = Behind(stream, rcv) \o units
    BY <1>6, <2>1, BehindBoth
  <2> QED
    BY <1>8, <2>2 DEF Behind
<1>10. Messages(packets)' = Tail(Messages(packets))
  BY <1>3, <1>8
<1>11. C!Serve
  <2>1. PICK tc, ts : tc = SubSeq(stream, rcv + 1, Len(stream)) /\ ts = Messages(packets)
    OBVIOUS
  <2>2. \E s \in [0 .. FramesPerSegment - 1 -> Sizes] :
          LET us == C!Segment(m, s)
          IN  /\ SubSeq(stream, rcv + 1, Len(stream))' = tc \o us
              /\ served' = Append(served, [seg |-> m.seg, bytes |-> Len(us)])
    BY <1>2, <1>5, <1>8, <1>9, <2>1
  <2>3. m = Head(ts) /\ ts # <<>> /\ m.kind = "REQUEST" /\ m.seg < MaxSegments
        /\ Messages(packets)' = Tail(ts)
    BY <1>1, <1>3, <1>4, <1>10, <2>1
  <2>4. client' = client
    BY <1>8
  <2> QED
    BY <2>1, <2>2, <2>3, <2>4 DEF C!Serve
<1> QED
  BY <1>7, <1>11 DEF Implements, C!Next

(* A packet that asks for nothing only moves the server on.                 *)
LEMMA UnaskedStep ==
  ASSUME FlowInv, packets # <<>>, NEW p, p = Head(packets), ~ Asks(p), NEW size, NEW units,
         NEW z, ServerReads(p, size, units, z)
  PROVE  Implements
<1>1. units = <<>> /\ Len(<<>>) = 0
  BY DEF ServerReads, Answers
<1>2. NetNext
  <2>1. units \in Seq(D!StreamUnits) /\ HoldsHeaders(Len(units))
    BY <1>1, EmptySeq DEF HoldsHeaders
  <2> QED
    BY <2>1, ServerNet
<1>3. /\ stream' = stream \o <<>> /\ served' = served
      /\ packets' = (IF Ignores(p) THEN Resent(packets) ELSE Tail(packets))
      /\ UNCHANGED <<client, rcv, delAck>>
  BY <1>1 DEF ServerReads
<1>4. stream' = stream /\ packets \in Seq(Packets)
  <2>1. stream \in Seq(D!StreamUnits) /\ packets \in Seq(Packets)
    BY DEF FlowInv, Net, PacketsIn
  <2>2. stream \o <<>> = stream
    BY ONLY <2>1, ConcatEmptySeq
  <2> QED
    BY <1>3, <2>1, <2>2
<1>5. CASE Ignores(p)
  <2>1. Messages(packets') = Messages(packets)
    BY <1>3, <1>5, ResentResult
  <2>2. Stands
    BY <1>3, <1>4, <2>1 DEF Stands
  <2> QED
    BY <1>2, <2>2, StandsStill DEF Implements
<1>6. CASE p.kind = "ACK"
  <2>1. packets' = Tail(packets) /\ Content(p) = <<>>
    BY <1>3, <1>6 DEF Ignores, Content
  <2>2. Messages(packets) = <<>> \o Messages(Tail(packets))
    BY <1>4, <2>1, FirstCarries
  <2>3. Messages(Tail(packets)) \in Seq(Carried)
    BY <1>4, FirstCarries, PacketsCarry, MessagesType
  <2>4. <<>> \o Messages(Tail(packets)) = Messages(Tail(packets))
    BY ONLY <2>3, ConcatEmptySeq
  <2>5. Stands
    BY <1>3, <1>4, <2>1, <2>2, <2>4 DEF Stands
  <2> QED
    BY <1>2, <2>5, StandsStill DEF Implements
<1>7. CASE ~ Ignores(p) /\ p.kind # "ACK"
  <2>1. PICK m \in D!ServerMessages :
          /\ IsMessage(m, p) /\ Messages(packets) # <<>> /\ Head(Messages(packets)) = m
          /\ Tail(Messages(packets)) = Messages(Tail(packets))
    BY <1>7, FirstMessage
  <2>2. m.kind = p.kind /\ m.seg = p.seg
    BY <2>1 DEF IsMessage
  <2>3. ~ (m.kind = "REQUEST" /\ m.seg < MaxSegments)
    BY <1>7, <2>2 DEF Asks
  <2>4. Messages(packets)' = Tail(Messages(packets))
    BY <1>3, <1>7, <2>1
  <2>5. C!Serve
    BY <1>3, <1>4, <2>1, <2>3, <2>4 DEF C!Serve
  <2> QED
    BY <1>2, <2>5 DEF Implements, C!Next
<1> QED
  BY <1>5, <1>6, <1>7

(* The server answers the request in a packet, or it does not.              *)
LEMMA ReceiveStep == ASSUME FlowInv, Receive PROVE Implements
<1>1. PICK p : p = Head(packets)
  OBVIOUS
<1>2. packets # <<>>
  BY ReceiveReads
<1>3. PICK size, units, z : ServerReads(p, size, units, z)
  BY <1>1, ReceiveReads
<1> QED
  BY <1>1, <1>2, <1>3, AskedStep, UnaskedStep

-----------------------------------------------------------------------------
(* The theorems. *)

(* Every step of the flow control loop is one of DashClient or none.        *)
LEMMA FlowImplements == ASSUME FlowInv, FlowNext PROVE Implements
BY StartStep, ConnectedStep, DeliverStep, DelAckStep, ReceiveStep, PersistStep,
   PlayFrameStep, CheckBufferStep, RequestStep, KeepAliveStep DEF FlowNext

(* The frames shown since the last HandleRead stay within their bound.      *)
LEMMA PlaysBounded ==
  ASSUME plays \in 0 .. KeepAliveFrames, FlowNext PROVE plays' \in 0 .. KeepAliveFrames
<1>1. KeepAliveFrames \in Nat
  BY FlowAssumption
<1>2. CASE FirePlayFrame
  BY <1>1, <1>2 DEF FirePlayFrame, Smaller
<1>3. CASE Deliver
  <2>1. ASSUME NEW u, ReceivedData(u) PROVE plays' = 0
    BY <2>1 DEF ReceivedData
  <2>2. ReceivedData(Room(Head(segs))) \/ UNCHANGED plays
    BY <1>3, SMTT(20) DEF Deliver
  <2> QED
    BY <1>1, <2>1, <2>2
<1>4. CASE Start \/ Connected \/ DelAckTimeout \/ Receive \/ PersistTimeout
           \/ FireCheckBuffer \/ FireRequestSegment \/ FireKeepAlive
  BY <1>4, Zenon DEF Start, Connected, DelAckTimeout, Receive, PersistTimeout, FireCheckBuffer,
     FireRequestSegment, FireKeepAlive
<1> QED
  BY <1>2, <1>3, <1>4 DEF FlowNext

(* The invariant holds at the start.                                        *)
LEMMA FlowInvInit == ASSUME FlowInit PROVE C!Init /\ FlowInv
<1>1. /\ client = C!NewClient /\ packets = <<>> /\ served = <<>> /\ stream = <<>>
      /\ segs = <<>> /\ server = [una |-> 0, nxt |-> 0, window |-> RxCapacity]
      /\ rcv = 0 /\ delAck = 0 /\ plays = 0
  BY DEF FlowInit
<1>2. Messages(packets) = <<>>
  <2>1. PICK q \in Seq(Packets) : q = <<>> /\ Len(q) = 0
    BY EmptySeq
  <2>2. \A i \in 1 .. Len(q) : Content(q[i]) = <<>>
    BY <2>1
  <2> QED
    BY <1>1, <2>1, <2>2, PacketsCarry, NoMessages
<1>3. SubSeq(stream, rcv + 1, Len(stream)) = <<>>
  BY <1>1
<1>4. C!Init
  <2>1. ~ (client.segmentId > 0)
    BY <1>1 DEF C!NewClient
  <2>2. (client.segmentId > 0) = FALSE
    BY <2>1
  <2> QED
    BY <1>1, <1>2, <1>3, <2>2 DEF C!Init
<1>5. D!Inv
  BY <1>4, SameInit, ClientConstants, D!InvInit
<1>6. /\ client.rx = <<>> /\ client.segmentId = 0 /\ Silent(client)
  BY <1>1 DEF C!NewClient, Silent, C!P!NewPlayer
<1>7. PacketsIn(packets, 0, 0, Edge(client, 0))
  BY <1>1, EmptySeq DEF PacketsIn
<1>8. Positions(server, 0, Edge(client, 0), 0)
  <2>1. Edge(client, 0) = RxCapacity
    BY <1>6, FlowAssumption DEF Edge, Free
  <2> QED
    BY <1>1, <2>1, FlowAssumption DEF Positions, Sockets
<1>9. SegmentsIn(segs, 0, 0)
  BY <1>1, EmptySeq DEF SegmentsIn
<1>10. FirstData(client, packets, segs, server, 0, 0)
  BY <1>1, <1>6 DEF FirstData, HoldsHeaders
<1>11. Quiet(client, packets, segs, stream, delAck)
  BY <1>1, <1>6 DEF Quiet
<1>12. server.una = 0 /\ server.nxt = 0 /\ Len(stream) = 0 /\ stream \in Seq(D!StreamUnits)
  BY <1>1, EmptySeq
<1>13. Net(client, packets, stream, segs, server, rcv, delAck)
  BY <1>1, <1>7, <1>8, <1>9, <1>10, <1>11, <1>12 DEF Net
<1> QED
  BY <1>1, <1>4, <1>5, <1>13, FlowAssumption DEF FlowInv

(* Every step keeps the invariant.                                          *)
LEMMA FlowInvNext ==
  ASSUME FlowInv, [FlowNext]_flowVars
  PROVE  FlowInv' /\ [C!Next]_(C!vars)
<1>1. CASE FlowNext
  <2>1. Implements /\ plays' \in 0 .. KeepAliveFrames
    BY <1>1, FlowImplements, PlaysBounded DEF FlowInv
  <2>2. D!Inv'
    <3>1. CASE C!Next
      <4>1. D!Inv /\ D!Next
        BY <3>1, SameNext DEF FlowInv
      <4>2. D!Kept
        BY <4>1, ClientConstants, D!InvNext
      <4> QED
        BY <4>2 DEF D!Kept
    <3>2. CASE UNCHANGED C!vars
      BY <3>2 DEF FlowInv, D!Inv, C!vars
    <3> QED
      BY <2>1, <3>1, <3>2 DEF Implements
  <2> QED
    BY <2>1, <2>2 DEF Implements, NetNext, FlowInv
<1>2. CASE UNCHANGED flowVars
  BY <1>2 DEF flowVars, FlowInv, D!Inv, Net, C!vars
<1> QED
  BY <1>1, <1>2

(* The invariant holds always.                                              *)
LEMMA FlowInvariant == FlowSpec => []FlowInv
<1>1. FlowInit => FlowInv
  BY FlowInvInit
<1>2. FlowInv /\ [FlowNext]_flowVars => FlowInv'
  BY FlowInvNext
<1> QED
  BY <1>1, <1>2, PTL DEF FlowSpec

(* Every field of a packet, a segment and the two sockets keeps its range;  *)
(* no position overtakes the one it follows.                                *)
THEOREM FlowTypeCorrect == FlowSpec => []FlowTypeOK
<1>1. FlowInv => FlowTypeOK
  <2> SUFFICES ASSUME FlowInv PROVE FlowTypeOK
    OBVIOUS
  <2>1. Net(client, packets, stream, segs, server, rcv, delAck) /\ plays \in 0 .. KeepAliveFrames
    BY DEF FlowInv
  <2>2. packets \in Seq(Packets) /\ delAck \in 0 .. 1
    BY <2>1 DEF Net, PacketsIn
  <2>3. segs \in Seq([first : 1 .. Len(stream), last : 1 .. Len(stream)])
    BY <2>1 DEF Net, SegmentsIn, SegmentsOf
  <2>4. /\ server \in Sockets /\ server.una <= server.nxt /\ server.nxt <= Len(stream)
        /\ rcv \in Nat /\ server.una <= rcv /\ rcv <= server.nxt + 1 /\ rcv <= Len(stream)
    BY <2>1 DEF Net, Positions
  <2>5. PICK l \in Nat : l = Len(stream)
    BY <2>1, LenProperties DEF Net
  <2>6. /\ server.una \in 0 .. server.nxt /\ server.nxt \in 0 .. Len(stream)
        /\ server.window \in 0 .. RxCapacity /\ rcv \in server.una .. Len(stream)
    BY <2>4, <2>5 DEF Sockets
  <2> QED
    BY <2>1, <2>2, <2>3, <2>4, <2>6 DEF FlowTypeOK
<1> QED
  BY <1>1, FlowInvariant, PTL

(* The sender, which acts on the windows of packets sent long ago, never    *)
(* sends what the receive buffer of the client has no room for.             *)
THEOREM NothingOverruns == FlowSpec => []NeverOverruns
<1>1. FlowInv => NeverOverruns
  <2> SUFFICES ASSUME FlowInv PROVE NeverOverruns
    OBVIOUS
  <2>1. server \in Sockets /\ rcv \in Nat /\ server.nxt <= Edge(client, rcv)
    BY DEF FlowInv, Net, Positions
  <2>2. PICK f \in Nat, n \in Nat : f = Free(client) /\ n = server.nxt
    BY <2>1, InvClient, FlowAssumption DEF Sockets
  <2>3. n - rcv <= f
    BY <2>1, <2>2 DEF Edge
  <2> QED
    BY <2>2, <2>3 DEF NeverOverruns, Free
<1> QED
  BY <1>1, FlowInvariant, PTL

(* With TCP's flow control below it the client takes only the steps of      *)
(* DashClient: a data segment, however it is cut, is a delivery of at least *)
(* the headers where they are first needed, and acknowledgements, probes    *)
(* and messages sent again are not seen.                                    *)
THEOREM FlowRefines == FlowSpec => RefinesDashClient
<1>1. FlowInit => C!Init
  BY FlowInvInit
<1>2. FlowInv /\ [FlowNext]_flowVars => [C!Next]_(C!vars)
  BY FlowInvNext
<1> QED
  BY <1>1, <1>2, FlowInvariant, PTL DEF FlowSpec, RefinesDashClient

(* What DashClient promises holds with TCP's flow control below the client: *)
(* one segment at a time, the frames in order, no message forgotten in the  *)
(* parser or the socket, the throughput of exactly one segment, no abort.   *)
THEOREM FlowKeepsPromises ==
  FlowSpec => [](/\ C!OneSegmentAtATime /\ C!PlaysInOrder /\ C!StalledOnlyWhenFull
                 /\ C!MeasuredExactly /\ C!NeverAborts)
<1>1. FlowInv => /\ C!OneSegmentAtATime /\ C!PlaysInOrder /\ C!StalledOnlyWhenFull
                 /\ C!MeasuredExactly /\ C!NeverAborts
  <2> SUFFICES ASSUME FlowInv
               PROVE  /\ C!OneSegmentAtATime /\ C!PlaysInOrder /\ C!StalledOnlyWhenFull
                      /\ C!MeasuredExactly /\ C!NeverAborts
    OBVIOUS
  <2>1. D!Inv
    BY DEF FlowInv
  <2>2. D!OneSegmentAtATime /\ D!PlaysInOrder
    BY <2>1, ClientConstants, D!InvStream
  <2>3. D!StalledOnlyWhenFull /\ D!MeasuredExactly /\ D!NeverAborts
    BY <2>1, ClientConstants, D!InvOthers
  <2>4. C!OneSegmentAtATime
    BY <2>2, Zenon DEF C!OneSegmentAtATime, D!OneSegmentAtATime, C!Requests, D!Requests
  <2>5. C!PlaysInOrder
    BY <2>2, Zenon DEF C!PlaysInOrder, D!PlaysInOrder
  <2>6. C!StalledOnlyWhenFull
    BY <2>3, Zenon DEF C!StalledOnlyWhenFull, D!StalledOnlyWhenFull, C!Complete, D!Complete,
       C!HeadersIn, D!HeadersIn, C!Front, D!Front, C!P!Fits, D!P!Fits
  <2>7. C!MeasuredExactly
    BY <2>3, Zenon DEF C!MeasuredExactly, D!MeasuredExactly
  <2>8. C!NeverAborts
    BY <2>3, Zenon DEF C!NeverAborts, D!NeverAborts
  <2> QED
    BY <2>4, <2>5, <2>6, <2>7, <2>8
<1> QED
  BY <1>1, FlowInvariant, PTL
=============================================================================
