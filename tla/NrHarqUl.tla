------------------------------ MODULE NrHarqUl ------------------------------
(***************************************************************************)
(* Uplink scheduling of one slot after another: DoSchedUlTriggerReq ages   *)
(* the HARQ processes, applies the feedback of the PHY and, through        *)
(* ScheduleUl and DoScheduleUl, grants symbols first to retransmissions    *)
(* (ScheduleUlHarq) and then to new data (DoScheduleUlData).               *)
(*                                                                         *)
(* The PHY of the gNB reports on a block when it has received it, at most  *)
(* MaxDelay slots after it was granted; a UE that has nothing to send in a *)
(* grant, or no longer holds the block, sends nothing, and no report       *)
(* comes.  How many symbols a slot has for uplink data depends on its type *)
(* and on the sounding signals in it: any member of Symbols.               *)
(***************************************************************************)
EXTENDS NrHarq

VARIABLES ulHarq,      \* m_ulHarq of every UE
          ulWaiting,   \* m_ulHarqToRetransmit, oldest first
          ulReceived,  \* m_ulHarqInfoReceived of the gNB's MAC
          ulOnAir,     \* reports to come, with the slots since the grant
          ulSlot       \* the last slot: its symbols, whether new data was
                       \* granted, and a bit that turns with every slot

ulVars == <<ulHarq, ulWaiting, ulReceived, ulOnAir, ulSlot>>

UlInit ==
  /\ ulHarq = EmptyTable
  /\ ulWaiting = <<>> /\ ulReceived = <<>>
  /\ ulOnAir = {}
  /\ ulSlot = [avail |-> FullSlot, fresh |-> FALSE, turn |-> FALSE]

(* MergeHARQ puts what was kept before what came in; feedback for a        *)
(* process that has expired is dropped.                                    *)
MergeUlOne(t, fs, f) == IF Active(t, f.ue, f.id) THEN Append(fs, f) ELSE fs

MergeUlHARQ(t, kept, arrived) ==
  InTurn(LAMBDA fs, f : MergeUlOne(t, fs, f), <<>>, kept \o arrived)

(* Faulty variant: a block that is sent again stays in the buffer, too.    *)
RetxUlOne_StaysKept(acc, f) ==
  LET p == acc.table.procs[f.ue][f.id] IN
  IF acc.avail = 0 THEN acc
  ELSE IF acc.avail >= p.sym
  THEN [acc EXCEPT !.table.procs[f.ue][f.id] = [TakenUp(p) EXCEPT !.rv = @ + 1],
                   !.avail = @ - p.sym, !.sent = @ \union {<<f.ue, f.id>>},
                   !.kept = Append(@, f)]
  ELSE [acc EXCEPT !.table.procs[f.ue][f.id] = TakenUp(p), !.kept = Append(@, f)]

(* One retransmission after another, in the same number of symbols as the  *)
(* first, until a slot is full: the loop ends when no symbol is left.      *)
RetxUlOne(acc, f) ==
  LET p == acc.table.procs[f.ue][f.id]
      up == [acc EXCEPT !.table.procs[f.ue][f.id] = TakenUp(p),
                        !.table.failed = @ \/ p.status # "RECEIVED_FEEDBACK"]
  IN  IF acc.avail = 0 THEN acc
      ELSE IF acc.avail >= p.sym
      THEN [up EXCEPT !.table.procs[f.ue][f.id].rv = @ + 1,
                      !.avail = @ - p.sym,
                      !.sent = @ \union {<<f.ue, f.id>>}]
      ELSE [up EXCEPT !.kept = Append(@, f)]

ScheduleUlHarq(t, avail, nacks) ==
  InTurn(RetxUlOne, [table |-> t, avail |-> avail, sent |-> {}, kept |-> <<>>], nacks)

(* A UE that sends a block again in this slot gets no new data in it.      *)
SentAgain(retx) == {b[1] : b \in retx.sent}

(* New data: the other UEs with a free process may each be given some of   *)
(* the symbols that are left.                                              *)
UlGrants(t, avail, busy) ==
  LET free == {ue \in UEs \ busy : CanInsert(t, ue)}
      inUse == SumFunction(t.used)
      some == {s \in SUBSET free : Cardinality(s) + inUse <= MaxBlocks}
  IN  {g \in UNION {[s -> (Ids \X (1 .. avail))] : s \in some} :
         /\ \A ue \in DOMAIN g : ~Active(t, ue, g[ue][1])
         /\ SumFunction([ue \in DOMAIN g |-> g[ue][2]]) <= avail}

DoScheduleUlData(t, grants) ==
  InTurn(LAMBDA u, ue : Insert(u, ue, grants[ue][1], Sent(grants[ue][2], Rbgs)),
         t, SetToSeq(DOMAIN grants))

(* The PHY has received a block, or found that it cannot decode it.        *)
DoUlHarqFeedback(report) ==
  /\ ulOnAir' = ulOnAir \ {report}
  /\ \E ok \in BOOLEAN :
       ulReceived' = Append(ulReceived, [ue |-> report.ue, id |-> report.id, ok |-> ok])
  /\ UNCHANGED <<ulHarq, ulWaiting, ulSlot>>

(* The UE had nothing to send in the grant, or has no copy of the block.   *)
NothingSent(report) ==
  /\ ulOnAir' = ulOnAir \ {report}
  /\ UNCHANGED <<ulHarq, ulWaiting, ulReceived, ulSlot>>

(* DoSchedUlTriggerReq for a slot with avail symbols for uplink data.      *)
DoSchedUlTriggerReq(avail) ==
  LET aged == ResetExpiredHARQ(ulHarq)
      fed == ProcessHARQFeedbacks(aged, MergeUlHARQ(aged, ulWaiting, ulReceived))
      retx == ScheduleUlHarq(ComputeActiveHarq(fed.table, fed.nacks), avail, fed.nacks)
  IN  /\ \A a \in ulOnAir : a.age < MaxDelay
      /\ ulWaiting' = retx.kept
      /\ ulReceived' = <<>>
      /\ \E grants \in UlGrants(retx.table, retx.avail, SentAgain(retx)) :
           LET blocks == retx.sent \union {<<ue, grants[ue][1]>> : ue \in DOMAIN grants}
           IN  /\ ulHarq' = DoScheduleUlData(retx.table, grants)
               /\ ulOnAir' = {[a EXCEPT !.age = @ + 1] : a \in ulOnAir} \union
                             {[ue |-> b[1], id |-> b[2], age |-> 0] : b \in blocks}
               /\ ulSlot' = [avail |-> avail, fresh |-> grants # <<>>,
                           turn |-> ~ulSlot.turn]

UlNext ==
  \/ \E report \in ulOnAir : DoUlHarqFeedback(report) \/ NothingSent(report)
  \/ \E avail \in Symbols : DoSchedUlTriggerReq(avail)

UlSpec == UlInit /\ [][UlNext]_ulVars

(* Slots never end, and full ones keep coming: the gNB starts a slot after *)
(* the other for as long as the simulation runs, in a pattern that repeats.*)
UlFairSpec ==
  /\ UlSpec
  /\ []<>ulSlot.turn /\ []<>~ulSlot.turn
  /\ []<>(ulSlot.avail = FullSlot)

-----------------------------------------------------------------------------
(* No assertion of the scheduler fails: the processes are as many as       *)
(* m_usedSize counts, feedback finds an active process, a retransmission   *)
(* starts from a NACK, new data from a free process, and no block is sent  *)
(* more than four times.                                                   *)
UlTypeOK ==
  /\ TableOK(ulHarq, FullSlot)
  /\ \A i \in 1 .. Len(ulWaiting) :
       ulWaiting[i] \in [ue : UEs, id : Ids, ok : {FALSE}]
  /\ ulReceived \in Seq([ue : UEs, id : Ids, ok : BOOLEAN])
  /\ ulOnAir \subseteq [ue : UEs, id : Ids, age : 0 .. MaxDelay]
  /\ ulSlot \in [avail : Symbols, fresh : BOOLEAN, turn : BOOLEAN]

(* Whatever is reported, kept or sent again: a process in use has one      *)
(* report to come, one that is in, or one NACK that is kept, at most, and  *)
(* a free process none.  So no feedback is ever taken for that of another  *)
(* block, and none comes for a process that has been given back.           *)
UlCount(ue, id) ==
  Cardinality({a \in ulOnAir : a.ue = ue /\ a.id = id})
    + Cardinality({i \in 1 .. Len(ulReceived) : ulReceived[i].ue = ue /\ ulReceived[i].id = id})
    + Cardinality({i \in 1 .. Len(ulWaiting) : ulWaiting[i].ue = ue /\ ulWaiting[i].id = id})

FollowedAtMostOnce ==
  \A ue \in UEs, id \in Ids :
    UlCount(ue, id) <= IF Active(ulHarq, ue, id) THEN 1 ELSE 0

Idle == \A ue \in UEs : ActiveIds(ulHarq, ue) = {}

(* Whatever the feedback and the slots were, a UE whose traffic pauses     *)
(* gets all its processes back: every block is acknowledged, given up      *)
(* after its fourth transmission, or expires, also the ones whose NACK was *)
(* dropped and the ones the UE never sent.                                 *)
Drains == <>[](~ulSlot.fresh) => <>[]Idle

(* "If there aren't available symbols to retransmit the data, the feedback *)
(* is buffered for the next slot": a process that is marked for            *)
(* retransmission has its feedback in m_ulHarqToRetransmit.                *)
NackIsKept ==
  \A ue \in UEs, id \in Ids :
    ulHarq.procs[ue][id].status = "RECEIVED_FEEDBACK" =>
      \E i \in 1 .. Len(ulWaiting) : ulWaiting[i].ue = ue /\ ulWaiting[i].id = id
=============================================================================
