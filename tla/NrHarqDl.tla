------------------------------ MODULE NrHarqDl ------------------------------
(***************************************************************************)
(* Downlink scheduling of one slot after another: DoSchedDlTriggerReq ages *)
(* the HARQ processes, applies the feedback of the UEs and, through        *)
(* ScheduleDl and DoScheduleDl, fills the slot first with retransmissions  *)
(* (ScheduleDlHarq), beam by beam, and then with new data of the TDMA      *)
(* scheduler (DoScheduleDlData).                                           *)
(*                                                                         *)
(* A slot has the symbols for downlink data that the control symbols and   *)
(* the uplink grants made earlier for it leave: any member of Symbols.     *)
(* Feedback takes some slots to come back, at most MaxDelay, may be        *)
(* overtaken, and comes twice now and then: the scheduler filters          *)
(* duplicates ("I don't know why these are generated").                    *)
(***************************************************************************)
EXTENDS NrHarq

CONSTANTS Beam,          \* the beam every UE is served in
          MaxDuplicates  \* bounds the second copies under way at one time

ASSUME DlConstants == DOMAIN Beam = UEs /\ MaxDuplicates \in Nat

VARIABLES harq,      \* m_dlHarq of every UE
          waiting,   \* m_dlHarqToRetransmit: NACKs kept for a later slot.
                     \* SortDlHarq orders them anew in every slot: a set
          received,  \* m_dlHarqInfoReceived of the gNB's MAC
          onAir,     \* feedback to come, with the slots since transmission
          slot       \* the last slot: its symbols and the blocks put in it

vars == <<harq, waiting, received, onAir, slot>>

Init ==
  /\ harq = EmptyTable
  /\ waiting = {} /\ received = <<>>
  /\ onAir = {}
  /\ slot = [avail |-> FullSlot, blocks |-> {}]

Same(f, g) == f.ue = g.ue /\ f.id = g.id

Kept(waits) == SetToSeq({[ue |-> b[1], id |-> b[2], ok |-> FALSE] : b \in waits})

(* Faulty variant: only duplicates are dropped. *)
MergeOne_LateKept(t, fs, f) ==
  IF \E i \in 1 .. Len(fs) : Same(fs[i], f) THEN fs ELSE Append(fs, f)

(* Feedback for a process that has expired is dropped, and so is all but   *)
(* the first of several for one process.                                   *)
MergeOne(t, fs, f) ==
  IF ~Active(t, f.ue, f.id) \/ \E i \in 1 .. Len(fs) : Same(fs[i], f)
  THEN fs ELSE Append(fs, f)

(* What was kept comes first.                                              *)
MergeHARQ(t, waits, arrived) ==
  InTurn(LAMBDA fs, f : MergeOne(t, fs, f), <<>>, Kept(waits) \o arrived)

(* SortDlHarq puts the longest blocks of a beam first; the beams come in   *)
(* the order of a hash map.                                                *)
DlOrders(t, nacks) ==
  {o \in SetToSeqs({<<f.ue, f.id>> : f \in ToSet(nacks)}) :
     \A i, j \in 1 .. Len(o) : i < j =>
       /\ Beam[o[i][1]] = Beam[o[j][1]] =>
            /\ t.procs[o[i][1]][o[i][2]].sym >= t.procs[o[j][1]][o[j][2]].sym
            /\ \A k \in i .. j : Beam[o[k][1]] = Beam[o[i][1]]}

(* The next beam starts after the symbols of this one, if it used them.    *)
ChangeBeam(acc, beam) ==
  IF acc.beam = beam THEN acc
  ELSE [acc EXCEPT !.beam = beam, !.rbg = 0, !.ues = {},
                   !.at = IF acc.ues # {} THEN @ + acc.width ELSE @]

(* Faulty variant: the RBGs of the earlier blocks of the beam are not      *)
(* taken off what is left.                                                 *)
RetxOne_WholeBand(acc, b) ==
  LET p == acc.table.procs[b[1]][b[2]]
      need == (p.sym * p.rbg + acc.width - 1) \div acc.width
  IN  IF b[1] \in acc.ues \/ p.sym * p.rbg > Rbgs * acc.width
      THEN [acc EXCEPT !.table.procs[b[1]][b[2]] = TakenUp(p),
                       !.kept = @ \union {b}]
      ELSE [acc EXCEPT !.table.procs[b[1]][b[2]] =
                         [TakenUp(p) EXCEPT !.sym = acc.width, !.rbg = need, !.rv = @ + 1],
                       !.rbg = @ + need, !.ues = @ \union {b[1]},
                       !.blocks = @ \union {[ue |-> b[1], id |-> b[2], new |-> FALSE,
                          at |-> acc.at, sym |-> acc.width, rbgAt |-> acc.rbg, rbg |-> need]}]

(* Faulty variant: a block that needs the whole area does not get it.      *)
RetxOne_FitsExactly(acc, b) ==
  LET p == acc.table.procs[b[1]][b[2]]
      area == p.sym * p.rbg
      need == (area + acc.width - 1) \div acc.width
  IN  IF b[1] \in acc.ues \/ (Rbgs - acc.rbg) * acc.width <= area
      THEN [acc EXCEPT !.table.procs[b[1]][b[2]] = TakenUp(p),
                       !.kept = @ \union {b}]
      ELSE [acc EXCEPT !.table.procs[b[1]][b[2]] =
                         [TakenUp(p) EXCEPT !.sym = acc.width, !.rbg = need, !.rv = @ + 1],
                       !.rbg = @ + need, !.ues = @ \union {b[1]},
                       !.blocks = @ \union {[ue |-> b[1], id |-> b[2], new |-> FALSE,
                          at |-> acc.at, sym |-> acc.width, rbgAt |-> acc.rbg, rbg |-> need]}]

(* One block of a beam: kept for a later slot if its UE has one already or *)
(* the beam has not the area it had before, else laid over all the symbols *)
(* of the beam, in as many RBGs as its area then needs.                    *)
RetxOne(acc, b) ==
  LET p == acc.table.procs[b[1]][b[2]]
      area == p.sym * p.rbg
      need == (area + acc.width - 1) \div acc.width
      up == [acc EXCEPT !.table.procs[b[1]][b[2]] = TakenUp(p),
                        !.table.failed = @ \/ p.status # "RECEIVED_FEEDBACK"]
  IN  IF b[1] \in acc.ues \/ (Rbgs - acc.rbg) * acc.width < area
      THEN [up EXCEPT !.kept = @ \union {b}]
      ELSE [up EXCEPT
              !.table.procs[b[1]][b[2]] =
                 [TakenUp(p) EXCEPT !.sym = acc.width, !.rbg = need, !.rv = @ + 1],
              !.table.failed = @ \/ need > Rbgs,
              !.rbg = @ + need,
              !.ues = @ \union {b[1]},
              !.blocks = @ \union
                 {[ue |-> b[1], id |-> b[2], new |-> FALSE,
                   at |-> acc.at, sym |-> acc.width,
                   rbgAt |-> acc.rbg, rbg |-> need]}]

(* The symbols are shared out evenly between the beams with something to   *)
(* send again, whatever each of them needs.                                *)
ScheduleDlHarq(t, avail, order) ==
  LET beams == {Beam[order[i][1]] : i \in 1 .. Len(order)}
      width == IF beams = {} THEN 0 ELSE avail \div Cardinality(beams)
      start == [table |-> t, beam |-> {}, width |-> width, at |-> 0, rbg |-> 0,
                ues |-> {}, kept |-> {}, blocks |-> {}]
      done == ChangeBeam(InTurn(LAMBDA acc, b :
                           RetxOne(ChangeBeam(acc, {Beam[b[1]]}), b), start, order), {})
  IN  [done EXCEPT !.table.failed = @ \/ done.at > avail]

(* A UE that is sent a block again in this slot gets no new data in it.    *)
AlreadyScheduled(retx) == {b.ue : b \in retx.blocks}

(* New data: the other UEs with a free process, each for some of the       *)
(* symbols that are left.                                                  *)
Grants(t, avail, busy) ==
  LET free == {ue \in UEs \ busy : CanInsert(t, ue)}
      inUse == SumFunction(t.used)
      some == {s \in SUBSET free : Cardinality(s) + inUse <= MaxBlocks}
  IN  {g \in UNION {[s -> (Ids \X (1 .. avail))] : s \in some} :
         \A ue \in DOMAIN g : ~Active(t, ue, g[ue][1])}

(* They follow one another over the whole band.                            *)
DataOne(grants, acc, ue) ==
  LET id == grants[ue][1]  sym == grants[ue][2] IN
  [table |-> Insert(acc.table, ue, id, Sent(sym, Rbgs)),
   at |-> acc.at + sym,
   blocks |-> acc.blocks \union
     {[ue |-> ue, id |-> id, new |-> TRUE, at |-> acc.at, sym |-> sym,
       rbgAt |-> 0, rbg |-> Rbgs]}]

DoScheduleDlData(retx, grants, order) ==
  InTurn(LAMBDA acc, ue : DataOne(grants, acc, ue),
         [table |-> retx.table, at |-> retx.at, blocks |-> retx.blocks], order)

(* Feedback of a UE is in; it may come a second time.                      *)
DoDlHarqFeedback(report) ==
  /\ \E ok \in BOOLEAN :
       received' = Append(received, [ue |-> report.ue, id |-> report.id, ok |-> ok])
  /\ \/ onAir' = onAir \ {report}
     \/ /\ ~report.again
        /\ Cardinality({a \in onAir : a.again}) < MaxDuplicates
        /\ onAir' = (onAir \ {report}) \union {[report EXCEPT !.again = TRUE]}
  /\ UNCHANGED <<harq, waiting, slot>>

(* DoSchedDlTriggerReq for a slot with avail symbols for downlink data,    *)
(* which the grants do not exceed.                                         *)
DoSchedDlTriggerReq(avail) ==
  LET aged == ResetExpiredHARQ(harq)
      fed == ProcessHARQFeedbacks(aged, MergeHARQ(aged, waiting, received))
      active == ComputeActiveHarq(fed.table, fed.nacks)
  IN  /\ \A a \in onAir : a.age < MaxDelay
      /\ received' = <<>>
      /\ \E order \in DlOrders(active, fed.nacks) :
           LET retx == ScheduleDlHarq(active, avail, order) IN
               /\ waiting' = retx.kept
               /\ \E grants \in Grants(retx.table, avail - retx.at, AlreadyScheduled(retx)) :
                  \E turns \in SetToSeqs(DOMAIN grants) :
                    LET data == DoScheduleDlData(retx, grants, turns)
                    IN  /\ data.at <= avail
                        /\ harq' = data.table
                        /\ slot' = [avail |-> avail, blocks |-> data.blocks]
                        /\ onAir' = {[a EXCEPT !.age = @ + 1] : a \in onAir} \union
                             {[ue |-> b.ue, id |-> b.id, age |-> 0, again |-> FALSE] :
                                b \in data.blocks}

Next ==
  \/ \E report \in onAir : DoDlHarqFeedback(report)
  \/ \E avail \in Symbols : DoSchedDlTriggerReq(avail)

Spec == Init /\ [][Next]_vars

-----------------------------------------------------------------------------
(* No assertion of the scheduler fails: the processes are as many as       *)
(* m_usedSize counts, feedback that is not filtered finds an active        *)
(* process, a retransmission starts from a NACK and fits the band, new     *)
(* data find a free process, and no block is sent more than four times.    *)
TypeOK ==
  /\ TableOK(harq, FullSlot)
  /\ waiting \subseteq UEs \X Ids
  /\ received \in Seq([ue : UEs, id : Ids, ok : BOOLEAN])
  /\ onAir \subseteq [ue : UEs, id : Ids, age : 0 .. MaxDelay, again : BOOLEAN]
  /\ slot.avail \in Symbols

(* The blocks of a slot share no resource block, stay inside the symbols   *)
(* and the band the slot has, and no UE gets two: "in this way, DL and UL  *)
(* allocation will not overlap", "a limit of 1 DCI per UE".                *)
PlacedApart ==
  /\ \A b \in slot.blocks :
       /\ b.at + b.sym <= slot.avail /\ b.rbgAt + b.rbg <= Rbgs
       /\ b.sym > 0 /\ b.rbg > 0
  /\ \A b, c \in slot.blocks : b # c =>
       /\ b.ue # c.ue
       /\ \/ b.at + b.sym <= c.at \/ c.at + c.sym <= b.at
          \/ b.rbgAt + b.rbg <= c.rbgAt \/ c.rbgAt + c.rbg <= b.rbgAt

Count(ue, id) ==
  Cardinality({a \in onAir : a.ue = ue /\ a.id = id})
    + Cardinality({i \in 1 .. Len(received) : received[i].ue = ue /\ received[i].id = id})
    + Cardinality({b \in waiting : b = <<ue, id>>})

(* With feedback that comes once and in time, every active process is      *)
(* followed up exactly once, by feedback on its way or by a NACK that is   *)
(* kept, and nothing refers to a process that is free: no process leaks,   *)
(* and no late answer is taken for that of the block that came after.      *)
EachBlockIsFollowed ==
  \A ue \in UEs, id \in Ids :
    Count(ue, id) = IF Active(harq, ue, id) THEN 1 ELSE 0

(* "The HARQ scheduling is done, if symbols for HARQ are available, before *)
(* transmitting new data": new data never get the symbols in which a block *)
(* that waits to be sent again would fit.  New data lie side by side, from *)
(* the first to the last symbol they have.                                 *)
HarqGoesFirst ==
  \A w \in waiting, b, c \in {d \in slot.blocks : d.new} :
    LET p == harq.procs[w[1]][w[2]]
    IN  (\A d \in slot.blocks : d.ue = w[1] => d.new)
          => p.sym * p.rbg > (c.at + c.sym - b.at) * Rbgs
=============================================================================
