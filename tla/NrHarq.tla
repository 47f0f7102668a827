------------------------------- MODULE NrHarq -------------------------------
(***************************************************************************)
(* The HARQ processes the NR MAC scheduler of the gNB keeps for every UE,  *)
(* as NrMacHarqVector stores them and NrMacSchedulerNs3 ages them and      *)
(* applies feedback to them.  The downlink (NrHarqDl) and the uplink       *)
(* (NrHarqUl) each hold one such table and schedule from it in their own   *)
(* way.                                                                    *)
(*                                                                         *)
(* A block is given by the symbols and the resource block groups (RBGs)    *)
(* of its DCI and by its redundancy version rv.  m_active and m_status are *)
(* set together everywhere and are one field here.  A table is a record    *)
(* [procs, used, failed]: m_usedSize is kept beside the processes it       *)
(* counts, and failed stands for an NS_ASSERT, NS_ABORT_IF or              *)
(* NS_FATAL_ERROR that ends the simulation.                                *)
(***************************************************************************)
EXTENDS Integers, Sequences, FiniteSets, Functions, SequencesExt

CONSTANTS UEs,       \* the attached UEs (RNTIs)
          Ids,       \* process identifiers; NumHarqProcess is their number
          Rbgs,      \* the bandwidth in resource block groups
          Symbols,   \* numbers of symbols a slot may have for data
          MaxDelay,  \* slots until the feedback on a block is in
          MaxBlocks  \* bounds the blocks in HARQ at one time

ASSUME HarqConstants ==
  /\ IsFiniteSet(UEs) /\ IsFiniteSet(Ids) /\ Ids # {}
  /\ Rbgs \in Nat \ {0}
  /\ Symbols \subseteq Nat /\ IsFiniteSet(Symbols) /\ Symbols # {}
  /\ MaxDelay \in Nat /\ MaxBlocks \in Nat

NumHarqProcess == Cardinality(Ids)
LastRv == 3

FullSlot == CHOOSE s \in Symbols : \A r \in Symbols : r <= s

Statuses == {"INACTIVE", "WAITING_FEEDBACK", "RECEIVED_FEEDBACK"}

Erased == [status |-> "INACTIVE", timer |-> 0, sym |-> 0, rbg |-> 0, rv |-> 0]

Sent(sym, rbg) ==
  [status |-> "WAITING_FEEDBACK", timer |-> 0, sym |-> sym, rbg |-> rbg,
   rv |-> 0]

EmptyTable ==
  [procs |-> [ue \in UEs |-> [id \in Ids |-> Erased]],
   used |-> [ue \in UEs |-> 0], failed |-> FALSE]

Active(t, ue, id) == t.procs[ue][id].status # "INACTIVE"
ActiveIds(t, ue) == {id \in Ids : Active(t, ue, id)}

CanInsert(t, ue) == t.used[ue] < NumHarqProcess

(* Erase counts the active processes again and asserts m_usedSize.         *)
Counted(t) ==
  [t EXCEPT !.failed = @ \/ \E ue \in UEs : t.used[ue] # Cardinality(ActiveIds(t, ue))]

Erase(t, ue, id) ==
  Counted([t EXCEPT !.procs[ue][id] = Erased, !.used[ue] = @ - 1])

(* NS_FATAL_ERROR "does not have HARQ space", NS_ABORT_IF the slot is      *)
(* taken.  FirstAvailableId walks an unordered map: any free id.           *)
Insert(t, ue, id, process) ==
  [t EXCEPT !.procs[ue][id] = process, !.used[ue] = @ + 1,
            !.failed = @ \/ ~CanInsert(t, ue) \/ Active(t, ue, id)]

Expired(process) ==
  process.status # "INACTIVE" /\ process.timer >= NumHarqProcess

(* Faulty variant: the timeout is one slot short. *)
ResetExpiredHARQ_OneShort(t) ==
  LET Old(p) == p.status # "INACTIVE" /\ p.timer + 1 >= NumHarqProcess
  IN  [t EXCEPT
         !.procs = [ue \in UEs |-> [id \in Ids |->
            LET p == t.procs[ue][id]
            IN  IF p.status = "INACTIVE" THEN p
                ELSE IF Old(p) THEN Erased
                ELSE [p EXCEPT !.timer = @ + 1]]],
         !.used = [ue \in UEs |->
            @[ue] - Cardinality({id \in Ids : Old(t.procs[ue][id])})]]

(* Faulty variant: the timer only runs while feedback is awaited. *)
ResetExpiredHARQ_WaitingOnly(t) ==
  LET Old(p) == p.status = "WAITING_FEEDBACK" /\ Expired(p)
  IN  [t EXCEPT
         !.procs = [ue \in UEs |-> [id \in Ids |->
            LET p == t.procs[ue][id]
            IN  IF p.status # "WAITING_FEEDBACK" THEN p
                ELSE IF Old(p) THEN Erased
                ELSE [p EXCEPT !.timer = @ + 1]]],
         !.used = [ue \in UEs |->
            @[ue] - Cardinality({id \in Ids : Old(t.procs[ue][id])})]]

(* Once per slot: the timer of every active process runs, and one that has *)
(* reached NumHarqProcess is erased.                                       *)
ResetExpiredHARQ(t) ==
  Counted([t EXCEPT
     !.procs = [ue \in UEs |-> [id \in Ids |->
        LET p == t.procs[ue][id]
        IN  IF p.status = "INACTIVE" THEN p
            ELSE IF Expired(p) THEN Erased
            ELSE [p EXCEPT !.timer = @ + 1]]],
     !.used = [ue \in UEs |->
        @[ue] - Cardinality({id \in Ids : Expired(t.procs[ue][id])})]])

(* A loop over seq, one element in turn after the other.                   *)
InTurn(Body(_, _), start, seq) ==
  LET acc[i \in 0 .. Len(seq)] ==
        IF i = 0 THEN start ELSE Body(acc[i - 1], seq[i])
  IN  acc[Len(seq)]

Nacked(acc, f) ==
  [table |-> [acc.table EXCEPT !.procs[f.ue][f.id].status = "RECEIVED_FEEDBACK"],
   nacks |-> Append(acc.nacks, f)]

(* Faulty variant: a NACK of the last redundancy version is sent again. *)
FeedbackOne_NoLastRv(acc, f) ==
  IF ~Active(acc.table, f.ue, f.id) THEN [acc EXCEPT !.table.failed = TRUE]
  ELSE IF f.ok THEN [acc EXCEPT !.table = Erase(@, f.ue, f.id)]
  ELSE Nacked(acc, f)

(* An ACK, or a NACK of the fourth transmission, erases the process; any   *)
(* other NACK marks it and stays in the list.  Feedback for a process that *)
(* is not active is a fatal error.                                         *)
FeedbackOne(acc, f) ==
  IF ~Active(acc.table, f.ue, f.id) THEN [acc EXCEPT !.table.failed = TRUE]
  ELSE IF f.ok \/ acc.table.procs[f.ue][f.id].rv = LastRv
  THEN [acc EXCEPT !.table = Erase(@, f.ue, f.id)]
  ELSE Nacked(acc, f)

ProcessHARQFeedbacks(t, feedback) ==
  InTurn(FeedbackOne, [table |-> t, nacks |-> <<>>], feedback)

(* ComputeActiveHarq asserts that every NACKed process is active.          *)
ComputeActiveHarq(t, nacks) ==
  [t EXCEPT !.failed = @ \/ \E i \in 1 .. Len(nacks) :
                              ~Active(t, nacks[i].ue, nacks[i].id)]

(* A scheduler takes a process up: its timer starts again, whether or not  *)
(* the block is then sent.                                                 *)
TakenUp(process) ==
  [process EXCEPT !.status = "WAITING_FEEDBACK", !.timer = 0]

TableOK(t, maxSym) ==
  /\ ~t.failed
  /\ \A ue \in UEs :
       /\ t.used[ue] = Cardinality(ActiveIds(t, ue))
       /\ \A id \in Ids :
            LET p == t.procs[ue][id]
            IN  /\ p.status \in Statuses
                /\ p.timer \in 0 .. NumHarqProcess
                /\ p.rv \in 0 .. LastRv
                /\ p.rbg \in 0 .. Rbgs /\ p.sym \in 0 .. maxSym
                /\ (p.status = "INACTIVE") <=> (p.sym = 0)
=============================================================================
