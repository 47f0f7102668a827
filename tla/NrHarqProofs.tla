---------------------------- MODULE NrHarqProofs ----------------------------
(***************************************************************************)
(* Proofs about the HARQ of the NR MAC scheduler, for any number of UEs,   *)
(* processes and RBGs, any symbols and beams: about the table of NrHarq,   *)
(* which both directions keep, about downlink scheduling (NrHarqDl) and    *)
(* about uplink scheduling (NrHarqUl).                                     *)
(*                                                                         *)
(* A slot is one action made of four loops: over the feedback that is put  *)
(* together (MergedTo, UlMergedTo), over what it does to the processes     *)
(* (FedTo), over the blocks to send again (RetxTo, UlRetxTo) and over the  *)
(* UEs with new data (DataTo, UlDataTo).  Each has its loop invariant, a   *)
(* lemma for one round and one for the whole loop; SlotSteps and           *)
(* UlSlotSteps put them together, and the invariants of the system follow  *)
(* from their conclusions alone.                                           *)
(***************************************************************************)
EXTENDS NrHarqDl, NrHarqUl, ModelLemmas

-----------------------------------------------------------------------------
(* The table.  Good(t, m) says that no assertion of the table's code has   *)
(* failed and that it is as TableOK wants it; each operation of the table  *)
(* keeps it.  Changed says that an operation leaves every process but one  *)
(* alone.                                                                  *)

Processes == [status : Statuses, timer : Nat, sym : Nat, rbg : Nat, rv : Nat]

Tables ==
  [procs : [UEs -> [Ids -> Processes]], used : [UEs -> Int], failed : BOOLEAN]

(* A process as TableOK wants it; one in use holds a block of some RBGs.    *)
GoodProcess(p, m) ==
  /\ p \in Processes
  /\ p.timer <= NumHarqProcess /\ p.rv <= LastRv /\ p.rbg <= Rbgs /\ p.sym <= m
  /\ p.status = "INACTIVE" <=> p.sym = 0
  /\ p.status # "INACTIVE" => p.rbg >= 1

Counts(t) == \A ue \in UEs : t.used[ue] = Cardinality(ActiveIds(t, ue))

AllGood(t, m) == \A ue \in UEs, id \in Ids : GoodProcess(t.procs[ue][id], m)

Good(t, m) ==
  t \in Tables /\ ~t.failed /\ Counts(t) /\ AllGood(t, m)

(* Process (ue, id) of t has become p in u, and no other process changed.   *)
Changed(t, u, ue, id, p) ==
  \A v \in UEs, i \in Ids :
    u.procs[v][i] = IF v = ue /\ i = id THEN p ELSE t.procs[v][i]

(* There is a process at least, and their number is a natural number.       *)
LEMMA NumberOfProcesses == NumHarqProcess \in Nat \ {0}
<1>1. IsFiniteSet(Ids) /\ Ids # {}
  BY HarqConstants
<1>2. Cardinality(Ids) \in Nat
  BY <1>1, FS_CardinalityType
<1>3. Cardinality(Ids) # 0
  BY <1>1, FS_EmptySet
<1> QED
  BY <1>2, <1>3 DEF NumHarqProcess

(* The processes of a UE can be counted.                                    *)
LEMMA ActiveFinite ==
  ASSUME NEW t, NEW ue
  PROVE  IsFiniteSet(ActiveIds(t, ue)) /\ Cardinality(ActiveIds(t, ue)) \in Nat
<1>1. ActiveIds(t, ue) \in SUBSET Ids
  BY DEF ActiveIds
<1>2. IsFiniteSet(ActiveIds(t, ue))
  BY <1>1, HarqConstants, FS_Subset
<1> QED
  BY <1>2, FS_CardinalityType

(* The table the simulation starts with is good.                            *)
LEMMA EmptyGood ==
  ASSUME NEW m \in Nat
  PROVE  Good(EmptyTable, m)
<1>0. PICK n \in Nat \ {0} : n = NumHarqProcess
  BY NumberOfProcesses
<1>1. Erased \in Processes
  BY DEF Erased, Processes, Statuses
<1>2. GoodProcess(Erased, m)
  BY <1>0, <1>1, HarqConstants DEF GoodProcess, Erased, LastRv
<1>3. \A ue \in UEs, id \in Ids : EmptyTable.procs[ue][id] = Erased
  BY DEF EmptyTable
<1>4. EmptyTable \in Tables
  <2>1. [ue \in UEs |-> [id \in Ids |-> Erased]] \in [UEs -> [Ids -> Processes]]
    BY <1>1
  <2> QED
    BY <2>1 DEF EmptyTable, Tables
<1>5. AllGood(EmptyTable, m)
  BY <1>2, <1>3 DEF AllGood
<1>6. Counts(EmptyTable)
  <2>1. ASSUME NEW ue \in UEs PROVE EmptyTable.used[ue] = Cardinality(ActiveIds(EmptyTable, ue))
    <3>1. ActiveIds(EmptyTable, ue) = {}
      BY <1>3 DEF ActiveIds, Active, Erased
    <3>2. EmptyTable.used[ue] = 0
      BY DEF EmptyTable
    <3> QED
      BY <3>1, <3>2, FS_EmptySet
  <2> QED
    BY <2>1 DEF Counts
<1>7. ~EmptyTable.failed
  BY DEF EmptyTable
<1> QED
  BY <1>4, <1>5, <1>6, <1>7 DEF Good

(* The longest slot there is.                                               *)
LEMMA FullSlotLongest ==
  FullSlot \in Symbols /\ FullSlot \in Nat /\ \A s \in Symbols : s <= FullSlot /\ s \in Nat
<1>1. Symbols \subseteq Nat /\ IsFiniteSet(Symbols) /\ Symbols # {}
  BY HarqConstants
<1>2. \E s \in Symbols : \A r \in Symbols : r <= s
  BY <1>1, Largest
<1>3. FullSlot \in Symbols /\ \A r \in Symbols : r <= FullSlot
  BY <1>2 DEF FullSlot
<1> QED
  BY <1>1, <1>3

(* What is left of a table t is good when one process became p, which holds *)
(* a block exactly if active, and the count follows.                        *)
LEMMA ChangedGood ==
  ASSUME NEW m \in Nat, NEW t, NEW u \in Tables, NEW ue \in UEs, NEW id \in Ids, NEW p,
         Good(t, m), GoodProcess(p, m), Changed(t, u, ue, id, p), ~u.failed,
         u.used[ue] = t.used[ue] + (IF p.status # "INACTIVE" THEN 1 ELSE 0)
                                 - (IF Active(t, ue, id) THEN 1 ELSE 0),
         \A v \in UEs : v # ue => u.used[v] = t.used[v]
  PROVE  Good(u, m)
<1>1. AllGood(u, m)
  BY DEF AllGood, Good, Changed
<1>2. ASSUME NEW v \in UEs, v # ue PROVE ActiveIds(u, v) = ActiveIds(t, v)
  BY <1>2 DEF Changed, ActiveIds, Active
<1>3. ASSUME NEW v \in UEs PROVE u.used[v] = Cardinality(ActiveIds(u, v))
  <2>0. t.used[v] = Cardinality(ActiveIds(t, v))
    BY DEF Good, Counts
  <2>1. CASE v # ue
    BY <1>2, <2>0, <2>1
  <2>2. CASE v = ue
    <3> DEFINE a == ActiveIds(t, ue)
    <3>1. IsFiniteSet(a) /\ Cardinality(a) \in Nat
      BY ActiveFinite
    <3>2. id \in a <=> Active(t, ue, id)
      BY DEF ActiveIds
    <3>3. CASE p.status # "INACTIVE"
      <4>1. ActiveIds(u, ue) = a \cup {id}
        BY <3>3 DEF ActiveIds, Active, Changed
      <4>2. Cardinality(a \cup {id}) = IF id \in a THEN Cardinality(a) ELSE Cardinality(a) + 1
        BY <3>1, FS_AddElement
      <4> HIDE DEF a
      <4> QED
        BY <2>0, <2>2, <3>1, <3>2, <3>3, <4>1, <4>2 DEF a
    <3>4. CASE p.status = "INACTIVE"
      <4>1. ActiveIds(u, ue) = a \ {id}
        BY <3>4 DEF ActiveIds, Active, Changed
      <4>2. Cardinality(a \ {id}) = IF id \in a THEN Cardinality(a) - 1 ELSE Cardinality(a)
        BY <3>1, FS_RemoveElement
      <4> HIDE DEF a
      <4> QED
        BY <2>0, <2>2, <3>1, <3>2, <3>4, <4>1, <4>2 DEF a
    <3> QED
      BY <3>3, <3>4
  <2> QED
    BY <2>1, <2>2
<1> QED
  BY <1>1, <1>3 DEF Good, Counts


(* Setting one process of a table changes it and nothing else.              *)
LEMMA PutOne ==
  ASSUME NEW t \in Tables, NEW ue \in UEs, NEW id \in Ids, NEW p \in Processes
  PROVE  /\ [t EXCEPT !.procs[ue][id] = p] \in Tables
         /\ Changed(t, [t EXCEPT !.procs[ue][id] = p], ue, id, p)
         /\ [t EXCEPT !.procs[ue][id] = p].used = t.used
         /\ [t EXCEPT !.procs[ue][id] = p].failed = t.failed
<1>1. /\ t.procs \in [UEs -> [Ids -> Processes]] /\ t.used \in [UEs -> Int]
      /\ t.failed \in BOOLEAN /\ t = [procs |-> t.procs, used |-> t.used, failed |-> t.failed]
  BY DEF Tables
<1>2. PICK q : q = [t.procs EXCEPT ![ue][id] = p]
  OBVIOUS
<1>3. q \in [UEs -> [Ids -> Processes]]
  BY <1>1, <1>2
<1>4. \A v \in UEs, i \in Ids : q[v][i] = IF v = ue /\ i = id THEN p ELSE t.procs[v][i]
  BY <1>1, <1>2
<1>5. PICK w : w = [t EXCEPT !.procs[ue][id] = p]
  OBVIOUS
<1>6. w.procs = q /\ w.used = t.used /\ w.failed = t.failed
  BY <1>1, <1>2, <1>5 DEF Tables
<1>7. w = [procs |-> w.procs, used |-> w.used, failed |-> w.failed]
  BY <1>5 DEF Tables
<1>8. w \in Tables
  BY <1>1, <1>3, <1>6, <1>7 DEF Tables
<1> QED
  BY <1>4, <1>5, <1>6, <1>8 DEF Changed

(* What counting the active processes again adds to a good count: nothing.  *)
LEMMA CountedGood ==
  ASSUME NEW m \in Nat, NEW t, Good(t, m)
  PROVE  Counted(t) = t
<1>1. t \in Tables /\ ~t.failed /\ Counts(t)
  BY DEF Good
<1>2. t = [procs |-> t.procs, used |-> t.used, failed |-> FALSE]
  BY <1>1 DEF Tables
<1>3. ~ \E ue \in UEs : t.used[ue] # Cardinality(ActiveIds(t, ue))
  BY <1>1 DEF Counts
<1> QED
  BY <1>1, <1>2, <1>3 DEF Counted, Tables

(* Erase frees a process that is active.                                    *)
LEMMA EraseGood ==
  ASSUME NEW m \in Nat, NEW t, NEW ue \in UEs, NEW id \in Ids,
         Good(t, m), Active(t, ue, id)
  PROVE  Good(Erase(t, ue, id), m) /\ Changed(t, Erase(t, ue, id), ue, id, Erased)
<1>1. t \in Tables /\ ~t.failed
  BY DEF Good
<1>2. Erased \in Processes /\ GoodProcess(Erased, m) /\ Erased.status = "INACTIVE"
  <2>1. Erased \in Processes
    BY DEF Erased, Processes, Statuses
  <2>2. NumHarqProcess \in Nat
    BY NumberOfProcesses
  <2> QED
    BY <2>1, <2>2, HarqConstants DEF GoodProcess, Erased, LastRv
<1>3. PICK t1 \in Tables :
        /\ t1 = [t EXCEPT !.procs[ue][id] = Erased] /\ Changed(t, t1, ue, id, Erased)
        /\ t1.used = t.used /\ t1.failed = t.failed
  BY <1>1, <1>2, PutOne
<1>4. PICK u : u = [t1 EXCEPT !.used[ue] = @ - 1]
  OBVIOUS
<1>5. u \in Tables /\ u.procs = t1.procs /\ u.failed = t1.failed
      /\ u.used = [t.used EXCEPT ![ue] = @ - 1]
  <2>1. PICK f : f = [t.used EXCEPT ![ue] = @ - 1]
    OBVIOUS
  <2>2. f \in [UEs -> Int]
    BY <1>1, <2>1 DEF Tables
  <2>3. u.procs = t1.procs /\ u.failed = t1.failed /\ u.used = f
    BY <1>3, <1>4, <2>1 DEF Tables
  <2>4. u \in Tables
    BY <1>3, <1>4, <2>2, <2>3 DEF Tables
  <2> QED
    BY <2>1, <2>3, <2>4
<1>6. Changed(t, u, ue, id, Erased)
  BY <1>3, <1>5 DEF Changed
<1>7. \A v \in UEs : u.used[v] = IF v = ue THEN t.used[v] - 1 ELSE t.used[v]
  BY <1>1, <1>5 DEF Tables
<1>8. u.used[ue] = t.used[ue] + (IF Erased.status # "INACTIVE" THEN 1 ELSE 0)
                              - (IF Active(t, ue, id) THEN 1 ELSE 0)
  <2>1. t.used[ue] \in Int
    BY <1>1 DEF Tables
  <2> QED
    BY <1>2, <1>7, <2>1
<1>9. Good(u, m)
  BY <1>1, <1>2, <1>3, <1>5, <1>6, <1>7, <1>8, ChangedGood
<1>10. [t EXCEPT !.procs[ue][id] = Erased, !.used[ue] = @ - 1] = u
  BY <1>1, <1>3, <1>4 DEF Tables
<1>11. Erase(t, ue, id) = u
  BY <1>9, <1>10, CountedGood DEF Erase
<1> QED
  BY <1>6, <1>9, <1>11

(* Insert takes a free process of a UE with HARQ space.                     *)
LEMMA InsertGood ==
  ASSUME NEW m \in Nat, NEW t, NEW ue \in UEs, NEW id \in Ids, NEW p,
         Good(t, m), CanInsert(t, ue), ~Active(t, ue, id),
         GoodProcess(p, m), p.status # "INACTIVE"
  PROVE  Good(Insert(t, ue, id, p), m) /\ Changed(t, Insert(t, ue, id, p), ue, id, p)
<1>1. t \in Tables /\ ~t.failed /\ p \in Processes
  BY DEF Good, GoodProcess
<1>3. PICK t1 \in Tables :
        /\ t1 = [t EXCEPT !.procs[ue][id] = p] /\ Changed(t, t1, ue, id, p)
        /\ t1.used = t.used /\ t1.failed = t.failed
  BY <1>1, PutOne
<1>4. PICK u : u = [t1 EXCEPT !.used[ue] = @ + 1]
  OBVIOUS
<1>5. u \in Tables /\ u.procs = t1.procs /\ u.failed = t1.failed
      /\ u.used = [t.used EXCEPT ![ue] = @ + 1]
  <2>1. PICK f : f = [t.used EXCEPT ![ue] = @ + 1]
    OBVIOUS
  <2>2. f \in [UEs -> Int]
    BY <1>1, <2>1 DEF Tables
  <2>3. u.procs = t1.procs /\ u.failed = t1.failed /\ u.used = f
    BY <1>3, <1>4, <2>1 DEF Tables
  <2>4. u \in Tables
    BY <1>3, <1>4, <2>2, <2>3 DEF Tables
  <2> QED
    BY <2>1, <2>3, <2>4
<1>6. Changed(t, u, ue, id, p)
  BY <1>3, <1>5 DEF Changed
<1>7. \A v \in UEs : u.used[v] = IF v = ue THEN t.used[v] + 1 ELSE t.used[v]
  BY <1>1, <1>5 DEF Tables
<1>8. u.used[ue] = t.used[ue] + (IF p.status # "INACTIVE" THEN 1 ELSE 0)
                              - (IF Active(t, ue, id) THEN 1 ELSE 0)
  <2>1. t.used[ue] \in Int
    BY <1>1 DEF Tables
  <2> QED
    BY <1>7, <2>1
<1>9. Good(u, m)
  <2>1. u \in Tables /\ ~u.failed
    BY <1>1, <1>3, <1>5, Zenon
  <2>2. \A v \in UEs : v # ue => u.used[v] = t.used[v]
    BY <1>7
  <2> QED
    BY <1>1, <1>6, <1>8, <2>1, <2>2, ChangedGood
<1>10. Insert(t, ue, id, p) = u
  <2>1. (t.failed \/ ~CanInsert(t, ue) \/ Active(t, ue, id)) = t.failed
    <3>1. t.failed = FALSE
      BY <1>1 DEF Tables
    <3> QED
      BY <3>1
  <2> QED
    BY <1>1, <1>3, <1>4, <2>1 DEF Insert, Tables
<1> QED
  BY <1>6, <1>9, <1>10

(* A process with a new block over the whole band.                          *)
LEMMA SentGood ==
  ASSUME NEW m \in Nat, NEW sym \in Nat \ {0}, sym <= m
  PROVE  GoodProcess(Sent(sym, Rbgs), m) /\ Sent(sym, Rbgs).status # "INACTIVE"
<1>1. PICK p : p = Sent(sym, Rbgs)
  OBVIOUS
<1>2. p.status = "WAITING_FEEDBACK" /\ p.timer = 0 /\ p.sym = sym /\ p.rbg = Rbgs /\ p.rv = 0
  BY <1>1 DEF Sent
<1>3. p \in Processes
  BY <1>1, HarqConstants DEF Sent, Processes, Statuses
<1>4. 0 <= NumHarqProcess /\ 0 <= LastRv /\ Rbgs <= Rbgs /\ Rbgs >= 1
  BY NumberOfProcesses, HarqConstants DEF LastRv
<1> QED
  BY <1>1, <1>2, <1>3, <1>4 DEF GoodProcess

(* An active process that becomes p and stays active.                       *)
LEMMA MarkGood ==
  ASSUME NEW m \in Nat, NEW t, NEW ue \in UEs, NEW id \in Ids, NEW p,
         Good(t, m), Active(t, ue, id), GoodProcess(p, m), p.status # "INACTIVE"
  PROVE  /\ Good([t EXCEPT !.procs[ue][id] = p], m)
         /\ Changed(t, [t EXCEPT !.procs[ue][id] = p], ue, id, p)
<1>1. t \in Tables /\ ~t.failed /\ p \in Processes
  BY DEF Good, GoodProcess
<1>2. PICK u \in Tables :
        /\ u = [t EXCEPT !.procs[ue][id] = p] /\ Changed(t, u, ue, id, p)
        /\ u.used = t.used /\ u.failed = t.failed
  BY <1>1, PutOne
<1>3. u.used[ue] = t.used[ue] + (IF p.status # "INACTIVE" THEN 1 ELSE 0)
                              - (IF Active(t, ue, id) THEN 1 ELSE 0)
  <2>1. t.used[ue] \in Int
    BY <1>1 DEF Tables
  <2> QED
    BY <1>2, <2>1
<1>4. Good(u, m)
  BY <1>1, <1>2, <1>3, ChangedGood
<1> QED
  BY <1>2, <1>4


(* A process that is taken up is as good as it was.                         *)
LEMMA TakenUpGood ==
  ASSUME NEW m \in Nat, NEW p, GoodProcess(p, m), p.status # "INACTIVE"
  PROVE  /\ GoodProcess(TakenUp(p), m) /\ TakenUp(p).status = "WAITING_FEEDBACK"
         /\ TakenUp(p).timer = 0 /\ TakenUp(p).sym = p.sym /\ TakenUp(p).rbg = p.rbg
         /\ TakenUp(p).rv = p.rv
<1>1. p \in Processes
  BY DEF GoodProcess
<1>2. PICK q : q = TakenUp(p)
  OBVIOUS
<1>3. /\ q \in Processes /\ q.status = "WAITING_FEEDBACK" /\ q.timer = 0
      /\ q.sym = p.sym /\ q.rbg = p.rbg /\ q.rv = p.rv
  BY <1>1, <1>2 DEF TakenUp, Processes, Statuses
<1>4. 0 <= NumHarqProcess
  BY NumberOfProcesses
<1> QED
  BY <1>2, <1>3, <1>4 DEF GoodProcess

(* A process in the next slot.                                              *)
Older(p) ==
  IF p.status = "INACTIVE" THEN p
  ELSE IF Expired(p) THEN Erased
  ELSE [p EXCEPT !.timer = @ + 1]

(* The next slot leaves a good process good: a timer stays in its range.    *)
LEMMA OlderGood ==
  ASSUME NEW m \in Nat, NEW p, GoodProcess(p, m)
  PROVE  GoodProcess(Older(p), m)
<1>0. PICK n \in Nat : n = NumHarqProcess
  BY NumberOfProcesses
<1>1. CASE p.status = "INACTIVE"
  BY <1>1 DEF Older
<1>2. CASE p.status # "INACTIVE" /\ Expired(p)
  <2>1. GoodProcess(Erased, m)
    BY <1>0, HarqConstants DEF GoodProcess, Erased, LastRv, Processes, Statuses
  <2> QED
    BY <1>2, <2>1 DEF Older
<1>3. CASE p.status # "INACTIVE" /\ ~Expired(p)
  <2>1. p \in Processes /\ ~ (p.timer >= n)
    BY <1>0, <1>3 DEF Expired, GoodProcess
  <2>2. PICK k \in Nat : k = p.timer
    BY <2>1 DEF Processes
  <2>3. PICK q : q = [p EXCEPT !.timer = k + 1]
    OBVIOUS
  <2>4. /\ q \in Processes /\ q.status = p.status /\ q.timer = k + 1
        /\ q.sym = p.sym /\ q.rbg = p.rbg /\ q.rv = p.rv
    BY <2>1, <2>3 DEF Processes
  <2>5. k + 1 <= n
    BY <2>1, <2>2
  <2>6. GoodProcess(q, m)
    BY <1>0, <2>4, <2>5 DEF GoodProcess
  <2>7. Older(p) = q
    BY <1>3, <2>2, <2>3 DEF Older
  <2> QED
    BY <2>6, <2>7
<1> QED
  BY <1>1, <1>2, <1>3

(* Every process of u is the one of t, a slot later.                        *)
IsOlder(t, u) ==
  \A ue \in UEs, id \in Ids : u.procs[ue][id] = Older(t.procs[ue][id])

(* A slot later the table is good, and m_usedSize counts the processes that *)
(* did not expire.                                                          *)
LEMMA ResetGood ==
  ASSUME NEW m \in Nat, NEW t, Good(t, m)
  PROVE  Good(ResetExpiredHARQ(t), m) /\ IsOlder(t, ResetExpiredHARQ(t))
<1>1. t \in Tables /\ ~t.failed /\ Counts(t) /\ AllGood(t, m)
  BY DEF Good
<1> DEFINE gone(ue) == {id \in Ids : Expired(t.procs[ue][id])}
<1>2. PICK q : q = [ue \in UEs |-> [id \in Ids |-> Older(t.procs[ue][id])]]
  OBVIOUS
<1>3. PICK c : c = [ue \in UEs |-> t.used[ue] - Cardinality(gone(ue))]
  OBVIOUS
<1>4. PICK u : u = [t EXCEPT !.procs = q, !.used = c]
  OBVIOUS
<1>5. u.procs = q /\ u.used = c /\ u.failed = t.failed
      /\ u = [procs |-> u.procs, used |-> u.used, failed |-> u.failed]
  BY <1>1, <1>4 DEF Tables
<1>6. ASSUME NEW ue \in UEs, NEW id \in Ids PROVE GoodProcess(q[ue][id], m)
  <2>1. q[ue][id] = Older(t.procs[ue][id])
    BY <1>2
  <2> QED
    BY <1>1, <2>1, OlderGood DEF AllGood
<1>7. q \in [UEs -> [Ids -> Processes]]
  <2>1. ASSUME NEW ue \in UEs PROVE q[ue] \in [Ids -> Processes]
    <3>1. q[ue] = [id \in Ids |-> q[ue][id]]
      BY <1>2
    <3>2. \A id \in Ids : q[ue][id] \in Processes
      BY <1>6 DEF GoodProcess
    <3> QED
      BY <3>1, <3>2
  <2>2. q = [ue \in UEs |-> q[ue]]
    BY <1>2
  <2> QED
    BY <2>1, <2>2
<1>8. ASSUME NEW ue \in UEs
      PROVE  c[ue] = Cardinality(ActiveIds(u, ue)) /\ c[ue] \in Int
  <2>1. PICK a : a = ActiveIds(t, ue)
    OBVIOUS
  <2>2. PICK g : g = gone(ue)
    OBVIOUS
  <2>3. IsFiniteSet(a) /\ Cardinality(a) \in Nat
    BY <2>1, ActiveFinite
  <2>4. g \subseteq a
    BY <2>1, <2>2 DEF ActiveIds, Active, Expired
  <2>5. a \cap g = g
    BY <2>4
  <2>6. ActiveIds(u, ue) = a \ g
    <3>1. ASSUME NEW id \in Ids
          PROVE  Active(u, ue, id) <=> Active(t, ue, id) /\ ~Expired(t.procs[ue][id])
      <4>1. u.procs[ue][id] = Older(t.procs[ue][id])
        BY <1>2, <1>5
      <4>2. t.procs[ue][id] \in Processes
        BY <1>1 DEF AllGood, GoodProcess
      <4>3. CASE Expired(t.procs[ue][id])
        BY <4>1, <4>3 DEF Active, Older, Expired, Erased
      <4>4. CASE ~Expired(t.procs[ue][id])
        BY <4>1, <4>2, <4>4 DEF Active, Older, Processes
      <4> QED
        BY <4>3, <4>4
    <3> QED
      BY <2>1, <2>2, <3>1 DEF ActiveIds
  <2>7. Cardinality(a \ g) = Cardinality(a) - Cardinality(a \cap g)
    BY <2>3, FS_Difference
  <2>8. Cardinality(g) \in Nat
    <3>1. g \in SUBSET a
      BY <2>4
    <3>2. IsFiniteSet(g)
      BY <2>3, <3>1, FS_Subset
    <3> QED
      BY <3>2, FS_CardinalityType
  <2>9. t.used[ue] = Cardinality(a)
    BY <1>1, <2>1 DEF Counts
  <2>10. c[ue] = t.used[ue] - Cardinality(g)
    BY <1>3, <2>2
  <2>11. c[ue] = Cardinality(ActiveIds(u, ue))
    BY <2>5, <2>6, <2>7, <2>9, <2>10
  <2>12. c[ue] \in Int
    BY <2>3, <2>8, <2>9, <2>10
  <2> QED
    BY <2>11, <2>12
<1>9. c \in [UEs -> Int]
  BY <1>3, <1>8
<1>10. u \in Tables
  BY <1>1, <1>5, <1>7, <1>9 DEF Tables
<1>11. Counts(u)
  BY <1>5, <1>8 DEF Counts
<1>12. AllGood(u, m)
  BY <1>5, <1>6 DEF AllGood
<1>13. Good(u, m)
  BY <1>1, <1>5, <1>10, <1>11, <1>12 DEF Good
<1>14. ResetExpiredHARQ(t) = Counted(u)
  BY <1>2, <1>3, <1>4 DEF ResetExpiredHARQ, Older
<1>15. ResetExpiredHARQ(t) = u
  BY <1>13, <1>14, CountedGood
<1>16. IsOlder(t, u)
  BY <1>2, <1>5 DEF IsOlder
<1> QED
  BY <1>13, <1>15, <1>16


-----------------------------------------------------------------------------
(* Feedback applied to the processes. *)

Pairs == UEs \X Ids

Feedbacks == [ue : UEs, id : Ids, ok : BOOLEAN]

Of(f, ue, id) == f.ue = ue /\ f.id = id

(* A list with one element for a process at most, each of them active.      *)
Apart(fs) == \A i, j \in 1 .. Len(fs) : i # j => ~Of(fs[i], fs[j].ue, fs[j].id)

AllActive(t, fs) == \A i \in 1 .. Len(fs) : Active(t, fs[i].ue, fs[i].id)

(* The process of t is marked for retransmission in u.                      *)
Marked(t, u, ue, id) ==
  /\ u.procs[ue][id] = [t.procs[ue][id] EXCEPT !.status = "RECEIVED_FEEDBACK"]
  /\ t.procs[ue][id].rv < LastRv

(* The processes the first i elements of fs are about were freed, or marked *)
(* and their elements, of which none is an ACK, kept; the others are as     *)
(* they were.                                                               *)
FedTo(m, t, fs, i, r) ==
  /\ r = [table |-> r.table, nacks |-> r.nacks]
  /\ Good(r.table, m) /\ r.nacks \in Seq(Feedbacks)
  /\ Apart(r.nacks) /\ \A j \in 1 .. Len(r.nacks) : ~r.nacks[j].ok
  /\ \A ue \in UEs, id \in Ids :
       (\A k \in 1 .. i : ~Of(fs[k], ue, id)) => r.table.procs[ue][id] = t.procs[ue][id]
  /\ \A k \in 1 .. i :
       \/ ~Active(r.table, fs[k].ue, fs[k].id)
       \/ \E j \in 1 .. Len(r.nacks) : r.nacks[j] = fs[k]
  /\ \A j \in 1 .. Len(r.nacks) : \E k \in 1 .. i :
       r.nacks[j] = fs[k] /\ Marked(t, r.table, fs[k].ue, fs[k].id)

(* One more element of the list.                                            *)
LEMMA FeedbackStep ==
  ASSUME NEW m \in Nat, NEW t, NEW fs \in Seq(Feedbacks), NEW r, NEW i \in 1 .. Len(fs),
         Good(t, m), Apart(fs), AllActive(t, fs), FedTo(m, t, fs, i - 1, r)
  PROVE  FedTo(m, t, fs, i, FeedbackOne(r, fs[i]))
<1>0. PICK n \in Nat : n = Len(fs)
  BY LenProperties
<1>1. PICK ns \in Seq(Feedbacks) : ns = r.nacks
  BY DEF FedTo
<1>2. PICK l \in Nat : l = Len(ns)
  BY LenProperties
<1>3. PICK u : u = r.table
  OBVIOUS
<1>4. r = [table |-> u, nacks |-> ns] /\ Good(u, m)
  BY <1>1, <1>3 DEF FedTo
<1>5. PICK f \in Feedbacks : f = fs[i]
  BY ElementOfSeq
<1>6. PICK ue \in UEs, id \in Ids : ue = f.ue /\ id = f.id
  BY DEF Feedbacks
<1>7. \A k \in 1 .. i - 1 : k \in 1 .. n /\ k # i /\ k \in 1 .. i
  BY <1>0
<1>8. \A k \in 1 .. i - 1 : ~Of(fs[k], ue, id)
  BY <1>0, <1>5, <1>6, <1>7 DEF Apart
<1>9. u.procs[ue][id] = t.procs[ue][id]
  BY <1>3, <1>8 DEF FedTo
<1>10. Active(u, ue, id)
  BY <1>0, <1>5, <1>6, <1>9 DEF AllActive, Active
<1>11. ASSUME NEW k \in 1 .. i - 1, NEW v, NEW p, Changed(u, v, ue, id, p)
       PROVE  v.procs[fs[k].ue][fs[k].id] = u.procs[fs[k].ue][fs[k].id]
  <2>1. fs[k] \in Feedbacks
    BY <1>0, <1>7, ElementOfSeq
  <2>2. PICK a \in UEs, b \in Ids : a = fs[k].ue /\ b = fs[k].id
    BY <2>1 DEF Feedbacks
  <2>3. ~ (a = ue /\ b = id)
    BY <1>8, <2>2 DEF Of
  <2> QED
    BY <1>11, <2>2, <2>3 DEF Changed
<1>12. ASSUME NEW v, NEW p, Changed(u, v, ue, id, p), NEW a \in UEs, NEW b \in Ids,
              \A k \in 1 .. i : ~Of(fs[k], a, b)
       PROVE  v.procs[a][b] = t.procs[a][b]
  <2>1. ~ (a = ue /\ b = id)
    BY <1>0, <1>5, <1>6, <1>12 DEF Of
  <2>2. u.procs[a][b] = t.procs[a][b]
    BY <1>3, <1>7, <1>12 DEF FedTo
  <2> QED
    BY <1>12, <2>1, <2>2 DEF Changed
<1>13. ASSUME NEW k \in 1 .. i PROVE k = i \/ k \in 1 .. i - 1
  BY <1>0
<1>14. ASSUME NEW k \in 1 .. i - 1
       PROVE  \/ ~Active(u, fs[k].ue, fs[k].id)
              \/ \E j \in 1 .. l : ns[j] = fs[k]
  BY <1>1, <1>2, <1>3 DEF FedTo
<1>15. ASSUME NEW j \in 1 .. l
       PROVE  \E k \in 1 .. i - 1 : ns[j] = fs[k] /\ Marked(t, u, fs[k].ue, fs[k].id)
  BY <1>1, <1>2, <1>3 DEF FedTo
<1>16. Apart(ns) /\ \A j \in 1 .. l : ~ns[j].ok
  BY <1>1, <1>2 DEF FedTo
<1>20. CASE f.ok \/ u.procs[ue][id].rv = LastRv
  <2>1. PICK v : v = Erase(u, ue, id)
    OBVIOUS
  <2>2. Good(v, m) /\ Changed(u, v, ue, id, Erased)
    BY <1>4, <1>10, <2>1, EraseGood
  <2>3. FeedbackOne(r, f) = [table |-> v, nacks |-> ns]
    BY <1>4, <1>6, <1>10, <1>20, <2>1 DEF FeedbackOne
  <2>4. ASSUME NEW k \in 1 .. i
        PROVE  \/ ~Active(v, fs[k].ue, fs[k].id)
               \/ \E j \in 1 .. l : ns[j] = fs[k]
    <3>1. CASE k = i
      BY <1>5, <1>6, <2>2, <3>1 DEF Active, Changed, Erased
    <3>2. CASE k \in 1 .. i - 1
      BY <1>11, <1>14, <2>2, <3>2 DEF Active
    <3> QED
      BY <1>13, <3>1, <3>2
  <2>5. ASSUME NEW j \in 1 .. l
        PROVE  \E k \in 1 .. i : ns[j] = fs[k] /\ Marked(t, v, fs[k].ue, fs[k].id)
    <3>1. PICK k \in 1 .. i - 1 : ns[j] = fs[k] /\ Marked(t, u, fs[k].ue, fs[k].id)
      BY <1>15
    <3>2. v.procs[fs[k].ue][fs[k].id] = u.procs[fs[k].ue][fs[k].id]
      BY <1>11, <2>2
    <3>3. Marked(t, v, fs[k].ue, fs[k].id)
      BY <3>1, <3>2 DEF Marked
    <3> QED
      BY <1>7, <3>1, <3>3
  <2>6. PICK w : w = [table |-> v, nacks |-> ns]
    OBVIOUS
  <2>7. w.table = v /\ w.nacks = ns /\ w = [table |-> w.table, nacks |-> w.nacks]
    BY <2>6
  <2>8. FedTo(m, t, fs, i, w)
    BY <1>2, <1>12, <1>16, <2>2, <2>4, <2>5, <2>7 DEF FedTo
  <2> QED
    BY <1>5, <2>3, <2>6, <2>8
<1>21. CASE ~ (f.ok \/ u.procs[ue][id].rv = LastRv)
  <2>1. PICK p : p = [u.procs[ue][id] EXCEPT !.status = "RECEIVED_FEEDBACK"]
    OBVIOUS
  <2>2. PICK v : v = [u EXCEPT !.procs[ue][id] = p]
    OBVIOUS
  <2>3. GoodProcess(u.procs[ue][id], m)
    BY <1>4 DEF Good, AllGood
  <2>4. GoodProcess(p, m) /\ p.status = "RECEIVED_FEEDBACK"
    <3>1. u.procs[ue][id].status # "INACTIVE"
      BY <1>10 DEF Active
    <3>2. PICK q : q = u.procs[ue][id]
      OBVIOUS
    <3>3. /\ p \in Processes /\ p.status = "RECEIVED_FEEDBACK" /\ p.timer = q.timer
          /\ p.sym = q.sym /\ p.rbg = q.rbg /\ p.rv = q.rv
      BY <2>1, <2>3, <3>2 DEF GoodProcess, Processes, Statuses
    <3> QED
      BY <2>3, <3>1, <3>2, <3>3 DEF GoodProcess
  <2>5. Good(v, m) /\ Changed(u, v, ue, id, p)
    BY <1>4, <1>10, <2>2, <2>4, MarkGood
  <2>6. PICK os \in Seq(Feedbacks) : os = Append(ns, f)
    BY AppendProperties
  <2>7. Len(os) = l + 1 /\ (\A j \in 1 .. l : os[j] = ns[j]) /\ os[l + 1] = f
    BY <1>2, <2>6, AppendProperties
  <2>8. FeedbackOne(r, f) = [table |-> v, nacks |-> os]
    <3>1. FeedbackOne(r, f) = Nacked(r, f)
      BY <1>4, <1>6, <1>10, <1>21 DEF FeedbackOne
    <3>2. [u EXCEPT !.procs[f.ue][f.id].status = "RECEIVED_FEEDBACK"] = v
      BY <1>6, <2>1, <2>2
    <3> QED
      BY <1>4, <2>6, <3>1, <3>2 DEF Nacked
  <2>9. Marked(t, v, ue, id)
    <3>1. v.procs[ue][id] = p
      BY <2>5 DEF Changed
    <3>2. t.procs[ue][id].rv < LastRv
      <4>1. PICK rv \in Nat : rv = u.procs[ue][id].rv /\ rv <= LastRv /\ rv # LastRv
        BY <1>21, <2>3, Zenon DEF GoodProcess, Processes
      <4>2. rv < LastRv
        BY ONLY <4>1, rv \in Nat DEF LastRv
      <4> QED
        BY <1>9, <4>1, <4>2
    <3> QED
      BY <1>9, <2>1, <3>1, <3>2 DEF Marked
  <2>10. ASSUME NEW k \in 1 .. i
         PROVE  \/ ~Active(v, fs[k].ue, fs[k].id)
                \/ \E j \in 1 .. l + 1 : os[j] = fs[k]
    <3>1. CASE k = i
      <4>1. l + 1 \in 1 .. l + 1
        OBVIOUS
      <4> QED
        BY <1>5, <2>7, <3>1, <4>1
    <3>2. CASE k \in 1 .. i - 1
      <4>1. \A j \in 1 .. l : j \in 1 .. l + 1
        OBVIOUS
      <4>2. v.procs[fs[k].ue][fs[k].id] = u.procs[fs[k].ue][fs[k].id]
        BY <1>11, <2>5, <3>2
      <4>3. \/ ~Active(u, fs[k].ue, fs[k].id)
            \/ \E j \in 1 .. l : ns[j] = fs[k]
        BY <1>14, <3>2
      <4> QED
        BY <2>7, <4>1, <4>2, <4>3 DEF Active
    <3> QED
      BY <1>13, <3>1, <3>2
  <2>11. ASSUME NEW j \in 1 .. l + 1
         PROVE  \E k \in 1 .. i : os[j] = fs[k] /\ Marked(t, v, fs[k].ue, fs[k].id)
    <3>1. CASE j = l + 1
      <4>1. i \in 1 .. i
        BY <1>0
      <4> QED
        BY <1>5, <1>6, <2>7, <2>9, <3>1, <4>1
    <3>2. CASE j \in 1 .. l
      <4>1. PICK k \in 1 .. i - 1 : ns[j] = fs[k] /\ Marked(t, u, fs[k].ue, fs[k].id)
        BY <1>15, <3>2
      <4>2. v.procs[fs[k].ue][fs[k].id] = u.procs[fs[k].ue][fs[k].id]
        BY <1>11, <2>5
      <4>3. Marked(t, v, fs[k].ue, fs[k].id)
        BY <4>1, <4>2 DEF Marked
      <4> QED
        BY <1>7, <2>7, <3>2, <4>1, <4>3
    <3> QED
      BY <3>1, <3>2
  <2>12. \A j \in 1 .. l + 1 : j = l + 1 \/ j \in 1 .. l
    OBVIOUS
  <2>13. \A j \in 1 .. l : ~Of(ns[j], ue, id)
    BY <1>8, <1>15
  <2>14. Apart(os)
    <3>1. ASSUME NEW a \in 1 .. l + 1, NEW b \in 1 .. l + 1, a # b
          PROVE  ~Of(os[a], os[b].ue, os[b].id)
      <4>1. CASE a = l + 1
        BY <1>6, <2>7, <2>12, <2>13, <3>1, <4>1 DEF Of
      <4>2. CASE b = l + 1
        BY <1>6, <2>7, <2>12, <2>13, <3>1, <4>2
      <4>3. CASE a \in 1 .. l /\ b \in 1 .. l
        BY <1>2, <1>16, <2>7, <3>1, <4>3 DEF Apart
      <4> QED
        BY <2>12, <4>1, <4>2, <4>3
    <3> QED
      BY <2>7, <3>1 DEF Apart
  <2>15. \A j \in 1 .. l + 1 : ~os[j].ok
    BY <1>16, <1>21, <2>7, <2>12
  <2>16. PICK w : w = [table |-> v, nacks |-> os]
    OBVIOUS
  <2>17. w.table = v /\ w.nacks = os /\ w = [table |-> w.table, nacks |-> w.nacks]
    BY <2>16
  <2>18. \A a \in UEs, b \in Ids :
           (\A k \in 1 .. i : ~Of(fs[k], a, b)) => v.procs[a][b] = t.procs[a][b]
    BY <1>12, <2>5
  <2>19. FedTo(m, t, fs, i, w)
    BY <2>5, <2>7, <2>10, <2>11, <2>14, <2>15, <2>17, <2>18 DEF FedTo
  <2> QED
    BY <1>5, <2>8, <2>16, <2>19
<1> QED
  BY <1>20, <1>21


(* The feedback of a slot applied: FedTo holds of the whole list.           *)
LEMMA FeedbackAll ==
  ASSUME NEW m \in Nat, NEW t, NEW fs \in Seq(Feedbacks),
         Good(t, m), Apart(fs), AllActive(t, fs)
  PROVE  FedTo(m, t, fs, Len(fs), ProcessHARQFeedbacks(t, fs))
<1> DEFINE V == [table : Tables, nacks : Seq(Feedbacks)]
           n == Len(fs)
           s == [table |-> t, nacks |-> <<>>]
           F == [i \in 1 .. n |-> [r \in V |-> FeedbackOne(r, fs[i])]]
           W == [i \in 0 .. n |-> {r \in V : FedTo(m, t, fs, i, r)}]
           Solves(h) == [i \in 0 .. Len(fs) |->
                           IF i = 0 THEN s ELSE FeedbackOne(h[i - 1], fs[i])]
<1>0. n \in Nat
  BY LenProperties
<1>1. ASSUME NEW i, NEW r, FedTo(m, t, fs, i, r) PROVE r \in V
  BY <1>1 DEF FedTo, Good
<1>2. FedTo(m, t, fs, 0, s)
  <2>1. s.table = t /\ s.nacks = <<>> /\ s = [table |-> s.table, nacks |-> s.nacks]
    OBVIOUS
  <2>2. <<>> \in Seq(Feedbacks) /\ Len(<<>>) = 0
    BY EmptySeq
  <2>3. \A k \in 1 .. 0 : FALSE
    OBVIOUS
  <2> HIDE DEF s
  <2> QED
    BY <2>1, <2>2, <2>3 DEF FedTo, Apart
<1>3. ASSUME NEW i \in 1 .. n, NEW r, FedTo(m, t, fs, i - 1, r)
      PROVE  FedTo(m, t, fs, i, FeedbackOne(r, fs[i]))
  BY <1>3, FeedbackStep
<1>4. \A i \in 0 .. n : W[i] = {r \in V : FedTo(m, t, fs, i, r)}
  OBVIOUS
<1>5. \A i \in 1 .. n : \A r \in V : F[i][r] = FeedbackOne(r, fs[i])
  OBVIOUS
<1>6. s \in V
  BY <1>1, <1>2
<1> HIDE DEF F, W, V, s, n
<1>7. \A i \in 1 .. n : i \in 0 .. n /\ i - 1 \in 0 .. n
  BY <1>0
<1>8. Reaches(n, V, s, F, W)
  <2>1. s \in W[0]
    BY <1>0, <1>2, <1>4, <1>6
  <2>2. ASSUME NEW i \in 1 .. n, NEW r \in W[i - 1] PROVE F[i][r] \in W[i]
    <3>1. r \in V /\ FedTo(m, t, fs, i - 1, r)
      BY <1>4, <1>7
    <3>2. FedTo(m, t, fs, i, FeedbackOne(r, fs[i]))
      BY <1>3, <3>1
    <3> QED
      BY <1>1, <1>4, <1>5, <1>7, <3>1, <3>2
  <2> QED
    BY <1>4, <2>1, <2>2 DEF Reaches
<1>9. PICK g : IsRecursion(g, n, s, F) /\ \A i \in 0 .. n : g[i] \in V
  BY <1>0, <1>8, Turns
<1>10. g = Solves(g)
  <2>1. \A i \in 0 .. n : i # 0 => F[i][g[i - 1]] = FeedbackOne(g[i - 1], fs[i])
    BY <1>0, <1>5, <1>7, <1>9
  <2>2. g = [i \in 0 .. n |-> IF i = 0 THEN s ELSE F[i][g[i - 1]]]
    BY <1>9 DEF IsRecursion
  <2> QED
    BY <2>1, <2>2 DEF n
<1>11. ProcessHARQFeedbacks(t, fs) = (CHOOSE h : h = Solves(h))[Len(fs)]
  BY DEF ProcessHARQFeedbacks, InTurn, s
<1>12. PICK h : h = (CHOOSE e : e = Solves(e)) /\ h = Solves(h)
  <2> HIDE DEF Solves
  <2> QED
    BY <1>10
<1>13. h[0] = s /\ \A i \in 1 .. n : h[i] = FeedbackOne(h[i - 1], fs[i])
  <2>1. h = [i \in 0 .. n |-> IF i = 0 THEN s ELSE FeedbackOne(h[i - 1], fs[i])]
    BY <1>12 DEF n
  <2>2. 0 \in 0 .. n /\ \A i \in 1 .. n : i \in 0 .. n /\ i # 0
    BY <1>0
  <2> QED
    BY ONLY <2>1, <2>2
<1>14. h[0] \in W[0] /\ \A i \in 1 .. n : h[i - 1] \in W[i - 1] => h[i] \in W[i]
  BY <1>0, <1>1, <1>2, <1>3, <1>4, <1>6, <1>7, <1>13
<1>15. \A i \in 0 .. n : h[i] \in W[i]
  BY <1>0, <1>14, Stays
<1>16. FedTo(m, t, fs, n, h[n])
  BY <1>0, <1>4, <1>15
<1> QED
  BY <1>11, <1>12, <1>16 DEF n


(* No assertion of ComputeActiveHarq fails, and it changes nothing else.    *)
LEMMA ActiveIsFed ==
  ASSUME NEW m \in Nat, NEW t, NEW nacks, Good(t, m), AllActive(t, nacks)
  PROVE  ComputeActiveHarq(t, nacks) = t
<1>1. t.failed = FALSE /\ t = [t EXCEPT !.failed = FALSE]
  BY DEF Good, Tables
<1>2. ~ \E i \in 1 .. Len(nacks) : ~Active(t, nacks[i].ue, nacks[i].id)
  BY DEF AllActive
<1>3. (t.failed \/ \E i \in 1 .. Len(nacks) : ~Active(t, nacks[i].ue, nacks[i].id)) = FALSE
  BY <1>1, <1>2
<1> QED
  BY <1>1, <1>3, Zenon DEF ComputeActiveHarq

(* Each of the NACKs of a list is marked for retransmission and may be sent *)
(* again.                                                                   *)
MarkedAll(u, ns) ==
  /\ AllActive(u, ns)
  /\ \A j \in 1 .. Len(ns) :
       LET p == u.procs[ns[j].ue][ns[j].id]
       IN  p.status = "RECEIVED_FEEDBACK" /\ p.rv < LastRv

(* The NACKs that the feedback leaves are such.                             *)
LEMMA NacksMarked ==
  ASSUME NEW m \in Nat, NEW t, NEW fs \in Seq(Feedbacks), NEW fed,
         Good(t, m), FedTo(m, t, fs, Len(fs), fed)
  PROVE  MarkedAll(fed.table, fed.nacks)
<1>1. PICK ns \in Seq(Feedbacks) : ns = fed.nacks
  BY DEF FedTo
<1>2. PICK u : u = fed.table
  OBVIOUS
<1>4. PICK n \in Nat : n = Len(ns)
  BY LenProperties
<1>5. \A j \in 1 .. n : ns[j] \in Feedbacks
  BY <1>4, ElementOfSeq
<1>6. ASSUME NEW j \in 1 .. n
      PROVE  /\ u.procs[ns[j].ue][ns[j].id].status = "RECEIVED_FEEDBACK"
             /\ u.procs[ns[j].ue][ns[j].id].rv < LastRv
  <2>1. PICK k \in 1 .. Len(fs) : ns[j] = fs[k] /\ Marked(t, u, fs[k].ue, fs[k].id)
    BY <1>1, <1>2, <1>4 DEF FedTo
  <2>2. ns[j].ue \in UEs /\ ns[j].id \in Ids
    BY <1>5 DEF Feedbacks
  <2>3. PICK p \in Processes : p = t.procs[ns[j].ue][ns[j].id]
    <3>1. t.procs[ns[j].ue][ns[j].id] \in Processes
      <4>1. t.procs \in [UEs -> [Ids -> Processes]]
        BY DEF Good, Tables
      <4> QED
        BY <2>2, <4>1
    <3> QED
      BY <3>1
  <2>4. u.procs[ns[j].ue][ns[j].id] = [p EXCEPT !.status = "RECEIVED_FEEDBACK"] /\ p.rv < LastRv
    BY <2>1, <2>3 DEF Marked
  <2>5. [p EXCEPT !.status = "RECEIVED_FEEDBACK"].status = "RECEIVED_FEEDBACK"
        /\ [p EXCEPT !.status = "RECEIVED_FEEDBACK"].rv = p.rv
    BY DEF Processes
  <2> QED
    BY <2>4, <2>5
<1>7. AllActive(u, ns)
  BY <1>4, <1>6 DEF AllActive, Active
<1>8. MarkedAll(u, ns)
  BY <1>4, <1>6, <1>7 DEF MarkedAll
<1> QED
  BY <1>1, <1>2, <1>8

(* A list has an element about the process.                                 *)
Has(fs, ue, id) == \E k \in 1 .. Len(fs) : Of(fs[k], ue, id)

(* What is put together is what was kept and what came.                     *)
LEMMA AllOf ==
  ASSUME NEW ks \in Seq(Feedbacks), NEW rs \in Seq(Feedbacks), NEW ue, NEW id
  PROVE  Has(ks \o rs, ue, id) <=> Has(ks, ue, id) \/ Has(rs, ue, id)
<1>1. PICK l \in Nat, n \in Nat : l = Len(ks) /\ n = Len(rs)
  BY LenProperties
<1>2. PICK all : all = ks \o rs
  OBVIOUS
<1>3. Len(all) = l + n /\ \A i \in 1 .. l + n : all[i] = IF i <= l THEN ks[i] ELSE rs[i - l]
  BY <1>1, <1>2, ConcatProperties
<1>4. \A i \in 1 .. l : i \in 1 .. l + n /\ all[i] = ks[i]
  BY <1>3
<1>5. \A i \in 1 .. n : i + l \in 1 .. l + n /\ all[i + l] = rs[i]
  BY <1>3
<1>6. \A i \in 1 .. l + n : \/ i \in 1 .. l /\ all[i] = ks[i]
                            \/ i - l \in 1 .. n /\ all[i] = rs[i - l]
  BY <1>3
<1>7. (\E k \in 1 .. l + n : Of(all[k], ue, id))
        <=> (\E k \in 1 .. l : Of(ks[k], ue, id)) \/ (\E k \in 1 .. n : Of(rs[k], ue, id))
  BY <1>4, <1>5, <1>6
<1> QED
  BY <1>1, <1>2, <1>3, <1>7 DEF Has

-----------------------------------------------------------------------------
(* Lists of the elements of a set. *)

(* o has every element of S, each of them once.                             *)
Lists(o, S) ==
  /\ o \in Seq(S)
  /\ \A i, j \in 1 .. Len(o) : i # j => o[i] # o[j]
  /\ \A x \in S : \E i \in 1 .. Len(o) : o[i] = x

(* The sequences in which the code may walk a set.                          *)
LEMMA WalkLists ==
  ASSUME NEW S, IsFiniteSet(S), NEW o \in SetToSeqs(S)
  PROVE  Lists(o, S)
<1>1. PICK n \in Nat : n = Cardinality(S)
  BY FS_CardinalityType
<1>2. o \in [1 .. n -> S] /\ \A i, j \in 1 .. n : i # j => o[i] # o[j]
  BY <1>1 DEF SetToSeqs
<1>3. o \in Seq(S) /\ Len(o) = n
  BY <1>2, SMTT(20)
<1>4. o \in Injection(1 .. n, S)
  BY <1>2 DEF Injection, IsInjective
<1>5. Cardinality(1 .. n) = n
  BY FS_Interval
<1>6. o \in Surjection(1 .. n, S)
  BY <1>1, <1>4, <1>5, FS_Injection
<1>7. \A x \in S : \E i \in 1 .. n : o[i] = x
  BY <1>6 DEF Surjection
<1> QED
  BY <1>2, <1>3, <1>7 DEF Lists

(* There is such a sequence, and SetToSeq is one.                           *)
LEMMA ListLists ==
  ASSUME NEW S, IsFiniteSet(S)
  PROVE  Lists(SetToSeq(S), S)
<1>1. PICK n \in Nat : n = Cardinality(S)
  BY FS_CardinalityType
<1>2. ExistsBijection(1 .. n, S)
  BY <1>1, FS_CardinalityType
<1>3. PICK f : f \in Bijection(1 .. n, S)
  BY <1>2 DEF ExistsBijection
<1>4. f \in [1 .. n -> S] /\ IsInjective(f)
  BY <1>3 DEF Bijection, Injection
<1>5. PICK o : o = SetToSeq(S)
  OBVIOUS
<1>6. o \in [1 .. n -> S] /\ IsInjective(o)
  BY <1>1, <1>4, <1>5 DEF SetToSeq
<1>7. o \in SetToSeqs(S)
  BY <1>1, <1>6 DEF SetToSeqs, IsInjective
<1> QED
  BY <1>5, <1>7, WalkLists

(* Process id of ue is that of a new block of the first i UEs.              *)
NewOf(g, o, i, ue, id) == \E k \in 1 .. i : o[k] = ue /\ g[ue][1] = id

(* A good table is as the invariants of the schedulers want it.             *)
LEMMA GoodIsOK ==
  ASSUME NEW t, NEW m \in Nat, Good(t, m)
  PROVE  TableOK(t, m)
<1>1. ASSUME NEW ue \in UEs, NEW id \in Ids, NEW p, p = t.procs[ue][id]
      PROVE  /\ p.status \in Statuses
             /\ p.timer \in 0 .. NumHarqProcess
             /\ p.rv \in 0 .. LastRv
             /\ p.rbg \in 0 .. Rbgs /\ p.sym \in 0 .. m
             /\ (p.status = "INACTIVE") <=> (p.sym = 0)
  <2>1. GoodProcess(p, m)
    BY <1>1 DEF Good, AllGood
  <2>2. NumHarqProcess \in Nat /\ LastRv \in Nat /\ Rbgs \in Nat
    BY NumberOfProcesses, HarqConstants DEF LastRv
  <2>3. p.status \in Statuses /\ p.timer \in Nat /\ p.sym \in Nat /\ p.rbg \in Nat /\ p.rv \in Nat
    BY <2>1 DEF GoodProcess, Processes
  <2>4. p.timer <= NumHarqProcess /\ p.rv <= LastRv /\ p.rbg <= Rbgs /\ p.sym <= m
    BY <2>1 DEF GoodProcess
  <2> HIDE DEF NumHarqProcess, LastRv
  <2>5. p.timer \in 0 .. NumHarqProcess /\ p.rv \in 0 .. LastRv
        /\ p.rbg \in 0 .. Rbgs /\ p.sym \in 0 .. m
    BY <2>2, <2>3, <2>4
  <2> QED
    BY <2>1, <2>3, <2>5 DEF GoodProcess
<1> QED
  BY <1>1 DEF TableOK, Good, Counts

-----------------------------------------------------------------------------
(* Downlink: no assertion of the scheduler fails, the blocks of a slot lie *)
(* apart, and, under what each theorem says of the beams and of the        *)
(* feedback, new data do not pass what waits to be sent again and every    *)
(* block is followed up.                                                   *)

-----------------------------------------------------------------------------
(* The feedback of a slot put together. *)

(* fs has, of the first i elements of all, the first one for each process   *)
(* that is active.                                                          *)
MergedTo(t, all, i, fs) ==
  /\ fs \in Seq(Feedbacks)
  /\ Apart(fs) /\ AllActive(t, fs)
  /\ \A k \in 1 .. i : Active(t, all[k].ue, all[k].id) =>
       \E j \in 1 .. Len(fs) : Of(fs[j], all[k].ue, all[k].id)
  /\ \A j \in 1 .. Len(fs) : \E k \in 1 .. i : fs[j] = all[k]

(* One more element is filtered, or joins the ones that are there.          *)
LEMMA MergeStep ==
  ASSUME NEW t, NEW all \in Seq(Feedbacks), NEW i \in 1 .. Len(all), NEW fs,
         MergedTo(t, all, i - 1, fs)
  PROVE  MergedTo(t, all, i, MergeOne(t, fs, all[i]))
<1>1. fs \in Seq(Feedbacks)
  BY DEF MergedTo
<1>2. PICK l \in Nat : l = Len(fs)
  BY <1>1, LenProperties
<1>3. PICK f \in Feedbacks : f = all[i]
  BY ElementOfSeq
<1>4. \A k \in 1 .. i : k = i \/ k \in 1 .. i - 1
  OBVIOUS
<1>5. \A k \in 1 .. i - 1 : k \in 1 .. i
  OBVIOUS
<1>6. i \in 1 .. i
  OBVIOUS
<1>10. CASE ~Active(t, f.ue, f.id) \/ \E j \in 1 .. l : Same(fs[j], f)
  <2>1. MergeOne(t, fs, f) = fs
    BY <1>2, <1>10 DEF MergeOne
  <2>2. \A k \in 1 .. i : Active(t, all[k].ue, all[k].id) =>
          \E j \in 1 .. l : Of(fs[j], all[k].ue, all[k].id)
    <3>1. ASSUME NEW k \in 1 .. i, Active(t, all[k].ue, all[k].id)
          PROVE  \E j \in 1 .. l : Of(fs[j], all[k].ue, all[k].id)
      <4>1. CASE k = i
        BY <1>3, <1>10, <3>1, <4>1 DEF Same, Of
      <4>2. CASE k \in 1 .. i - 1
        BY <1>2, <3>1, <4>2 DEF MergedTo
      <4> QED
        BY <1>4, <4>1, <4>2
    <3> QED
      BY <3>1
  <2>3. MergedTo(t, all, i, fs)
    BY <1>2, <1>5, <2>2 DEF MergedTo
  <2> QED
    BY <1>3, <2>1, <2>3
<1>11. CASE ~ (~Active(t, f.ue, f.id) \/ \E j \in 1 .. l : Same(fs[j], f))
  <2>1. PICK gs \in Seq(Feedbacks) : gs = Append(fs, f)
    BY <1>1, AppendProperties
  <2>2. Len(gs) = l + 1 /\ (\A j \in 1 .. l : gs[j] = fs[j]) /\ gs[l + 1] = f
    BY <1>1, <1>2, <2>1, AppendProperties
  <2>3. \A j \in 1 .. l + 1 : j = l + 1 \/ j \in 1 .. l
    OBVIOUS
  <2>4. l + 1 \in 1 .. l + 1 /\ \A j \in 1 .. l : j \in 1 .. l + 1
    OBVIOUS
  <2>5. Apart(gs)
    <3>1. ASSUME NEW a \in 1 .. l + 1, NEW b \in 1 .. l + 1, a # b
          PROVE  ~Of(gs[a], gs[b].ue, gs[b].id)
      <4>1. CASE a = l + 1
        <5>1. b \in 1 .. l /\ ~Same(gs[b], f)
          BY <1>11, <2>2, <2>3, <3>1, <4>1
        <5> QED
          BY <2>2, <4>1, <5>1 DEF Same, Of
      <4>2. CASE b = l + 1
        <5>1. a \in 1 .. l /\ ~Same(gs[a], f)
          BY <1>11, <2>2, <2>3, <3>1, <4>2
        <5> QED
          BY <2>2, <4>2, <5>1 DEF Same, Of
      <4>3. CASE a \in 1 .. l /\ b \in 1 .. l
        BY <1>2, <2>2, <3>1, <4>3 DEF MergedTo, Apart
      <4> QED
        BY <2>3, <4>1, <4>2, <4>3
    <3> QED
      BY <2>2, <3>1 DEF Apart
  <2>6. AllActive(t, gs)
    <3>1. \A j \in 1 .. l : Active(t, fs[j].ue, fs[j].id)
      BY <1>2 DEF MergedTo, AllActive
    <3> QED
      BY <1>11, <2>2, <2>3, <3>1 DEF AllActive
  <2>7. ASSUME NEW k \in 1 .. i, Active(t, all[k].ue, all[k].id)
        PROVE  \E j \in 1 .. l + 1 : Of(gs[j], all[k].ue, all[k].id)
    <3>1. CASE k = i
      BY <1>3, <2>2, <2>4, <3>1 DEF Of
    <3>2. CASE k \in 1 .. i - 1
      <4>1. PICK j \in 1 .. l : Of(fs[j], all[k].ue, all[k].id)
        BY <1>2, <2>7, <3>2 DEF MergedTo
      <4> QED
        BY <2>2, <2>4, <4>1
    <3> QED
      BY <1>4, <3>1, <3>2
  <2>8. ASSUME NEW j \in 1 .. l + 1 PROVE \E k \in 1 .. i : gs[j] = all[k]
    <3>1. CASE j = l + 1
      BY <1>3, <1>6, <2>2, <3>1
    <3>2. CASE j \in 1 .. l
      <4>1. PICK k \in 1 .. i - 1 : fs[j] = all[k]
        BY <1>2, <3>2 DEF MergedTo
      <4> QED
        BY <1>5, <2>2, <3>2, <4>1
    <3> QED
      BY <2>3, <3>1, <3>2
  <2>9. MergedTo(t, all, i, gs)
    BY <2>2, <2>5, <2>6, <2>7, <2>8 DEF MergedTo
  <2>10. MergeOne(t, fs, f) = gs
    BY <1>2, <1>11, <2>1 DEF MergeOne
  <2> QED
    BY <1>3, <2>9, <2>10
<1> QED
  BY <1>10, <1>11

(* The loop of MergeHARQ over a list.                                       *)
Merged(t, all) == InTurn(LAMBDA fs, f : MergeOne(t, fs, f), <<>>, all)

(* The whole feedback of a slot, filtered.                                  *)
LEMMA MergeAll ==
  ASSUME NEW t, NEW all \in Seq(Feedbacks)
  PROVE  MergedTo(t, all, Len(all), Merged(t, all))
<1> DEFINE V == Seq(Feedbacks)
           n == Len(all)
           s == <<>>
           F == [i \in 1 .. n |-> [fs \in V |-> MergeOne(t, fs, all[i])]]
           W == [i \in 0 .. n |-> {fs \in V : MergedTo(t, all, i, fs)}]
           Solves(h) == [i \in 0 .. Len(all) |->
                           IF i = 0 THEN s ELSE MergeOne(t, h[i - 1], all[i])]
<1>0. n \in Nat
  BY LenProperties
<1>1. ASSUME NEW i, NEW fs, MergedTo(t, all, i, fs) PROVE fs \in V
  BY <1>1 DEF MergedTo
<1>2. MergedTo(t, all, 0, s)
  <2>1. <<>> \in Seq(Feedbacks) /\ Len(<<>>) = 0
    BY EmptySeq
  <2>2. \A k \in 1 .. 0 : FALSE
    OBVIOUS
  <2> QED
    BY <2>1, <2>2 DEF MergedTo, Apart, AllActive
<1>3. ASSUME NEW i \in 1 .. n, NEW fs, MergedTo(t, all, i - 1, fs)
      PROVE  MergedTo(t, all, i, MergeOne(t, fs, all[i]))
  BY <1>3, MergeStep
<1>4. \A i \in 0 .. n : W[i] = {fs \in V : MergedTo(t, all, i, fs)}
  OBVIOUS
<1>5. \A i \in 1 .. n : \A fs \in V : F[i][fs] = MergeOne(t, fs, all[i])
  OBVIOUS
<1>6. s \in V
  BY <1>1, <1>2
<1> HIDE DEF F, W, V, s, n
<1>7. \A i \in 1 .. n : i \in 0 .. n /\ i - 1 \in 0 .. n
  BY <1>0
<1>8. Reaches(n, V, s, F, W)
  <2>1. s \in W[0]
    BY <1>0, <1>2, <1>4, <1>6
  <2>2. ASSUME NEW i \in 1 .. n, NEW fs \in W[i - 1] PROVE F[i][fs] \in W[i]
    <3>1. fs \in V /\ MergedTo(t, all, i - 1, fs)
      BY <1>4, <1>7
    <3>2. MergedTo(t, all, i, MergeOne(t, fs, all[i]))
      BY <1>3, <3>1
    <3> QED
      BY <1>1, <1>4, <1>5, <1>7, <3>1, <3>2
  <2> QED
    BY <1>4, <2>1, <2>2 DEF Reaches
<1>9. PICK g : IsRecursion(g, n, s, F) /\ \A i \in 0 .. n : g[i] \in V
  BY <1>0, <1>8, Turns
<1>10. g = Solves(g)
  <2>1. \A i \in 0 .. n : i # 0 => F[i][g[i - 1]] = MergeOne(t, g[i - 1], all[i])
    BY <1>0, <1>5, <1>7, <1>9
  <2>2. g = [i \in 0 .. n |-> IF i = 0 THEN s ELSE F[i][g[i - 1]]]
    BY <1>9 DEF IsRecursion
  <2> QED
    BY <2>1, <2>2 DEF n
<1>11. Merged(t, all) = (CHOOSE h : h = Solves(h))[Len(all)]
  BY DEF Merged, InTurn, s
<1>12. PICK h : h = (CHOOSE e : e = Solves(e)) /\ h = Solves(h)
  <2> HIDE DEF Solves
  <2> QED
    BY <1>10
<1>13. h[0] = s /\ \A i \in 1 .. n : h[i] = MergeOne(t, h[i - 1], all[i])
  <2>1. h = [i \in 0 .. n |-> IF i = 0 THEN s ELSE MergeOne(t, h[i - 1], all[i])]
    BY <1>12 DEF n
  <2>2. 0 \in 0 .. n /\ \A i \in 1 .. n : i \in 0 .. n /\ i # 0
    BY <1>0
  <2> QED
    BY ONLY <2>1, <2>2
<1>14. h[0] \in W[0] /\ \A i \in 1 .. n : h[i - 1] \in W[i - 1] => h[i] \in W[i]
  BY <1>0, <1>1, <1>2, <1>3, <1>4, <1>6, <1>7, <1>13
<1>15. \A i \in 0 .. n : h[i] \in W[i]
  BY <1>0, <1>14, Stays
<1>16. MergedTo(t, all, n, h[n])
  BY <1>0, <1>4, <1>15
<1> QED
  BY <1>11, <1>12, <1>16 DEF n

-----------------------------------------------------------------------------
(* Retransmissions. *)

BeamOf(b) == Beam[b[1]]

AllBeams == {Beam[ue] : ue \in UEs}

(* The blocks to send again, as ScheduleDlHarq may walk them: each is there *)
(* once, NACKed and may be sent again, and the blocks of a beam lie         *)
(* together.                                                                *)
Ordered(t, o) ==
  /\ o \in Seq(Pairs)
  /\ \A i, j \in 1 .. Len(o) : i # j => o[i] # o[j]
  /\ \A i \in 1 .. Len(o) :
       LET p == t.procs[o[i][1]][o[i][2]]
       IN  p.status = "RECEIVED_FEEDBACK" /\ p.rv < LastRv
  /\ \A i, j \in 1 .. Len(o) : i < j /\ BeamOf(o[i]) = BeamOf(o[j]) =>
       \A k \in i .. j : BeamOf(o[k]) = BeamOf(o[i])

Blocks ==
  [ue : UEs, id : Ids, new : BOOLEAN, at : Nat, sym : Nat, rbgAt : Nat, rbg : Nat]

RetxAccs ==
  [table : Tables, beam : SUBSET AllBeams, width : Nat, at : Nat, rbg : Nat,
   ues : SUBSET UEs, kept : SUBSET Pairs, blocks : SUBSET Blocks]

(* Two blocks are for different UEs and share no resource block.            *)
Disjoint(b, c) ==
  /\ b.ue # c.ue
  /\ \/ b.at + b.sym <= c.at \/ c.at + c.sym <= b.at
     \/ b.rbgAt + b.rbg <= c.rbgAt \/ c.rbgAt + c.rbg <= b.rbgAt

(* The beams of the first k blocks.                                         *)
BeamsOf(o, k) == {BeamOf(o[j]) : j \in 1 .. k}

(* The process of b was taken up.                                           *)
UpToDate(t, b) ==
  t.procs[b[1]][b[2]].status = "WAITING_FEEDBACK" /\ t.procs[b[1]][b[2]].timer = 0

(* The processes of the first i blocks are taken up, the others are as they *)
(* were.                                                                    *)
TakenTo(m, t, o, i, acc) ==
  /\ Good(acc.table, m)
  /\ \A ue \in UEs, id \in Ids :
       (\A k \in 1 .. i : o[k] # <<ue, id>>) => acc.table.procs[ue][id] = t.procs[ue][id]
  /\ \A k \in 1 .. i : UpToDate(acc.table, o[k])

InBlock(acc, w) == \E b \in acc.blocks : b.ue = w[1] /\ b.id = w[2]

(* The block of w is larger than the symbols of a beam.                     *)
TooLarge(t, width, w) ==
  t.procs[w[1]][w[2]].sym * t.procs[w[1]][w[2]].rbg > Rbgs * width

(* Each of the first i blocks is kept or sent.  One that is kept while none *)
(* is sent is larger than a beam.                                           *)
KeptTo(o, i, acc) ==
  /\ \A w \in acc.kept : /\ \E k \in 1 .. i : o[k] = w
                         /\ ~InBlock(acc, w)
                         /\ acc.blocks = {} => TooLarge(acc.table, acc.width, w)
  /\ \A k \in 1 .. i : o[k] \in acc.kept \/ InBlock(acc, o[k])
  /\ \A b \in acc.blocks : ~b.new /\ \E k \in 1 .. i : o[k] = <<b.ue, b.id>>

(* The block is in the symbols of an earlier beam.                          *)
InEarlierBeam(acc, b) == b.at + b.sym <= acc.at /\ {Beam[b.ue]} # acc.beam

(* The block is in the symbols of the beam, in the RBGs used so far.        *)
InBeam(acc, b) ==
  b.at = acc.at /\ b.rbgAt + b.rbg <= acc.rbg /\ b.ue \in acc.ues

InBand(b) == b.sym > 0 /\ b.rbg > 0 /\ b.rbgAt + b.rbg <= Rbgs

(* Where the blocks lie.                                                    *)
PlacedTo(acc) ==
  /\ \A b \in acc.blocks : b.sym = acc.width /\ InBand(b) /\ (InEarlierBeam(acc, b) \/ InBeam(acc, b))
  /\ \A b, c \in acc.blocks : b # c => Disjoint(b, c)
  /\ \A ue \in acc.ues : \E b \in acc.blocks : b.ue = ue
  /\ acc.ues = {} => acc.rbg = 0

(* Where the beam of the k-th block starts.                                 *)
BeamTo(o, k, acc) ==
  /\ acc.beam = IF k = 0 THEN {} ELSE {BeamOf(o[k])}
  /\ acc.at + (IF k = 0 THEN 0 ELSE acc.width) <= Cardinality(BeamsOf(o, k)) * acc.width

(* i blocks are done, and the beam is that of the k-th.                     *)
RetxTo(m, t, o, width, i, k, acc) ==
  /\ acc \in RetxAccs /\ acc.width = width /\ acc.rbg <= Rbgs
  /\ TakenTo(m, t, o, i, acc)
  /\ KeptTo(o, i, acc)
  /\ PlacedTo(acc)
  /\ BeamTo(o, k, acc)

(* The beams can be counted.                                                *)
LEMMA BeamsFinite ==
  ASSUME NEW B, B \subseteq AllBeams
  PROVE  IsFiniteSet(B) /\ Cardinality(B) \in Nat
<1>1. PICK f : f = [ue \in UEs |-> Beam[ue]]
  OBVIOUS
<1>2. f \in Surjection(UEs, AllBeams)
  BY <1>1 DEF Surjection, AllBeams
<1>3. IsFiniteSet(AllBeams)
  BY <1>2, HarqConstants, FS_Surjection
<1>4. IsFiniteSet(B)
  <2>1. B \in SUBSET AllBeams
    OBVIOUS
  <2> QED
    BY <1>3, <2>1, FS_Subset
<1> QED
  BY <1>4, FS_CardinalityType

(* The beams of the blocks are beams.                                       *)
LEMMA BeamsOfAll ==
  ASSUME NEW o \in Seq(Pairs), NEW k \in 0 .. Len(o)
  PROVE  BeamsOf(o, k) \subseteq AllBeams /\ \A j \in 1 .. k : BeamOf(o[j]) \in AllBeams
<1>1. ASSUME NEW j \in 1 .. k PROVE BeamOf(o[j]) \in AllBeams
  <2>1. j \in 1 .. Len(o)
    BY LenProperties
  <2>2. o[j] \in Pairs
    BY <2>1, ElementOfSeq
  <2>3. o[j][1] \in UEs
    BY <2>2 DEF Pairs
  <2> QED
    BY <2>3 DEF BeamOf, AllBeams
<1> QED
  BY <1>1 DEF BeamsOf

(* On to the beam of the next block.                                        *)
LEMMA BeamStep ==
  ASSUME NEW m \in Nat, NEW t, NEW o \in Seq(Pairs), NEW width \in Nat,
         NEW i \in 1 .. Len(o), NEW acc,
         Ordered(t, o), RetxTo(m, t, o, width, i - 1, i - 1, acc)
  PROVE  RetxTo(m, t, o, width, i - 1, i, ChangeBeam(acc, {BeamOf(o[i])}))
<1>0. i \in Nat /\ i - 1 \in Nat /\ i - 1 \in 0 .. Len(o) /\ i \in 0 .. Len(o) /\ i \in 1 .. i
      /\ Len(o) \in Nat
  BY LenProperties
<1>1. acc \in RetxAccs /\ acc.width = width /\ acc.rbg <= Rbgs
  BY DEF RetxTo
<1>2. TakenTo(m, t, o, i - 1, acc) /\ KeptTo(o, i - 1, acc) /\ PlacedTo(acc)
      /\ BeamTo(o, i - 1, acc)
  BY DEF RetxTo
<1>3. PICK B : B = BeamsOf(o, i - 1)
  OBVIOUS
<1>4. PICK x : x = BeamOf(o[i])
  OBVIOUS
<1>5. BeamsOf(o, i) = B \cup {x} /\ x \in AllBeams /\ B \subseteq AllBeams
  <2>1. \A j \in 1 .. i : j = i \/ j \in 1 .. i - 1
    BY <1>0
  <2>2. \A j \in 1 .. i - 1 : j \in 1 .. i
    BY <1>0
  <2>3. BeamsOf(o, i) = B \cup {x}
    BY <1>0, <1>3, <1>4, <2>1, <2>2 DEF BeamsOf
  <2> QED
    BY <1>0, <1>3, <1>4, <2>3, BeamsOfAll
<1>6. PICK c \in Nat : c = Cardinality(B)
  BY <1>5, BeamsFinite
<1>7. Cardinality(B \cup {x}) = IF x \in B THEN c ELSE c + 1
  BY <1>5, <1>6, BeamsFinite, FS_AddElement
<1>8. PICK at \in Nat, rbg \in Nat : at = acc.at /\ rbg = acc.rbg
  BY <1>1 DEF RetxAccs
<1>9. at + (IF i - 1 = 0 THEN 0 ELSE width) <= c * width
  BY <1>1, <1>2, <1>3, <1>6, <1>8 DEF BeamTo
<1>10. CASE acc.beam = {x}
  <2>1. ChangeBeam(acc, {x}) = acc
    BY <1>10 DEF ChangeBeam
  <2>2. i - 1 # 0 /\ BeamOf(o[i - 1]) = x
    BY <1>2, <1>10 DEF BeamTo
  <2>3. x \in B
    <3>1. i - 1 \in 1 .. i - 1
      BY <1>0, <2>2
    <3> QED
      BY <1>3, <2>2, <3>1 DEF BeamsOf
  <2>4. B \cup {x} = B
    BY <2>3
  <2>5. BeamTo(o, i, acc)
    <3>1. i # 0
      BY <1>0
    <3>2. acc.at + width <= c * width
      BY <1>8, <1>9, <2>2
    <3> QED
      BY <1>1, <1>4, <1>5, <1>6, <1>10, <2>4, <3>1, <3>2 DEF BeamTo
  <2> QED
    BY <1>1, <1>2, <1>4, <2>1, <2>5 DEF RetxTo
<1>11. CASE acc.beam # {x}
  <2>1. x \notin B
    <3>1. SUFFICES ASSUME NEW j \in 1 .. i - 1, BeamOf(o[j]) = x PROVE FALSE
      BY <1>3 DEF BeamsOf
    <3>2. j \in 1 .. Len(o) /\ j < i /\ i - 1 \in j .. i /\ i - 1 # 0
      BY <1>0
    <3>3. BeamOf(o[i - 1]) = x
      BY <1>4, <3>1, <3>2 DEF Ordered
    <3> QED
      BY <1>2, <1>11, <3>2, <3>3 DEF BeamTo
  <2>2. PICK to \in Nat : to = IF acc.ues # {} THEN at + width ELSE at
    <3>1. (IF acc.ues # {} THEN at + width ELSE at) \in Nat
      BY SMT
    <3> QED
      BY <3>1, Zenon
  <2>3. PICK r : r = ChangeBeam(acc, {x})
    OBVIOUS
  <2>4. r = [table |-> acc.table, beam |-> {x}, width |-> width, at |-> to, rbg |-> 0,
             ues |-> {}, kept |-> acc.kept, blocks |-> acc.blocks]
    <3>1. acc = [table |-> acc.table, beam |-> acc.beam, width |-> width, at |-> at,
                 rbg |-> rbg, ues |-> acc.ues, kept |-> acc.kept, blocks |-> acc.blocks]
      BY <1>1, <1>8 DEF RetxAccs
    <3>2. r = [acc EXCEPT !.beam = {x}, !.rbg = 0, !.ues = {},
                          !.at = IF acc.ues # {} THEN @ + acc.width ELSE @]
      BY <1>11, <2>3 DEF ChangeBeam
    <3>3. (IF acc.ues # {} THEN acc.at + acc.width ELSE acc.at) = to
      BY <1>1, <1>8, <2>2
    <3>4. r = [acc EXCEPT !.beam = {x}, !.rbg = 0, !.ues = {}, !.at = to]
      BY <3>2, <3>3, Zenon
    <3>5. PICK a, b, d, e, f : a = acc.table /\ b = acc.beam /\ d = acc.ues
                                /\ e = acc.kept /\ f = acc.blocks
      OBVIOUS
    <3>6. acc = [table |-> a, beam |-> b, width |-> width, at |-> at, rbg |-> rbg,
                 ues |-> d, kept |-> e, blocks |-> f]
      BY <3>1, <3>5, Zenon
    <3>7. r = [table |-> a, beam |-> {x}, width |-> width, at |-> to, rbg |-> 0,
               ues |-> {}, kept |-> e, blocks |-> f]
      BY ONLY <3>4, <3>6
    <3> QED
      BY <3>5, <3>7, Zenon
  <2>5. /\ r.table = acc.table /\ r.beam = {x} /\ r.width = width /\ r.at = to /\ r.rbg = 0
        /\ r.ues = {} /\ r.kept = acc.kept /\ r.blocks = acc.blocks
    BY <2>4
  <2>6. r \in RetxAccs
    <3>1. /\ acc.table \in Tables /\ acc.kept \in SUBSET Pairs /\ acc.blocks \in SUBSET Blocks
          /\ {x} \in SUBSET AllBeams /\ {} \in SUBSET UEs
      BY <1>1, <1>5 DEF RetxAccs
    <3> QED
      BY <2>4, <3>1 DEF RetxAccs
  <2>7. TakenTo(m, t, o, i - 1, r)
    BY <1>2, <2>5 DEF TakenTo
  <2>8. KeptTo(o, i - 1, r)
    <3>1. \A w : InBlock(r, w) <=> InBlock(acc, w)
      BY <2>5 DEF InBlock
    <3>2. r.width = acc.width
      BY <1>1, <2>5
    <3> QED
      BY <1>2, <2>5, <3>1, <3>2 DEF KeptTo
  <2>9. BeamTo(o, i, r)
    <3>1. i # 0
      BY <1>0
    <3>2. Cardinality(B \cup {x}) = c + 1
      BY <1>7, <2>1
    <3>3. to + width <= (c + 1) * width
      <4>1. (c + 1) * width = c * width + width /\ c * width \in Nat
        OBVIOUS
      <4>2. to <= c * width
        <5>1. CASE acc.ues # {}
          <6>1. i - 1 # 0
            <7>1. SUFFICES ASSUME i - 1 = 0 PROVE FALSE
              OBVIOUS
            <7>2. PICK b \in acc.blocks : TRUE
              BY <1>2, <5>1 DEF PlacedTo
            <7>3. \E k \in 1 .. i - 1 : o[k] = <<b.ue, b.id>>
              BY <1>2, <7>2 DEF KeptTo
            <7> QED
              BY <7>1, <7>3
          <6> QED
            BY <1>9, <2>2, <5>1, <6>1
        <5>2. CASE acc.ues = {}
          BY <1>9, <2>2, <4>1, <5>2
        <5> QED
          BY <5>1, <5>2
      <4> QED
        BY <4>1, <4>2
    <3> QED
      BY <1>4, <1>5, <2>5, <3>1, <3>2, <3>3 DEF BeamTo
  <2>10. PlacedTo(r)
    <3>1. ASSUME NEW b \in acc.blocks PROVE InEarlierBeam(r, b)
      <4>1. PICK k \in 1 .. i - 1 : o[k] = <<b.ue, b.id>>
        BY <1>2 DEF KeptTo
      <4>2. Beam[b.ue] \in B
        BY <1>3, <4>1 DEF BeamsOf, BeamOf
      <4>3. {Beam[b.ue]} # {x}
        BY <2>1, <4>2
      <4>4. b \in Blocks
        BY <1>1 DEF RetxAccs
      <4>5. b.at \in Nat /\ b.sym \in Nat
        BY <4>4 DEF Blocks
      <4>6. b.at + b.sym <= to
        <5>1. CASE InEarlierBeam(acc, b)
          <6>1. PICK e \in Nat : e = b.at + b.sym
            BY <4>5
          <6>2. e <= at /\ at <= to
            BY <1>8, <2>2, <5>1, <6>1 DEF InEarlierBeam
          <6> QED
            BY <1>8, <2>2, <6>1, <6>2
        <5>2. CASE InBeam(acc, b)
          <6>1. acc.ues # {} /\ b.at = at /\ b.sym = width
            BY <1>1, <1>2, <1>8, <5>2 DEF InBeam, PlacedTo
          <6> QED
            BY <2>2, <6>1
        <5> QED
          BY <1>2, <5>1, <5>2 DEF PlacedTo
      <4> QED
        BY <2>5, <4>3, <4>6 DEF InEarlierBeam
    <3> QED
      BY <1>1, <1>2, <2>5, <3>1 DEF PlacedTo
  <2>11. r.rbg <= Rbgs
    BY <2>5, HarqConstants
  <2> QED
    BY <1>4, <2>3, <2>5, <2>6, <2>7, <2>8, <2>9, <2>10, <2>11 DEF RetxTo
<1> QED
  BY <1>10, <1>11

(* The RBGs that a block of this area needs in so many symbols: one at      *)
(* least, and no more than there are if they have the area.                 *)
LEMMA Need ==
  ASSUME NEW a \in Nat \ {0}, NEW w \in Nat \ {0}, NEW free \in Nat, a <= free * w
  PROVE  (a + w - 1) \div w \in Nat /\ (a + w - 1) \div w >= 1 /\ (a + w - 1) \div w <= free
<1>1. PICK n \in Nat : n = a + w - 1
  OBVIOUS
<1>2. n \div w \in Nat /\ w * (n \div w) <= n /\ n < w * (n \div w) + w
  OBVIOUS
<1>3. PICK q \in Nat : q = n \div w
  BY <1>2
<1>4. w * q <= n /\ n < w * q + w
  BY <1>2, <1>3
<1>5. q >= 1
  <2>1. SUFFICES ASSUME q = 0 PROVE FALSE
    OBVIOUS
  <2>2. w * q = 0
    BY <2>1
  <2> QED
    BY <1>1, <1>4, <2>2
<1>6. q <= free
  <2>1. SUFFICES ASSUME q >= free + 1 PROVE FALSE
    OBVIOUS
  <2>2. w * q >= w * (free + 1)
    BY <2>1
  <2>3. w * (free + 1) = free * w + w
    OBVIOUS
  <2> QED
    BY <1>1, <1>4, <2>2, <2>3
<1> QED
  BY <1>1, <1>3, <1>5, <1>6

(* The process of b taken up, as the code does for every block.             *)
Upped(acc, b) ==
  LET p == acc.table.procs[b[1]][b[2]]
  IN  [acc EXCEPT !.table.procs[b[1]][b[2]] = TakenUp(p),
                  !.table.failed = @ \/ p.status # "RECEIVED_FEEDBACK"]

(* The process p of b is NACKed, and v is the table with p taken up.        *)
TakesUp(m, acc, b, p, v) ==
  /\ acc \in RetxAccs /\ b \in Pairs /\ Good(acc.table, m)
  /\ p = acc.table.procs[b[1]][b[2]] /\ p.status = "RECEIVED_FEEDBACK"
  /\ v = [acc.table EXCEPT !.procs[b[1]][b[2]] = TakenUp(p)]

IsUpped(m, acc, b, p, v) ==
  /\ Good(v, m) /\ Changed(acc.table, v, b[1], b[2], TakenUp(p))
  /\ Upped(acc, b) = [acc EXCEPT !.table = v]

(* Taking a process up fails nothing and changes the table only.            *)
LEMMA UppedIs ==
  ASSUME NEW m \in Nat, NEW acc, NEW b, NEW p, NEW v, TakesUp(m, acc, b, p, v)
  PROVE  IsUpped(m, acc, b, p, v)
<1>0. /\ acc \in RetxAccs /\ b \in Pairs /\ Good(acc.table, m)
      /\ p = acc.table.procs[b[1]][b[2]] /\ p.status = "RECEIVED_FEEDBACK"
      /\ v = [acc.table EXCEPT !.procs[b[1]][b[2]] = TakenUp(p)]
  BY DEF TakesUp
<1>1. PICK ue \in UEs, id \in Ids : ue = b[1] /\ id = b[2]
  BY <1>0 DEF Pairs
<1>2. PICK u : u = acc.table
  BY Zenon
<1>3. GoodProcess(p, m) /\ Active(u, ue, id) /\ p.status # "INACTIVE"
  BY <1>0, <1>1, <1>2 DEF Good, AllGood, Active
<1>4. PICK q : q = TakenUp(p)
  OBVIOUS
<1>5. GoodProcess(q, m) /\ q.status # "INACTIVE"
  BY <1>3, <1>4, TakenUpGood, Zenon
<1>6. v = [u EXCEPT !.procs[ue][id] = q]
  BY <1>0, <1>1, <1>2, <1>4, Zenon
<1>7. Good(v, m) /\ Changed(u, v, ue, id, q)
  <2>1. Good(u, m) /\ m \in Nat
    BY <1>0, <1>2, Zenon
  <2>2. /\ Good([u EXCEPT !.procs[ue][id] = q], m)
        /\ Changed(u, [u EXCEPT !.procs[ue][id] = q], ue, id, q)
    BY ONLY <1>3, <1>5, <2>1, MarkGood, ue \in UEs, id \in Ids
  <2> QED
    BY <1>6, <2>2, Zenon
<1>8. u.failed = FALSE /\ v.failed = FALSE
  BY <1>0, <1>2, <1>7, Zenon DEF Good, Tables
<1>9. (u.failed \/ p.status # "RECEIVED_FEEDBACK") = FALSE
  BY <1>0, <1>8
<1>10. [v EXCEPT !.failed = FALSE] = v
  BY <1>7, <1>8 DEF Good, Tables
<1>11. PICK bm, wd, at, rb, ue2, ks, bs :
         acc = [table |-> u, beam |-> bm, width |-> wd, at |-> at, rbg |-> rb,
                ues |-> ue2, kept |-> ks, blocks |-> bs]
  BY <1>0, <1>2 DEF RetxAccs
<1>12. Upped(acc, b) = [acc EXCEPT !.table.procs[ue][id] = q, !.table.failed = FALSE]
  BY <1>0, <1>1, <1>2, <1>4, <1>8, <1>9, <1>11, Zenon DEF Upped
<1>13. [acc EXCEPT !.table.procs[ue][id] = q, !.table.failed = FALSE]
         = [acc EXCEPT !.table = [v EXCEPT !.failed = FALSE]]
  BY ONLY <1>6, <1>11
<1> QED
  BY <1>1, <1>2, <1>4, <1>7, <1>10, <1>12, <1>13 DEF IsUpped

(* The block of b does not fit, or its UE has one in the slot already.      *)
NoRoom(acc, b, area) ==
  b[1] \in acc.ues \/ (Rbgs - acc.rbg) * acc.width < area

(* A block that is kept.                                                    *)
LEMMA RetxKept ==
  ASSUME NEW m \in Nat, NEW acc, NEW b, NEW p, NEW v, TakesUp(m, acc, b, p, v),
         NoRoom(acc, b, p.sym * p.rbg)
  PROVE  RetxOne(acc, b) =
           [table |-> v, beam |-> acc.beam, width |-> acc.width, at |-> acc.at,
            rbg |-> acc.rbg, ues |-> acc.ues, kept |-> acc.kept \union {b},
            blocks |-> acc.blocks]
<1>1. Upped(acc, b) = [acc EXCEPT !.table = v]
  BY UppedIs DEF IsUpped
<1>2. RetxOne(acc, b) = [Upped(acc, b) EXCEPT !.kept = @ \union {b}]
  <2>1. p = acc.table.procs[b[1]][b[2]]
    BY Zenon DEF TakesUp
  <2> QED
    BY <2>1, Zenon DEF RetxOne, Upped, NoRoom
<1>3. acc = [table |-> acc.table, beam |-> acc.beam, width |-> acc.width, at |-> acc.at,
             rbg |-> acc.rbg, ues |-> acc.ues, kept |-> acc.kept, blocks |-> acc.blocks]
  BY DEF RetxAccs, TakesUp
<1>4. PICK a, bm, wd, at, rb, us, ks, bs :
        /\ a = acc.table /\ bm = acc.beam /\ wd = acc.width /\ at = acc.at
        /\ rb = acc.rbg /\ us = acc.ues /\ ks = acc.kept /\ bs = acc.blocks
  OBVIOUS
<1>5. acc = [table |-> a, beam |-> bm, width |-> wd, at |-> at, rbg |-> rb,
             ues |-> us, kept |-> ks, blocks |-> bs]
  BY <1>3, <1>4, Zenon
<1>6. PICK up : up = [acc EXCEPT !.table = v]
  OBVIOUS
<1>7. up = [table |-> v, beam |-> bm, width |-> wd, at |-> at, rbg |-> rb,
            ues |-> us, kept |-> ks, blocks |-> bs]
  BY ONLY <1>5, <1>6
<1>8. [up EXCEPT !.kept = @ \union {b}]
        = [table |-> v, beam |-> bm, width |-> wd, at |-> at, rbg |-> rb,
           ues |-> us, kept |-> ks \union {b}, blocks |-> bs]
  BY ONLY <1>7
<1> QED
  BY <1>1, <1>2, <1>4, <1>6, <1>8, Zenon

(* A block sent again over w symbols in n RBGs.                             *)
Resent(p, w, n) == [TakenUp(p) EXCEPT !.sym = w, !.rbg = n, !.rv = @ + 1]

NewBlock(acc, b, n) ==
  [ue |-> b[1], id |-> b[2], new |-> FALSE, at |-> acc.at, sym |-> acc.width,
   rbgAt |-> acc.rbg, rbg |-> n]

(* The process of a block that is sent again is as good as it was.          *)
LEMMA ResentGood ==
  ASSUME NEW m \in Nat, NEW p, GoodProcess(p, m), p.status # "INACTIVE", p.rv < LastRv,
         NEW w \in Nat \ {0}, w <= m, NEW n \in Nat \ {0}, n <= Rbgs
  PROVE  /\ GoodProcess(Resent(p, w, n), m)
         /\ Resent(p, w, n).status = "WAITING_FEEDBACK" /\ Resent(p, w, n).timer = 0
<1>1. PICK q : q = TakenUp(p)
  OBVIOUS
<1>2. GoodProcess(q, m) /\ q.status = "WAITING_FEEDBACK" /\ q.timer = 0 /\ q.rv = p.rv
  BY <1>1, TakenUpGood
<1>3. q \in Processes /\ q.rv + 1 \in Nat
  BY <1>2 DEF GoodProcess, Processes
<1>4. PICK r : r = [q EXCEPT !.sym = w, !.rbg = n, !.rv = q.rv + 1]
  OBVIOUS
<1>5. /\ r \in Processes /\ r.status = "WAITING_FEEDBACK" /\ r.timer = 0
      /\ r.sym = w /\ r.rbg = n /\ r.rv = q.rv + 1
  BY <1>2, <1>3, <1>4 DEF Processes
<1>6. q.rv + 1 <= LastRv
  <2>1. p.rv \in Nat
    BY <1>2, <1>3 DEF Processes
  <2> QED
    BY <1>2, <2>1 DEF LastRv
<1>7. 0 <= NumHarqProcess /\ n >= 1
  BY NumberOfProcesses
<1>8. GoodProcess(r, m)
  BY <1>5, <1>6, <1>7 DEF GoodProcess
<1>9. Resent(p, w, n) = r
  BY <1>1, <1>4 DEF Resent
<1> QED
  BY <1>5, <1>8, <1>9

(* The process p of b is NACKed, and its block fits in n RBGs.              *)
Sends(m, acc, b, p, n) ==
  /\ acc \in RetxAccs /\ b \in Pairs /\ Good(acc.table, m)
  /\ p = acc.table.procs[b[1]][b[2]] /\ p.status = "RECEIVED_FEEDBACK" /\ p.rv < LastRv
  /\ ~NoRoom(acc, b, p.sym * p.rbg)
  /\ n = (p.sym * p.rbg + acc.width - 1) \div acc.width
  /\ n \in Nat \ {0} /\ n <= Rbgs
  /\ acc.width \in Nat \ {0} /\ acc.width <= m

IsSent(m, acc, b, p, n, v) ==
  /\ Good(v, m) /\ Changed(acc.table, v, b[1], b[2], Resent(p, acc.width, n))
  /\ RetxOne(acc, b) =
       [table |-> v, beam |-> acc.beam, width |-> acc.width, at |-> acc.at,
        rbg |-> acc.rbg + n, ues |-> acc.ues \union {b[1]}, kept |-> acc.kept,
        blocks |-> acc.blocks \union {NewBlock(acc, b, n)}]

(* A block that is sent.                                                    *)
LEMMA RetxSent ==
  ASSUME NEW m \in Nat, NEW acc, NEW b, NEW p, NEW n, Sends(m, acc, b, p, n)
  PROVE  \E v : IsSent(m, acc, b, p, n, v)
<1>0. /\ acc \in RetxAccs /\ b \in Pairs /\ Good(acc.table, m)
      /\ p = acc.table.procs[b[1]][b[2]] /\ p.status = "RECEIVED_FEEDBACK" /\ p.rv < LastRv
      /\ ~NoRoom(acc, b, p.sym * p.rbg)
      /\ n = (p.sym * p.rbg + acc.width - 1) \div acc.width
      /\ n \in Nat \ {0} /\ n <= Rbgs
      /\ acc.width \in Nat \ {0} /\ acc.width <= m
  BY Zenon DEF Sends
<1>1. PICK ue \in UEs, id \in Ids : ue = b[1] /\ id = b[2]
  BY <1>0, Zenon DEF Pairs
<1>2. PICK v : v = [acc.table EXCEPT !.procs[b[1]][b[2]] = TakenUp(p)]
  OBVIOUS
<1>3. TakesUp(m, acc, b, p, v)
  BY <1>0, <1>2, Zenon DEF TakesUp
<1>4. /\ Good(v, m) /\ Changed(acc.table, v, b[1], b[2], TakenUp(p))
      /\ Upped(acc, b) = [acc EXCEPT !.table = v]
  <2>1. IsUpped(m, acc, b, p, v)
    BY <1>3, UppedIs
  <2> QED
    BY <2>1 DEF IsUpped
<1>5. PICK r : r = Resent(p, acc.width, n)
  OBVIOUS
<1>6. GoodProcess(r, m) /\ r.status # "INACTIVE"
  <2>1. GoodProcess(p, m) /\ p.status # "INACTIVE"
    BY <1>0, <1>1, Zenon DEF Good, AllGood
  <2> QED
    BY <1>0, <1>5, <2>1, ResentGood, Zenon
<1>7. PICK x : x = [v EXCEPT !.procs[ue][id] = r]
  OBVIOUS
<1>8. Active(v, ue, id)
  <2>1. v.procs[ue][id] = TakenUp(p)
    BY <1>1, <1>4 DEF Changed
  <2>2. TakenUp(p).status = "WAITING_FEEDBACK"
    <3>1. GoodProcess(p, m) /\ p.status # "INACTIVE"
      BY <1>0, <1>1 DEF Good, AllGood
    <3> QED
      BY <3>1, TakenUpGood
  <2> QED
    BY <2>1, <2>2 DEF Active
<1>9. Good(x, m) /\ Changed(v, x, ue, id, r)
  BY <1>4, <1>6, <1>7, <1>8, MarkGood
<1>10. Changed(acc.table, x, b[1], b[2], r)
  <2>1. ASSUME NEW c \in UEs, NEW d \in Ids
        PROVE  x.procs[c][d] = IF c = b[1] /\ d = b[2] THEN r ELSE acc.table.procs[c][d]
    <3>1. v.procs[c][d] = IF c = b[1] /\ d = b[2] THEN TakenUp(p) ELSE acc.table.procs[c][d]
      BY <1>4 DEF Changed
    <3>2. x.procs[c][d] = IF c = ue /\ d = id THEN r ELSE v.procs[c][d]
      BY <1>9 DEF Changed
    <3> QED
      BY <1>1, <3>1, <3>2
  <2> QED
    BY <2>1 DEF Changed
<1>11. PICK a, bm, wd, at, rb, us, ks, bs :
        /\ a = acc.table /\ bm = acc.beam /\ wd = acc.width /\ at = acc.at
        /\ rb = acc.rbg /\ us = acc.ues /\ ks = acc.kept /\ bs = acc.blocks
  OBVIOUS
<1>12. acc = [table |-> a, beam |-> bm, width |-> wd, at |-> at, rbg |-> rb,
              ues |-> us, kept |-> ks, blocks |-> bs]
  BY <1>0, <1>11, Zenon DEF RetxAccs
<1>13. PICK nb : nb = NewBlock(acc, b, n)
  OBVIOUS
<1>14. v.failed = FALSE /\ x.failed = FALSE
  BY <1>4, <1>9 DEF Good, Tables
<1>15. PICK up : up = [acc EXCEPT !.table = v]
  OBVIOUS
<1>16. up = [table |-> v, beam |-> bm, width |-> wd, at |-> at, rbg |-> rb,
             ues |-> us, kept |-> ks, blocks |-> bs]
  BY ONLY <1>12, <1>15
<1>17. RetxOne(acc, b) =
         [up EXCEPT !.table.procs[b[1]][b[2]] = r, !.table.failed = @ \/ n > Rbgs,
                    !.rbg = @ + n, !.ues = @ \union {b[1]}, !.blocks = @ \union {nb}]
  BY <1>0, <1>4, <1>5, <1>13, <1>15, Zenon DEF RetxOne, Upped, NoRoom, Resent, NewBlock
<1>18. (v.failed \/ n > Rbgs) = FALSE
  <2>1. ~ (n > Rbgs)
    <3>1. PICK all \in Nat, k \in Nat : all = Rbgs /\ k = n /\ n <= Rbgs
      BY <1>0, HarqConstants, Zenon
    <3>2. ~ (k > all)
      BY <3>1
    <3> QED
      BY <3>1, <3>2
  <2> QED
    BY <1>14, <2>1
<1>19. [x EXCEPT !.failed = FALSE] = x
  BY <1>9, <1>14 DEF Good, Tables
<1>20. RetxOne(acc, b) =
         [table |-> [x EXCEPT !.failed = FALSE], beam |-> bm, width |-> wd, at |-> at,
          rbg |-> rb + n, ues |-> us \union {ue}, kept |-> ks, blocks |-> bs \union {nb}]
  <2>1. up.table = v /\ up.table.failed = v.failed /\ up.rbg = rb /\ up.ues = us /\ up.blocks = bs
    BY ONLY <1>16
  <2>2. RetxOne(acc, b) =
         [up EXCEPT !.table.procs[ue][id] = r, !.table.failed = FALSE,
                    !.rbg = rb + n, !.ues = us \union {ue}, !.blocks = bs \union {nb}]
    BY ONLY <1>1, <1>16, <1>17, <1>18, <2>1
  <2>3. [up EXCEPT !.table.procs[ue][id] = r, !.table.failed = FALSE,
                   !.rbg = rb + n, !.ues = us \union {ue}, !.blocks = bs \union {nb}]
         = [table |-> [x EXCEPT !.failed = FALSE], beam |-> bm, width |-> wd, at |-> at,
            rbg |-> rb + n, ues |-> us \union {ue}, kept |-> ks, blocks |-> bs \union {nb}]
    <3>1. PICK u1 : u1 = [up EXCEPT !.table.procs[ue][id] = r]
      OBVIOUS
    <3>2. u1 = [table |-> x, beam |-> bm, width |-> wd, at |-> at, rbg |-> rb,
                ues |-> us, kept |-> ks, blocks |-> bs]
      BY ONLY <1>7, <1>16, <3>1
    <3>3. PICK u2 : u2 = [u1 EXCEPT !.table.failed = FALSE]
      OBVIOUS
    <3>4. u2 = [table |-> [x EXCEPT !.failed = FALSE], beam |-> bm, width |-> wd,
                at |-> at, rbg |-> rb, ues |-> us, kept |-> ks, blocks |-> bs]
      BY ONLY <3>2, <3>3
    <3>5. PICK f : f = [x EXCEPT !.failed = FALSE]
      OBVIOUS
    <3>6. PICK u3 : u3 = [u2 EXCEPT !.rbg = rb + n]
      OBVIOUS
    <3>7. u3 = [table |-> f, beam |-> bm, width |-> wd, at |-> at, rbg |-> rb + n,
                ues |-> us, kept |-> ks, blocks |-> bs]
      BY ONLY <3>4, <3>5, <3>6
    <3>8. PICK u4 : u4 = [u3 EXCEPT !.ues = us \union {ue}]
      OBVIOUS
    <3>9. u4 = [table |-> f, beam |-> bm, width |-> wd, at |-> at, rbg |-> rb + n,
                ues |-> us \union {ue}, kept |-> ks, blocks |-> bs]
      BY ONLY <3>7, <3>8
    <3>10. PICK u5 : u5 = [u4 EXCEPT !.blocks = bs \union {nb}]
      OBVIOUS
    <3>11. u5 = [table |-> f, beam |-> bm, width |-> wd, at |-> at, rbg |-> rb + n,
                ues |-> us \union {ue}, kept |-> ks, blocks |-> bs \union {nb}]
      BY ONLY <3>9, <3>10
    <3> QED
      BY ONLY <3>1, <3>3, <3>5, <3>6, <3>8, <3>10, <3>11, Zenon
  <2> QED
    BY <2>2, <2>3, Zenon
<1> QED
  BY <1>5, <1>1, <1>9, <1>10, <1>11, <1>13, <1>19, <1>20, Zenon DEF IsSent

(* One block more: kept, or sent in the beam.                               *)
LEMMA RetxStep ==
  ASSUME NEW m \in Nat, NEW t, NEW o \in Seq(Pairs), NEW width \in Nat, width <= m,
         NEW i \in 1 .. Len(o), NEW acc,
         Ordered(t, o), RetxTo(m, t, o, width, i - 1, i, acc)
  PROVE  RetxTo(m, t, o, width, i, i, RetxOne(acc, o[i]))
<1>0. i \in Nat /\ i - 1 \in Nat /\ Len(o) \in Nat /\ i \in 1 .. i /\ i # 0
  BY LenProperties
<1>1. acc \in RetxAccs /\ acc.width = width /\ acc.rbg <= Rbgs
  BY DEF RetxTo
<1>2. TakenTo(m, t, o, i - 1, acc) /\ KeptTo(o, i - 1, acc) /\ PlacedTo(acc)
      /\ BeamTo(o, i, acc)
  BY DEF RetxTo
<1>3. PICK b \in Pairs : b = o[i]
  BY ElementOfSeq
<1>4. PICK ue \in UEs, id \in Ids : ue = b[1] /\ id = b[2] /\ b = <<ue, id>>
  BY DEF Pairs
<1>5. PICK u : u = acc.table
  OBVIOUS
<1>6. Good(u, m)
  BY <1>2, <1>5 DEF TakenTo
<1>7. \A k \in 1 .. i - 1 : k \in 1 .. Len(o) /\ o[k] # b /\ k \in 1 .. i
  <2>1. \A k \in 1 .. i - 1 : k \in 1 .. Len(o) /\ k # i /\ k \in 1 .. i
    BY <1>0
  <2> QED
    BY <1>3, <2>1 DEF Ordered
<1>8. \A k \in 1 .. i : k = i \/ k \in 1 .. i - 1
  BY <1>0
<1>9. PICK p : p = u.procs[ue][id]
  BY Zenon
<1>10. p = t.procs[ue][id] /\ p.status = "RECEIVED_FEEDBACK" /\ p.rv < LastRv
  <2>1. p = t.procs[ue][id]
    <3>1. \A k \in 1 .. i - 1 : o[k] # <<ue, id>>
      BY <1>4, <1>7
    <3> QED
      BY <1>2, <1>5, <1>9, <3>1 DEF TakenTo
  <2> QED
    BY <1>3, <1>4, <2>1 DEF Ordered
<1>11. GoodProcess(p, m) /\ p.status # "INACTIVE"
  BY <1>6, <1>9, <1>10 DEF Good, AllGood
<1>12. PICK area \in Nat \ {0} : area = p.sym * p.rbg
  <2>1. PICK x \in Nat, y \in Nat : x = p.sym /\ y = p.rbg /\ x # 0 /\ y >= 1
    BY <1>11 DEF GoodProcess, Processes
  <2>2. x * y \in Nat \ {0}
    <3>1. x >= 1 /\ y >= 1
      BY <2>1
    <3> QED
      BY ONLY <3>1, x \in Nat, y \in Nat
  <2> QED
    BY <2>1, <2>2
<1>13. PICK rbg \in Nat, at \in Nat : rbg = acc.rbg /\ at = acc.at /\ rbg <= Rbgs
  BY <1>1 DEF RetxAccs
(* What holds of the processes, whatever the process became. *)
<1>14. ASSUME NEW v, NEW q, Good(v, m), Changed(u, v, ue, id, q),
              q.status = "WAITING_FEEDBACK", q.timer = 0,
              NEW r, r.table = v
       PROVE  TakenTo(m, t, o, i, r)
  <2>1. ASSUME NEW a \in UEs, NEW d \in Ids, \A k \in 1 .. i : o[k] # <<a, d>>
        PROVE  v.procs[a][d] = t.procs[a][d]
    <3>1. ~ (a = ue /\ d = id)
      BY <1>0, <1>3, <1>4, <2>1
    <3>2. v.procs[a][d] = u.procs[a][d]
      BY <1>14, <3>1 DEF Changed
    <3> QED
      BY <1>2, <1>5, <1>7, <2>1, <3>2 DEF TakenTo
  <2>2. ASSUME NEW k \in 1 .. i PROVE UpToDate(v, o[k])
    <3>1. CASE k = i
      <4>1. v.procs[ue][id] = q
        BY <1>14 DEF Changed
      <4> QED
        BY <1>3, <1>4, <1>14, <3>1, <4>1 DEF UpToDate
    <3>2. CASE k \in 1 .. i - 1
      <4>1. o[k] \in Pairs
        BY <1>7, <3>2, ElementOfSeq
      <4>2. PICK a \in UEs, d \in Ids : a = o[k][1] /\ d = o[k][2] /\ o[k] = <<a, d>>
        BY <4>1 DEF Pairs
      <4>3. ~ (a = ue /\ d = id)
        BY <1>4, <1>7, <3>2, <4>2
      <4>4. v.procs[a][d] = u.procs[a][d]
        BY <1>14, <4>3 DEF Changed
      <4>5. UpToDate(u, o[k])
        BY <1>2, <1>5, <3>2 DEF TakenTo
      <4> QED
        BY <4>2, <4>4, <4>5 DEF UpToDate
    <3> QED
      BY <1>8, <3>1, <3>2
  <2> QED
    BY <1>14, <2>1, <2>2 DEF TakenTo
(* No block of this process is in the slot. *)
<1>15. ~InBlock(acc, b)
  <2>1. SUFFICES ASSUME NEW x \in acc.blocks, x.ue = ue, x.id = id PROVE FALSE
    BY <1>4 DEF InBlock
  <2>2. PICK k \in 1 .. i - 1 : o[k] = <<x.ue, x.id>>
    BY <1>2, <2>1 DEF KeptTo
  <2> QED
    BY <1>4, <1>7, <2>1, <2>2
<1>16. ASSUME NEW w \in acc.kept, NEW v, NEW q, Changed(u, v, ue, id, q)
       PROVE  TooLarge(v, width, w) <=> TooLarge(u, width, w)
  <2>1. PICK k \in 1 .. i - 1 : o[k] = w
    BY <1>2 DEF KeptTo
  <2>2. w \in Pairs
    BY <1>1 DEF RetxAccs
  <2>3. PICK a \in UEs, d \in Ids : a = w[1] /\ d = w[2] /\ w = <<a, d>>
    BY <2>2 DEF Pairs
  <2>4. ~ (a = ue /\ d = id)
    BY <1>4, <1>7, <2>1, <2>3
  <2>5. v.procs[a][d] = u.procs[a][d]
    BY <1>16, <2>4 DEF Changed
  <2> QED
    BY <2>3, <2>5 DEF TooLarge
<1>20. CASE NoRoom(acc, b, area)
  <2>1. PICK v : v = [u EXCEPT !.procs[b[1]][b[2]] = TakenUp(p)]
    OBVIOUS
  <2>2. TakesUp(m, acc, b, p, v)
    BY <1>1, <1>4, <1>5, <1>6, <1>9, <1>10, <2>1 DEF TakesUp
  <2>3. IsUpped(m, acc, b, p, v)
    BY <2>2, UppedIs
  <2>4. Good(v, m) /\ Changed(u, v, ue, id, TakenUp(p))
    BY <1>4, <1>5, <2>3 DEF IsUpped
  <2>5. PICK r : r = RetxOne(acc, b)
    OBVIOUS
  <2>6. r = [table |-> v, beam |-> acc.beam, width |-> acc.width, at |-> acc.at,
             rbg |-> acc.rbg, ues |-> acc.ues, kept |-> acc.kept \union {b},
             blocks |-> acc.blocks]
    <3>1. NoRoom(acc, b, p.sym * p.rbg)
      BY <1>12, <1>20
    <3> QED
      BY <2>2, <2>5, <3>1, RetxKept
  <2>7. /\ r.table = v /\ r.beam = acc.beam /\ r.width = acc.width /\ r.at = acc.at
        /\ r.rbg = acc.rbg /\ r.ues = acc.ues /\ r.kept = acc.kept \union {b}
        /\ r.blocks = acc.blocks
    BY <2>6
  <2>8. r \in RetxAccs
    <3>1. /\ acc.kept \union {b} \in SUBSET Pairs /\ v \in Tables
          /\ acc.beam \in SUBSET AllBeams /\ acc.width \in Nat /\ acc.at \in Nat
          /\ acc.rbg \in Nat /\ acc.ues \in SUBSET UEs /\ acc.blocks \in SUBSET Blocks
      BY <1>1, <2>4 DEF RetxAccs, Good
    <3> QED
      BY <2>6, <3>1 DEF RetxAccs
  <2>9. TakenTo(m, t, o, i, r)
    <3>1. TakenUp(p).status = "WAITING_FEEDBACK" /\ TakenUp(p).timer = 0
      BY <1>11, TakenUpGood
    <3> QED
      BY <1>14, <2>4, <2>7, <3>1
  <2>10. KeptTo(o, i, r)
    <3>0. \A w : InBlock(r, w) <=> InBlock(acc, w)
      BY <2>7 DEF InBlock
    <3>1. ASSUME NEW w \in r.kept
          PROVE  /\ \E k \in 1 .. i : o[k] = w
                 /\ ~InBlock(r, w)
                 /\ r.blocks = {} => TooLarge(r.table, r.width, w)
      <4>1. CASE w \in acc.kept
        <5>1. PICK k \in 1 .. i - 1 : o[k] = w
          BY <1>2, <4>1 DEF KeptTo
        <5>2. ~InBlock(acc, w)
          BY <1>2, <4>1 DEF KeptTo
        <5>3. acc.blocks = {} => TooLarge(u, width, w)
          BY <1>1, <1>2, <1>5, <4>1 DEF KeptTo
        <5>4. TooLarge(v, width, w) <=> TooLarge(u, width, w)
          BY <1>16, <2>4, <4>1
        <5> QED
          BY <1>1, <1>7, <2>7, <3>0, <5>1, <5>2, <5>3, <5>4
      <4>2. CASE w = b
        <5>1. SUFFICES r.blocks = {} => TooLarge(v, width, b)
          BY <1>0, <1>1, <1>3, <1>15, <2>7, <3>0, <4>2
        <5>2. SUFFICES ASSUME acc.blocks = {} PROVE TooLarge(v, width, b)
          BY <2>7
        <5>3. acc.ues = {} /\ acc.rbg = 0
          BY <1>2, <5>2 DEF PlacedTo
        <5>4. Rbgs * width < area
          BY <1>1, <1>20, <5>3, HarqConstants DEF NoRoom
        <5>5. v.procs[ue][id].sym = p.sym /\ v.procs[ue][id].rbg = p.rbg
          <6>1. v.procs[ue][id] = TakenUp(p)
            BY <2>4 DEF Changed
          <6> QED
            BY <1>11, <6>1, TakenUpGood
        <5>6. PICK z \in Nat : z = Rbgs * width
          BY HarqConstants
        <5>7. area > z
          BY <5>4, <5>6
        <5> QED
          BY <1>4, <1>12, <5>5, <5>6, <5>7 DEF TooLarge
      <4> QED
        BY <2>7, <4>1, <4>2
    <3>2. ASSUME NEW k \in 1 .. i PROVE o[k] \in r.kept \/ InBlock(r, o[k])
      BY <1>2, <1>3, <1>8, <2>7, <3>0 DEF KeptTo
    <3>3. ASSUME NEW x \in r.blocks PROVE ~x.new /\ \E k \in 1 .. i : o[k] = <<x.ue, x.id>>
      BY <1>2, <1>7, <2>7 DEF KeptTo
    <3> QED
      BY <3>1, <3>2, <3>3 DEF KeptTo
  <2>11. PlacedTo(r)
    <3>1. \A x : (InEarlierBeam(r, x) <=> InEarlierBeam(acc, x)) /\ (InBeam(r, x) <=> InBeam(acc, x))
      BY <2>7 DEF InEarlierBeam, InBeam
    <3> QED
      BY <1>2, <2>7, <3>1 DEF PlacedTo
  <2>12. BeamTo(o, i, r)
    BY <1>2, <2>7 DEF BeamTo
  <2> QED
    BY <1>1, <1>3, <2>5, <2>7, <2>8, <2>9, <2>10, <2>11, <2>12 DEF RetxTo
<1>21. CASE ~NoRoom(acc, b, area)
  <2>1. ue \notin acc.ues /\ area <= (Rbgs - rbg) * width
    BY <1>1, <1>4, <1>12, <1>13, <1>21, HarqConstants DEF NoRoom
  <2>2. width # 0 /\ width \in Nat \ {0}
    <3>1. SUFFICES ASSUME width = 0 PROVE FALSE
      OBVIOUS
    <3>2. (Rbgs - rbg) * width = 0
      BY <1>13, <3>1, HarqConstants
    <3> QED
      BY <1>12, <2>1, <3>2
  <2>3. PICK free \in Nat : free = Rbgs - rbg
    BY <1>13, HarqConstants
  <2>4. PICK n \in Nat \ {0} : n = (area + width - 1) \div width /\ n <= free
    <3>1. area <= free * width
      BY <2>1, <2>3
    <3>2. /\ (area + width - 1) \div width \in Nat /\ (area + width - 1) \div width >= 1
          /\ (area + width - 1) \div width <= free
      BY <2>2, <3>1, Need
    <3> QED
      BY <3>2
  <2>5. n <= Rbgs /\ rbg + n <= Rbgs /\ rbg + n \in Nat
    <3>1. PICK all \in Nat : all = Rbgs
      BY HarqConstants
    <3>2. free = all - rbg /\ n \in Nat /\ n <= free
      BY <2>3, <2>4, <3>1
    <3> QED
      BY <3>1, <3>2
  <2>6. PICK v :
         /\ Good(v, m) /\ Changed(acc.table, v, b[1], b[2], Resent(p, acc.width, n))
         /\ RetxOne(acc, b) =
             [table |-> v, beam |-> acc.beam, width |-> acc.width, at |-> acc.at,
              rbg |-> acc.rbg + n, ues |-> acc.ues \union {b[1]}, kept |-> acc.kept,
              blocks |-> acc.blocks \union {NewBlock(acc, b, n)}]
    <3>1. ~NoRoom(acc, b, p.sym * p.rbg) /\ n = (p.sym * p.rbg + acc.width - 1) \div acc.width
      BY <1>1, <1>12, <1>21, <2>4
    <3>2. /\ Good(acc.table, m) /\ p = acc.table.procs[b[1]][b[2]]
          /\ p.status = "RECEIVED_FEEDBACK" /\ p.rv < LastRv
      BY <1>4, <1>5, <1>6, <1>9, <1>10, Zenon
    <3>3. acc.width \in Nat \ {0} /\ acc.width <= m
      BY <1>1, <2>2
    <3>4. Sends(m, acc, b, p, n)
      BY <1>1, <2>4, <2>5, <3>1, <3>2, <3>3, Zenon DEF Sends
    <3>5. PICK v : IsSent(m, acc, b, p, n, v)
      BY <3>4, RetxSent
    <3> QED
      BY <3>5 DEF IsSent
  <2>7. PICK q : q = Resent(p, width, n)
    OBVIOUS
  <2>8. Changed(u, v, ue, id, q) /\ q.status = "WAITING_FEEDBACK" /\ q.timer = 0
    <3>1. Changed(u, v, ue, id, q)
      BY <1>1, <1>4, <1>5, <2>6, <2>7
    <3>2. Resent(p, width, n).status = "WAITING_FEEDBACK" /\ Resent(p, width, n).timer = 0
      BY <1>10, <1>11, <2>2, <2>5, ResentGood
    <3> QED
      BY <2>7, <3>1, <3>2
  <2>9. PICK r : r = RetxOne(acc, b)
    OBVIOUS
  <2>10. PICK nb : nb = NewBlock(acc, b, n)
    OBVIOUS
  <2>11. nb = [ue |-> ue, id |-> id, new |-> FALSE, at |-> at, sym |-> width,
               rbgAt |-> rbg, rbg |-> n]
    BY <1>1, <1>4, <1>13, <2>10 DEF NewBlock
  <2>12. /\ nb \in Blocks /\ nb.ue = ue /\ nb.id = id /\ ~nb.new /\ nb.at = at
         /\ nb.sym = width /\ nb.rbgAt = rbg /\ nb.rbg = n
    BY <2>11 DEF Blocks
  <2>13. r = [table |-> v, beam |-> acc.beam, width |-> width, at |-> at,
              rbg |-> rbg + n, ues |-> acc.ues \union {ue}, kept |-> acc.kept,
              blocks |-> acc.blocks \union {nb}]
    BY <1>1, <1>4, <1>13, <2>6, <2>9, <2>10
  <2>14. /\ r.table = v /\ r.beam = acc.beam /\ r.width = width /\ r.at = at
         /\ r.rbg = rbg + n /\ r.ues = acc.ues \union {ue} /\ r.kept = acc.kept
         /\ r.blocks = acc.blocks \union {nb}
    BY <2>13
  <2>15. r \in RetxAccs
    <3>1. /\ acc.kept \in SUBSET Pairs /\ v \in Tables /\ acc.beam \in SUBSET AllBeams
          /\ acc.ues \union {ue} \in SUBSET UEs /\ acc.blocks \union {nb} \in SUBSET Blocks
      BY <1>1, <2>6, <2>12 DEF RetxAccs, Good
    <3> QED
      BY <2>5, <2>13, <3>1 DEF RetxAccs
  <2>16. TakenTo(m, t, o, i, r)
    BY <1>14, <2>6, <2>8, <2>14
  <2>17. KeptTo(o, i, r)
    <3>0. \A w : InBlock(r, w) <=> InBlock(acc, w) \/ (w[1] = ue /\ w[2] = id)
      BY <2>12, <2>14 DEF InBlock
    <3>1. ASSUME NEW w \in r.kept
          PROVE  /\ \E k \in 1 .. i : o[k] = w
                 /\ ~InBlock(r, w)
                 /\ r.blocks = {} => TooLarge(r.table, r.width, w)
      <4>1. w \in acc.kept /\ r.blocks # {}
        BY <2>14
      <4>2. PICK k \in 1 .. i - 1 : o[k] = w
        BY <1>2, <4>1 DEF KeptTo
      <4>3. ~InBlock(acc, w)
        BY <1>2, <4>1 DEF KeptTo
      <4>4. ~ (w[1] = ue /\ w[2] = id)
        <5>1. w \in Pairs
          BY <1>1, <4>1 DEF RetxAccs
        <5>2. PICK a \in UEs, d \in Ids : a = w[1] /\ d = w[2] /\ w = <<a, d>>
          BY <5>1 DEF Pairs
        <5> QED
          BY <1>4, <1>7, <4>2, <5>2
      <4> QED
        BY <1>7, <3>0, <4>1, <4>2, <4>3, <4>4
    <3>2. ASSUME NEW k \in 1 .. i PROVE o[k] \in r.kept \/ InBlock(r, o[k])
      BY <1>2, <1>3, <1>4, <1>8, <2>14, <3>0 DEF KeptTo
    <3>3. ASSUME NEW x \in r.blocks PROVE ~x.new /\ \E k \in 1 .. i : o[k] = <<x.ue, x.id>>
      <4>1. CASE x = nb
        BY <1>0, <1>3, <1>4, <2>12, <4>1
      <4>2. CASE x \in acc.blocks
        BY <1>2, <1>7, <4>2 DEF KeptTo
      <4> QED
        BY <2>14, <4>1, <4>2
    <3> QED
      BY <3>1, <3>2, <3>3 DEF KeptTo
  <2>18. PlacedTo(r)
    <3>1. ASSUME NEW x \in acc.blocks
          PROVE  /\ x.sym = width /\ InBand(x) /\ (InEarlierBeam(r, x) \/ InBeam(r, x))
                 /\ Disjoint(x, nb) /\ Disjoint(nb, x)
      <4>1. x \in Blocks
        BY <1>1 DEF RetxAccs
      <4>2. PICK xa \in Nat, xs \in Nat, xg \in Nat, xr \in Nat :
              xa = x.at /\ xs = x.sym /\ xg = x.rbgAt /\ xr = x.rbg
        BY <4>1 DEF Blocks
      <4>3. x.sym = width /\ InBand(x) /\ (InEarlierBeam(acc, x) \/ InBeam(acc, x))
        BY <1>1, <1>2 DEF PlacedTo
      <4>4. CASE InEarlierBeam(acc, x)
        <5>1. xa + xs <= at /\ {Beam[x.ue]} # acc.beam
          BY <1>13, <4>2, <4>4 DEF InEarlierBeam
        <5>2. x.ue # ue
          <6>1. acc.beam = {Beam[ue]}
            BY <1>0, <1>2, <1>3, <1>4 DEF BeamTo, BeamOf
          <6> QED
            BY <5>1, <6>1
        <5>3. InEarlierBeam(r, x)
          BY <2>14, <4>2, <5>1 DEF InEarlierBeam
        <5>4. Disjoint(x, nb) /\ Disjoint(nb, x)
          BY <2>12, <4>2, <5>1, <5>2 DEF Disjoint
        <5> QED
          BY <4>3, <5>3, <5>4
      <4>5. CASE InBeam(acc, x)
        <5>1. xa = at /\ xg + xr <= rbg /\ x.ue \in acc.ues
          BY <1>13, <4>2, <4>5 DEF InBeam
        <5>2. x.ue # ue
          BY <2>1, <5>1
        <5>3. InBeam(r, x)
          <6>1. xg + xr <= rbg + n
            BY <2>4, <5>1
          <6>2. x.ue \in r.ues
            BY <2>14, <5>1
          <6> QED
            BY <2>14, <4>2, <5>1, <6>1, <6>2 DEF InBeam
        <5>4. Disjoint(x, nb) /\ Disjoint(nb, x)
          BY <2>12, <4>2, <5>1, <5>2 DEF Disjoint
        <5> QED
          BY <4>3, <5>3, <5>4
      <4> QED
        BY <4>3, <4>4, <4>5
    <3>2. nb.sym = width /\ InBand(nb) /\ InBeam(r, nb)
      BY <1>13, <2>2, <2>4, <2>5, <2>12, <2>14 DEF InBand, InBeam
    <3>3. \A ue2 \in r.ues : \E x \in r.blocks : x.ue = ue2
      BY <1>2, <2>12, <2>14 DEF PlacedTo
    <3>4. r.ues # {}
      BY <2>14
    <3>5. \A x, y \in r.blocks : x # y => Disjoint(x, y)
      BY <1>2, <2>14, <3>1 DEF PlacedTo
    <3>6. \A x \in r.blocks : x.sym = r.width /\ InBand(x) /\ (InEarlierBeam(r, x) \/ InBeam(r, x))
      BY <2>14, <3>1, <3>2
    <3> QED
      BY <3>3, <3>4, <3>5, <3>6 DEF PlacedTo
  <2>19. BeamTo(o, i, r)
    BY <1>1, <1>2, <1>13, <2>14 DEF BeamTo
  <2> QED
    BY <1>3, <2>5, <2>9, <2>14, <2>15, <2>16, <2>17, <2>18, <2>19 DEF RetxTo
<1> QED
  BY <1>20, <1>21

(* The symbols a beam has.                                                  *)
WidthOf(avail, o) ==
  IF BeamsOf(o, Len(o)) = {} THEN 0 ELSE avail \div Cardinality(BeamsOf(o, Len(o)))

RetxStart(t, width) ==
  [table |-> t, beam |-> {}, width |-> width, at |-> 0, rbg |-> 0,
   ues |-> {}, kept |-> {}, blocks |-> {}]

RetxBody(acc, b) == RetxOne(ChangeBeam(acc, {BeamOf(b)}), b)

(* The loop of ScheduleDlHarq over the blocks.                              *)
RetxLoop(t, width, o) ==
  InTurn(LAMBDA acc, b : RetxBody(acc, b), RetxStart(t, width), o)

(* The beams share the symbols of the slot, and no more.                    *)
LEMMA WidthFits ==
  ASSUME NEW avail \in Nat, NEW o \in Seq(Pairs)
  PROVE  /\ WidthOf(avail, o) \in Nat /\ WidthOf(avail, o) <= avail
         /\ Cardinality(BeamsOf(o, Len(o))) * WidthOf(avail, o) <= avail
<1>1. PICK B : B = BeamsOf(o, Len(o))
  OBVIOUS
<1>2. B \subseteq AllBeams
  <2>1. Len(o) \in 0 .. Len(o)
    BY LenProperties
  <2> QED
    BY <1>1, <2>1, BeamsOfAll
<1>3. IsFiniteSet(B) /\ Cardinality(B) \in Nat
  BY <1>2, BeamsFinite
<1>4. PICK c \in Nat : c = Cardinality(B)
  BY <1>3
<1>5. CASE B = {}
  <2>1. WidthOf(avail, o) = 0 /\ c * 0 = 0
    BY <1>1, <1>5 DEF WidthOf
  <2> QED
    BY <1>1, <1>4, <2>1
<1>6. CASE B # {}
  <2>1. c \in Nat \ {0}
    BY <1>3, <1>4, <1>6, FS_EmptySet
  <2>2. avail \div c \in Nat /\ c * (avail \div c) <= avail
    BY <2>1
  <2>3. PICK w \in Nat : w = avail \div c
    BY <2>2
  <2>4. c * w <= avail /\ w <= c * w
    BY <2>1, <2>2, <2>3
  <2>5. WidthOf(avail, o) = w
    BY <1>1, <1>4, <1>6, <2>3 DEF WidthOf
  <2> QED
    BY <1>1, <1>4, <2>4, <2>5
<1> QED
  BY <1>5, <1>6

(* The retransmissions of a slot, before the last beam ends.                *)
LEMMA RetxAll ==
  ASSUME NEW m \in Nat, NEW t, NEW o \in Seq(Pairs), NEW width \in Nat, width <= m,
         Good(t, m), Ordered(t, o)
  PROVE  RetxTo(m, t, o, width, Len(o), Len(o), RetxLoop(t, width, o))
<1> DEFINE V == RetxAccs
           n == Len(o)
           s == RetxStart(t, width)
           F == [i \in 1 .. n |-> [r \in V |-> RetxBody(r, o[i])]]
           W == [i \in 0 .. n |-> {r \in V : RetxTo(m, t, o, width, i, i, r)}]
           Solves(h) == [i \in 0 .. Len(o) |-> IF i = 0 THEN s ELSE RetxBody(h[i - 1], o[i])]
<1>0. n \in Nat
  BY LenProperties
<1>1. ASSUME NEW i, NEW r, RetxTo(m, t, o, width, i, i, r) PROVE r \in V
  BY <1>1 DEF RetxTo
<1>2. RetxTo(m, t, o, width, 0, 0, s)
  <2>1. /\ s.table = t /\ s.beam = {} /\ s.width = width /\ s.at = 0 /\ s.rbg = 0
        /\ s.ues = {} /\ s.kept = {} /\ s.blocks = {}
    BY DEF RetxStart
  <2>2. s \in RetxAccs
    BY DEF RetxStart, RetxAccs, Good
  <2>3. \A k \in 1 .. 0 : FALSE
    OBVIOUS
  <2> HIDE DEF s
  <2>4. TakenTo(m, t, o, 0, s)
    BY <2>1, <2>3 DEF TakenTo
  <2>5. KeptTo(o, 0, s)
    BY <2>1, <2>3 DEF KeptTo
  <2>6. PlacedTo(s)
    BY <2>1 DEF PlacedTo
  <2>7. BeamTo(o, 0, s)
    <3>1. BeamsOf(o, 0) = {}
      BY <2>3 DEF BeamsOf
    <3>2. Cardinality(BeamsOf(o, 0)) = 0
      BY <3>1, FS_EmptySet, Zenon
    <3>3. 0 * width = 0 /\ 0 + 0 <= 0
      OBVIOUS
    <3> QED
      BY <2>1, <3>2, <3>3 DEF BeamTo
  <2>8. s.rbg <= Rbgs
    BY <2>1, HarqConstants
  <2> QED
    BY <2>1, <2>2, <2>4, <2>5, <2>6, <2>7, <2>8 DEF RetxTo
<1>3. ASSUME NEW i \in 1 .. n, NEW r, RetxTo(m, t, o, width, i - 1, i - 1, r)
      PROVE  RetxTo(m, t, o, width, i, i, RetxBody(r, o[i]))
  <2>1. RetxTo(m, t, o, width, i - 1, i, ChangeBeam(r, {BeamOf(o[i])}))
    BY <1>3, BeamStep
  <2>2. RetxTo(m, t, o, width, i, i, RetxOne(ChangeBeam(r, {BeamOf(o[i])}), o[i]))
    BY <2>1, RetxStep
  <2> QED
    BY <2>2 DEF RetxBody
<1>4. \A i \in 0 .. n : W[i] = {r \in V : RetxTo(m, t, o, width, i, i, r)}
  OBVIOUS
<1>5. \A i \in 1 .. n : \A r \in V : F[i][r] = RetxBody(r, o[i])
  OBVIOUS
<1>6. s \in V
  BY <1>1, <1>2
<1> HIDE DEF F, W, V, s, n
<1>7. \A i \in 1 .. n : i \in 0 .. n /\ i - 1 \in 0 .. n
  BY <1>0
<1>8. Reaches(n, V, s, F, W)
  <2>1. s \in W[0]
    BY <1>0, <1>2, <1>4, <1>6
  <2>2. ASSUME NEW i \in 1 .. n, NEW r \in W[i - 1] PROVE F[i][r] \in W[i]
    <3>1. r \in V /\ RetxTo(m, t, o, width, i - 1, i - 1, r)
      BY <1>4, <1>7
    <3>2. RetxTo(m, t, o, width, i, i, RetxBody(r, o[i]))
      BY <1>3, <3>1
    <3> QED
      BY <1>1, <1>4, <1>5, <1>7, <3>1, <3>2
  <2> QED
    BY <1>4, <2>1, <2>2 DEF Reaches
<1>9. PICK g : IsRecursion(g, n, s, F) /\ \A i \in 0 .. n : g[i] \in V
  BY <1>0, <1>8, Turns
<1>10. g = Solves(g)
  <2>1. \A i \in 0 .. n : i # 0 => F[i][g[i - 1]] = RetxBody(g[i - 1], o[i])
    BY <1>0, <1>5, <1>7, <1>9
  <2>2. g = [i \in 0 .. n |-> IF i = 0 THEN s ELSE F[i][g[i - 1]]]
    BY <1>9 DEF IsRecursion
  <2> QED
    BY <2>1, <2>2 DEF n
<1>11. RetxLoop(t, width, o) = (CHOOSE h : h = Solves(h))[Len(o)]
  BY DEF RetxLoop, InTurn, s
<1>12. PICK h : h = (CHOOSE e : e = Solves(e)) /\ h = Solves(h)
  <2> HIDE DEF Solves
  <2> QED
    BY <1>10
<1>13. h[0] = s /\ \A i \in 1 .. n : h[i] = RetxBody(h[i - 1], o[i])
  <2>1. h = [i \in 0 .. n |-> IF i = 0 THEN s ELSE RetxBody(h[i - 1], o[i])]
    BY <1>12 DEF n
  <2>2. 0 \in 0 .. n /\ \A i \in 1 .. n : i \in 0 .. n /\ i # 0
    BY <1>0
  <2> QED
    BY ONLY <2>1, <2>2
<1>14. h[0] \in W[0] /\ \A i \in 1 .. n : h[i - 1] \in W[i - 1] => h[i] \in W[i]
  BY <1>0, <1>1, <1>2, <1>3, <1>4, <1>6, <1>7, <1>13
<1>15. \A i \in 0 .. n : h[i] \in W[i]
  BY <1>0, <1>14, Stays
<1>16. RetxTo(m, t, o, width, n, n, h[n])
  BY <1>0, <1>4, <1>15
<1> QED
  BY <1>11, <1>12, <1>16 DEF n

(* The retransmissions of a slot of avail symbols are done.                 *)
RetxDone(m, t, avail, o, r) ==
  /\ r \in RetxAccs /\ r.width = WidthOf(avail, o) /\ r.at <= avail
  /\ TakenTo(m, t, o, Len(o), r)
  /\ KeptTo(o, Len(o), r)
  /\ \A b \in r.blocks : b.sym = r.width /\ InBand(b) /\ b.at + b.sym <= r.at
  /\ \A b, c \in r.blocks : b # c => Disjoint(b, c)

(* They are, whatever the order of the blocks: the beams stay in the slot.  *)
LEMMA RetxSlot ==
  ASSUME NEW m \in Nat, NEW t, NEW o \in Seq(Pairs), NEW avail \in Nat, avail <= m,
         Good(t, m), Ordered(t, o)
  PROVE  RetxDone(m, t, avail, o, ScheduleDlHarq(t, avail, o))
<1>1. PICK width \in Nat :
        /\ width = WidthOf(avail, o) /\ width <= avail /\ width <= m
        /\ Cardinality(BeamsOf(o, Len(o))) * width <= avail
  <2>1. /\ WidthOf(avail, o) \in Nat /\ WidthOf(avail, o) <= avail
        /\ Cardinality(BeamsOf(o, Len(o))) * WidthOf(avail, o) <= avail
    BY WidthFits
  <2> QED
    BY <2>1
<1>2. PICK n \in Nat : n = Len(o)
  BY LenProperties
<1>3. PICK acc : acc = RetxLoop(t, width, o)
  OBVIOUS
<1>4. RetxTo(m, t, o, width, n, n, acc)
  BY <1>1, <1>2, <1>3, RetxAll
<1>5. acc \in RetxAccs /\ acc.width = width /\ TakenTo(m, t, o, n, acc) /\ KeptTo(o, n, acc)
      /\ PlacedTo(acc) /\ BeamTo(o, n, acc)
  BY <1>4 DEF RetxTo
<1>6. PICK at \in Nat, c \in Nat :
        at = acc.at /\ c = Cardinality(BeamsOf(o, n))
  <2>1. n \in 0 .. Len(o)
    BY <1>2
  <2>2. Cardinality(BeamsOf(o, n)) \in Nat
    BY <2>1, BeamsOfAll, BeamsFinite
  <2> QED
    BY <1>5, <2>2 DEF RetxAccs
<1>7. at + (IF n = 0 THEN 0 ELSE width) <= c * width /\ c * width <= avail
      /\ c * width \in Nat
  BY <1>1, <1>2, <1>5, <1>6 DEF BeamTo
<1>8. PICK r : r = ChangeBeam(acc, {})
  OBVIOUS
<1>9. PICK to \in Nat :
        /\ r.table = acc.table /\ r.width = width /\ r.at = to /\ r.kept = acc.kept
        /\ r.blocks = acc.blocks /\ r \in RetxAccs /\ to <= avail
        /\ \A b \in acc.blocks : b.at + b.sym <= to
  <2>1. CASE acc.beam = {}
    <3>1. n = 0
      BY <1>5, <2>1 DEF BeamTo
    <3>2. acc.blocks = {}
      <4>1. \A k \in 1 .. 0 : FALSE
        OBVIOUS
      <4> QED
        BY <1>5, <3>1, <4>1 DEF KeptTo
    <3>3. at <= avail
      BY <1>7, <3>1
    <3> QED
      BY <1>5, <1>6, <1>8, <2>1, <3>2, <3>3 DEF ChangeBeam
  <2>2. CASE acc.beam # {}
    <3>1. n # 0
      BY <1>5, <2>2 DEF BeamTo
    <3>2. PICK to \in Nat : to = IF acc.ues # {} THEN at + width ELSE at
      <4>1. (IF acc.ues # {} THEN at + width ELSE at) \in Nat
        BY SMT
      <4> QED
        BY <4>1, Zenon
    <3>3. to <= avail
      BY <1>7, <3>1, <3>2
    <3>4. acc = [table |-> acc.table, beam |-> acc.beam, width |-> width, at |-> at,
                 rbg |-> acc.rbg, ues |-> acc.ues, kept |-> acc.kept, blocks |-> acc.blocks]
      BY <1>5, <1>6 DEF RetxAccs
    <3>5. r = [acc EXCEPT !.beam = {}, !.rbg = 0, !.ues = {}, !.at = to]
      <4>1. (IF acc.ues # {} THEN acc.at + acc.width ELSE acc.at) = to
        BY <1>5, <1>6, <3>2
      <4> QED
        BY <1>8, <2>2, <4>1, Zenon DEF ChangeBeam
    <3>6. PICK a, b, rb, d, e, f : a = acc.table /\ b = acc.beam /\ d = acc.ues
                                /\ e = acc.kept /\ f = acc.blocks /\ rb = acc.rbg
      OBVIOUS
    <3>7. acc = [table |-> a, beam |-> b, width |-> width, at |-> at, rbg |-> rb,
                 ues |-> d, kept |-> e, blocks |-> f]
      BY <3>4, <3>6, Zenon
    <3>8. r = [table |-> a, beam |-> {}, width |-> width, at |-> to, rbg |-> 0,
               ues |-> {}, kept |-> e, blocks |-> f]
      BY ONLY <3>5, <3>7
    <3>9. r \in RetxAccs
      <4>1. a \in Tables /\ e \in SUBSET Pairs /\ f \in SUBSET Blocks
            /\ {} \in SUBSET AllBeams /\ {} \in SUBSET UEs
        BY <1>5, <3>6 DEF RetxAccs
      <4> QED
        BY <3>8, <4>1 DEF RetxAccs
    <3>10. ASSUME NEW x \in acc.blocks PROVE x.at + x.sym <= to
      <4>1. x \in Blocks
        BY <1>5 DEF RetxAccs
      <4>2. x.at \in Nat /\ x.sym \in Nat
        BY <4>1 DEF Blocks
      <4>3. x.sym = width /\ (InEarlierBeam(acc, x) \/ InBeam(acc, x))
        BY <1>5 DEF PlacedTo
      <4>4. CASE InEarlierBeam(acc, x)
        <5>1. PICK end \in Nat : end = x.at + x.sym
          BY <4>2
        <5>2. end <= at /\ at <= to
          BY <1>6, <3>2, <4>4, <5>1 DEF InEarlierBeam
        <5> QED
          BY <5>1, <5>2
      <4>5. CASE InBeam(acc, x)
        <5>1. acc.ues # {} /\ x.at = at
          BY <1>6, <4>5 DEF InBeam
        <5> QED
          BY <3>2, <4>3, <5>1
      <4> QED
        BY <4>3, <4>4, <4>5
    <3>11. /\ r.table = acc.table /\ r.width = width /\ r.at = to /\ r.kept = acc.kept
           /\ r.blocks = acc.blocks
      BY <3>6, <3>8
    <3> QED
      BY <3>3, <3>9, <3>10, <3>11
  <2> QED
    BY <2>1, <2>2
<1>10. TakenTo(m, t, o, n, r) /\ KeptTo(o, n, r)
  <2>1. \A w : InBlock(r, w) <=> InBlock(acc, w)
    BY <1>9 DEF InBlock
  <2>2. KeptTo(o, n, r)
    BY <1>5, <1>9, <2>1 DEF KeptTo
  <2> QED
    BY <1>5, <1>9, <2>2 DEF TakenTo
<1>11. \A b \in r.blocks : b.sym = r.width /\ InBand(b) /\ b.at + b.sym <= r.at
  BY <1>5, <1>9 DEF PlacedTo
<1>12. \A b, c2 \in r.blocks : b # c2 => Disjoint(b, c2)
  BY <1>5, <1>9 DEF PlacedTo
<1>13. RetxDone(m, t, avail, o, r)
  BY <1>1, <1>2, <1>9, <1>10, <1>11, <1>12 DEF RetxDone
<1>14. ScheduleDlHarq(t, avail, o) = [r EXCEPT !.table.failed = @ \/ r.at > avail]
  <2>1. {Beam[o[i][1]] : i \in 1 .. Len(o)} = BeamsOf(o, Len(o))
    BY DEF BeamsOf, BeamOf
  <2>2. (IF {Beam[o[i][1]] : i \in 1 .. Len(o)} = {} THEN 0
         ELSE avail \div Cardinality({Beam[o[i][1]] : i \in 1 .. Len(o)})) = width
    BY <1>1, <2>1, Zenon DEF WidthOf
  <2>3. acc = InTurn(LAMBDA a, b : RetxOne(ChangeBeam(a, {Beam[b[1]]}), b),
                     [table |-> t, beam |-> {}, width |-> width, at |-> 0, rbg |-> 0,
                      ues |-> {}, kept |-> {}, blocks |-> {}], o)
    BY <1>3 DEF RetxLoop, RetxBody, RetxStart, BeamOf
  <2> QED
    BY <1>8, <2>2, <2>3, Zenon DEF ScheduleDlHarq
<1>15. [r EXCEPT !.table.failed = @ \/ r.at > avail] = r
  <2>1. PICK u : u = r.table
    OBVIOUS
  <2>2. Good(u, m)
    BY <1>10, <2>1 DEF TakenTo
  <2>3. u.failed = FALSE /\ u = [u EXCEPT !.failed = FALSE]
    BY <2>2 DEF Good, Tables
  <2>4. (u.failed \/ r.at > avail) = FALSE
    <3>1. ~ (r.at > avail)
      BY <1>9
    <3> QED
      BY <2>3, <3>1
  <2>5. PICK bm, wd, a, rb, us, ks, bs :
          r = [table |-> u, beam |-> bm, width |-> wd, at |-> a, rbg |-> rb,
               ues |-> us, kept |-> ks, blocks |-> bs]
    BY <1>9, <2>1 DEF RetxAccs
  <2>6. PICK y : y = [r EXCEPT !.table.failed = FALSE]
    OBVIOUS
  <2>7. PICK v : v = [u EXCEPT !.failed = FALSE]
    OBVIOUS
  <2>8. y = [table |-> v, beam |-> bm, width |-> wd, at |-> a,
             rbg |-> rb, ues |-> us, kept |-> ks, blocks |-> bs]
    BY ONLY <2>5, <2>6, <2>7
  <2>9. y = r
    BY <2>3, <2>5, <2>7, <2>8, Zenon
  <2> QED
    BY <2>1, <2>4, <2>6, <2>9, Zenon
<1> QED
  BY <1>13, <1>14, <1>15

-----------------------------------------------------------------------------
(* New data. *)

(* What the retransmissions of a slot leave to start from.                  *)
DataBase(m, retx) ==
  /\ Good(retx.table, m) /\ retx.at \in Nat /\ retx.blocks \in SUBSET Blocks
  /\ \A b \in retx.blocks : InBand(b) /\ b.at + b.sym <= retx.at
  /\ \A b, c \in retx.blocks : b # c => Disjoint(b, c)

(* UEs without a block in the slot are given a free process and some of the *)
(* symbols that are left.                                                   *)
Granted(retx, room, g) ==
  /\ DOMAIN g \subseteq UEs /\ g \in [DOMAIN g -> Ids \X (1 .. room)]
  /\ \A ue \in DOMAIN g :
       /\ \A b \in retx.blocks : b.ue # ue
       /\ CanInsert(retx.table, ue) /\ ~Active(retx.table, ue, g[ue][1])

(* The first i UEs have their blocks, behind those that were sent again.    *)
DataTo(m, retx, g, o, i, acc) ==
  /\ acc = [table |-> acc.table, at |-> acc.at, blocks |-> acc.blocks]
  /\ Good(acc.table, m) /\ acc.at \in Nat /\ acc.at >= retx.at
  /\ \A ue \in UEs, id \in Ids :
       acc.table.procs[ue][id] = IF NewOf(g, o, i, ue, id) THEN Sent(g[ue][2], Rbgs)
                                 ELSE retx.table.procs[ue][id]
  /\ acc.blocks \in SUBSET Blocks
  /\ \A b \in acc.blocks : InBand(b) /\ b.at + b.sym <= acc.at
  /\ \A b, c \in acc.blocks : b # c => Disjoint(b, c)
  /\ \A b \in acc.blocks :
       b \in retx.blocks \/ (b.new /\ b.at >= retx.at /\ NewOf(g, o, i, b.ue, b.id))
  /\ retx.blocks \subseteq acc.blocks
  /\ \A ue \in UEs, id \in Ids : NewOf(g, o, i, ue, id) =>
       \E b \in acc.blocks : b.ue = ue /\ b.id = id /\ b.new

(* A block for one UE more.                                                 *)
LEMMA DataStep ==
  ASSUME NEW m \in Nat, NEW retx, NEW room \in Nat, room <= m, NEW g,
         NEW o \in Seq(DOMAIN g), NEW i \in 1 .. Len(o), NEW acc,
         DataBase(m, retx), Granted(retx, room, g), Lists(o, DOMAIN g),
         DataTo(m, retx, g, o, i - 1, acc)
  PROVE  DataTo(m, retx, g, o, i, DataOne(g, acc, o[i]))
<1>0. i \in Nat /\ i - 1 \in Nat /\ Len(o) \in Nat /\ i \in 1 .. i
  BY LenProperties
<1>1. PICK ue : ue = o[i] /\ ue \in DOMAIN g
  BY ElementOfSeq
<1>2. ue \in UEs /\ (\A b \in retx.blocks : b.ue # ue) /\ CanInsert(retx.table, ue)
      /\ ~Active(retx.table, ue, g[ue][1])
  BY <1>1 DEF Granted
<1>3. PICK id \in Ids, sym \in 1 .. room : id = g[ue][1] /\ sym = g[ue][2]
  <2>1. g[ue] \in Ids \X (1 .. room)
    BY <1>1 DEF Granted
  <2> QED
    BY <2>1
<1>4. \A k \in 1 .. i - 1 : k \in 1 .. i /\ o[k] # ue
  <2>1. \A k \in 1 .. i - 1 : k \in 1 .. i /\ k \in 1 .. Len(o) /\ k # i
    BY <1>0
  <2> QED
    BY <1>1, <2>1 DEF Lists
<1>5. \A k \in 1 .. i : k = i \/ k \in 1 .. i - 1
  BY <1>0
<1>6. ASSUME NEW a, NEW d
      PROVE  NewOf(g, o, i, a, d) <=> NewOf(g, o, i - 1, a, d) \/ (a = ue /\ d = id)
  BY <1>0, <1>1, <1>3, <1>4, <1>5 DEF NewOf
<1>7. \A d : ~NewOf(g, o, i - 1, ue, d)
  BY <1>4 DEF NewOf
<1>8. PICK u : u = acc.table
  OBVIOUS
<1>9. Good(u, m) /\ Good(retx.table, m)
  BY <1>8 DEF DataTo, DataBase
<1>10. \A d \in Ids : u.procs[ue][d] = retx.table.procs[ue][d]
  BY <1>2, <1>7, <1>8 DEF DataTo
<1>11. CanInsert(u, ue) /\ ~Active(u, ue, id)
  <2>1. ActiveIds(u, ue) = ActiveIds(retx.table, ue)
    BY <1>10 DEF ActiveIds, Active
  <2>2. u.used[ue] = retx.table.used[ue]
    BY <1>2, <1>9, <2>1 DEF Good, Counts
  <2> QED
    BY <1>2, <1>3, <1>10, <2>2 DEF CanInsert, Active
<1>12. PICK p : p = Sent(sym, Rbgs)
  OBVIOUS
<1>13. GoodProcess(p, m) /\ p.status # "INACTIVE"
  <2>1. sym \in Nat \ {0} /\ sym <= m
    BY <1>3
  <2> QED
    BY <1>12, <2>1, SentGood
<1>14. PICK v : v = Insert(u, ue, id, p)
  OBVIOUS
<1>15. Good(v, m) /\ Changed(u, v, ue, id, p)
  BY <1>2, <1>9, <1>11, <1>13, <1>14, InsertGood
<1>16. PICK at \in Nat : at = acc.at /\ at >= retx.at
  BY DEF DataTo
<1>17. PICK nb : nb = [ue |-> ue, id |-> id, new |-> TRUE, at |-> at, sym |-> sym,
                       rbgAt |-> 0, rbg |-> Rbgs]
  OBVIOUS
<1>18. /\ nb \in Blocks /\ nb.ue = ue /\ nb.id = id /\ nb.new /\ nb.at = at
       /\ nb.sym = sym /\ nb.rbgAt = 0 /\ nb.rbg = Rbgs
  <2>1. sym \in Nat /\ Rbgs \in Nat
    BY HarqConstants
  <2> QED
    BY <1>2, <1>17, <2>1 DEF Blocks
<1>19. PICK r : r = DataOne(g, acc, ue)
  OBVIOUS
<1>20. r = [table |-> v, at |-> at + sym, blocks |-> acc.blocks \union {nb}]
  BY <1>3, <1>8, <1>12, <1>14, <1>16, <1>17, <1>19 DEF DataOne
<1>21. r.table = v /\ r.at = at + sym /\ r.blocks = acc.blocks \union {nb}
       /\ r = [table |-> r.table, at |-> r.at, blocks |-> r.blocks]
  BY <1>20
<1>22. at + sym \in Nat /\ at + sym >= retx.at /\ at <= at + sym
  <2>1. retx.at \in Nat
    BY DEF DataBase
  <2> QED
    BY <1>16, <2>1
<1>23. ASSUME NEW a \in UEs, NEW d \in Ids
       PROVE  v.procs[a][d] = IF NewOf(g, o, i, a, d) THEN Sent(g[a][2], Rbgs)
                              ELSE retx.table.procs[a][d]
  <2>1. v.procs[a][d] = IF a = ue /\ d = id THEN p ELSE u.procs[a][d]
    BY <1>15 DEF Changed
  <2>2. u.procs[a][d] = IF NewOf(g, o, i - 1, a, d) THEN Sent(g[a][2], Rbgs)
                        ELSE retx.table.procs[a][d]
    BY <1>8 DEF DataTo
  <2>3. CASE a = ue /\ d = id
    BY <1>3, <1>6, <1>12, <2>1, <2>3
  <2>4. CASE ~ (a = ue /\ d = id)
    BY <1>6, <2>1, <2>2, <2>4
  <2> QED
    BY <2>3, <2>4
<1>24. acc.blocks \in SUBSET Blocks
  BY DEF DataTo
<1>25. ASSUME NEW x \in acc.blocks
       PROVE  /\ InBand(x) /\ x.at + x.sym <= at /\ x.at + x.sym <= at + sym
              /\ Disjoint(x, nb) /\ Disjoint(nb, x)
  <2>1. x \in Blocks
    BY <1>24
  <2>2. x.at \in Nat /\ x.sym \in Nat
    BY <2>1 DEF Blocks
  <2>3. InBand(x) /\ x.at + x.sym <= at
    BY <1>16 DEF DataTo
  <2>4. x.ue # ue
    <3>1. CASE x \in retx.blocks
      BY <1>2, <3>1
    <3>2. CASE NewOf(g, o, i - 1, x.ue, x.id)
      BY <1>7, <3>2
    <3> QED
      BY <3>1, <3>2 DEF DataTo
  <2>5. x.at + x.sym <= at + sym
    <3>1. PICK e \in Nat, d \in Nat : e = x.at + x.sym /\ d = sym
      BY <1>3, <2>2
    <3>2. e <= at /\ at <= at + d
      BY <2>3, <3>1
    <3> QED
      BY <3>1, <3>2
  <2> QED
    BY <1>18, <2>3, <2>4, <2>5 DEF Disjoint
<1>26. InBand(nb) /\ nb.at + nb.sym <= at + sym /\ nb.at >= retx.at
  <2>1. sym > 0 /\ Rbgs > 0 /\ 0 + Rbgs <= Rbgs
    BY HarqConstants
  <2> QED
    BY <1>16, <1>18, <2>1 DEF InBand
<1>27. \A b \in r.blocks : InBand(b) /\ b.at + b.sym <= r.at
  BY <1>21, <1>25, <1>26
<1>28. \A b, c \in r.blocks : b # c => Disjoint(b, c)
  <2>1. \A b, c \in acc.blocks : b # c => Disjoint(b, c)
    BY DEF DataTo
  <2> QED
    BY <1>21, <1>25, <2>1
<1>29. \A b \in r.blocks :
         b \in retx.blocks \/ (b.new /\ b.at >= retx.at /\ NewOf(g, o, i, b.ue, b.id))
  <2>1. \A b \in acc.blocks :
         b \in retx.blocks \/ (b.new /\ b.at >= retx.at /\ NewOf(g, o, i - 1, b.ue, b.id))
    BY DEF DataTo
  <2> QED
    BY <1>6, <1>18, <1>21, <1>26, <2>1
<1>30. retx.blocks \subseteq r.blocks
  BY <1>21 DEF DataTo
<1>31. \A a \in UEs, d \in Ids : NewOf(g, o, i, a, d) =>
         \E b \in r.blocks : b.ue = a /\ b.id = d /\ b.new
  <2>1. \A a \in UEs, d \in Ids : NewOf(g, o, i - 1, a, d) =>
         \E b \in acc.blocks : b.ue = a /\ b.id = d /\ b.new
    BY DEF DataTo
  <2> QED
    BY <1>6, <1>18, <1>21, <2>1
<1>32. r.blocks \in SUBSET Blocks
  BY <1>18, <1>21, <1>24
<1>33. DataTo(m, retx, g, o, i, r)
  BY <1>15, <1>21, <1>22, <1>23, <1>27, <1>28, <1>29, <1>30, <1>31, <1>32 DEF DataTo
<1> QED
  BY <1>1, <1>19, <1>33

(* The new data of a slot: DataTo holds of all UEs.                         *)
LEMMA DataAll ==
  ASSUME NEW m \in Nat, NEW retx, NEW room \in Nat, room <= m, NEW g,
         NEW o \in Seq(DOMAIN g),
         DataBase(m, retx), Granted(retx, room, g), Lists(o, DOMAIN g)
  PROVE  DataTo(m, retx, g, o, Len(o), DoScheduleDlData(retx, g, o))
<1> DEFINE V == [table : Tables, at : Nat, blocks : SUBSET Blocks]
           n == Len(o)
           s == [table |-> retx.table, at |-> retx.at, blocks |-> retx.blocks]
           F == [i \in 1 .. n |-> [r \in V |-> DataOne(g, r, o[i])]]
           W == [i \in 0 .. n |-> {r \in V : DataTo(m, retx, g, o, i, r)}]
           Solves(h) == [i \in 0 .. Len(o) |->
                           IF i = 0 THEN s ELSE DataOne(g, h[i - 1], o[i])]
<1>0. n \in Nat
  BY LenProperties
<1>1. ASSUME NEW i, NEW r, DataTo(m, retx, g, o, i, r) PROVE r \in V
  <2>1. r.table \in Tables /\ r.at \in Nat /\ r.blocks \in SUBSET Blocks
    BY <1>1 DEF DataTo, Good
  <2>2. r = [table |-> r.table, at |-> r.at, blocks |-> r.blocks]
    BY <1>1 DEF DataTo
  <2> QED
    BY <2>1, <2>2
<1>2. DataTo(m, retx, g, o, 0, s)
  <2>1. s.table = retx.table /\ s.at = retx.at /\ s.blocks = retx.blocks
        /\ s = [table |-> s.table, at |-> s.at, blocks |-> s.blocks]
    OBVIOUS
  <2>2. \A k \in 1 .. 0 : FALSE
    OBVIOUS
  <2>3. \A ue, id : ~NewOf(g, o, 0, ue, id)
    BY <2>2 DEF NewOf
  <2>4. retx.at >= retx.at
    BY DEF DataBase
  <2> HIDE DEF s
  <2> QED
    BY <2>1, <2>3, <2>4 DEF DataTo, DataBase
<1>3. ASSUME NEW i \in 1 .. n, NEW r, DataTo(m, retx, g, o, i - 1, r)
      PROVE  DataTo(m, retx, g, o, i, DataOne(g, r, o[i]))
  BY <1>3, DataStep
<1>4. \A i \in 0 .. n : W[i] = {r \in V : DataTo(m, retx, g, o, i, r)}
  OBVIOUS
<1>5. \A i \in 1 .. n : \A r \in V : F[i][r] = DataOne(g, r, o[i])
  OBVIOUS
<1>6. s \in V
  BY <1>1, <1>2
<1> HIDE DEF F, W, V, s, n
<1>7. \A i \in 1 .. n : i \in 0 .. n /\ i - 1 \in 0 .. n
  BY <1>0
<1>8. Reaches(n, V, s, F, W)
  <2>1. s \in W[0]
    BY <1>0, <1>2, <1>4, <1>6
  <2>2. ASSUME NEW i \in 1 .. n, NEW r \in W[i - 1] PROVE F[i][r] \in W[i]
    <3>1. r \in V /\ DataTo(m, retx, g, o, i - 1, r)
      BY <1>4, <1>7
    <3>2. DataTo(m, retx, g, o, i, DataOne(g, r, o[i]))
      BY <1>3, <3>1
    <3> QED
      BY <1>1, <1>4, <1>5, <1>7, <3>1, <3>2
  <2> QED
    BY <1>4, <2>1, <2>2 DEF Reaches
<1>9. PICK f : IsRecursion(f, n, s, F) /\ \A i \in 0 .. n : f[i] \in V
  BY <1>0, <1>8, Turns
<1>10. f = Solves(f)
  <2>1. \A i \in 0 .. n : i # 0 => F[i][f[i - 1]] = DataOne(g, f[i - 1], o[i])
    BY <1>0, <1>5, <1>7, <1>9
  <2>2. f = [i \in 0 .. n |-> IF i = 0 THEN s ELSE F[i][f[i - 1]]]
    BY <1>9 DEF IsRecursion
  <2> QED
    BY <2>1, <2>2 DEF n
<1>11. DoScheduleDlData(retx, g, o) = (CHOOSE h : h = Solves(h))[Len(o)]
  BY DEF DoScheduleDlData, InTurn, s
<1>12. PICK h : h = (CHOOSE e : e = Solves(e)) /\ h = Solves(h)
  <2> HIDE DEF Solves
  <2> QED
    BY <1>10
<1>13. h[0] = s /\ \A i \in 1 .. n : h[i] = DataOne(g, h[i - 1], o[i])
  <2>1. h = [i \in 0 .. n |-> IF i = 0 THEN s ELSE DataOne(g, h[i - 1], o[i])]
    BY <1>12 DEF n
  <2>2. 0 \in 0 .. n /\ \A i \in 1 .. n : i \in 0 .. n /\ i # 0
    BY <1>0
  <2> QED
    BY ONLY <2>1, <2>2
<1>14. h[0] \in W[0] /\ \A i \in 1 .. n : h[i - 1] \in W[i - 1] => h[i] \in W[i]
  BY <1>0, <1>1, <1>2, <1>3, <1>4, <1>6, <1>7, <1>13
<1>15. \A i \in 0 .. n : h[i] \in W[i]
  BY <1>0, <1>14, Stays
<1>16. DataTo(m, retx, g, o, n, h[n])
  BY <1>0, <1>4, <1>15
<1> QED
  BY <1>11, <1>12, <1>16 DEF n

-----------------------------------------------------------------------------
(* A whole slot. *)

(* The processes can be counted.                                            *)
LEMMA PairsFinite ==
  ASSUME NEW P, P \subseteq Pairs
  PROVE  IsFiniteSet(P)
<1>1. IsFiniteSet(UEs \X Ids)
  BY HarqConstants, FS_Product
<1>2. P \in SUBSET (UEs \X Ids)
  BY DEF Pairs
<1> QED
  BY <1>1, <1>2, FS_Subset

(* ks has a NACK for each block that is kept, and for no other.             *)
IsKept(waits, ks) ==
  /\ ks \in Seq(Feedbacks)
  /\ \A b \in waits : \E k \in 1 .. Len(ks) : Of(ks[k], b[1], b[2])
  /\ \A k \in 1 .. Len(ks) : <<ks[k].ue, ks[k].id>> \in waits

(* What was kept, as a list.                                                *)
LEMMA KeptListed ==
  ASSUME NEW waits \in SUBSET Pairs
  PROVE  IsKept(waits, Kept(waits))
<1>1. PICK S : S = {[ue |-> b[1], id |-> b[2], ok |-> FALSE] : b \in waits}
  OBVIOUS
<1>2. \A b \in waits : b = <<b[1], b[2]>> /\ b[1] \in UEs /\ b[2] \in Ids
  BY DEF Pairs
<1>3. \A x \in S : x \in Feedbacks
  <2>1. ASSUME NEW b \in waits PROVE [ue |-> b[1], id |-> b[2], ok |-> FALSE] \in Feedbacks
    <3>1. b[1] \in UEs /\ b[2] \in Ids
      BY <1>2
    <3> QED
      BY <3>1 DEF Feedbacks
  <2> QED
    BY <1>1, <2>1
<1>4. IsFiniteSet(S)
  <2>1. PICK f : f = [b \in waits |-> [ue |-> b[1], id |-> b[2], ok |-> FALSE]]
    OBVIOUS
  <2>2. f \in Surjection(waits, S)
    BY <1>1, <2>1 DEF Surjection
  <2>3. IsFiniteSet(waits)
    BY PairsFinite
  <2> QED
    BY <2>2, <2>3, FS_Surjection
<1>5. PICK ks : ks = SetToSeq(S)
  OBVIOUS
<1>6. Lists(ks, S)
  BY <1>4, <1>5, ListLists
<1>7. ks \in Seq(S)
  BY <1>6 DEF Lists
<1>8. ks \in Seq(Feedbacks)
  BY <1>3, <1>7
<1>9. \A b \in waits : \E k \in 1 .. Len(ks) : Of(ks[k], b[1], b[2])
  <2>1. ASSUME NEW b \in waits PROVE \E k \in 1 .. Len(ks) : Of(ks[k], b[1], b[2])
    <3>1. [ue |-> b[1], id |-> b[2], ok |-> FALSE] \in S
      BY <1>1
    <3>2. PICK k \in 1 .. Len(ks) : ks[k] = [ue |-> b[1], id |-> b[2], ok |-> FALSE]
      BY <1>6, <3>1 DEF Lists
    <3> QED
      BY <3>2 DEF Of
  <2> QED
    BY <2>1
<1>10. ASSUME NEW k \in 1 .. Len(ks) PROVE <<ks[k].ue, ks[k].id>> \in waits
  <2>1. ks[k] \in S
    BY <1>7, ElementOfSeq
  <2>2. PICK b \in waits : ks[k] = [ue |-> b[1], id |-> b[2], ok |-> FALSE]
    BY <1>1, <2>1
  <2> QED
    BY <1>2, <2>2
<1> QED
  BY <1>1, <1>5, <1>8, <1>9, <1>10 DEF IsKept, Kept

(* The processes of the NACKs of a list.                                    *)
PairsOf(nacks) == {<<f.ue, f.id>> : f \in ToSet(nacks)}

(* Any order in which ScheduleDlHarq may walk them is one it can deal with. *)
LEMMA OrderedNacks ==
  ASSUME NEW m \in Nat, NEW t, NEW fs \in Seq(Feedbacks), NEW fed,
         Good(t, m), FedTo(m, t, fs, Len(fs), fed),
         NEW o \in DlOrders(fed.table, fed.nacks)
  PROVE  Lists(o, PairsOf(fed.nacks)) /\ Ordered(fed.table, o)
<1>1. PICK ns \in Seq(Feedbacks) : ns = fed.nacks
  BY DEF FedTo
<1>2. PICK u : u = fed.table
  OBVIOUS
<1>4. PICK n \in Nat : n = Len(ns)
  BY LenProperties
<1>5. \A j \in 1 .. n : ns[j] \in Feedbacks
  BY <1>4, ElementOfSeq
<1>6. ASSUME NEW j \in 1 .. n
      PROVE  /\ u.procs[ns[j].ue][ns[j].id].status = "RECEIVED_FEEDBACK"
             /\ u.procs[ns[j].ue][ns[j].id].rv < LastRv
  <2>1. MarkedAll(u, ns)
    BY <1>1, <1>2, NacksMarked
  <2> QED
    BY <1>4, <2>1 DEF MarkedAll
<1>8. PICK P : P = PairsOf(ns)
  OBVIOUS
<1>9. \A b \in P : b \in Pairs /\ \E j \in 1 .. n : b = <<ns[j].ue, ns[j].id>>
  <2>1. DOMAIN ns = 1 .. n
    BY <1>4, LenProperties
  <2>2. ToSet(ns) = {ns[j] : j \in 1 .. n}
    BY <2>1 DEF ToSet
  <2>3. ASSUME NEW b \in P PROVE b \in Pairs /\ \E j \in 1 .. n : b = <<ns[j].ue, ns[j].id>>
    <3>1. PICK j \in 1 .. n : b = <<ns[j].ue, ns[j].id>>
      BY <1>8, <2>2 DEF PairsOf
    <3>2. ns[j].ue \in UEs /\ ns[j].id \in Ids
      BY <1>5 DEF Feedbacks
    <3> QED
      BY <3>1, <3>2 DEF Pairs
  <2> QED
    BY <2>3
<1>10. IsFiniteSet(P)
  <2>1. P \subseteq Pairs
    BY <1>9
  <2> QED
    BY <2>1, PairsFinite
<1>11. o \in SetToSeqs(P)
  BY <1>1, <1>8 DEF DlOrders, PairsOf
<1>12. Lists(o, P)
  BY <1>10, <1>11, WalkLists
<1>13. o \in Seq(P) /\ \A i, j \in 1 .. Len(o) : i # j => o[i] # o[j]
  BY <1>12 DEF Lists
<1>14. o \in Seq(Pairs)
  BY <1>9, <1>13
<1>15. ASSUME NEW i \in 1 .. Len(o)
       PROVE  /\ u.procs[o[i][1]][o[i][2]].status = "RECEIVED_FEEDBACK"
              /\ u.procs[o[i][1]][o[i][2]].rv < LastRv
  <2>1. o[i] \in P
    BY <1>13, ElementOfSeq
  <2>2. PICK j \in 1 .. n : o[i] = <<ns[j].ue, ns[j].id>>
    BY <1>9, <2>1
  <2>3. o[i][1] = ns[j].ue /\ o[i][2] = ns[j].id
    BY <2>2
  <2> QED
    BY <1>6, <2>3
<1>16. \A i, j \in 1 .. Len(o) : i < j /\ BeamOf(o[i]) = BeamOf(o[j]) =>
         \A k \in i .. j : BeamOf(o[k]) = BeamOf(o[i])
  BY DEF DlOrders, BeamOf
<1>17. Ordered(u, o)
  BY <1>13, <1>14, <1>15, <1>16 DEF Ordered
<1> QED
  BY <1>1, <1>2, <1>8, <1>12, <1>17

Reports == [ue : UEs, id : Ids, age : 0 .. MaxDelay, again : BOOLEAN]

(* The state as TypeOK wants it, with what its processes hold.              *)
DlTyped ==
  /\ Good(harq, FullSlot)
  /\ waiting \in SUBSET Pairs
  /\ received \in Seq(Feedbacks)
  /\ onAir \in SUBSET Reports
  /\ slot.avail \in Symbols

(* The tables of a slot: after the reset of expired processes, after the    *)
(* feedback fs that was put together of what was kept, ks, and what came.   *)
FeedbackDone(aged, ks, fs, fed) ==
  /\ Good(aged, FullSlot) /\ IsOlder(harq, aged)
  /\ IsKept(waiting, ks)
  /\ MergedTo(aged, ks \o received, Len(ks \o received), fs)
  /\ FedTo(FullSlot, aged, fs, Len(fs), fed)

(* What is put in the slot.                                                 *)
SlotFilled(avail, fed, order, retx, g, turns, data) ==
  /\ Lists(order, PairsOf(fed.nacks)) /\ Ordered(fed.table, order)
  /\ RetxDone(FullSlot, fed.table, avail, order, retx)
  /\ Granted(retx, avail - retx.at, g)
  /\ Lists(turns, DOMAIN g)
  /\ DataTo(FullSlot, retx, g, turns, Len(turns), data)
  /\ data.at <= avail

(* The state after the slot.                                                *)
SlotEnds(avail, retx, data) ==
  /\ harq' = data.table /\ waiting' = retx.kept /\ received' = <<>>
  /\ onAir' = {[a EXCEPT !.age = @ + 1] : a \in onAir} \union
       {[ue |-> b.ue, id |-> b.id, age |-> 0, again |-> FALSE] : b \in data.blocks}
  /\ slot' = [avail |-> avail, blocks |-> data.blocks]
  /\ \A a \in onAir : a.age < MaxDelay

(* What DoSchedDlTriggerReq does, step by step.                             *)
LEMMA SlotSteps ==
  ASSUME NEW avail \in Symbols, DlTyped, DoSchedDlTriggerReq(avail)
  PROVE  \E aged, ks, fs, fed, order, retx, g, turns, data :
           /\ FeedbackDone(aged, ks, fs, fed)
           /\ SlotFilled(avail, fed, order, retx, g, turns, data)
           /\ SlotEnds(avail, retx, data)
<1>1. PICK m \in Nat : m = FullSlot /\ avail <= m /\ avail \in Nat
  BY FullSlotLongest
<1>2. PICK aged : aged = ResetExpiredHARQ(harq)
  OBVIOUS
<1>3. Good(aged, m) /\ IsOlder(harq, aged)
  BY <1>1, <1>2, ResetGood DEF DlTyped
<1>4. PICK ks : ks = Kept(waiting)
  OBVIOUS
<1>5. IsKept(waiting, ks)
  BY <1>4, KeptListed DEF DlTyped
<1>6. PICK all \in Seq(Feedbacks) : all = ks \o received
  <2>1. ks \in Seq(Feedbacks) /\ received \in Seq(Feedbacks)
    BY <1>5 DEF IsKept, DlTyped
  <2>2. ks \o received \in Seq(Feedbacks)
    BY <2>1, ConcatProperties
  <2> QED
    BY <2>2
<1>7. PICK fs : fs = MergeHARQ(aged, waiting, received)
  OBVIOUS
<1>8. MergedTo(aged, all, Len(all), fs)
  <2>1. fs = Merged(aged, all)
    BY <1>4, <1>6, <1>7, Zenon DEF MergeHARQ, Merged
  <2> QED
    BY <2>1, MergeAll
<1>9. fs \in Seq(Feedbacks) /\ Apart(fs) /\ AllActive(aged, fs)
  BY <1>8 DEF MergedTo
<1>10. PICK fed : fed = ProcessHARQFeedbacks(aged, fs)
  OBVIOUS
<1>11. FedTo(m, aged, fs, Len(fs), fed)
  BY <1>3, <1>9, <1>10, FeedbackAll
<1>12. Good(fed.table, m)
  BY <1>11 DEF FedTo
<1>13. MarkedAll(fed.table, fed.nacks)
  BY <1>3, <1>9, <1>11, NacksMarked
<1>14. ComputeActiveHarq(fed.table, fed.nacks) = fed.table
  BY <1>12, <1>13, ActiveIsFed, Zenon DEF MarkedAll
<1>15. PICK order, retx, g, turns, data :
         /\ order \in DlOrders(fed.table, fed.nacks)
         /\ retx = ScheduleDlHarq(fed.table, avail, order)
         /\ g \in Grants(retx.table, avail - retx.at, AlreadyScheduled(retx))
         /\ turns \in SetToSeqs(DOMAIN g)
         /\ data = DoScheduleDlData(retx, g, turns)
         /\ data.at <= avail
         /\ SlotEnds(avail, retx, data)
  BY <1>2, <1>7, <1>10, <1>14, ZenonT(30) DEF DoSchedDlTriggerReq, SlotEnds
<1>16. Lists(order, PairsOf(fed.nacks)) /\ Ordered(fed.table, order)
  BY <1>3, <1>9, <1>11, <1>15, OrderedNacks
<1>17. order \in Seq(Pairs)
  BY <1>16 DEF Ordered
<1>18. RetxDone(m, fed.table, avail, order, retx)
  BY <1>1, <1>12, <1>15, <1>16, <1>17, RetxSlot
<1>19. PICK at \in Nat, room \in Nat : at = retx.at /\ room = avail - at /\ room <= m
  <2>1. retx.at \in Nat /\ retx.at <= avail
    BY <1>18 DEF RetxDone, RetxAccs
  <2>2. avail - retx.at \in Nat /\ avail - retx.at <= m
    BY <1>1, <2>1
  <2> QED
    BY <2>1, <2>2
<1>20. Granted(retx, room, g)
  <2>1. PICK t : t = retx.table
    OBVIOUS
  <2>2. PICK s \in SUBSET {ue \in UEs \ AlreadyScheduled(retx) : CanInsert(t, ue)} :
          g \in [s -> (Ids \X (1 .. room))] /\ \A ue \in DOMAIN g : ~Active(t, ue, g[ue][1])
    BY <1>15, <1>19, <2>1, ZenonT(30) DEF Grants
  <2>3. DOMAIN g = s /\ s \subseteq UEs
    BY <2>2
  <2>4. \A ue \in s : CanInsert(t, ue) /\ ue \notin AlreadyScheduled(retx)
    BY <2>2
  <2>5. \A ue \in s : \A b \in retx.blocks : b.ue # ue
    BY <2>4 DEF AlreadyScheduled
  <2> QED
    BY <2>1, <2>2, <2>3, <2>4, <2>5 DEF Granted
<1>21. Lists(turns, DOMAIN g)
  <2>1. DOMAIN g \in SUBSET UEs
    BY <1>20 DEF Granted
  <2>2. IsFiniteSet(DOMAIN g)
    BY <2>1, HarqConstants, FS_Subset
  <2> QED
    BY <1>15, <2>2, WalkLists
<1>22. DataBase(m, retx)
  BY <1>18 DEF RetxDone, RetxAccs, TakenTo, DataBase
<1>23. DataTo(m, retx, g, turns, Len(turns), data)
  <2>1. turns \in Seq(DOMAIN g)
    BY <1>21 DEF Lists
  <2> QED
    BY <1>15, <1>19, <1>20, <1>21, <1>22, <2>1, DataAll
<1>24. FeedbackDone(aged, ks, fs, fed)
  BY <1>1, <1>3, <1>5, <1>6, <1>8, <1>11 DEF FeedbackDone
<1>25. SlotFilled(avail, fed, order, retx, g, turns, data)
  BY <1>1, <1>15, <1>16, <1>18, <1>19, <1>20, <1>21, <1>23 DEF SlotFilled
<1> QED
  BY <1>15, <1>24, <1>25

(* A slot leaves the state typed.                                           *)
LEMMA SlotKeepsTyped ==
  ASSUME NEW avail \in Symbols, DlTyped, DoSchedDlTriggerReq(avail)
  PROVE  DlTyped'
<1>1. PICK aged, ks, fs, fed, order, retx, g, turns, data :
        /\ SlotFilled(avail, fed, order, retx, g, turns, data)
        /\ SlotEnds(avail, retx, data)
  BY SlotSteps
<1>2. Good(harq', FullSlot)
  BY <1>1 DEF SlotFilled, SlotEnds, DataTo
<1>3. waiting' \in SUBSET Pairs
  BY <1>1 DEF SlotFilled, SlotEnds, RetxDone, RetxAccs
<1>4. received' \in Seq(Feedbacks)
  BY <1>1, EmptySeq DEF SlotEnds
<1>5. MaxDelay \in Nat
  BY HarqConstants
<1>6. ASSUME NEW a \in onAir PROVE [a EXCEPT !.age = @ + 1] \in Reports
  <2>1. a \in Reports /\ a.age < MaxDelay
    BY <1>1 DEF DlTyped, SlotEnds
  <2>2. a.age + 1 \in 0 .. MaxDelay
    BY <1>5, <2>1 DEF Reports
  <2>3. [a EXCEPT !.age = @ + 1] = [a EXCEPT !.age = a.age + 1]
    OBVIOUS
  <2> QED
    BY <2>1, <2>2, <2>3 DEF Reports
<1>7. ASSUME NEW b \in data.blocks
      PROVE  [ue |-> b.ue, id |-> b.id, age |-> 0, again |-> FALSE] \in Reports
  <2>1. b \in Blocks
    BY <1>1 DEF SlotFilled, DataTo
  <2> QED
    BY <1>5, <2>1 DEF Blocks, Reports
<1>8. onAir' \in SUBSET Reports
  BY <1>1, <1>6, <1>7 DEF SlotEnds
<1>9. slot'.avail \in Symbols
  BY <1>1 DEF SlotEnds
<1> QED
  BY <1>2, <1>3, <1>4, <1>8, <1>9 DEF DlTyped

(* Feedback that comes in leaves the state typed.                           *)
LEMMA FeedbackKeepsTyped ==
  ASSUME NEW report \in onAir, DlTyped, DoDlHarqFeedback(report)
  PROVE  DlTyped'
<1>1. report \in Reports
  BY DEF DlTyped
<1>2. PICK ok \in BOOLEAN :
        received' = Append(received, [ue |-> report.ue, id |-> report.id, ok |-> ok])
  BY DEF DoDlHarqFeedback
<1>3. [ue |-> report.ue, id |-> report.id, ok |-> ok] \in Feedbacks
  BY <1>1 DEF Reports, Feedbacks
<1>4. received' \in Seq(Feedbacks)
  BY <1>2, <1>3, AppendProperties DEF DlTyped
<1>5. [report EXCEPT !.again = TRUE] \in Reports
  BY <1>1 DEF Reports
<1>6. onAir' \in SUBSET Reports
  BY <1>5 DEF DoDlHarqFeedback, DlTyped
<1>7. UNCHANGED <<harq, waiting, slot>>
  BY DEF DoDlHarqFeedback
<1> QED
  BY <1>4, <1>6, <1>7 DEF DlTyped

(* The types of the scheduler are kept, and no assertion of it fails.       *)
LEMMA TypedAlways == Spec => []DlTyped
<1>1. Init => DlTyped
  <2>1. SUFFICES ASSUME Init PROVE DlTyped
    OBVIOUS
  <2>2. FullSlot \in Symbols /\ FullSlot \in Nat
    BY FullSlotLongest
  <2>3. Good(harq, FullSlot)
    BY <2>1, <2>2, EmptyGood DEF Init
  <2>4. received \in Seq(Feedbacks)
    BY <2>1, EmptySeq DEF Init
  <2>5. waiting \in SUBSET Pairs /\ onAir \in SUBSET Reports /\ slot.avail \in Symbols
    BY <2>1, <2>2 DEF Init
  <2> QED
    BY <2>3, <2>4, <2>5 DEF DlTyped
<1>2. DlTyped /\ [Next]_vars => DlTyped'
  <2>1. SUFFICES ASSUME DlTyped, [Next]_vars PROVE DlTyped'
    OBVIOUS
  <2>2. CASE UNCHANGED vars
    BY <2>1, <2>2 DEF DlTyped, vars
  <2>3. ASSUME NEW report \in onAir, DoDlHarqFeedback(report) PROVE DlTyped'
    BY <2>1, <2>3, FeedbackKeepsTyped
  <2>4. ASSUME NEW avail \in Symbols, DoSchedDlTriggerReq(avail) PROVE DlTyped'
    BY <2>1, <2>4, SlotKeepsTyped
  <2> QED
    BY <2>1, <2>2, <2>3, <2>4 DEF Next
<1> QED
  BY <1>1, <1>2, PTL DEF Spec

(* For every number of UEs, processes, RBGs and symbols, every beam         *)
(* assignment and every delay and duplication of feedback, no assertion of  *)
(* the downlink scheduler fails: m_usedSize counts the active processes,    *)
(* no block is sent more than four times, a retransmission fits the band    *)
(* and the slot, and new data find a free process.                          *)
THEOREM DlTypeCorrect == Spec => []TypeOK
<1>1. DlTyped => TypeOK
  <2>1. SUFFICES ASSUME DlTyped PROVE TypeOK
    OBVIOUS
  <2>2. TableOK(harq, FullSlot)
    BY <2>1, FullSlotLongest, GoodIsOK DEF DlTyped
  <2> QED
    BY <2>1, <2>2 DEF DlTyped, TypeOK, Pairs, Reports, Feedbacks
<1> QED
  BY <1>1, TypedAlways, PTL

(* For every value of the constants, the blocks of a slot share no resource *)
(* block, stay inside its symbols and the band, and no UE gets two.         *)
THEOREM DlPlacedApart == Spec => []PlacedApart
<1>1. Init => PlacedApart
  BY DEF Init, PlacedApart
<1>2. ASSUME NEW avail \in Symbols, DlTyped, DoSchedDlTriggerReq(avail)
      PROVE  PlacedApart'
  <2>1. PICK aged, ks, fs, fed, order, retx, g, turns, data :
          /\ SlotFilled(avail, fed, order, retx, g, turns, data)
          /\ SlotEnds(avail, retx, data)
    BY <1>2, SlotSteps
  <2>2. PICK B \in SUBSET Blocks : B = data.blocks
    BY <2>1 DEF SlotFilled, DataTo
  <2>3. slot'.avail = avail /\ slot'.blocks = B
    BY <2>1, <2>2 DEF SlotEnds
  <2>4. PICK at \in Nat : at = data.at /\ at <= avail
    BY <2>1 DEF SlotFilled, DataTo
  <2>5. avail \in Nat
    BY FullSlotLongest
  <2>6. ASSUME NEW b \in B
        PROVE  /\ b.at + b.sym <= avail /\ b.rbgAt + b.rbg <= Rbgs
               /\ b.sym > 0 /\ b.rbg > 0
    <3>1. InBand(b) /\ b.at + b.sym <= at
      BY <2>1, <2>2, <2>4 DEF SlotFilled, DataTo
    <3>2. b \in Blocks
      BY <2>2
    <3>3. b.at \in Nat /\ b.sym \in Nat
      BY <3>2 DEF Blocks
    <3> QED
      BY <2>4, <2>5, <3>1, <3>3 DEF InBand
  <2>7. \A b, c \in B : b # c => Disjoint(b, c)
    BY <2>1, <2>2 DEF SlotFilled, DataTo
  <2> QED
    BY <2>3, <2>6, <2>7 DEF PlacedApart, Disjoint
<1>3. DlTyped /\ PlacedApart /\ [Next]_vars => PlacedApart'
  <2>1. SUFFICES ASSUME DlTyped, PlacedApart, [Next]_vars PROVE PlacedApart'
    OBVIOUS
  <2>2. CASE UNCHANGED slot
    BY <2>1, <2>2 DEF PlacedApart
  <2>3. CASE \E avail \in Symbols : DoSchedDlTriggerReq(avail)
    BY <1>2, <2>1, <2>3
  <2> QED
    BY <2>1, <2>2, <2>3 DEF Next, vars, DoDlHarqFeedback
<1> QED
  BY <1>1, <1>3, TypedAlways, PTL DEF Spec

(* All UEs are served in one beam.                                          *)
SameBeam == \A u, v \in UEs : Beam[u] = Beam[v]

(* One beam has all the symbols of the slot.                                *)
LEMMA WholeSlot ==
  ASSUME SameBeam, NEW avail \in Nat, NEW o \in Seq(Pairs), NEW k \in 1 .. Len(o)
  PROVE  WidthOf(avail, o) = avail
<1>1. Len(o) \in Nat
  BY LenProperties
<1>2. PICK B : B = BeamsOf(o, Len(o))
  OBVIOUS
<1>3. \A j \in 1 .. Len(o) : BeamOf(o[j]) = BeamOf(o[k])
  <2>1. ASSUME NEW j \in 1 .. Len(o) PROVE o[j][1] \in UEs
    <3>1. o[j] \in Pairs
      BY ElementOfSeq
    <3> QED
      BY <3>1 DEF Pairs
  <2> QED
    BY <2>1 DEF SameBeam, BeamOf
<1>4. B = {BeamOf(o[k])}
  BY <1>2, <1>3 DEF BeamsOf
<1>5. PICK c \in Nat : c = Cardinality(B) /\ c = 1
  BY <1>4, FS_Singleton
<1>6. avail \div c = avail
  BY <1>5
<1>7. WidthOf(avail, o) = avail \div c
  BY <1>2, <1>4, <1>5 DEF WidthOf
<1> QED
  BY <1>6, <1>7

(* The blocks sent again before the new data take the whole slot: a slot    *)
(* with new data has none, and what is kept is larger than the slot.        *)
LEMMA NewDataAlone ==
  ASSUME SameBeam, NEW avail \in Nat, NEW m \in Nat, NEW t, NEW order \in Seq(Pairs),
         NEW retx, NEW at \in Nat, at <= avail, NEW b \in Blocks,
         RetxDone(m, t, avail, order, retx),
         b.at >= retx.at, b.at + b.sym <= at, InBand(b)
  PROVE  \A w \in retx.kept : TooLarge(retx.table, avail, w)
<1>1. retx.blocks = {}
  <2>1. SUFFICES ASSUME NEW x \in retx.blocks PROVE FALSE
    OBVIOUS
  <2>2. PICK k \in 1 .. Len(order) : order[k] = <<x.ue, x.id>>
    BY DEF RetxDone, KeptTo
  <2>3. WidthOf(avail, order) = avail
    BY <2>2, WholeSlot
  <2>4. x.sym = avail /\ InBand(x) /\ x.at + x.sym <= retx.at
    BY <2>3 DEF RetxDone
  <2>5. x \in Blocks /\ retx.at \in Nat
    BY DEF RetxDone, RetxAccs
  <2>6. x.at \in Nat /\ b.at \in Nat /\ b.sym \in Nat
    BY <2>5 DEF Blocks
  <2> QED
    BY <2>4, <2>5, <2>6 DEF InBand
<1>2. ASSUME NEW w \in retx.kept PROVE TooLarge(retx.table, avail, w)
  <2>1. PICK k \in 1 .. Len(order) : order[k] = w
    BY DEF RetxDone, KeptTo
  <2>2. WidthOf(avail, order) = avail
    BY <2>1, WholeSlot
  <2> QED
    BY <1>1, <2>2 DEF RetxDone, KeptTo
<1> QED
  BY <1>2

(* What is kept is active and keeps its block while new data are granted.   *)
LEMMA KeptUntouched ==
  ASSUME NEW avail, NEW fed, NEW order, NEW retx, NEW g, NEW turns, NEW data,
         SlotFilled(avail, fed, order, retx, g, turns, data), NEW w \in retx.kept
  PROVE  /\ w \in Pairs /\ Active(data.table, w[1], w[2])
         /\ data.table.procs[w[1]][w[2]] = retx.table.procs[w[1]][w[2]]
<1>1. w \in Pairs
  BY DEF SlotFilled, RetxDone, RetxAccs
<1>2. PICK ue \in UEs, id \in Ids : w[1] = ue /\ w[2] = id
  BY <1>1 DEF Pairs
<1>3. PICK k \in 1 .. Len(order) : order[k] = w
  BY DEF SlotFilled, RetxDone, KeptTo
<1>4. UpToDate(retx.table, w)
  BY <1>3 DEF SlotFilled, RetxDone, TakenTo
<1>5. Active(retx.table, ue, id)
  BY <1>2, <1>4 DEF UpToDate, Active
<1>6. ~NewOf(g, turns, Len(turns), ue, id)
  <2>1. SUFFICES ASSUME NEW k1 \in 1 .. Len(turns), turns[k1] = ue, g[ue][1] = id
        PROVE FALSE
    BY DEF NewOf
  <2>2. turns \in Seq(DOMAIN g)
    BY DEF SlotFilled, Lists
  <2>3. ue \in DOMAIN g
    BY <2>1, <2>2, ElementOfSeq
  <2>4. ~Active(retx.table, ue, id)
    BY <2>1, <2>3 DEF SlotFilled, Granted
  <2> QED
    BY <1>5, <2>4
<1>7. data.table.procs[ue][id] = retx.table.procs[ue][id]
  BY <1>6 DEF SlotFilled, DataTo
<1> QED
  BY <1>1, <1>2, <1>5, <1>7 DEF Active

(* With one beam, whatever the other constants, new data never get the      *)
(* symbols in which a block that waits to be sent again would fit.  With    *)
(* several beams they may: MCNrHarqDlBeams.                                 *)
THEOREM DlHarqGoesFirst ==
  ASSUME SameBeam
  PROVE  Spec => []HarqGoesFirst
<1>1. Init => HarqGoesFirst
  BY DEF Init, HarqGoesFirst
<1>2. ASSUME NEW avail \in Symbols, DlTyped, DoSchedDlTriggerReq(avail)
      PROVE  HarqGoesFirst'
  <2>1. PICK aged, ks, fs, fed, order, retx, g, turns, data :
          /\ SlotFilled(avail, fed, order, retx, g, turns, data)
          /\ SlotEnds(avail, retx, data)
    BY <1>2, SlotSteps
  <2>2. waiting' = retx.kept /\ slot'.blocks = data.blocks /\ harq' = data.table
    BY <2>1 DEF SlotEnds
  <2>3. PICK at \in Nat : at = data.at /\ at <= avail
    BY <2>1 DEF SlotFilled, DataTo
  <2>4. avail \in Nat /\ FullSlot \in Nat /\ Rbgs \in Nat
    BY FullSlotLongest, HarqConstants
  <2>5. RetxDone(FullSlot, fed.table, avail, order, retx) /\ order \in Seq(Pairs)
    BY <2>1 DEF SlotFilled, Ordered
  <2>6. ASSUME NEW w \in retx.kept, NEW b \in data.blocks, NEW c \in data.blocks,
               b.new, NEW p, p = data.table.procs[w[1]][w[2]]
        PROVE  p.sym * p.rbg > (c.at + c.sym - b.at) * Rbgs
    <3>1. b \in Blocks /\ c \in Blocks
      BY <2>1, <2>6 DEF SlotFilled, DataTo
    <3>2. b.at >= retx.at
      <4>1. b \in retx.blocks \/ b.at >= retx.at
        BY <2>1, <2>6 DEF SlotFilled, DataTo
      <4>2. b \notin retx.blocks
        BY <2>5, <2>6 DEF RetxDone, KeptTo
      <4> QED
        BY <4>1, <4>2
    <3>3. InBand(b) /\ b.at + b.sym <= at /\ c.at + c.sym <= at
      BY <2>1, <2>3, <2>6 DEF SlotFilled, DataTo
    <3>4. TooLarge(retx.table, avail, w)
      BY <2>3, <2>4, <2>5, <2>6, <3>1, <3>2, <3>3, NewDataAlone
    <3>5. p = retx.table.procs[w[1]][w[2]] /\ w \in Pairs /\ Good(data.table, FullSlot)
      <4>1. w \in Pairs /\ data.table.procs[w[1]][w[2]] = retx.table.procs[w[1]][w[2]]
        BY <2>1, <2>6, KeptUntouched
      <4>2. Good(data.table, FullSlot)
        BY <2>1 DEF SlotFilled, DataTo
      <4> QED
        BY <2>6, <4>1, <4>2
    <3>6. p.sym * p.rbg > Rbgs * avail
      BY <3>4, <3>5 DEF TooLarge
    <3>7. PICK s \in Nat, r \in Nat, x \in Nat, y \in Nat, z \in Nat :
            s = p.sym /\ r = p.rbg /\ x = c.at /\ y = c.sym /\ z = b.at
      <4>1. w[1] \in UEs /\ w[2] \in Ids
        BY <3>5 DEF Pairs
      <4>2. GoodProcess(p, FullSlot)
        BY <2>6, <3>5, <4>1 DEF Good, AllGood
      <4>3. p.sym \in Nat /\ p.rbg \in Nat
        BY <4>2 DEF GoodProcess, Processes
      <4>4. c.at \in Nat /\ c.sym \in Nat /\ b.at \in Nat
        BY <3>1 DEF Blocks
      <4> QED
        BY <4>3, <4>4
    <3>8. x + y - z <= avail
      BY <2>3, <2>4, <3>3, <3>7
    <3>9. (x + y - z) * Rbgs <= Rbgs * avail
      <4>1. PICK i \in Int : i = x + y - z
        OBVIOUS
      <4>2. i * Rbgs <= Rbgs * avail
        BY <2>4, <3>8, <4>1
      <4> QED
        BY <4>1, <4>2
    <3>10. s * r > (x + y - z) * Rbgs
      <4>1. PICK a \in Int, d \in Int, e \in Int : a = s * r /\ d = (x + y - z) * Rbgs /\ e = Rbgs * avail
        BY <2>4
      <4>2. a > e /\ d <= e
        BY <3>6, <3>7, <3>9, <4>1
      <4> QED
        BY <4>1, <4>2
    <3> QED
      BY <3>7, <3>10
  <2> QED
    BY <2>2, <2>6 DEF HarqGoesFirst
<1>3. DlTyped /\ HarqGoesFirst /\ [Next]_vars => HarqGoesFirst'
  <2>1. SUFFICES ASSUME DlTyped, HarqGoesFirst, [Next]_vars PROVE HarqGoesFirst'
    OBVIOUS
  <2>2. CASE UNCHANGED <<harq, waiting, slot>>
    BY <2>1, <2>2 DEF HarqGoesFirst
  <2>3. CASE \E avail \in Symbols : DoSchedDlTriggerReq(avail)
    BY <1>2, <2>1, <2>3
  <2> QED
    BY <2>1, <2>2, <2>3 DEF Next, vars, DoDlHarqFeedback
<1> QED
  BY <1>1, <1>3, TypedAlways, PTL DEF Spec

-----------------------------------------------------------------------------
(* Every block is followed up. *)

(* Feedback comes once, and while the process still waits for it.           *)
OnceInTime == MaxDuplicates = 0 /\ MaxDelay <= NumHarqProcess

OnAir(ue, id) == \E a \in onAir : a.ue = ue /\ a.id = id

Arrived(ue, id) == Has(received, ue, id)

Waits(ue, id) == <<ue, id>> \in waiting

(* Feedback on its way is for an active process, as old as its timer says.  *)
InTime(t, a) == Active(t, a.ue, a.id) /\ t.procs[a.ue][a.id].timer = a.age

(* An active process is followed up in one way, a free one in none.         *)
FollowedOnce ==
  /\ \A a \in onAir : ~a.again /\ InTime(harq, a)
  /\ \A a, b \in onAir : a.ue = b.ue /\ a.id = b.id => a = b
  /\ Apart(received)
  /\ \A ue \in UEs, id \in Ids :
       /\ ~ (OnAir(ue, id) /\ Arrived(ue, id))
       /\ ~ (OnAir(ue, id) /\ Waits(ue, id))
       /\ ~ (Arrived(ue, id) /\ Waits(ue, id))
       /\ Active(harq, ue, id) <=> OnAir(ue, id) \/ Arrived(ue, id) \/ Waits(ue, id)

(* The processes after the feedback was applied: one with feedback on its   *)
(* way is a slot older, and any other that was not NACKed is free.          *)
AfterFeedback(fed) ==
  /\ \A a \in onAir :
       /\ Active(fed.table, a.ue, a.id)
       /\ fed.table.procs[a.ue][a.id].timer = a.age + 1
       /\ <<a.ue, a.id>> \notin PairsOf(fed.nacks)
  /\ \A ue \in UEs, id \in Ids :
       ~OnAir(ue, id) /\ <<ue, id>> \notin PairsOf(fed.nacks) => ~Active(fed.table, ue, id)

(* Merging and applying the feedback leads there.                           *)
LEMMA FeedbackFollows ==
  ASSUME DlTyped, FollowedOnce, OnceInTime, \A a \in onAir : a.age < MaxDelay,
         NEW aged, NEW ks, NEW fs, NEW fed, FeedbackDone(aged, ks, fs, fed)
  PROVE  AfterFeedback(fed)
<1>1. PICK rs \in Seq(Feedbacks) : rs = received
  BY DEF DlTyped
<1>2. ks \in Seq(Feedbacks) /\ IsKept(waiting, ks) /\ Good(aged, FullSlot) /\ IsOlder(harq, aged)
  BY DEF FeedbackDone, IsKept
<1>3. PICK all \in Seq(Feedbacks) : all = ks \o rs
  BY <1>1, <1>2, ConcatProperties
<1>4. MergedTo(aged, all, Len(all), fs) /\ FedTo(FullSlot, aged, fs, Len(fs), fed)
  BY <1>1, <1>3 DEF FeedbackDone
<1>5. PICK n \in Nat : n = Len(fs)
  BY <1>4, LenProperties DEF MergedTo
<1>6. PICK ns \in Seq(Feedbacks), l \in Nat : ns = fed.nacks /\ l = Len(ns)
  BY <1>4, LenProperties DEF FedTo
<1>7. PICK u : u = fed.table
  OBVIOUS
<1>8. ASSUME NEW ue \in UEs, NEW id \in Ids
      PROVE  Has(all, ue, id) <=> Arrived(ue, id) \/ Waits(ue, id)
  <2>1. Has(ks, ue, id) <=> Waits(ue, id)
    <3>1. ASSUME NEW k \in 1 .. Len(ks), Of(ks[k], ue, id) PROVE Waits(ue, id)
      <4>1. <<ks[k].ue, ks[k].id>> \in waiting
        BY <1>2 DEF IsKept
      <4> QED
        BY <3>1, <4>1 DEF Of, Waits
    <3>2. ASSUME Waits(ue, id) PROVE \E k \in 1 .. Len(ks) : Of(ks[k], ue, id)
      <4>1. PICK b \in waiting : b = <<ue, id>>
        BY <3>2 DEF Waits
      <4>2. PICK k \in 1 .. Len(ks) : Of(ks[k], b[1], b[2])
        BY <1>2, <4>1 DEF IsKept
      <4>3. b[1] = ue /\ b[2] = id
        BY <4>1
      <4> QED
        BY <4>2, <4>3
    <3> QED
      BY <3>1, <3>2 DEF Has
  <2>2. Has(rs, ue, id) <=> Arrived(ue, id)
    BY <1>1 DEF Arrived
  <2>3. Has(ks \o rs, ue, id) <=> Has(ks, ue, id) \/ Has(rs, ue, id)
    BY <1>2, AllOf
  <2> QED
    BY <1>3, <2>1, <2>2, <2>3, Zenon
<1>9. \A b \in PairsOf(ns) : \E j \in 1 .. l : b = <<ns[j].ue, ns[j].id>>
  <2>1. DOMAIN ns = 1 .. l
    BY <1>6, LenProperties
  <2> QED
    BY <2>1 DEF PairsOf, ToSet
<1>10. \A j \in 1 .. l : <<ns[j].ue, ns[j].id>> \in PairsOf(ns)
  <2>1. DOMAIN ns = 1 .. l
    BY <1>6, LenProperties
  <2> QED
    BY <2>1 DEF PairsOf, ToSet
<1>11. ASSUME NEW ue \in UEs, NEW id \in Ids, NEW j \in 1 .. n, Of(fs[j], ue, id)
       PROVE  Arrived(ue, id) \/ Waits(ue, id)
  <2>1. \E k \in 1 .. Len(all) : fs[j] = all[k]
    BY <1>4, <1>5 DEF MergedTo
  <2> QED
    BY <1>8, <1>11, <2>1 DEF Has
<1>12. ASSUME NEW ue \in UEs, NEW id \in Ids, <<ue, id>> \in PairsOf(ns)
       PROVE  \E j \in 1 .. n : Of(fs[j], ue, id)
  <2>1. PICK j \in 1 .. l : <<ue, id>> = <<ns[j].ue, ns[j].id>>
    BY <1>9, <1>12
  <2>2. PICK k \in 1 .. n : ns[j] = fs[k]
    BY <1>4, <1>5, <1>6 DEF FedTo
  <2> QED
    BY <2>1, <2>2 DEF Of
<1>13. ASSUME NEW ue \in UEs, NEW id \in Ids, \A j \in 1 .. n : ~Of(fs[j], ue, id)
       PROVE  u.procs[ue][id] = Older(harq.procs[ue][id])
  <2>1. u.procs[ue][id] = aged.procs[ue][id]
    BY <1>4, <1>5, <1>7, <1>13 DEF FedTo
  <2> QED
    BY <1>2, <2>1 DEF IsOlder
<1>14. ASSUME NEW a \in onAir
       PROVE  /\ Active(u, a.ue, a.id) /\ u.procs[a.ue][a.id].timer = a.age + 1
              /\ <<a.ue, a.id>> \notin PairsOf(ns)
  <2>1. PICK ue \in UEs, id \in Ids : ue = a.ue /\ id = a.id
    BY DEF DlTyped, Reports
  <2>2. OnAir(ue, id)
    BY <2>1 DEF OnAir
  <2>3. \A j \in 1 .. n : ~Of(fs[j], ue, id)
    BY <1>11, <2>2 DEF FollowedOnce
  <2>4. <<ue, id>> \notin PairsOf(ns)
    BY <1>12, <2>3
  <2>5. PICK p \in Processes : p = harq.procs[ue][id]
    BY DEF DlTyped, Good, Tables
  <2>6. p.status # "INACTIVE" /\ p.timer = a.age
    BY <2>1, <2>5 DEF FollowedOnce, InTime, Active
  <2>7. p.timer < NumHarqProcess
    <3>1. a.age < MaxDelay /\ MaxDelay <= NumHarqProcess /\ MaxDelay \in Nat
          /\ NumHarqProcess \in Nat /\ a.age \in Nat
      BY HarqConstants, NumberOfProcesses DEF OnceInTime, DlTyped, Reports
    <3> QED
      BY <2>6, <3>1
  <2>8. ~ (p.timer >= NumHarqProcess)
    BY <2>7, NumberOfProcesses DEF Processes
  <2>9. Older(p) = [p EXCEPT !.timer = @ + 1]
    BY <2>6, <2>8 DEF Older, Expired
  <2>10. Older(p).status # "INACTIVE" /\ Older(p).timer = a.age + 1
    BY <2>6, <2>9 DEF Processes
  <2>11. u.procs[ue][id] = Older(p)
    BY <1>13, <2>3, <2>5
  <2> QED
    BY <2>1, <2>4, <2>10, <2>11 DEF Active
<1>15. ASSUME NEW ue \in UEs, NEW id \in Ids, ~OnAir(ue, id), <<ue, id>> \notin PairsOf(ns)
       PROVE  ~Active(u, ue, id)
  <2>1. CASE \E j \in 1 .. n : Of(fs[j], ue, id)
    <3>1. PICK j \in 1 .. n : fs[j].ue = ue /\ fs[j].id = id
      BY <2>1 DEF Of
    <3>2. \/ ~Active(u, fs[j].ue, fs[j].id) \/ \E k \in 1 .. l : ns[k] = fs[j]
      BY <1>4, <1>5, <1>6, <1>7 DEF FedTo
    <3>3. ~ \E k \in 1 .. l : ns[k] = fs[j]
      BY <1>10, <1>15, <3>1
    <3> QED
      BY <3>1, <3>2, <3>3
  <2>2. CASE ~ \E j \in 1 .. n : Of(fs[j], ue, id)
    <3>1. u.procs[ue][id] = aged.procs[ue][id]
      BY <1>4, <1>5, <1>7, <2>2 DEF FedTo
    <3>2. SUFFICES ASSUME Active(aged, ue, id) PROVE FALSE
      BY <3>1 DEF Active
    <3>3. aged.procs[ue][id] = Older(harq.procs[ue][id])
      BY <1>2 DEF IsOlder
    <3>4. Active(harq, ue, id)
      BY <3>2, <3>3 DEF Older, Active
    <3>5. Arrived(ue, id) \/ Waits(ue, id)
      BY <1>15, <3>4 DEF FollowedOnce
    <3>6. PICK k \in 1 .. Len(all) : Of(all[k], ue, id)
      BY <1>8, <3>5 DEF Has
    <3>7. Active(aged, all[k].ue, all[k].id)
      BY <3>2, <3>6 DEF Of
    <3>8. PICK j \in 1 .. n : Of(fs[j], all[k].ue, all[k].id)
      BY <1>4, <1>5, <3>7 DEF MergedTo
    <3> QED
      BY <2>2, <3>6, <3>8 DEF Of
  <2> QED
    BY <2>1, <2>2
<1> QED
  BY <1>6, <1>7, <1>14, <1>15 DEF AfterFeedback

InSlot(data, ue, id) == \E b \in data.blocks : b.ue = ue /\ b.id = id

(* A process after the slot was filled: a NACKed one is sent again or kept, *)
(* an active one is as it was, a free one is free or has a block.           *)
AfterSlot(fed, retx, data, ue, id) ==
  /\ <<ue, id>> \in PairsOf(fed.nacks) =>
       /\ Active(data.table, ue, id) /\ data.table.procs[ue][id].timer = 0
       /\ InSlot(data, ue, id) <=> <<ue, id>> \notin retx.kept
  /\ <<ue, id>> \notin PairsOf(fed.nacks) =>
       /\ <<ue, id>> \notin retx.kept
       /\ Active(fed.table, ue, id) =>
            /\ data.table.procs[ue][id] = fed.table.procs[ue][id]
            /\ ~InSlot(data, ue, id)
       /\ ~Active(fed.table, ue, id) =>
            /\ Active(data.table, ue, id) <=> InSlot(data, ue, id)
            /\ InSlot(data, ue, id) => data.table.procs[ue][id].timer = 0

(* Filling the slot does this to every process.                             *)
LEMMA SlotFollows ==
  ASSUME NEW avail, NEW fed, NEW order, NEW retx, NEW g, NEW turns, NEW data,
         SlotFilled(avail, fed, order, retx, g, turns, data),
         NEW ue \in UEs, NEW id \in Ids
  PROVE  AfterSlot(fed, retx, data, ue, id)
<1>1. PICK t, u, v : t = fed.table /\ u = retx.table /\ v = data.table
  OBVIOUS
<1>2. PICK w \in Pairs : w = <<ue, id>> /\ w[1] = ue /\ w[2] = id
  <2>1. <<ue, id>> \in Pairs /\ <<ue, id>>[1] = ue /\ <<ue, id>>[2] = id
    BY DEF Pairs
  <2> QED
    BY <2>1
<1>3. PICK n \in Nat : n = Len(order)
  BY LenProperties DEF SlotFilled, Ordered
<1>4. w \in PairsOf(fed.nacks) <=> \E k \in 1 .. n : order[k] = w
  <2>1. Lists(order, PairsOf(fed.nacks))
    BY DEF SlotFilled
  <2>2. \A k \in 1 .. n : order[k] \in PairsOf(fed.nacks)
    BY <1>3, <2>1, ElementOfSeq DEF Lists
  <2> QED
    BY <1>3, <2>1, <2>2 DEF Lists
<1>5. ASSUME NewOf(g, turns, Len(turns), ue, id) PROVE ~Active(u, ue, id)
  <2>1. PICK k \in 1 .. Len(turns) : turns[k] = ue /\ g[ue][1] = id
    BY <1>5 DEF NewOf
  <2>2. turns \in Seq(DOMAIN g)
    BY DEF SlotFilled, Lists
  <2>3. ue \in DOMAIN g
    BY <2>1, <2>2, ElementOfSeq
  <2> QED
    BY <1>1, <2>1, <2>3 DEF SlotFilled, Granted
<1>6. v.procs[ue][id] = IF NewOf(g, turns, Len(turns), ue, id) THEN Sent(g[ue][2], Rbgs)
                        ELSE u.procs[ue][id]
  BY <1>1 DEF SlotFilled, DataTo
<1>7. InSlot(data, ue, id) <=> InBlock(retx, w) \/ NewOf(g, turns, Len(turns), ue, id)
  <2>1. ASSUME NEW b \in data.blocks, b.ue = ue, b.id = id
        PROVE  InBlock(retx, w) \/ NewOf(g, turns, Len(turns), ue, id)
    <3>1. b \in retx.blocks \/ NewOf(g, turns, Len(turns), b.ue, b.id)
      BY <2>1 DEF SlotFilled, DataTo
    <3> QED
      BY <1>2, <2>1, <3>1 DEF InBlock
  <2>2. ASSUME InBlock(retx, w) PROVE InSlot(data, ue, id)
    <3>1. retx.blocks \subseteq data.blocks
      BY DEF SlotFilled, DataTo
    <3> QED
      BY <1>2, <2>2, <3>1 DEF InBlock, InSlot
  <2>3. ASSUME NewOf(g, turns, Len(turns), ue, id) PROVE InSlot(data, ue, id)
    BY <2>3 DEF SlotFilled, DataTo, InSlot
  <2> QED
    BY <2>1, <2>2, <2>3 DEF InSlot
<1>8. KeptTo(order, n, retx) /\ TakenTo(FullSlot, t, order, n, retx)
  BY <1>1, <1>3 DEF SlotFilled, RetxDone
<1>9. CASE w \in PairsOf(fed.nacks)
  <2>1. PICK k \in 1 .. n : order[k] = w
    BY <1>4, <1>9
  <2>2. UpToDate(u, w)
    BY <1>1, <1>8, <2>1 DEF TakenTo
  <2>3. Active(u, ue, id) /\ u.procs[ue][id].timer = 0
    BY <1>2, <2>2 DEF UpToDate, Active
  <2>4. ~NewOf(g, turns, Len(turns), ue, id)
    BY <1>5, <2>3
  <2>5. v.procs[ue][id] = u.procs[ue][id]
    BY <1>6, <2>4
  <2>6. w \in retx.kept <=> ~InBlock(retx, w)
    BY <1>8, <2>1 DEF KeptTo
  <2> QED
    BY <1>1, <1>2, <1>7, <1>9, <2>3, <2>4, <2>5, <2>6 DEF AfterSlot, Active
<1>10. CASE w \notin PairsOf(fed.nacks)
  <2>1. \A k \in 1 .. n : order[k] # w
    BY <1>4, <1>10
  <2>2. u.procs[ue][id] = t.procs[ue][id]
    BY <1>1, <1>2, <1>8, <2>1 DEF TakenTo
  <2>3. w \notin retx.kept
    BY <1>8, <2>1 DEF KeptTo
  <2>4. ~InBlock(retx, w)
    <3>1. ASSUME NEW b \in retx.blocks, b.ue = ue, b.id = id PROVE FALSE
      <4>1. PICK k \in 1 .. n : order[k] = <<b.ue, b.id>>
        BY <1>8 DEF KeptTo
      <4> QED
        BY <1>2, <2>1, <3>1, <4>1
    <3> QED
      BY <1>2, <3>1 DEF InBlock
  <2>5. Active(t, ue, id) <=> Active(u, ue, id)
    BY <2>2 DEF Active
  <2>6. CASE NewOf(g, turns, Len(turns), ue, id)
    <3>1. v.procs[ue][id].status # "INACTIVE" /\ v.procs[ue][id].timer = 0
      BY <1>6, <2>6 DEF Sent
    <3> QED
      BY <1>1, <1>2, <1>5, <1>7, <1>10, <2>3, <2>5, <2>6, <3>1 DEF AfterSlot, Active
  <2>7. CASE ~NewOf(g, turns, Len(turns), ue, id)
    <3>1. v.procs[ue][id] = t.procs[ue][id]
      BY <1>6, <2>2, <2>7
    <3> QED
      BY <1>1, <1>2, <1>7, <1>10, <2>3, <2>4, <2>7, <3>1 DEF AfterSlot, Active
  <2> QED
    BY <2>6, <2>7
<1> QED
  BY <1>9, <1>10

(* A slot leaves every active process followed up once.                     *)
LEMMA SlotKeepsFollowed ==
  ASSUME NEW avail \in Symbols, DlTyped, FollowedOnce, OnceInTime,
         DoSchedDlTriggerReq(avail)
  PROVE  FollowedOnce'
<1>1. PICK aged, ks, fs, fed, order, retx, g, turns, data :
        /\ FeedbackDone(aged, ks, fs, fed)
        /\ SlotFilled(avail, fed, order, retx, g, turns, data)
        /\ SlotEnds(avail, retx, data)
  BY SlotSteps
<1>2. AfterFeedback(fed)
  BY <1>1, FeedbackFollows DEF SlotEnds
<1>3. PICK v, B : v = data.table /\ B = data.blocks
  OBVIOUS
<1>4. PICK old, new :
        /\ old = {[a EXCEPT !.age = @ + 1] : a \in onAir}
        /\ new = {[ue |-> b.ue, id |-> b.id, age |-> 0, again |-> FALSE] : b \in B}
  OBVIOUS
<1>5. harq' = v /\ waiting' = retx.kept /\ received' = <<>> /\ onAir' = old \union new
  BY <1>1, <1>3, <1>4 DEF SlotEnds
<1>6. ASSUME NEW ue \in UEs, NEW id \in Ids PROVE AfterSlot(fed, retx, data, ue, id)
  BY <1>1, SlotFollows
<1>7. ASSUME NEW x \in old
      PROVE  \E a \in onAir : /\ x.ue = a.ue /\ x.id = a.id /\ x.age = a.age + 1
                              /\ x.again = a.again /\ x = [a EXCEPT !.age = @ + 1]
  <2>1. PICK a \in onAir : x = [a EXCEPT !.age = @ + 1]
    BY <1>4
  <2>2. a \in Reports
    BY DEF DlTyped
  <2> QED
    BY <2>1, <2>2 DEF Reports
<1>8. ASSUME NEW a \in onAir PROVE a.ue \in UEs /\ a.id \in Ids /\ ~a.again
  BY DEF DlTyped, Reports, FollowedOnce
<1>9. ASSUME NEW x \in new
      PROVE  \E b \in B : /\ x.ue = b.ue /\ x.id = b.id /\ x.age = 0 /\ ~x.again
                          /\ x = [ue |-> b.ue, id |-> b.id, age |-> 0, again |-> FALSE]
  BY <1>4
<1>10. ASSUME NEW b \in B PROVE b.ue \in UEs /\ b.id \in Ids
  BY <1>1, <1>3 DEF SlotFilled, DataTo, Blocks
<1>11. \A b, c \in B : b # c => b.ue # c.ue
  <2>1. \A b, c \in data.blocks : b # c => Disjoint(b, c)
    BY <1>1, Zenon DEF SlotFilled, DataTo
  <2> QED
    BY <1>3, <2>1 DEF Disjoint
<1>12. ASSUME NEW a \in onAir
       PROVE  /\ Active(v, a.ue, a.id) /\ v.procs[a.ue][a.id].timer = a.age + 1
              /\ ~InSlot(data, a.ue, a.id) /\ <<a.ue, a.id>> \notin retx.kept
  <2>1. AfterSlot(fed, retx, data, a.ue, a.id)
    BY <1>6, <1>8
  <2> QED
    BY <1>2, <1>3, <2>1 DEF AfterSlot, AfterFeedback, Active
<1>13. ASSUME NEW b \in B
       PROVE  /\ Active(v, b.ue, b.id) /\ v.procs[b.ue][b.id].timer = 0
              /\ <<b.ue, b.id>> \notin retx.kept
  <2>1. AfterSlot(fed, retx, data, b.ue, b.id) /\ InSlot(data, b.ue, b.id)
    BY <1>3, <1>6, <1>10 DEF InSlot
  <2> QED
    BY <1>3, <2>1 DEF AfterSlot
<1>14. ASSUME NEW x \in old \union new
       PROVE  ~x.again /\ InTime(v, x) /\ <<x.ue, x.id>> \notin retx.kept
  <2>1. CASE x \in old
    BY <1>7, <1>8, <1>12, <2>1 DEF InTime
  <2>2. CASE x \in new
    BY <1>9, <1>13, <2>2 DEF InTime
  <2> QED
    BY <2>1, <2>2
<1>15. ASSUME NEW x \in old \union new, NEW y \in old \union new, x.ue = y.ue, x.id = y.id
       PROVE  x = y
  <2>1. CASE x \in old /\ y \in old
    <3>1. PICK a \in onAir, c \in onAir :
            /\ x.ue = a.ue /\ x.id = a.id /\ x = [a EXCEPT !.age = @ + 1]
            /\ y.ue = c.ue /\ y.id = c.id /\ y = [c EXCEPT !.age = @ + 1]
      BY <1>7, <2>1
    <3>2. a = c
      BY <1>15, <3>1 DEF FollowedOnce
    <3> QED
      BY <3>1, <3>2
  <2>2. CASE x \in new /\ y \in new
    <3>1. PICK b \in B, c \in B :
            /\ x.ue = b.ue /\ x = [ue |-> b.ue, id |-> b.id, age |-> 0, again |-> FALSE]
            /\ y.ue = c.ue /\ y = [ue |-> c.ue, id |-> c.id, age |-> 0, again |-> FALSE]
      BY <1>9, <2>2
    <3>2. b = c
      BY <1>11, <1>15, <3>1
    <3> QED
      BY <3>1, <3>2
  <2>3. ASSUME NEW a \in onAir, NEW b \in B, a.ue = b.ue, a.id = b.id PROVE FALSE
    BY <1>3, <1>12, <2>3 DEF InSlot
  <2>4. CASE x \in old /\ y \in new
    <3>1. PICK a \in onAir : x.ue = a.ue /\ x.id = a.id
      BY <1>7, <2>4
    <3>2. PICK b \in B : y.ue = b.ue /\ y.id = b.id
      BY <1>9, <2>4
    <3> QED
      BY <1>15, <2>3, <3>1, <3>2
  <2>5. CASE x \in new /\ y \in old
    <3>1. PICK a \in onAir : y.ue = a.ue /\ y.id = a.id
      BY <1>7, <2>5
    <3>2. PICK b \in B : x.ue = b.ue /\ x.id = b.id
      BY <1>9, <2>5
    <3> QED
      BY <1>15, <2>3, <3>1, <3>2
  <2> QED
    BY <2>1, <2>2, <2>4, <2>5
<1>16. \A i \in 1 .. Len(<<>>) : FALSE
  OBVIOUS
<1>17. Apart(received)' /\ \A ue, id : ~Arrived(ue, id)'
  BY <1>5, <1>16 DEF Apart, Arrived, Has
<1>18. ASSUME NEW ue \in UEs, NEW id \in Ids
       PROVE  /\ ~ (OnAir(ue, id)' /\ Waits(ue, id)')
              /\ Active(harq', ue, id) <=> OnAir(ue, id)' \/ Waits(ue, id)'
  <2>1. OnAir(ue, id)' <=> OnAir(ue, id) \/ InSlot(data, ue, id)
    <3>1. ASSUME NEW a \in onAir, a.ue = ue, a.id = id PROVE OnAir(ue, id)'
      <4>1. PICK x \in old : x = [a EXCEPT !.age = @ + 1]
        BY <1>4
      <4>2. x.ue = ue /\ x.id = id
        <5>1. a \in Reports
          BY DEF DlTyped
        <5> QED
          BY <3>1, <4>1, <5>1 DEF Reports
      <4> QED
        BY <1>5, <4>1, <4>2 DEF OnAir
    <3>2. ASSUME NEW b \in B, b.ue = ue, b.id = id PROVE OnAir(ue, id)'
      <4>1. PICK x \in new : x = [ue |-> b.ue, id |-> b.id, age |-> 0, again |-> FALSE]
        BY <1>4
      <4>2. x.ue = ue /\ x.id = id
        BY <3>2, <4>1
      <4> QED
        BY <1>5, <4>1, <4>2 DEF OnAir
    <3>3. ASSUME NEW x \in old \union new, x.ue = ue, x.id = id
          PROVE  OnAir(ue, id) \/ InSlot(data, ue, id)
      BY <1>3, <1>7, <1>9, <3>3 DEF OnAir, InSlot
    <3> QED
      BY <1>3, <1>5, <3>1, <3>2, <3>3 DEF OnAir, InSlot
  <2>2. Waits(ue, id)' <=> <<ue, id>> \in retx.kept
    BY <1>5 DEF Waits
  <2>3. AfterSlot(fed, retx, data, ue, id)
    BY <1>6
  <2>4. CASE OnAir(ue, id)
    <3>1. Active(v, ue, id) /\ <<ue, id>> \notin retx.kept
      BY <1>12, <2>4 DEF OnAir
    <3> QED
      BY <1>5, <2>1, <2>2, <2>4, <3>1
  <2>5. CASE ~OnAir(ue, id)
    <3>1. <<ue, id>> \notin PairsOf(fed.nacks) => ~Active(fed.table, ue, id)
      BY <1>2, <2>5 DEF AfterFeedback
    <3> QED
      BY <1>3, <1>5, <2>1, <2>2, <2>3, <2>5, <3>1 DEF AfterSlot
  <2> QED
    BY <2>4, <2>5
<1> QED
  BY <1>5, <1>14, <1>15, <1>17, <1>18 DEF FollowedOnce

(* Feedback that comes in is followed up in another way.                    *)
LEMMA FeedbackKeepsFollowed ==
  ASSUME NEW report \in onAir, DlTyped, FollowedOnce, OnceInTime,
         DoDlHarqFeedback(report)
  PROVE  FollowedOnce'
<1>1. PICK ue \in UEs, id \in Ids : ue = report.ue /\ id = report.id
  BY DEF DlTyped, Reports
<1>2. PICK rs \in Seq(Feedbacks), n \in Nat : rs = received /\ n = Len(rs)
  <2>1. received \in Seq(Feedbacks) /\ Len(received) \in Nat
    BY LenProperties DEF DlTyped
  <2> QED
    BY <2>1
<1>3. PICK ok, f : ok \in BOOLEAN /\ f = [ue |-> ue, id |-> id, ok |-> ok] /\ received' = Append(rs, f)
  BY <1>1, <1>2 DEF DoDlHarqFeedback
<1>4. f \in Feedbacks /\ f.ue = ue /\ f.id = id
  BY <1>3 DEF Feedbacks
<1>5. PICK qs \in Seq(Feedbacks) :
        /\ qs = received' /\ Len(qs) = n + 1
        /\ (\A j \in 1 .. n : qs[j] = rs[j]) /\ qs[n + 1] = f
  <2>1. Append(rs, f) \in Seq(Feedbacks) /\ Len(Append(rs, f)) = n + 1
        /\ (\A j \in 1 .. n : Append(rs, f)[j] = rs[j]) /\ Append(rs, f)[n + 1] = f
    BY <1>2, <1>4, AppendProperties
  <2> QED
    BY <1>3, <2>1
<1>6. onAir' = onAir \ {report}
  <2>1. {a \in onAir : a.again} = {}
    BY DEF FollowedOnce
  <2>2. Cardinality({a \in onAir : a.again}) = 0
    BY <2>1, FS_EmptySet
  <2>3. ~ (Cardinality({a \in onAir : a.again}) < MaxDuplicates)
    BY <2>2 DEF OnceInTime
  <2> QED
    BY <2>3 DEF DoDlHarqFeedback
<1>7. harq' = harq /\ waiting' = waiting
  BY DEF DoDlHarqFeedback
<1>8. \A j \in 1 .. n + 1 : j = n + 1 \/ j \in 1 .. n
  OBVIOUS
<1>9. n + 1 \in 1 .. n + 1 /\ \A j \in 1 .. n : j \in 1 .. n + 1
  OBVIOUS
<1>10. ASSUME NEW v \in UEs, NEW i \in Ids
       PROVE  Arrived(v, i)' <=> Arrived(v, i) \/ (v = ue /\ i = id)
  <2>1. Arrived(v, i) <=> \E j \in 1 .. n : Of(rs[j], v, i)
    BY <1>2 DEF Arrived, Has
  <2>2. Arrived(v, i)' <=> \E j \in 1 .. n + 1 : Of(qs[j], v, i)
    BY <1>5 DEF Arrived, Has
  <2>3. Of(qs[n + 1], v, i) <=> v = ue /\ i = id
    BY <1>4, <1>5 DEF Of
  <2> QED
    BY <1>5, <1>8, <1>9, <2>1, <2>2, <2>3
<1>11. ASSUME NEW v, NEW i
       PROVE  OnAir(v, i)' <=> OnAir(v, i) /\ ~ (v = ue /\ i = id)
  BY <1>1, <1>6 DEF OnAir, FollowedOnce
<1>12. OnAir(ue, id)
  BY <1>1 DEF OnAir
<1>13. Apart(received')
  <2>1. Apart(rs)
    BY <1>2 DEF FollowedOnce
  <2>2. \A j \in 1 .. n : ~Of(rs[j], ue, id)
    BY <1>2, <1>12 DEF FollowedOnce, Arrived, Has
  <2>3. ASSUME NEW a \in 1 .. n + 1, NEW b \in 1 .. n + 1, a # b
        PROVE  ~Of(qs[a], qs[b].ue, qs[b].id)
    <3>1. CASE a = n + 1
      BY <1>4, <1>5, <1>8, <2>2, <2>3, <3>1 DEF Of
    <3>2. CASE b = n + 1
      BY <1>4, <1>5, <1>8, <2>2, <2>3, <3>2 DEF Of
    <3>3. CASE a \in 1 .. n /\ b \in 1 .. n
      BY <1>2, <1>5, <2>1, <2>3, <3>3 DEF Apart
    <3> QED
      BY <1>8, <3>1, <3>2, <3>3
  <2> QED
    BY <1>5, <2>3 DEF Apart
<1>14. ASSUME NEW v \in UEs, NEW i \in Ids
       PROVE  /\ ~ (OnAir(v, i)' /\ Arrived(v, i)')
              /\ ~ (OnAir(v, i)' /\ Waits(v, i)')
              /\ ~ (Arrived(v, i)' /\ Waits(v, i)')
              /\ Active(harq', v, i) <=> OnAir(v, i)' \/ Arrived(v, i)' \/ Waits(v, i)'
  <2>1. Waits(v, i)' <=> Waits(v, i)
    BY <1>7 DEF Waits
  <2> QED
    BY <1>7, <1>10, <1>11, <1>12, <2>1 DEF FollowedOnce
<1>15. \A a \in onAir' : ~a.again /\ InTime(harq', a)
  BY <1>6, <1>7 DEF FollowedOnce
<1>16. \A a, b \in onAir' : a.ue = b.ue /\ a.id = b.id => a = b
  BY <1>6 DEF FollowedOnce
<1> QED
  BY <1>13, <1>14, <1>15, <1>16 DEF FollowedOnce

(* Followed up once is what EachBlockIsFollowed counts.                     *)
LEMMA FollowedCounts ==
  ASSUME DlTyped, FollowedOnce
  PROVE  EachBlockIsFollowed
<1>1. ASSUME NEW ue \in UEs, NEW id \in Ids
      PROVE  Count(ue, id) = IF Active(harq, ue, id) THEN 1 ELSE 0
  <2>1. PICK A, R, B :
          /\ A = {a \in onAir : a.ue = ue /\ a.id = id}
          /\ R = {i \in 1 .. Len(received) : received[i].ue = ue /\ received[i].id = id}
          /\ B = {b \in waiting : b = <<ue, id>>}
    OBVIOUS
  <2>2. Cardinality({}) = 0 /\ \A x : Cardinality({x}) = 1
    BY FS_EmptySet, FS_Singleton
  <2>3. Cardinality(A) = IF OnAir(ue, id) THEN 1 ELSE 0
    <3>1. CASE OnAir(ue, id)
      <4>1. PICK a \in onAir : a.ue = ue /\ a.id = id
        BY <3>1 DEF OnAir
      <4>2. A = {a}
        BY <2>1, <4>1 DEF FollowedOnce
      <4> QED
        BY <2>2, <3>1, <4>2
    <3>2. CASE ~OnAir(ue, id)
      <4>1. A = {}
        BY <2>1, <3>2 DEF OnAir
      <4> QED
        BY <2>2, <3>2, <4>1
    <3> QED
      BY <3>1, <3>2
  <2>4. Cardinality(R) = IF Arrived(ue, id) THEN 1 ELSE 0
    <3>1. CASE Arrived(ue, id)
      <4>1. PICK i \in 1 .. Len(received) : Of(received[i], ue, id)
        BY <3>1 DEF Arrived, Has
      <4>2. R = {i}
        BY <2>1, <4>1 DEF FollowedOnce, Apart, Of
      <4> QED
        BY <2>2, <3>1, <4>2
    <3>2. CASE ~Arrived(ue, id)
      <4>1. R = {}
        BY <2>1, <3>2 DEF Arrived, Has, Of
      <4> QED
        BY <2>2, <3>2, <4>1
    <3> QED
      BY <3>1, <3>2
  <2>5. Cardinality(B) = IF Waits(ue, id) THEN 1 ELSE 0
    <3>1. CASE Waits(ue, id)
      <4>1. B = {<<ue, id>>}
        BY <2>1, <3>1 DEF Waits
      <4> QED
        BY <2>2, <3>1, <4>1
    <3>2. CASE ~Waits(ue, id)
      <4>1. B = {}
        BY <2>1, <3>2 DEF Waits
      <4> QED
        BY <2>2, <3>2, <4>1
    <3> QED
      BY <3>1, <3>2
  <2>6. Count(ue, id) = Cardinality(A) + Cardinality(R) + Cardinality(B)
    BY <2>1 DEF Count
  <2>7. CASE OnAir(ue, id)
    BY <2>3, <2>4, <2>5, <2>6, <2>7 DEF FollowedOnce
  <2>8. CASE ~OnAir(ue, id)
    BY <2>3, <2>4, <2>5, <2>6, <2>8 DEF FollowedOnce
  <2> QED
    BY <2>7, <2>8
<1> QED
  BY <1>1 DEF EachBlockIsFollowed

(* Whatever the beams, symbols and bandwidth are: when feedback comes once  *)
(* and before the timer of its process runs out, every active process is    *)
(* followed up exactly once and nothing refers to a free one.               *)
THEOREM DlEachBlockIsFollowed ==
  ASSUME OnceInTime
  PROVE  Spec => []EachBlockIsFollowed
<1>1. Init => FollowedOnce
  <2>1. SUFFICES ASSUME Init PROVE FollowedOnce
    OBVIOUS
  <2>2. onAir = {} /\ waiting = {} /\ received = <<>> /\ harq = EmptyTable
    BY <2>1 DEF Init
  <2>3. \A i \in 1 .. Len(<<>>) : FALSE
    OBVIOUS
  <2>4. Apart(received) /\ \A ue, id : ~Arrived(ue, id)
    BY <2>2, <2>3 DEF Apart, Arrived, Has
  <2>5. \A ue, id : ~OnAir(ue, id) /\ ~Waits(ue, id)
    BY <2>2 DEF OnAir, Waits
  <2>6. \A ue \in UEs, id \in Ids : ~Active(harq, ue, id)
    BY <2>2 DEF EmptyTable, Active, Erased
  <2> QED
    BY <2>2, <2>4, <2>5, <2>6 DEF FollowedOnce
<1>2. DlTyped /\ FollowedOnce /\ [Next]_vars => FollowedOnce'
  <2>1. SUFFICES ASSUME DlTyped, FollowedOnce, [Next]_vars PROVE FollowedOnce'
    OBVIOUS
  <2>2. CASE UNCHANGED vars
    BY <2>1, <2>2 DEF FollowedOnce, OnAir, Arrived, Has, Waits, vars
  <2>3. ASSUME NEW report \in onAir, DoDlHarqFeedback(report) PROVE FollowedOnce'
    BY <2>1, <2>3, FeedbackKeepsFollowed
  <2>4. ASSUME NEW avail \in Symbols, DoSchedDlTriggerReq(avail) PROVE FollowedOnce'
    BY <2>1, <2>4, SlotKeepsFollowed
  <2> QED
    BY <2>1, <2>2, <2>3, <2>4 DEF Next
<1>3. DlTyped /\ FollowedOnce => EachBlockIsFollowed
  BY FollowedCounts
<1> QED
  BY <1>1, <1>2, <1>3, TypedAlways, PTL DEF Spec

-----------------------------------------------------------------------------
(* Uplink: when the PHY reports on a block before the timer of its process *)
(* runs out, no assertion of the scheduler fails and no feedback is taken  *)
(* for that of another block.                                              *)

-----------------------------------------------------------------------------
(* The feedback of a slot put together. *)

(* fs has, of the first i elements of all, those of active processes.       *)
UlMergedTo(t, all, i, fs) ==
  /\ fs \in Seq(Feedbacks)
  /\ Apart(fs) /\ AllActive(t, fs)
  /\ \A j \in 1 .. Len(fs) : \E k \in 1 .. i : fs[j] = all[k]

(* One more element is dropped, or joins the ones that are there.           *)
LEMMA UlMergeStep ==
  ASSUME NEW t, NEW all \in Seq(Feedbacks), Apart(all), NEW i \in 1 .. Len(all), NEW fs,
         UlMergedTo(t, all, i - 1, fs)
  PROVE  UlMergedTo(t, all, i, MergeUlOne(t, fs, all[i]))
<1>0. PICK n \in Nat : n = Len(all) /\ i \in 1 .. n
  BY LenProperties
<1>1. fs \in Seq(Feedbacks)
  BY DEF UlMergedTo
<1>2. PICK l \in Nat : l = Len(fs)
  BY <1>1, LenProperties
<1>3. PICK f \in Feedbacks : f = all[i]
  BY ElementOfSeq
<1>4. i \in 1 .. i /\ \A k \in 1 .. i - 1 : k \in 1 .. i /\ k # i /\ k \in 1 .. n
  BY <1>0
<1>5. ASSUME NEW j \in 1 .. l PROVE \E k \in 1 .. i - 1 : fs[j] = all[k]
  BY <1>2 DEF UlMergedTo
<1>6. CASE ~Active(t, f.ue, f.id)
  <2>1. MergeUlOne(t, fs, f) = fs
    BY <1>6 DEF MergeUlOne
  <2>2. \A j \in 1 .. l : \E k \in 1 .. i : fs[j] = all[k]
    BY <1>4, <1>5
  <2>3. UlMergedTo(t, all, i, fs)
    BY <1>2, <2>2 DEF UlMergedTo
  <2> QED
    BY <1>3, <2>1, <2>3
<1>7. CASE Active(t, f.ue, f.id)
  <2>1. PICK gs \in Seq(Feedbacks) : gs = Append(fs, f)
    BY <1>1, AppendProperties
  <2>2. Len(gs) = l + 1 /\ (\A j \in 1 .. l : gs[j] = fs[j]) /\ gs[l + 1] = f
    BY <1>1, <1>2, <2>1, AppendProperties
  <2>3. \A j \in 1 .. l + 1 : j = l + 1 \/ j \in 1 .. l
    OBVIOUS
  <2>4. ASSUME NEW j \in 1 .. l PROVE ~Of(fs[j], f.ue, f.id) /\ ~Of(f, fs[j].ue, fs[j].id)
    <3>1. PICK k \in 1 .. i - 1 : fs[j] = all[k]
      BY <1>5
    <3>2. k \in 1 .. n /\ k # i
      BY <1>4
    <3> QED
      BY <1>0, <1>3, <3>1, <3>2 DEF Apart
  <2>5. Apart(gs)
    <3>1. ASSUME NEW a \in 1 .. l + 1, NEW b \in 1 .. l + 1, a # b
          PROVE  ~Of(gs[a], gs[b].ue, gs[b].id)
      <4>1. CASE a = l + 1
        BY <2>2, <2>3, <2>4, <3>1, <4>1
      <4>2. CASE b = l + 1
        BY <2>2, <2>3, <2>4, <3>1, <4>2
      <4>3. CASE a \in 1 .. l /\ b \in 1 .. l
        BY <1>2, <2>2, <3>1, <4>3 DEF UlMergedTo, Apart
      <4> QED
        BY <2>3, <4>1, <4>2, <4>3
    <3> QED
      BY <2>2, <3>1 DEF Apart
  <2>6. AllActive(t, gs)
    <3>1. \A j \in 1 .. l : Active(t, fs[j].ue, fs[j].id)
      BY <1>2 DEF UlMergedTo, AllActive
    <3> QED
      BY <1>7, <2>2, <2>3, <3>1 DEF AllActive
  <2>7. ASSUME NEW j \in 1 .. l + 1 PROVE \E k \in 1 .. i : gs[j] = all[k]
    <3>1. CASE j = l + 1
      BY <1>3, <1>4, <2>2, <3>1
    <3>2. CASE j \in 1 .. l
      BY <1>4, <1>5, <2>2, <3>2
    <3> QED
      BY <2>3, <3>1, <3>2
  <2>8. UlMergedTo(t, all, i, gs)
    BY <2>2, <2>5, <2>6, <2>7 DEF UlMergedTo
  <2>9. MergeUlOne(t, fs, f) = gs
    BY <1>7, <2>1 DEF MergeUlOne
  <2> QED
    BY <1>3, <2>8, <2>9
<1> QED
  BY <1>6, <1>7

(* The loop of MergeHARQ over a list.                                       *)
UlMerged(t, all) == InTurn(LAMBDA fs, f : MergeUlOne(t, fs, f), <<>>, all)

(* The whole feedback of a slot.                                            *)
LEMMA UlMergeAll ==
  ASSUME NEW t, NEW all \in Seq(Feedbacks), Apart(all)
  PROVE  UlMergedTo(t, all, Len(all), UlMerged(t, all))
<1> DEFINE V == Seq(Feedbacks)
           n == Len(all)
           s == <<>>
           F == [i \in 1 .. n |-> [fs \in V |-> MergeUlOne(t, fs, all[i])]]
           W == [i \in 0 .. n |-> {fs \in V : UlMergedTo(t, all, i, fs)}]
           Solves(h) == [i \in 0 .. Len(all) |->
                           IF i = 0 THEN s ELSE MergeUlOne(t, h[i - 1], all[i])]
<1>0. n \in Nat
  BY LenProperties
<1>1. ASSUME NEW i, NEW fs, UlMergedTo(t, all, i, fs) PROVE fs \in V
  BY <1>1 DEF UlMergedTo
<1>2. UlMergedTo(t, all, 0, s)
  <2>1. <<>> \in Seq(Feedbacks) /\ Len(<<>>) = 0
    BY EmptySeq
  <2>2. \A k \in 1 .. 0 : FALSE
    OBVIOUS
  <2> QED
    BY <2>1, <2>2 DEF UlMergedTo, Apart, AllActive
<1>3. ASSUME NEW i \in 1 .. n, NEW fs, UlMergedTo(t, all, i - 1, fs)
      PROVE  UlMergedTo(t, all, i, MergeUlOne(t, fs, all[i]))
  BY <1>3, UlMergeStep
<1>4. \A i \in 0 .. n : W[i] = {fs \in V : UlMergedTo(t, all, i, fs)}
  OBVIOUS
<1>5. \A i \in 1 .. n : \A fs \in V : F[i][fs] = MergeUlOne(t, fs, all[i])
  OBVIOUS
<1>6. s \in V
  BY <1>1, <1>2
<1> HIDE DEF F, W, V, s, n
<1>7. \A i \in 1 .. n : i \in 0 .. n /\ i - 1 \in 0 .. n
  BY <1>0
<1>8. Reaches(n, V, s, F, W)
  <2>1. s \in W[0]
    BY <1>0, <1>2, <1>4, <1>6
  <2>2. ASSUME NEW i \in 1 .. n, NEW fs \in W[i - 1] PROVE F[i][fs] \in W[i]
    <3>1. fs \in V /\ UlMergedTo(t, all, i - 1, fs)
      BY <1>4, <1>7
    <3>2. UlMergedTo(t, all, i, MergeUlOne(t, fs, all[i]))
      BY <1>3, <3>1
    <3> QED
      BY <1>1, <1>4, <1>5, <1>7, <3>1, <3>2
  <2> QED
    BY <1>4, <2>1, <2>2 DEF Reaches
<1>9. PICK g : IsRecursion(g, n, s, F) /\ \A i \in 0 .. n : g[i] \in V
  BY <1>0, <1>8, Turns
<1>10. g = Solves(g)
  <2>1. \A i \in 0 .. n : i # 0 => F[i][g[i - 1]] = MergeUlOne(t, g[i - 1], all[i])
    BY <1>0, <1>5, <1>7, <1>9
  <2>2. g = [i \in 0 .. n |-> IF i = 0 THEN s ELSE F[i][g[i - 1]]]
    BY <1>9 DEF IsRecursion
  <2> QED
    BY <2>1, <2>2 DEF n
<1>11. UlMerged(t, all) = (CHOOSE h : h = Solves(h))[Len(all)]
  BY DEF UlMerged, InTurn, s
<1>12. PICK h : h = (CHOOSE e : e = Solves(e)) /\ h = Solves(h)
  <2> HIDE DEF Solves
  <2> QED
    BY <1>10
<1>13. h[0] = s /\ \A i \in 1 .. n : h[i] = MergeUlOne(t, h[i - 1], all[i])
  <2>1. h = [i \in 0 .. n |-> IF i = 0 THEN s ELSE MergeUlOne(t, h[i - 1], all[i])]
    BY <1>12 DEF n
  <2>2. 0 \in 0 .. n /\ \A i \in 1 .. n : i \in 0 .. n /\ i # 0
    BY <1>0
  <2> QED
    BY ONLY <2>1, <2>2
<1>14. h[0] \in W[0] /\ \A i \in 1 .. n : h[i - 1] \in W[i - 1] => h[i] \in W[i]
  BY <1>0, <1>1, <1>2, <1>3, <1>4, <1>6, <1>7, <1>13
<1>15. \A i \in 0 .. n : h[i] \in W[i]
  BY <1>0, <1>14, Stays
<1>16. UlMergedTo(t, all, n, h[n])
  BY <1>0, <1>4, <1>15
<1> QED
  BY <1>11, <1>12, <1>16 DEF n

(* What was kept and what came are apart when each is, and from each other. *)
LEMMA ApartConcat ==
  ASSUME NEW ks \in Seq(Feedbacks), NEW rs \in Seq(Feedbacks), Apart(ks), Apart(rs),
         \A i \in 1 .. Len(ks), j \in 1 .. Len(rs) : ~Of(ks[i], rs[j].ue, rs[j].id)
  PROVE  Apart(ks \o rs)
<1>1. PICK l \in Nat, n \in Nat : l = Len(ks) /\ n = Len(rs)
  BY LenProperties
<1>2. PICK all : all = ks \o rs
  OBVIOUS
<1>3. Len(all) = l + n /\ \A i \in 1 .. l + n : all[i] = IF i <= l THEN ks[i] ELSE rs[i - l]
  BY <1>1, <1>2, ConcatProperties
<1>4. \A i \in 1 .. l + n : \/ i \in 1 .. l /\ all[i] = ks[i]
                            \/ i - l \in 1 .. n /\ all[i] = rs[i - l]
  BY <1>3
<1>5. ASSUME NEW a \in 1 .. l + n, NEW b \in 1 .. l + n, a # b
      PROVE  ~Of(all[a], all[b].ue, all[b].id)
  <2>1. CASE a \in 1 .. l /\ all[a] = ks[a] /\ b \in 1 .. l /\ all[b] = ks[b]
    BY <1>1, <1>5, <2>1 DEF Apart
  <2>2. CASE a - l \in 1 .. n /\ all[a] = rs[a - l] /\ b - l \in 1 .. n /\ all[b] = rs[b - l]
    <3>1. a - l # b - l
      BY <1>5
    <3> QED
      BY <1>1, <2>2, <3>1 DEF Apart
  <2>3. CASE a \in 1 .. l /\ all[a] = ks[a] /\ b - l \in 1 .. n /\ all[b] = rs[b - l]
    BY <1>1, <2>3
  <2>4. CASE a - l \in 1 .. n /\ all[a] = rs[a - l] /\ b \in 1 .. l /\ all[b] = ks[b]
    <3>1. ~Of(all[b], all[a].ue, all[a].id)
      BY <1>1, <2>4
    <3> QED
      BY <3>1 DEF Of
  <2> QED
    BY <1>4, <2>1, <2>2, <2>3, <2>4
<1> QED
  BY <1>2, <1>3, <1>5 DEF Apart


-----------------------------------------------------------------------------
(* Retransmissions. *)

(* The process p of f is NACKed, in the table u of acc.                     *)
UlTakes(m, acc, f, u, avail, sent, kept, p) ==
  /\ acc = [table |-> u, avail |-> avail, sent |-> sent, kept |-> kept]
  /\ Good(u, m) /\ f \in Feedbacks
  /\ p = u.procs[f.ue][f.id] /\ p.status = "RECEIVED_FEEDBACK" /\ p.rv < LastRv

(* The process of f taken up, as the code does for every block.             *)
UlUpped(acc, f) ==
  LET p == acc.table.procs[f.ue][f.id]
  IN  [acc EXCEPT !.table.procs[f.ue][f.id] = TakenUp(p),
                  !.table.failed = @ \/ p.status # "RECEIVED_FEEDBACK"]

UlIsUpped(m, acc, f, u, avail, sent, kept, p, v) ==
  /\ Good(v, m) /\ Changed(u, v, f.ue, f.id, TakenUp(p))
  /\ UlUpped(acc, f) = [table |-> v, avail |-> avail, sent |-> sent, kept |-> kept]

(* Taking a process up fails nothing and changes the table only.            *)
LEMMA UlUppedIs ==
  ASSUME NEW m \in Nat, NEW acc, NEW f, NEW u, NEW avail, NEW sent, NEW kept, NEW p,
         UlTakes(m, acc, f, u, avail, sent, kept, p)
  PROVE  UlIsUpped(m, acc, f, u, avail, sent, kept, p,
                   [u EXCEPT !.procs[f.ue][f.id] = TakenUp(p)])
<1> DEFINE v == [u EXCEPT !.procs[f.ue][f.id] = TakenUp(p)]
<1> HIDE DEF v
<1>0. /\ acc = [table |-> u, avail |-> avail, sent |-> sent, kept |-> kept]
      /\ Good(u, m) /\ f \in Feedbacks
      /\ p = u.procs[f.ue][f.id] /\ p.status = "RECEIVED_FEEDBACK"
  BY DEF UlTakes
<1>1. PICK ue \in UEs, id \in Ids : ue = f.ue /\ id = f.id
  BY <1>0 DEF Feedbacks
<1>2. GoodProcess(p, m) /\ Active(u, ue, id) /\ p.status # "INACTIVE"
  BY <1>0, <1>1 DEF Good, AllGood, Active
<1>3. PICK q : q = TakenUp(p)
  OBVIOUS
<1>4. GoodProcess(q, m) /\ q.status # "INACTIVE"
  BY <1>2, <1>3, TakenUpGood, Zenon
<1>5. v = [u EXCEPT !.procs[ue][id] = q]
  BY <1>1, <1>3, Zenon DEF v
<1>6. Good(v, m) /\ Changed(u, v, ue, id, q)
  <2>1. /\ Good([u EXCEPT !.procs[ue][id] = q], m)
        /\ Changed(u, [u EXCEPT !.procs[ue][id] = q], ue, id, q)
    BY ONLY <1>0, <1>2, <1>4, MarkGood, ue \in UEs, id \in Ids, m \in Nat
  <2> QED
    BY <1>5, <2>1, Zenon
<1>7. u.failed = FALSE /\ v.failed = FALSE
  BY <1>0, <1>6, Zenon DEF Good, Tables
<1>8. (u.failed \/ p.status # "RECEIVED_FEEDBACK") = FALSE
  BY <1>0, <1>7
<1>9. [v EXCEPT !.failed = FALSE] = v
  BY <1>6, <1>7 DEF Good, Tables
<1>10. UlUpped(acc, f) = [acc EXCEPT !.table.procs[ue][id] = q, !.table.failed = FALSE]
  <2>1. acc.table = u
    BY <1>0
  <2> QED
    BY <1>0, <1>1, <1>3, <1>7, <1>8, <2>1, Zenon DEF UlUpped
<1>11. [acc EXCEPT !.table.procs[ue][id] = q, !.table.failed = FALSE]
         = [acc EXCEPT !.table = [v EXCEPT !.failed = FALSE]]
  BY ONLY <1>0, <1>5
<1>12. [acc EXCEPT !.table = v] = [table |-> v, avail |-> avail, sent |-> sent, kept |-> kept]
  BY ONLY <1>0
<1> QED
  BY <1>1, <1>3, <1>6, <1>9, <1>10, <1>11, <1>12, Zenon DEF UlIsUpped, v

(* A block that is kept.                                                    *)
LEMMA UlKept ==
  ASSUME NEW m \in Nat, NEW acc, NEW f, NEW u, NEW avail, NEW sent, NEW kept, NEW p,
         UlTakes(m, acc, f, u, avail, sent, kept, p), avail # 0, ~ (avail >= p.sym)
  PROVE  \E v, q : /\ Good(v, m) /\ Changed(u, v, f.ue, f.id, q)
                   /\ q.status = "WAITING_FEEDBACK"
                   /\ RetxUlOne(acc, f) =
                        [table |-> v, avail |-> avail, sent |-> sent, kept |-> Append(kept, f)]
<1>1. PICK v : v = [u EXCEPT !.procs[f.ue][f.id] = TakenUp(p)]
  OBVIOUS
<1>2. /\ Good(v, m) /\ Changed(u, v, f.ue, f.id, TakenUp(p))
      /\ UlUpped(acc, f) = [table |-> v, avail |-> avail, sent |-> sent, kept |-> kept]
  <2>1. UlIsUpped(m, acc, f, u, avail, sent, kept, p, v)
    BY <1>1, UlUppedIs, Zenon
  <2> QED
    BY <2>1, Zenon DEF UlIsUpped
<1>3. acc.table = u /\ acc.avail = avail /\ p = acc.table.procs[f.ue][f.id]
      /\ p.status = "RECEIVED_FEEDBACK" /\ f \in Feedbacks
  BY DEF UlTakes
<1>4. TakenUp(p).status = "WAITING_FEEDBACK"
  <2>1. GoodProcess(p, m) /\ p.status # "INACTIVE"
    BY <1>3 DEF UlTakes, Good, AllGood, Feedbacks
  <2> QED
    BY <2>1, TakenUpGood
<1>5. RetxUlOne(acc, f) = [UlUpped(acc, f) EXCEPT !.kept = Append(@, f)]
  BY <1>3, Zenon DEF RetxUlOne, UlUpped
<1>6. PICK up : up = UlUpped(acc, f)
  OBVIOUS
<1>7. [up EXCEPT !.kept = Append(@, f)]
        = [table |-> v, avail |-> avail, sent |-> sent, kept |-> Append(kept, f)]
  BY ONLY <1>2, <1>6
<1> QED
  BY <1>2, <1>4, <1>5, <1>6, <1>7, Zenon

(* The process of a block that is sent again, in the next version, is as    *)
(* good as it was.                                                          *)
LEMMA UlResentGood ==
  ASSUME NEW m \in Nat, NEW p, GoodProcess(p, m), p.status # "INACTIVE", p.rv < LastRv,
         NEW r, r = [TakenUp(p) EXCEPT !.rv = @ + 1]
  PROVE  GoodProcess(r, m) /\ r.status = "WAITING_FEEDBACK" /\ r.timer = 0
<1>1. PICK q : q = TakenUp(p)
  OBVIOUS
<1>2. GoodProcess(q, m) /\ q.status = "WAITING_FEEDBACK" /\ q.timer = 0 /\ q.rv = p.rv
  BY <1>1, TakenUpGood
<1>3. q \in Processes /\ q.rv + 1 \in Nat
  BY <1>2 DEF GoodProcess, Processes
<1>4. r = [q EXCEPT !.rv = q.rv + 1]
  BY <1>1
<1>5. /\ r \in Processes /\ r.status = "WAITING_FEEDBACK" /\ r.timer = 0
      /\ r.sym = q.sym /\ r.rbg = q.rbg /\ r.rv = q.rv + 1
  BY <1>2, <1>3, <1>4 DEF Processes
<1>6. q.rv + 1 <= LastRv
  <2>1. p.rv \in Nat
    BY <1>2, <1>3 DEF Processes
  <2> QED
    BY <1>2, <2>1 DEF LastRv
<1>7. 0 <= NumHarqProcess
  BY NumberOfProcesses
<1>8. GoodProcess(r, m)
  BY <1>2, <1>5, <1>6, <1>7 DEF GoodProcess
<1> QED
  BY <1>5, <1>8

(* A block that is sent again.                                              *)
LEMMA UlResent ==
  ASSUME NEW m \in Nat, NEW acc, NEW f, NEW u, NEW avail, NEW sent, NEW kept, NEW p,
         UlTakes(m, acc, f, u, avail, sent, kept, p), avail # 0, avail >= p.sym
  PROVE  \E v, q : /\ Good(v, m) /\ Changed(u, v, f.ue, f.id, q)
                   /\ q.status = "WAITING_FEEDBACK" /\ q.timer = 0
                   /\ RetxUlOne(acc, f) =
                        [table |-> v, avail |-> avail - p.sym,
                         sent |-> sent \union {<<f.ue, f.id>>}, kept |-> kept]
<1>1. PICK v : v = [u EXCEPT !.procs[f.ue][f.id] = TakenUp(p)]
  OBVIOUS
<1>2. /\ Good(v, m) /\ Changed(u, v, f.ue, f.id, TakenUp(p))
      /\ UlUpped(acc, f) = [table |-> v, avail |-> avail, sent |-> sent, kept |-> kept]
  <2>1. UlIsUpped(m, acc, f, u, avail, sent, kept, p, v)
    BY <1>1, UlUppedIs, Zenon
  <2> QED
    BY <2>1, Zenon DEF UlIsUpped
<1>3. acc.table = u /\ acc.avail = avail /\ p = acc.table.procs[f.ue][f.id]
      /\ p.status = "RECEIVED_FEEDBACK" /\ p.rv < LastRv /\ f \in Feedbacks /\ Good(u, m)
  BY DEF UlTakes
<1>4. PICK ue \in UEs, id \in Ids : ue = f.ue /\ id = f.id
  BY <1>3 DEF Feedbacks
<1>5. GoodProcess(p, m) /\ p.status # "INACTIVE"
  BY <1>3, <1>4 DEF Good, AllGood
<1>6. PICK r : r = [TakenUp(p) EXCEPT !.rv = @ + 1]
  OBVIOUS
<1>7. GoodProcess(r, m) /\ r.status = "WAITING_FEEDBACK" /\ r.timer = 0
  BY <1>3, <1>5, <1>6, UlResentGood
<1>8. v.procs[ue][id] = TakenUp(p) /\ Active(v, ue, id)
  <2>1. v.procs[ue][id] = TakenUp(p)
    BY <1>2, <1>4 DEF Changed
  <2>2. TakenUp(p).status = "WAITING_FEEDBACK"
    BY <1>5, TakenUpGood
  <2> QED
    BY <2>1, <2>2 DEF Active
<1>9. PICK x : x = [v EXCEPT !.procs[ue][id] = r]
  OBVIOUS
<1>10. Good(x, m) /\ Changed(v, x, ue, id, r)
  <2>1. r.status # "INACTIVE"
    BY <1>7
  <2> QED
    BY <1>2, <1>7, <1>8, <1>9, <2>1, MarkGood
<1>11. Changed(u, x, f.ue, f.id, r)
  BY <1>2, <1>4, <1>10 DEF Changed
<1>12. PICK up : up = UlUpped(acc, f)
  OBVIOUS
<1>13. RetxUlOne(acc, f) =
         [up EXCEPT !.table.procs[f.ue][f.id].rv = @ + 1, !.avail = @ - p.sym,
                    !.sent = @ \union {<<f.ue, f.id>>}]
  BY <1>3, <1>12, Zenon DEF RetxUlOne, UlUpped
<1>14. up = [table |-> v, avail |-> avail, sent |-> sent, kept |-> kept]
  BY <1>2, <1>12
<1>15. [up EXCEPT !.table.procs[ue][id].rv = @ + 1] = [up EXCEPT !.table = x]
  <2>1. [v EXCEPT !.procs[ue][id].rv = @ + 1] = x
    BY ONLY <1>6, <1>8, <1>9
  <2>2. [up EXCEPT !.table.procs[ue][id].rv = @ + 1]
          = [up EXCEPT !.table = [v EXCEPT !.procs[ue][id].rv = @ + 1]]
    BY ONLY <1>14
  <2> QED
    BY ONLY <2>1, <2>2
<1>16. PICK w : w = [up EXCEPT !.table = x]
  OBVIOUS
<1>17. w = [table |-> x, avail |-> avail, sent |-> sent, kept |-> kept]
  BY ONLY <1>14, <1>16, Zenon
<1>18. RetxUlOne(acc, f) =
         [w EXCEPT !.avail = @ - p.sym, !.sent = @ \union {<<f.ue, f.id>>}]
  BY ONLY <1>4, <1>13, <1>15, <1>16, Zenon
<1>19. RetxUlOne(acc, f) =
         [table |-> x, avail |-> avail - p.sym,
          sent |-> sent \union {<<f.ue, f.id>>}, kept |-> kept]
  BY ONLY <1>17, <1>18
<1> QED
  BY <1>7, <1>10, <1>11, <1>19


(* The first i NACKs of ns had their turn: blocks that are sent again, in   *)
(* the symbols there are, and NACKs that are kept are about different       *)
(* processes, all of them among the first i; no other process changed.      *)
UlRetxTo(m, t, ns, room, i, acc) ==
  /\ acc = [table |-> acc.table, avail |-> acc.avail, sent |-> acc.sent, kept |-> acc.kept]
  /\ Good(acc.table, m) /\ acc.avail \in 0 .. room
  /\ acc.sent \in SUBSET Pairs /\ acc.kept \in Seq(Feedbacks)
  /\ Apart(acc.kept)
  /\ \A ue \in UEs, id \in Ids :
       /\ Active(acc.table, ue, id) <=> Active(t, ue, id)
       /\ (\A k \in 1 .. i : ~Of(ns[k], ue, id)) => acc.table.procs[ue][id] = t.procs[ue][id]
  /\ \A b \in acc.sent :
       /\ acc.table.procs[b[1]][b[2]].timer = 0
       /\ \E k \in 1 .. i : Of(ns[k], b[1], b[2])
  /\ \A j \in 1 .. Len(acc.kept) :
       /\ <<acc.kept[j].ue, acc.kept[j].id>> \notin acc.sent
       /\ \E k \in 1 .. i : acc.kept[j] = ns[k]

(* The turn of one NACK more.                                               *)
LEMMA UlRetxStep ==
  ASSUME NEW m \in Nat, NEW t, NEW ns \in Seq(Feedbacks), NEW room \in Nat,
         NEW i \in 1 .. Len(ns), NEW acc,
         Apart(ns), MarkedAll(t, ns), UlRetxTo(m, t, ns, room, i - 1, acc)
  PROVE  UlRetxTo(m, t, ns, room, i, RetxUlOne(acc, ns[i]))
<1>0. PICK n \in Nat : n = Len(ns) /\ i \in 1 .. n
  BY LenProperties
<1>1. PICK u, avail, sent, kept : u = acc.table /\ avail = acc.avail /\ sent = acc.sent /\ kept = acc.kept
  OBVIOUS
<1>2. /\ acc = [table |-> u, avail |-> avail, sent |-> sent, kept |-> kept]
      /\ Good(u, m) /\ avail \in 0 .. room /\ sent \in SUBSET Pairs /\ kept \in Seq(Feedbacks)
      /\ Apart(kept)
  BY <1>1 DEF UlRetxTo
<1>3. PICK l \in Nat : l = Len(kept)
  BY <1>2, LenProperties
<1>4. PICK f \in Feedbacks : f = ns[i]
  BY ElementOfSeq
<1>5. PICK ue \in UEs, id \in Ids : ue = f.ue /\ id = f.id
  BY DEF Feedbacks
<1>6. i \in 1 .. i /\ (\A k \in 1 .. i - 1 : k \in 1 .. i /\ k \in 1 .. n /\ k # i)
      /\ \A k \in 1 .. i : k = i \/ k \in 1 .. i - 1
  BY <1>0
<1>7. \A k \in 1 .. i - 1 : ~Of(ns[k], ue, id)
  BY <1>0, <1>4, <1>5, <1>6 DEF Apart
<1>8. ASSUME NEW a \in UEs, NEW d \in Ids
      PROVE  /\ Active(u, a, d) <=> Active(t, a, d)
             /\ (\A k \in 1 .. i - 1 : ~Of(ns[k], a, d)) => u.procs[a][d] = t.procs[a][d]
  BY <1>1 DEF UlRetxTo
<1>9. ASSUME NEW b \in sent
      PROVE  /\ u.procs[b[1]][b[2]].timer = 0
             /\ \E k \in 1 .. i - 1 : Of(ns[k], b[1], b[2])
  BY <1>1 DEF UlRetxTo
<1>10. ASSUME NEW j \in 1 .. l
       PROVE  /\ <<kept[j].ue, kept[j].id>> \notin sent
              /\ \E k \in 1 .. i - 1 : kept[j] = ns[k]
  BY <1>1, <1>3 DEF UlRetxTo
<1>11. <<ue, id>> \notin sent
  <2>1. SUFFICES ASSUME NEW b \in sent, b[1] = ue, b[2] = id PROVE FALSE
    BY Zenon
  <2> QED
    BY <1>7, <1>9, <2>1
<1>12. PICK p : p = u.procs[ue][id]
  BY Zenon
<1>13. p.status = "RECEIVED_FEEDBACK" /\ p.rv < LastRv
  <2>1. u.procs[ue][id] = t.procs[ue][id]
    BY <1>7, <1>8
  <2> QED
    BY <1>0, <1>4, <1>5, <1>12, <2>1 DEF MarkedAll
<1>14. UlTakes(m, acc, f, u, avail, sent, kept, p)
  BY <1>2, <1>5, <1>12, <1>13 DEF UlTakes
<1>15. p.sym \in Nat /\ Active(u, ue, id)
  BY <1>2, <1>12, <1>13 DEF Good, AllGood, GoodProcess, Processes, Active
<1>16. ASSUME NEW v, NEW q, Changed(u, v, ue, id, q), q.status = "WAITING_FEEDBACK"
       PROVE  \A a \in UEs, d \in Ids :
                /\ Active(v, a, d) <=> Active(t, a, d)
                /\ (\A k \in 1 .. i : ~Of(ns[k], a, d)) => v.procs[a][d] = t.procs[a][d]
  <2>1. SUFFICES ASSUME NEW a \in UEs, NEW d \in Ids
                 PROVE  /\ Active(v, a, d) <=> Active(t, a, d)
                        /\ (\A k \in 1 .. i : ~Of(ns[k], a, d)) => v.procs[a][d] = t.procs[a][d]
    OBVIOUS
  <2>2. CASE a = ue /\ d = id
    <3>1. Active(v, a, d)
      BY <1>16, <2>2 DEF Changed, Active
    <3>2. Of(ns[i], a, d)
      BY <1>4, <1>5, <2>2 DEF Of
    <3> QED
      BY <1>6, <1>8, <1>15, <2>2, <3>1, <3>2
  <2>3. CASE ~ (a = ue /\ d = id)
    <3>1. v.procs[a][d] = u.procs[a][d]
      BY <1>16, <2>3 DEF Changed
    <3> QED
      BY <1>6, <1>8, <3>1 DEF Active
  <2> QED
    BY <2>2, <2>3
<1>17. ASSUME NEW v, NEW q, Changed(u, v, ue, id, q), NEW b \in sent
       PROVE  /\ v.procs[b[1]][b[2]].timer = 0
              /\ \E k \in 1 .. i : Of(ns[k], b[1], b[2])
  <2>1. b[1] \in UEs /\ b[2] \in Ids
    BY <1>2 DEF Pairs
  <2>2. ~ (b[1] = ue /\ b[2] = id)
    BY <1>7, <1>9
  <2>3. v.procs[b[1]][b[2]] = u.procs[b[1]][b[2]]
    BY <1>17, <2>1, <2>2 DEF Changed
  <2> QED
    BY <1>6, <1>9, <2>3
<1>20. CASE avail = 0
  <2>1. RetxUlOne(acc, f) = acc
    BY <1>2, <1>20 DEF RetxUlOne
  <2>2. \A a \in UEs, d \in Ids :
          /\ Active(u, a, d) <=> Active(t, a, d)
          /\ (\A k \in 1 .. i : ~Of(ns[k], a, d)) => u.procs[a][d] = t.procs[a][d]
    BY <1>6, <1>8
  <2>3. \A b \in sent : /\ u.procs[b[1]][b[2]].timer = 0
                        /\ \E k \in 1 .. i : Of(ns[k], b[1], b[2])
    BY <1>6, <1>9
  <2>4. \A j \in 1 .. l : /\ <<kept[j].ue, kept[j].id>> \notin sent
                          /\ \E k \in 1 .. i : kept[j] = ns[k]
    BY <1>6, <1>10
  <2>5. UlRetxTo(m, t, ns, room, i, acc)
    BY <1>1, <1>2, <1>3, <2>2, <2>3, <2>4 DEF UlRetxTo
  <2> QED
    BY <1>4, <2>1, <2>5
<1>21. CASE avail # 0 /\ avail >= p.sym
  <2>1. PICK v, q :
          /\ Good(v, m) /\ Changed(u, v, ue, id, q) /\ q.status = "WAITING_FEEDBACK" /\ q.timer = 0
          /\ RetxUlOne(acc, f) = [table |-> v, avail |-> avail - p.sym,
                                  sent |-> sent \union {<<ue, id>>}, kept |-> kept]
    BY <1>5, <1>14, <1>21, UlResent
  <2>2. avail - p.sym \in 0 .. room
    BY <1>2, <1>15, <1>21
  <2>3. PICK s : s = sent \union {<<ue, id>>}
    OBVIOUS
  <2>4. s \in SUBSET Pairs
    BY <1>2, <2>3 DEF Pairs
  <2>5. \A b \in s : /\ v.procs[b[1]][b[2]].timer = 0
                     /\ \E k \in 1 .. i : Of(ns[k], b[1], b[2])
    <3>1. v.procs[ue][id].timer = 0
      BY <2>1 DEF Changed
    <3>2. Of(ns[i], ue, id)
      BY <1>4, <1>5 DEF Of
    <3>3. \A b \in s : b \in sent \/ (b[1] = ue /\ b[2] = id)
      BY <2>3
    <3> QED
      BY <1>6, <1>17, <2>1, <3>1, <3>2, <3>3
  <2>6. \A j \in 1 .. l : /\ <<kept[j].ue, kept[j].id>> \notin s
                          /\ \E k \in 1 .. i : kept[j] = ns[k]
    <3>1. ASSUME NEW j \in 1 .. l PROVE <<kept[j].ue, kept[j].id>> # <<ue, id>>
      <4>1. PICK k \in 1 .. i - 1 : kept[j] = ns[k]
        BY <1>10
      <4> QED
        BY <1>7, <4>1 DEF Of
    <3> QED
      BY <1>6, <1>10, <2>3, <3>1
  <2>7. PICK w : w = [table |-> v, avail |-> avail - p.sym, sent |-> s, kept |-> kept]
    OBVIOUS
  <2>8. /\ w.table = v /\ w.avail = avail - p.sym /\ w.sent = s /\ w.kept = kept
        /\ w = [table |-> w.table, avail |-> w.avail, sent |-> w.sent, kept |-> w.kept]
    BY <2>7
  <2>9. \A a \in UEs, d \in Ids :
          /\ Active(v, a, d) <=> Active(t, a, d)
          /\ (\A k \in 1 .. i : ~Of(ns[k], a, d)) => v.procs[a][d] = t.procs[a][d]
    BY <1>16, <2>1
  <2>10. UlRetxTo(m, t, ns, room, i, w)
    BY <1>2, <1>3, <2>1, <2>2, <2>4, <2>5, <2>6, <2>8, <2>9 DEF UlRetxTo
  <2> QED
    BY <1>4, <2>1, <2>3, <2>7, <2>10
<1>22. CASE avail # 0 /\ ~ (avail >= p.sym)
  <2>1. PICK v, q :
          /\ Good(v, m) /\ Changed(u, v, ue, id, q) /\ q.status = "WAITING_FEEDBACK"
          /\ RetxUlOne(acc, f) = [table |-> v, avail |-> avail, sent |-> sent,
                                  kept |-> Append(kept, f)]
    BY <1>5, <1>14, <1>22, UlKept
  <2>2. PICK ks \in Seq(Feedbacks) : ks = Append(kept, f)
    BY <1>2, AppendProperties
  <2>3. Len(ks) = l + 1 /\ (\A j \in 1 .. l : ks[j] = kept[j]) /\ ks[l + 1] = f
    BY <1>2, <1>3, <2>2, AppendProperties
  <2>4. \A j \in 1 .. l + 1 : j = l + 1 \/ j \in 1 .. l
    OBVIOUS
  <2>5. \A j \in 1 .. l : ~Of(kept[j], ue, id)
    BY <1>7, <1>10
  <2>6. Apart(ks)
    <3>1. ASSUME NEW a \in 1 .. l + 1, NEW b \in 1 .. l + 1, a # b
          PROVE  ~Of(ks[a], ks[b].ue, ks[b].id)
      <4>1. CASE a = l + 1
        BY <1>5, <2>3, <2>4, <2>5, <3>1, <4>1 DEF Of
      <4>2. CASE b = l + 1
        BY <1>5, <2>3, <2>4, <2>5, <3>1, <4>2
      <4>3. CASE a \in 1 .. l /\ b \in 1 .. l
        BY <1>2, <1>3, <2>3, <3>1, <4>3 DEF Apart
      <4> QED
        BY <2>4, <4>1, <4>2, <4>3
    <3> QED
      BY <2>3, <3>1 DEF Apart
  <2>7. \A j \in 1 .. l + 1 : /\ <<ks[j].ue, ks[j].id>> \notin sent
                              /\ \E k \in 1 .. i : ks[j] = ns[k]
    BY <1>4, <1>5, <1>6, <1>10, <1>11, <2>3, <2>4
  <2>8. \A b \in sent : /\ v.procs[b[1]][b[2]].timer = 0
                        /\ \E k \in 1 .. i : Of(ns[k], b[1], b[2])
    BY <1>17, <2>1
  <2>9. PICK w : w = [table |-> v, avail |-> avail, sent |-> sent, kept |-> ks]
    OBVIOUS
  <2>10. /\ w.table = v /\ w.avail = avail /\ w.sent = sent /\ w.kept = ks
         /\ w = [table |-> w.table, avail |-> w.avail, sent |-> w.sent, kept |-> w.kept]
    BY <2>9
  <2>11. \A a \in UEs, d \in Ids :
           /\ Active(v, a, d) <=> Active(t, a, d)
           /\ (\A k \in 1 .. i : ~Of(ns[k], a, d)) => v.procs[a][d] = t.procs[a][d]
    BY <1>16, <2>1
  <2>12. UlRetxTo(m, t, ns, room, i, w)
    BY <1>2, <2>1, <2>3, <2>6, <2>7, <2>8, <2>10, <2>11 DEF UlRetxTo
  <2> QED
    BY <1>4, <2>1, <2>2, <2>9, <2>12
<1> QED
  BY <1>20, <1>21, <1>22


(* All NACKs had their turn.                                                *)
LEMMA UlRetxAll ==
  ASSUME NEW m \in Nat, NEW t, NEW ns \in Seq(Feedbacks), NEW room \in Nat,
         Good(t, m), Apart(ns), MarkedAll(t, ns)
  PROVE  UlRetxTo(m, t, ns, room, Len(ns), ScheduleUlHarq(t, room, ns))
<1> DEFINE V == [table : Tables, avail : 0 .. room, sent : SUBSET Pairs, kept : Seq(Feedbacks)]
           n == Len(ns)
           s == [table |-> t, avail |-> room, sent |-> {}, kept |-> <<>>]
           F == [i \in 1 .. n |-> [r \in V |-> RetxUlOne(r, ns[i])]]
           W == [i \in 0 .. n |-> {r \in V : UlRetxTo(m, t, ns, room, i, r)}]
           Solves(h) == [i \in 0 .. Len(ns) |->
                           IF i = 0 THEN s ELSE RetxUlOne(h[i - 1], ns[i])]
<1>0. n \in Nat
  BY LenProperties
<1>1. ASSUME NEW i, NEW r, UlRetxTo(m, t, ns, room, i, r) PROVE r \in V
  <2>1. /\ r.table \in Tables /\ r.avail \in 0 .. room /\ r.sent \in SUBSET Pairs
        /\ r.kept \in Seq(Feedbacks)
    BY <1>1 DEF UlRetxTo, Good
  <2>2. r = [table |-> r.table, avail |-> r.avail, sent |-> r.sent, kept |-> r.kept]
    BY <1>1 DEF UlRetxTo
  <2> QED
    BY <2>1, <2>2
<1>2. UlRetxTo(m, t, ns, room, 0, s)
  <2>1. /\ s.table = t /\ s.avail = room /\ s.sent = {} /\ s.kept = <<>>
        /\ s = [table |-> s.table, avail |-> s.avail, sent |-> s.sent, kept |-> s.kept]
    OBVIOUS
  <2>2. <<>> \in Seq(Feedbacks) /\ Len(<<>>) = 0
    BY EmptySeq
  <2>3. (\A k \in 1 .. 0 : FALSE) /\ room \in 0 .. room
    OBVIOUS
  <2>4. Apart(<<>>)
    BY <2>2, <2>3 DEF Apart
  <2> HIDE DEF s
  <2> QED
    BY <2>1, <2>2, <2>3, <2>4 DEF UlRetxTo
<1>3. ASSUME NEW i \in 1 .. n, NEW r, UlRetxTo(m, t, ns, room, i - 1, r)
      PROVE  UlRetxTo(m, t, ns, room, i, RetxUlOne(r, ns[i]))
  BY <1>3, UlRetxStep
<1>4. \A i \in 0 .. n : W[i] = {r \in V : UlRetxTo(m, t, ns, room, i, r)}
  OBVIOUS
<1>5. \A i \in 1 .. n : \A r \in V : F[i][r] = RetxUlOne(r, ns[i])
  OBVIOUS
<1>6. s \in V
  BY <1>1, <1>2
<1> HIDE DEF F, W, V, s, n
<1>7. \A i \in 1 .. n : i \in 0 .. n /\ i - 1 \in 0 .. n
  BY <1>0
<1>8. Reaches(n, V, s, F, W)
  <2>1. s \in W[0]
    BY <1>0, <1>2, <1>4, <1>6
  <2>2. ASSUME NEW i \in 1 .. n, NEW r \in W[i - 1] PROVE F[i][r] \in W[i]
    <3>1. r \in V /\ UlRetxTo(m, t, ns, room, i - 1, r)
      BY <1>4, <1>7
    <3>2. UlRetxTo(m, t, ns, room, i, RetxUlOne(r, ns[i]))
      BY <1>3, <3>1
    <3> QED
      BY <1>1, <1>4, <1>5, <1>7, <3>1, <3>2
  <2> QED
    BY <1>4, <2>1, <2>2 DEF Reaches
<1>9. PICK g : IsRecursion(g, n, s, F) /\ \A i \in 0 .. n : g[i] \in V
  BY <1>0, <1>8, Turns
<1>10. g = Solves(g)
  <2>1. \A i \in 0 .. n : i # 0 => F[i][g[i - 1]] = RetxUlOne(g[i - 1], ns[i])
    BY <1>0, <1>5, <1>7, <1>9
  <2>2. g = [i \in 0 .. n |-> IF i = 0 THEN s ELSE F[i][g[i - 1]]]
    BY <1>9 DEF IsRecursion
  <2> QED
    BY <2>1, <2>2 DEF n
<1>11. ScheduleUlHarq(t, room, ns) = (CHOOSE h : h = Solves(h))[Len(ns)]
  BY DEF ScheduleUlHarq, InTurn, s
<1>12. PICK h : h = (CHOOSE e : e = Solves(e)) /\ h = Solves(h)
  <2> HIDE DEF Solves
  <2> QED
    BY <1>10
<1>13. h[0] = s /\ \A i \in 1 .. n : h[i] = RetxUlOne(h[i - 1], ns[i])
  <2>1. h = [i \in 0 .. n |-> IF i = 0 THEN s ELSE RetxUlOne(h[i - 1], ns[i])]
    BY <1>12 DEF n
  <2>2. 0 \in 0 .. n /\ \A i \in 1 .. n : i \in 0 .. n /\ i # 0
    BY <1>0
  <2> QED
    BY ONLY <2>1, <2>2
<1>14. h[0] \in W[0] /\ \A i \in 1 .. n : h[i - 1] \in W[i - 1] => h[i] \in W[i]
  BY <1>0, <1>1, <1>2, <1>3, <1>4, <1>6, <1>7, <1>13
<1>15. \A i \in 0 .. n : h[i] \in W[i]
  BY <1>0, <1>14, Stays
<1>16. UlRetxTo(m, t, ns, room, n, h[n])
  BY <1>0, <1>4, <1>15
<1> QED
  BY <1>11, <1>12, <1>16 DEF n

-----------------------------------------------------------------------------
(* New data. *)

(* UEs are given a free process and some of the symbols that are left.      *)
UlGranted(t, room, g) ==
  /\ DOMAIN g \subseteq UEs /\ g \in [DOMAIN g -> Ids \X (1 .. room)]
  /\ \A ue \in DOMAIN g : CanInsert(t, ue) /\ ~Active(t, ue, g[ue][1])

(* The first i UEs have their blocks.                                       *)
UlDataTo(m, t, g, o, i, u) ==
  /\ Good(u, m)
  /\ \A ue \in UEs, id \in Ids :
       u.procs[ue][id] = IF NewOf(g, o, i, ue, id) THEN Sent(g[ue][2], Rbgs)
                         ELSE t.procs[ue][id]

(* A block for one UE more.                                                 *)
LEMMA UlDataStep ==
  ASSUME NEW m \in Nat, NEW t, NEW room \in Nat, room <= m, NEW g,
         NEW o \in Seq(DOMAIN g), NEW i \in 1 .. Len(o), NEW u,
         Good(t, m), UlGranted(t, room, g), Lists(o, DOMAIN g),
         UlDataTo(m, t, g, o, i - 1, u)
  PROVE  UlDataTo(m, t, g, o, i, Insert(u, o[i], g[o[i]][1], Sent(g[o[i]][2], Rbgs)))
<1>0. i \in Nat /\ i - 1 \in Nat /\ Len(o) \in Nat /\ i \in 1 .. i
  BY LenProperties
<1>1. PICK ue : ue = o[i] /\ ue \in DOMAIN g
  BY ElementOfSeq
<1>2. ue \in UEs /\ CanInsert(t, ue) /\ ~Active(t, ue, g[ue][1])
  BY <1>1 DEF UlGranted
<1>3. PICK id \in Ids, sym \in 1 .. room : id = g[ue][1] /\ sym = g[ue][2]
  <2>1. g[ue] \in Ids \X (1 .. room)
    BY <1>1 DEF UlGranted
  <2> QED
    BY <2>1
<1>4. \A k \in 1 .. i - 1 : k \in 1 .. i /\ o[k] # ue
  <2>1. \A k \in 1 .. i - 1 : k \in 1 .. i /\ k \in 1 .. Len(o) /\ k # i
    BY <1>0
  <2> QED
    BY <1>1, <2>1 DEF Lists
<1>5. \A k \in 1 .. i : k = i \/ k \in 1 .. i - 1
  BY <1>0
<1>6. ASSUME NEW a, NEW d
      PROVE  NewOf(g, o, i, a, d) <=> NewOf(g, o, i - 1, a, d) \/ (a = ue /\ d = id)
  BY <1>0, <1>1, <1>3, <1>4, <1>5 DEF NewOf
<1>7. \A d : ~NewOf(g, o, i - 1, ue, d)
  BY <1>4 DEF NewOf
<1>8. Good(u, m)
  BY DEF UlDataTo
<1>9. \A d \in Ids : u.procs[ue][d] = t.procs[ue][d]
  BY <1>2, <1>7 DEF UlDataTo
<1>10. CanInsert(u, ue) /\ ~Active(u, ue, id)
  <2>1. ActiveIds(u, ue) = ActiveIds(t, ue)
    BY <1>9 DEF ActiveIds, Active
  <2>2. u.used[ue] = t.used[ue]
    BY <1>2, <1>8, <2>1 DEF Good, Counts
  <2> QED
    BY <1>2, <1>3, <1>9, <2>2 DEF CanInsert, Active
<1>11. PICK p : p = Sent(sym, Rbgs)
  OBVIOUS
<1>12. GoodProcess(p, m) /\ p.status # "INACTIVE"
  <2>1. sym \in Nat \ {0} /\ sym <= m
    BY <1>3
  <2> QED
    BY <1>11, <2>1, SentGood
<1>13. PICK v : v = Insert(u, ue, id, p)
  OBVIOUS
<1>14. Good(v, m) /\ Changed(u, v, ue, id, p)
  BY <1>2, <1>8, <1>10, <1>12, <1>13, InsertGood
<1>15. ASSUME NEW a \in UEs, NEW d \in Ids
       PROVE  v.procs[a][d] = IF NewOf(g, o, i, a, d) THEN Sent(g[a][2], Rbgs)
                              ELSE t.procs[a][d]
  <2>1. v.procs[a][d] = IF a = ue /\ d = id THEN p ELSE u.procs[a][d]
    BY <1>14 DEF Changed
  <2>2. u.procs[a][d] = IF NewOf(g, o, i - 1, a, d) THEN Sent(g[a][2], Rbgs)
                        ELSE t.procs[a][d]
    BY DEF UlDataTo
  <2>3. CASE a = ue /\ d = id
    BY <1>3, <1>6, <1>11, <2>1, <2>3
  <2>4. CASE ~ (a = ue /\ d = id)
    BY <1>6, <2>1, <2>2, <2>4
  <2> QED
    BY <2>3, <2>4
<1>16. UlDataTo(m, t, g, o, i, v)
  BY <1>14, <1>15 DEF UlDataTo
<1> QED
  BY <1>1, <1>3, <1>11, <1>13, <1>16


(* The new data of a slot: UlDataTo holds of all UEs.                       *)
LEMMA UlDataAll ==
  ASSUME NEW m \in Nat, NEW t, NEW room \in Nat, room <= m, NEW g,
         NEW o \in Seq(DOMAIN g), o = SetToSeq(DOMAIN g),
         Good(t, m), UlGranted(t, room, g), Lists(o, DOMAIN g)
  PROVE  UlDataTo(m, t, g, o, Len(o), DoScheduleUlData(t, g))
<1> DEFINE V == Tables
           n == Len(o)
           B(u, ue) == Insert(u, ue, g[ue][1], Sent(g[ue][2], Rbgs))
           F == [i \in 1 .. n |-> [u \in V |-> B(u, o[i])]]
           W == [i \in 0 .. n |-> {u \in V : UlDataTo(m, t, g, o, i, u)}]
           Solves(h) == [i \in 0 .. Len(o) |->
                           IF i = 0 THEN t ELSE B(h[i - 1], o[i])]
<1>0. n \in Nat
  BY LenProperties
<1>1. ASSUME NEW i, NEW u, UlDataTo(m, t, g, o, i, u) PROVE u \in V
  BY <1>1 DEF UlDataTo, Good
<1>2. UlDataTo(m, t, g, o, 0, t)
  <2>1. \A k \in 1 .. 0 : FALSE
    OBVIOUS
  <2>2. \A ue, id : ~NewOf(g, o, 0, ue, id)
    BY <2>1 DEF NewOf
  <2> QED
    BY <2>2 DEF UlDataTo
<1>3. ASSUME NEW i \in 1 .. n, NEW u, UlDataTo(m, t, g, o, i - 1, u)
      PROVE  UlDataTo(m, t, g, o, i, B(u, o[i]))
  BY <1>3, UlDataStep
<1>4. \A i \in 0 .. n : W[i] = {u \in V : UlDataTo(m, t, g, o, i, u)}
  OBVIOUS
<1>5. \A i \in 1 .. n : \A u \in V : F[i][u] = B(u, o[i])
  OBVIOUS
<1>6. t \in V
  BY <1>1, <1>2
<1>11. DoScheduleUlData(t, g) = (CHOOSE h : h = Solves(h))[Len(o)]
  BY DEF DoScheduleUlData, InTurn
<1> HIDE DEF F, W, V, n, B
<1>7. \A i \in 1 .. n : i \in 0 .. n /\ i - 1 \in 0 .. n
  BY <1>0
<1>8. Reaches(n, V, t, F, W)
  <2>1. t \in W[0]
    BY <1>0, <1>2, <1>4, <1>6
  <2>2. ASSUME NEW i \in 1 .. n, NEW u \in W[i - 1] PROVE F[i][u] \in W[i]
    <3>1. u \in V /\ UlDataTo(m, t, g, o, i - 1, u)
      BY <1>4, <1>7
    <3>2. UlDataTo(m, t, g, o, i, B(u, o[i]))
      BY <1>3, <3>1
    <3> QED
      BY <1>1, <1>4, <1>5, <1>7, <3>1, <3>2
  <2> QED
    BY <1>4, <2>1, <2>2 DEF Reaches
<1>9. PICK f : IsRecursion(f, n, t, F) /\ \A i \in 0 .. n : f[i] \in V
  BY <1>0, <1>8, Turns
<1>10. f = Solves(f)
  <2>1. \A i \in 0 .. n : i # 0 => F[i][f[i - 1]] = B(f[i - 1], o[i])
    BY <1>0, <1>5, <1>7, <1>9
  <2>2. f = [i \in 0 .. n |-> IF i = 0 THEN t ELSE F[i][f[i - 1]]]
    BY <1>9 DEF IsRecursion
  <2> QED
    BY <2>1, <2>2 DEF n
<1>12. PICK h : h = (CHOOSE e : e = Solves(e)) /\ h = Solves(h)
  <2> HIDE DEF Solves
  <2> QED
    BY <1>10
<1>13. h[0] = t /\ \A i \in 1 .. n : h[i] = B(h[i - 1], o[i])
  <2>1. h = [i \in 0 .. n |-> IF i = 0 THEN t ELSE B(h[i - 1], o[i])]
    BY <1>12 DEF n
  <2>2. 0 \in 0 .. n /\ \A i \in 1 .. n : i \in 0 .. n /\ i # 0
    BY <1>0
  <2> QED
    BY ONLY <2>1, <2>2
<1>14. h[0] \in W[0] /\ \A i \in 1 .. n : h[i - 1] \in W[i - 1] => h[i] \in W[i]
  BY <1>0, <1>1, <1>2, <1>3, <1>4, <1>6, <1>7, <1>13
<1>15. \A i \in 0 .. n : h[i] \in W[i]
  BY <1>0, <1>14, Stays
<1>16. UlDataTo(m, t, g, o, n, h[n])
  BY <1>0, <1>4, <1>15
<1> QED
  BY <1>11, <1>12, <1>16 DEF n

-----------------------------------------------------------------------------
(* A whole slot. *)

UlReports == [ue : UEs, id : Ids, age : 0 .. MaxDelay]

(* The state as UlTypeOK wants it, with what its processes hold.            *)
UlTyped ==
  /\ Good(ulHarq, FullSlot)
  /\ ulWaiting \in Seq(Feedbacks) /\ \A i \in 1 .. Len(ulWaiting) : ~ulWaiting[i].ok
  /\ ulReceived \in Seq(Feedbacks)
  /\ ulOnAir \in SUBSET UlReports
  /\ ulSlot \in [avail : Symbols, fresh : BOOLEAN, turn : BOOLEAN]

UlOnAir(ue, id) == \E a \in ulOnAir : a.ue = ue /\ a.id = id

UlArrived(ue, id) == Has(ulReceived, ue, id)

UlWaits(ue, id) == Has(ulWaiting, ue, id)

(* A report to come is for an active process, as old as its timer says.     *)
UlTimed(t, a) == Active(t, a.ue, a.id) /\ t.procs[a.ue][a.id].timer = a.age

(* An active process is followed up in one way at most, a free one in none. *)
UlFollowed ==
  /\ \A a \in ulOnAir : UlTimed(ulHarq, a)
  /\ \A a, b \in ulOnAir : a.ue = b.ue /\ a.id = b.id => a = b
  /\ Apart(ulWaiting) /\ Apart(ulReceived)
  /\ \A ue \in UEs, id \in Ids :
       /\ ~ (UlOnAir(ue, id) /\ UlArrived(ue, id))
       /\ ~ (UlOnAir(ue, id) /\ UlWaits(ue, id))
       /\ ~ (UlArrived(ue, id) /\ UlWaits(ue, id))
       /\ UlArrived(ue, id) \/ UlWaits(ue, id) => Active(ulHarq, ue, id)

(* The tables of a slot: after the reset of expired processes, after the    *)
(* feedback fs that was merged from what was kept and what came.            *)
UlFeedbackDone(aged, all, fs, fed) ==
  /\ Good(aged, FullSlot) /\ IsOlder(ulHarq, aged)
  /\ all = ulWaiting \o ulReceived
  /\ UlMergedTo(aged, all, Len(all), fs)
  /\ FedTo(FullSlot, aged, fs, Len(fs), fed)
  /\ MarkedAll(fed.table, fed.nacks)

(* What the slot is granted for.                                            *)
UlSlotFilled(avail, fed, retx, g, o, data) ==
  /\ UlRetxTo(FullSlot, fed.table, fed.nacks, avail, Len(fed.nacks), retx)
  /\ UlGranted(retx.table, retx.avail, g)
  /\ Lists(o, DOMAIN g)
  /\ UlDataTo(FullSlot, retx.table, g, o, Len(o), data)

UlBlocks(retx, g) == retx.sent \union {<<ue, g[ue][1]>> : ue \in DOMAIN g}

(* The state after the slot.                                                *)
UlSlotEnds(avail, retx, g, data) ==
  /\ ulHarq' = data /\ ulWaiting' = retx.kept /\ ulReceived' = <<>>
  /\ ulOnAir' = {[a EXCEPT !.age = @ + 1] : a \in ulOnAir} \union
       {[ue |-> b[1], id |-> b[2], age |-> 0] : b \in UlBlocks(retx, g)}
  /\ ulSlot' = [avail |-> avail, fresh |-> g # <<>>, turn |-> ~ulSlot.turn]
  /\ \A a \in ulOnAir : a.age < MaxDelay

(* What DoSchedUlTriggerReq does, step by step.                             *)
LEMMA UlSlotSteps ==
  ASSUME NEW avail \in Symbols, UlTyped, UlFollowed, DoSchedUlTriggerReq(avail)
  PROVE  \E aged, all, fs, fed, retx, g, o, data :
           /\ UlFeedbackDone(aged, all, fs, fed)
           /\ UlSlotFilled(avail, fed, retx, g, o, data)
           /\ UlSlotEnds(avail, retx, g, data)
<1>1. PICK m \in Nat : m = FullSlot /\ avail <= m /\ avail \in Nat
  BY FullSlotLongest
<1>2. PICK aged : aged = ResetExpiredHARQ(ulHarq)
  OBVIOUS
<1>3. Good(aged, m) /\ IsOlder(ulHarq, aged)
  BY <1>1, <1>2, ResetGood DEF UlTyped
<1>4. PICK ks \in Seq(Feedbacks), rs \in Seq(Feedbacks) : ks = ulWaiting /\ rs = ulReceived
  <2>1. ulWaiting \in Seq(Feedbacks) /\ ulReceived \in Seq(Feedbacks)
    BY DEF UlTyped
  <2> QED
    BY <2>1
<1>5. PICK all \in Seq(Feedbacks) : all = ks \o rs
  BY <1>4, ConcatProperties
<1>6. Apart(all)
  <2>1. ASSUME NEW i \in 1 .. Len(ks), NEW j \in 1 .. Len(rs) PROVE ~Of(ks[i], rs[j].ue, rs[j].id)
    <3>1. rs[j] \in Feedbacks
      BY <1>4, ElementOfSeq
    <3>2. rs[j].ue \in UEs /\ rs[j].id \in Ids
      BY <3>1 DEF Feedbacks
    <3>3. UlArrived(rs[j].ue, rs[j].id)
      BY <1>4 DEF UlArrived, Has, Of
    <3>4. ~UlWaits(rs[j].ue, rs[j].id)
      BY <3>2, <3>3 DEF UlFollowed
    <3> QED
      BY <1>4, <3>4 DEF UlWaits, Has
  <2>2. Apart(ks) /\ Apart(rs)
    BY <1>4 DEF UlFollowed
  <2> QED
    BY <1>4, <1>5, <2>1, <2>2, ApartConcat
<1>7. PICK fs : fs = MergeUlHARQ(aged, ulWaiting, ulReceived)
  OBVIOUS
<1>8. UlMergedTo(aged, all, Len(all), fs)
  <2>1. fs = UlMerged(aged, all)
    BY <1>4, <1>5, <1>7, Zenon DEF MergeUlHARQ, UlMerged
  <2> QED
    BY <1>6, <2>1, UlMergeAll
<1>9. fs \in Seq(Feedbacks) /\ Apart(fs) /\ AllActive(aged, fs)
  BY <1>8 DEF UlMergedTo
<1>10. PICK fed : fed = ProcessHARQFeedbacks(aged, fs)
  OBVIOUS
<1>11. FedTo(m, aged, fs, Len(fs), fed)
  BY <1>3, <1>9, <1>10, FeedbackAll
<1>12. Good(fed.table, m) /\ Apart(fed.nacks) /\ fed.nacks \in Seq(Feedbacks)
  BY <1>11 DEF FedTo
<1>13. MarkedAll(fed.table, fed.nacks)
  BY <1>3, <1>9, <1>11, NacksMarked
<1>14. ComputeActiveHarq(fed.table, fed.nacks) = fed.table
  BY <1>12, <1>13, ActiveIsFed, Zenon DEF MarkedAll
<1>15. PICK retx, g, data :
         /\ retx = ScheduleUlHarq(fed.table, avail, fed.nacks)
         /\ g \in UlGrants(retx.table, retx.avail, SentAgain(retx))
         /\ data = DoScheduleUlData(retx.table, g)
         /\ UlSlotEnds(avail, retx, g, data)
  BY <1>2, <1>7, <1>10, <1>14, ZenonT(30) DEF DoSchedUlTriggerReq, UlSlotEnds, UlBlocks
<1>16. UlRetxTo(m, fed.table, fed.nacks, avail, Len(fed.nacks), retx)
  BY <1>1, <1>12, <1>13, <1>15, UlRetxAll
<1>17. PICK room, t :
         /\ room = retx.avail /\ room \in Nat /\ room <= m
         /\ t = retx.table /\ Good(t, m)
  <2>1. retx.avail \in 0 .. avail /\ Good(retx.table, m)
    BY <1>16 DEF UlRetxTo
  <2>2. retx.avail \in Nat /\ retx.avail <= m
    BY <1>1, <2>1
  <2> QED
    BY <2>1, <2>2
<1>18. UlGranted(t, room, g)
  <2>1. PICK s \in SUBSET {ue \in UEs \ SentAgain(retx) : CanInsert(t, ue)} :
          g \in [s -> (Ids \X (1 .. room))] /\ \A ue \in DOMAIN g : ~Active(t, ue, g[ue][1])
    BY <1>15, <1>17, ZenonT(30) DEF UlGrants
  <2>2. DOMAIN g = s /\ s \subseteq UEs
    BY <2>1
  <2>3. \A ue \in s : CanInsert(t, ue)
    BY <2>1
  <2> QED
    BY <2>1, <2>2, <2>3 DEF UlGranted
<1>19. PICK o : o = SetToSeq(DOMAIN g)
  OBVIOUS
<1>20. Lists(o, DOMAIN g)
  <2>1. DOMAIN g \in SUBSET UEs
    BY <1>18 DEF UlGranted
  <2>2. IsFiniteSet(DOMAIN g)
    BY <2>1, HarqConstants, FS_Subset
  <2> QED
    BY <1>19, <2>2, ListLists
<1>21. UlDataTo(m, t, g, o, Len(o), data)
  <2>1. o \in Seq(DOMAIN g)
    BY <1>20 DEF Lists
  <2> QED
    BY <1>15, <1>17, <1>18, <1>19, <1>20, <2>1, UlDataAll
<1>22. UlFeedbackDone(aged, all, fs, fed)
  BY <1>1, <1>3, <1>4, <1>5, <1>8, <1>11, <1>13 DEF UlFeedbackDone
<1>23. UlSlotFilled(avail, fed, retx, g, o, data)
  BY <1>1, <1>16, <1>17, <1>18, <1>20, <1>21 DEF UlSlotFilled
<1> QED
  BY <1>15, <1>22, <1>23


(* A slot leaves the state typed.                                           *)
LEMMA UlSlotKeepsTyped ==
  ASSUME NEW avail \in Symbols, UlTyped, UlFollowed, DoSchedUlTriggerReq(avail)
  PROVE  UlTyped'
<1>1. PICK aged, all, fs, fed, retx, g, o, data :
        /\ UlFeedbackDone(aged, all, fs, fed)
        /\ UlSlotFilled(avail, fed, retx, g, o, data)
        /\ UlSlotEnds(avail, retx, g, data)
  BY UlSlotSteps
<1>2. Good(ulHarq', FullSlot)
  BY <1>1 DEF UlSlotFilled, UlSlotEnds, UlDataTo
<1>3. ulWaiting' \in Seq(Feedbacks) /\ \A i \in 1 .. Len(ulWaiting') : ~ulWaiting'[i].ok
  <2>1. ulWaiting' = retx.kept /\ retx.kept \in Seq(Feedbacks)
    BY <1>1 DEF UlSlotFilled, UlSlotEnds, UlRetxTo
  <2>2. \A k \in 1 .. Len(fed.nacks) : ~fed.nacks[k].ok
    BY <1>1 DEF UlFeedbackDone, FedTo
  <2>3. \A j \in 1 .. Len(retx.kept) : \E k \in 1 .. Len(fed.nacks) : retx.kept[j] = fed.nacks[k]
    BY <1>1 DEF UlSlotFilled, UlRetxTo
  <2> QED
    BY <2>1, <2>2, <2>3
<1>4. ulReceived' \in Seq(Feedbacks)
  BY <1>1, EmptySeq DEF UlSlotEnds
<1>5. MaxDelay \in Nat
  BY HarqConstants
<1>6. ASSUME NEW a \in ulOnAir PROVE [a EXCEPT !.age = @ + 1] \in UlReports
  <2>1. a \in UlReports /\ a.age < MaxDelay
    BY <1>1 DEF UlTyped, UlSlotEnds
  <2>2. a.age + 1 \in 0 .. MaxDelay
    BY <1>5, <2>1 DEF UlReports
  <2>3. [a EXCEPT !.age = @ + 1] = [a EXCEPT !.age = a.age + 1]
    OBVIOUS
  <2> QED
    BY <2>1, <2>2, <2>3 DEF UlReports
<1>7. ASSUME NEW b \in UlBlocks(retx, g)
      PROVE  [ue |-> b[1], id |-> b[2], age |-> 0] \in UlReports
  <2>1. b[1] \in UEs /\ b[2] \in Ids
    <3>1. CASE b \in retx.sent
      BY <1>1, <3>1 DEF UlSlotFilled, UlRetxTo, Pairs
    <3>2. CASE b \notin retx.sent
      <4>1. PICK ue \in DOMAIN g : b = <<ue, g[ue][1]>>
        BY <3>2 DEF UlBlocks
      <4>2. ue \in UEs /\ g[ue] \in Ids \X (1 .. retx.avail)
        BY <1>1, <4>1 DEF UlSlotFilled, UlGranted
      <4> QED
        BY <4>1, <4>2
    <3> QED
      BY <3>1, <3>2
  <2> QED
    BY <1>5, <2>1 DEF UlReports
<1>8. ulOnAir' \in SUBSET UlReports
  BY <1>1, <1>6, <1>7 DEF UlSlotEnds
<1>9. ulSlot' \in [avail : Symbols, fresh : BOOLEAN, turn : BOOLEAN]
  <2>1. ulSlot' = [avail |-> avail, fresh |-> g # <<>>, turn |-> ~ulSlot.turn]
    BY <1>1 DEF UlSlotEnds
  <2>2. (g # <<>>) \in BOOLEAN /\ (~ulSlot.turn) \in BOOLEAN
    BY Zenon
  <2> QED
    BY <2>1, <2>2, Zenon
<1> QED
  BY <1>2, <1>3, <1>4, <1>8, <1>9 DEF UlTyped

(* A report that comes in, or never does, leaves the state typed.           *)
LEMMA UlReportKeepsTyped ==
  ASSUME NEW report \in ulOnAir, UlTyped, DoUlHarqFeedback(report) \/ NothingSent(report)
  PROVE  UlTyped'
<1>1. report \in UlReports /\ ulOnAir' = ulOnAir \ {report}
      /\ UNCHANGED <<ulHarq, ulWaiting, ulSlot>>
  BY DEF UlTyped, DoUlHarqFeedback, NothingSent
<1>2. ulReceived' \in Seq(Feedbacks)
  <2>1. CASE NothingSent(report)
    BY <2>1 DEF NothingSent, UlTyped
  <2>2. CASE DoUlHarqFeedback(report)
    <3>1. PICK ok \in BOOLEAN :
            ulReceived' = Append(ulReceived, [ue |-> report.ue, id |-> report.id, ok |-> ok])
      BY <2>2 DEF DoUlHarqFeedback
    <3>2. [ue |-> report.ue, id |-> report.id, ok |-> ok] \in Feedbacks
      BY <1>1 DEF UlReports, Feedbacks
    <3> QED
      BY <3>1, <3>2, AppendProperties DEF UlTyped
  <2> QED
    BY <2>1, <2>2
<1> QED
  BY <1>1, <1>2 DEF UlTyped

(* A process in use after the retransmissions is not granted for new data.  *)
LEMMA UlGrantsFree ==
  ASSUME NEW avail, NEW fed, NEW retx, NEW g, NEW o, NEW data,
         UlSlotFilled(avail, fed, retx, g, o, data),
         NEW ue \in UEs, NEW id \in Ids, Active(retx.table, ue, id)
  PROVE  /\ data.procs[ue][id] = retx.table.procs[ue][id] /\ Active(data, ue, id)
         /\ <<ue, id>> \in UlBlocks(retx, g) => <<ue, id>> \in retx.sent
<1>1. \A w \in DOMAIN g : ~Active(retx.table, w, g[w][1])
  BY DEF UlSlotFilled, UlGranted
<1>2. \A k \in 1 .. Len(o) : o[k] \in DOMAIN g
  <2>1. o \in Seq(DOMAIN g)
    BY DEF UlSlotFilled, Lists
  <2> QED
    BY <2>1, ElementOfSeq
<1>3. ~NewOf(g, o, Len(o), ue, id)
  BY <1>1, <1>2 DEF NewOf
<1>4. data.procs[ue][id] = retx.table.procs[ue][id]
  BY <1>3 DEF UlSlotFilled, UlDataTo
<1>5. ASSUME <<ue, id>> \in UlBlocks(retx, g), <<ue, id>> \notin retx.sent PROVE FALSE
  <2>1. PICK w \in DOMAIN g : <<ue, id>> = <<w, g[w][1]>>
    BY <1>5 DEF UlBlocks
  <2> QED
    BY <1>1, <2>1
<1> QED
  BY <1>4, <1>5 DEF Active

(* A block with a report to come is left alone by the slot.                 *)
LEMMA UlOldFollowed ==
  ASSUME UlTyped, UlFollowed, MaxDelay <= NumHarqProcess,
         NEW avail, NEW aged, NEW all, NEW fs, NEW fed, NEW retx, NEW g, NEW o, NEW data,
         UlFeedbackDone(aged, all, fs, fed),
         UlSlotFilled(avail, fed, retx, g, o, data),
         NEW a \in ulOnAir, a.age < MaxDelay
  PROVE  /\ Active(data, a.ue, a.id) /\ data.procs[a.ue][a.id].timer = a.age + 1
         /\ <<a.ue, a.id>> \notin UlBlocks(retx, g)
         /\ ~Has(retx.kept, a.ue, a.id)
<1>1. PICK ue \in UEs, id \in Ids : ue = a.ue /\ id = a.id
  BY DEF UlTyped, UlReports
<1>2. ~UlArrived(ue, id) /\ ~UlWaits(ue, id)
  <2>1. UlOnAir(ue, id)
    BY <1>1 DEF UlOnAir
  <2> QED
    BY <2>1 DEF UlFollowed
<1>3. ~Has(all, ue, id)
  <2>1. ~Has(ulWaiting, ue, id) /\ ~Has(ulReceived, ue, id)
    BY <1>2 DEF UlArrived, UlWaits
  <2>2. ulWaiting \in Seq(Feedbacks) /\ ulReceived \in Seq(Feedbacks)
    BY DEF UlTyped
  <2>3. all = ulWaiting \o ulReceived
    BY DEF UlFeedbackDone
  <2> QED
    BY <2>1, <2>2, <2>3, AllOf, Zenon
<1>4. \A j \in 1 .. Len(fs) : ~Of(fs[j], ue, id)
  <2>1. \A j \in 1 .. Len(fs) : \E k \in 1 .. Len(all) : fs[j] = all[k]
    BY DEF UlFeedbackDone, UlMergedTo
  <2> QED
    BY <1>3, <2>1 DEF Has
<1>5. \A j \in 1 .. Len(fed.nacks) : ~Of(fed.nacks[j], ue, id)
  <2>1. \A j \in 1 .. Len(fed.nacks) : \E k \in 1 .. Len(fs) : fed.nacks[j] = fs[k]
    BY DEF UlFeedbackDone, FedTo
  <2> QED
    BY <1>4, <2>1
<1>6. PICK p \in Processes : p = ulHarq.procs[ue][id]
  BY DEF UlTyped, Good, Tables
<1>7. p.status # "INACTIVE" /\ p.timer = a.age
  BY <1>1, <1>6 DEF UlFollowed, UlTimed, Active
<1>8. p.timer < NumHarqProcess
  <2>1. a.age < MaxDelay /\ MaxDelay <= NumHarqProcess /\ MaxDelay \in Nat
        /\ NumHarqProcess \in Nat /\ a.age \in Nat
    BY HarqConstants, NumberOfProcesses DEF UlTyped, UlReports
  <2> QED
    BY <1>7, <2>1
<1>9. ~ (p.timer >= NumHarqProcess)
  BY <1>8, NumberOfProcesses DEF Processes
<1>10. Older(p) = [p EXCEPT !.timer = @ + 1]
  BY <1>7, <1>9 DEF Older, Expired
<1>11. Older(p).status # "INACTIVE" /\ Older(p).timer = a.age + 1
  BY <1>7, <1>10 DEF Processes
<1>12. fed.table.procs[ue][id] = Older(p)
  <2>1. aged.procs[ue][id] = Older(p)
    BY <1>6 DEF UlFeedbackDone, IsOlder
  <2>2. fed.table.procs[ue][id] = aged.procs[ue][id]
    BY <1>4 DEF UlFeedbackDone, FedTo
  <2> QED
    BY <2>1, <2>2
<1>13. retx.table.procs[ue][id] = Older(p)
  BY <1>5, <1>12 DEF UlSlotFilled, UlRetxTo
<1>14. /\ data.procs[ue][id] = Older(p) /\ Active(data, ue, id)
       /\ <<ue, id>> \in UlBlocks(retx, g) => <<ue, id>> \in retx.sent
  <2>1. Active(retx.table, ue, id)
    BY <1>11, <1>13 DEF Active
  <2> QED
    BY <1>13, <2>1, UlGrantsFree
<1>15. <<ue, id>> \notin retx.sent
  <2>1. SUFFICES ASSUME <<ue, id>> \in retx.sent PROVE FALSE
    OBVIOUS
  <2>2. PICK b \in retx.sent : b = <<ue, id>>
    BY <2>1
  <2>3. \E k \in 1 .. Len(fed.nacks) : Of(fed.nacks[k], b[1], b[2])
    BY DEF UlSlotFilled, UlRetxTo
  <2> QED
    BY <1>5, <2>2, <2>3
<1>16. ~Has(retx.kept, ue, id)
  <2>1. \A j \in 1 .. Len(retx.kept) : \E k \in 1 .. Len(fed.nacks) : retx.kept[j] = fed.nacks[k]
    BY DEF UlSlotFilled, UlRetxTo
  <2> QED
    BY <1>5, <2>1 DEF Has
<1> QED
  BY <1>1, <1>11, <1>14, <1>15, <1>16


(* A block of the slot is followed by its report.                           *)
LEMMA UlNewFollowed ==
  ASSUME NEW avail, NEW aged, NEW all, NEW fs, NEW fed, NEW retx, NEW g, NEW o, NEW data,
         UlFeedbackDone(aged, all, fs, fed),
         UlSlotFilled(avail, fed, retx, g, o, data),
         NEW b \in UlBlocks(retx, g)
  PROVE  /\ Active(data, b[1], b[2]) /\ data.procs[b[1]][b[2]].timer = 0
         /\ ~Has(retx.kept, b[1], b[2])
<1>1. \A j \in 1 .. Len(retx.kept) :
        /\ <<retx.kept[j].ue, retx.kept[j].id>> \notin retx.sent
        /\ \E k \in 1 .. Len(fed.nacks) : retx.kept[j] = fed.nacks[k]
  BY Zenon DEF UlSlotFilled, UlRetxTo
<1>2. \A k \in 1 .. Len(fed.nacks) : Active(fed.table, fed.nacks[k].ue, fed.nacks[k].id)
  BY Zenon DEF UlFeedbackDone, MarkedAll, AllActive
<1>3. \A ue \in UEs, id \in Ids : Active(retx.table, ue, id) <=> Active(fed.table, ue, id)
  BY DEF UlSlotFilled, UlRetxTo
<1>4. CASE b \in retx.sent
  <2>1. PICK ue \in UEs, id \in Ids : b = <<ue, id>> /\ ue = b[1] /\ id = b[2]
    BY <1>4 DEF UlSlotFilled, UlRetxTo, Pairs
  <2>2. /\ retx.table.procs[b[1]][b[2]].timer = 0
        /\ \E k \in 1 .. Len(fed.nacks) : Of(fed.nacks[k], b[1], b[2])
    BY <1>4 DEF UlSlotFilled, UlRetxTo
  <2>3. Active(retx.table, ue, id)
    BY <1>2, <1>3, <2>1, <2>2 DEF Of
  <2>4. /\ data.procs[ue][id] = retx.table.procs[ue][id] /\ Active(data, ue, id)
        /\ <<ue, id>> \in UlBlocks(retx, g) => <<ue, id>> \in retx.sent
    BY <2>3, UlGrantsFree
  <2>5. ~Has(retx.kept, ue, id)
    <3>1. SUFFICES ASSUME NEW j \in 1 .. Len(retx.kept), Of(retx.kept[j], ue, id) PROVE FALSE
      BY DEF Has
    <3>2. <<retx.kept[j].ue, retx.kept[j].id>> = b
      BY <2>1, <3>1 DEF Of
    <3> QED
      BY <1>1, <1>4, <3>2
  <2> QED
    BY <2>1, <2>2, <2>4, <2>5
<1>5. CASE b \notin retx.sent
  <2>1. PICK ue \in DOMAIN g : b = <<ue, g[ue][1]>>
    BY <1>5 DEF UlBlocks
  <2>2. ue \in UEs /\ g[ue] \in Ids \X (1 .. retx.avail) /\ ~Active(retx.table, ue, g[ue][1])
    BY <2>1 DEF UlSlotFilled, UlGranted
  <2>3. PICK id \in Ids : id = g[ue][1] /\ b[1] = ue /\ b[2] = id
    BY <2>1, <2>2
  <2>4. NewOf(g, o, Len(o), ue, id)
    <3>1. \E k \in 1 .. Len(o) : o[k] = ue
      BY <2>1 DEF UlSlotFilled, Lists
    <3> QED
      BY <2>3, <3>1 DEF NewOf
  <2>5. data.procs[ue][id] = Sent(g[ue][2], Rbgs)
    BY <2>2, <2>4 DEF UlSlotFilled, UlDataTo
  <2>6. Active(data, ue, id) /\ data.procs[ue][id].timer = 0
    BY <2>5 DEF Sent, Active
  <2>7. ~Has(retx.kept, ue, id)
    <3>1. SUFFICES ASSUME NEW j \in 1 .. Len(retx.kept), Of(retx.kept[j], ue, id) PROVE FALSE
      BY DEF Has
    <3>2. PICK k \in 1 .. Len(fed.nacks) : retx.kept[j] = fed.nacks[k]
      BY <1>1
    <3>3. Active(fed.table, ue, id)
      BY <1>2, <3>1, <3>2 DEF Of
    <3> QED
      BY <1>3, <2>2, <2>3, <3>3
  <2> QED
    BY <2>3, <2>6, <2>7
<1> QED
  BY <1>4, <1>5

(* A NACK that is kept is for a process in use.                             *)
LEMMA UlKeptFollowed ==
  ASSUME NEW avail, NEW aged, NEW all, NEW fs, NEW fed, NEW retx, NEW g, NEW o, NEW data,
         UlFeedbackDone(aged, all, fs, fed),
         UlSlotFilled(avail, fed, retx, g, o, data),
         NEW ue \in UEs, NEW id \in Ids, Has(retx.kept, ue, id)
  PROVE  Active(data, ue, id)
<1>1. PICK j \in 1 .. Len(retx.kept) : Of(retx.kept[j], ue, id)
  BY DEF Has
<1>2. PICK k \in 1 .. Len(fed.nacks) : retx.kept[j] = fed.nacks[k]
  BY Zenon DEF UlSlotFilled, UlRetxTo
<1>3. Active(fed.table, ue, id)
  BY <1>1, <1>2, Zenon DEF UlFeedbackDone, MarkedAll, AllActive, Of
<1>4. Active(retx.table, ue, id)
  BY <1>3 DEF UlSlotFilled, UlRetxTo
<1> QED
  BY <1>4, UlGrantsFree

(* A slot leaves every active process followed up once at most.             *)
LEMMA UlSlotKeepsFollowed ==
  ASSUME NEW avail \in Symbols, UlTyped, UlFollowed, MaxDelay <= NumHarqProcess,
         DoSchedUlTriggerReq(avail)
  PROVE  UlFollowed'
<1>1. PICK aged, all, fs, fed, retx, g, o, data :
        /\ UlFeedbackDone(aged, all, fs, fed)
        /\ UlSlotFilled(avail, fed, retx, g, o, data)
        /\ UlSlotEnds(avail, retx, g, data)
  BY UlSlotSteps
<1>2. PICK B, ks : B = UlBlocks(retx, g) /\ ks = retx.kept
  OBVIOUS
<1>3. PICK old, new :
        /\ old = {[a EXCEPT !.age = @ + 1] : a \in ulOnAir}
        /\ new = {[ue |-> b[1], id |-> b[2], age |-> 0] : b \in B}
  OBVIOUS
<1>4. ulHarq' = data /\ ulWaiting' = ks /\ ulReceived' = <<>> /\ ulOnAir' = old \union new
  BY <1>1, <1>2, <1>3 DEF UlSlotEnds
<1>5. ASSUME NEW x \in old
      PROVE  \E a \in ulOnAir : /\ x.ue = a.ue /\ x.id = a.id /\ x.age = a.age + 1
                                /\ x = [a EXCEPT !.age = @ + 1]
  <2>1. PICK a \in ulOnAir : x = [a EXCEPT !.age = @ + 1]
    BY <1>3
  <2>2. a \in UlReports
    BY DEF UlTyped
  <2> QED
    BY <2>1, <2>2 DEF UlReports
<1>6. ASSUME NEW x \in new
      PROVE  \E b \in B : /\ x.ue = b[1] /\ x.id = b[2] /\ x.age = 0
                          /\ x = [ue |-> b[1], id |-> b[2], age |-> 0]
  BY <1>3
<1>7. ASSUME NEW a \in ulOnAir
      PROVE  /\ Active(data, a.ue, a.id) /\ data.procs[a.ue][a.id].timer = a.age + 1
             /\ <<a.ue, a.id>> \notin B /\ ~Has(ks, a.ue, a.id)
  <2>1. a.age < MaxDelay
    BY <1>1 DEF UlSlotEnds
  <2> QED
    BY <1>1, <1>2, <2>1, UlOldFollowed
<1>8. ASSUME NEW b \in B
      PROVE  /\ Active(data, b[1], b[2]) /\ data.procs[b[1]][b[2]].timer = 0
             /\ ~Has(ks, b[1], b[2]) /\ b = <<b[1], b[2]>>
  <2>1. b \in UlBlocks(retx, g)
    BY <1>2
  <2>2. b = <<b[1], b[2]>>
    <3>1. CASE b \in retx.sent
      BY <1>1, <3>1 DEF UlSlotFilled, UlRetxTo, Pairs
    <3>2. CASE b \notin retx.sent
      BY <2>1, <3>2 DEF UlBlocks
    <3> QED
      BY <3>1, <3>2
  <2> QED
    BY <1>1, <1>2, <2>1, <2>2, UlNewFollowed
<1>9. ASSUME NEW x \in old \union new
      PROVE  UlTimed(data, x) /\ ~Has(ks, x.ue, x.id)
  <2>1. CASE x \in old
    BY <1>5, <1>7, <2>1 DEF UlTimed
  <2>2. CASE x \in new
    BY <1>6, <1>8, <2>2 DEF UlTimed
  <2> QED
    BY <2>1, <2>2
<1>10. ASSUME NEW x \in old \union new, NEW y \in old \union new, x.ue = y.ue, x.id = y.id
       PROVE  x = y
  <2>1. CASE x \in old /\ y \in old
    <3>1. PICK a \in ulOnAir, c \in ulOnAir :
            /\ x.ue = a.ue /\ x.id = a.id /\ x = [a EXCEPT !.age = @ + 1]
            /\ y.ue = c.ue /\ y.id = c.id /\ y = [c EXCEPT !.age = @ + 1]
      BY <1>5, <2>1
    <3>2. a = c
      BY <1>10, <3>1 DEF UlFollowed
    <3> QED
      BY <3>1, <3>2
  <2>2. CASE x \in new /\ y \in new
    <3>1. PICK b \in B, c \in B :
            /\ x.ue = b[1] /\ x.id = b[2] /\ x = [ue |-> b[1], id |-> b[2], age |-> 0]
            /\ y.ue = c[1] /\ y.id = c[2] /\ y = [ue |-> c[1], id |-> c[2], age |-> 0]
      BY <1>6, <2>2
    <3> QED
      BY <1>10, <3>1
  <2>3. ASSUME NEW a \in ulOnAir, NEW b \in B, a.ue = b[1], a.id = b[2] PROVE FALSE
    <3>1. <<a.ue, a.id>> = b
      BY <1>8, <2>3
    <3> QED
      BY <1>7, <3>1
  <2>4. CASE x \in old /\ y \in new
    <3>1. PICK a \in ulOnAir : x.ue = a.ue /\ x.id = a.id
      BY <1>5, <2>4
    <3>2. PICK b \in B : y.ue = b[1] /\ y.id = b[2]
      BY <1>6, <2>4
    <3> QED
      BY <1>10, <2>3, <3>1, <3>2
  <2>5. CASE x \in new /\ y \in old
    <3>1. PICK a \in ulOnAir : y.ue = a.ue /\ y.id = a.id
      BY <1>5, <2>5
    <3>2. PICK b \in B : x.ue = b[1] /\ x.id = b[2]
      BY <1>6, <2>5
    <3> QED
      BY <1>10, <2>3, <3>1, <3>2
  <2> QED
    BY <2>1, <2>2, <2>4, <2>5
<1>11. \A i \in 1 .. Len(<<>>) : FALSE
  OBVIOUS
<1>12. Apart(ulReceived') /\ \A ue, id : ~UlArrived(ue, id)'
  BY <1>4, <1>11 DEF Apart, UlArrived, Has
<1>13. Apart(ulWaiting')
  BY <1>1, <1>2, <1>4 DEF UlSlotFilled, UlRetxTo
<1>14. ASSUME NEW ue \in UEs, NEW id \in Ids
       PROVE  /\ ~ (UlOnAir(ue, id)' /\ UlWaits(ue, id)')
              /\ UlWaits(ue, id)' => Active(ulHarq', ue, id)
  <2>1. UlWaits(ue, id)' <=> Has(ks, ue, id)
    BY <1>4 DEF UlWaits
  <2>2. ASSUME NEW x \in old \union new, x.ue = ue, x.id = id PROVE ~Has(ks, ue, id)
    BY <1>9, <2>2
  <2>3. UlOnAir(ue, id)' => ~Has(ks, ue, id)
    BY <1>4, <2>2 DEF UlOnAir
  <2>4. Has(ks, ue, id) => Active(data, ue, id)
    BY <1>1, <1>2, UlKeptFollowed
  <2> QED
    BY <1>4, <2>1, <2>3, <2>4
<1> QED
  BY <1>4, <1>9, <1>10, <1>12, <1>13, <1>14 DEF UlFollowed

(* A report comes in, or is not coming at all.                              *)
LEMMA UlReportKeepsFollowed ==
  ASSUME NEW report \in ulOnAir, UlTyped, UlFollowed,
         DoUlHarqFeedback(report) \/ NothingSent(report)
  PROVE  UlFollowed'
<1>1. PICK ue \in UEs, id \in Ids : ue = report.ue /\ id = report.id
  BY DEF UlTyped, UlReports
<1>2. ulOnAir' = ulOnAir \ {report} /\ ulHarq' = ulHarq /\ ulWaiting' = ulWaiting
  BY DEF DoUlHarqFeedback, NothingSent
<1>3. ASSUME NEW v, NEW i
      PROVE  UlOnAir(v, i)' <=> UlOnAir(v, i) /\ ~ (v = ue /\ i = id)
  BY <1>1, <1>2 DEF UlOnAir, UlFollowed
<1>4. UlOnAir(ue, id)
  BY <1>1 DEF UlOnAir
<1>5. /\ \A a \in ulOnAir' : UlTimed(ulHarq', a)
      /\ \A a, b \in ulOnAir' : a.ue = b.ue /\ a.id = b.id => a = b
      /\ Apart(ulWaiting')
  BY <1>2 DEF UlFollowed
<1>6. \A v, i : UlWaits(v, i)' <=> UlWaits(v, i)
  BY <1>2 DEF UlWaits
<1>7. Active(ulHarq, ue, id)
  BY <1>1 DEF UlFollowed, UlTimed
<1>8. CASE NothingSent(report)
  <2>1. ulReceived' = ulReceived
    BY <1>8 DEF NothingSent
  <2>2. \A v, i : UlArrived(v, i)' <=> UlArrived(v, i)
    BY <2>1 DEF UlArrived
  <2>3. Apart(ulReceived')
    BY <2>1 DEF UlFollowed
  <2>4. \A v \in UEs, i \in Ids :
          /\ ~ (UlOnAir(v, i)' /\ UlArrived(v, i)')
          /\ ~ (UlOnAir(v, i)' /\ UlWaits(v, i)')
          /\ ~ (UlArrived(v, i)' /\ UlWaits(v, i)')
          /\ UlArrived(v, i)' \/ UlWaits(v, i)' => Active(ulHarq', v, i)
    BY <1>2, <1>3, <1>6, <2>2 DEF UlFollowed
  <2> QED
    BY <1>5, <2>3, <2>4 DEF UlFollowed
<1>9. CASE DoUlHarqFeedback(report)
  <2>1. PICK rs \in Seq(Feedbacks), n \in Nat : rs = ulReceived /\ n = Len(rs)
    <3>1. ulReceived \in Seq(Feedbacks) /\ Len(ulReceived) \in Nat
      BY LenProperties DEF UlTyped
    <3> QED
      BY <3>1
  <2>2. PICK ok, f : ok \in BOOLEAN /\ f = [ue |-> ue, id |-> id, ok |-> ok]
                     /\ ulReceived' = Append(rs, f)
    BY <1>1, <1>9, <2>1 DEF DoUlHarqFeedback
  <2>3. f \in Feedbacks /\ f.ue = ue /\ f.id = id
    BY <2>2 DEF Feedbacks
  <2>4. PICK qs \in Seq(Feedbacks) :
          /\ qs = ulReceived' /\ Len(qs) = n + 1
          /\ (\A j \in 1 .. n : qs[j] = rs[j]) /\ qs[n + 1] = f
    <3>1. Append(rs, f) \in Seq(Feedbacks) /\ Len(Append(rs, f)) = n + 1
          /\ (\A j \in 1 .. n : Append(rs, f)[j] = rs[j]) /\ Append(rs, f)[n + 1] = f
      BY <2>1, <2>3, AppendProperties
    <3> QED
      BY <2>2, <3>1
  <2>5. \A j \in 1 .. n + 1 : j = n + 1 \/ j \in 1 .. n
    OBVIOUS
  <2>6. n + 1 \in 1 .. n + 1 /\ \A j \in 1 .. n : j \in 1 .. n + 1
    OBVIOUS
  <2>7. ASSUME NEW v \in UEs, NEW i \in Ids
        PROVE  UlArrived(v, i)' <=> UlArrived(v, i) \/ (v = ue /\ i = id)
    <3>1. UlArrived(v, i) <=> \E j \in 1 .. n : Of(rs[j], v, i)
      BY <2>1 DEF UlArrived, Has
    <3>2. UlArrived(v, i)' <=> \E j \in 1 .. n + 1 : Of(qs[j], v, i)
      BY <2>4 DEF UlArrived, Has
    <3>3. Of(qs[n + 1], v, i) <=> v = ue /\ i = id
      BY <2>3, <2>4 DEF Of
    <3> QED
      BY <2>4, <2>5, <2>6, <3>1, <3>2, <3>3
  <2>8. Apart(ulReceived')
    <3>1. Apart(rs)
      BY <2>1 DEF UlFollowed
    <3>2. \A j \in 1 .. n : ~Of(rs[j], ue, id)
      BY <2>1, <1>4 DEF UlFollowed, UlArrived, Has
    <3>3. ASSUME NEW a \in 1 .. n + 1, NEW b \in 1 .. n + 1, a # b
          PROVE  ~Of(qs[a], qs[b].ue, qs[b].id)
      <4>1. CASE a = n + 1
        BY <2>3, <2>4, <2>5, <3>2, <3>3, <4>1 DEF Of
      <4>2. CASE b = n + 1
        BY <2>3, <2>4, <2>5, <3>2, <3>3, <4>2 DEF Of
      <4>3. CASE a \in 1 .. n /\ b \in 1 .. n
        BY <2>1, <2>4, <3>1, <3>3, <4>3 DEF Apart
      <4> QED
        BY <2>5, <4>1, <4>2, <4>3
    <3> QED
      BY <2>4, <3>3 DEF Apart
  <2>9. ASSUME NEW v \in UEs, NEW i \in Ids
        PROVE  /\ ~ (UlOnAir(v, i)' /\ UlArrived(v, i)')
               /\ ~ (UlOnAir(v, i)' /\ UlWaits(v, i)')
               /\ ~ (UlArrived(v, i)' /\ UlWaits(v, i)')
               /\ UlArrived(v, i)' \/ UlWaits(v, i)' => Active(ulHarq', v, i)
    BY <1>2, <1>3, <1>4, <1>6, <1>7, <2>7 DEF UlFollowed
  <2> QED
    BY <1>5, <2>8, <2>9 DEF UlFollowed
<1> QED
  BY <1>8, <1>9

(* Both invariants together: a slot keeps each of them only with the other. *)
LEMMA UlAlways ==
  ASSUME MaxDelay <= NumHarqProcess
  PROVE  UlSpec => [](UlTyped /\ UlFollowed)
<1>1. UlInit => UlTyped /\ UlFollowed
  <2>1. SUFFICES ASSUME UlInit PROVE UlTyped /\ UlFollowed
    OBVIOUS
  <2>2. FullSlot \in Symbols /\ FullSlot \in Nat
    BY FullSlotLongest
  <2>3. /\ ulHarq = EmptyTable /\ ulWaiting = <<>> /\ ulReceived = <<>> /\ ulOnAir = {}
        /\ ulSlot = [avail |-> FullSlot, fresh |-> FALSE, turn |-> FALSE]
    BY <2>1 DEF UlInit
  <2>4. \A i \in 1 .. Len(<<>>) : FALSE
    OBVIOUS
  <2>5. UlTyped
    <3>1. Good(ulHarq, FullSlot)
      BY <2>2, <2>3, EmptyGood
    <3>2. <<>> \in Seq(Feedbacks)
      BY EmptySeq
    <3>3. ulSlot \in [avail : Symbols, fresh : BOOLEAN, turn : BOOLEAN]
      BY <2>2, <2>3
    <3> QED
      BY <2>3, <2>4, <3>1, <3>2, <3>3 DEF UlTyped
  <2>6. /\ Apart(ulWaiting) /\ Apart(ulReceived)
        /\ \A ue, id : ~UlArrived(ue, id) /\ ~UlWaits(ue, id)
    BY <2>3, <2>4 DEF Apart, UlArrived, UlWaits, Has
  <2>7. \A ue, id : ~UlOnAir(ue, id)
    BY <2>3 DEF UlOnAir
  <2>8. UlFollowed
    BY <2>3, <2>6, <2>7 DEF UlFollowed
  <2> QED
    BY <2>5, <2>8
<1>2. UlTyped /\ UlFollowed /\ [UlNext]_ulVars => UlTyped' /\ UlFollowed'
  <2>1. SUFFICES ASSUME UlTyped, UlFollowed, [UlNext]_ulVars PROVE UlTyped' /\ UlFollowed'
    OBVIOUS
  <2>2. CASE UNCHANGED ulVars
    BY <2>1, <2>2 DEF UlTyped, UlFollowed, UlOnAir, UlArrived, UlWaits, ulVars
  <2>3. ASSUME NEW report \in ulOnAir, DoUlHarqFeedback(report) \/ NothingSent(report)
        PROVE  UlTyped' /\ UlFollowed'
    BY <2>1, <2>3, UlReportKeepsTyped, UlReportKeepsFollowed
  <2>4. ASSUME NEW avail \in Symbols, DoSchedUlTriggerReq(avail)
        PROVE  UlTyped' /\ UlFollowed'
    BY <2>1, <2>4, UlSlotKeepsTyped, UlSlotKeepsFollowed
  <2> QED
    BY <2>1, <2>2, <2>3, <2>4 DEF UlNext
<1> QED
  BY <1>1, <1>2, PTL DEF UlSpec

(* Followed up at most once is what FollowedAtMostOnce counts.              *)
LEMMA UlFollowedCounts ==
  ASSUME UlTyped, UlFollowed
  PROVE  FollowedAtMostOnce
<1>1. ASSUME NEW ue \in UEs, NEW id \in Ids
      PROVE  UlCount(ue, id) <= IF Active(ulHarq, ue, id) THEN 1 ELSE 0
  <2>1. PICK A, R, K :
          /\ A = {a \in ulOnAir : a.ue = ue /\ a.id = id}
          /\ R = {i \in 1 .. Len(ulReceived) : ulReceived[i].ue = ue /\ ulReceived[i].id = id}
          /\ K = {i \in 1 .. Len(ulWaiting) : ulWaiting[i].ue = ue /\ ulWaiting[i].id = id}
    OBVIOUS
  <2>2. Cardinality({}) = 0 /\ \A x : Cardinality({x}) = 1
    BY FS_EmptySet, FS_Singleton
  <2>3. Cardinality(A) = IF UlOnAir(ue, id) THEN 1 ELSE 0
    <3>1. CASE UlOnAir(ue, id)
      <4>1. PICK a \in ulOnAir : a.ue = ue /\ a.id = id
        BY <3>1 DEF UlOnAir
      <4>2. A = {a}
        BY <2>1, <4>1 DEF UlFollowed
      <4> QED
        BY <2>2, <3>1, <4>2
    <3>2. CASE ~UlOnAir(ue, id)
      <4>1. A = {}
        BY <2>1, <3>2 DEF UlOnAir
      <4> QED
        BY <2>2, <3>2, <4>1
    <3> QED
      BY <3>1, <3>2
  <2>4. ASSUME NEW fs, Apart(fs), NEW S,
               S = {i \in 1 .. Len(fs) : fs[i].ue = ue /\ fs[i].id = id}
        PROVE  Cardinality(S) = IF Has(fs, ue, id) THEN 1 ELSE 0
    <3>1. CASE Has(fs, ue, id)
      <4>1. PICK i \in 1 .. Len(fs) : Of(fs[i], ue, id)
        BY <3>1 DEF Has
      <4>2. S = {i}
        BY <2>4, <4>1 DEF Apart, Of
      <4> QED
        BY <2>2, <3>1, <4>2
    <3>2. CASE ~Has(fs, ue, id)
      <4>1. S = {}
        BY <2>4, <3>2 DEF Has, Of
      <4> QED
        BY <2>2, <3>2, <4>1
    <3> QED
      BY <3>1, <3>2
  <2>5. Cardinality(R) = IF UlArrived(ue, id) THEN 1 ELSE 0
    BY <2>1, <2>4 DEF UlFollowed, UlArrived
  <2>6. Cardinality(K) = IF UlWaits(ue, id) THEN 1 ELSE 0
    BY <2>1, <2>4 DEF UlFollowed, UlWaits
  <2>7. UlCount(ue, id) = Cardinality(A) + Cardinality(R) + Cardinality(K)
    BY <2>1 DEF UlCount
  <2>8. UlOnAir(ue, id) => Active(ulHarq, ue, id)
    BY DEF UlOnAir, UlFollowed, UlTimed
  <2>9. CASE UlOnAir(ue, id)
    BY <2>3, <2>5, <2>6, <2>7, <2>8, <2>9 DEF UlFollowed
  <2>10. CASE ~UlOnAir(ue, id)
    BY <2>3, <2>5, <2>6, <2>7, <2>10 DEF UlFollowed
  <2> QED
    BY <2>9, <2>10
<1> QED
  BY <1>1 DEF FollowedAtMostOnce

(* For every number of UEs, processes, RBGs and symbols: when the PHY       *)
(* reports on a block before the timer of its process runs out, no          *)
(* assertion of the uplink scheduler fails.  Without that bound one does:   *)
(* a late NACK and that of the block that has the process by then, in one   *)
(* slot, send it again twice, and the second time it waits for no           *)
(* retransmission.                                                          *)
THEOREM UlTypeCorrect ==
  ASSUME MaxDelay <= NumHarqProcess
  PROVE  UlSpec => []UlTypeOK
<1>1. UlTyped => UlTypeOK
  <2>1. SUFFICES ASSUME UlTyped PROVE UlTypeOK
    OBVIOUS
  <2>2. TableOK(ulHarq, FullSlot)
    BY <2>1, FullSlotLongest, GoodIsOK DEF UlTyped
  <2>3. ASSUME NEW i \in 1 .. Len(ulWaiting)
        PROVE  ulWaiting[i] \in [ue : UEs, id : Ids, ok : {FALSE}]
    <3>1. ulWaiting \in Seq(Feedbacks) /\ ~ulWaiting[i].ok
      BY <2>1 DEF UlTyped
    <3>2. ulWaiting[i] \in Feedbacks
      BY <3>1, ElementOfSeq
    <3> QED
      BY <3>1, <3>2 DEF Feedbacks
  <2> QED
    BY <2>1, <2>2, <2>3 DEF UlTyped, UlTypeOK, UlReports, Feedbacks
<1> QED
  BY <1>1, UlAlways, PTL

(* For every value of the constants with reports in time: a process in use  *)
(* has one report to come, one that is in or one NACK that is kept, at      *)
(* most, and a free process none, so no feedback is taken for that of       *)
(* another block.                                                           *)
THEOREM UlFollowedAtMostOnce ==
  ASSUME MaxDelay <= NumHarqProcess
  PROVE  UlSpec => []FollowedAtMostOnce
<1>1. UlTyped /\ UlFollowed => FollowedAtMostOnce
  BY UlFollowedCounts
<1> QED
  BY <1>1, UlAlways, PTL
=============================================================================
