-------------------------- MODULE LanePoolProofs ---------------------------
(***************************************************************************)
(* Lemmas about the operations of LanePool, for the proofs about the       *)
(* processes that perform them.                                            *)
(***************************************************************************)
EXTENDS LanePool, TLAPS

USE ThresholdAssumption, NoneAssumption

\* Counting failures stays within the threshold.
LEMMA BumpType == \A k \in Failures : Bump(k) \in Failures
  BY DEF Bump, Failures

\* A row or an empty row has its three columns.
LEMMA RowColumns ==
  ASSUME PoolTypeOK, NEW l \in Lanes
  PROVE  /\ leases[l].failures \in Failures
         /\ leases[l].node \in Nodes \cup {None}
         /\ leases[l].target \in Targets \cup {None}
         /\ leases[l].target # None => leases[l].node \in Nodes
  BY DEF PoolTypeOK, LeaseRow, NoLease, Failures

\* record_probe keeps the type of the reserve.
LEMMA RecordProbeType ==
  ASSUME PoolTypeOK, NEW t, NEW n \in Nodes, NEW outcome, RecordProbe(t, n, outcome)
  PROVE  qualified' \in [Targets -> SUBSET Nodes]
  BY DEF PoolTypeOK, RecordProbe, Judged

\* record_lane_check keeps the type of the table and the binding of each lane.
LEMMA LaneCheckType ==
  ASSUME PoolTypeOK, NEW l \in Lanes, NEW healthy \in BOOLEAN,
         RecordLaneCheck(l, healthy)
  PROVE  /\ leases' \in [Lanes -> LeaseRow \cup {NoLease}]
         /\ CountAfter(l, healthy) \in Failures
         /\ leases'[l].failures = CountAfter(l, healthy)
         /\ \A k \in Lanes : leases'[k].node = leases[k].node
         /\ \A k \in Lanes : leases'[k].target = leases[k].target
         /\ \A k \in Lanes \ {l} : leases'[k] = leases[k]
         /\ \A k \in Lanes : (leases'[k] # NoLease) <=> (leases[k] # NoLease)
  <1>1. CountAfter(l, healthy) \in Failures
    BY RowColumns, BumpType DEF CountAfter, Failures
  <1>2. CASE leases[l] = NoLease
    BY <1>1, <1>2 DEF RecordLaneCheck, CountAfter, Leased, NoLease, PoolTypeOK, LeaseRow
  <1>3. CASE leases[l] # NoLease
    <2>1. leases[l] \in LeaseRow
      BY <1>3 DEF PoolTypeOK
    <2>2. [leases[l] EXCEPT !.failures = CountAfter(l, healthy)] \in LeaseRow
      BY <2>1, <1>1 DEF LeaseRow
    <2>3. leases' = [leases EXCEPT ![l] = [leases[l] EXCEPT !.failures = CountAfter(l, healthy)]]
      BY DEF RecordLaneCheck, PoolTypeOK
    <2>4. leases'[l].target \in Targets /\ leases'[l] # NoLease
      BY <2>1, <2>2, <2>3 DEF PoolTypeOK, LeaseRow, NoLease
    <2> QED
      BY <1>1, <2>1, <2>2, <2>3, <2>4, <1>3 DEF PoolTypeOK, LeaseRow
  <1> QED
    BY <1>2, <1>3

\* replace_lease keeps the type of the table and touches one lane.
LEMMA ReplaceType ==
  ASSUME PoolTypeOK, NEW l \in Lanes, NEW t \in Targets, NEW n \in Nodes,
         ReplaceLease(l, t, n)
  PROVE  /\ leases' \in [Lanes -> LeaseRow \cup {NoLease}]
         /\ leases'[l] # NoLease
         /\ leases'[l].node = n /\ leases'[l].target = t /\ leases'[l].failures = 0
         /\ \A k \in Lanes \ {l} : leases'[k] = leases[k]
  BY DEF ReplaceLease, PoolTypeOK, LeaseRow, NoLease, Failures

=============================================================================
