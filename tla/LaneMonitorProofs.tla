------------------------- MODULE LaneMonitorProofs --------------------------
(***************************************************************************)
(* Proofs about LaneMonitor for every set of lanes, nodes, targets and     *)
(* signatures, every threshold and any number of process deaths.           *)
(***************************************************************************)
EXTENDS LaneMonitor, LanePoolProofs

USE LanesAssumption, ThresholdAssumption, NoneAssumption,
    RejectAssumption, SignatureAssumption, TargetAssumption, ModesAssumption,
    BehavioursAssumption, DeathsAssumption

\* StartCycle: a cycle begins with a snapshot of the rows.
LEMMA StartCycleInv ==
  ASSUME MonitorInv, NEW m \in CheckModes, StartCycle(m)
  PROVE  MonitorInv'
  <1> USE DEF MonitorInv, StartCycle, poolVars, cycleVars, searchVars
  <1>1. TypeOK'
    BY RowColumns DEF TypeOK, PoolTypeOK, MonitorTypeOK, Steps, LanesOf
  <1>2. running'
    OBVIOUS
  <1>3. DistinctNodes'
    BY DEF DistinctNodes, LanesOf, TypeOK, PoolTypeOK, MonitorTypeOK
  <1>4. SearchShape'
    BY DEF SearchShape, Searching, FailingOver, TypeOK, PoolTypeOK, MonitorTypeOK
  <1>5. CandidatesFree'
    BY DEF CandidatesFree, SearchShape, Searching, FailingOver, LeasedNodes, LanesOf, TypeOK,
       PoolTypeOK, MonitorTypeOK
  <1>6. CountsMatch'
    BY DEF CountsMatch, SearchShape, Searching, FailingOver, Replacing, InSnapshot, TypeOK,
       PoolTypeOK, MonitorTypeOK
  <1>7. SnapshotCurrent'
    BY DEF SnapshotCurrent, SearchShape, Searching, FailingOver, Replacing, InSnapshot, LanesOf,
       TypeOK, PoolTypeOK, MonitorTypeOK
  <1>8. RouteInv'
    BY DEF RouteInv, SearchShape, Searching, FailingOver, RouteOf, Leased, TypeOK, PoolTypeOK,
       MonitorTypeOK
  <1> QED
    BY <1>1, <1>2, <1>3, <1>4, <1>5, <1>6, <1>7, <1>8

\* ProbeLane: a probe result arrives.
LEMMA ProbeLaneInv ==
  ASSUME MonitorInv, NEW l \in Lanes, ProbeLane(l)
  PROVE  MonitorInv'
  <1> USE DEF MonitorInv, ProbeLane, poolVars, cycleVars, searchVars
  <1>1. TypeOK'
    BY DEF TypeOK, PoolTypeOK, MonitorTypeOK, Steps, Ips, Observed, Outcomes,
       InSnapshot, NoResult
  <1>2. running'
    OBVIOUS
  <1>3. DistinctNodes'
    BY DEF DistinctNodes, LanesOf, TypeOK, PoolTypeOK, MonitorTypeOK
  <1>4. SearchShape'
    BY DEF SearchShape, Searching, FailingOver, TypeOK, PoolTypeOK, MonitorTypeOK
  <1>5. CandidatesFree'
    BY DEF CandidatesFree, SearchShape, Searching, FailingOver, LeasedNodes, LanesOf, TypeOK,
       PoolTypeOK, MonitorTypeOK
  <1>6. CountsMatch'
    BY DEF CountsMatch, SearchShape, Searching, FailingOver, Replacing, InSnapshot, TypeOK,
       PoolTypeOK, MonitorTypeOK
  <1>7. SnapshotCurrent'
    BY DEF SnapshotCurrent, SearchShape, Searching, FailingOver, Replacing, InSnapshot, LanesOf,
       TypeOK, PoolTypeOK, MonitorTypeOK
  <1>8. RouteInv'
    BY DEF RouteInv, SearchShape, Searching, FailingOver, RouteOf, Leased, TypeOK, PoolTypeOK,
       MonitorTypeOK
  <1> QED
    BY <1>1, <1>2, <1>3, <1>4, <1>5, <1>6, <1>7, <1>8

\* RecordResult: a result is recorded for the node.
LEMMA RecordResultInv ==
  ASSUME MonitorInv, NEW l \in Lanes, RecordResult(l)
  PROVE  MonitorInv'
  <1> USE DEF MonitorInv, RecordResult, poolVars, cycleVars, searchVars
  <1>1. TypeOK'
    <2>1. l \in InSnapshot
      BY DEF Lowest, SnapshotCurrent
    <2>2. snapshot[l] \in Nodes
      BY <2>1 DEF InSnapshot, TypeOK, PoolTypeOK, MonitorTypeOK
    <2>3. qualified' \in [Targets -> SUBSET Nodes]
      BY <2>2 DEF RecordProbe, Judged, TypeOK, PoolTypeOK, MonitorTypeOK
    <2> QED
      BY <2>3 DEF TypeOK, PoolTypeOK, MonitorTypeOK, Steps
  <1>2. running'
    OBVIOUS
  <1>3. DistinctNodes'
    BY DEF DistinctNodes, LanesOf, TypeOK, PoolTypeOK, MonitorTypeOK
  <1>4. SearchShape'
    BY DEF SearchShape, Searching, FailingOver, TypeOK, PoolTypeOK, MonitorTypeOK
  <1>5. CandidatesFree'
    BY DEF CandidatesFree
  <1>6. CountsMatch'
    BY DEF CountsMatch, Searching, FailingOver, Replacing, InSnapshot, TypeOK,
       PoolTypeOK, MonitorTypeOK
  <1>7. SnapshotCurrent'
    BY DEF SnapshotCurrent, Searching, FailingOver, Replacing, InSnapshot, LanesOf,
       TypeOK, PoolTypeOK, MonitorTypeOK
  <1>8. RouteInv'
    BY DEF RouteInv, RouteOf, Leased
  <1> QED
    BY <1>1, <1>2, <1>3, <1>4, <1>5, <1>6, <1>7, <1>8

\* CheckLane: and it is counted in the row of the lane.
LEMMA CheckLaneInv ==
  ASSUME MonitorInv, NEW l \in Lanes, CheckLane(l)
  PROVE  MonitorInv'
  <1> USE DEF MonitorInv, CheckLane, poolVars, cycleVars, searchVars
  <1> DEFINE healthy == results[l].outcome = "ok"
  <1>a. healthy \in BOOLEAN /\ RecordLaneCheck(l, healthy) /\ PoolTypeOK
    BY DEF TypeOK
  <1>b. l \in plan
    BY DEF Lowest
  <1>c. /\ leases' \in [Lanes -> LeaseRow \cup {NoLease}]
        /\ counted' = [counted EXCEPT ![l] = leases'[l].failures]
        /\ leases'[l].failures \in Failures
        /\ \A k \in Lanes : leases'[k].node = leases[k].node
        /\ \A k \in Lanes : leases'[k].target = leases[k].target
        /\ \A k \in Lanes \ {l} : leases'[k] = leases[k]
        /\ \A k \in Lanes : (leases'[k] # NoLease) <=> (leases[k] # NoLease)
    BY <1>a, LaneCheckType, ZenonT(40)
  <1> HIDE DEF healthy
  <1>1. TypeOK'
    BY <1>c DEF TypeOK, PoolTypeOK, MonitorTypeOK, Steps
  <1>2. running'
    OBVIOUS
  <1>3. DistinctNodes'
    <2>1. DistinctNodes
      OBVIOUS
    <2> QED
      BY ONLY <1>c, <2>1 DEF DistinctNodes, LanesOf
  <1>4. SearchShape'
    BY DEF SearchShape, Searching, FailingOver, TypeOK, PoolTypeOK, MonitorTypeOK
  <1>5. CandidatesFree'
    BY DEF CandidatesFree
  <1>6. CountsMatch'
    BY <1>b, <1>c DEF CountsMatch, Searching, FailingOver, Replacing, InSnapshot, TypeOK,
       PoolTypeOK, MonitorTypeOK
  <1>7. SnapshotCurrent'
    BY <1>b, <1>c DEF SnapshotCurrent, Searching, FailingOver, Replacing, InSnapshot, LanesOf,
       TypeOK, PoolTypeOK, MonitorTypeOK
  <1>8. RouteInv'
    BY <1>c DEF RouteInv, RouteOf, Leased, SearchShape, Searching, FailingOver, TypeOK,
       PoolTypeOK, MonitorTypeOK
  <1> QED
    BY <1>1, <1>2, <1>3, <1>4, <1>5, <1>6, <1>7, <1>8

\* Decide: the lanes to replace are chosen.
LEMMA DecideInv ==
  ASSUME MonitorInv, Decide
  PROVE  MonitorInv'
  <1> USE DEF MonitorInv, Decide, poolVars, cycleVars, searchVars
  <1>1. TypeOK'
    BY DEF TypeOK, PoolTypeOK, MonitorTypeOK, Steps, LanesToReplace, Failing, Lowest,
       Eligible, InSnapshot
  <1>2. running'
    OBVIOUS
  <1>3. DistinctNodes'
    BY DEF DistinctNodes, LanesOf, TypeOK, PoolTypeOK, MonitorTypeOK
  <1>4. SearchShape'
    BY DEF SearchShape, Searching, FailingOver, TypeOK, PoolTypeOK, MonitorTypeOK
  <1>5. CandidatesFree'
    BY DEF CandidatesFree, SearchShape, Searching, FailingOver, LeasedNodes, LanesOf, TypeOK,
       PoolTypeOK, MonitorTypeOK
  <1>6. CountsMatch'
    BY DEF CountsMatch, Searching, FailingOver, Replacing, LanesToReplace, Failing, Lowest, Eligible,
       InSnapshot, TypeOK, PoolTypeOK, MonitorTypeOK
  <1>7. SnapshotCurrent'
    BY DEF SnapshotCurrent, SearchShape, Searching, FailingOver, Replacing, LanesToReplace, Failing,
       Lowest, Eligible, InSnapshot, LanesOf, NoLane, TypeOK, PoolTypeOK,
       MonitorTypeOK
  <1>8. RouteInv'
    BY DEF RouteInv, SearchShape, Searching, FailingOver, RouteOf, Leased, TypeOK, PoolTypeOK,
       MonitorTypeOK
  <1> QED
    BY <1>1, <1>2, <1>3, <1>4, <1>5, <1>6, <1>7, <1>8

\* NextLane: the failover of a lane begins.
LEMMA NextLaneInv ==
  ASSUME MonitorInv, NEW l \in Lanes, NextLane(l)
  PROVE  MonitorInv'
  <1> USE DEF MonitorInv, NextLane, poolVars, cycleVars, searchVars
  <1>1. TypeOK'
    BY DEF TypeOK, PoolTypeOK, MonitorTypeOK, Steps, Lowest
  <1>2. running'
    OBVIOUS
  <1>3. DistinctNodes'
    BY DEF DistinctNodes, LanesOf, TypeOK, PoolTypeOK, MonitorTypeOK
  <1>4. SearchShape'
    BY DEF SearchShape, Searching, FailingOver, TypeOK, PoolTypeOK, MonitorTypeOK
  <1>5. CandidatesFree'
    BY DEF CandidatesFree, SearchShape, Searching, FailingOver, LeasedNodes, LanesOf, TypeOK,
       PoolTypeOK, MonitorTypeOK
  <1>6. CountsMatch'
    BY DEF CountsMatch, Searching, FailingOver, Replacing, Lowest, TypeOK, PoolTypeOK, MonitorTypeOK
  <1>7. SnapshotCurrent'
    BY DEF SnapshotCurrent, Searching, FailingOver, Replacing, Lowest, InSnapshot, LanesOf,
       NoLane, TypeOK, PoolTypeOK, MonitorTypeOK
  <1>8. RouteInv'
    BY DEF RouteInv, SearchShape, Searching, FailingOver, RouteOf, Leased, TypeOK, PoolTypeOK,
       MonitorTypeOK
  <1> QED
    BY <1>1, <1>2, <1>3, <1>4, <1>5, <1>6, <1>7, <1>8

\* EndCycle: the cycle ends.
LEMMA EndCycleInv ==
  ASSUME MonitorInv, EndCycle
  PROVE  MonitorInv'
  <1> USE DEF MonitorInv, EndCycle, poolVars, cycleVars, searchVars, ForgetCycle, ForgetSearch
  <1>1. TypeOK'
    BY DEF TypeOK, PoolTypeOK, MonitorTypeOK, Steps, NoSnapshot, NoResults, NoCounts,
       NoLane, Failures
  <1>2. running'
    OBVIOUS
  <1>3. DistinctNodes'
    BY DEF DistinctNodes, LanesOf, TypeOK, PoolTypeOK, MonitorTypeOK
  <1>4. SearchShape'
    BY DEF SearchShape, Searching, FailingOver, TypeOK, PoolTypeOK, MonitorTypeOK
  <1>5. CandidatesFree'
    BY DEF CandidatesFree, SearchShape, Searching, FailingOver, LeasedNodes, LanesOf, TypeOK,
       PoolTypeOK, MonitorTypeOK
  <1>6. CountsMatch'
    BY DEF CountsMatch, SearchShape, Searching, FailingOver, Replacing, InSnapshot, TypeOK,
       PoolTypeOK, MonitorTypeOK
  <1>7. SnapshotCurrent'
    BY DEF SnapshotCurrent, SearchShape, Searching, FailingOver, Replacing, InSnapshot, LanesOf,
       TypeOK, PoolTypeOK, MonitorTypeOK
  <1>8. RouteInv'
    BY DEF RouteInv, SearchShape, Searching, FailingOver, RouteOf, Leased, TypeOK, PoolTypeOK,
       MonitorTypeOK
  <1> QED
    BY <1>1, <1>2, <1>3, <1>4, <1>5, <1>6, <1>7, <1>8

\* LoadCandidates: the candidates are read.
LEMMA LoadCandidatesInv ==
  ASSUME MonitorInv, LoadCandidates
  PROVE  MonitorInv'
  <1> USE DEF MonitorInv, LoadCandidates, ReserveOf, poolVars, cycleVars, searchVars
  <1>1. TypeOK'
    <2>1. LeasedNodes(Target) \subseteq Nodes
      BY RowColumns DEF LeasedNodes, LanesOf, TypeOK, PoolTypeOK, MonitorTypeOK
    <2>2. seen' \in SUBSET Ips
      BY <2>1 DEF KnownIps, Ips
    <2>3. todo' \in SUBSET Nodes
      BY DEF TypeOK, PoolTypeOK, MonitorTypeOK
    <2> QED
      BY <2>2, <2>3 DEF TypeOK, PoolTypeOK, MonitorTypeOK, Steps
  <1>2. running'
    OBVIOUS
  <1>3. DistinctNodes'
    BY DEF DistinctNodes, LanesOf, TypeOK, PoolTypeOK, MonitorTypeOK
  <1>4. SearchShape'
    BY DEF SearchShape, Searching, FailingOver, TypeOK, PoolTypeOK, MonitorTypeOK
  <1>5. CandidatesFree'
    BY DEF CandidatesFree, SearchShape, Searching, FailingOver, LeasedNodes, LanesOf, TypeOK,
       PoolTypeOK, MonitorTypeOK
  <1>6. CountsMatch'
    BY DEF CountsMatch, SearchShape, Searching, FailingOver, Replacing, InSnapshot, TypeOK,
       PoolTypeOK, MonitorTypeOK
  <1>7. SnapshotCurrent'
    BY DEF SnapshotCurrent, SearchShape, Searching, FailingOver, Replacing, InSnapshot, LanesOf,
       TypeOK, PoolTypeOK, MonitorTypeOK
  <1>8. RouteInv'
    BY DEF RouteInv, SearchShape, Searching, FailingOver, RouteOf, Leased, TypeOK, PoolTypeOK,
       MonitorTypeOK
  <1> QED
    BY <1>1, <1>2, <1>3, <1>4, <1>5, <1>6, <1>7, <1>8

\* TryCandidate: a candidate is put on the lane.
LEMMA TryCandidateInv ==
  ASSUME MonitorInv, NEW n \in Nodes, TryCandidate(n)
  PROVE  MonitorInv'
  <1> USE DEF MonitorInv, TryCandidate, poolVars, cycleVars, searchVars
  <1>1. TypeOK'
    BY DEF TypeOK, PoolTypeOK, MonitorTypeOK, Steps, Ips, SeenWith, Select
  <1>2. running'
    OBVIOUS
  <1>3. DistinctNodes'
    BY DEF DistinctNodes, LanesOf, TypeOK, PoolTypeOK, MonitorTypeOK
  <1>4. SearchShape'
    BY DEF SearchShape, Searching, FailingOver, TypeOK, PoolTypeOK, MonitorTypeOK
  <1>5. CandidatesFree'
    BY DEF CandidatesFree, LeasedNodes, LanesOf, NextCandidates, FirstTier, FreshIp,
       TypeOK, PoolTypeOK, MonitorTypeOK
  <1>6. CountsMatch'
    BY DEF CountsMatch, SearchShape, Searching, FailingOver, Replacing, InSnapshot, TypeOK,
       PoolTypeOK, MonitorTypeOK
  <1>7. SnapshotCurrent'
    BY DEF SnapshotCurrent, SearchShape, Searching, FailingOver, Replacing, InSnapshot, LanesOf,
       TypeOK, PoolTypeOK, MonitorTypeOK
  <1>8. RouteInv'
    BY DEF RouteInv, RouteOf, Leased, SearchShape, Searching, FailingOver, Select, TypeOK,
       PoolTypeOK, MonitorTypeOK
  <1> QED
    BY <1>1, <1>2, <1>3, <1>4, <1>5, <1>6, <1>7, <1>8

\* CandidateFails: a candidate is found unhealthy.
LEMMA CandidateFailsInv ==
  ASSUME MonitorInv, CandidateFails
  PROVE  MonitorInv'
  <1> USE DEF MonitorInv, CandidateFails, poolVars, cycleVars, searchVars
  <1>1. TypeOK'
    BY DEF TypeOK, PoolTypeOK, MonitorTypeOK, Steps, RecordProbe, Judged
  <1>2. running'
    OBVIOUS
  <1>3. DistinctNodes'
    BY DEF DistinctNodes, LanesOf, TypeOK, PoolTypeOK, MonitorTypeOK
  <1>4. SearchShape'
    BY DEF SearchShape, Searching, FailingOver, TypeOK, PoolTypeOK, MonitorTypeOK
  <1>5. CandidatesFree'
    BY DEF CandidatesFree, SearchShape, Searching, FailingOver, LeasedNodes, LanesOf, TypeOK,
       PoolTypeOK, MonitorTypeOK
  <1>6. CountsMatch'
    BY DEF CountsMatch, SearchShape, Searching, FailingOver, Replacing, InSnapshot, TypeOK,
       PoolTypeOK, MonitorTypeOK
  <1>7. SnapshotCurrent'
    BY DEF SnapshotCurrent, SearchShape, Searching, FailingOver, Replacing, InSnapshot, LanesOf,
       TypeOK, PoolTypeOK, MonitorTypeOK
  <1>8. RouteInv'
    BY DEF RouteInv, SearchShape, Searching, FailingOver, RouteOf, Leased, TypeOK, PoolTypeOK,
       MonitorTypeOK
  <1> QED
    BY <1>1, <1>2, <1>3, <1>4, <1>5, <1>6, <1>7, <1>8

\* CandidateVerified: a candidate is found healthy.
LEMMA CandidateVerifiedInv ==
  ASSUME MonitorInv, CandidateVerified
  PROVE  MonitorInv'
  <1> USE DEF MonitorInv, CandidateVerified, poolVars, cycleVars, searchVars
  <1>1. TypeOK'
    <2>1. cand \in Nodes
      BY DEF SearchShape
    <2>2. qualified' \in [Targets -> SUBSET Nodes]
      BY <2>1 DEF RecordProbe, Judged, TypeOK, PoolTypeOK
    <2>3. PoolTypeOK'
      BY <2>2 DEF TypeOK, PoolTypeOK
    <2> QED
      BY <2>3 DEF TypeOK, MonitorTypeOK, Steps
  <1>2. running'
    OBVIOUS
  <1>3. DistinctNodes'
    BY DEF DistinctNodes, LanesOf, TypeOK, PoolTypeOK, MonitorTypeOK
  <1>4. SearchShape'
    BY DEF SearchShape, Searching, FailingOver, TypeOK, PoolTypeOK, MonitorTypeOK
  <1>5. CandidatesFree'
    BY DEF CandidatesFree, SearchShape, Searching, FailingOver, LeasedNodes, LanesOf, TypeOK,
       PoolTypeOK, MonitorTypeOK
  <1>6. CountsMatch'
    BY DEF CountsMatch, SearchShape, Searching, FailingOver, Replacing, InSnapshot, TypeOK,
       PoolTypeOK, MonitorTypeOK
  <1>7. SnapshotCurrent'
    BY DEF SnapshotCurrent, SearchShape, Searching, FailingOver, Replacing, InSnapshot, LanesOf,
       TypeOK, PoolTypeOK, MonitorTypeOK
  <1>8. RouteInv'
    BY DEF RouteInv, SearchShape, Searching, FailingOver, Observed, RouteOf, Leased, TypeOK,
       PoolTypeOK, MonitorTypeOK
  <1> QED
    BY <1>1, <1>2, <1>3, <1>4, <1>5, <1>6, <1>7, <1>8

\* CandidateLeased: a candidate becomes the lease.
LEMMA CandidateLeasedInv ==
  ASSUME MonitorInv, CandidateLeased
  PROVE  MonitorInv'
  <1> USE DEF MonitorInv, CandidateLeased, poolVars, cycleVars, searchVars
  <1>a. lane \in Lanes /\ cand \in Nodes /\ PoolTypeOK
    BY DEF SearchShape, Searching, FailingOver, TypeOK
  <1>b. /\ leases' \in [Lanes -> LeaseRow \cup {NoLease}]
        /\ leases'[lane] # NoLease
        /\ leases'[lane].node = cand
        /\ \A k \in Lanes \ {lane} : leases'[k] = leases[k]
    BY <1>a, ReplaceType
  <1>c. deaths = 0 => selected[lane] = cand
    BY DEF RouteInv
  <1>1. TypeOK'
    BY <1>a, <1>b DEF TypeOK, PoolTypeOK, MonitorTypeOK, Steps, NoLane
  <1>2. running'
    OBVIOUS
  <1>3. DistinctNodes'
    <2>1. \A k \in LanesOf(Target) : leases[k].node # cand
      BY DEF CandidatesFree, LeasedNodes
    <2>2. \A k \in LanesOf(Target)' : k = lane \/ (k \in LanesOf(Target) /\ leases'[k] = leases[k])
      BY <1>b DEF LanesOf
    <2> QED
      BY <1>b, <2>1, <2>2 DEF DistinctNodes
  <1>4. SearchShape'
    BY DEF SearchShape, Searching, FailingOver, TypeOK, PoolTypeOK, MonitorTypeOK
  <1>5. CandidatesFree'
    BY DEF CandidatesFree, SearchShape, Searching, FailingOver, LeasedNodes, LanesOf, TypeOK,
       PoolTypeOK, MonitorTypeOK
  <1>6. CountsMatch'
    BY <1>a, <1>b DEF CountsMatch, SearchShape, Searching, FailingOver, Replacing, TypeOK,
       PoolTypeOK, MonitorTypeOK
  <1>7. SnapshotCurrent'
    <2>1. lane \notin plan /\ lane \in LanesOf(Target)'
      BY <1>a DEF SearchShape, Searching, FailingOver, LanesOf, ReplaceLease, PoolTypeOK
    <2> QED
      BY <1>b, <2>1 DEF SnapshotCurrent, Searching, FailingOver, Replacing, LanesOf
  <1>8. RouteInv'
    BY <1>a, <1>b, <1>c DEF RouteInv, RouteOf, Leased, TypeOK, PoolTypeOK, MonitorTypeOK
  <1> QED
    BY <1>1, <1>2, <1>3, <1>4, <1>5, <1>6, <1>7, <1>8

\* RereadLease: the row the lane was given is there.
LEMMA RereadLeaseInv ==
  ASSUME MonitorInv, RereadLease
  PROVE  MonitorInv'
  <1> USE DEF MonitorInv, RereadLease, poolVars, cycleVars, searchVars, ForgetSearch
  <1>0. pc' = "plan" /\ ForgetSearch /\ UNCHANGED cooling
    BY DEF SnapshotCurrent, FailingOver
  <1>1. TypeOK'
    BY <1>0 DEF TypeOK, PoolTypeOK, MonitorTypeOK, Steps, NoLane
  <1>2. running'
    OBVIOUS
  <1>3. DistinctNodes'
    BY DEF DistinctNodes, LanesOf
  <1>4. SearchShape'
    BY <1>0 DEF SearchShape, Searching, FailingOver
  <1>5. CandidatesFree'
    BY <1>0 DEF CandidatesFree
  <1>6. CountsMatch'
    BY <1>0 DEF CountsMatch, Searching, FailingOver, Replacing
  <1>7. SnapshotCurrent'
    BY <1>0 DEF SnapshotCurrent, Searching, FailingOver, Replacing, LanesOf
  <1>8. RouteInv'
    BY <1>0 DEF RouteInv, RouteOf, Leased
  <1> QED
    BY <1>1, <1>2, <1>3, <1>4, <1>5, <1>6, <1>7, <1>8

\* RestoreRoute: the old route is restored.
LEMMA RestoreRouteInv ==
  ASSUME MonitorInv, RestoreRoute
  PROVE  MonitorInv'
  <1> USE DEF MonitorInv, RestoreRoute, RouteBack, NotReplaced, poolVars, cycleVars, searchVars,
          ForgetSearch
  <1>a. lane \in Lanes /\ lane # NoLane
    BY DEF SearchShape, Searching, FailingOver, NoLane
  <1>b. lane \in LanesOf(Target) /\ snapshot[lane] = leases[lane].node
    BY <1>a DEF SnapshotCurrent, Searching, FailingOver, Replacing
  <1>c. leases[lane].node \in Nodes /\ Leased(lane)
    BY <1>a, <1>b, RowColumns DEF LanesOf, Leased, NoLease, TypeOK
  <1>1. TypeOK'
    <2>1. selected' \in [Lanes -> Nodes \cup {Reject}]
      BY <1>a, <1>b, <1>c DEF Select, TypeOK, PoolTypeOK, MonitorTypeOK
    <2>2. pc' \in Steps /\ cooling' \in BOOLEAN
      BY DEF Steps, TypeOK, PoolTypeOK, MonitorTypeOK
    <2>3. /\ lane' \in Lanes \cup {NoLane} /\ round' \in 1 .. 2
          /\ todo' \in SUBSET Nodes /\ seen' \in SUBSET Ips
          /\ cand' \in Nodes \cup {None}
      BY DEF TypeOK, PoolTypeOK, MonitorTypeOK, NoLane
    <2> QED
      BY <2>1, <2>2, <2>3 DEF TypeOK, PoolTypeOK, MonitorTypeOK
  <1>2. running'
    OBVIOUS
  <1>3. DistinctNodes'
    BY DEF DistinctNodes, LanesOf, TypeOK, PoolTypeOK, MonitorTypeOK
  <1>4. SearchShape'
    BY DEF SearchShape, Searching, FailingOver, TypeOK, PoolTypeOK, MonitorTypeOK
  <1>5. CandidatesFree'
    BY DEF CandidatesFree, SearchShape, Searching, FailingOver, LeasedNodes, LanesOf, TypeOK,
       PoolTypeOK, MonitorTypeOK
  <1>6. CountsMatch'
    BY DEF CountsMatch, SearchShape, Searching, FailingOver, Replacing, InSnapshot, TypeOK,
       PoolTypeOK, MonitorTypeOK
  <1>7. SnapshotCurrent'
    BY DEF SnapshotCurrent, SearchShape, Searching, FailingOver, Replacing, InSnapshot, LanesOf,
       TypeOK, PoolTypeOK, MonitorTypeOK
  <1>8. RouteInv'
    BY <1>a, <1>b, <1>c DEF RouteInv, RouteOf, Leased, Select, TypeOK, PoolTypeOK,
       MonitorTypeOK
  <1> QED
    BY <1>1, <1>2, <1>3, <1>4, <1>5, <1>6, <1>7, <1>8

\* Inventory: a new inventory is taken.
LEMMA InventoryInv ==
  ASSUME MonitorInv, Inventory
  PROVE  MonitorInv'
  <1> USE DEF MonitorInv, Inventory, poolVars, cycleVars, searchVars
  <1>1. TypeOK'
    BY DEF TypeOK, PoolTypeOK, MonitorTypeOK, Steps
  <1>2. running'
    OBVIOUS
  <1>3. DistinctNodes'
    BY DEF DistinctNodes, LanesOf, TypeOK, PoolTypeOK, MonitorTypeOK
  <1>4. SearchShape'
    BY DEF SearchShape, Searching, FailingOver, TypeOK, PoolTypeOK, MonitorTypeOK
  <1>5. CandidatesFree'
    BY DEF CandidatesFree, SearchShape, Searching, FailingOver, LeasedNodes, LanesOf, TypeOK,
       PoolTypeOK, MonitorTypeOK
  <1>6. CountsMatch'
    BY DEF CountsMatch, SearchShape, Searching, FailingOver, Replacing, InSnapshot, TypeOK,
       PoolTypeOK, MonitorTypeOK
  <1>7. SnapshotCurrent'
    BY DEF SnapshotCurrent, SearchShape, Searching, FailingOver, Replacing, InSnapshot, LanesOf,
       TypeOK, PoolTypeOK, MonitorTypeOK
  <1>8. RouteInv'
    BY DEF RouteInv, SearchShape, Searching, FailingOver, RouteOf, Leased, TypeOK, PoolTypeOK,
       MonitorTypeOK
  <1> QED
    BY <1>1, <1>2, <1>3, <1>4, <1>5, <1>6, <1>7, <1>8

\* InventoryFails: the inventory fails.
LEMMA InventoryFailsInv ==
  ASSUME MonitorInv, InventoryFails
  PROVE  MonitorInv'
  <1> USE DEF MonitorInv, InventoryFails, poolVars, cycleVars, searchVars, ForgetSearch
  <1>1. TypeOK'
    BY DEF TypeOK, PoolTypeOK, MonitorTypeOK, Steps, NoLane
  <1>2. running'
    OBVIOUS
  <1>3. DistinctNodes'
    BY DEF DistinctNodes, LanesOf, TypeOK, PoolTypeOK, MonitorTypeOK
  <1>4. SearchShape'
    BY DEF SearchShape, Searching, FailingOver, TypeOK, PoolTypeOK, MonitorTypeOK
  <1>5. CandidatesFree'
    BY DEF CandidatesFree, SearchShape, Searching, FailingOver, LeasedNodes, LanesOf, TypeOK,
       PoolTypeOK, MonitorTypeOK
  <1>6. CountsMatch'
    BY DEF CountsMatch, SearchShape, Searching, FailingOver, Replacing, InSnapshot, TypeOK,
       PoolTypeOK, MonitorTypeOK
  <1>7. SnapshotCurrent'
    BY DEF SnapshotCurrent, SearchShape, Searching, FailingOver, Replacing, InSnapshot, LanesOf,
       TypeOK, PoolTypeOK, MonitorTypeOK
  <1>8. RouteInv'
    BY DEF RouteInv, SearchShape, Searching, FailingOver, RouteOf, Leased, TypeOK, PoolTypeOK,
       MonitorTypeOK
  <1> QED
    BY <1>1, <1>2, <1>3, <1>4, <1>5, <1>6, <1>7, <1>8

\* MonitorDies: the process is killed.
LEMMA MonitorDiesInv ==
  ASSUME MonitorInv, MonitorDies
  PROVE  MonitorInv'
  <1> USE DEF MonitorInv, MonitorDies, poolVars, cycleVars, searchVars, ForgetCycle, ForgetSearch
  <1>1. TypeOK'
    BY DEF TypeOK, PoolTypeOK, MonitorTypeOK, Steps, NoSnapshot, NoResults, NoCounts,
       NoLane, Failures
  <1>2. running'
    OBVIOUS
  <1>3. DistinctNodes'
    BY DEF DistinctNodes, LanesOf, TypeOK, PoolTypeOK, MonitorTypeOK
  <1>4. SearchShape'
    BY DEF SearchShape, Searching, FailingOver, TypeOK, PoolTypeOK, MonitorTypeOK
  <1>5. CandidatesFree'
    BY DEF CandidatesFree, SearchShape, Searching, FailingOver, LeasedNodes, LanesOf, TypeOK,
       PoolTypeOK, MonitorTypeOK
  <1>6. CountsMatch'
    BY DEF CountsMatch, SearchShape, Searching, FailingOver, Replacing, InSnapshot, TypeOK,
       PoolTypeOK, MonitorTypeOK
  <1>7. SnapshotCurrent'
    BY DEF SnapshotCurrent, SearchShape, Searching, FailingOver, Replacing, InSnapshot, LanesOf,
       TypeOK, PoolTypeOK, MonitorTypeOK
  <1>8. RouteInv'
    BY DEF RouteInv, SearchShape, Searching, FailingOver, RouteOf, Leased, TypeOK, PoolTypeOK,
       MonitorTypeOK
  <1> QED
    BY <1>1, <1>2, <1>3, <1>4, <1>5, <1>6, <1>7, <1>8

\* A step that changes neither the leases and routes nor the locals of the
\* process, but for the cooldown, keeps the invariant.
LEMMA FrameInv ==
  ASSUME MonitorInv, TypeOK',
         UNCHANGED <<leases, selected, running, pc, cycleVars, plan, searchVars, deaths>>
  PROVE  MonitorInv'
  <1> USE DEF cycleVars, searchVars
  <1>1. DistinctNodes' /\ running'
    BY DEF MonitorInv, DistinctNodes, LanesOf
  <1>2. SearchShape'
    BY DEF MonitorInv, SearchShape, Searching, FailingOver
  <1>3. CandidatesFree'
    BY DEF MonitorInv, CandidatesFree, LeasedNodes, LanesOf
  <1>4. CountsMatch'
    BY DEF MonitorInv, CountsMatch, Searching, FailingOver, Replacing, InSnapshot
  <1>5. SnapshotCurrent'
    BY DEF MonitorInv, SnapshotCurrent, Replacing, Searching, FailingOver, InSnapshot, LanesOf
  <1>6. RouteInv'
    BY DEF MonitorInv, RouteInv, RouteOf, Leased
  <1> QED
    BY <1>1, <1>2, <1>3, <1>4, <1>5, <1>6 DEF MonitorInv

\* The other processes and the outside world: a node changes, a row expires,
\* the maintenance judges a node, the cooldown elapses.
LEMMA EnvironmentInv ==
  ASSUME MonitorInv, CooldownElapses \/ Disturbance \/ Maintenance
  PROVE  MonitorInv'
  <1> USE DEF MonitorInv
  <1>1. CASE CooldownElapses
    <2>1. TypeOK'
      BY <1>1 DEF CooldownElapses, poolVars, cycleVars, searchVars,
                  TypeOK, PoolTypeOK, MonitorTypeOK
    <2> QED
      BY <1>1, <2>1, FrameInv DEF CooldownElapses, poolVars
  <1>2. CASE MonitorDies
    BY <1>2, MonitorDiesInv
  <1>3. ASSUME UNCHANGED <<leases, selected, running, monitorVars>>, PoolTypeOK'
        PROVE  MonitorInv'
    <2>1. TypeOK'
      BY <1>3 DEF TypeOK, MonitorTypeOK, monitorVars, cycleVars, searchVars
    <2> QED
      BY <1>3, <2>1, FrameInv DEF monitorVars
  <1>4. ASSUME NEW n \in Nodes, NEW o \in Behaviours[n],
               NodeChanges(Target, n, o), UNCHANGED monitorVars
        PROVE  MonitorInv'
    <2>1. PoolTypeOK'
      BY <1>4 DEF TypeOK, PoolTypeOK, NodeChanges
    <2> QED
      BY <1>3, <1>4, <2>1 DEF NodeChanges
  <1>5. ASSUME NEW n \in Nodes, Expire(Target, n), UNCHANGED monitorVars
        PROVE  MonitorInv'
    <2>1. PoolTypeOK'
      BY <1>5 DEF TypeOK, PoolTypeOK, Expire
    <2> QED
      BY <1>3, <1>5, <2>1 DEF Expire
  <1>6. ASSUME NEW n \in Nodes, ReserveProbe(Target, n), UNCHANGED monitorVars
        PROVE  MonitorInv'
    <2>1. qualified' \in [Targets -> SUBSET Nodes]
      BY <1>6 DEF TypeOK, PoolTypeOK, ReserveProbe, RecordProbe, Judged
    <2>2. PoolTypeOK'
      BY <1>6, <2>1 DEF TypeOK, PoolTypeOK, ReserveProbe
    <2> QED
      BY <1>3, <1>6, <2>2 DEF ReserveProbe
  <1> QED
    BY <1>1, <1>2, <1>4, <1>5, <1>6 DEF Disturbance, Maintenance

\* The invariant holds initially.
LEMMA InitInv == Init => MonitorInv
  <1> SUFFICES ASSUME Init PROVE MonitorInv
    OBVIOUS
  <1> USE DEF Init, PoolInit, MonitorInit
  <1>1. PICK f \in [Lanes -> Nodes \cup {None}] :
          /\ \A l, k \in Lanes : l # k /\ f[l] # None => f[l] # f[k]
          /\ leases = [l \in Lanes |->
                       IF f[l] = None THEN NoLease
                       ELSE [target |-> Target, node |-> f[l], failures |-> 0]]
          /\ selected = [l \in Lanes |-> IF f[l] = None THEN Reject ELSE f[l]]
          /\ qualified = [t \in Targets |-> {n \in Nodes : \E l \in Lanes : f[l] = n}]
    OBVIOUS
  <1>2. leases \in [Lanes -> LeaseRow \cup {NoLease}]
    BY <1>1 DEF LeaseRow, Failures
  <1>3. PoolTypeOK
    BY <1>1, <1>2 DEF PoolTypeOK, Outcomes
  <1>4. MonitorTypeOK
    BY DEF MonitorTypeOK, Steps, NoSnapshot, NoResults, NoCounts, NoLane, Failures
  <1>5. \A l \in LanesOf(Target) : f[l] # None /\ leases[l].node = f[l]
    BY <1>1 DEF LanesOf, NoLease
  <1>6. DistinctNodes
    BY <1>1, <1>5 DEF DistinctNodes, LanesOf
  <1>7. SearchShape /\ CandidatesFree /\ CountsMatch /\ SnapshotCurrent
    BY DEF SearchShape, CandidatesFree, CountsMatch, SnapshotCurrent, Searching, FailingOver,
       Replacing
  <1>8. RouteInv
    BY <1>1 DEF RouteInv, RouteOf, Leased, NoLease
  <1> QED
    BY <1>3, <1>4, <1>6, <1>7, <1>8 DEF MonitorInv, TypeOK

\* Every step of the monitor and of its environment keeps the invariant.
LEMMA NextInv == MonitorInv /\ [Next]_vars => MonitorInv'
  <1> SUFFICES ASSUME MonitorInv, [Next]_vars PROVE MonitorInv'
    OBVIOUS
  <1>1. CASE MonitorStep
    BY <1>1, StartCycleInv, ProbeLaneInv, RecordResultInv, CheckLaneInv, DecideInv, NextLaneInv,
       EndCycleInv, LoadCandidatesInv, TryCandidateInv, CandidateFailsInv,
       CandidateVerifiedInv, CandidateLeasedInv, RereadLeaseInv, RestoreRouteInv, InventoryInv, InventoryFailsInv
    DEF MonitorStep
  <1>2. CASE CooldownElapses \/ Disturbance \/ Maintenance
    BY <1>2, EnvironmentInv
  <1>3. CASE UNCHANGED vars
    BY <1>3 DEF vars, poolVars, monitorVars, cycleVars, searchVars,
         MonitorInv, TypeOK, PoolTypeOK, MonitorTypeOK, DistinctNodes, SearchShape,
         CandidatesFree, CountsMatch, SnapshotCurrent, RouteInv, Searching, FailingOver,
         Replacing, InSnapshot, LanesOf, LeasedNodes, RouteOf, Leased
  <1> QED
    BY <1>1, <1>2, <1>3 DEF Next

\* The inductive invariant holds in every reachable state of the monitor.
THEOREM MonitorInvariant == Spec => []MonitorInv
  BY InitInv, NextInv, PTL DEF Spec

\* Every variable keeps its type, for every value of the constants.
THEOREM TypeCorrectness == Spec => []TypeOK
  <1>1. MonitorInv => TypeOK
    BY DEF MonitorInv
  <1> QED
    BY <1>1, MonitorInvariant, PTL

\* No two lanes of the target ever lease the same node.
THEOREM LanesKeepDistinctNodes == Spec => []DistinctNodes
  <1>1. MonitorInv => DistinctNodes
    BY DEF MonitorInv
  <1> QED
    BY <1>1, MonitorInvariant, PTL

\* Traffic leaves the leased node only on the lane under failover, after the
\* threshold, as long as the process is not killed.
THEOREM TrafficOnLease == Spec => []TrafficStaysOnLease
  <1>1. MonitorInv => TrafficStaysOnLease
    BY DEF MonitorInv, RouteInv, CountsMatch, SearchShape, Searching, FailingOver,
       TrafficStaysOnLease
  <1> QED
    BY <1>1, MonitorInvariant, PTL

\* A step that touches the selector or the node of a lane is a step of the
\* failover of that lane.
LEMMA StepMovesOneLane ==
  ASSUME MonitorInv, [Next]_vars, NEW l \in Lanes,
         selected'[l] # selected[l] \/ leases'[l].node # leases[l].node
  PROVE  l = lane /\ Searching
  <1>1. CASE \E k \in Lanes : CheckLane(k)
    <2>1. PICK k \in Lanes : CheckLane(k)
      BY <1>1
    <2>2. PoolTypeOK /\ (results[k].outcome = "ok") \in BOOLEAN
      BY DEF MonitorInv, TypeOK
    <2>3. \A j \in Lanes : leases'[j].node = leases[j].node
      BY <2>1, <2>2, LaneCheckType DEF CheckLane
    <2> QED
      BY <2>1, <2>3 DEF CheckLane
  <1>2. CASE CandidateLeased
    <2>1. lane \in Lanes /\ cand \in Nodes /\ PoolTypeOK
      BY <1>2 DEF CandidateLeased, MonitorInv, SearchShape, Searching, FailingOver, TypeOK
    <2>2. \A k \in Lanes \ {lane} : leases'[k] = leases[k]
      BY <1>2, <2>1, ReplaceType DEF CandidateLeased
    <2> QED
      BY <1>2, <2>2 DEF CandidateLeased, Searching, FailingOver
  <1>3. CASE (\E n \in Nodes : TryCandidate(n)) \/ RestoreRoute
    BY <1>3 DEF TryCandidate, RestoreRoute, RouteBack, Select, Searching, FailingOver, MonitorInv, TypeOK,
       PoolTypeOK
  <1>4. CASE UNCHANGED <<leases, selected>>
    BY <1>4
  <1> QED
    BY <1>1, <1>2, <1>3, <1>4
    DEF Next, MonitorStep, Disturbance, Maintenance, StartCycle, ProbeLane, RecordResult, Decide,
        NextLane, EndCycle, LoadCandidates, CandidateFails, CandidateVerified, RereadLease, Inventory, InventoryFails,
        CooldownElapses, MonitorDies, NodeChanges, Expire, ReserveProbe, vars, poolVars

\* No lane below the threshold is ever rerouted or given another node, however
\* often the process is killed.
THEOREM HealthyLanesUntouched == Spec => OnlyFailedLanesMove
  <1>1. MonitorInv /\ [Next]_vars =>
          [\A l \in Lanes :
             selected'[l] # selected[l] \/ leases'[l].node # leases[l].node
               => leases[l].failures >= Threshold]_vars
    BY StepMovesOneLane DEF MonitorInv, CountsMatch
  <1> QED
    BY <1>1, MonitorInvariant, PTL DEF Spec, OnlyFailedLanesMove

\* The table of leases, seen as LaneAssignment does, changes only by giving
\* one lane that holds a node another node that no lane holds.
LEMMA StepAssigns ==
  ASSUME MonitorInv, CandidateLeased
  PROVE  Assignment!Next
  <1>1. lane \in Lanes /\ cand \in Nodes /\ PoolTypeOK
    BY DEF CandidateLeased, MonitorInv, SearchShape, Searching, FailingOver, TypeOK
  <1>2. lane \in LanesOf(Target)
    BY <1>1 DEF CandidateLeased, MonitorInv, SnapshotCurrent, Replacing, Searching, FailingOver,
       NoLane
  <1>3. /\ leases'[lane].node = cand /\ leases'[lane].target = Target
        /\ \A k \in Lanes \ {lane} : leases'[k] = leases[k]
    BY <1>1, ReplaceType DEF CandidateLeased
  <1>4. Holder[lane] # None
    BY <1>1, <1>2, RowColumns DEF LanesOf, Holder
  <1>5. cand \notin {Holder[l] : l \in Lanes} \ {None}
    BY <1>1 DEF CandidateLeased, MonitorInv, CandidatesFree, LeasedNodes, Holder
  <1>6. Holder' = [Holder EXCEPT ![lane] = cand]
    BY <1>1, <1>3 DEF LanesOf, Holder
  <1> QED
    BY <1>1, <1>4, <1>5, <1>6 DEF Assignment!Next, Assignment!Move, Assignment!Held

\* The monitor implements LaneAssignment.
THEOREM ImplementsLaneAssignment == Spec => ImplementsAssignment
  <1>1. Init => Assignment!Init
    <2> SUFFICES ASSUME Init PROVE Assignment!Init
      OBVIOUS
    <2>1. PoolTypeOK /\ DistinctNodes
      BY InitInv DEF MonitorInv, TypeOK
    <2>2. \A l \in LanesOf(Target) : leases[l].node \in Nodes
      BY <2>1, RowColumns DEF LanesOf
    <2> QED
      BY <2>1, <2>2 DEF Assignment!Init, Holder, DistinctNodes, LanesOf
  <1>2. ASSUME MonitorInv, [Next]_vars PROVE Assignment!Next \/ UNCHANGED Holder
    <2>1. CASE CandidateLeased
      BY <1>2, <2>1, StepAssigns
    <2>2. CASE ~CandidateLeased
      <3>1. \A l \in Lanes : leases'[l].node = leases[l].node /\ leases'[l].target = leases[l].target
        <4>1. CASE \E k \in Lanes : CheckLane(k)
          <5>1. PICK k \in Lanes : CheckLane(k)
            BY <4>1
          <5>2. PoolTypeOK /\ (results[k].outcome = "ok") \in BOOLEAN
            BY <1>2 DEF MonitorInv, TypeOK
          <5> QED
            BY <5>1, <5>2, LaneCheckType DEF CheckLane
        <4>2. CASE UNCHANGED leases
          BY <4>2
        <4> QED
          BY <1>2, <2>2, <4>1, <4>2
          DEF Next, MonitorStep, Disturbance, Maintenance, StartCycle, ProbeLane, RecordResult, Decide,
              NextLane, EndCycle, LoadCandidates, TryCandidate, CandidateFails, CandidateVerified,
              RereadLease, RestoreRoute, RouteBack, Inventory, InventoryFails, CooldownElapses, MonitorDies,
              NodeChanges, Expire, ReserveProbe, vars, poolVars
      <3> QED
        BY <3>1 DEF LanesOf, Holder
    <2> QED
      BY <2>1, <2>2
  <1> QED
    BY <1>1, <1>2, MonitorInvariant, PTL DEF Spec, ImplementsAssignment, Assignment!Spec

\* What a shared failure is taken from does not change while lanes are replaced,
\* and the plan only shrinks.
LEMMA CanaryStep == MonitorInv /\ CanaryPlan /\ [Next]_vars => CanaryPlan'
  <1> SUFFICES ASSUME MonitorInv, CanaryPlan, [Next]_vars, Replacing', SharedFailure'
               PROVE  \A l \in plan' \cup {lane'} : l # NoLane => l \in Lowest(Eligible)'
    BY DEF CanaryPlan
  <1>1. CASE Decide
    <2>1. lane' = NoLane
      BY <1>1 DEF MonitorInv, SearchShape, Searching, FailingOver, Decide, searchVars
    <2>2. SharedFailure /\ Lowest(Eligible)' = Lowest(Eligible)
      BY <1>1 DEF Decide, cycleVars, SharedFailure, InSnapshot, TargetLevelFailure,
                  Lowest, Eligible
    <2> QED
      BY <1>1, <2>1, <2>2 DEF Decide, LanesToReplace, Failing
  <1>2. CASE /\ UNCHANGED cycleVars /\ Replacing
             /\ plan' \cup {lane'} \subseteq plan \cup {lane, NoLane}
    <2>1. SharedFailure /\ Lowest(Eligible)' = Lowest(Eligible)
      BY <1>2 DEF cycleVars, SharedFailure, InSnapshot, TargetLevelFailure,
                  Lowest, Eligible
    <2> QED
      BY <1>2, <2>1 DEF CanaryPlan
  <1>3. CASE EndCycle \/ MonitorDies
    BY <1>3 DEF EndCycle, MonitorDies, ForgetCycle, ForgetSearch, NoLane
  <1>4. CASE \E l \in Lanes : NextLane(l)
    BY <1>2, <1>4 DEF NextLane, Lowest, Replacing
  <1>5. CASE LoadCandidates \/ (\E n \in Nodes : TryCandidate(n)) \/ CandidateFails \/ CandidateVerified
    BY <1>2, <1>5 DEF LoadCandidates, ReserveOf, TryCandidate, CandidateFails,
       CandidateVerified, searchVars, Replacing, Searching, FailingOver
  <1>6. CASE CandidateLeased \/ RereadLease \/ RestoreRoute \/ Inventory \/ InventoryFails
    BY <1>2, <1>6 DEF CandidateLeased, RereadLease, NotReplaced, RestoreRoute, RouteBack, Inventory, InventoryFails,
       ForgetSearch, searchVars, Replacing, Searching, FailingOver
  <1>7. CASE UNCHANGED <<pc, cycleVars, plan, lane>>
    BY <1>2, <1>7 DEF Replacing, Searching, FailingOver
  <1>8. CASE \/ \E m \in CheckModes : StartCycle(m)
             \/ \E l \in Lanes : ProbeLane(l) \/ RecordResult(l) \/ CheckLane(l)
    BY <1>8 DEF StartCycle, ProbeLane, RecordResult, CheckLane, Replacing, Searching, FailingOver
  <1> QED
    BY <1>1, <1>3, <1>4, <1>5, <1>6, <1>7, <1>8
    DEF Next, MonitorStep, Disturbance, Maintenance, CooldownElapses,
        monitorVars, searchVars, vars

\* In a cycle that looks like an outage of the target, only the canary moves.
THEOREM OnlyCanaryMovesInOutage == Spec => OutageMovesOnlyCanary
  <1>1. Init => CanaryPlan
    BY DEF Init, MonitorInit, CanaryPlan, Replacing, Searching, FailingOver
  <1>2. MonitorInv /\ CanaryPlan /\ [Next]_vars =>
          [\A l \in Lanes :
             SharedFailure /\ (selected'[l] # selected[l] \/ leases'[l].node # leases[l].node)
               => l \in Lowest(Eligible)]_vars
    BY StepMovesOneLane, NoneAssumption DEF CanaryPlan, Replacing, FailingOver, NoLane
  <1> QED
    BY <1>1, <1>2, CanaryStep, MonitorInvariant, PTL DEF Spec, OutageMovesOnlyCanary

=============================================================================
