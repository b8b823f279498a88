------------------------- MODULE GatewayLanesProofs --------------------------
(***************************************************************************)
(* Proofs about the monitor and the keepers on one gateway, for every set  *)
(* of lanes, nodes and keepers, any number of crashes, kills and stops,    *)
(* and also when stop runs in the middle of a recovery.                    *)
(***************************************************************************)
EXTENDS GatewayLanes, LanePoolProofs

USE LanesAssumption, ThresholdAssumption, NoneAssumption, RejectAssumption, TargetAssumption,
    SignatureAssumption, ModesAssumption, BehavioursAssumption, DeathsAssumption, BoundsAssumption

LEMMA TargetLanesLeased == \A l \in LanesOf(Target) : Leased(l)
  BY DEF LanesOf, Leased, NoLease

-----------------------------------------------------------------------------
(* The monitor's steps.                                                    *)

\* StartCycle: the snapshot is of the rows as they are.
LEMMA StartCycleSystem ==
  ASSUME SystemInv, NEW m \in CheckModes, StartCycle(m), UNCHANGED recoveryVars
  PROVE  SystemInv'
  <1> USE DEF SystemInv, StartCycle, poolVars, cycleVars, searchVars, recoveryVars, stopVars
  <1>1. TypeOK'
    BY RowColumns DEF TypeOK, PoolTypeOK, MonitorTypeOK, Steps, LanesOf
  <1>2. RecoveryTypeOK' /\ (spc' # "off" => stops' > 0)
    BY DEF RecoveryTypeOK
  <1>3. DistinctNodes'
    BY DEF DistinctNodes, LanesOf
  <1>4. SearchShape'
    BY DEF SearchShape, Searching, FailingOver, TypeOK, PoolTypeOK, MonitorTypeOK
  <1>5. CandidatesFree'
    BY DEF CandidatesFree, LeasedNodes, LanesOf, SearchShape, Searching, FailingOver, TypeOK, PoolTypeOK, MonitorTypeOK
  <1>6. PlanInSnapshot'
    BY DEF PlanInSnapshot, InSnapshot, SearchShape, Searching, FailingOver, TypeOK, PoolTypeOK, MonitorTypeOK
  <1>7. CountsKept'
    BY DEF CountsKept, CountKept, Leased, SearchShape, Searching, FailingOver, Replacing, InSnapshot, TypeOK, PoolTypeOK, MonitorTypeOK
  <1>8. stops' = 0 => WorkLeased' /\ LanesClosed'
    BY DEF WorkLeased, LanesClosed, InSnapshot, LanesOf, Leased, TypeOK, PoolTypeOK, MonitorTypeOK
  <1> QED
    BY <1>1, <1>2, <1>3, <1>4, <1>5, <1>6, <1>7, <1>8

\* ProbeLane: a probe result arrives.
LEMMA ProbeLaneSystem ==
  ASSUME SystemInv, NEW l \in Lanes, ProbeLane(l), UNCHANGED recoveryVars
  PROVE  SystemInv'
  <1> USE DEF SystemInv, ProbeLane, poolVars, cycleVars, searchVars, recoveryVars, stopVars
  <1>1. TypeOK'
    BY DEF TypeOK, PoolTypeOK, MonitorTypeOK, Steps, Ips, Observed, Outcomes, InSnapshot, NoResult
  <1>2. RecoveryTypeOK' /\ (spc' # "off" => stops' > 0)
    BY DEF RecoveryTypeOK
  <1>3. DistinctNodes'
    BY DEF DistinctNodes, LanesOf
  <1>4. SearchShape'
    BY DEF SearchShape, Searching, FailingOver, TypeOK, PoolTypeOK, MonitorTypeOK
  <1>5. CandidatesFree'
    BY DEF CandidatesFree, LeasedNodes, LanesOf, SearchShape, Searching, FailingOver, TypeOK, PoolTypeOK, MonitorTypeOK
  <1>6. PlanInSnapshot'
    BY DEF PlanInSnapshot, InSnapshot, SearchShape, Searching, FailingOver, TypeOK, PoolTypeOK, MonitorTypeOK
  <1>7. CountsKept'
    BY DEF CountsKept, CountKept, Leased, SearchShape, Searching, FailingOver, Replacing, InSnapshot, TypeOK, PoolTypeOK, MonitorTypeOK
  <1>8. stops' = 0 => WorkLeased' /\ LanesClosed'
    BY DEF WorkLeased, LanesClosed, InSnapshot, LanesOf, Leased
  <1> QED
    BY <1>1, <1>2, <1>3, <1>4, <1>5, <1>6, <1>7, <1>8

\* Decide: what is planned has failed often enough, or is gone.
LEMMA DecideSystem ==
  ASSUME SystemInv, Decide, UNCHANGED recoveryVars
  PROVE  SystemInv'
  <1> USE DEF SystemInv, Decide, poolVars, cycleVars, searchVars, recoveryVars, stopVars
  <1>1. TypeOK'
    BY DEF TypeOK, PoolTypeOK, MonitorTypeOK, Steps, LanesToReplace, Failing, Lowest, Eligible, InSnapshot
  <1>2. RecoveryTypeOK' /\ (spc' # "off" => stops' > 0)
    BY DEF RecoveryTypeOK
  <1>3. DistinctNodes'
    BY DEF DistinctNodes, LanesOf
  <1>4. SearchShape'
    BY DEF SearchShape, Searching, FailingOver, TypeOK, PoolTypeOK, MonitorTypeOK
  <1>5. CandidatesFree'
    BY DEF CandidatesFree, LeasedNodes, LanesOf, SearchShape, Searching, FailingOver, TypeOK, PoolTypeOK, MonitorTypeOK
  <1>6. PlanInSnapshot'
    BY DEF PlanInSnapshot, LanesToReplace, Failing, Lowest, Eligible, InSnapshot, SearchShape, Searching, FailingOver, TypeOK, PoolTypeOK, MonitorTypeOK
  <1>7. CountsKept'
    <2>1. plan' \subseteq Eligible /\ lane' = NoLane /\ UNCHANGED leases
      BY DEF LanesToReplace, Failing, Lowest, SearchShape, Searching, FailingOver
    <2>2. ASSUME NEW l \in Eligible PROVE ~Leased(l) \/ leases[l].failures >= Threshold
      <3>1. l \in InSnapshot /\ l \in Lanes /\ counted[l] >= Threshold /\ counted[l] \in Nat
        BY DEF Eligible, InSnapshot, Failures, TypeOK, PoolTypeOK, MonitorTypeOK
      <3>2. leases[l].failures \in Nat
        <4>1. PoolTypeOK
          BY DEF TypeOK
        <4>2. leases[l].failures \in Failures
          BY ONLY <3>1, <4>1, RowColumns
        <4> QED
          BY ONLY <4>2, ThresholdAssumption DEF Failures
      <3>3. CountKept(l)
        BY <3>1 DEF CountsKept
      <3> QED
        BY <3>1, <3>2, <3>3 DEF CountKept
    <2> QED
      BY <2>1, <2>2 DEF CountsKept, Leased, Searching, FailingOver, Replacing
  <1>8. stops' = 0 => WorkLeased' /\ LanesClosed'
    BY DEF WorkLeased, LanesClosed, InSnapshot, LanesOf, Leased
  <1> QED
    BY <1>1, <1>2, <1>3, <1>4, <1>5, <1>6, <1>7, <1>8

\* NextLane: the failover of a planned lane begins.
LEMMA NextLaneSystem ==
  ASSUME SystemInv, NEW l \in Lanes, NextLane(l), UNCHANGED recoveryVars
  PROVE  SystemInv'
  <1> USE DEF SystemInv, NextLane, poolVars, cycleVars, searchVars, recoveryVars, stopVars
  <1>1. TypeOK'
    BY DEF TypeOK, PoolTypeOK, MonitorTypeOK, Steps, Lowest
  <1>2. RecoveryTypeOK' /\ (spc' # "off" => stops' > 0)
    BY DEF RecoveryTypeOK
  <1>3. DistinctNodes'
    BY DEF DistinctNodes, LanesOf
  <1>4. SearchShape'
    BY DEF SearchShape, Searching, FailingOver, TypeOK, PoolTypeOK, MonitorTypeOK
  <1>5. CandidatesFree'
    BY DEF CandidatesFree, LeasedNodes, LanesOf, SearchShape, Searching, FailingOver, TypeOK, PoolTypeOK, MonitorTypeOK
  <1>6. PlanInSnapshot'
    BY DEF PlanInSnapshot, InSnapshot, Lowest, TypeOK, PoolTypeOK, MonitorTypeOK
  <1>7. CountsKept'
    BY DEF CountsKept, Leased, Searching, FailingOver, Replacing, Lowest, TypeOK, PoolTypeOK, MonitorTypeOK
  <1>8. stops' = 0 => WorkLeased' /\ LanesClosed'
    BY DEF WorkLeased, LanesClosed, InSnapshot, LanesOf, Leased
  <1> QED
    BY <1>1, <1>2, <1>3, <1>4, <1>5, <1>6, <1>7, <1>8

\* EndCycle: the cycle forgets what it knew.
LEMMA EndCycleSystem ==
  ASSUME SystemInv, EndCycle, UNCHANGED recoveryVars
  PROVE  SystemInv'
  <1> USE DEF SystemInv, EndCycle, poolVars, cycleVars, searchVars, recoveryVars, stopVars, ForgetCycle, ForgetSearch
  <1>1. TypeOK'
    BY DEF TypeOK, PoolTypeOK, MonitorTypeOK, Steps, NoSnapshot, NoResults, NoCounts, NoLane, Failures
  <1>2. RecoveryTypeOK' /\ (spc' # "off" => stops' > 0)
    BY DEF RecoveryTypeOK
  <1>3. DistinctNodes'
    BY DEF DistinctNodes, LanesOf
  <1>4. SearchShape'
    BY DEF SearchShape, Searching, FailingOver, TypeOK, PoolTypeOK, MonitorTypeOK
  <1>5. CandidatesFree'
    BY DEF CandidatesFree, LeasedNodes, LanesOf, SearchShape, Searching, FailingOver, TypeOK, PoolTypeOK, MonitorTypeOK
  <1>6. PlanInSnapshot'
    BY DEF PlanInSnapshot, InSnapshot, NoSnapshot, NoLane
  <1>7. CountsKept'
    BY DEF CountsKept, CountKept, Leased, SearchShape, Searching, FailingOver, Replacing, InSnapshot, TypeOK, PoolTypeOK, MonitorTypeOK
  <1>8. stops' = 0 => WorkLeased' /\ LanesClosed'
    BY DEF WorkLeased, LanesClosed, InSnapshot, NoSnapshot, Leased
  <1> QED
    BY <1>1, <1>2, <1>3, <1>4, <1>5, <1>6, <1>7, <1>8

\* MonitorDies: so does a process that is killed.
LEMMA MonitorDiesSystem ==
  ASSUME SystemInv, MonitorDies, UNCHANGED recoveryVars
  PROVE  SystemInv'
  <1> USE DEF SystemInv, MonitorDies, poolVars, cycleVars, searchVars, recoveryVars, stopVars, ForgetCycle, ForgetSearch
  <1>1. TypeOK'
    BY DEF TypeOK, PoolTypeOK, MonitorTypeOK, Steps, NoSnapshot, NoResults, NoCounts, NoLane, Failures
  <1>2. RecoveryTypeOK' /\ (spc' # "off" => stops' > 0)
    BY DEF RecoveryTypeOK
  <1>3. DistinctNodes'
    BY DEF DistinctNodes, LanesOf
  <1>4. SearchShape'
    BY DEF SearchShape, Searching, FailingOver, TypeOK, PoolTypeOK, MonitorTypeOK
  <1>5. CandidatesFree'
    BY DEF CandidatesFree, LeasedNodes, LanesOf, SearchShape, Searching, FailingOver, TypeOK, PoolTypeOK, MonitorTypeOK
  <1>6. PlanInSnapshot'
    BY DEF PlanInSnapshot, InSnapshot, NoSnapshot, NoLane
  <1>7. CountsKept'
    BY DEF CountsKept, CountKept, Leased, SearchShape, Searching, FailingOver, Replacing, InSnapshot, TypeOK, PoolTypeOK, MonitorTypeOK
  <1>8. stops' = 0 => WorkLeased' /\ LanesClosed'
    BY DEF WorkLeased, LanesClosed, InSnapshot, NoSnapshot, Leased
  <1> QED
    BY <1>1, <1>2, <1>3, <1>4, <1>5, <1>6, <1>7, <1>8

\* LoadCandidates: the candidates are nodes no lane of the target leases.
LEMMA LoadCandidatesSystem ==
  ASSUME SystemInv, LoadCandidates, UNCHANGED recoveryVars
  PROVE  SystemInv'
  <1> USE DEF SystemInv, LoadCandidates, poolVars, cycleVars, searchVars, recoveryVars, stopVars, ReserveOf
  <1>1. TypeOK'
    <2>1. LeasedNodes(Target) \subseteq Nodes
      BY RowColumns DEF LeasedNodes, LanesOf, TypeOK, PoolTypeOK, MonitorTypeOK
    <2>2. seen' \in SUBSET Ips
      BY <2>1 DEF KnownIps, Ips
    <2>3. todo' \in SUBSET Nodes
      BY DEF TypeOK, PoolTypeOK, MonitorTypeOK
    <2> QED
      BY <2>2, <2>3 DEF TypeOK, PoolTypeOK, MonitorTypeOK, Steps
  <1>2. RecoveryTypeOK' /\ (spc' # "off" => stops' > 0)
    BY DEF RecoveryTypeOK
  <1>3. DistinctNodes'
    BY DEF DistinctNodes, LanesOf
  <1>4. SearchShape'
    BY DEF SearchShape, Searching, FailingOver, TypeOK, PoolTypeOK, MonitorTypeOK
  <1>5. CandidatesFree'
    BY DEF CandidatesFree, LeasedNodes, LanesOf, SearchShape, Searching, FailingOver, TypeOK, PoolTypeOK, MonitorTypeOK
  <1>6. PlanInSnapshot'
    BY DEF PlanInSnapshot, InSnapshot, SearchShape, Searching, FailingOver, TypeOK, PoolTypeOK, MonitorTypeOK
  <1>7. CountsKept'
    BY DEF CountsKept, CountKept, Leased, SearchShape, Searching, FailingOver, Replacing, InSnapshot, TypeOK, PoolTypeOK, MonitorTypeOK
  <1>8. stops' = 0 => WorkLeased' /\ LanesClosed'
    BY DEF WorkLeased, LanesClosed, InSnapshot, LanesOf, Leased
  <1> QED
    BY <1>1, <1>2, <1>3, <1>4, <1>5, <1>6, <1>7, <1>8

\* TryCandidate: the lane that is opened is leased, until stop is run.
LEMMA TryCandidateSystem ==
  ASSUME SystemInv, NEW n \in Nodes, TryCandidate(n), UNCHANGED recoveryVars
  PROVE  SystemInv'
  <1> USE DEF SystemInv, TryCandidate, poolVars, cycleVars, searchVars, recoveryVars, stopVars
  <1>a. lane \in Lanes /\ lane \in InSnapshot
    BY DEF SearchShape, Searching, FailingOver, PlanInSnapshot, NoLane, TypeOK, PoolTypeOK, MonitorTypeOK
  <1>1. TypeOK'
    BY <1>a DEF TypeOK, PoolTypeOK, MonitorTypeOK, Steps, Ips, SeenWith, Select
  <1>2. RecoveryTypeOK' /\ (spc' # "off" => stops' > 0)
    BY DEF RecoveryTypeOK
  <1>3. DistinctNodes'
    BY DEF DistinctNodes, LanesOf
  <1>4. SearchShape'
    BY DEF SearchShape, Searching, FailingOver, TypeOK, PoolTypeOK, MonitorTypeOK
  <1>5. CandidatesFree'
    BY DEF CandidatesFree, LeasedNodes, LanesOf, NextCandidates, FirstTier, FreshIp, TypeOK, PoolTypeOK, MonitorTypeOK
  <1>6. PlanInSnapshot'
    BY DEF PlanInSnapshot, InSnapshot, SearchShape, Searching, FailingOver, TypeOK, PoolTypeOK, MonitorTypeOK
  <1>7. CountsKept'
    BY DEF CountsKept, CountKept, Leased, SearchShape, Searching, FailingOver, Replacing, InSnapshot, TypeOK, PoolTypeOK, MonitorTypeOK
  <1>8. stops' = 0 => WorkLeased' /\ LanesClosed'
    BY <1>a, TargetLanesLeased DEF WorkLeased, LanesClosed, InSnapshot, LanesOf, Leased, Select, TypeOK, PoolTypeOK, MonitorTypeOK
  <1> QED
    BY <1>1, <1>2, <1>3, <1>4, <1>5, <1>6, <1>7, <1>8

\* CandidateFails: a candidate is found unhealthy.
LEMMA CandidateFailsSystem ==
  ASSUME SystemInv, CandidateFails, UNCHANGED recoveryVars
  PROVE  SystemInv'
  <1> USE DEF SystemInv, CandidateFails, poolVars, cycleVars, searchVars, recoveryVars, stopVars
  <1>1. TypeOK'
    BY DEF TypeOK, PoolTypeOK, MonitorTypeOK, Steps, RecordProbe, Judged
  <1>2. RecoveryTypeOK' /\ (spc' # "off" => stops' > 0)
    BY DEF RecoveryTypeOK
  <1>3. DistinctNodes'
    BY DEF DistinctNodes, LanesOf
  <1>4. SearchShape'
    BY DEF SearchShape, Searching, FailingOver, TypeOK, PoolTypeOK, MonitorTypeOK
  <1>5. CandidatesFree'
    BY DEF CandidatesFree, LeasedNodes, LanesOf, SearchShape, Searching, FailingOver, TypeOK, PoolTypeOK, MonitorTypeOK
  <1>6. PlanInSnapshot'
    BY DEF PlanInSnapshot, InSnapshot, SearchShape, Searching, FailingOver, TypeOK, PoolTypeOK, MonitorTypeOK
  <1>7. CountsKept'
    BY DEF CountsKept, CountKept, Leased, SearchShape, Searching, FailingOver, Replacing, InSnapshot, TypeOK, PoolTypeOK, MonitorTypeOK
  <1>8. stops' = 0 => WorkLeased' /\ LanesClosed'
    BY DEF WorkLeased, LanesClosed, InSnapshot, LanesOf, Leased
  <1> QED
    BY <1>1, <1>2, <1>3, <1>4, <1>5, <1>6, <1>7, <1>8

\* CandidateVerified: a candidate is found healthy.
LEMMA CandidateVerifiedSystem ==
  ASSUME SystemInv, CandidateVerified, UNCHANGED recoveryVars
  PROVE  SystemInv'
  <1> USE DEF SystemInv, CandidateVerified, poolVars, cycleVars, searchVars, recoveryVars, stopVars
  <1>1. TypeOK'
    <2>1. cand \in Nodes
      BY DEF SearchShape
    <2>2. qualified' \in [Targets -> SUBSET Nodes]
      BY <2>1 DEF RecordProbe, Judged, TypeOK, PoolTypeOK
    <2>3. PoolTypeOK'
      BY <2>2 DEF TypeOK, PoolTypeOK
    <2> QED
      BY <2>3 DEF TypeOK, MonitorTypeOK, Steps
  <1>2. RecoveryTypeOK' /\ (spc' # "off" => stops' > 0)
    BY DEF RecoveryTypeOK
  <1>3. DistinctNodes'
    BY DEF DistinctNodes, LanesOf
  <1>4. SearchShape'
    BY DEF SearchShape, Searching, FailingOver, TypeOK, PoolTypeOK, MonitorTypeOK
  <1>5. CandidatesFree'
    BY DEF CandidatesFree, LeasedNodes, LanesOf, SearchShape, Searching, FailingOver, TypeOK, PoolTypeOK, MonitorTypeOK
  <1>6. PlanInSnapshot'
    BY DEF PlanInSnapshot, InSnapshot, SearchShape, Searching, FailingOver, TypeOK, PoolTypeOK, MonitorTypeOK
  <1>7. CountsKept'
    BY DEF CountsKept, CountKept, Leased, SearchShape, Searching, FailingOver, Replacing, InSnapshot, TypeOK, PoolTypeOK, MonitorTypeOK
  <1>8. stops' = 0 => WorkLeased' /\ LanesClosed'
    BY DEF WorkLeased, LanesClosed, InSnapshot, LanesOf, Leased
  <1> QED
    BY <1>1, <1>2, <1>3, <1>4, <1>5, <1>6, <1>7, <1>8

\* RestoreRoute: the lane goes back to the node of the snapshot.
LEMMA RestoreRouteSystem ==
  ASSUME SystemInv, RestoreRoute, UNCHANGED recoveryVars
  PROVE  SystemInv'
  <1> USE DEF SystemInv, RestoreRoute, poolVars, cycleVars, searchVars, recoveryVars, stopVars, ForgetSearch, RouteBack,
          NotReplaced
  <1>a. lane \in Lanes /\ lane \in InSnapshot
    BY DEF SearchShape, Searching, FailingOver, PlanInSnapshot, NoLane, TypeOK, PoolTypeOK, MonitorTypeOK
  <1>1. TypeOK'
    <2>1. snapshot[lane] \in Nodes
      BY <1>a DEF InSnapshot, TypeOK, PoolTypeOK, MonitorTypeOK
    <2>2. selected' \in [Lanes -> Nodes \cup {Reject}]
      BY <1>a, <2>1 DEF Select, TypeOK, PoolTypeOK, MonitorTypeOK
    <2>3. pc' \in Steps /\ cooling' \in BOOLEAN
      BY DEF Steps, TypeOK, PoolTypeOK, MonitorTypeOK
    <2>4. /\ lane' \in Lanes \cup {NoLane} /\ round' \in 1 .. 2
          /\ todo' \in SUBSET Nodes /\ seen' \in SUBSET Ips
          /\ cand' \in Nodes \cup {None}
      BY DEF TypeOK, PoolTypeOK, MonitorTypeOK, NoLane
    <2> QED
      BY <2>2, <2>3, <2>4 DEF TypeOK, PoolTypeOK, MonitorTypeOK
  <1>2. RecoveryTypeOK' /\ (spc' # "off" => stops' > 0)
    BY DEF RecoveryTypeOK
  <1>3. DistinctNodes'
    BY DEF DistinctNodes, LanesOf
  <1>4. SearchShape'
    BY DEF SearchShape, Searching, FailingOver, TypeOK, PoolTypeOK, MonitorTypeOK
  <1>5. CandidatesFree'
    BY DEF CandidatesFree, LeasedNodes, LanesOf, SearchShape, Searching, FailingOver, TypeOK, PoolTypeOK, MonitorTypeOK
  <1>6. PlanInSnapshot'
    BY DEF PlanInSnapshot, InSnapshot, SearchShape, Searching, FailingOver, TypeOK, PoolTypeOK, MonitorTypeOK
  <1>7. CountsKept'
    BY DEF CountsKept, CountKept, Leased, SearchShape, Searching, FailingOver, Replacing, InSnapshot, TypeOK, PoolTypeOK, MonitorTypeOK
  <1>8. stops' = 0 => WorkLeased' /\ LanesClosed'
    BY <1>a, TargetLanesLeased DEF WorkLeased, LanesClosed, InSnapshot, LanesOf, Leased, Select, TypeOK, PoolTypeOK, MonitorTypeOK
  <1> QED
    BY <1>1, <1>2, <1>3, <1>4, <1>5, <1>6, <1>7, <1>8

\* Inventory: every node is judged.
LEMMA InventorySystem ==
  ASSUME SystemInv, Inventory, UNCHANGED recoveryVars
  PROVE  SystemInv'
  <1> USE DEF SystemInv, Inventory, poolVars, cycleVars, searchVars, recoveryVars, stopVars
  <1>1. TypeOK'
    BY DEF TypeOK, PoolTypeOK, MonitorTypeOK, Steps
  <1>2. RecoveryTypeOK' /\ (spc' # "off" => stops' > 0)
    BY DEF RecoveryTypeOK
  <1>3. DistinctNodes'
    BY DEF DistinctNodes, LanesOf
  <1>4. SearchShape'
    BY DEF SearchShape, Searching, FailingOver, TypeOK, PoolTypeOK, MonitorTypeOK
  <1>5. CandidatesFree'
    BY DEF CandidatesFree, LeasedNodes, LanesOf, SearchShape, Searching, FailingOver, TypeOK, PoolTypeOK, MonitorTypeOK
  <1>6. PlanInSnapshot'
    BY DEF PlanInSnapshot, InSnapshot, SearchShape, Searching, FailingOver, TypeOK, PoolTypeOK, MonitorTypeOK
  <1>7. CountsKept'
    BY DEF CountsKept, CountKept, Leased, SearchShape, Searching, FailingOver, Replacing, InSnapshot, TypeOK, PoolTypeOK, MonitorTypeOK
  <1>8. stops' = 0 => WorkLeased' /\ LanesClosed'
    BY DEF WorkLeased, LanesClosed, InSnapshot, LanesOf, Leased
  <1> QED
    BY <1>1, <1>2, <1>3, <1>4, <1>5, <1>6, <1>7, <1>8

\* InventoryFails: the failover of the lane is given up.
LEMMA InventoryFailsSystem ==
  ASSUME SystemInv, InventoryFails, UNCHANGED recoveryVars
  PROVE  SystemInv'
  <1> USE DEF SystemInv, InventoryFails, poolVars, cycleVars, searchVars, recoveryVars, stopVars, ForgetSearch
  <1>1. TypeOK'
    BY DEF TypeOK, PoolTypeOK, MonitorTypeOK, Steps, NoLane
  <1>2. RecoveryTypeOK' /\ (spc' # "off" => stops' > 0)
    BY DEF RecoveryTypeOK
  <1>3. DistinctNodes'
    BY DEF DistinctNodes, LanesOf
  <1>4. SearchShape'
    BY DEF SearchShape, Searching, FailingOver, TypeOK, PoolTypeOK, MonitorTypeOK
  <1>5. CandidatesFree'
    BY DEF CandidatesFree, LeasedNodes, LanesOf, SearchShape, Searching, FailingOver, TypeOK, PoolTypeOK, MonitorTypeOK
  <1>6. PlanInSnapshot'
    BY DEF PlanInSnapshot, InSnapshot, SearchShape, Searching, FailingOver, TypeOK, PoolTypeOK, MonitorTypeOK
  <1>7. CountsKept'
    BY DEF CountsKept, CountKept, Leased, SearchShape, Searching, FailingOver, Replacing, InSnapshot, TypeOK, PoolTypeOK, MonitorTypeOK
  <1>8. stops' = 0 => WorkLeased' /\ LanesClosed'
    BY DEF WorkLeased, LanesClosed, InSnapshot, LanesOf, Leased
  <1> QED
    BY <1>1, <1>2, <1>3, <1>4, <1>5, <1>6, <1>7, <1>8

\* RecordResult: a result is recorded for the node of the snapshot.
LEMMA RecordResultSystem ==
  ASSUME SystemInv, NEW l \in Lanes, RecordResult(l), UNCHANGED recoveryVars
  PROVE  SystemInv'
  <1> USE DEF SystemInv, RecordResult, poolVars, cycleVars, searchVars, recoveryVars, stopVars
  <1>1. TypeOK'
    <2>1. l \in InSnapshot /\ snapshot \in [Lanes -> Nodes \cup {None}]
      BY DEF Lowest, PlanInSnapshot, TypeOK, MonitorTypeOK
    <2>2. snapshot[l] \in Nodes
      BY <2>1 DEF InSnapshot
    <2>3. qualified' \in [Targets -> SUBSET Nodes]
      BY <2>2 DEF RecordProbe, Judged, TypeOK, PoolTypeOK, MonitorTypeOK
    <2> QED
      BY <2>3 DEF TypeOK, PoolTypeOK, MonitorTypeOK, Steps
  <1>2. RecoveryTypeOK' /\ (spc' # "off" => stops' > 0)
    BY DEF RecoveryTypeOK
  <1>3. DistinctNodes'
    BY DEF DistinctNodes, LanesOf
  <1>4. SearchShape'
    BY DEF SearchShape, Searching, FailingOver, TypeOK, PoolTypeOK, MonitorTypeOK
  <1>5. CandidatesFree'
    BY DEF CandidatesFree
  <1>6. PlanInSnapshot'
    BY DEF PlanInSnapshot, InSnapshot
  <1>7. CountsKept'
    BY DEF CountsKept, CountKept, Leased, Searching, FailingOver, Replacing, InSnapshot
  <1>8. stops' = 0 => WorkLeased' /\ LanesClosed'
    BY DEF WorkLeased, LanesClosed, InSnapshot, LanesOf, Leased
  <1> QED
    BY <1>1, <1>2, <1>3, <1>4, <1>5, <1>6, <1>7, <1>8

\* CheckLane: what is counted is what the row has now, 0 without a row.
LEMMA CheckLaneSystem ==
  ASSUME SystemInv, NEW l \in Lanes, CheckLane(l), UNCHANGED recoveryVars
  PROVE  SystemInv'
  <1> USE DEF SystemInv, CheckLane, poolVars, cycleVars, searchVars, recoveryVars, stopVars
  <1> DEFINE healthy == results[l].outcome = "ok"
  <1>a. healthy \in BOOLEAN /\ RecordLaneCheck(l, healthy) /\ PoolTypeOK
    BY DEF TypeOK
  <1>b. l \in plan /\ l \in InSnapshot
    BY DEF Lowest, PlanInSnapshot
  <1>c. /\ leases' \in [Lanes -> LeaseRow \cup {NoLease}]
        /\ counted' = [counted EXCEPT ![l] = leases'[l].failures]
        /\ leases'[l].failures \in Failures
        /\ \A k \in Lanes : leases'[k].node = leases[k].node
        /\ \A k \in Lanes : leases'[k].target = leases[k].target
        /\ \A k \in Lanes \ {l} : leases'[k] = leases[k]
        /\ \A k \in Lanes : (leases'[k] # NoLease) <=> (leases[k] # NoLease)
    BY <1>a, LaneCheckType, ZenonT(40)
  <1> HIDE DEF healthy
  <1>1. TypeOK'
    BY <1>c DEF TypeOK, PoolTypeOK, MonitorTypeOK, Steps
  <1>2. RecoveryTypeOK' /\ (spc' # "off" => stops' > 0)
    BY DEF RecoveryTypeOK
  <1>3. DistinctNodes'
    BY <1>c DEF DistinctNodes, LanesOf
  <1>4. SearchShape'
    BY DEF SearchShape, Searching, FailingOver, TypeOK, PoolTypeOK, MonitorTypeOK
  <1>5. CandidatesFree'
    BY DEF CandidatesFree
  <1>6. PlanInSnapshot'
    BY DEF PlanInSnapshot, InSnapshot
  <1>7. CountsKept'
    <2>1. CountKept(l)'
      BY <1>b, <1>c DEF CountKept, Leased, Failures, TypeOK, MonitorTypeOK
    <2>2. \A k \in Lanes \ {l} : CountKept(k) => CountKept(k)'
      BY <1>c DEF CountKept, Leased, TypeOK, MonitorTypeOK
    <2>3. pc' \in {"record", "decide"} /\ plan' = plan \ {l} /\ (pc' = "decide" => plan' = {})
      OBVIOUS
    <2>4. InSnapshot' = InSnapshot /\ InSnapshot \subseteq Lanes
      BY DEF InSnapshot
    <2> QED
      BY <2>1, <2>2, <2>3, <2>4 DEF CountsKept, Replacing, Searching, FailingOver
  <1>8. stops' = 0 => WorkLeased' /\ LanesClosed'
    BY <1>c DEF WorkLeased, LanesClosed, InSnapshot, LanesOf, Leased
  <1> QED
    BY <1>1, <1>2, <1>3, <1>4, <1>5, <1>6, <1>7, <1>8

\* CandidateLeased: no other lane of the target leases the candidate, whatever
\* stop has cleared meanwhile.
LEMMA CandidateLeasedSystem ==
  ASSUME SystemInv, CandidateLeased, UNCHANGED recoveryVars
  PROVE  SystemInv'
  <1> USE DEF SystemInv, CandidateLeased, poolVars, cycleVars, searchVars, recoveryVars, stopVars
  <1>a. lane \in Lanes /\ cand \in Nodes /\ PoolTypeOK /\ lane \notin plan
    BY DEF SearchShape, Searching, FailingOver, TypeOK
  <1>b. /\ leases' \in [Lanes -> LeaseRow \cup {NoLease}]
        /\ leases'[lane] # NoLease
        /\ leases'[lane].node = cand /\ leases'[lane].target = Target
        /\ \A k \in Lanes \ {lane} : leases'[k] = leases[k]
    BY <1>a, ReplaceType
  <1>1. TypeOK'
    BY <1>a, <1>b DEF TypeOK, PoolTypeOK, MonitorTypeOK, Steps, NoLane
  <1>2. RecoveryTypeOK' /\ (spc' # "off" => stops' > 0)
    BY DEF RecoveryTypeOK
  <1>3. DistinctNodes'
    <2>1. \A k \in LanesOf(Target) : leases[k].node # cand
      BY DEF CandidatesFree, LeasedNodes
    <2>2. \A k \in LanesOf(Target)' : k = lane \/ (k \in LanesOf(Target) /\ leases'[k] = leases[k])
      BY <1>b DEF LanesOf
    <2> QED
      BY <1>b, <2>1, <2>2 DEF DistinctNodes
  <1>4. SearchShape'
    BY DEF SearchShape, Searching, FailingOver, TypeOK, PoolTypeOK, MonitorTypeOK
  <1>5. CandidatesFree'
    BY DEF CandidatesFree
  <1>6. PlanInSnapshot'
    BY DEF PlanInSnapshot, InSnapshot
  <1>7. CountsKept'
    BY <1>a, <1>b DEF CountsKept, Leased, LanesOf, Replacing, Searching, FailingOver, TypeOK, MonitorTypeOK
  <1>8. stops' = 0 => WorkLeased' /\ LanesClosed'
    BY <1>a, <1>b DEF WorkLeased, LanesClosed, InSnapshot, LanesOf, Leased
  <1> QED
    BY <1>1, <1>2, <1>3, <1>4, <1>5, <1>6, <1>7, <1>8

\* RereadLease: the lane has its new row, or stop has cleared it again.
LEMMA RereadLeaseSystem ==
  ASSUME SystemInv, RereadLease, UNCHANGED recoveryVars
  PROVE  SystemInv'
  <1> USE DEF SystemInv, RereadLease, NotReplaced, ForgetSearch, poolVars, cycleVars, searchVars,
              recoveryVars, stopVars
  <1>1. TypeOK'
    <2>1. pc' \in Steps /\ cooling' \in BOOLEAN
      BY DEF Steps, TypeOK, MonitorTypeOK
    <2>2. /\ lane' \in Lanes \cup {NoLane} /\ round' \in 1 .. 2
          /\ todo' \in SUBSET Nodes /\ seen' \in SUBSET Ips
          /\ cand' \in Nodes \cup {None}
      BY DEF TypeOK, MonitorTypeOK, NoLane
    <2> QED
      BY <2>1, <2>2 DEF TypeOK, PoolTypeOK, MonitorTypeOK
  <1>2. RecoveryTypeOK' /\ (spc' # "off" => stops' > 0)
    BY DEF RecoveryTypeOK
  <1>3. DistinctNodes'
    BY DEF DistinctNodes, LanesOf
  <1>4. SearchShape'
    BY DEF SearchShape, Searching, FailingOver, TypeOK, PoolTypeOK, MonitorTypeOK
  <1>5. CandidatesFree'
    BY DEF CandidatesFree
  <1>6. PlanInSnapshot'
    BY DEF PlanInSnapshot, InSnapshot
  <1>7. CountsKept'
    <2>1. lane \in LanesOf(Target) \/ ~Leased(lane)
      BY DEF CountsKept
    <2> QED
      BY <2>1 DEF CountsKept, CountKept, Leased, Searching, FailingOver, Replacing
  <1>8. stops' = 0 => WorkLeased' /\ LanesClosed'
    BY DEF WorkLeased, LanesClosed, InSnapshot, LanesOf, Leased
  <1> QED
    BY <1>1, <1>2, <1>3, <1>4, <1>5, <1>6, <1>7, <1>8

\* Time, the nodes and the maintenance touch nothing the others decide on.
LEMMA AroundSystem ==
  ASSUME SystemInv, UNCHANGED recoveryVars,
         \/ CooldownElapses \/ Maintenance
         \/ \E n \in Nodes : \E o \in Behaviours[n] : NodeChanges(Target, n, o) /\ UNCHANGED monitorVars
         \/ \E n \in Nodes : Expire(Target, n) /\ UNCHANGED monitorVars
  PROVE  SystemInv'
  <1> USE DEF SystemInv, poolVars, monitorVars, cycleVars, searchVars, recoveryVars, stopVars
  <1>1. UNCHANGED <<leases, selected, running, pc, cycleVars, plan, searchVars, deaths>>
    BY DEF CooldownElapses, Maintenance, ReserveProbe, NodeChanges, Expire
  <1>2. cooling' \in BOOLEAN
    BY DEF CooldownElapses, Maintenance, TypeOK, MonitorTypeOK
  <1>3. qualified' \in [Targets -> SUBSET Nodes]
    <2>1. CASE UNCHANGED qualified
      BY <2>1 DEF TypeOK, PoolTypeOK
    <2>2. CASE Maintenance
      BY <2>2 DEF Maintenance, ReserveProbe, RecordProbe, Judged, TypeOK, PoolTypeOK
    <2>3. CASE \E n \in Nodes : Expire(Target, n)
      BY <2>3 DEF Expire, TypeOK, PoolTypeOK
    <2> QED
      BY <2>1, <2>2, <2>3 DEF CooldownElapses, NodeChanges
  <1>4. health' \in [Targets -> [Nodes -> Outcomes]]
    <2>1. CASE UNCHANGED health
      BY <2>1 DEF TypeOK, PoolTypeOK
    <2>2. ASSUME NEW n \in Nodes, NEW o \in Behaviours[n], NodeChanges(Target, n, o)
          PROVE  health' \in [Targets -> [Nodes -> Outcomes]]
      BY <2>2 DEF NodeChanges, TypeOK, PoolTypeOK
    <2> QED
      BY <2>1, <2>2 DEF CooldownElapses, Maintenance, ReserveProbe, Expire
  <1>5. TypeOK'
    BY <1>1, <1>2, <1>3, <1>4 DEF TypeOK, PoolTypeOK, MonitorTypeOK
  <1>6. RecoveryTypeOK' /\ (spc' # "off" => stops' > 0)
    BY DEF RecoveryTypeOK
  <1>7. DistinctNodes' /\ SearchShape' /\ CandidatesFree' /\ PlanInSnapshot'
    BY <1>1 DEF DistinctNodes, SearchShape, CandidatesFree, PlanInSnapshot, Searching, FailingOver, LeasedNodes,
                LanesOf, InSnapshot
  <1>8. CountsKept'
    BY <1>1 DEF CountsKept, CountKept, Leased, LanesOf, Replacing, Searching, FailingOver, InSnapshot
  <1>9. stops' = 0 => WorkLeased' /\ LanesClosed'
    BY <1>1 DEF WorkLeased, LanesClosed, InSnapshot, LanesOf, Leased
  <1> QED
    BY <1>5, <1>6, <1>7, <1>8, <1>9

-----------------------------------------------------------------------------
(***************************************************************************)
(* The steps of keepers, Mihomo and stop.  To the monitor they do two      *)
(* things: rows collect failures, and after a stop they go.                *)
(***************************************************************************)

RowsSurvive ==
  \A l \in Lanes :
    \/ leases'[l] = NoLease /\ stops' > 0
    \/ /\ leases'[l].target = leases[l].target /\ leases'[l].node = leases[l].node
       /\ Leased(l)' <=> Leased(l)
       /\ leases'[l].failures >= leases[l].failures

LEMMA RecoveryRows ==
  ASSUME TypeOK, RecoveryTypeOK, spc # "off" => stops > 0, RecoveryNext
  PROVE  leases' \in [Lanes -> LeaseRow \cup {NoLease}] /\ RowsSurvive
  <1> USE DEF stopVars, poolVars
  <1>0. PoolTypeOK
    BY DEF TypeOK
  <1>1. CASE UNCHANGED leases
    <2>1. \A l \in Lanes : leases[l].failures >= leases[l].failures
      BY <1>0, RowColumns DEF Failures
    <2> QED
      BY <1>0, <1>1, <2>1 DEF RowsSurvive, Leased, PoolTypeOK
  <1>2. ASSUME NEW k \in Keepers, NEW l \in Lanes, RestoreFails(k, l)
        PROVE  leases' \in [Lanes -> LeaseRow \cup {NoLease}] /\ RowsSurvive
    <2>1. /\ leases' \in [Lanes -> LeaseRow \cup {NoLease}]
          /\ leases'[l].failures = CountAfter(l, FALSE)
          /\ \A j \in Lanes : leases'[j].node = leases[j].node
          /\ \A j \in Lanes : leases'[j].target = leases[j].target
          /\ \A j \in Lanes \ {l} : leases'[j] = leases[j]
          /\ \A j \in Lanes : (leases'[j] # NoLease) <=> (leases[j] # NoLease)
      BY <1>0, <1>2, LaneCheckType DEF RestoreFails
    <2>2. leases[l].failures \in Failures /\ (~Leased(l) => leases[l].failures = 0)
      <3>1. leases[l].failures \in Failures
        BY ONLY <1>0, RowColumns, l \in Lanes
      <3> QED
        BY <3>1 DEF Leased, NoLease
    <2>3. CountAfter(l, FALSE) >= leases[l].failures
      BY <2>2 DEF CountAfter, Bump, Failures
    <2>4. \A j \in Lanes \ {l} : leases'[j].failures >= leases[j].failures
      <3>1. \A j \in Lanes : leases[j].failures \in Nat
        BY ONLY <1>0, RowColumns, ThresholdAssumption DEF Failures
      <3> QED
        BY ONLY <2>1, <3>1
    <2> QED
      BY <2>1, <2>3, <2>4 DEF RowsSurvive, Leased
  <1>3. ASSUME NEW l \in Lanes, ClearsLease(l)
        PROVE  leases' \in [Lanes -> LeaseRow \cup {NoLease}] /\ RowsSurvive
    <2>1. stops' > 0 /\ leases' = [leases EXCEPT ![l] = NoLease]
      BY <1>3 DEF ClearsLease, ClearLease
    <2>2. \A j \in Lanes : leases[j].failures >= leases[j].failures
      BY <1>0, RowColumns DEF Failures
    <2> QED
      BY <1>0, <2>1, <2>2 DEF RowsSurvive, Leased, PoolTypeOK
  <1> QED
    BY <1>1, <1>2, <1>3
    DEF RecoveryNext, KeeperStep, FindsRunning, FindsDead, FindsUnresponsive, StopsUnresponsive, Spawns,
        GatewayReady, StartFails, StartTimesOut, ReadsLeases, RecoveryRaises, RestoreSelects,
        RestoreConfirms, KeeperDies, GatewayAnswers, GatewayCrashes, StopStep, StopsProcess, ListsLeases

\* What the monitor relies on survives such a step.
LEMMA RowsSurviveInv ==
  ASSUME SystemInv, RowsSurvive, TypeOK', UNCHANGED monitorVars
  PROVE  /\ DistinctNodes' /\ SearchShape' /\ CandidatesFree' /\ PlanInSnapshot' /\ CountsKept'
         /\ stops = 0 /\ stops' = 0 => (InSnapshot \subseteq LanesOf(Target))'
  <1> USE DEF SystemInv, monitorVars, cycleVars, searchVars
  <1>1. \A l \in LanesOf(Target)' : l \in LanesOf(Target) /\ leases'[l].node = leases[l].node
    BY DEF RowsSurvive, LanesOf, NoLease
  <1>2. DistinctNodes' /\ SearchShape' /\ PlanInSnapshot'
    BY <1>1 DEF DistinctNodes, SearchShape, PlanInSnapshot, Searching, FailingOver, InSnapshot
  <1>3. CandidatesFree'
    <2>1. LeasedNodes(Target)' \subseteq LeasedNodes(Target)
      BY <1>1 DEF LeasedNodes
    <2> QED
      BY <2>1 DEF CandidatesFree
  <1>4. CountsKept'
    <2>1. ASSUME NEW l \in Lanes, Leased(l)'
          PROVE  /\ Leased(l) /\ leases[l].failures \in Nat /\ leases'[l].failures \in Nat
                 /\ leases'[l].failures >= leases[l].failures /\ counted[l] \in Nat
      <3>1. leases'[l] \in LeaseRow
        BY <2>1 DEF Leased, TypeOK, PoolTypeOK
      <3>2. leases'[l].failures \in Nat /\ leases[l].failures \in Nat /\ counted[l] \in Nat
        BY <3>1, RowColumns DEF LeaseRow, Failures, TypeOK, MonitorTypeOK
      <3> QED
        BY <2>1, <3>2 DEF RowsSurvive, Leased
    <2>2. \A l \in Lanes : CountKept(l) => CountKept(l)'
      BY <2>1 DEF CountKept
    <2>3. \A l \in Lanes : ~Leased(l) \/ leases[l].failures >= Threshold
                             => ~Leased(l)' \/ leases'[l].failures >= Threshold
      BY <2>1 DEF Leased
    <2>4. plan \cup ({lane} \ {NoLane}) \subseteq Lanes /\ InSnapshot \subseteq Lanes /\ InSnapshot' = InSnapshot
      BY DEF TypeOK, MonitorTypeOK, InSnapshot
    <2>5. \A l \in Lanes : ~Leased(l) \/ l \in LanesOf(Target)
                             => ~Leased(l)' \/ l \in LanesOf(Target)'
      BY DEF RowsSurvive, Leased, LanesOf
    <2>6. FailingOver => lane \in Lanes
      BY DEF SearchShape
    <2> QED
      BY <2>2, <2>3, <2>4, <2>5, <2>6 DEF CountsKept, Replacing, Searching, FailingOver
  <1>5. ASSUME stops = 0, stops' = 0
        PROVE  (InSnapshot \subseteq LanesOf(Target))'
    BY <1>5 DEF RowsSurvive, WorkLeased, InSnapshot, LanesOf
  <1> QED
    BY <1>2, <1>3, <1>4, <1>5

\* Only the stop command changes what is known of it, and it counts its runs.
LEMMA StopsCounted ==
  ASSUME RecoveryTypeOK, spc # "off" => stops > 0, RecoveryNext
  PROVE  stops' >= stops /\ (spc' # "off" => stops' > 0)
  <1>0. stops \in Nat /\ stops >= stops
    BY DEF RecoveryTypeOK
  <1>1. UNCHANGED <<spc, stops>> \/ StopStep
    <2>1. ASSUME NEW k \in Keepers, KeeperStep(k) \/ KeeperDies(k)
          PROVE  UNCHANGED <<spc, stops>>
      BY ONLY <2>1
      DEF KeeperStep, FindsRunning, FindsDead, FindsUnresponsive, StopsUnresponsive, Spawns,
          GatewayReady, StartFails, StartTimesOut, ReadsLeases, RecoveryRaises, RestoreSelects,
          RestoreConfirms, RestoreFails, KeeperDies, recoveryVars, stopVars
    <2>2. GatewayAnswers \/ GatewayCrashes => UNCHANGED <<spc, stops>>
      BY DEF GatewayAnswers, GatewayCrashes, stopVars
    <2> QED
      BY <2>1, <2>2 DEF RecoveryNext
  <1>2. CASE StopsProcess
    BY <1>0, <1>2 DEF StopsProcess
  <1>3. CASE ListsLeases \/ \E l \in Lanes : ClearsLease(l)
    BY <1>0, <1>3 DEF ListsLeases, ClearsLease
  <1> QED
    BY <1>0, <1>1, <1>2, <1>3 DEF StopStep

LEMMA FaultType == RecoveryTypeOK /\ Fault => faults' \in 0 .. MaxFaults
  BY DEF RecoveryTypeOK, Fault

LEMMA KeeperTypes ==
  ASSUME TypeOK, RecoveryTypeOK, NEW k \in Keepers, KeeperStep(k) \/ KeeperDies(k)
  PROVE  RecoveryTypeOK'
  <1> USE DEF stopVars, poolVars, Goes, RecoveryTypeOK, KeeperSteps
  <1>1. CASE FindsRunning(k)
    BY <1>1 DEF FindsRunning, recoveryVars
  <1>2. CASE FindsDead(k)
    BY <1>2 DEF FindsDead
  <1>3. CASE FindsUnresponsive(k)
    BY <1>3, FaultType DEF FindsUnresponsive
  <1>4. CASE StopsUnresponsive(k)
    BY <1>4 DEF StopsUnresponsive, ProcessStop
  <1>5. CASE Spawns(k)
    BY <1>5 DEF Spawns
  <1>6. CASE GatewayReady(k)
    BY <1>6 DEF GatewayReady
  <1>7. CASE StartFails(k)
    BY <1>7, FaultType DEF StartFails
  <1>8. CASE StartTimesOut(k)
    BY <1>8, FaultType DEF StartTimesOut, ProcessStop
  <1>9. CASE RecoveryRaises(k)
    BY <1>9, FaultType DEF RecoveryRaises
  <1>20. CASE ReadsLeases(k)
    BY <1>20, RowColumns DEF ReadsLeases, TypeOK
  <1>21. CASE KeeperDies(k)
    BY <1>21 DEF KeeperDies, NoWork
  <1>22. ASSUME NEW l \in Lanes, RestoreSelects(k, l)
         PROVE  RecoveryTypeOK'
    BY <1>22 DEF RestoreSelects
  <1>23. ASSUME NEW l \in Lanes, RestoreConfirms(k, l) \/ RestoreFails(k, l)
         PROVE  RecoveryTypeOK'
    <2>1. kpc' \in [Keepers -> KeeperSteps]
      BY <1>23 DEF RestoreConfirms, RestoreFails, RestoreDone
    <2>2. work' = [work EXCEPT ![k] = [work[k] EXCEPT ![l] = None]]
      BY <1>23 DEF RestoreConfirms, RestoreFails, RestoreDone
    <2>3. work' \in [Keepers -> [Lanes -> Nodes \cup {None}]]
      BY <2>2
    <2>4. UNCHANGED faults \/ Fault
      BY <1>23 DEF RestoreConfirms, RestoreFails
    <2>5. faults' \in 0 .. MaxFaults
      BY <2>4, FaultType
    <2>6. UNCHANGED <<silent, spc, toClear, stops, abandoned, torn, kills>>
      BY <1>23 DEF RestoreConfirms, RestoreFails
    <2> QED
      BY <2>1, <2>3, <2>5, <2>6
  <1> QED
    BY <1>1, <1>2, <1>3, <1>4, <1>5, <1>6, <1>7, <1>8, <1>9, <1>20, <1>21, <1>22, <1>23 DEF KeeperStep

\* The operations on rows and selectors keep the types of the recovery.
LEMMA RecoveryStepTypes ==
  ASSUME TypeOK, RecoveryTypeOK, spc # "off" => stops > 0, RecoveryNext, UNCHANGED monitorVars
  PROVE  TypeOK' /\ RecoveryTypeOK'
  <1> USE DEF stopVars, poolVars, Goes, RecoveryTypeOK, KeeperSteps
  <1>1. PoolTypeOK'
    <2>1. UNCHANGED <<qualified, health>>
      BY DEF RecoveryNext, KeeperStep, FindsRunning, FindsDead, FindsUnresponsive, StopsUnresponsive, Spawns,
             GatewayReady, StartFails, StartTimesOut, ReadsLeases, RecoveryRaises, RestoreSelects,
             RestoreConfirms, RestoreFails, KeeperDies, GatewayAnswers, GatewayCrashes, StopStep,
             StopsProcess, ListsLeases, ClearsLease
    <2>2. running' \in BOOLEAN
      <3>1. running \in BOOLEAN
        BY DEF TypeOK, PoolTypeOK
      <3>2. ASSUME NEW k \in Keepers, KeeperStep(k) \/ KeeperDies(k)
            PROVE  running' \in BOOLEAN
        BY <3>1, <3>2
        DEF KeeperStep, FindsRunning, FindsDead, FindsUnresponsive, StopsUnresponsive, Spawns,
            GatewayReady, StartFails, StartTimesOut, ReadsLeases, RecoveryRaises, RestoreSelects,
            RestoreConfirms, RestoreFails, KeeperDies, ProcessStop
      <3>3. ASSUME GatewayAnswers \/ GatewayCrashes \/ StopStep
            PROVE  running' \in BOOLEAN
        BY <3>1, <3>3 DEF GatewayAnswers, GatewayCrashes, StopStep, StopsProcess, ListsLeases,
                          ClearsLease, ProcessStop
      <3> QED
        BY <3>2, <3>3 DEF RecoveryNext
    <2>3. selected' \in [Lanes -> Nodes \cup {Reject}]
      <3>1. CASE UNCHANGED selected
        BY <3>1 DEF TypeOK, PoolTypeOK
      <3>2. CASE FailClosed
        BY <3>2 DEF FailClosed
      <3>3. ASSUME NEW k \in Keepers, NEW l \in Lanes, RestoreSelects(k, l)
            PROVE  selected' \in [Lanes -> Nodes \cup {Reject}]
        <4>1. work[k][l] \in Nodes
          BY <3>3 DEF RestoreSelects, Lowest, ToRestore
        <4> QED
          BY <3>3, <4>1 DEF RestoreSelects, Select, TypeOK, PoolTypeOK
      <3> QED
        BY <3>1, <3>2, <3>3
        DEF RecoveryNext, KeeperStep, FindsRunning, FindsDead, FindsUnresponsive, StopsUnresponsive, Spawns,
            GatewayReady, StartFails, StartTimesOut, ReadsLeases, RecoveryRaises,
            RestoreConfirms, RestoreFails, KeeperDies, GatewayAnswers, GatewayCrashes, StopStep,
            StopsProcess, ListsLeases, ClearsLease
    <2> QED
      BY <2>1, <2>2, <2>3, RecoveryRows DEF TypeOK, PoolTypeOK
  <1>2. TypeOK'
    BY <1>1 DEF TypeOK, MonitorTypeOK, monitorVars, cycleVars, searchVars
  <1>3. ASSUME GatewayAnswers \/ GatewayCrashes PROVE RecoveryTypeOK'
    <2>1. UNCHANGED faults \/ Fault
      BY <1>3 DEF GatewayAnswers, GatewayCrashes
    <2>2. faults' \in 0 .. MaxFaults
      BY <2>1, FaultType
    <2> QED
      BY <1>3, <2>2 DEF GatewayAnswers, GatewayCrashes, TypeOK, PoolTypeOK
  <1>4. ASSUME StopsProcess PROVE RecoveryTypeOK'
    <2>1. stops' \in 0 .. MaxStops
      BY <1>4 DEF StopsProcess
    <2> QED
      BY <1>4, <2>1 DEF StopsProcess, ProcessStop
  <1>5. ASSUME ListsLeases \/ \E l \in Lanes : ClearsLease(l) PROVE RecoveryTypeOK'
    <2>1. torn' \in [Lanes -> Nodes \cup {None}]
      <3>1. \A l \in Lanes : leases[l].node \in Nodes \cup {None}
        BY RowColumns DEF TypeOK
      <3> QED
        BY <1>5, <3>1 DEF ListsLeases, ClearsLease
    <2> QED
      BY <1>5, <2>1 DEF ListsLeases, ClearsLease
  <1> QED
    BY <1>2, <1>3, <1>4, <1>5, KeeperTypes DEF RecoveryNext, StopStep

\* What a keeper works on is leased, and a lane without a lease stays closed.
LEMMA RecoveryLeased ==
  ASSUME SystemInv, RecoveryNext, UNCHANGED monitorVars, stops' = 0
  PROVE  /\ \A j \in Keepers, m \in Lanes : work'[j][m] # None => Leased(m)'
         /\ LanesClosed'
  <1> USE DEF SystemInv, stopVars, poolVars, Goes
  <1>0. stops = 0 /\ spc = "off"
    <2>1. stops' >= stops /\ stops \in Nat
      BY StopsCounted DEF RecoveryTypeOK
    <2> QED
      BY <2>1
  <1>1. \A m \in Lanes : Leased(m)' <=> Leased(m)
    <2>1. TypeOK /\ RecoveryTypeOK /\ (spc # "off" => stops > 0)
      OBVIOUS
    <2>2. RowsSurvive
      BY <2>1, RecoveryRows
    <2> QED
      BY <1>0, <2>2 DEF RowsSurvive, Leased
  <1>2. \A j \in Keepers, m \in Lanes : work'[j][m] # None => Leased(m)
    <2>1. CASE UNCHANGED work
      BY <1>0, <2>1 DEF WorkLeased
    <2>2. ASSUME NEW k \in Keepers, ReadsLeases(k)
          PROVE  \A j \in Keepers, m \in Lanes : work'[j][m] # None => Leased(m)
      BY <1>0, <2>2 DEF ReadsLeases, WorkLeased, Leased, NoLease, RecoveryTypeOK
    <2>3. ASSUME NEW k \in Keepers, KeeperDies(k)
          PROVE  \A j \in Keepers, m \in Lanes : work'[j][m] # None => Leased(m)
      BY <1>0, <2>3 DEF KeeperDies, NoWork, WorkLeased, RecoveryTypeOK
    <2>4. ASSUME NEW k \in Keepers, NEW l \in Lanes, RestoreDone(k, l)
          PROVE  \A j \in Keepers, m \in Lanes : work'[j][m] # None => Leased(m)
      <3>1. work' = [work EXCEPT ![k] = [work[k] EXCEPT ![l] = None]]
        BY <2>4 DEF RestoreDone
      <3>2. \A j \in Keepers, m \in Lanes : work'[j][m] \in {None, work[j][m]}
        BY <3>1 DEF RecoveryTypeOK
      <3> QED
        BY <1>0, <3>2 DEF WorkLeased
    <2> QED
      BY <1>0, <2>1, <2>2, <2>3, <2>4
      DEF RecoveryNext, KeeperStep, FindsRunning, FindsDead, FindsUnresponsive, StopsUnresponsive, Spawns,
          GatewayReady, StartFails, StartTimesOut, RecoveryRaises, RestoreSelects,
          RestoreConfirms, RestoreFails, GatewayAnswers, GatewayCrashes, StopStep,
          StopsProcess, ListsLeases, ClearsLease, recoveryVars
  <1>3. \A m \in Lanes : ~Leased(m) => selected'[m] = Reject
    <2>1. CASE UNCHANGED selected
      BY <1>0, <2>1 DEF LanesClosed
    <2>2. CASE FailClosed
      BY <2>2 DEF FailClosed
    <2>3. ASSUME NEW k \in Keepers, NEW l \in Lanes, RestoreSelects(k, l)
          PROVE  \A m \in Lanes : ~Leased(m) => selected'[m] = Reject
      <3>1. Leased(l)
        BY <1>0, <2>3 DEF RestoreSelects, Lowest, ToRestore, WorkLeased
      <3> QED
        BY <1>0, <2>3, <3>1 DEF RestoreSelects, Select, LanesClosed, TypeOK, PoolTypeOK
    <2> QED
      BY <1>0, <2>1, <2>2, <2>3
      DEF RecoveryNext, KeeperStep, FindsRunning, FindsDead, FindsUnresponsive, StopsUnresponsive, Spawns,
          GatewayReady, StartFails, StartTimesOut, ReadsLeases, RecoveryRaises,
          RestoreConfirms, RestoreFails, KeeperDies, GatewayAnswers, GatewayCrashes, StopStep,
          StopsProcess, ListsLeases, ClearsLease
  <1> QED
    BY <1>1, <1>2, <1>3 DEF LanesClosed

LEMMA RecoverySystem ==
  ASSUME SystemInv, RecoveryNext, UNCHANGED monitorVars
  PROVE  SystemInv'
  <1>0. TypeOK /\ RecoveryTypeOK /\ (spc # "off" => stops > 0)
    BY DEF SystemInv
  <1>1. RowsSurvive
    BY <1>0, RecoveryRows
  <1>2. TypeOK' /\ RecoveryTypeOK'
    BY <1>0, RecoveryStepTypes
  <1>3. /\ DistinctNodes' /\ SearchShape' /\ CandidatesFree' /\ PlanInSnapshot' /\ CountsKept'
        /\ stops = 0 /\ stops' = 0 => (InSnapshot \subseteq LanesOf(Target))'
    BY <1>1, <1>2, RowsSurviveInv
  <1>4. stops \in Nat /\ stops' >= stops /\ (spc' # "off" => stops' > 0)
    BY <1>0, StopsCounted DEF RecoveryTypeOK
  <1>5. stops' = 0 => WorkLeased' /\ LanesClosed'
    BY <1>3, <1>4, RecoveryLeased DEF WorkLeased
  <1> QED
    BY <1>2, <1>3, <1>4, <1>5 DEF SystemInv

-----------------------------------------------------------------------------
(* The system.                                                             *)

LEMMA InitSystemInv == SystemInit => SystemInv
  <1> SUFFICES ASSUME SystemInit PROVE SystemInv
    OBVIOUS
  <1> USE DEF SystemInit, PoolInit, MonitorInit, RecoveryInit
  <1>1. PICK f \in [Lanes -> Nodes \cup {None}] :
          /\ \A l, k \in Lanes : l # k /\ f[l] # None => f[l] # f[k]
          /\ leases = [l \in Lanes |->
                       IF f[l] = None THEN NoLease
                       ELSE [target |-> Target, node |-> f[l], failures |-> 0]]
          /\ selected = [l \in Lanes |-> IF f[l] = None THEN Reject ELSE f[l]]
          /\ qualified = [t \in Targets |-> {n \in Nodes : \E l \in Lanes : f[l] = n}]
    OBVIOUS
  <1>2. leases \in [Lanes -> LeaseRow \cup {NoLease}]
    BY <1>1 DEF LeaseRow, Failures
  <1>3. PoolTypeOK
    BY <1>1, <1>2 DEF PoolTypeOK, Outcomes
  <1>4. MonitorTypeOK
    BY DEF MonitorTypeOK, Steps, NoSnapshot, NoResults, NoCounts, NoLane, Failures
  <1>5. RecoveryTypeOK
    <2>1. faults \in 0 .. MaxFaults /\ kills \in 0 .. MaxKills /\ stops \in 0 .. MaxStops
      OBVIOUS
    <2> QED
      BY <2>1 DEF RecoveryTypeOK, KeeperSteps, NoWork
  <1>6. \A l \in LanesOf(Target) : f[l] # None /\ leases[l].node = f[l]
    BY <1>1 DEF LanesOf, NoLease
  <1>7. DistinctNodes
    BY <1>1, <1>6 DEF DistinctNodes, LanesOf
  <1>8. SearchShape /\ CandidatesFree /\ CountsKept /\ PlanInSnapshot
    BY DEF SearchShape, CandidatesFree, CountsKept, PlanInSnapshot, InSnapshot, NoSnapshot, NoLane,
           Searching, FailingOver, Replacing
  <1>9. WorkLeased
    BY DEF WorkLeased, InSnapshot, NoSnapshot, NoWork
  <1>10. LanesClosed
    BY <1>1 DEF LanesClosed, Leased, NoLease
  <1> QED
    BY <1>3, <1>4, <1>5, <1>7, <1>8, <1>9, <1>10 DEF SystemInv, TypeOK

LEMMA NextSystemInv == SystemInv /\ [SystemNext]_gatewayLanesVars => SystemInv'
  <1> SUFFICES ASSUME SystemInv, [SystemNext]_gatewayLanesVars PROVE SystemInv'
    OBVIOUS
  <1>1. CASE MonitorStep /\ UNCHANGED recoveryVars
    BY <1>1, StartCycleSystem, ProbeLaneSystem, RecordResultSystem, CheckLaneSystem, DecideSystem,
       NextLaneSystem, RereadLeaseSystem,
       EndCycleSystem, LoadCandidatesSystem, TryCandidateSystem, CandidateFailsSystem,
       CandidateVerifiedSystem, CandidateLeasedSystem, RestoreRouteSystem, InventorySystem,
       InventoryFailsSystem
    DEF MonitorStep
  <1>2. CASE (CooldownElapses \/ Disturbance \/ Maintenance) /\ UNCHANGED recoveryVars
    BY <1>2, AroundSystem, MonitorDiesSystem DEF Disturbance
  <1>3. CASE RecoveryNext /\ UNCHANGED monitorVars
    BY <1>3, RecoverySystem
  <1>4. CASE UNCHANGED gatewayLanesVars
    BY <1>4 DEF gatewayLanesVars, poolVars, monitorVars, cycleVars, searchVars, recoveryVars, stopVars,
         SystemInv, TypeOK, PoolTypeOK, MonitorTypeOK, RecoveryTypeOK, DistinctNodes, SearchShape,
         CandidatesFree, PlanInSnapshot, CountsKept, CountKept, WorkLeased, LanesClosed, Searching, FailingOver,
         Replacing, InSnapshot, LanesOf, LeasedNodes, Leased
  <1> QED
    BY <1>1, <1>2, <1>3, <1>4 DEF SystemNext, Next

\* The inductive invariant of the composition, whenever stop is run.
THEOREM SystemInvariant == SystemSpec => []SystemInv
  BY InitSystemInv, NextSystemInv, PTL DEF SystemSpec

\* Whatever stop, crashes and keepers do meanwhile, a failover leases a node no
\* other lane of the target has.
THEOREM SystemDistinctNodes == SystemSpec => []DistinctNodes
  <1>1. SystemInv => DistinctNodes
    BY DEF SystemInv
  <1> QED
    BY <1>1, SystemInvariant, PTL

\* No lane without a lease is open before the first stop.
THEOREM LanesClosedUntilStop == SystemSpec => []ClosedUntilStop
  <1>1. SystemInv => ClosedUntilStop
    BY DEF SystemInv, LanesClosed, ClosedUntilStop, UnassignedClosed
  <1> QED
    BY <1>1, SystemInvariant, PTL

\* Only a failover and stop change the node of a lane.
LEMMA NodesMoveBy ==
  ASSUME SystemInv, [SystemNext]_gatewayLanesVars, ~(CandidateLeased /\ UNCHANGED recoveryVars)
  PROVE  \A l \in Lanes :
           \/ leases'[l].node = leases[l].node /\ leases'[l].target = leases[l].target
           \/ leases'[l] = NoLease /\ spc = "clear" /\ stops' > 0
  <1>0. TypeOK /\ RecoveryTypeOK /\ PoolTypeOK /\ (spc # "off" => stops > 0)
    BY DEF SystemInv, TypeOK
  <1>1. CASE UNCHANGED leases
    BY <1>1
  <1>2. ASSUME NEW k \in Lanes, CheckLane(k)
        PROVE  \A l \in Lanes : leases'[l].node = leases[l].node /\ leases'[l].target = leases[l].target
    <2>1. (results[k].outcome = "ok") \in BOOLEAN
      OBVIOUS
    <2> QED
      BY <1>0, <1>2, <2>1, LaneCheckType DEF CheckLane
  <1>3. ASSUME NEW k \in Keepers, NEW j \in Lanes, RestoreFails(k, j)
        PROVE  \A l \in Lanes : leases'[l].node = leases[l].node /\ leases'[l].target = leases[l].target
    BY <1>0, <1>3, LaneCheckType DEF RestoreFails
  <1>4. ASSUME NEW j \in Lanes, ClearsLease(j)
        PROVE  \A l \in Lanes :
                 \/ leases'[l].node = leases[l].node /\ leases'[l].target = leases[l].target
                 \/ leases'[l] = NoLease /\ spc = "clear" /\ stops' > 0
    BY <1>0, <1>4 DEF ClearsLease, ClearLease, PoolTypeOK, stopVars
  <1>5. CASE Next /\ UNCHANGED recoveryVars
    BY <1>1, <1>2, <1>5
    DEF Next, MonitorStep, Disturbance, Maintenance, StartCycle, ProbeLane, RecordResult, Decide,
        NextLane, EndCycle, LoadCandidates, TryCandidate, CandidateFails, CandidateVerified,
        RereadLease, RestoreRoute, Inventory, InventoryFails, CooldownElapses, MonitorDies, NodeChanges, Expire, ReserveProbe, poolVars
  <1>6. CASE RecoveryNext
    BY <1>1, <1>3, <1>4, <1>6
    DEF RecoveryNext, KeeperStep, FindsRunning, FindsDead, FindsUnresponsive, StopsUnresponsive, Spawns,
        GatewayReady, StartFails, StartTimesOut, ReadsLeases, RecoveryRaises, RestoreSelects,
        RestoreConfirms, KeeperDies, GatewayAnswers, GatewayCrashes, StopStep, StopsProcess, ListsLeases,
        poolVars
  <1> QED
    BY <1>1, <1>5, <1>6 DEF SystemNext, gatewayLanesVars, poolVars

\* A failover changes the node of its own lane, whose row has the failures the
\* plan was made for, or is gone.
LEMMA FailoverMoves ==
  ASSUME SystemInv, CandidateLeased, UNCHANGED recoveryVars
  PROVE  /\ lane \in Lanes /\ cand \in Nodes
         /\ leases'[lane].node = cand /\ leases'[lane].target = Target
         /\ \A k \in Lanes \ {lane} : leases'[k] = leases[k]
         /\ cand \notin LeasedNodes(Target)
         /\ leases[lane].failures >= Threshold \/ (leases[lane] = NoLease /\ stops > 0)
         /\ stops = 0 => lane \in LanesOf(Target)
  <1> USE DEF SystemInv, CandidateLeased
  <1>1. lane \in Lanes /\ cand \in Nodes /\ PoolTypeOK /\ lane # NoLane /\ stops \in Nat
    BY DEF SearchShape, Searching, FailingOver, NoLane, TypeOK, RecoveryTypeOK
  <1>2. /\ leases'[lane].node = cand /\ leases'[lane].target = Target
        /\ \A k \in Lanes \ {lane} : leases'[k] = leases[k]
    BY <1>1, ReplaceType
  <1>3. cand \notin LeasedNodes(Target)
    BY DEF CandidatesFree
  <1>4. stops = 0 => lane \in LanesOf(Target)
    BY <1>1 DEF WorkLeased, PlanInSnapshot
  <1>5. ~Leased(lane) \/ leases[lane].failures >= Threshold
    BY <1>1 DEF CountsKept, Replacing, Searching, FailingOver
  <1>6. stops = 0 => Leased(lane)
    BY <1>4, TargetLanesLeased
  <1> QED
    BY <1>1, <1>2, <1>3, <1>4, <1>5, <1>6 DEF Leased

\* No crash, restart or restore makes the monitor move a lane too early; after
\* a stop it may lease again the lane it was failing over.
THEOREM LeasesMoveAfterThresholdHolds == SystemSpec => LeasesMoveAfterThreshold
  <1> DEFINE Moves ==
        \A l \in Lanes : leases'[l].node # leases[l].node =>
          \/ leases[l].failures >= Threshold
          \/ spc = "clear" /\ leases'[l] = NoLease
          \/ stops > 0 /\ leases[l] = NoLease
  <1>1. ASSUME SystemInv, [SystemNext]_gatewayLanesVars PROVE Moves
    <2>1. CASE CandidateLeased /\ UNCHANGED recoveryVars
      BY <1>1, <2>1, FailoverMoves
    <2>2. CASE ~(CandidateLeased /\ UNCHANGED recoveryVars)
      BY <1>1, <2>2, NodesMoveBy
    <2> QED
      BY <2>1, <2>2
  <1> QED
    BY <1>1, SystemInvariant, PTL DEF SystemSpec, LeasesMoveAfterThreshold

\* Until stop is run the gateway implements LaneAssignment, whatever crashes,
\* hangs and is killed.
THEOREM AssignmentUntilStopHolds == SystemSpec => AssignmentUntilStop
  <1>1. SystemInit => Assignment!Init
    <2> SUFFICES ASSUME SystemInit PROVE Assignment!Init
      OBVIOUS
    <2>1. PoolTypeOK /\ DistinctNodes
      BY InitSystemInv DEF SystemInv, TypeOK
    <2>2. \A l \in LanesOf(Target) : leases[l].node \in Nodes
      BY <2>1, RowColumns DEF LanesOf
    <2> QED
      BY <2>1, <2>2 DEF Assignment!Init, Holder, DistinctNodes, LanesOf
  <1>2. ASSUME SystemInv, [SystemNext]_gatewayLanesVars, stops' = 0
        PROVE  Assignment!Next \/ UNCHANGED Holder
    <2>1. CASE CandidateLeased /\ UNCHANGED recoveryVars
      <3>1. stops = 0
        BY <1>2, <2>1 DEF recoveryVars, stopVars
      <3>2. /\ lane \in Lanes /\ cand \in Nodes /\ lane \in LanesOf(Target)
            /\ leases'[lane].node = cand /\ leases'[lane].target = Target
            /\ \A k \in Lanes \ {lane} : leases'[k] = leases[k]
            /\ cand \notin LeasedNodes(Target)
        BY <1>2, <2>1, <3>1, FailoverMoves
      <3>3. Holder[lane] # None
        BY <1>2, <3>2, RowColumns DEF SystemInv, TypeOK, LanesOf, Holder
      <3>4. cand \notin {Holder[l] : l \in Lanes} \ {None}
        BY <3>2 DEF LeasedNodes, Holder
      <3>5. Holder' = [Holder EXCEPT ![lane] = cand]
        BY <3>2 DEF LanesOf, Holder
      <3> QED
        BY <3>2, <3>3, <3>4, <3>5 DEF Assignment!Next, Assignment!Move, Assignment!Held
    <2>2. CASE ~(CandidateLeased /\ UNCHANGED recoveryVars)
      <3>1. \A l \in Lanes : leases'[l].node = leases[l].node /\ leases'[l].target = leases[l].target
        BY <1>2, <2>2, NodesMoveBy
      <3> QED
        BY <3>1 DEF LanesOf, Holder
    <2> QED
      BY <2>1, <2>2
  <1>3. SystemInv /\ [SystemNext]_gatewayLanesVars => [stops' = 0 => Assignment!Next]_Holder
    BY <1>2
  <1> QED
    BY <1>1, <1>3, SystemInvariant, PTL DEF SystemSpec, AssignmentUntilStop

=============================================================================
