---------------------------- MODULE GatewayLanes ----------------------------
(***************************************************************************)
(* The monitor of LaneMonitor on the gateway of GatewayRecovery: what they *)
(* share is what LanePool declares, the lease rows, the selectors and the  *)
(* Mihomo process, and neither knows what the other is doing.              *)
(***************************************************************************)
EXTENDS LaneMonitor, GatewayRecovery

gatewayLanesVars == <<poolVars, monitorVars, recoveryVars>>

SystemInit == PoolInit /\ MonitorInit /\ RecoveryInit

SystemNext ==
  \/ Next /\ UNCHANGED recoveryVars
  \/ RecoveryNext /\ UNCHANGED monitorVars

SystemSpec == SystemInit /\ [][SystemNext]_gatewayLanesVars

\* As in the two parts: the monitor and the maintenance daemon loop for ever,
\* time passes, every node is tested again, and a spawned Mihomo comes up.
SystemFairness ==
  /\ WF_gatewayLanesVars(MonitorStep /\ UNCHANGED recoveryVars)
  /\ WF_gatewayLanesVars(CooldownElapses /\ UNCHANGED recoveryVars)
  /\ \A n \in Nodes :
       WF_gatewayLanesVars(ReserveProbe(Target, n) /\ UNCHANGED <<monitorVars, recoveryVars>>)
  /\ WF_gatewayLanesVars(KeeperStep(Daemon) /\ UNCHANGED monitorVars)
  /\ WF_gatewayLanesVars(AnswersInTime /\ UNCHANGED monitorVars)

FairSystemSpec == SystemSpec /\ SystemFairness

-----------------------------------------------------------------------------
(* Properties.                                                             *)

\* A lane changes its node only after failure_threshold failed checks, also
\* when Mihomo crashes in the middle of a failover, or a keeper restores the
\* lanes under the monitor's hands; or because the operator stops the gateway,
\* which clears the lane, and a failover that was under way leases it again.
LeasesMoveAfterThreshold ==
  [][\A l \in Lanes : leases'[l].node # leases[l].node =>
       \/ leases[l].failures >= Threshold
       \/ spc = "clear" /\ leases'[l] = NoLease
       \/ stops > 0 /\ leases[l] = NoLease]_gatewayLanesVars

\* Until stop is run, monitor and keepers together keep what LaneAssignment
\* promises: no recovery gives up a lane, moves one, or makes a failover pick a
\* node that is taken.
AssignmentUntilStop ==
  Assignment!Init /\ [][stops' = 0 => Assignment!Next]_Holder

\* And they never open a lane that has no lease.
ClosedUntilStop == stops = 0 => UnassignedClosed

-----------------------------------------------------------------------------
(***************************************************************************)
(* The inductive invariant behind the safety properties.  Most of what the *)
(* monitor knows by itself does not survive a stop: a row it decided on    *)
(* may be gone.                                                            *)
(***************************************************************************)

\* A row that is still there has at least the failures the monitor counted.
CountKept(l) == ~Leased(l) \/ counted[l] <= leases[l].failures
CountsKept ==
  /\ pc \in {"record", "check"} => \A l \in InSnapshot \ plan : CountKept(l)
  /\ pc = "decide" => \A l \in InSnapshot : CountKept(l)
  /\ Replacing => \A l \in plan : ~Leased(l) \/ leases[l].failures >= Threshold
  /\ Searching => ~Leased(lane) \/ leases[lane].failures >= Threshold
  /\ pc = "reread" => ~Leased(lane) \/ lane \in LanesOf(Target)

\* Every lane the cycle works on is one it began with.
PlanInSnapshot ==
  /\ plan \cup ({lane} \ {NoLane}) \subseteq InSnapshot
  /\ pc = "idle" => InSnapshot = {}

\* Before the first stop every lane the monitor or a keeper works on is leased.
WorkLeased ==
  /\ InSnapshot \subseteq LanesOf(Target)
  /\ \A k \in Keepers, l \in Lanes : work[k][l] # None => Leased(l)
LanesClosed == \A l \in Lanes : ~Leased(l) => selected[l] = Reject

SystemInv ==
  /\ TypeOK /\ RecoveryTypeOK
  /\ DistinctNodes /\ SearchShape /\ CandidatesFree
  /\ PlanInSnapshot /\ CountsKept
  /\ spc # "off" => stops > 0
  /\ stops = 0 => WorkLeased /\ LanesClosed

=============================================================================
