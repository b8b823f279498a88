---------------------------- MODULE LaneMonitor -----------------------------
(***************************************************************************)
(* The process that keeps the lanes of one target alive: monitor,          *)
(* check_lanes, replace_lane and _replace_lane_from_candidates of          *)
(* controller.py, one action per database transaction or API call.         *)
(*                                                                         *)
(* A cycle works on a snapshot of the leases: it probes every lane in      *)
(* parallel, records the results, decides which lanes to fail over, and    *)
(* then tries the reserve candidates of one lane after the other on the    *)
(* live selector of that lane.                                             *)
(***************************************************************************)
EXTENDS LanePool

CONSTANTS
  Target,        \* the target this process monitors
  CheckModes,    \* values of replace_failed: {TRUE} for monitor
  Behaviours,    \* node -> the outcomes it goes through in this instance
  MaxDeaths      \* how often the process may be killed in the model

ASSUME TargetAssumption == Target \in Targets
ASSUME ModesAssumption  == CheckModes \subseteq BOOLEAN
ASSUME BehavioursAssumption == Behaviours \in [Nodes -> SUBSET Outcomes]
ASSUME DeathsAssumption == MaxDeaths \in Nat

VARIABLES
  pc,            \* where the process is in its cycle
  mode,          \* replace_failed of this cycle
  snapshot,      \* lane -> node it had a lease on when the cycle began, or None
  results,       \* lane -> outcome and observed egress IP of its probe
  counted,       \* lane -> consecutive_failures returned by record_lane_check
  plan,          \* lanes still to fail over
  lane,          \* the lane being failed over
  round,         \* 1 before the inventory of replace_lane, 2 after it
  todo,          \* candidates not tried yet
  seen,          \* egress IPs occupied, or listed before the next candidate
  cand,          \* the candidate on the lane, or None
  cooling,       \* the reinventory cooldown is running
  deaths         \* how often the process was killed

cycleVars   == <<mode, snapshot, results, counted>>
searchVars  == <<lane, round, todo, seen, cand>>
monitorVars == <<pc, cycleVars, plan, searchVars, cooling, deaths>>
vars        == <<poolVars, monitorVars>>

Steps    == {"idle", "probe", "record", "check", "decide", "plan", "load", "try",
             "verify", "lease", "reread", "inventory"}
NoResult == [outcome |-> "none", ip |-> NoIp]
NoLane   == None
Ips      == {IpOf[n] : n \in Nodes} \cup {NoIp}

MonitorTypeOK ==
  /\ pc \in Steps
  /\ mode \in BOOLEAN
  /\ snapshot \in [Lanes -> Nodes \cup {None}]
  /\ results \in [Lanes -> [outcome : Outcomes, ip : Ips] \cup {NoResult}]
  /\ counted \in [Lanes -> Failures]
  /\ plan \in SUBSET Lanes
  /\ lane \in Lanes \cup {NoLane}
  /\ round \in 1 .. 2
  /\ todo \in SUBSET Nodes
  /\ seen \in SUBSET Ips
  /\ cand \in Nodes \cup {None}
  /\ cooling \in BOOLEAN
  /\ deaths \in 0 .. MaxDeaths

NoSnapshot == [l \in Lanes |-> None]
NoResults  == [l \in Lanes |-> NoResult]
NoCounts   == [l \in Lanes |-> 0]

\* _last_reinventory_at starts at 0.0 on the clock of time.monotonic, so a
\* fresh process may or may not have to wait for its first inventory.
MonitorInit ==
  /\ pc = "idle"
  /\ mode = TRUE
  /\ snapshot = NoSnapshot
  /\ results = NoResults
  /\ counted = NoCounts
  /\ plan = {}
  /\ lane = NoLane
  /\ round = 1
  /\ todo = {}
  /\ seen = {}
  /\ cand = None
  /\ cooling \in BOOLEAN
  /\ deaths = 0

\* What a cycle kept in its local variables is gone when it returns.
ForgetSearch ==
  /\ lane' = NoLane
  /\ round' = 1
  /\ todo' = {}
  /\ seen' = {}
  /\ cand' = None
ForgetCycle ==
  /\ pc' = "idle"
  /\ mode' = TRUE
  /\ snapshot' = NoSnapshot
  /\ results' = NoResults
  /\ counted' = NoCounts
  /\ plan' = {}
  /\ ForgetSearch

-----------------------------------------------------------------------------
(* What a cycle concludes from its probes.                                 *)

InSnapshot == {l \in Lanes : snapshot[l] # None}

TargetLevelFailure(r) == r.outcome \in Signatures

\* _shared_target_failure_signature: at least two lanes, all with the same
\* explicit target failure, over at least two different known egress IPs.
SharedFailure ==
  /\ Cardinality(InSnapshot) >= 2
  /\ \A l \in InSnapshot : TargetLevelFailure(results[l])
  /\ \A l, k \in InSnapshot : results[l].outcome = results[k].outcome
  /\ \E l, k \in InSnapshot :
       /\ results[l].ip # NoIp /\ results[k].ip # NoIp
       /\ results[l].ip # results[k].ip

\* Mutant: one failed check too early.
EligibleEarly == {l \in InSnapshot : counted[l] + 1 >= Threshold}
Eligible == {l \in InSnapshot : counted[l] >= Threshold}

Failing == {l \in Eligible : results[l].outcome # "ok"}

\* Mutants: a shared failure fails over every lane, or none at all.
LanesToReplaceAlways == IF mode THEN Failing ELSE {}
LanesToReplaceNoCanary == IF SharedFailure \/ ~mode THEN {} ELSE Failing

\* Under a shared failure only the canary is failed over, whatever
\* replace_failed says; otherwise every eligible lane, if it is set.
LanesToReplace ==
  IF SharedFailure THEN Lowest(Eligible)
  ELSE IF mode THEN Failing
  ELSE {}

-----------------------------------------------------------------------------
(* Checking.                                                               *)

\* require_api and leases(target); a cycle without leases ends at once, and
\* one that finds the gateway stopped raises before it reads anything.
StartCycle(m) ==
  /\ pc = "idle"
  /\ running
  /\ LanesOf(Target) # {}
  /\ mode' = m
  /\ snapshot' = [l \in Lanes |-> IF l \in LanesOf(Target) THEN leases[l].node ELSE None]
  /\ pc' = "probe"
  /\ UNCHANGED <<poolVars, results, counted, plan, searchVars, cooling, deaths>>

\* _probe_lane_lease, one pool thread per lane.  The egress lookup after the
\* target probe may fail without making the probe unhealthy.
ProbeLane(l) ==
  /\ pc = "probe"
  /\ l \in InSnapshot
  /\ results[l] = NoResult
  /\ LET outcome == Observed(l, Target, snapshot[l])
     IN  \E ip \in IF outcome \in Signatures THEN {IpOf[snapshot[l]], NoIp} ELSE {NoIp} :
           results' = [results EXCEPT ![l] = [outcome |-> outcome, ip |-> ip]]
  /\ pc' = IF \A k \in InSnapshot : results'[k] # NoResult THEN "record" ELSE "probe"
  /\ plan' = IF pc' = "record" THEN InSnapshot ELSE {}
  /\ UNCHANGED <<poolVars, mode, snapshot, counted, searchVars, cooling, deaths>>

\* The results are recorded in lane order, each in two transactions; plan holds
\* the lanes that are not done.  First record_probe, for the node of the snapshot.
RecordResult(l) ==
  /\ pc = "record"
  /\ l \in Lowest(plan)
  /\ RecordProbe(Target, snapshot[l], results[l].outcome)
  /\ pc' = "check"
  /\ UNCHANGED <<leases, selected, running, health, cycleVars, plan, searchVars, cooling, deaths>>

\* Then record_lane_check, for whatever row the lane has by now.
CheckLane(l) ==
  /\ pc = "check"
  /\ l \in Lowest(plan)
  /\ LET healthy == results[l].outcome = "ok"
     IN  /\ counted' = [counted EXCEPT ![l] = CountAfter(l, healthy)]
         /\ RecordLaneCheck(l, healthy)
  /\ plan' = plan \ {l}
  /\ pc' = IF plan' = {} THEN "decide" ELSE "record"
  /\ UNCHANGED <<qualified, selected, running, health, mode, snapshot, results, searchVars, cooling, deaths>>

Decide ==
  /\ pc = "decide"
  /\ plan' = LanesToReplace
  /\ pc' = "plan"
  /\ UNCHANGED <<poolVars, cycleVars, searchVars, cooling, deaths>>

-----------------------------------------------------------------------------
(* Failing over.                                                           *)

NextLane(l) ==
  /\ pc = "plan"
  /\ l \in Lowest(plan)
  /\ lane' = l
  /\ round' = 1
  /\ plan' = plan \ {l}
  /\ pc' = "load"
  /\ UNCHANGED <<poolVars, cycleVars, todo, seen, cand, cooling, deaths>>

EndCycle ==
  /\ pc = "plan"
  /\ plan = {}
  /\ ForgetCycle
  /\ UNCHANGED <<poolVars, cooling, deaths>>

\* leases(target) is read again, and its nodes and IPs are excluded from the
\* candidates.
LoadCandidates ==
  /\ pc = "load"
  /\ todo' = ReserveOf(Target)
  /\ seen' = KnownIps(LeasedNodes(Target))
  /\ pc' = "try"
  /\ UNCHANGED <<poolVars, cycleVars, plan, lane, round, cand, cooling, deaths>>

\* _verify_candidate_on_work_lane, first half: the live selector of the lane
\* is pointed at the candidate; a failed call is recorded as a failed probe.
TryCandidate(n) ==
  /\ pc = "try"
  /\ n \in NextCandidates(todo, seen)
  /\ Select(lane, n)
  /\ cand' = n
  /\ todo' = todo \ {n}
  /\ seen' = SeenWith(seen, n)
  /\ pc' = "verify"
  /\ UNCHANGED <<leases, qualified, running, health, cycleVars, plan, lane, round, cooling, deaths>>

\* Second half: the selector is read back, the target probed through the
\* lane, the result recorded; a failed candidate makes room for the next.
CandidateFails ==
  /\ pc = "verify"
  /\ Observed(lane, Target, cand) # "ok"
  /\ RecordProbe(Target, cand, Observed(lane, Target, cand))
  /\ cand' = None
  /\ pc' = "try"
  /\ UNCHANGED <<leases, selected, running, health, cycleVars, plan, lane, round, todo, seen, cooling, deaths>>

CandidateVerified ==
  /\ pc = "verify"
  /\ Observed(lane, Target, cand) = "ok"
  /\ RecordProbe(Target, cand, "ok")
  /\ pc' = "lease"
  /\ UNCHANGED <<leases, selected, running, health, cycleVars, plan, searchVars, cooling, deaths>>

\* replace_lease: the verified candidate becomes the lease of the lane.
CandidateLeased ==
  /\ pc = "lease"
  /\ ReplaceLease(lane, Target, cand)
  /\ cand' = None
  /\ pc' = "reread"
  /\ UNCHANGED <<qualified, selected, running, health, cycleVars, plan, lane, round, todo, seen, cooling, deaths>>

\* Without a replacement, replace_lane takes a new inventory, once per cooldown
\* and lane, or gives up.
NotReplaced ==
  \/ /\ cooling \/ round = 2
     /\ pc' = "plan"
     /\ ForgetSearch
     /\ UNCHANGED cooling
  \/ /\ ~cooling /\ round = 1
     /\ pc' = "inventory"
     /\ cooling' = TRUE
     /\ UNCHANGED searchVars

\* The new row is read back; one that stop has cleared meanwhile counts as no
\* replacement, and the lane stays on the candidate.
RereadLease ==
  /\ pc = "reread"
  /\ IF lane \in LanesOf(Target)
     THEN pc' = "plan" /\ ForgetSearch /\ UNCHANGED cooling
     ELSE NotReplaced
  /\ UNCHANGED <<poolVars, cycleVars, plan, deaths>>

\* Mutant: the lane stays on the last candidate.
RouteStays == UNCHANGED selected
RouteBack == Select(lane, snapshot[lane])

\* Every candidate failed: the lane is pointed back at its node.
RestoreRoute ==
  /\ pc = "try"
  /\ todo = {}
  /\ RouteBack
  /\ NotReplaced
  /\ UNCHANGED <<leases, qualified, running, health, cycleVars, plan, deaths>>

\* inventory(target): each node of the pool is probed once and judged.  The
\* single results appear one by one in the code; ReserveProbe can do the same
\* while the process waits here.
Inventory ==
  /\ pc = "inventory"
  /\ running
  /\ qualified' = [qualified EXCEPT ![Target] = {n \in Nodes : health[Target][n] = "ok"}]
  /\ round' = 2
  /\ pc' = "load"
  /\ UNCHANGED <<leases, selected, running, health, cycleVars, plan, lane, todo, seen, cand, cooling, deaths>>

\* The gateway is down, the providers fail, or another process holds
\* inventory.lock: replace_lane returns None, the cooldown stays consumed.
InventoryFails ==
  /\ pc = "inventory"
  /\ pc' = "plan"
  /\ ForgetSearch
  /\ UNCHANGED <<poolVars, cycleVars, plan, cooling, deaths>>

\* reinventory_cooldown_seconds pass.
CooldownElapses ==
  /\ cooling
  /\ cooling' = FALSE
  /\ UNCHANGED <<poolVars, pc, cycleVars, plan, searchVars, deaths>>

\* The process is killed in the middle of a cycle and started again; the
\* tables and the selectors stay as they are.
MonitorDies ==
  /\ pc # "idle"
  /\ deaths < MaxDeaths
  /\ deaths' = deaths + 1
  /\ ForgetCycle
  /\ cooling' \in BOOLEAN
  /\ UNCHANGED poolVars

-----------------------------------------------------------------------------
(* The monitor of one target on a gateway that stays up, with the nodes and *)
(* the reserve maintenance as its environment.                             *)

\* The lanes start as assign left them: leased to distinct nodes, routed to
\* them, verified.
PoolInit ==
  /\ \E f \in [Lanes -> Nodes \cup {None}] :
       /\ \A l, k \in Lanes : l # k /\ f[l] # None => f[l] # f[k]
       /\ leases = [l \in Lanes |->
                     IF f[l] = None THEN NoLease
                     ELSE [target |-> Target, node |-> f[l], failures |-> 0]]
       /\ selected = [l \in Lanes |-> IF f[l] = None THEN Reject ELSE f[l]]
       /\ qualified = [t \in Targets |-> {n \in Nodes : \E l \in Lanes : f[l] = n}]
  /\ running = TRUE
  /\ health = [t \in Targets |-> [n \in Nodes |-> "ok"]]

Init == PoolInit /\ MonitorInit

MonitorStep ==
  \/ \E m \in CheckModes : StartCycle(m)
  \/ \E l \in Lanes : ProbeLane(l) \/ RecordResult(l) \/ CheckLane(l) \/ NextLane(l)
  \/ Decide \/ EndCycle \/ LoadCandidates
  \/ \E n \in Nodes : TryCandidate(n)
  \/ CandidateFails \/ CandidateVerified \/ CandidateLeased \/ RereadLease \/ RestoreRoute
  \/ Inventory \/ InventoryFails

Disturbance ==
  \/ \E n \in Nodes : \E o \in Behaviours[n] : NodeChanges(Target, n, o) /\ UNCHANGED monitorVars
  \/ \E n \in Nodes : Expire(Target, n) /\ UNCHANGED monitorVars
  \/ MonitorDies

Maintenance == \E n \in Nodes : ReserveProbe(Target, n) /\ UNCHANGED monitorVars

Next == MonitorStep \/ CooldownElapses \/ Disturbance \/ Maintenance

Spec == Init /\ [][Next]_vars

\* The monitor loops for ever, time passes, and the reserve maintenance gets
\* round to every node whose qualification is out of date.
Fairness ==
  /\ WF_vars(MonitorStep)
  /\ WF_vars(CooldownElapses)
  /\ \A n \in Nodes : WF_vars(ReserveProbe(Target, n) /\ UNCHANGED monitorVars)

FairSpec == Spec /\ Fairness

-----------------------------------------------------------------------------
(* Properties.                                                             *)

\* Every variable keeps its type.
TypeOK == PoolTypeOK /\ MonitorTypeOK

\* No two lanes of the target ever lease the same node: a failover chooses
\* among nodes no lane of the target held when it looked, and nothing it does
\* between that look and replace_lease invalidates the choice.
DistinctNodes ==
  \A l, k \in LanesOf(Target) : l # k => leases[l].node # leases[k].node

\* A lane's traffic leaves the node it leases only while the monitor is
\* failing over that very lane, after failure_threshold failed checks; and it
\* is back, on the old node or on a newly leased one, when the monitor moves
\* on (check_lanes, _replace_lane_from_candidates).  A process killed in the
\* middle of a failover cannot put the route back.
TrafficStaysOnLease ==
  deaths = 0 =>
    \A l \in Lanes : selected[l] # RouteOf(l) =>
      l = lane /\ leases[l].failures >= Threshold

\* "Never reassign a healthy lane merely because another lane fails": no step
\* touches the selector or the lease of a lane whose row has not reached the
\* threshold, also after the process was killed and restarted.
OnlyFailedLanesMove ==
  [][\A l \in Lanes :
       selected'[l] # selected[l] \/ leases'[l].node # leases[l].node
         => leases[l].failures >= Threshold]_vars

\* While the probes of a cycle all show the same explicit target failure over
\* at least two egress IPs, only the canary, the lowest lane over the
\* threshold, is routed elsewhere or given another node.
OutageMovesOnlyCanary ==
  [][\A l \in Lanes :
       SharedFailure /\ (selected'[l] # selected[l] \/ leases'[l].node # leases[l].node)
         => l \in Lowest(Eligible)]_vars

\* check --no-replace only reports: a cycle with replace_failed unset changes
\* no route and no lease.
NoReplaceMovesNothing ==
  [][mode = FALSE => selected' = selected /\ \A l \in Lanes : leases'[l].node = leases[l].node]_vars

\* Once the nodes stop changing, every lane of the target ends up routed to a
\* working node it leases, and stays there, unless all the working nodes are
\* leased already: failover never stalls while a spare works, not even from
\* what looks like an outage of the target or after a killed failover.
Calm    == <>[][~Disturbance]_vars
Working == {n \in Nodes : health[Target][n] = "ok"}
Served(l) == leases[l].node \in Working /\ selected[l] = leases[l].node
OutOfSpares(l) ==
  leases[l].node \notin Working /\ Working \subseteq LeasedNodes(Target)
FailedLanesRecover ==
  Calm => <>[](\A l \in LanesOf(Target) : Served(l) \/ OutOfSpares(l))

\* The lanes of the target, seen as the abstract table of LaneAssignment.
Holder == [l \in Lanes |-> IF l \in LanesOf(Target) THEN leases[l].node ELSE None]
Assignment == INSTANCE LaneAssignment WITH holder <- Holder

\* The monitor implements LaneAssignment: it never gives up a lane, never
\* moves two at once, and moves each to a node no lane of the target holds.
ImplementsAssignment == Assignment!Spec

-----------------------------------------------------------------------------
(* The inductive invariant behind the safety properties.                   *)

Searching   == pc \in {"load", "try", "verify", "lease", "inventory"}
FailingOver == Searching \/ pc = "reread"
Replacing   == FailingOver \/ pc = "plan"

\* The lane under failover is a snapshot lane outside plan, and there is one
\* exactly while the process fails it over.
SearchShape ==
  /\ FailingOver => lane \in Lanes /\ lane \notin plan
  /\ ~FailingOver => lane = NoLane
  /\ pc \in {"verify", "lease"} => cand \in Nodes

\* Candidates are nodes no lane of the target holds.
CandidatesFree ==
  /\ pc \in {"try", "verify"} => todo \cap LeasedNodes(Target) = {}
  /\ pc \in {"verify", "lease"} => cand \notin LeasedNodes(Target)

\* The counts the decision is taken on are those of the rows, and the lanes
\* chosen have reached the threshold.
CountsMatch ==
  /\ pc \in {"record", "check"} => \A l \in InSnapshot \ plan : counted[l] = leases[l].failures
  /\ pc = "decide" => \A l \in InSnapshot : counted[l] = leases[l].failures
  /\ Replacing => \A l \in plan : leases[l].failures >= Threshold
  /\ Searching => leases[lane].failures >= Threshold

\* The snapshot still names the nodes the rows hold, for every lane the cycle
\* has not finished with.
SnapshotCurrent ==
  /\ pc \in {"probe", "record", "check", "decide"} =>
       \A l \in InSnapshot : l \in LanesOf(Target) /\ snapshot[l] = leases[l].node
  /\ Replacing =>
       \A l \in plan : l \in LanesOf(Target) /\ snapshot[l] = leases[l].node
  /\ Searching => snapshot[lane] = leases[lane].node
  /\ FailingOver => lane \in LanesOf(Target)
  /\ pc \in {"record", "check"} => plan \subseteq InSnapshot

RouteInv ==
  deaths = 0 =>
    /\ \A l \in Lanes :
         selected[l] # RouteOf(l) => l = lane /\ pc \in {"try", "verify", "lease"}
    /\ pc = "lease" => selected[lane] = cand

\* Under a shared failure nothing but the canary is planned or replaced.
CanaryPlan ==
  Replacing /\ SharedFailure =>
    \A l \in plan \cup {lane} : l # NoLane => l \in Lowest(Eligible)

MonitorInv ==
  /\ TypeOK
  /\ running
  /\ DistinctNodes
  /\ SearchShape
  /\ CandidatesFree
  /\ CountsMatch
  /\ SnapshotCurrent
  /\ RouteInv

=============================================================================
