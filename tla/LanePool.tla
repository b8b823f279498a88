------------------------------ MODULE LanePool ------------------------------
(***************************************************************************)
(* What the processes of the gateway share: the rows of the SQLite tables  *)
(* lane_leases and node_target_state (state.py), the work selectors and    *)
(* the liveness of the Mihomo process (mihomo.py), and the operations each *)
(* process performs on them.  Every operation below is one transaction or  *)
(* one API call of the code; the modules that EXTEND this one string them  *)
(* together the way controller.py does.                                    *)
(*                                                                         *)
(* The outside world is the variable health: what a probe of a target      *)
(* through a node would observe now, after probe_target's retries.         *)
(***************************************************************************)
EXTENDS Integers, FiniteSets

CONSTANTS
  Lanes,        \* the work lanes, 1 .. gateway.work_lanes
  Targets,      \* names of the configured targets
  Nodes,        \* keys of the inventory nodes
  IpOf,         \* node -> egress IP recorded for it, or NoIp
  TierOf,       \* node -> rank of its source: 0 subscription, 1 local, 2 direct
  Signatures,   \* explicit target failures: "HTTP 403", "InvalidJson", ...
  Threshold,    \* gateway.failure_threshold
  NoIp,         \* the egress lookup of a node gave nothing
  Reject,       \* the REJECT policy of a selector
  None          \* the columns of a lane without a row

ASSUME LanesAssumption     == Lanes \subseteq Nat /\ IsFiniteSet(Lanes)
ASSUME ThresholdAssumption == Threshold \in Nat \ {0}
ASSUME TierAssumption      == TierOf \in [Nodes -> 0 .. 2]
ASSUME RejectAssumption    == Reject \notin Nodes
ASSUME NoneAssumption      == None \notin Nodes \cup Targets \cup Lanes
ASSUME SignatureAssumption == Signatures \cap {"ok", "link"} = {}

VARIABLES
  leases,       \* lane -> its row of lane_leases, or NoLease
  qualified,    \* target -> nodes whose node_target_state row is healthy and fresh
  selected,     \* lane -> what its selector group points at (group.now)
  running,      \* is the Mihomo process up and answering
  health        \* target -> node -> what a probe through the node observes

poolVars == <<leases, qualified, selected, running, health>>

-----------------------------------------------------------------------------
(* Values.                                                                 *)

\* A probe is healthy, failed to reach the target ("link": status None and no
\* JSON error), or got an explicit answer of the target that is wrong.
Outcomes == {"ok", "link"} \cup Signatures

\* consecutive_failures is only ever compared with the threshold, so it is
\* kept up to that value.
Failures == 0 .. Threshold

\* A row of lane_leases.  status is not kept: record_lane_check and
\* replace_lease write "active" exactly when they write 0 failures, and
\* "degraded" exactly when they write more.
LeaseRow == [target : Targets, node : Nodes, failures : Failures]
NoLease  == [target |-> None, node |-> None, failures |-> 0]

Leased(l)      == leases[l] # NoLease
Degraded(l)    == leases[l].failures > 0
LanesOf(t)     == {l \in Lanes : leases[l].target = t}
LeasedNodes(t) == {leases[l].node : l \in LanesOf(t)}

\* The lanes of a set are worked through in ascending order.
Lowest(S) == {l \in S : \A k \in S : l <= k}

\* Where the traffic of a lane belongs.
RouteOf(l) == IF Leased(l) THEN leases[l].node ELSE Reject

PoolTypeOK ==
  /\ leases \in [Lanes -> LeaseRow \cup {NoLease}]
  /\ qualified \in [Targets -> SUBSET Nodes]
  /\ selected \in [Lanes -> Nodes \cup {Reject}]
  /\ running \in BOOLEAN
  /\ health \in [Targets -> [Nodes -> Outcomes]]

-----------------------------------------------------------------------------
(* Operations on the selectors.                                            *)

\* MihomoApi.select / release; an API call to a stopped Mihomo raises and
\* leaves the selector alone.
Select(l, n) == selected' = IF running THEN [selected EXCEPT ![l] = n] ELSE selected

\* group.now is compared with the expected node before the lane is probed: a
\* mismatch, like an unreachable API, is an exception without HTTP status.
Observed(l, t, n) ==
  IF running /\ selected[l] = n THEN health[t][n] ELSE "link"

-----------------------------------------------------------------------------
(* Operations on the store.                                                *)

\* StateStore.record_probe, as far as candidates() can tell: the node is in
\* the fresh healthy subset of the target exactly when this probe succeeded.
Judged(q, t, n, outcome) ==
  [q EXCEPT ![t] = IF outcome = "ok" THEN @ \cup {n} ELSE @ \ {n}]
RecordProbe(t, n, outcome) == qualified' = Judged(qualified, t, n, outcome)

Bump(k) == IF k < Threshold THEN k + 1 ELSE k

\* StateStore.record_lane_check updates whatever row the lane has now, also
\* when it is another lease than the one that was probed, and returns the
\* count, 0 when there is no row.
CountAfter(l, healthy) ==
  IF ~Leased(l) \/ healthy THEN 0 ELSE Bump(leases[l].failures)

\* Mutants: the new count is not written; a failed check clears the row.
RecordLaneCheckLost(l, healthy) == UNCHANGED leases
RecordLaneCheckClears(l, healthy) ==
  leases' = [leases EXCEPT ![l] = IF healthy THEN @ ELSE NoLease]

RecordLaneCheck(l, healthy) ==
  leases' = [leases EXCEPT ![l].failures = CountAfter(l, healthy)]

\* StateStore.replace_lease: insert or overwrite the row of the lane.
ReplaceLease(l, t, n) ==
  leases' = [leases EXCEPT ![l] = [target |-> t, node |-> n, failures |-> 0]]

\* StateStore.clear_lease.
ClearLease(l) == leases' = [leases EXCEPT ![l] = NoLease]

-----------------------------------------------------------------------------
(* qualified_reserve_candidates lists, tier after tier, first one node per *)
(* unseen egress IP (and every node of unknown IP), then the repeated      *)
(* ones.  The order inside these groups (successes, latency, age, name) is *)
(* not modelled, so any node of the group may come next: todo are the      *)
(* candidates left, seen the IPs already occupied or listed.               *)

FirstTier(todo) == {n \in todo : \A m \in todo : TierOf[n] <= TierOf[m]}
FreshIp(todo, seen) == {n \in todo : IpOf[n] = NoIp \/ IpOf[n] \notin seen}
NextCandidates(todo, seen) ==
  LET first == FirstTier(todo)
      fresh == FreshIp(first, seen)
  IN  IF fresh # {} THEN fresh ELSE first

SeenWith(seen, n) == IF IpOf[n] = NoIp THEN seen ELSE seen \cup {IpOf[n]}
KnownIps(nodes)   == {IpOf[n] : n \in nodes} \ {NoIp}

\* Mutant: the nodes of other lanes are not excluded.
ReserveWithLeased(t) == qualified[t]

\* The reserve of a target is what no lane of the target already uses.
ReserveOf(t) == qualified[t] \ LeasedNodes(t)

-----------------------------------------------------------------------------
(* The environment.                                                        *)

\* A node or the target changes its behaviour.
NodeChanges(t, n, outcome) ==
  /\ health[t][n] # outcome
  /\ health' = [health EXCEPT ![t][n] = outcome]
  /\ UNCHANGED <<leases, qualified, selected, running>>

\* The reserve maintenance process tests a node on a probe lane of its own
\* and records the result (probe_selected_node, record_probe).
ReserveProbe(t, n) ==
  /\ running
  /\ RecordProbe(t, n, health[t][n])
  /\ qualified' # qualified
  /\ UNCHANGED <<leases, selected, running, health>>

\* The row of a node passes healthy_max_age_hours, or is deleted with its
\* node by sync_nodes.
Expire(t, n) ==
  /\ n \in qualified[t]
  /\ qualified' = [qualified EXCEPT ![t] = @ \ {n}]
  /\ UNCHANGED <<leases, selected, running, health>>

=============================================================================
