-------------------------- MODULE GatewayRecovery ---------------------------
(***************************************************************************)
(* The processes that start and stop the shared Mihomo: ensure_gateway of  *)
(* controller.py, which the start command and every cycle of               *)
(* maintain-reserve call, and the stop command of cli.py.                  *)
(*                                                                         *)
(* Nothing serialises these processes but the lock around the start        *)
(* itself; each works on what it read, from the pid file, from the control *)
(* API or from lane_leases.  A Mihomo that does not answer is ~running; it *)
(* may still be there, starting or hanging, and then it is silent.         *)
(* selected is what the selectors were when it last ran.                   *)
(***************************************************************************)
EXTENDS LanePool

CONSTANTS
  Keepers,       \* processes that call ensure_gateway
  Daemon,        \* the one that does it in every cycle, maintain-reserve
  MaxFaults,     \* crashes of Mihomo and failed API calls
  MaxKills,      \* how often a keeper is killed half-way
  MaxStops       \* how often stop is run

ASSUME DaemonAssumption == Daemon \in Keepers
ASSUME BoundsAssumption == MaxFaults \in Nat /\ MaxKills \in Nat /\ MaxStops \in Nat

VARIABLES
  silent,        \* is there a Mihomo process that does not answer
  kpc,           \* keeper -> where it is in ensure_gateway
  work,          \* keeper -> lane -> node it still has to restore, or None
  spc,           \* where the stop command is
  toClear,       \* lanes clear_all_leases still has to clear
  abandoned,     \* a keeper left the present Mihomo with leases to restore
  torn,          \* history: lane -> the node of a lease that stop cleared while
                 \* a keeper was restoring it or Mihomo routed to it, or None
  faults, kills, stops  \* how much of the three bounds is used up

stopVars     == <<spc, toClear, stops>>
recoveryVars == <<silent, kpc, work, stopVars, abandoned, torn, faults, kills>>

KeeperSteps == {"away", "stop", "start", "ready", "read", "restore", "confirm"}
NoWork      == [l \in Lanes |-> None]

RecoveryTypeOK ==
  /\ silent \in BOOLEAN
  /\ kpc \in [Keepers -> KeeperSteps]
  /\ work \in [Keepers -> [Lanes -> Nodes \cup {None}]]
  /\ spc \in {"off", "read", "clear"}
  /\ toClear \in SUBSET Lanes
  /\ abandoned \in BOOLEAN
  /\ torn \in [Lanes -> Nodes \cup {None}]
  /\ faults \in 0 .. MaxFaults
  /\ kills \in 0 .. MaxKills
  /\ stops \in 0 .. MaxStops

RecoveryInit ==
  /\ silent = FALSE
  /\ kpc = [k \in Keepers |-> "away"]
  /\ work = [k \in Keepers |-> NoWork]
  /\ spc = "off"
  /\ toClear = {}
  /\ abandoned = FALSE
  /\ torn = [l \in Lanes |-> None]
  /\ faults = 0
  /\ kills = 0
  /\ stops = 0

\* Used up by every action that stands for something going wrong.
Fault == faults < MaxFaults /\ faults' = faults + 1

ToRestore(k) == {l \in Lanes : work[k][l] # None}
Goes(k, step) == kpc' = [kpc EXCEPT ![k] = step]
AllAway       == \A k \in Keepers : kpc[k] = "away"
Present       == running \/ silent

\* Some keeper is still to point the lane at a node.
HasWork(l) == \E k \in Keepers : work[k][l] # None

-----------------------------------------------------------------------------
(* ensure_gateway.                                                         *)

\* The health check succeeds: nothing to do.
FindsRunning(k) ==
  /\ kpc[k] = "away"
  /\ running
  /\ UNCHANGED <<poolVars, recoveryVars>>

\* running() is false: there is no Mihomo to stop.  Nothing tells a keeper that
\* the operator is just stopping the gateway.
FindsDead(k) ==
  /\ kpc[k] = "away"
  /\ ~running /\ ~silent
  /\ Goes(k, "start")
  /\ UNCHANGED <<poolVars, silent, work, stopVars, abandoned, torn, faults, kills>>

\* There is a process but api().version() raised: Mihomo hangs, another
\* keeper is just starting it, or the one call failed.
FindsUnresponsive(k) ==
  /\ kpc[k] = "away"
  /\ \/ silent /\ UNCHANGED faults
     \/ running /\ Fault
  /\ Goes(k, "stop")
  /\ UNCHANGED <<poolVars, silent, work, stopVars, abandoned, torn, kills>>

\* Mutant: a process that hangs survives.
ProcessStopHanging == running' = FALSE /\ UNCHANGED silent

\* process.stop() kills whatever process the pid file names by now.
ProcessStop == running' = FALSE /\ silent' = FALSE
StopsUnresponsive(k) ==
  /\ kpc[k] = "stop"
  /\ ProcessStop
  /\ Goes(k, "start")
  /\ UNCHANGED <<leases, qualified, selected, health, work, stopVars, abandoned, torn, faults, kills>>

\* Mutant: the selectors are as they were (store-selected, no release).
KeepSelectors == UNCHANGED selected

\* Every work selector is on REJECT: the first policy of each rendered group,
\* and what process.start() selects once more.
FailClosed == selected' = [l \in Lanes |-> Reject]

\* process.start(), under mihomo-start.lock: a process that is there is taken
\* over as it is, otherwise a new one is spawned and waited for.
Spawns(k) ==
  /\ kpc[k] = "start"
  /\ \A j \in Keepers : kpc[j] # "ready"
  /\ IF running \/ silent
     THEN Goes(k, "read") /\ UNCHANGED <<silent, selected, abandoned, torn>>
     ELSE /\ Goes(k, "ready")
          /\ silent' = TRUE
          /\ FailClosed
          /\ abandoned' = FALSE
          /\ torn' = [l \in Lanes |-> IF HasWork(l) THEN torn[l] ELSE None]
  /\ UNCHANGED <<leases, qualified, running, health, work, stopVars, faults, kills>>

\* The control API of a new or a hanging process answers.
GatewayAnswers ==
  /\ silent
  /\ running' = TRUE
  /\ silent' = FALSE
  /\ UNCHANGED <<leases, qualified, selected, health, kpc, work, stopVars, abandoned, torn, faults, kills>>

\* The process answered, and every work selector is released before start
\* returns.
GatewayReady(k) ==
  /\ kpc[k] = "ready"
  /\ running
  /\ FailClosed
  /\ Goes(k, "read")
  /\ UNCHANGED <<leases, qualified, running, health, silent, work, stopVars, abandoned, torn, faults, kills>>

\* start raises: the process exited or somebody stopped it, or before there is
\* one the configuration cannot be rendered or Mihomo is not installed.
StartFails(k) ==
  /\ \/ kpc[k] = "ready" /\ ~running /\ ~silent /\ UNCHANGED faults
     \/ kpc[k] = "start" /\ Fault
  /\ Goes(k, "away")
  /\ UNCHANGED <<poolVars, silent, work, stopVars, abandoned, torn, kills>>

\* The process hangs for longer than start waits: start stops it and raises.
StartTimesOut(k) ==
  /\ kpc[k] = "ready"
  /\ silent
  /\ Fault
  /\ ProcessStop
  /\ Goes(k, "away")
  /\ UNCHANGED <<leases, qualified, selected, health, work, stopVars, abandoned, torn, kills>>

\* version() once more, then leases() of all targets.
ReadsLeases(k) ==
  /\ kpc[k] = "read"
  /\ running
  /\ work' = [work EXCEPT ![k] = [l \in Lanes |-> leases[l].node]]
  /\ Goes(k, IF work'[k] = NoWork THEN "away" ELSE "restore")
  /\ UNCHANGED <<poolVars, silent, stopVars, abandoned, torn, faults, kills>>

\* The second version() raises, and so does ensure_gateway.
RecoveryRaises(k) ==
  /\ kpc[k] = "read"
  /\ \/ ~running /\ UNCHANGED faults
     \/ running /\ Fault
  /\ Goes(k, "away")
  /\ abandoned' = TRUE
  /\ UNCHANGED <<poolVars, silent, work, stopVars, torn, kills>>

RestoreSelects(k, l) ==
  /\ kpc[k] = "restore"
  /\ l \in Lowest(ToRestore(k))
  /\ running
  /\ Select(l, work[k][l])
  /\ Goes(k, "confirm")
  /\ UNCHANGED <<leases, qualified, running, health, silent, work, stopVars, abandoned, torn, faults, kills>>

\* Mutant: the keeper goes after the first lane.
RestoreDoneAborts(k, l) ==
  /\ work' = [work EXCEPT ![k] = NoWork]
  /\ Goes(k, "away")
RestoreDone(k, l) ==
  /\ work' = [work EXCEPT ![k][l] = None]
  /\ Goes(k, IF ToRestore(k) = {l} THEN "away" ELSE "restore")

\* group.now is the node of the lease: the lane counts as restored.
RestoreConfirms(k, l) ==
  /\ kpc[k] = "confirm"
  /\ l \in Lowest(ToRestore(k))
  /\ running /\ selected[l] = work[k][l]
  /\ RestoreDone(k, l)
  /\ UNCHANGED <<poolVars, silent, stopVars, abandoned, torn, faults, kills>>

\* select or group raised, or group.now is another node: the lane is counted
\* as failed and ensure_gateway goes on with the next one.
RestoreFails(k, l) ==
  /\ kpc[k] \in {"restore", "confirm"}
  /\ l \in Lowest(ToRestore(k))
  /\ \/ ~running /\ UNCHANGED faults
     \/ running /\ kpc[k] = "confirm" /\ selected[l] # work[k][l] /\ UNCHANGED faults
     \/ running /\ Fault
  /\ RecordLaneCheck(l, FALSE)
  /\ RestoreDone(k, l)
  /\ UNCHANGED <<qualified, selected, running, health, silent, stopVars, abandoned, torn, kills>>

\* The keeper is killed; a process it was waiting for lives on.
KeeperDies(k) ==
  /\ kpc[k] # "away"
  /\ kills < MaxKills
  /\ kills' = kills + 1
  /\ abandoned' = TRUE
  /\ Goes(k, "away")
  /\ work' = [work EXCEPT ![k] = NoWork]
  /\ UNCHANGED <<poolVars, silent, stopVars, torn, faults>>

\* Mihomo exits, or hangs from now on.
GatewayCrashes ==
  /\ running \/ silent
  /\ Fault
  /\ running' = FALSE
  /\ silent' \in {FALSE, running}
  /\ UNCHANGED <<leases, qualified, selected, health, kpc, work, stopVars, abandoned, torn, kills>>

-----------------------------------------------------------------------------
(* stop: process.stop(), then clear_all_leases: the rows are read, and     *)
(* cleared in transactions of their own.  It waits for no keeper, so a row *)
(* may be cleared while a keeper is restoring the lane, or has done so.    *)

StopsProcess ==
  /\ spc = "off"
  /\ stops < MaxStops
  /\ stops' = stops + 1
  /\ ProcessStop
  /\ spc' = "read"
  /\ UNCHANGED <<leases, qualified, selected, health, kpc, work, toClear, abandoned, torn, faults, kills>>

ListsLeases ==
  /\ spc = "read"
  /\ toClear' = {l \in Lanes : Leased(l)}
  /\ spc' = IF toClear' = {} THEN "off" ELSE "clear"
  /\ UNCHANGED <<poolVars, silent, kpc, work, stops, abandoned, torn, faults, kills>>

Held(l) == HasWork(l) \/ (Present /\ selected[l] # Reject)

ClearsLease(l) ==
  /\ spc = "clear"
  /\ l \in Lowest(toClear)
  /\ ClearLease(l)
  /\ torn' = IF Held(l) THEN [torn EXCEPT ![l] = leases[l].node] ELSE torn
  /\ toClear' = toClear \ {l}
  /\ spc' = IF toClear' = {} THEN "off" ELSE "clear"
  /\ UNCHANGED <<qualified, selected, running, health, silent, kpc, work, stops, abandoned, faults, kills>>

-----------------------------------------------------------------------------

KeeperStep(k) ==
  \/ FindsRunning(k) \/ FindsDead(k) \/ FindsUnresponsive(k) \/ StopsUnresponsive(k)
  \/ Spawns(k) \/ GatewayReady(k) \/ StartFails(k) \/ StartTimesOut(k)
  \/ ReadsLeases(k) \/ RecoveryRaises(k)
  \/ \E l \in Lanes : RestoreSelects(k, l) \/ RestoreConfirms(k, l) \/ RestoreFails(k, l)

StopStep == StopsProcess \/ ListsLeases \/ \E l \in Lanes : ClearsLease(l)

RecoveryNext ==
  \/ \E k \in Keepers : KeeperStep(k) \/ KeeperDies(k)
  \/ GatewayAnswers \/ GatewayCrashes
  \/ StopStep

-----------------------------------------------------------------------------
(* The gateway on its own: leases of one target, no monitor.               *)

gatewayVars == <<poolVars, recoveryVars>>

\* The gateway is down, with whatever leases it had before.
DownInit ==
  /\ leases \in [Lanes -> {NoLease} \cup
                  [target : Targets, node : Nodes, failures : {0}]]
  /\ qualified = [t \in Targets |-> Nodes]
  /\ selected = [l \in Lanes |-> RouteOf(l)]
  /\ running = FALSE
  /\ health = [t \in Targets |-> [n \in Nodes |-> "ok"]]

GatewayInit == DownInit /\ RecoveryInit

RecoverySpec == GatewayInit /\ [][RecoveryNext]_gatewayVars

\* maintain-reserve comes back to ensure_gateway cycle after cycle, any other
\* keeper, like the stop command, runs to its end once it has begun.  A new
\* Mihomo answers while its keeper waits for it; a hanging one need not.
AnswersInTime == GatewayAnswers /\ \E k \in Keepers : kpc[k] = "ready"
FairRecoverySpec ==
  /\ RecoverySpec
  /\ WF_gatewayVars(KeeperStep(Daemon))
  /\ \A k \in Keepers : WF_gatewayVars(kpc[k] # "away" /\ KeeperStep(k))
  /\ WF_gatewayVars(AnswersInTime)
  /\ WF_gatewayVars(ListsLeases \/ \E l \in Lanes : ClearsLease(l))

-----------------------------------------------------------------------------
(* Properties.                                                             *)

\* Every variable keeps its type.
RecoveryTypes == PoolTypeOK /\ RecoveryTypeOK

\* Whenever Mihomo runs, a lane without a lease is closed, whatever was
\* restarted, killed or half restored before; unless stop cleared the lease
\* under a keeper that was restoring the lane or behind one that had done so.
\* Then the lane leads to that node or nowhere, and the next Mihomo starts
\* without it once the keeper is gone (ensure_gateway, clear_all_leases).
UnassignedRejects ==
  running => \A l \in Lanes : ~Leased(l) => selected[l] \in {Reject, torn[l]}

\* "Keep every unassigned work selector on REJECT", as the operator reads it:
\* when no process is in the middle of anything, an unassigned lane is closed.
UnassignedClosed       == running => \A l \in Lanes : ~Leased(l) => selected[l] = Reject
UnassignedRejectsAtRest == AllAway /\ spc = "off" => UnassignedClosed

\* proxy_urls hands out every lane whose row is active, so such a lane has to
\* be routed to its node once the gateway is up again and no process works on
\* it: a start is followed by a restore of every lease, and a lane that could
\* not be restored is degraded.
LanesRestored ==
  AllAway /\ running =>
    \A l \in Lanes : Leased(l) /\ ~Degraded(l) => selected[l] = leases[l].node

\* The same, unless a keeper was killed or raised between start and restore.
ActiveLanesRouted == abandoned \/ LanesRestored

\* Whatever fails on the way, once the maintenance daemon is left alone the
\* gateway runs in the end, and nobody is stuck in a half-finished recovery.
\* (Two keepers may go on stopping the process the other one has just spawned.)
GatewayComesBack ==
  <>[](\A k \in Keepers \ {Daemon} : kpc[k] = "away") => <>[](running /\ AllAway)

\* What all of them together promise: the gateway comes up closed, lanes are
\* opened only to their leases, or to one that stop has just cleared, and a
\* lane that is open when its lease is cleared is accounted for
\* (FailClosedLanes).
LeasedNode  == [l \in Lanes |-> leases[l].node]
FailsClosed == INSTANCE FailClosedLanes
                 WITH present <- Present, lease <- LeasedNode, route <- selected
ImplementsFailClosed == FailsClosed!Spec

-----------------------------------------------------------------------------
(* The inductive invariant behind the safety properties.                   *)

Restoring == {"restore", "confirm"}

\* A keeper has leases to restore only while it restores them, and they are
\* the leases the lanes still have, or that stop took from them meanwhile.
WorkCurrent ==
  \A k \in Keepers :
    /\ kpc[k] \notin Restoring => work[k] = NoWork
    /\ \A l \in Lanes : work[k][l] # None => work[k][l] \in {leases[l].node, torn[l]}

\* stop clears every lane once, and a lane it cleared has no lease any more.
ClearedOnce ==
  /\ \A l \in Lanes : torn[l] # None => ~Leased(l)
  /\ \A l \in toClear : Leased(l)

ClosedLanes ==
  Present => \A l \in Lanes : selected[l] \in {Reject, leases[l].node, torn[l]}

\* A lane that is neither routed nor degraded is still to be restored by some
\* keeper.
Pending(l) ==
  \E k \in Keepers : kpc[k] \in {"ready", "read"} \/ work[k][l] # None
RestorePending ==
  Present /\ ~abandoned =>
    \A l \in Lanes : Leased(l) /\ ~Degraded(l) =>
      selected[l] = leases[l].node \/ Pending(l)

RecoveryInv ==
  /\ RecoveryTypes
  /\ ~(running /\ silent)
  /\ WorkCurrent
  /\ ClearedOnce
  /\ ClosedLanes
  /\ RestorePending

=============================================================================
