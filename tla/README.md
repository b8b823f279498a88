# Crawler gateway: TLA+ specifications and proofs

The gateway keeps a pool of proxy nodes, tests them against the targets of its
crawlers, and gives each crawler *work lanes*: local ports, each routed by a
selector group of a shared Mihomo process to one leased node. Crawlers are
never told about a failover; the lane changes its node under them. This
directory models what keeps that safe and alive, checks it with TLC, and
proves the central results with TLAPS.

Paths are those of the repository; line numbers in PROJECT.json ("map") are of
`src/crawler_gateway/*.py`.

## 1. Inventory of the system

| Component | State it keeps | Operations | Interacts with |
|---|---|---|---|
| Lane monitor (`controller.py`: `monitor`, `check_lanes`, `replace_lane`) | locals of a cycle, `_last_reinventory_at` | check, fail over, re-inventory | store (rows), Mihomo (selectors), probes |
| Gateway recovery (`ensure_gateway`, `MihomoProcess.start/stop`, `start`, `stop` commands) | `mihomo.pid`, `mihomo-start.lock`, the process, its selectors | health check, stop, start, restore leases, clear leases | store, Mihomo |
| Lane assignment (`assign`, `ensure_lanes`) | `kept`, `used_nodes`, `used_ips` | keep, replace, clear lanes | store, Mihomo, inventory |
| Inventory and discovery (`discover`, `inventory`, `probe_reserve`) | `inventory.lock`, probe lanes | refresh providers, sync nodes, probe every node | subscriptions, store, Mihomo |
| Reserve maintenance (`maintain_reserve`, status, stop) | `reserve_maintenance.lock`/`.pid`, stop event | cycles of recovery, refresh, probing; stop | all of the above |
| State store (`state.py`) | SQLite: `nodes`, `node_target_state`, `lane_leases`, `provider_refresh_state`, history | one transaction per method (three in `sync_nodes`) | every process |
| Probing (`probe.py`) | none | target probe with retries, egress lookup | a lane |
| Subscriptions (`subscriptions.py`, `shadowrocket.py`) | provider files, source caches, manifest, a temporary file of each | download, convert, fall back to caches | files |
| Xray backend (`xray.py`) | a process and a directory per lane | start/stop a lane | files, processes |
| launchd service (`launchd.py`) | the launch agent | install, wait until ready, stop | maintenance |
| NSFC supervisor (`integrations/nsfc.py`) | two child processes, one with workers of its own | wait for lanes, run, stop | assignment, monitor |
| Configuration, CLI, events, faults, paths | files | parse, dispatch, log | |

What makes it hard: several *processes* (monitor, maintenance daemon, `start`,
`stop`, `assign`, `check`) work on the same SQLite rows and on the same
selectors without a common lock. Each reads rows, then probes for minutes, then
writes. Any of them can be killed between two calls, Mihomo can crash, hang or
refuse a single call, and the targets themselves can fail for everyone at once.

What must hold, per component:

- *Lane monitor*: no node on two lanes of a target; a healthy lane is never
  touched; a lane's traffic is off its lease only during its own failover; a
  shared error of the target moves one canary only; a failed lane is served
  again when a spare node works.
- *Recovery*: a lane without lease is closed (REJECT), unless `stop` took the lease from
  a process that was restoring it; an active lane is routed, or about to be, or marked degraded; the gateway comes back.
- *Assignment*: as the monitor, also when both run, and for two targets.
- *Inventory / store*: a qualification always belongs to the current
  configuration of an existing node; a leased node is never deleted.
- *Maintenance, NSFC, launchd*: one writer at a time; stop really stops; no
  orphaned process.
- *Subscriptions*: a failed refresh never replaces a good cache; names unique.
- *Mihomo process, Xray lane*: what runs can be found and stopped; what is told is what
  is routed.

PROJECT.json "hazards" lists, line by line, what can go wrong, and which
property looks at it.

## 2. Modules

| Module | Models | Kind |
|---|---|---|
| `LanePool` | the shared state (`leases`, `qualified`, `selected`, `running`, `health`) and one operator per transaction or API call | library |
| `LaneMonitor` | the monitor process; one action per transaction or API call | component |
| `LaneAssignment` | what failover promises: an atomic, injective table of lanes | abstract |
| `GatewayRecovery` | `ensure_gateway` in any number of processes, `MihomoProcess.start`/`stop`, the `stop` command | component |
| `FailClosedLanes` | what recovery promises: lanes come up closed, open only to their lease or to one that `stop` has torn from a keeper | abstract |
| `GatewayLanes` | monitor and recovery together | composition |
| `LaneAssign` | `assign`, `assign --replace` and `ensure_lanes`; one action per step on the store or the selectors | component |
| `ReserveSync` | `discover`, `sync_nodes` and `inventory`, in the cycles of `maintain_reserve` and in commands | component |
| `MihomoProcess` | `pid`, `start`, `stop` of Mihomo with the pid file and `mihomo-start.lock`, any number of callers and processes | component |
| `ReserveService` | the maintenance daemon as a process: lock, pid file, signals; launchd's job; install, status and stop commands | component |
| `NsfcSupervisor` | `run-nsfc`, its autopilot with detail workers, its lane monitor, `stop-nsfc` | component |
| `ProviderFiles` | `materialize_provider` with manifest, source caches, provider file and their temporary files, in several processes; checked as it is | component |
| `XrayLane` | one lane of the Xray backend: processes, directory, users | component |
| `LaneProbe` | the probes of one lane by several processes, request by request, while others switch it | component |
| `UniqueNames` | `_unique_names` per source and over all of a provider | algorithm |
| `LanePoolProofs`, `LaneMonitorProofs`, `GatewayRecoveryProofs`, `GatewayLanesProofs`, `LaneAssignProofs` | theorems about the module of that name | proofs |
| `ReserveProofs` | theorems about `ReserveSync` and `LaneProbe` | proofs |
| `SupervisionProofs` | theorems about `ReserveService`, `NsfcSupervisor` and `ProviderFiles` | proofs |
| `ProxiesProofs` | theorems about `MihomoProcess`, `XrayLane` and `UniqueNames` | proofs |
| `MCLaneMonitor`, `MCGatewayRecovery`, `MCGatewayLanes`, `MCLaneAssign`, `MCReserveSync` | constants of the runs | model checking |
| `MCSupervision` | `ReserveService` and `NsfcSupervisor`, of which one moves | model checking |
| `MCProxies` | `MihomoProcess`, `XrayLane`, `UniqueNames`, `LaneProbe`, of which one moves | model checking |

### State and code

`leases[l]` is the row of `lane_leases` (target, node, `consecutive_failures`;
`status` is determined by the count). `qualified[t]` are the nodes `candidates(t)`
would return: a healthy, fresh row of `node_target_state`. `selected[l]` is
`group.now` of the work selector; while Mihomo is down it is what it was when
Mihomo last ran, and `Spawns` resets it, because `store-selected` is off and
REJECT is the first policy of every group. `running`: the control API answers;
`silent`: there is a process that does not. `health[t][n]` is what a probe of
`t` through `n` would observe now, after the retries of `probe_target`:
"ok", "link" (no HTTP status) or an explicit wrong answer (a *signature*).

The monitor's `pc` follows the code: `idle`, `probe` (the thread pool of
`check_lanes`), `record` and `check` (the loop over the leases, `record_probe` and then
`record_lane_check`), `decide`, `plan` (the lanes left), `reread` (a lane that was not
replaced: its row is read once more), `load`/`try`/`verify`/`lease` (`_replace_lane_from_candidates`),
`inventory` (inside `replace_lane`). A keeper's `kpc`: `away`, `stop`, `start`,
`ready` (waiting for the API under the start lock), `read`, `restore`, `confirm`. The stop
command's `spc` is `off`, `read` or `clear`; it waits for no keeper, and no keeper looks for
it. `torn[l]` remembers the node of a lease that `stop` cleared while a keeper had it on its
list or a Mihomo had the lane open to it; a new Mihomo, which comes up closed, forgets it unless
a keeper still has the lane on its list.

`LaneAssign` starts from any rows and any selectors an earlier, perhaps killed,
command can have left. Its `step` follows `assign`: `begin`, `keep`/`check` (the loop over
the existing leases), `list`, `offer`/`verify`/`lease` (the loop over the lanes to
fill), `trim` (lanes beyond the requested number), `release`, and `inventory`, which
only `ensure_lanes` takes. `kept`, `existing`, `usedNodes` and `offers` are the locals of
those names (`existing_by_lane`, `used_nodes`, `candidates`). Its check
writes `record_probe` and `record_lane_check` in one step.

In `ReserveSync` a node is followed by its key. `file`, `core`, `rows` and `tested` hold
the configuration of the node in the provider file, in the running Mihomo, in
`nodes.metadata_json` (as fingerprint) and behind the healthy row of
`node_target_state`. `found` is the list `discover` builds, `previous` the
`previous_metadata` of `sync_nodes`. `NoPrint` is a row without fingerprint, which
`_node_metadata_changed` never takes for changed when it gets one. The targets are
probed one after the other; the model has one.

In `MihomoProcess` a keeper's `pc` is its line in `start` ("lock", "read", "check",
"spawn", "write", "await"), `stop` ("stop-read" to "unlink") or `pid` ("look"); `core[k]` is
a process: starting, serving the API, or up without the port ("mute"). `GatewayRecovery`
takes start and stop of one process as given; `MihomoProcess` says when that is so
(`OneCore`, `LiveCoreIsNamed`): as long as no unlocked call runs beside a start
(`disturbed`).

In `ReserveService` `daemon[d]` is where `maintain_reserve` is: "born" (before `flock`),
"locked", "named" (pid file written), "cycle"/"work"/"wait" (the loop, handlers in
place), "ending"/"closing" (the `finally` clause). `Job` is what launchd starts, `Manual` is
started in a terminal. `enabled` and `loaded` are launchd's; `call` and `seen` are the step
and the pid of a command; `mishaps` counts kills and `launchctl` calls that fail, have no
effect, or time out and end the command. What a cycle does to the reserve is `ReserveSync`'s; to the
gateway here is only whether it is up.

In `NsfcSupervisor` `run[r]` follows `run_nsfc` from the check for other writers to the
`finally` clause. `crawler[r]` is its autopilot ("none", "up", or "told" by SIGTERM), `working`
the runs whose autopilot has detail workers, which are in its session and may outlive it,
`monitor` the runs whose lane monitor is there. `found` is what `existing_nsfc_processes` showed
`stop-nsfc`, by run and role. `raced` remembers that a run
passed its check while another was between check and start.

In `ProviderFiles` the content of a subscription is a version, 0 is none: `offer[u]`
what the URL delivers now, `stored[f]` what each file has of each subscription, where a file is
the provider file (`dest`), the manifest, or a source's cache (`cache[u]`), and `got[r]` the
locals of a refresh. `temp[f]` is what the file's temporary file contains, if there is one:
`_atomic_yaml_write` opens, fills and renames it, three steps, and its name depends on the
file alone. `writing[r]` is the file a refresher is writing and `hold[r]` what it has opened:
"temp", the temporary file under its name; "file", since another refresher has renamed it, or
always for a file provider, which is copied directly; "full" when it has written.
`overlap` remembers who was not alone in writing its file, `mixed` that two
refreshes overlapped or one was killed. In `XrayLane` `at[u]` is the
line of a user in `stop_lane`, `start_lane` or `lane_pid`, `via[s]` the node a process was
started for, `overlapped` remembers that two users worked on the lane at once, and `blind`
that `ps` failed in a `stop_lane`.

In `LaneProbe` `stage[p]` is where a prober is: "select" and "confirm" (the call and the
look at `group.now`), "target" (the loop of `probe_target`), "egress", "record".
`reserveLane` tells the lanes of an inventory, which `inventory.lock` leaves to one
prober and which only a restart (with `store-selected` off) or the end of the inventory
closes, from work lanes, which anybody switches. Only no answer and a 5xx are asked for
again. `okThrough` and `ipOf` remember the node the right answer and the address came
through, which the code never learns; `rerouted` remembers whose lane was switched after
his look.

A pid is the name of its process. When the name is used again, everything that was
read or written of the earlier process becomes `Gone` (`Stale`): a pid that the system
gives to a foreign process is what `ps` with the command line recognises in the code.

### Abstractions

- The order of candidates inside one source tier and one group of equal IP
  preference (successes, latency, age, name) is arbitrary: the model tries any.
- `consecutive_failures` is kept up to the threshold; nothing looks further.
- An IP belongs to a node (`IpOf`) and does not change; lookups may fail.
- `Inventory` is one action for the probes of all nodes; partial results can
  appear through `ReserveProbe` while the monitor waits in it.
- An API call to a Mihomo that does not answer raises and changes nothing.
- In `ReserveSync` each download brings any configurations, the lanes may have
  leased any nodes when `sync_nodes` reads `lane_leases`, and verdicts do not expire
  (a cycle is far shorter than `healthy_max_age_hours`).
- `kill(pid, 0)` answers truly. A `ps` that fails or times out, which the code reads as "no
  such process", is modelled for the Xray lanes; the `ps` of `maintain-reserve`,
  Mihomo and `run-nsfc` answers.
- In `ProviderFiles` what a killed or overlapping writer leaves half-written counts as a file
  that cannot be read, a temporary file that nobody writes any more as none (the next
  writer truncates it), and a rename that fails is one step with the look at the cache
  that follows.
- An autopilot that was told to go starts no more detail workers (external).
- In `XrayLane` the write of `config.json` through its temporary file is one step; of users
  that start the lane at once it may leave the text of either, a broken one, or raise.
- SIGTERM to a process without a handler ends it in that step; SIGKILL and what a
  timeout leaves behind are steps of their own.
- An Xray lane is seen alone: lanes have their own directories, ports and processes.
  A node Xray has no configuration for, or rejects, is in `Rejected`.
- `overlapped`, `blind`, `disturbed`, `raced`, `mixed`, `overlap`, `torn` and `rerouted` are history
  variables: no action of the code reads them, and once set they stay (`rerouted` until the next
  probe, `overlap` until the write is over, `torn` until a new Mihomo comes).
- Events, wording, timestamps and the probe history are left out.

## 3. Runs

| Run | Instance | Result |
|---|---|---|
| `lane_monitor` | 2 lanes, 3 nodes in 2 tiers, one without a known IP, threshold 1, link and HTTP failures | `TrafficStaysOnLease`, `OutageMovesOnlyCanary`, `FailedLanesRecover` hold under `FairSpec` |
| `lane_monitor_crash` | threshold 2, link failures, one kill | `MonitorInv`, `OnlyFailedLanesMove`, `ImplementsAssignment` hold |
| `gateway_recovery` | 2 keepers, one the daemon, 2 lanes, two faults, one kill, one stop at any step | `RecoveryInv`, `UnassignedRejects`, `ActiveLanesRouted`, `ImplementsFailClosed`, `GatewayComesBack` hold under `FairRecoverySpec` |
| `gateway_lanes` | 2 lanes, 2 nodes, one crash or failed call, the daemon as keeper and the monitor at work | `LeasesMoveAfterThreshold`, `AssignmentUntilStop`, `FailedLanesRecover` hold under `FairSystemSpec` |
| `lane_assign` | 2 lanes, 2 nodes behind one IP, leases of 2 targets, `assign --replace` and `ensure_lanes` (which runs the plain `assign`), one kill or failed call | `RoutesRepaired`, `NewNodesDistinct`, `KeptLanesUntouched`, `AssignEnds` hold under `FairAssignSpec` |
| `reserve_sync` | 1 node, 2 configurations, the daemon beside a command that runs again and again, one mishap | `SyncInv` (and so `DaemonKeepsCurrent`), `DaemonKeepsFresh`, `ReserveConverges` hold under `FairSyncSpec` |
| `supervision` | the job and a manual daemon, one command that installs and stops, one that looks, one kill or failing `launchctl`; 2 NSFC runs with workers and `stop-nsfc`, one kill | `ServiceInv`, `OnlyLateChecksUnname`, `InstalledJobHasLock`, `StopsInTheEnd`, `MaintenanceGoesOn`; `NsfcInv`, `OneWriterUnlessRaced`, `ChildrenEndTogether`, `StopEndsWriters` hold under `SuperSpec` |
| `provider_files` | every kind of provider, 2 subscriptions, the service and a command that refresh, one change, one failure or kill | `FilesInv`, `NeverEmptied`, `MergesEachSource`, `FileConverges` hold under `FairFilesSpec` |
| `proxies` | 3 callers and 2 Mihomo processes; 2 users, 2 Xray processes and 3 nodes, one rejected; 2 sources of up to 4 nodes; 2 probers, 2 nodes, 2 attempts; one kill or failing `ps` each, of probers any number of kills | `LiveCoreIsNamed`; `TurnsTellTruth`, `AtMostOneServer`, `ReleasedLaneIsClosed`; `SourceNamesDiffer`; `VerdictOfSubject` hold |
| `check_no_replace` | `check --no-replace` | `NoReplaceMovesNothing` is violated |
| `half_recovered` | one failed call | `LanesRestored` is violated |
| `reserve_mishap` | the daemon alone, one kill | `ChangedNodesUntested` is violated |

The inductive invariants (`MonitorInv`, `RecoveryInv`, `AssignInv`, `SystemInv`, `SyncInv`,
`ServiceInv`, `NsfcInv`, `FilesInv`) contain the type invariants of their modules. Those that
no run lists (`AssignInv`, `SystemInv`, `PairsAreSeen` of `XrayLane`) are proved; TLC finds them
kept too when they are added to the configuration of the run, and `MCGatewayStop.cfg`, which is
no run, checks `SystemInv`, `ClosedUntilStop` and the safety properties
of `GatewayLanes` with a killed keeper and a stop that waits for nobody. `supervision` checks
two components and `proxies` four that share no state: a variable `moving` chooses in the initial
state which of them runs, and the others stay in a fixed initial state. This
is several checks in one run, not their interleaving; nothing in the code couples them,
so interleavings would add states and no behaviour.

**Bounds.** Two lanes are the least that can share a node or an outage; three
nodes leave one spare that both lanes want, of another tier and of unknown IP,
so that the preference order matters; threshold 2 separates the first failed
check from the last, threshold 1 keeps the run with three outcomes in reach.
Every node changes its behaviour at any time, without bound. `MaxDeaths`,
`MaxFaults`, `MaxKills` and `MaxStops` bound how often a process is killed, an
API call or Mihomo fails, a keeper is killed, and stop is run: they are the only
bounds on behaviour. One kill and two faults reach every pair of failures in
one recovery, and one stop can be at any of its steps beside any step of both keepers. `GatewayLanes` has two
lanes and neither kill nor stop: those of a keeper are in `gateway_recovery`, and
`MCGatewayStop.cfg` has both with one lane and interchangeable nodes (hence its
symmetry), since what a keeper, a stop and the monitor do to each other happens on one
selector and one row. In `LaneAssign` two lanes compete for two
nodes, with a lease of another target in the way; `MaxMishaps` bounds kills and
failed releases. `ReserveSync` has one node, because its steps treat every node
alike and by itself; what interleaves are the processes. `MaxMishaps` bounds failed
downloads and calls and kills together; the provider, Mihomo, the nodes and the
command change or run without bound.

Two daemons are all there can be at the lock: the one that holds it and the one that
finds it taken; commands come again without bound. Two runs of `run-nsfc` are the least
that race. Two subscriptions tell a source that failed from one that came; versions
count up with `MaxChanges`, so that "older" can be said; one of the two (`Changing`) changes.
`MaxMishaps` of `ReserveService` bounds kills and failing `launchctl` calls together,
`MaxUserMishaps` of `XrayLane` kills of users and failing `ps`. With three callers Mihomo can
be started, stopped and looked at at the same time, and two processes are what two
starts leave. Two users and two processes do the same for an Xray lane; the third
node is one that Xray rejects. Four nodes of one name get every number the algorithm
can give beside a node that is called "a (2)" itself. Two probers are the least that
switch a lane under each other, two attempts the least that tell a retry from the last
request; probes, switches and kills of probers come again without bound.

**Fairness.** The monitor and the maintenance daemon are loops that catch every
exception (`monitor`, `maintain_reserve`), so a step of theirs that stays
possible is taken: weak fairness of the whole process, not of single actions.
Time passes (`CooldownElapses`). The maintenance daemon probes every node in
every cycle, hence weak fairness of `ReserveProbe` per node. A spawned Mihomo
opens its API while somebody waits for it (`AnswersInTime`); a hanging one need
not ever answer. A keeper of `GatewayRecovery` other than `Daemon` is a command: it
need not run again, but one that has begun is not suspended. Two keepers can stop
each other's starting process for ever (each finds a process that does not
answer yet), so `GatewayComesBack` promises the gateway once only the daemon still
calls `ensure_gateway`. `assign` is one command and runs to its end (weak fairness).
In `ReserveSync` the daemon keeps cycling, and a command that has begun runs on; a
command that takes `inventory.lock` whenever the daemon asks for it keeps the daemon
from probing, so `ReserveConverges` assumes that commands end some time. In `ReserveService` the daemons go on (every call of a cycle has a timeout), launchd starts
its job again, and a command that has begun goes on; nobody need begin one. `MaintenanceGoesOn`
assumes that commands and manual daemons end some time, because one that holds the
lock keeps the job out. In `NsfcSupervisor` runs and `stop-nsfc` go on; the children need
not do what SIGTERM asks. In `ProviderFiles` the service refreshes again and again.
`MihomoProcess`, `XrayLane`, `UniqueNames` and `LaneProbe` are checked for safety only.
Nothing is fair about faults, kills, crashes and changes of
nodes. `FailedLanesRecover` only promises something once the nodes stop
changing.

**Deadlock** is checked in every run.

**Mutants.** Beside the definitions of the modules stand the forms a plausible
bug would give them ("Mutant: ..."); each breaks the property it is listed with
in PROJECT.json under the property's own run.

## 4. What the code does not keep

Three runs end in a violation, each of something the repository says of itself:

1. `check_no_replace`: `check --no-replace` replaces the canary's lease in a shared
   failure: the canary branch of `check_lanes` does not look at `replace_failed`.
2. `half_recovered`: an error between start and restore leaves active lanes on REJECT,
   and the next `ensure_gateway` sees a healthy gateway and restores nothing.
3. `reserve_mishap`: `sync_nodes` writes new fingerprints and drops old verdicts in
   different transactions: a kill in between keeps the verdict of the old
   configuration, and no later synchronisation sees a change. The next probe repairs
   it (`ReserveConverges`).

Beside `MCGatewayStop.cfg`, which holds, eight more configurations stand beside the runs; TLC finds each violated (for instance
`tlc -config MCServiceHalted.cfg MCSupervision.tla`). They are not among the runs of
PROJECT.json, which keeps to a number that can be checked together.

| Configuration, module | Property | What happens |
|---|---|---|
| `MCGatewayStopRace.cfg`, `MCGatewayRecovery` | `UnassignedRejectsAtRest` (SKILL.md:54) | `stop` clears the leases between another process's read and restore of them: the lane stays open without a lease. This is the part of the promise that `UnassignedRejects` cannot make: there the lane may lead to the lease that was torn, and to nothing else |
| `MCLaneAssignOthers.cfg`, `MCLaneAssign` | `OthersLanesKept` (SKILL.md:69) | `assign` for one target takes over or clears a healthy lane of another: it reads the leases of its own target only |
| `MCServiceHalted.cfg`, `MCSupervision` | `HaltedStaysDown` (README.md:67) | `stop-maintenance` gives up waiting after ten seconds; the daemon, still in its cycle, starts the gateway again that `stop` has stopped |
| `MCServiceSuccess.cfg`, `MCSupervision` | `SuccessMeansLooping` (SKILL.md:88, launchd.py:209) | the job has not come up, launchd shows no pid, the pid file names nobody: the two agree, `maintenance_ready` is true and `install_and_start_service` raises nothing (`install-service` itself still returns 2 when the status says not running, cli.py:222) |
| `MCProviderEmptied.cfg`, `ProviderFiles` | `NeverEmptiedByRace` (SKILL.md:58) | two refreshers fill the one temporary file of the provider file; one moves it into place, and what the other writes then goes into the file itself and makes it unreadable, or it is killed before |
| `MCOneWriter.cfg`, `MCSupervision` | `OneWriter` (README.md:66, SKILL.md:72) | two runs look for writers before either has started its own |
| `MCProviderNames.cfg`, `MCProxies` | `ProviderNamesDiffer` (test_subscriptions.py:86) | two nodes "a" and one called "a (2)": the number given collides with the given name |
| `MCProbeOneNode.cfg`, `MCProxies` | `OneNodeInRow` (the address that `record_probe` writes beside the verdict is of the node the verdict is about) | the lane is switched between the right answer and the look-up of the address, which does not look at the selector again |

The models also reach the following, which no configuration of its own shows:

- A failover that is killed between select and `replace_lease` leaves the lane on
  the candidate; the next check counts a failure (`_probe_lane_lease`) but does not
  close the lane, as README.md:43 has it.
- The restore loop of `ensure_gateway` works on leases it read before; a lane the
  monitor moved meanwhile is pointed back at its old node until the next check.
- `assign` clears a row before it releases the selector; a failed release, or a
  kill, leaves the lane open without a lease until the next assign or restart.
- With another process in `discover`, a probe of the old configuration can be
  recorded under the new fingerprint, and a reload that fails after the file was
  written has the old configuration tested under the new one.
- `MihomoProcess.stop` and `pid` hold no lock: a stop that waits for one process unlinks
  the pid file a later start has written, and a look at an old pid file does the
  same. The process then runs unnamed; the next start spawns another, which finds the
  port taken, and the start returns as soon as the first answers (`disturbed`).
  Likewise a start killed between `Popen` and the pid file.
- A status check removes the pid file of a daemon that wrote it after the check had read
  the earlier one; from then on `stop-maintenance` does not find the daemon, and
  an installation takes it for none (`OnlyLateChecksUnname` says nothing else does).
- A run of `run-nsfc` that is killed, or signalled before its handlers are there, leaves
  its children; `stop-nsfc` finds autopilot and detail workers, not the lane monitor. Detail
  workers of an autopilot that exits by itself outlive a run that ends as it should; the next
  run sees them.
- A `ps` that fails in `stop_lane` leaves the lane's servers running without pid file, and one
  that fails in the look for duplicates leaves two.
- A `bootout` that fails goes unnoticed: `stop-maintenance` then ends the job by its pid, and
  launchd starts it again.
- A file provider is copied before it is parsed, and an archive with a scope may have
  no node of that scope: both may empty the provider file. Refreshes that overlap may
  bring back older nodes for a while.

## 5. Proofs

`LaneMonitorProofs` proves for every number of lanes, nodes and targets, every
threshold and any number of kills that `MonitorInv` is an invariant. It is
`TypeOK` and what makes the safety properties inductive: candidates are never
nodes a lane of the target holds (`CandidatesFree`), a lane in the plan has
reached the threshold in its row, not only in the count the cycle remembers
(`CountsMatch`), the snapshot names the node the row holds (`SnapshotCurrent`),
and a selector differs from its row only for the lane in `try`, `verify` or
`lease` (`RouteInv`). From it follow `TypeCorrectness`, `LanesKeepDistinctNodes`,
`TrafficOnLease`, `HealthyLanesUntouched`, `OnlyCanaryMovesInOutage` (with
`CanaryPlan`) and `ImplementsLaneAssignment`, the refinement. They are about one
monitor process on a gateway that stays up: `Spec` of `LaneMonitor`.

`GatewayRecoveryProofs` proves for any number of keepers, lanes, failures and stops that
`RecoveryInv` is an invariant of `RecoverySpec`; there is no premise about when `stop` runs.
`WorkCurrent` says that what a keeper has on its list is the lease the lane still has or the one
`stop` tore from it, `ClosedLanes` that a selector stands on REJECT, the lease or the torn
lease, and `ClearedOnce` that a torn lease is gone from the row, so that the two are never confused.
`RestorePending` says that an active lane is routed or still pending with some keeper. From it
follow `RecoveryTypeCorrectness`, `UnassignedLanesClosed` and `RecoveryRoutesActiveLanes`.
Recovery refines `FailClosedLanes` step by step (`ImplementsFailClosedHolds`): a start and a hanging
process begin with every lane closed, a restore opens a lane to the lease it has now or to the torn one because of
`WorkCurrent`, and a lease that is cleared while its lane is open becomes the torn one.
`RecoveryOwnRoutes` says what follows: no selector of a Mihomo ever stands on a node but the
one its lane leases or, when `stop` took the lease from a keeper, leased.

`LaneAssignProofs` proves for any lanes, nodes, targets and commands and any number
of kills that `AssignInv` is an invariant. `SettledUsed` says that the node of every
lane that is kept or newly assigned is in `usedNodes`, `OffersUnused` and `OfferFree`
that a candidate on the list, or on a lane, is not; together they make
`KeptApart`, that settled lanes have distinct nodes, inductive. `NothingMoved` says
that before the first candidate no lease has changed. From it follow
`AssignTypeCorrectness`, `AssignsDistinctNodes` and `KeptLanesStay`. A second
invariant, `RoutesInv`, says which lanes are on their leases by then: while lanes are filled,
every requested lane that waits no longer (`Offering`), while lanes are trimmed, every
lane that waits no longer (`Trimming`), and a waiting lane with an old lease still has it
(`HasExisting`), so that the way back leads to the lease. `RoutesRepairedHolds` follows.

`GatewayLanesProofs` is about the composition, `SystemSpec`, with any number of stops, also
such that race with a recovery. Most of what the monitor knows by itself does not survive a stop: the row
behind a decision may be cleared, and a failover may lease a cleared lane again. `SystemInv` keeps what does:
`CountsKept`, that a row that is still there has at least the failures the cycle counted,
because only the monitor sets a count back and a restore that fails adds to it; and
`PlanInSnapshot` and `CandidatesFree`, by which a failover picks a node nobody has.
Until the first stop, `WorkLeased` says that every lane the monitor or a keeper works on is
leased, so that no keeper opens a lane that is not (`LanesClosed`). `SystemDistinctNodes`,
`LeasesMoveAfterThresholdHolds` and `LanesClosedUntilStop` follow, and
`AssignmentUntilStopHolds`: the composition refines `LaneAssignment` step by step
until the first stop, although keepers write the same rows.

`SupervisionProofs` first proves `FilesInv` of `ProviderFiles`. `WritesInOrder` says that who has
opened a temporary file is where the code writes that file, and `AloneWritesOwn` that who is alone
in writing it has its own text in it, whatever was left there before: so `os.replace`
moves what the refresh was to write. `FilesInTurn` says that caches are at least as new as the file until they
are pruned, and then that what is about to be written is. `NeverEmptiedHolds`,
`MergesEachSourceHolds` and `CacheBacksFileHolds` follow. The second part proves `ServiceInv`: a
daemon between `flock` and its end, and only that, holds the lock, and a pid file that names a
live daemon names one in that section. From it follow `PidNamesHolderHolds`,
`OnlyLateChecksUnnameHolds` and `InstalledJobHasLockHolds`. The third proves `NsfcInv`, whose
last conjunct makes `OneWriterUnlessRaced` inductive: while a run is between check and
start there is no writer, orphaned workers included, and no second such run. `NoStraysHolds` is
part of its second conjunct.

`ReserveProofs` proves `SyncInv` of `ReserveSync`: while no command has run and nothing has failed,
`DaemonAlone` says for each step of `discover` and `sync_nodes` how far file, Mihomo, the
list that was read, rows and verdicts agree by then. `DaemonKeepsCurrentHolds` and
`DaemonKeepsFreshHolds` follow. Its second part proves `ProbeInv` of `LaneProbe`: an
inventory's lane has one prober, and from his look on his node is selected, or nothing.
`VerdictOfSubjectHolds` follows. That an inventory's lane has one prober is
what `LaneProbe` takes for granted; `OneInventoryHolds` proves it of `ReserveSync`, for all
commands, kills and failures: whoever probes for an inventory is the holder of
`inventory.lock` (`InventoryHeld`).

`ProxiesProofs` has three parts. `LaneInv` of an Xray lane says what a user who is alone, and
for whom `ps` answered in `stop_lane`, knows at each step (`KnowsLane`: what he scanned is all there is, what he wrote is still
there), from which `TurnsTellTruthHolds` and `ReleasedLaneIsClosedHolds` follow. Users that
overlap may leave two servers for a while; `PairsAreSeen` says that of two servers one at
least is then somebody's business (`SomebodySees`: its user has not looked for
duplicates yet, or somebody is about to end it). When all users are idle nobody sees
anything, so there is one server at most: `AtMostOneServerHolds`. `SourceNamesDifferHolds`
rests on two lemmas about cardinalities: of two nodes with one name the later has the
larger count. Its third part proves `ProcessInv` of `MihomoProcess` for any number of callers, processes and
kills. Its core is `KnowsCores`: between the look at the pid file and the answer of the
API, the holder of the lock knows of every live process, because nobody else starts
one and, undisturbed, nobody removes the file. `LiveCoreIsNamedHolds` and `OneCoreHolds` follow;
the second is what `GatewayRecovery` assumes when it has one `running` process.

The assumptions are those on the constants in the modules, by name; TLC evaluates them
in every run. `OneWriterHolds`, `LiveCoreIsNamedHolds`, `TurnsTellTruthHolds`, `ReleasedLaneIsClosedHolds`,
`AtMostOneServerHolds`, `MergesEachSourceHolds`, `NeverEmptiedHolds` and `UnassignedLanesClosed` except
what their history variables remember, which the code can do: section 4 says what happens then.

Only model-checked: the liveness properties (fairness and ENABLED are beyond the
prover): `FailedLanesRecover`, `GatewayComesBack`, `AssignEnds`, `ReserveConverges`, `StopsInTheEnd`,
`MaintenanceGoesOn`, `ChildrenEndTogether`, `StopEndsWriters` and `FileConverges`. Every
safety property of a passing run is stated by a theorem.
The modules `MCSupervision` and `MCProxies`, which put several components side by side, are not
the subject of theorems: each component is proved by its own specification.

## 6. Not modelled

- Parsing and rendering: `shadowrocket.py`, subscription URIs, the configurations of Mihomo and
  of Xray, `config.py`. Conversions without state; the modules take what they deliver.
- The classification of responses in `probe.py` (status, content type, JSON path): a
  response is right, wrong or none in `LaneProbe`, and a probe is its outcome elsewhere.
- The ranking of candidates inside a tier: any of them is tried.
- Event log rotation, the fault file, file names, wording of output.
- `discover_nodes` and `describe` of the Xray backend: reads of what the modules write.
- A `ps` that fails anywhere but in the Xray backend (section 2).

## 7. Plan

1. `SharedLanes`: the monitor beside `assign`, of the same and of another target. A
   first version showed that nothing excludes them: `replace_lease` writes whatever
   row the lane has by then, also one another target has taken over.
2. `ReserveSync` beside `LaneAssign`: a lease of a node that `sync_nodes` deletes; and a
   second provider file, for names that `discover` and Mihomo's configuration spell
   differently.
3. `ProbeClassification`: the classification of responses against a reference
   definition.
4. Proofs: what `ReserveSync` keeps when commands run beside the daemon; the
   refinement of `GatewayRecovery`'s process by `MihomoProcess`; the routes of
   `GatewayLanes`, which hold only between a keeper's restores.

Runs stay few: components that are small share a run, and a new run takes the place of
the violations that are least instructive, which section 4 keeps as configurations.
