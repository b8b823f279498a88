---------------------------- MODULE ReserveSync -----------------------------
(***************************************************************************)
(* How the reserve follows its provider: discover, inventory and           *)
(* maintain_reserve of controller.py, and sync_nodes of state.py.          *)
(*                                                                         *)
(* A node keeps its key while its configuration changes.  The provider     *)
(* file gets a new configuration first, then Mihomo loads the file, then   *)
(* the row in nodes gets its fingerprint, and then sync_nodes drops what   *)
(* was tested with the old one; other processes act between these steps.   *)
(***************************************************************************)
EXTENDS Integers, FiniteSets

CONSTANTS
  Nodes,          \* keys of the nodes of one provider
  Configs,        \* what their configurations can be
  Daemon,         \* the process that runs maintain_reserve
  Commands,       \* processes that run discover or inventory, or a monitor
                  \* that takes inventory again
  MaxMishaps,     \* how many downloads or API calls fail and processes are killed
  Absent,         \* no node, no row
  NoPrint,        \* a row without config_fingerprint
  Free            \* nobody's

Syncers == Commands \cup {Daemon}

ASSUME DaemonAssumption == Daemon \notin Commands /\ Free \notin Commands \cup {Daemon}
ASSUME AbsentAssumption ==
  /\ Absent \notin Configs /\ NoPrint \notin Configs /\ Absent # NoPrint
  /\ {"none", "due", "missing", "failed"} \cap Configs = {}
ASSUME SyncBoundsAssumption == MaxMishaps \in Nat

VARIABLES
  works,          \* nodes a probe would find healthy now
  file,           \* node -> its configuration in the provider file
  core,           \* ... in the running Mihomo
  rows,           \* ... by the fingerprint in nodes.metadata_json
  tested,         \* ... that the healthy row of node_target_state is about
  inventory,      \* the process that holds inventory.lock, or Free
  pc,             \* process -> where it is
  found,          \* process -> nodes its discover lists
  previous,       \* process -> previous_metadata of its sync_nodes
  probes,         \* process -> node -> its probe
  commanded,      \* has a command run?
  mishaps

storeVars    == <<rows, tested>>
discoverVars == <<found, previous>>
boundVars    == <<commanded, mishaps>>
syncVars     == <<works, file, core, storeVars, inventory, pc, discoverVars,
                  probes, boundVars>>

Config == Configs \cup {Absent}
Prints == Config \cup {NoPrint}

\* A probe is not due, due, or done: Mihomo had no such node, the node failed,
\* or it worked with a configuration.
Verdicts == {"none", "due", "missing", "failed"} \cup Configs

Nothing  == [n \in Nodes |-> Absent]
NoProbes == [n \in Nodes |-> "none"]

Discovering == {"materialize", "reload", "list", "print", "read", "upsert", "delete"}

SyncTypes ==
  /\ works \in SUBSET Nodes /\ file \in [Nodes -> Config] /\ core \in [Nodes -> Config]
  /\ rows \in [Nodes -> Prints] /\ tested \in [Nodes -> Config]
  /\ inventory \in Syncers \cup {Free}
  /\ pc \in [Syncers -> Discovering \cup {"idle", "lock", "probe"}]
  /\ found \in [Syncers -> [Nodes -> Prints]]
  /\ previous \in [Syncers -> [Nodes -> Prints]]
  /\ probes \in [Syncers -> [Nodes -> Verdicts]]
  /\ commanded \in BOOLEAN /\ mishaps \in 0 .. MaxMishaps

\* The reserve before the first cycle: some nodes known, some tested.
SyncInit ==
  /\ works \in SUBSET Nodes
  /\ file \in [Nodes -> Config] /\ core = file /\ rows = file
  /\ tested \in {t \in [Nodes -> Config] : \A n \in Nodes : t[n] \in {Absent, file[n]}}
  /\ inventory = Free
  /\ pc = [p \in Syncers |-> "idle"]
  /\ found = [p \in Syncers |-> Nothing] /\ previous = [p \in Syncers |-> Nothing]
  /\ probes = [p \in Syncers |-> NoProbes]
  /\ commanded = FALSE /\ mishaps = 0

Goes(p, step) == pc' = [pc EXCEPT ![p] = step]
Mishap == mishaps < MaxMishaps /\ mishaps' = mishaps + 1

Listed(p)  == {n \in Nodes : found[p][n] # Absent}
Unlock(p)  == inventory' = IF inventory = p THEN Free ELSE inventory

\* After discover: an inventory probes, the daemon goes on to its inventory,
\* the discover command ends.
AfterDiscover(p) ==
  IF inventory = p THEN "probe" ELSE IF p = Daemon THEN "lock" ELSE "idle"
AfterRaise(p) == IF p = Daemon /\ inventory # p THEN "lock" ELSE "idle"

(***************************************************************************)
(* Starting.                                                               *)
(***************************************************************************)

\* A cycle of maintain_reserve: refresh_reserve takes no lock.
CycleBegins ==
  /\ pc[Daemon] = "idle"
  /\ Goes(Daemon, "materialize")
  /\ UNCHANGED <<works, file, core, storeVars, inventory, discoverVars, probes, boundVars>>

\* The discover command takes no lock either; an inventory does, or gives up.
CommandBegins(p) ==
  /\ p \in Commands /\ pc[p] = "idle"
  /\ \E refresh \in BOOLEAN : Goes(p, IF refresh THEN "materialize" ELSE "list")
  /\ \/ UNCHANGED inventory
     \/ inventory = Free /\ inventory' = p
  /\ commanded' = TRUE
  /\ UNCHANGED <<works, file, core, storeVars, discoverVars, probes, mishaps>>

\* probe_reserve catches "another node inventory is already running".
InventoryBegins ==
  /\ pc[Daemon] = "lock"
  /\ \/ inventory = Free /\ inventory' = Daemon /\ Goes(Daemon, "list")
     \/ inventory # Free /\ UNCHANGED inventory /\ Goes(Daemon, "idle")
  /\ UNCHANGED <<works, file, core, storeVars, discoverVars, probes, boundVars>>

(***************************************************************************)
(* discover.                                                               *)
(***************************************************************************)

\* materialize_provider replaces the file in one step, with what the provider
\* now offers.  A failed download leaves the file, skips the reload, and the
\* cached nodes are used.
Materialize(p) ==
  /\ pc[p] = "materialize"
  /\ \/ file' \in [Nodes -> Config] /\ Goes(p, "reload") /\ UNCHANGED mishaps
     \/ Mishap /\ Goes(p, "list") /\ UNCHANGED file
  /\ UNCHANGED <<works, core, storeVars, inventory, discoverVars, probes, commanded>>

\* api.refresh_provider: Mihomo loads the file.  When the call fails the nodes
\* Mihomo has are used all the same.
Reload(p) ==
  /\ pc[p] = "reload"
  /\ \/ core' = file /\ UNCHANGED mishaps
     \/ Mishap /\ UNCHANGED core
  /\ Goes(p, "list")
  /\ UNCHANGED <<works, file, storeVars, inventory, discoverVars, probes, commanded>>

\* api.discover_nodes: which nodes Mihomo has.
ListNodes(p) ==
  /\ pc[p] = "list"
  /\ found' = [found EXCEPT ![p] = [n \in Nodes |-> IF core[n] = Absent THEN Absent ELSE NoPrint]]
  /\ Goes(p, "print")
  /\ UNCHANGED <<works, file, core, storeVars, inventory, previous, probes, boundVars>>

\* require_api raises, or discover_nodes does, if need be after a failed refresh:
\* discover and its inventory are over.
DiscoverRaises(p) ==
  /\ pc[p] \in {"materialize", "reload", "list"} /\ Mishap
  /\ Goes(p, AfterRaise(p)) /\ Unlock(p)
  /\ UNCHANGED <<works, file, core, storeVars, discoverVars, probes, commanded>>

\* _provider_config_fingerprints: what the file says of them.
PrintNodes(p) ==
  /\ pc[p] = "print"
  /\ found' = [found EXCEPT ![p] =
       [n \in Nodes |-> IF n \in Listed(p) /\ file[n] # Absent THEN file[n] ELSE @[n]]]
  /\ Goes(p, "read")
  /\ UNCHANGED <<works, file, core, storeVars, inventory, previous, probes, boundVars>>

(***************************************************************************)
(* sync_nodes: three transactions.                                         *)
(***************************************************************************)

SyncReads(p) ==
  /\ pc[p] = "read"
  /\ previous' = [previous EXCEPT ![p] = rows]
  /\ Goes(p, "upsert")
  /\ UNCHANGED <<works, file, core, storeVars, inventory, found, probes, boundVars>>

\* Mutant: what was there before is read after the upsert.
UpsertsThenReads(p) ==
  /\ pc[p] = "upsert"
  /\ rows' = [n \in Nodes |-> IF n \in Listed(p) THEN found[p][n] ELSE rows[n]]
  /\ previous' = [previous EXCEPT ![p] = rows']
  /\ Goes(p, "delete")
  /\ UNCHANGED <<works, file, core, tested, inventory, found, probes, boundVars>>

SyncUpserts(p) ==
  /\ pc[p] = "upsert"
  /\ rows' = [n \in Nodes |-> IF n \in Listed(p) THEN found[p][n] ELSE rows[n]]
  /\ Goes(p, "delete")
  /\ UNCHANGED <<works, file, core, tested, inventory, discoverVars, probes, boundVars>>

\* Mutant: whatever had a fingerprint counts as changed.
AlwaysChanged(before, now) == before # NoPrint

\* _node_metadata_changed: a first fingerprint is no change.
Changed(before, now) == before # now /\ before # NoPrint

\* The third transaction drops the state of changed nodes, and everything of
\* nodes that are neither listed nor, in that transaction, in lane_leases.  An
\* inventory then probes the nodes it lists, a command perhaps only some of
\* them (--limit).
SyncDeletes(p) ==
  LET changed == {n \in Listed(p) : previous[p][n] # Absent /\ Changed(previous[p][n], found[p][n])}
  IN  /\ pc[p] = "delete"
      /\ \E leased \in SUBSET Nodes :
           /\ tested' = [n \in Nodes |-> IF n \in (Listed(p) \cup leased) \ changed THEN tested[n] ELSE Absent]
           /\ rows' = [n \in Nodes |-> IF n \in Listed(p) \cup leased THEN rows[n] ELSE Absent]
      /\ \E due \in SUBSET Listed(p) :
           /\ p = Daemon => due = Listed(p)
           /\ probes' = [probes EXCEPT ![p] =
                [n \in Nodes |-> IF inventory = p /\ n \in due THEN "due" ELSE "none"]]
      /\ found' = [found EXCEPT ![p] = Nothing] /\ previous' = [previous EXCEPT ![p] = Nothing]
      /\ Goes(p, AfterDiscover(p))
      /\ UNCHANGED <<works, file, core, inventory, boundVars>>

(***************************************************************************)
(* The probes of an inventory; several nodes are probed at once.           *)
(***************************************************************************)

\* probe_selected_node: the probe goes through the node Mihomo has by now.
ProbeRuns(p, n) ==
  /\ pc[p] = "probe" /\ probes[p][n] = "due"
  /\ \/ /\ probes' = [probes EXCEPT ![p][n] =
             IF core[n] = Absent THEN "missing" ELSE IF n \in works THEN core[n] ELSE "failed"]
        /\ UNCHANGED mishaps
     \/ Mishap /\ probes' = [probes EXCEPT ![p][n] = "missing"]
  /\ UNCHANGED <<works, file, core, storeVars, inventory, pc, discoverVars, commanded>>

\* Mutant: what failed keeps its verdict.
KeepsVerdict(before, outcome) == IF outcome \in Configs THEN outcome ELSE before

\* record_probe: a failed probe ends the verdict; without an outcome for the
\* target its row stays.
Verdict(before, outcome) ==
  CASE outcome = "missing" -> before [] outcome = "failed" -> Absent [] OTHER -> outcome

\* The row is written even when the node itself is gone: foreign keys are only
\* on for the connection that made the tables.
ProbeRecords(p, n) ==
  /\ pc[p] = "probe" /\ probes[p][n] \notin {"none", "due"}
  /\ probes' = [probes EXCEPT ![p][n] = "none"]
  /\ tested' = [tested EXCEPT ![n] = Verdict(@, probes[p][n])]
  /\ UNCHANGED <<works, file, core, rows, inventory, pc, discoverVars, boundVars>>

InventoryEnds(p) ==
  /\ pc[p] = "probe" /\ probes[p] = NoProbes
  /\ Goes(p, "idle") /\ Unlock(p)
  /\ UNCHANGED <<works, file, core, storeVars, discoverVars, probes, boundVars>>

\* A killed process loses its locks; launchd starts the daemon again.
Dies(p) ==
  /\ pc[p] # "idle" /\ Mishap
  /\ Goes(p, "idle") /\ Unlock(p)
  /\ found' = [found EXCEPT ![p] = Nothing] /\ previous' = [previous EXCEPT ![p] = Nothing]
  /\ probes' = [probes EXCEPT ![p] = NoProbes]
  /\ UNCHANGED <<works, file, core, storeVars, commanded>>

(***************************************************************************)
(* The nodes and Mihomo.                                                   *)
(***************************************************************************)

NodeFlaps ==
  /\ \E n \in Nodes : works' = IF n \in works THEN works \ {n} ELSE works \cup {n}
  /\ UNCHANGED <<file, core, storeVars, inventory, pc, discoverVars, probes, boundVars>>

\* The provider's interval has passed, or Mihomo was started again.
CoreReloads ==
  /\ core' = file
  /\ UNCHANGED <<works, file, storeVars, inventory, pc, discoverVars, probes, boundVars>>

DiscoverStep(p) == Materialize(p) \/ Reload(p) \/ ListNodes(p) \/ DiscoverRaises(p) \/ PrintNodes(p)
SyncStep(p)     == SyncReads(p) \/ SyncUpserts(p) \/ SyncDeletes(p)
ProbeStep(p)    == (\E n \in Nodes : ProbeRuns(p, n) \/ ProbeRecords(p, n)) \/ InventoryEnds(p)
ProcessStep(p)  == DiscoverStep(p) \/ SyncStep(p) \/ ProbeStep(p)
DaemonStep      == CycleBegins \/ InventoryBegins \/ ProcessStep(Daemon)
WorldStep       == NodeFlaps \/ CoreReloads

SyncNext ==
  \/ DaemonStep \/ WorldStep
  \/ \E p \in Commands : CommandBegins(p) \/ ProcessStep(p)
  \/ \E p \in Syncers : Dies(p)

SyncSpec == SyncInit /\ [][SyncNext]_syncVars

\* The daemon keeps running its cycles, and a command that has begun is not
\* suspended.
FairSyncSpec ==
  SyncSpec /\ WF_syncVars(DaemonStep) /\ \A p \in Commands : WF_syncVars(ProcessStep(p))

-----------------------------------------------------------------------------
(***************************************************************************)
(* Properties.                                                             *)
(***************************************************************************)

\* When no process is in the middle of discover, a healthy verdict the pools
\* count is about the configuration Mihomo now uses: "only new nodes and nodes
\* whose stable configuration fingerprint has changed become untested at once"
\* (README.md:45).
QualifiedCurrent ==
  (\A p \in Syncers : pc[p] \notin Discovering) =>
    \A n \in Nodes :
      tested[n] # Absent /\ rows[n] # Absent /\ core[n] # Absent => tested[n] = core[n]

\* While the daemon is the only process that runs discover and nothing fails,
\* a verdict is about the node as it is, whatever the provider changes while a
\* cycle runs: from the reload on, what Mihomo uses, what the file says and
\* what the row says agree before anything is probed.
DaemonKeepsCurrent == ~commanded /\ mishaps = 0 => QualifiedCurrent

\* Then no step of discover drops the verdict of a node whose configuration
\* has not changed either (test_state.py:104).
DaemonKeepsFresh ==
  [][ (~commanded /\ mishaps = 0 /\ pc[Daemon] \in Discovering) =>
        \A n \in Nodes : tested[n] # Absent /\ tested[n] = core'[n] /\ rows[n] # Absent
                           => tested'[n] = tested[n] ]_<<tested, core>>

\* How far the daemon is, and how verdicts, rows, the file and Mihomo agree there.
DaemonAlone ==
  LET at == pc[Daemon]
  IN  /\ \A p \in Commands : pc[p] = "idle"
      /\ at # "reload" => core = file
      /\ \A n \in Nodes :
           /\ at = "print" => found[Daemon][n] = IF core[n] = Absent THEN Absent ELSE NoPrint
           /\ at \in {"read", "upsert", "delete"} => found[Daemon][n] = core[n]
           /\ at = "upsert" => previous[Daemon][n] = rows[n]
           /\ at = "delete" => rows[n] = IF core[n] = Absent THEN previous[Daemon][n] ELSE core[n]
           /\ rows[n] # NoPrint /\ (at = "delete" => previous[Daemon][n] # NoPrint)
           /\ tested[n] \in {Absent, IF at = "delete" THEN previous[Daemon][n] ELSE rows[n]}
           /\ at \notin Discovering /\ core[n] # Absent => rows[n] = core[n]
           /\ probes[Daemon][n] # "none" => at = "probe"
           /\ probes[Daemon][n] \in Configs => probes[Daemon][n] = core[n]

\* Who holds inventory.lock is at work, and probes are his alone.
InventoryHeld ==
  /\ \A p \in Syncers : inventory = p => pc[p] \notin {"idle", "lock"}
  /\ \A p \in Syncers : pc[p] = "probe" => inventory = p
  /\ \A p \in Syncers : pc[p] # "probe" => probes[p] = NoProbes

\* Inductive: what holds of the lock always, and of the daemon as long as it is
\* alone and nothing fails.
SyncInv ==
  /\ SyncTypes /\ InventoryHeld
  /\ ~commanded /\ mishaps = 0 => DaemonAlone

\* Whatever fails or is killed, the probe lanes have one user: two processes
\* never have probes under way at once (LaneProbe counts on it).
OneInventory ==
  \A p, q \in Syncers, n, m \in Nodes :
    probes[p][n] # "none" /\ probes[q][m] # "none" => p = q

\* When the row of a node has its new fingerprint, no later synchronisation
\* sees a change; so what was tested with the old one must be gone by then.
ChangedNodesUntested ==
  (\A p \in Syncers : pc[p] \notin Discovering) =>
    \A n \in Nodes : rows[n] \in Configs /\ tested[n] # Absent => tested[n] = rows[n]

\* Whatever raced or failed before: once the provider and its nodes keep still
\* and no command runs (one that keeps taking inventory.lock keeps the daemon
\* from probing), what the reserve says of each node is what a probe would say.
ReserveConverges ==
  (<>[][UNCHANGED <<file, works>>]_<<file, works>> /\ <>[](\A p \in Commands : pc[p] = "idle")) =>
    <>[](\A n \in Nodes : file[n] # Absent =>
           tested[n] = IF n \in works THEN file[n] ELSE Absent)

=============================================================================
