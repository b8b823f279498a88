---------------------------- MODULE ReserveProofs ---------------------------
(***************************************************************************)
(* Proofs about what the reserve knows of its nodes: ReserveSync, that the *)
(* daemon alone keeps verdicts and configurations together, for any nodes, *)
(* configurations and processes; and LaneProbe, that a verdict is of the   *)
(* node it names.                                                          *)
(***************************************************************************)
EXTENDS ReserveSync, LaneProbe, TLAPS

LEMMA InitSyncInv == SyncInit => SyncInv
  <1> SUFFICES ASSUME SyncInit PROVE SyncInv
    OBVIOUS
  <1>1. SyncTypes
    <2>1. tested \in [Nodes -> Config] /\ rows \in [Nodes -> Prints]
      BY DEF SyncInit, Config, Prints
    <2>2. /\ found \in [Syncers -> [Nodes -> Prints]] /\ previous \in [Syncers -> [Nodes -> Prints]]
          /\ probes \in [Syncers -> [Nodes -> Verdicts]]
      BY DEF SyncInit, Nothing, NoProbes, Config, Prints, Verdicts
    <2>3. mishaps \in 0 .. MaxMishaps
      BY SyncBoundsAssumption DEF SyncInit
    <2> QED
      BY <2>1, <2>2, <2>3 DEF SyncInit, SyncTypes
  <1>2. DaemonAlone
    <2>1. pc[Daemon] = "idle" /\ \A p \in Commands : pc[p] = "idle"
      BY DEF SyncInit, Syncers
    <2>2. \A n \in Nodes : probes[Daemon][n] = "none"
      BY DEF SyncInit, Syncers, NoProbes
    <2>3. core = file /\ rows = core
          /\ \A n \in Nodes : rows[n] # NoPrint /\ tested[n] \in {Absent, rows[n]}
      BY AbsentAssumption DEF SyncInit, Config
    <2>4. "none" \notin Configs
      BY AbsentAssumption
    <2> QED
      BY <2>1, <2>2, <2>3, <2>4 DEF DaemonAlone, Discovering
  <1>3. InventoryHeld
    BY DaemonAssumption DEF SyncInit, InventoryHeld, Syncers
  <1> QED
    BY <1>1, <1>2, <1>3 DEF SyncInv

(***************************************************************************)
(* Types.                                                                  *)
(***************************************************************************)

LEMMA BeginsTypes ==
  ASSUME SyncTypes, CycleBegins \/ InventoryBegins \/ \E p \in Commands : CommandBegins(p)
  PROVE  SyncTypes'
  <1> USE DEF Goes, storeVars, discoverVars, boundVars, Syncers
  <1>1. CASE CycleBegins
    BY <1>1 DEF CycleBegins, SyncTypes, Discovering
  <1>2. CASE InventoryBegins
    BY <1>2 DEF InventoryBegins, SyncTypes, Discovering
  <1>3. ASSUME NEW p \in Commands, CommandBegins(p) PROVE SyncTypes'
    <2>1. pc' \in [Syncers -> Discovering \cup {"idle", "lock", "probe"}]
      BY <1>3 DEF CommandBegins, SyncTypes, Discovering
    <2>2. inventory' \in Syncers \cup {Free}
      BY <1>3 DEF CommandBegins, SyncTypes
    <2> QED
      BY <1>3, <2>1, <2>2 DEF CommandBegins, SyncTypes
  <1> QED
    BY <1>1, <1>2, <1>3

LEMMA DiscoverTypes ==
  ASSUME SyncTypes, NEW p \in Syncers, DiscoverStep(p)
  PROVE  SyncTypes'
  <1> USE DEF Goes, Mishap, storeVars, discoverVars, boundVars
  <1>1. CASE Materialize(p)
    <2>1. file' \in [Nodes -> Config] /\ mishaps' \in 0 .. MaxMishaps
      BY <1>1, SyncBoundsAssumption DEF Materialize, SyncTypes
    <2>2. pc' \in [Syncers -> Discovering \cup {"idle", "lock", "probe"}]
      BY <1>1 DEF Materialize, SyncTypes, Discovering
    <2> QED
      BY <1>1, <2>1, <2>2 DEF Materialize, SyncTypes
  <1>2. CASE Reload(p)
    BY <1>2, SyncBoundsAssumption DEF Reload, SyncTypes, Discovering
  <1>3. CASE ListNodes(p)
    <2>1. found' \in [Syncers -> [Nodes -> Prints]]
      BY <1>3 DEF ListNodes, SyncTypes, Prints, Config
    <2> QED
      BY <1>3, <2>1 DEF ListNodes, SyncTypes, Discovering
  <1>4. CASE DiscoverRaises(p)
    BY <1>4, SyncBoundsAssumption DEF DiscoverRaises, SyncTypes, Discovering, AfterRaise, Unlock
  <1>5. CASE PrintNodes(p)
    <2>1. found' \in [Syncers -> [Nodes -> Prints]]
      BY <1>5 DEF PrintNodes, SyncTypes, Prints
    <2> QED
      BY <1>5, <2>1 DEF PrintNodes, SyncTypes, Discovering
  <1> QED
    BY <1>1, <1>2, <1>3, <1>4, <1>5 DEF DiscoverStep

LEMMA SyncStepTypes ==
  ASSUME SyncTypes, NEW p \in Syncers, SyncStep(p)
  PROVE  SyncTypes'
  <1> USE DEF Goes, storeVars, discoverVars, boundVars
  <1>1. CASE SyncReads(p)
    BY <1>1 DEF SyncReads, SyncTypes, Discovering
  <1>2. CASE SyncUpserts(p)
    <2>1. rows' \in [Nodes -> Prints]
      BY <1>2 DEF SyncUpserts, SyncTypes
    <2> QED
      BY <1>2, <2>1 DEF SyncUpserts, SyncTypes, Discovering
  <1>3. CASE SyncDeletes(p)
    <2>1. tested' \in [Nodes -> Config] /\ rows' \in [Nodes -> Prints]
      BY <1>3 DEF SyncDeletes, SyncTypes, Config, Prints
    <2>2. /\ found' \in [Syncers -> [Nodes -> Prints]] /\ previous' \in [Syncers -> [Nodes -> Prints]]
          /\ probes' \in [Syncers -> [Nodes -> Verdicts]]
      BY <1>3 DEF SyncDeletes, SyncTypes, Config, Prints, Nothing, Verdicts
    <2>3. pc' \in [Syncers -> Discovering \cup {"idle", "lock", "probe"}]
      BY <1>3 DEF SyncDeletes, SyncTypes, AfterDiscover
    <2> QED
      BY <1>3, <2>1, <2>2, <2>3 DEF SyncDeletes, SyncTypes
  <1> QED
    BY <1>1, <1>2, <1>3 DEF SyncStep

LEMMA ProbeStepTypes ==
  ASSUME SyncTypes, NEW p \in Syncers, ProbeStep(p)
  PROVE  SyncTypes'
  <1> USE DEF Goes, Mishap, storeVars, discoverVars, boundVars
  <1>1. ASSUME NEW n \in Nodes, ProbeRuns(p, n) PROVE SyncTypes'
    <2>1. PICK outcome \in {"missing", "failed", core[n]} :
            /\ probes' = [probes EXCEPT ![p][n] = outcome]
            /\ core[n] = Absent => outcome = "missing"
      BY <1>1 DEF ProbeRuns
    <2>2. outcome \in Verdicts
      BY <1>1, <2>1 DEF SyncTypes, Verdicts, Config
    <2>3. probes' \in [Syncers -> [Nodes -> Verdicts]]
      BY <2>1, <2>2 DEF SyncTypes
    <2> QED
      BY <1>1, <2>3, SyncBoundsAssumption DEF ProbeRuns, SyncTypes
  <1>2. ASSUME NEW n \in Nodes, ProbeRecords(p, n) PROVE SyncTypes'
    <2>1. probes' \in [Syncers -> [Nodes -> Verdicts]]
      BY <1>2 DEF ProbeRecords, SyncTypes, Verdicts
    <2>2. Verdict(tested[n], probes[p][n]) \in Config
      BY <1>2 DEF ProbeRecords, SyncTypes, Verdicts, Verdict, Config
    <2> QED
      BY <1>2, <2>1, <2>2 DEF ProbeRecords, SyncTypes
  <1>3. CASE InventoryEnds(p)
    BY <1>3 DEF InventoryEnds, SyncTypes, Discovering, Unlock
  <1> QED
    BY <1>1, <1>2, <1>3 DEF ProbeStep

LEMMA OtherTypesKept ==
  ASSUME SyncTypes, WorldStep \/ (\E p \in Syncers : Dies(p)) \/ UNCHANGED syncVars
  PROVE  SyncTypes'
  <1> USE DEF Goes, Mishap, storeVars, discoverVars, boundVars
  <1>1. CASE WorldStep
    BY <1>1 DEF WorldStep, NodeFlaps, CoreReloads, SyncTypes
  <1>2. ASSUME NEW p \in Syncers, Dies(p) PROVE SyncTypes'
    <2>1. /\ found' \in [Syncers -> [Nodes -> Prints]] /\ previous' \in [Syncers -> [Nodes -> Prints]]
          /\ probes' \in [Syncers -> [Nodes -> Verdicts]]
      BY <1>2 DEF Dies, SyncTypes, Nothing, NoProbes, Config, Prints, Verdicts
    <2> QED
      BY <1>2, <2>1, SyncBoundsAssumption DEF Dies, SyncTypes, Unlock
  <1>3. CASE UNCHANGED syncVars
    BY <1>3 DEF syncVars, SyncTypes
  <1> QED
    BY <1>1, <1>2, <1>3

(***************************************************************************)
(* inventory.lock.                                                         *)
(***************************************************************************)

LEMMA BeginsHeld ==
  ASSUME SyncTypes, InventoryHeld, CycleBegins \/ InventoryBegins \/ \E p \in Commands : CommandBegins(p)
  PROVE  InventoryHeld'
  <1> USE DEF Syncers
  <1>1. CASE CycleBegins
    <2>1. pc[Daemon] = "idle" /\ pc'[Daemon] = "materialize" /\ \A q \in Syncers \ {Daemon} : pc'[q] = pc[q]
      BY <1>1 DEF CycleBegins, Goes, SyncTypes
    <2> QED
      BY <1>1, <2>1 DEF CycleBegins, InventoryHeld, NoProbes
  <1>2. CASE InventoryBegins
    <2>1. pc[Daemon] = "lock" /\ \A q \in Syncers \ {Daemon} : pc'[q] = pc[q]
      BY <1>2 DEF InventoryBegins, Goes, SyncTypes
    <2>2. \/ inventory = Free /\ inventory' = Daemon /\ pc'[Daemon] = "list"
          \/ inventory' = inventory /\ pc'[Daemon] = "idle"
      BY <1>2 DEF InventoryBegins, Goes, SyncTypes
    <2> QED
      BY <1>2, <2>1, <2>2, DaemonAssumption DEF InventoryBegins, InventoryHeld, NoProbes
  <1>3. ASSUME NEW p \in Commands, CommandBegins(p) PROVE InventoryHeld'
    <2>1. pc[p] = "idle" /\ pc'[p] \in {"materialize", "list"} /\ \A q \in Syncers \ {p} : pc'[q] = pc[q]
      BY <1>3 DEF CommandBegins, Goes, SyncTypes
    <2>2. inventory' = inventory \/ (inventory = Free /\ inventory' = p)
      BY <1>3 DEF CommandBegins
    <2> QED
      BY <1>3, <2>1, <2>2, DaemonAssumption DEF CommandBegins, InventoryHeld, NoProbes
  <1> QED
    BY <1>1, <1>2, <1>3

LEMMA DiscoverHeld ==
  ASSUME SyncTypes, InventoryHeld, NEW p \in Syncers, DiscoverStep(p)
  PROVE  InventoryHeld'
  <1>0. /\ pc[p] \in {"materialize", "reload", "list", "print"} /\ probes' = probes
        /\ \A q \in Syncers \ {p} : pc'[q] = pc[q]
    BY DEF DiscoverStep, Materialize, Reload, ListNodes, DiscoverRaises, PrintNodes, Goes, SyncTypes
  <1>1. \/ pc'[p] \in {"reload", "list", "print", "read"} /\ inventory' = inventory
        \/ pc'[p] \in {"lock", "idle"} /\ Unlock(p) /\ (pc'[p] = "lock" => inventory # p)
    <2>1. CASE DiscoverRaises(p)
      BY <2>1 DEF DiscoverRaises, Goes, AfterRaise, SyncTypes
    <2>2. CASE ~DiscoverRaises(p)
      BY <2>2 DEF DiscoverStep, Materialize, Reload, ListNodes, PrintNodes, Goes, SyncTypes
    <2> QED
      BY <2>1, <2>2
  <1>2. inventory' \in {inventory, Free} /\ (inventory # p => inventory' = inventory)
    BY <1>1 DEF Unlock
  <1>3. pc'[p] \in {"lock", "idle"} => inventory' # p
    BY <1>1, DaemonAssumption DEF Unlock, Syncers
  <1> QED
    BY <1>0, <1>1, <1>2, <1>3, DaemonAssumption DEF InventoryHeld, NoProbes, Syncers

LEMMA SyncStepHeld ==
  ASSUME SyncTypes, InventoryHeld, NEW p \in Syncers, SyncStep(p)
  PROVE  InventoryHeld'
  <1>1. pc[p] \in {"read", "upsert", "delete"} /\ inventory' = inventory
        /\ \A q \in Syncers \ {p} : pc'[q] = pc[q]
    BY DEF SyncStep, SyncReads, SyncUpserts, SyncDeletes, Goes, SyncTypes
  <1>2. CASE SyncReads(p) \/ SyncUpserts(p)
    <2>1. pc'[p] \in {"upsert", "delete"} /\ probes' = probes
      BY <1>2 DEF SyncReads, SyncUpserts, Goes, SyncTypes
    <2> QED
      BY <1>1, <2>1 DEF InventoryHeld, NoProbes
  <1>3. CASE SyncDeletes(p)
    <2>1. pc'[p] = AfterDiscover(p)
      BY <1>3 DEF SyncDeletes, Goes, SyncTypes
    <2>2. /\ \A q \in Syncers \ {p} : probes'[q] = probes[q]
          /\ inventory # p => probes'[p] = NoProbes
      BY <1>3 DEF SyncDeletes, SyncTypes, NoProbes
    <2> QED
      BY <1>1, <2>1, <2>2 DEF InventoryHeld, NoProbes, AfterDiscover
  <1> QED
    BY <1>2, <1>3 DEF SyncStep

LEMMA ProbeStepHeld ==
  ASSUME SyncTypes, InventoryHeld, NEW p \in Syncers, ProbeStep(p)
  PROVE  InventoryHeld'
  <1>1. ASSUME NEW n \in Nodes, ProbeRuns(p, n) \/ ProbeRecords(p, n) PROVE InventoryHeld'
    <2>1. pc[p] = "probe" /\ pc' = pc /\ inventory' = inventory
          /\ \A q \in Syncers \ {p} : probes'[q] = probes[q]
      BY <1>1 DEF ProbeRuns, ProbeRecords, SyncTypes
    <2> QED
      BY <2>1 DEF InventoryHeld, NoProbes
  <1>2. CASE InventoryEnds(p)
    <2>1. pc[p] = "probe" /\ pc'[p] = "idle" /\ probes' = probes /\ probes[p] = NoProbes
          /\ \A q \in Syncers \ {p} : pc'[q] = pc[q]
      BY <1>2 DEF InventoryEnds, Goes, SyncTypes
    <2>2. inventory = p /\ inventory' = Free
      BY <1>2, <2>1 DEF InventoryEnds, Unlock, InventoryHeld
    <2> QED
      BY <2>1, <2>2, DaemonAssumption DEF InventoryHeld, NoProbes, Syncers
  <1> QED
    BY <1>1, <1>2 DEF ProbeStep

LEMMA OtherHeld ==
  ASSUME SyncTypes, InventoryHeld, WorldStep \/ (\E p \in Syncers : Dies(p)) \/ UNCHANGED syncVars
  PROVE  InventoryHeld'
  <1>1. CASE WorldStep \/ UNCHANGED syncVars
    BY <1>1 DEF WorldStep, NodeFlaps, CoreReloads, syncVars, InventoryHeld, NoProbes
  <1>2. ASSUME NEW p \in Syncers, Dies(p) PROVE InventoryHeld'
    <2>1. pc'[p] = "idle" /\ probes'[p] = NoProbes
          /\ \A q \in Syncers \ {p} : pc'[q] = pc[q] /\ probes'[q] = probes[q]
      BY <1>2 DEF Dies, Goes, SyncTypes
    <2>2. inventory' = IF inventory = p THEN Free ELSE inventory
      BY <1>2 DEF Dies, Unlock
    <2> QED
      BY <2>1, <2>2, DaemonAssumption DEF InventoryHeld, NoProbes, Syncers
  <1> QED
    BY <1>1, <1>2

(***************************************************************************)
(* The daemon alone.                                                       *)
(***************************************************************************)

\* A step after which no command has run and nothing has failed is one of these.
LEMMA AloneSteps ==
  ASSUME SyncInv, [SyncNext]_syncVars, ~commanded', mishaps' = 0
  PROVE  /\ ~commanded /\ mishaps = 0 /\ DaemonAlone /\ SyncTypes
         /\ \/ CycleBegins \/ InventoryBegins
            \/ Materialize(Daemon) /\ file' \in [Nodes -> Config] /\ Goes(Daemon, "reload")
            \/ Reload(Daemon) /\ core' = file
            \/ ListNodes(Daemon) \/ PrintNodes(Daemon) \/ SyncStep(Daemon)
            \/ \E n \in Nodes : ProbeRuns(Daemon, n) /\ UNCHANGED mishaps
            \/ \E n \in Nodes : ProbeRecords(Daemon, n)
            \/ InventoryEnds(Daemon) \/ WorldStep \/ UNCHANGED syncVars
  <1>0. SyncTypes /\ mishaps \in Nat
    BY SyncBoundsAssumption DEF SyncInv, SyncTypes
  <1>1. ~Mishap
    BY <1>0 DEF Mishap
  <1>2. \A p \in Commands : ~CommandBegins(p)
    BY DEF CommandBegins
  <1>3. \A p \in Syncers : ~Dies(p) /\ ~DiscoverRaises(p)
    BY <1>1 DEF Dies, DiscoverRaises
  <1>4. ~commanded /\ mishaps = 0
    <2>1. ASSUME NEW p \in Syncers, ProcessStep(p) PROVE UNCHANGED <<commanded, mishaps>>
      BY <1>1, <1>3, <2>1 DEF ProcessStep, DiscoverStep, SyncStep, ProbeStep, Materialize, Reload,
         ListNodes, PrintNodes, SyncReads, SyncUpserts, SyncDeletes, ProbeRuns, ProbeRecords,
         InventoryEnds, boundVars
    <2>2. ASSUME CycleBegins \/ InventoryBegins \/ WorldStep PROVE UNCHANGED <<commanded, mishaps>>
      BY <2>2 DEF CycleBegins, InventoryBegins, WorldStep, NodeFlaps, CoreReloads, boundVars
    <2> QED
      BY <1>2, <1>3, <2>1, <2>2 DEF SyncNext, DaemonStep, Syncers, syncVars, boundVars
  <1>5. DaemonAlone
    BY <1>4 DEF SyncInv
  <1>6. \A p \in Commands : ~ProcessStep(p)
    <2>1. \A p \in Commands : pc[p] = "idle"
      BY <1>5 DEF DaemonAlone
    <2> QED
      BY <2>1 DEF ProcessStep, DiscoverStep, SyncStep, ProbeStep, Materialize, Reload, DiscoverRaises,
         ListNodes, PrintNodes, SyncReads, SyncUpserts, SyncDeletes, ProbeRuns, ProbeRecords, InventoryEnds
  <1>7. ASSUME ProcessStep(Daemon)
        PROVE  \/ Materialize(Daemon) /\ file' \in [Nodes -> Config] /\ Goes(Daemon, "reload")
               \/ Reload(Daemon) /\ core' = file
               \/ ListNodes(Daemon) \/ PrintNodes(Daemon) \/ SyncStep(Daemon)
               \/ \E n \in Nodes : ProbeRuns(Daemon, n) /\ UNCHANGED mishaps
               \/ \E n \in Nodes : ProbeRecords(Daemon, n)
               \/ InventoryEnds(Daemon)
    BY <1>1, <1>3, <1>7 DEF ProcessStep, DiscoverStep, ProbeStep, Materialize, Reload, ProbeRuns, Syncers
  <1> QED
    BY <1>0, <1>2, <1>3, <1>4, <1>5, <1>6, <1>7 DEF SyncNext, DaemonStep

LEMMA AloneBegins ==
  ASSUME SyncTypes, DaemonAlone, CycleBegins \/ InventoryBegins \/ InventoryEnds(Daemon)
  PROVE  DaemonAlone'
  <1>1. pc[Daemon] \in {"idle", "lock", "probe"} /\ pc'[Daemon] \in {"materialize", "list", "idle"}
        /\ \A p \in Commands : pc'[p] = pc[p]
    BY DaemonAssumption DEF CycleBegins, InventoryBegins, InventoryEnds, Goes, SyncTypes, Syncers
  <1>2. UNCHANGED <<file, core, rows, tested, found, previous, probes>>
    BY DEF CycleBegins, InventoryBegins, InventoryEnds, storeVars, discoverVars
  <1>3. pc[Daemon] = "probe" => probes[Daemon] = NoProbes
    BY DEF CycleBegins, InventoryBegins, InventoryEnds
  <1>4. \A n \in Nodes : probes[Daemon][n] = "none"
    BY <1>1, <1>3 DEF NoProbes, DaemonAlone
  <1> QED
    BY <1>1, <1>2, <1>4, AbsentAssumption DEF DaemonAlone, Discovering

LEMMA AloneDiscovers ==
  ASSUME SyncTypes, DaemonAlone,
         \/ Materialize(Daemon) /\ file' \in [Nodes -> Config] /\ Goes(Daemon, "reload")
         \/ Reload(Daemon) /\ core' = file
         \/ ListNodes(Daemon) \/ PrintNodes(Daemon) \/ SyncReads(Daemon)
  PROVE  DaemonAlone'
  <1> USE DEF storeVars, discoverVars
  <1>0. \A n \in Nodes : probes[Daemon][n] = "none"
    BY DEF DaemonAlone, Materialize, Reload, ListNodes, PrintNodes, SyncReads
  <1>1. UNCHANGED <<rows, tested, probes>>
    BY DEF Materialize, Reload, ListNodes, PrintNodes, SyncReads
  <1>2. CASE Materialize(Daemon) /\ file' \in [Nodes -> Config] /\ Goes(Daemon, "reload")
    <2>1. pc[Daemon] = "materialize" /\ pc'[Daemon] = "reload" /\ \A p \in Commands : pc'[p] = pc[p]
      BY <1>2, DaemonAssumption DEF Materialize, Goes, SyncTypes, Syncers
    <2> QED
      BY <1>0, <1>1, <1>2, <2>1, AbsentAssumption DEF DaemonAlone, Discovering, Materialize
  <1>3. CASE Reload(Daemon) /\ core' = file
    <2>1. pc[Daemon] = "reload" /\ pc'[Daemon] = "list" /\ \A p \in Commands : pc'[p] = pc[p]
      BY <1>3, DaemonAssumption DEF Reload, Goes, SyncTypes, Syncers
    <2> QED
      BY <1>0, <1>1, <1>3, <2>1, AbsentAssumption DEF DaemonAlone, Discovering, Reload
  <1>4. CASE ListNodes(Daemon)
    <2>1. pc[Daemon] = "list" /\ pc'[Daemon] = "print" /\ \A p \in Commands : pc'[p] = pc[p]
      BY <1>4, DaemonAssumption DEF ListNodes, Goes, SyncTypes, Syncers
    <2>2. \A n \in Nodes : found'[Daemon][n] = IF core[n] = Absent THEN Absent ELSE NoPrint
      BY <1>4 DEF ListNodes, SyncTypes, Syncers
    <2> QED
      BY <1>0, <1>1, <1>4, <2>1, <2>2, AbsentAssumption DEF DaemonAlone, Discovering, ListNodes
  <1>5. CASE PrintNodes(Daemon)
    <2>1. pc[Daemon] = "print" /\ pc'[Daemon] = "read" /\ \A p \in Commands : pc'[p] = pc[p]
      BY <1>5, DaemonAssumption DEF PrintNodes, Goes, SyncTypes, Syncers
    <2>2. \A n \in Nodes : found'[Daemon][n] =
            IF n \in Listed(Daemon) /\ file[n] # Absent THEN file[n] ELSE found[Daemon][n]
      BY <1>5 DEF PrintNodes, SyncTypes, Syncers
    <2>3. \A n \in Nodes : found[Daemon][n] = IF core[n] = Absent THEN Absent ELSE NoPrint
      BY <2>1 DEF DaemonAlone
    <2>4. core = file
      BY <2>1 DEF DaemonAlone
    <2>5. \A n \in Nodes : found'[Daemon][n] = core[n]
      BY <2>2, <2>3, <2>4, AbsentAssumption DEF Listed
    <2> QED
      BY <1>0, <1>1, <1>5, <2>1, <2>5, AbsentAssumption DEF DaemonAlone, Discovering, PrintNodes
  <1>6. CASE SyncReads(Daemon)
    <2>1. pc[Daemon] = "read" /\ pc'[Daemon] = "upsert" /\ \A p \in Commands : pc'[p] = pc[p]
      BY <1>6, DaemonAssumption DEF SyncReads, Goes, SyncTypes, Syncers
    <2>2. previous'[Daemon] = rows
      BY <1>6 DEF SyncReads, SyncTypes, Syncers
    <2> QED
      BY <1>0, <1>1, <1>6, <2>1, <2>2, AbsentAssumption DEF DaemonAlone, Discovering, SyncReads
  <1> QED
    BY <1>2, <1>3, <1>4, <1>5, <1>6

LEMMA AloneUpserts ==
  ASSUME SyncTypes, DaemonAlone, SyncUpserts(Daemon)
  PROVE  DaemonAlone'
  <1> USE DEF SyncUpserts
  <1>1. pc[Daemon] = "upsert" /\ pc'[Daemon] = "delete" /\ \A p \in Commands : pc'[p] = pc[p]
    BY DaemonAssumption DEF Goes, SyncTypes, Syncers
  <1>2. \A n \in Nodes : rows'[n] = IF core[n] = Absent THEN previous[Daemon][n] ELSE core[n]
    BY <1>1 DEF DaemonAlone, Listed
  <1>3. \A n \in Nodes : core[n] # NoPrint
    BY AbsentAssumption DEF SyncTypes, Config
  <1> QED
    BY <1>1, <1>2, <1>3, AbsentAssumption DEF DaemonAlone, Discovering, discoverVars

LEMMA AloneDeletes ==
  ASSUME SyncTypes, DaemonAlone, SyncDeletes(Daemon)
  PROVE  DaemonAlone'
  <1> USE DEF SyncDeletes
  <1>1. pc[Daemon] = "delete" /\ pc'[Daemon] \in {"probe", "lock"} /\ \A p \in Commands : pc'[p] = pc[p]
    BY DaemonAssumption DEF Goes, SyncTypes, Syncers, AfterDiscover
  <1>2. PICK leased \in SUBSET Nodes :
          \A n \in Nodes :
            /\ tested'[n] # Absent =>
                 /\ tested'[n] = tested[n] /\ n \in Listed(Daemon) \cup leased
                 /\ n \in Listed(Daemon) /\ previous[Daemon][n] # Absent
                      => ~Changed(previous[Daemon][n], found[Daemon][n])
            /\ rows'[n] = IF n \in Listed(Daemon) \cup leased THEN rows[n] ELSE Absent
    OBVIOUS
  <1>3. \A n \in Nodes : found[Daemon][n] = core[n] /\ (n \in Listed(Daemon) <=> core[n] # Absent)
    BY <1>1 DEF DaemonAlone, Listed
  <1>4. ASSUME NEW n \in Nodes
        PROVE  /\ rows'[n] # NoPrint /\ tested'[n] \in {Absent, rows'[n]}
               /\ core[n] # Absent => rows'[n] = core[n]
    <2>1. /\ rows[n] = IF core[n] = Absent THEN previous[Daemon][n] ELSE core[n]
          /\ tested[n] \in {Absent, previous[Daemon][n]} /\ previous[Daemon][n] # NoPrint
          /\ rows[n] # NoPrint
      BY <1>1 DEF DaemonAlone
    <2> QED
      BY <1>2, <1>3, <2>1, AbsentAssumption DEF Changed
  <1>5. \A n \in Nodes : probes'[Daemon][n] \in {"none", "due"}
                         /\ (pc'[Daemon] # "probe" => probes'[Daemon][n] = "none")
    BY DEF Goes, AfterDiscover, SyncTypes, Syncers
  <1>6. core = file /\ UNCHANGED <<core, file>>
    BY <1>1 DEF DaemonAlone
  <1> QED
    BY <1>1, <1>4, <1>5, <1>6, AbsentAssumption DEF DaemonAlone, Discovering

LEMMA AloneProbes ==
  ASSUME SyncTypes, DaemonAlone, NEW n \in Nodes,
         (ProbeRuns(Daemon, n) /\ UNCHANGED mishaps) \/ ProbeRecords(Daemon, n)
  PROVE  DaemonAlone'
  <1>1. pc[Daemon] = "probe" /\ UNCHANGED <<file, core, rows, pc, found, previous>>
    BY DEF ProbeRuns, ProbeRecords, storeVars, discoverVars
  <1>2. CASE ProbeRuns(Daemon, n) /\ UNCHANGED mishaps
    <2>1. \A m \in Nodes : probes'[Daemon][m] = IF m # n THEN probes[Daemon][m]
            ELSE IF core[n] = Absent THEN "missing" ELSE IF n \in works THEN core[n] ELSE "failed"
      BY <1>2, SyncBoundsAssumption DEF ProbeRuns, Mishap, SyncTypes, Syncers
    <2> QED
      BY <1>1, <1>2, <2>1, AbsentAssumption DEF DaemonAlone, ProbeRuns, storeVars, Discovering
  <1>3. CASE ProbeRecords(Daemon, n)
    <2>1. \A m \in Nodes : probes'[Daemon][m] = IF m = n THEN "none" ELSE probes[Daemon][m]
      BY <1>3 DEF ProbeRecords, SyncTypes, Syncers
    <2>2. \A m \in Nodes : tested'[m] = IF m = n THEN Verdict(tested[n], probes[Daemon][n]) ELSE tested[m]
      BY <1>3 DEF ProbeRecords, SyncTypes
    <2>3. tested[n] \in {Absent, rows[n]}
      BY <1>1 DEF DaemonAlone
    <2>4. probes[Daemon][n] \in Configs => probes[Daemon][n] = rows[n]
      BY <1>1, AbsentAssumption DEF DaemonAlone, Discovering
    <2>5. probes[Daemon][n] \in {"missing", "failed"} \cup Configs
      BY <1>3 DEF ProbeRecords, SyncTypes, Syncers, Verdicts
    <2>6. Verdict(tested[n], probes[Daemon][n]) \in {Absent, rows[n]}
      BY <2>3, <2>4, <2>5 DEF Verdict
    <2> QED
      BY <1>1, <2>1, <2>2, <2>6, AbsentAssumption DEF DaemonAlone, Discovering
  <1> QED
    BY <1>2, <1>3

LEMMA AloneWatches ==
  ASSUME SyncTypes, DaemonAlone, WorldStep \/ UNCHANGED syncVars
  PROVE  DaemonAlone'
  <1>1. UNCHANGED <<file, rows, tested, pc, found, previous, probes>> /\ core' \in {core, file}
    BY DEF WorldStep, NodeFlaps, CoreReloads, syncVars, storeVars, discoverVars
  <1>2. pc[Daemon] # "reload" => core' = core
    BY <1>1 DEF DaemonAlone
  <1>3. pc[Daemon] = "reload" => \A n \in Nodes : probes[Daemon][n] \notin Configs
    BY AbsentAssumption DEF DaemonAlone
  <1> QED
    BY <1>1, <1>2, <1>3 DEF DaemonAlone, Discovering

LEMMA NextSyncInv == SyncInv /\ [SyncNext]_syncVars => SyncInv'
  <1> SUFFICES ASSUME SyncInv, [SyncNext]_syncVars PROVE SyncInv'
    OBVIOUS
  <1>1. SyncTypes'
    <2>1. SyncTypes
      BY DEF SyncInv
    <2> QED
      BY <2>1, BeginsTypes, DiscoverTypes, SyncStepTypes, ProbeStepTypes, OtherTypesKept
      DEF SyncNext, DaemonStep, ProcessStep, Syncers
  <1>2. ASSUME ~commanded', mishaps' = 0 PROVE DaemonAlone'
    BY <1>2, AloneSteps, AloneBegins, AloneDiscovers, AloneUpserts, AloneDeletes, AloneProbes,
       AloneWatches DEF SyncStep
  <1>3. InventoryHeld'
    <2>1. SyncTypes /\ InventoryHeld
      BY DEF SyncInv
    <2> QED
      BY <2>1, BeginsHeld, DiscoverHeld, SyncStepHeld, ProbeStepHeld, OtherHeld
      DEF SyncNext, DaemonStep, ProcessStep, Syncers
  <1> QED
    BY <1>1, <1>2, <1>3 DEF SyncInv

\* Types, who holds the lock, and where the daemon is, for any nodes, configurations and commands.
THEOREM SyncInvHolds == SyncSpec => []SyncInv
  BY InitSyncInv, NextSyncInv, PTL DEF SyncSpec

\* Two processes never probe the reserve at once, whoever is killed.
THEOREM OneInventoryHolds == SyncSpec => []OneInventory
  <1>1. SyncInv => OneInventory
    <2> SUFFICES ASSUME SyncInv, NEW p \in Syncers, NEW q \in Syncers, NEW n \in Nodes, NEW m \in Nodes,
                        probes[p][n] # "none", probes[q][m] # "none"
                 PROVE  p = q
      BY DEF OneInventory
    <2> QED
      BY DEF SyncInv, InventoryHeld, NoProbes
  <1> QED
    BY <1>1, SyncInvHolds, PTL

\* The daemon alone qualifies no node by a test of another configuration,
\* whatever the provider changes during its cycles.
THEOREM DaemonKeepsCurrentHolds == SyncSpec => []DaemonKeepsCurrent
  <1>1. SyncInv => DaemonKeepsCurrent
    <2> SUFFICES ASSUME SyncInv, ~commanded, mishaps = 0 PROVE QualifiedCurrent
      BY DEF DaemonKeepsCurrent
    <2>1. DaemonAlone
      BY DEF SyncInv
    <2> QED
      BY <2>1 DEF DaemonAlone, QualifiedCurrent, Syncers, Discovering
  <1> QED
    BY <1>1, SyncInvHolds, PTL

\* And its discover drops no verdict of a node that is as it was.
THEOREM DaemonKeepsFreshHolds == SyncSpec => DaemonKeepsFresh
  <1> DEFINE Keeps ==
        (~commanded /\ mishaps = 0 /\ pc[Daemon] \in Discovering) =>
          \A n \in Nodes : tested[n] # Absent /\ tested[n] = core'[n] /\ rows[n] # Absent
                             => tested'[n] = tested[n]
  <1>1. ASSUME SyncInv, [SyncNext]_syncVars PROVE [Keeps]_<<tested, core>>
    <2> SUFFICES ASSUME ~commanded, mishaps = 0, pc[Daemon] \in Discovering, NEW n \in Nodes,
                        tested[n] # Absent, tested[n] = core'[n]
                 PROVE  tested'[n] = tested[n]
      OBVIOUS
    <2>1. DaemonAlone /\ \A p \in Commands : pc[p] = "idle"
      BY <1>1 DEF SyncInv, DaemonAlone
    <2>2. ASSUME NEW p \in Syncers, SyncDeletes(p) PROVE tested'[n] = tested[n]
      <3>1. p = Daemon /\ pc[Daemon] = "delete" /\ core' = core
        BY <2>1, <2>2 DEF SyncDeletes, Syncers
      <3>2. tested[n] = previous[Daemon][n] /\ found[Daemon][n] = core[n] /\ n \in Listed(Daemon)
        BY <2>1, <3>1 DEF DaemonAlone, Listed
      <3>3. ~Changed(previous[Daemon][n], found[Daemon][n])
        BY <3>1, <3>2 DEF Changed
      <3> QED
        BY <2>2, <3>1, <3>2, <3>3 DEF SyncDeletes
    <2>3. ASSUME NEW p \in Syncers, NEW m \in Nodes, ProbeRecords(p, m) PROVE FALSE
      BY <2>1, <2>3 DEF ProbeRecords, Syncers, Discovering
    <2>4. ASSUME NEW p \in Syncers, ProcessStep(p) PROVE tested'[n] = tested[n]
      BY <2>2, <2>3, <2>4 DEF ProcessStep, DiscoverStep, SyncStep, ProbeStep, Materialize, Reload,
         ListNodes, DiscoverRaises, PrintNodes, SyncReads, SyncUpserts, ProbeRuns, InventoryEnds, storeVars
    <2>5. ASSUME WorldStep \/ CycleBegins \/ InventoryBegins \/ (\E p \in Commands : CommandBegins(p))
                 \/ (\E p \in Syncers : Dies(p)) \/ UNCHANGED syncVars
          PROVE  tested'[n] = tested[n]
      BY <2>5 DEF WorldStep, NodeFlaps, CoreReloads, CycleBegins, InventoryBegins, CommandBegins, Dies,
         syncVars, storeVars
    <2> QED
      BY <1>1, <2>4, <2>5 DEF SyncNext, DaemonStep, Syncers
  <1> QED
    BY <1>1, SyncInvHolds, PTL DEF SyncSpec, DaemonKeepsFresh


-----------------------------------------------------------------------------
(***************************************************************************)
(* The probes of a lane, for every number of probers, nodes and attempts.  *)
(***************************************************************************)

LEMMA InitProbeInv == ProbeInit => ProbeInv
  <1> SUFFICES ASSUME ProbeInit PROVE ProbeInv
    OBVIOUS
  <1>1. ProbeTypes
    BY AttemptsAssumption DEF ProbeInit, ProbeTypes
  <1>2. VerdictOfSubject
    BY DEF ProbeInit, VerdictOfSubject
  <1> QED
    BY <1>1, <1>2 DEF ProbeInit, ProbeInv, Asking, Open

\* A prober that asks and is not told of a switch is none: the others' look.
LEMMA SwitchesTells ==
  ASSUME ProbeInv, NEW route \in Routes \cup {Closed}, Switches(route),
         reserveLane' = reserveLane, reserveLane => route = Closed
  PROVE  /\ now' \in Routes \cup {Closed} /\ rerouted' \in SUBSET Probers
         /\ rerouted \subseteq rerouted'
         /\ \A p \in rerouted' \ rerouted : Asking(p)
         /\ \A p \in Probers : Asking(p) /\ p \notin rerouted' => now' = subject[p]
         /\ \A p \in Probers : Asking(p) /\ reserveLane => now' \in {subject[p], Closed}
  <1>1. ProbeTypes
    BY DEF ProbeInv
  <1> QED
    BY <1>1 DEF Switches, ProbeInv, Asking, ProbeTypes

LEMMA OthersSwitchInv ==
  ASSUME ProbeInv, OthersSwitch
  PROVE  ProbeInv'
  <1>0. ProbeTypes /\ VerdictOfSubject
    BY DEF ProbeInv
  <1>1. PICK route \in Routes \cup {Closed} : Switches(route) /\ (reserveLane => route = Closed)
    BY DEF OthersSwitch
  <1>2. /\ now' \in Routes \cup {Closed} /\ rerouted' \in SUBSET Probers
        /\ rerouted \subseteq rerouted'
        /\ \A p \in Probers : Asking(p) /\ p \notin rerouted' => now' = subject[p]
        /\ \A p \in Probers : Asking(p) /\ reserveLane => now' \in {subject[p], Closed}
    BY <1>1, SwitchesTells DEF OthersSwitch
  <1>3. ProbeTypes'
    BY <1>0, <1>2 DEF ProbeTypes, OthersSwitch
  <1>4. VerdictOfSubject'
    BY <1>0, <1>2 DEF VerdictOfSubject, OthersSwitch
  <1> QED
    BY <1>2, <1>3, <1>4 DEF ProbeInv, OthersSwitch, Asking, Open

LEMMA ProbeBeginsInv ==
  ASSUME ProbeInv, NEW p \in Probers, ProbeBegins(p)
  PROVE  ProbeInv'
  <1> USE DEF ProbeBegins, Advances
  <1>0. ProbeTypes /\ VerdictOfSubject
    BY DEF ProbeInv
  <1>1. ProbeTypes'
    BY <1>0, AttemptsAssumption DEF ProbeTypes
  <1>2. stage'[p] \in {"select", "confirm"} /\ answer'[p] = "none" /\ attempts'[p] = 0
        /\ okThrough'[p] = NoRoute /\ ipOf'[p] = NoRoute /\ ~healthy'[p] /\ subject'[p] \in Routes
    BY <1>0 DEF ProbeTypes
  <1>3. ASSUME NEW q \in Probers, q # p
        PROVE  /\ stage'[q] = stage[q] /\ subject'[q] = subject[q] /\ answer'[q] = answer[q]
               /\ attempts'[q] = attempts[q] /\ okThrough'[q] = okThrough[q] /\ ipOf'[q] = ipOf[q]
               /\ healthy'[q] = healthy[q] /\ (q \in rerouted' <=> q \in rerouted)
    BY <1>0, <1>3 DEF ProbeTypes
  <1>4. VerdictOfSubject'
    BY <1>0, <1>2, <1>3 DEF VerdictOfSubject
  <1>5. ASSUME NEW q \in Probers
        PROVE  /\ Asking(q)' /\ q \notin rerouted' => now' = subject'[q]
               /\ Asking(q)' /\ reserveLane' => now' \in {subject'[q], Closed}
               /\ Open(q)' => answer'[q] # "right" /\ attempts'[q] < MaxAttempts
               /\ stage'[q] # "idle" => ~healthy'[q]
               /\ answer'[q] = "right" => okThrough'[q] # NoRoute
    BY <1>2, <1>3, AttemptsAssumption DEF ProbeInv, Asking, Open
  <1>6. ASSUME NEW q \in Probers, reserveLane', stage'[q] # "idle"
        PROVE  \A r \in Probers \ {q} : stage'[r] = "idle"
    BY <1>2, <1>3, <1>6
  <1> QED
    BY <1>1, <1>4, <1>5, <1>6 DEF ProbeInv

LEMMA SelectsNodeInv ==
  ASSUME ProbeInv, NEW p \in Probers, SelectsNode(p)
  PROVE  ProbeInv'
  <1> USE DEF SelectsNode, Advances
  <1>0. ProbeTypes /\ VerdictOfSubject
    BY DEF ProbeInv
  <1>1. now' = subject[p] /\ rerouted \subseteq rerouted' /\ rerouted' \in SUBSET Probers
    BY <1>0 DEF Switches, ProbeTypes
  <1>2. \A q \in Probers \ {p} : stage'[q] = stage[q]
    BY <1>0 DEF ProbeTypes
  <1>3. stage'[p] = "confirm"
    BY <1>0 DEF ProbeTypes
  <1>4. ProbeTypes'
    BY <1>0, <1>1 DEF ProbeTypes
  <1>5. VerdictOfSubject'
    BY <1>0, <1>1, <1>2, <1>3 DEF VerdictOfSubject
  <1>6. ASSUME NEW q \in Probers
        PROVE  /\ Asking(q)' /\ q \notin rerouted' => now' = subject'[q]
               /\ Asking(q)' /\ reserveLane' => now' \in {subject'[q], Closed}
    <2>1. CASE q = p
      BY <1>3, <2>1 DEF Asking
    <2>2. CASE q # p
      BY <1>0, <1>2, <2>2 DEF Asking, Switches, ProbeInv, ProbeTypes
    <2> QED
      BY <2>1, <2>2
  <1>7. ASSUME NEW q \in Probers
        PROVE  /\ Open(q)' => answer'[q] # "right" /\ attempts'[q] < MaxAttempts
               /\ stage'[q] # "idle" => ~healthy'[q]
               /\ answer'[q] = "right" => okThrough'[q] # NoRoute
    BY <1>2, <1>3 DEF ProbeInv, Open
  <1>8. ASSUME NEW q \in Probers, reserveLane', stage'[q] # "idle"
        PROVE  \A r \in Probers \ {q} : stage'[r] = "idle"
    BY <1>2, <1>3, <1>8 DEF ProbeInv
  <1> QED
    BY <1>4, <1>5, <1>6, <1>7, <1>8 DEF ProbeInv

LEMMA LooksOrEndsInv ==
  ASSUME ProbeInv, NEW p \in Probers, ConfirmsNode(p) \/ CallRaises(p) \/ ProberKilled(p)
  PROVE  ProbeInv'
  <1> USE DEF ConfirmsNode, CallRaises, ProberKilled, Advances
  <1>0. ProbeTypes /\ VerdictOfSubject
    BY DEF ProbeInv
  <1>1. \A q \in Probers \ {p} : stage'[q] = stage[q]
    BY <1>0 DEF ProbeTypes
  <1>2. /\ stage[p] # "idle"
        /\ stage'[p] \in {"target", "record", "idle"}
        /\ stage'[p] = "target" => stage[p] = "confirm" /\ now = subject[p]
    BY <1>0 DEF ProbeTypes
  <1>3. UNCHANGED <<reserveLane, now, kind, subject, attempts, answer, okThrough, ipOf, healthy, rerouted>>
    OBVIOUS
  <1>4. ProbeTypes'
    BY <1>0, <1>3 DEF ProbeTypes
  <1>5. VerdictOfSubject'
    BY <1>0, <1>1, <1>2, <1>3 DEF VerdictOfSubject
  <1>6. ASSUME NEW q \in Probers
        PROVE  /\ Asking(q)' /\ q \notin rerouted' => now' = subject'[q]
               /\ Asking(q)' /\ reserveLane' => now' \in {subject'[q], Closed}
               /\ Open(q)' => answer'[q] # "right" /\ attempts'[q] < MaxAttempts
               /\ stage'[q] # "idle" => ~healthy'[q]
               /\ answer'[q] = "right" => okThrough'[q] # NoRoute
    BY <1>1, <1>2, <1>3 DEF ProbeInv, Asking, Open
  <1>7. ASSUME NEW q \in Probers, reserveLane', stage'[q] # "idle"
        PROVE  \A r \in Probers \ {q} : stage'[r] = "idle"
    BY <1>1, <1>2, <1>3, <1>7 DEF ProbeInv
  <1> QED
    BY <1>4, <1>5, <1>6, <1>7 DEF ProbeInv

LEMMA AsksTargetInv ==
  ASSUME ProbeInv, NEW p \in Probers, AsksTarget(p)
  PROVE  ProbeInv'
  <1> USE DEF AsksTarget, Advances
  <1>0. ProbeTypes /\ VerdictOfSubject
    BY DEF ProbeInv
  <1>1. PICK said \in {"none", "wrong", "right"} :
          /\ now = Closed => said = "none"
          /\ answer' = [answer EXCEPT ![p] = said]
          /\ attempts' = [attempts EXCEPT ![p] = @ + 1]
          /\ okThrough' = IF said = "right" THEN [okThrough EXCEPT ![p] = now] ELSE okThrough
          /\ stage' = [stage EXCEPT ![p] =
               IF Retries(p, said) THEN "target"
               ELSE IF said # "right" /\ kind[p] = "reserve" THEN "record" ELSE "egress"]
    OBVIOUS
  <1>2. stage[p] = "target" /\ attempts[p] \in 0 .. MaxAttempts /\ attempts[p] < MaxAttempts /\ answer[p] # "right"
        /\ ~healthy[p] /\ now \in Routes \cup {Closed}
    BY <1>0 DEF ProbeInv, ProbeTypes, Open
  <1>3. /\ answer'[p] = said /\ attempts'[p] = attempts[p] + 1
        /\ stage'[p] \in {"target", "record", "egress"}
        /\ stage'[p] = "target" => said = "none" /\ attempts[p] + 1 < MaxAttempts
        /\ stage'[p] # "target" => said # "none" \/ attempts[p] + 1 = MaxAttempts
        /\ okThrough'[p] = IF said = "right" THEN now ELSE okThrough[p]
    BY <1>0, <1>1, <1>2, AttemptsAssumption DEF ProbeTypes, Retries
  <1>4. \A q \in Probers \ {p} : stage'[q] = stage[q] /\ answer'[q] = answer[q]
          /\ attempts'[q] = attempts[q] /\ okThrough'[q] = okThrough[q]
    BY <1>0, <1>1 DEF ProbeTypes
  <1>5. ProbeTypes'
    <2>1. okThrough' \in [Probers -> Routes \cup {NoRoute}]
      BY <1>0, <1>1, <1>2 DEF ProbeTypes
    <2>2. attempts' \in [Probers -> 0 .. MaxAttempts]
      BY <1>0, <1>1, <1>2, AttemptsAssumption DEF ProbeTypes
    <2> QED
      BY <1>0, <1>1, <2>1, <2>2 DEF ProbeTypes
  <1>6. said = "right" => now \in Routes /\ (reserveLane \/ p \notin rerouted => now = subject[p])
    BY <1>1, <1>2 DEF ProbeInv, Asking
  <1>7. VerdictOfSubject'
    BY <1>0, <1>2, <1>3, <1>4, <1>6 DEF VerdictOfSubject
  <1>8. ASSUME NEW q \in Probers
        PROVE  /\ Asking(q)' /\ q \notin rerouted' => now' = subject'[q]
               /\ Asking(q)' /\ reserveLane' => now' \in {subject'[q], Closed}
               /\ Open(q)' => answer'[q] # "right" /\ attempts'[q] < MaxAttempts
               /\ stage'[q] # "idle" => ~healthy'[q]
               /\ answer'[q] = "right" => okThrough'[q] # NoRoute
    <2>1. CASE q = p
      <3>1. said = "right" => okThrough'[p] # NoRoute
        BY <1>3, <1>6, RoutesAssumption
      <3> QED
        BY <1>2, <1>3, <2>1, <3>1 DEF ProbeInv, Asking, Open
    <2>2. CASE q # p
      BY <1>4, <2>2 DEF ProbeInv, Asking, Open
    <2> QED
      BY <2>1, <2>2
  <1>9. ASSUME NEW q \in Probers, reserveLane', stage'[q] # "idle"
        PROVE  \A r \in Probers \ {q} : stage'[r] = "idle"
    BY <1>2, <1>4, <1>9 DEF ProbeInv
  <1> QED
    BY <1>5, <1>7, <1>8, <1>9 DEF ProbeInv

LEMMA AsksAddressInv ==
  ASSUME ProbeInv, NEW p \in Probers, AsksAddress(p)
  PROVE  ProbeInv'
  <1> USE DEF AsksAddress, Advances
  <1>0. ProbeTypes /\ VerdictOfSubject
    BY DEF ProbeInv
  <1>1. stage[p] = "egress" /\ stage'[p] = "record"
        /\ \A q \in Probers \ {p} : stage'[q] = stage[q] /\ ipOf'[q] = ipOf[q]
    BY <1>0 DEF ProbeTypes
  <1>2. ipOf' \in [Probers -> Routes \cup {NoRoute}]
        /\ ipOf'[p] \in {ipOf[p]} \cup ({now} \ {Closed})
    BY <1>0 DEF ProbeTypes
  <1>3. ProbeTypes'
    BY <1>0, <1>2 DEF ProbeTypes
  <1>4. reserveLane \/ p \notin rerouted => ipOf'[p] \in {subject[p], NoRoute}
    BY <1>0, <1>1, <1>2 DEF ProbeInv, VerdictOfSubject, Asking
  <1>5. VerdictOfSubject'
    BY <1>0, <1>1, <1>4 DEF VerdictOfSubject
  <1> QED
    BY <1>1, <1>3, <1>5 DEF ProbeInv, Asking, Open

LEMMA RecordsOutcomeInv ==
  ASSUME ProbeInv, NEW p \in Probers, RecordsOutcome(p)
  PROVE  ProbeInv'
  <1> USE DEF RecordsOutcome, Advances
  <1>0. ProbeTypes /\ VerdictOfSubject
    BY DEF ProbeInv
  <1>1. stage'[p] = "idle" /\ healthy'[p] = (answer[p] = "right")
        /\ \A q \in Probers \ {p} : stage'[q] = stage[q] /\ healthy'[q] = healthy[q]
    BY <1>0 DEF ProbeTypes
  <1>2. ProbeTypes'
    BY <1>0 DEF ProbeTypes
  <1>3. answer[p] = "right" /\ (reserveLane \/ p \notin rerouted) => okThrough[p] = subject[p]
    BY <1>0 DEF ProbeInv, VerdictOfSubject
  <1>4. VerdictOfSubject'
    BY <1>0, <1>1, <1>3 DEF VerdictOfSubject
  <1> QED
    BY <1>1, <1>2, <1>4 DEF ProbeInv, Asking, Open

LEMMA NextProbeInv == ProbeInv /\ [ProbeNext]_probeVars => ProbeInv'
  <1> SUFFICES ASSUME ProbeInv, [ProbeNext]_probeVars PROVE ProbeInv'
    OBVIOUS
  <1>1. CASE UNCHANGED probeVars
    BY <1>1 DEF probeVars, ProbeInv, ProbeTypes, VerdictOfSubject, Asking, Open
  <1> QED
    BY <1>1, OthersSwitchInv, ProbeBeginsInv, SelectsNodeInv, LooksOrEndsInv, AsksTargetInv,
       AsksAddressInv, RecordsOutcomeInv DEF ProbeNext

\* What a probe records about a node was found through it, whoever switches the
\* lane, always for an inventory and without a switch on a work lane.
THEOREM VerdictOfSubjectHolds == ProbeSpec => []VerdictOfSubject
  <1>1. ProbeInv => VerdictOfSubject
    BY DEF ProbeInv
  <1> QED
    BY <1>1, InitProbeInv, NextProbeInv, PTL DEF ProbeSpec

=============================================================================
