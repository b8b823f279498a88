------------------------ MODULE GatewayRecoveryProofs -----------------------
(***************************************************************************)
(* Proofs about GatewayRecovery for every set of lanes, nodes and keepers  *)
(* and any number of faults, kills and stops, whatever the stop command    *)
(* meets.                                                                  *)
(***************************************************************************)
EXTENDS GatewayRecovery, LanePoolProofs

USE LanesAssumption, ThresholdAssumption, NoneAssumption, RejectAssumption,
    BoundsAssumption

\* RestoreDone takes one lane off the work of one keeper.
LEMMA RestoreDoneWork ==
  ASSUME RecoveryTypeOK, WorkCurrent, NEW k \in Keepers, NEW l \in Lanes,
         work[k][l] # None, kpc[k] \in Restoring, RestoreDone(k, l)
  PROVE  /\ kpc' \in [Keepers -> KeeperSteps]
         /\ work' \in [Keepers -> [Lanes -> Nodes \cup {None}]]
         /\ \A j \in Keepers : kpc'[j] \notin Restoring => work'[j] = NoWork
         /\ \A j \in Keepers, m \in Lanes :
              work'[j][m] = IF j = k /\ m = l THEN None ELSE work[j][m]
         /\ \A j \in Keepers \ {k} : kpc'[j] = kpc[j]
  <1> USE DEF RestoreDone, Goes, RecoveryTypeOK
  <1>1. kpc' \in [Keepers -> KeeperSteps] /\ \A j \in Keepers \ {k} : kpc'[j] = kpc[j]
    BY DEF KeeperSteps
  <1>2. work' = [work EXCEPT ![k] = [work[k] EXCEPT ![l] = None]]
    OBVIOUS
  <1>3. work' \in [Keepers -> [Lanes -> Nodes \cup {None}]]
    BY <1>2
  <1>4. \A j \in Keepers, m \in Lanes :
          work'[j][m] = IF j = k /\ m = l THEN None ELSE work[j][m]
    BY <1>2
  <1>5. ASSUME kpc'[k] \notin Restoring
        PROVE  work'[k] = NoWork
    <2>1. ToRestore(k) = {l}
      BY <1>5 DEF Restoring
    <2>2. \A m \in Lanes : work'[k][m] = None
      BY <2>1, <1>4 DEF ToRestore
    <2> QED
      BY <2>2, <1>3 DEF NoWork
  <1>6. \A j \in Keepers \ {k} : kpc'[j] \notin Restoring => work'[j] = NoWork
    BY <1>1, <1>2 DEF WorkCurrent
  <1> QED
    BY <1>1, <1>3, <1>4, <1>5, <1>6

\* FindsDead: a keeper finds no Mihomo.
LEMMA FindsDeadInv ==
  ASSUME RecoveryInv, NEW k \in Keepers, FindsDead(k)
  PROVE  RecoveryInv'
  <1> USE DEF RecoveryInv, FindsDead, Goes, poolVars, stopVars
  <1>1. RecoveryTypes'
    BY DEF RecoveryTypes, PoolTypeOK, RecoveryTypeOK, KeeperSteps, NoWork
  <1>2. ~(running /\ silent)'
    BY DEF RecoveryTypes, RecoveryTypeOK, PoolTypeOK
  <1>3. WorkCurrent'
    BY DEF WorkCurrent, RecoveryTypes, RecoveryTypeOK, PoolTypeOK, Restoring, NoWork, KeeperSteps
  <1>4. ClearedOnce'
    BY DEF ClearedOnce, Leased, RecoveryTypes, RecoveryTypeOK, PoolTypeOK
  <1>5. ClosedLanes'
    BY DEF ClosedLanes, Present, Leased, RecoveryTypes, RecoveryTypeOK, PoolTypeOK
  <1>6. RestorePending'
    BY DEF RestorePending, Pending, Present, Leased, Degraded, RecoveryTypes,
           RecoveryTypeOK, PoolTypeOK, NoWork, KeeperSteps, WorkCurrent, Restoring
  <1> QED
    BY <1>1, <1>2, <1>3, <1>4, <1>5, <1>6

\* FindsUnresponsive: a keeper finds one that does not answer.
LEMMA FindsUnresponsiveInv ==
  ASSUME RecoveryInv, NEW k \in Keepers, FindsUnresponsive(k)
  PROVE  RecoveryInv'
  <1> USE DEF RecoveryInv, FindsUnresponsive, Goes, poolVars, stopVars, Fault
  <1>1. RecoveryTypes'
    BY DEF RecoveryTypes, PoolTypeOK, RecoveryTypeOK, KeeperSteps, NoWork
  <1>2. ~(running /\ silent)'
    BY DEF RecoveryTypes, RecoveryTypeOK, PoolTypeOK
  <1>3. WorkCurrent'
    BY DEF WorkCurrent, RecoveryTypes, RecoveryTypeOK, PoolTypeOK, Restoring, NoWork, KeeperSteps
  <1>4. ClearedOnce'
    BY DEF ClearedOnce, Leased, RecoveryTypes, RecoveryTypeOK, PoolTypeOK
  <1>5. ClosedLanes'
    BY DEF ClosedLanes, Present, Leased, RecoveryTypes, RecoveryTypeOK, PoolTypeOK
  <1>6. RestorePending'
    BY DEF RestorePending, Pending, Present, Leased, Degraded, RecoveryTypes,
           RecoveryTypeOK, PoolTypeOK, NoWork, KeeperSteps, WorkCurrent, Restoring
  <1> QED
    BY <1>1, <1>2, <1>3, <1>4, <1>5, <1>6

\* StopsUnresponsive: the keeper stops it.
LEMMA StopsUnresponsiveInv ==
  ASSUME RecoveryInv, NEW k \in Keepers, StopsUnresponsive(k)
  PROVE  RecoveryInv'
  <1> USE DEF RecoveryInv, StopsUnresponsive, Goes, poolVars, stopVars, ProcessStop
  <1>1. RecoveryTypes'
    BY DEF RecoveryTypes, PoolTypeOK, RecoveryTypeOK, KeeperSteps, NoWork
  <1>2. ~(running /\ silent)'
    BY DEF RecoveryTypes, RecoveryTypeOK, PoolTypeOK
  <1>3. WorkCurrent'
    BY DEF WorkCurrent, RecoveryTypes, RecoveryTypeOK, PoolTypeOK, Restoring, NoWork, KeeperSteps
  <1>4. ClearedOnce'
    BY DEF ClearedOnce, Leased, RecoveryTypes, RecoveryTypeOK, PoolTypeOK
  <1>5. ClosedLanes'
    BY DEF ClosedLanes, Present, Leased, RecoveryTypes, RecoveryTypeOK, PoolTypeOK
  <1>6. RestorePending'
    BY DEF RestorePending, Pending, Present, Leased, Degraded, RecoveryTypes,
           RecoveryTypeOK, PoolTypeOK, NoWork, KeeperSteps, WorkCurrent, Restoring
  <1> QED
    BY <1>1, <1>2, <1>3, <1>4, <1>5, <1>6

\* Spawns: the keeper starts a new one, or takes over what is there.
LEMMA SpawnsInv ==
  ASSUME RecoveryInv, NEW k \in Keepers, Spawns(k)
  PROVE  RecoveryInv'
  <1> USE DEF RecoveryInv, Spawns, Goes, poolVars, stopVars, FailClosed
  <1>1. RecoveryTypes'
    <2>1. PoolTypeOK'
      BY DEF RecoveryTypes, PoolTypeOK
    <2>2. torn' \in [Lanes -> Nodes \cup {None}]
      BY DEF RecoveryTypes, RecoveryTypeOK
    <2>3. kpc' \in [Keepers -> KeeperSteps] /\ silent' \in BOOLEAN /\ abandoned' \in BOOLEAN
      BY DEF RecoveryTypes, RecoveryTypeOK, KeeperSteps
    <2> QED
      BY <2>1, <2>2, <2>3 DEF RecoveryTypes, RecoveryTypeOK
  <1>2. ~(running /\ silent)'
    BY DEF RecoveryTypes, RecoveryTypeOK, PoolTypeOK
  <1>0. \A l \in Lanes : torn'[l] = torn[l] \/ (torn'[l] = None /\ ~HasWork(l))
    BY DEF HasWork
  <1>3. WorkCurrent'
    BY <1>0 DEF WorkCurrent, HasWork, RecoveryTypes, RecoveryTypeOK, PoolTypeOK, Restoring, NoWork, KeeperSteps
  <1>4. ClearedOnce'
    BY DEF ClearedOnce, Leased, RecoveryTypes, RecoveryTypeOK, PoolTypeOK
  <1>5. ClosedLanes'
    BY DEF ClosedLanes, Present, Leased, RecoveryTypes, RecoveryTypeOK, PoolTypeOK
  <1>6. RestorePending'
    BY DEF RestorePending, Pending, Present, Leased, Degraded, RecoveryTypes,
           RecoveryTypeOK, PoolTypeOK, NoWork, KeeperSteps, WorkCurrent, Restoring
  <1> QED
    BY <1>1, <1>2, <1>3, <1>4, <1>5, <1>6

\* GatewayAnswers: a silent Mihomo answers.
LEMMA GatewayAnswersInv ==
  ASSUME RecoveryInv, GatewayAnswers
  PROVE  RecoveryInv'
  <1> USE DEF RecoveryInv, GatewayAnswers, Goes, poolVars, stopVars
  <1>1. RecoveryTypes'
    BY DEF RecoveryTypes, PoolTypeOK, RecoveryTypeOK, KeeperSteps, NoWork
  <1>2. ~(running /\ silent)'
    BY DEF RecoveryTypes, RecoveryTypeOK, PoolTypeOK
  <1>3. WorkCurrent'
    BY DEF WorkCurrent, RecoveryTypes, RecoveryTypeOK, PoolTypeOK, Restoring, NoWork, KeeperSteps
  <1>4. ClearedOnce'
    BY DEF ClearedOnce, Leased, RecoveryTypes, RecoveryTypeOK, PoolTypeOK
  <1>5. ClosedLanes'
    BY DEF ClosedLanes, Present, Leased, RecoveryTypes, RecoveryTypeOK, PoolTypeOK
  <1>6. RestorePending'
    BY DEF RestorePending, Pending, Present, Leased, Degraded, RecoveryTypes,
           RecoveryTypeOK, PoolTypeOK, NoWork, KeeperSteps, WorkCurrent, Restoring
  <1> QED
    BY <1>1, <1>2, <1>3, <1>4, <1>5, <1>6

\* GatewayReady: start returns with every lane closed.
LEMMA GatewayReadyInv ==
  ASSUME RecoveryInv, NEW k \in Keepers, GatewayReady(k)
  PROVE  RecoveryInv'
  <1> USE DEF RecoveryInv, GatewayReady, Goes, poolVars, stopVars, FailClosed
  <1>1. RecoveryTypes'
    BY DEF RecoveryTypes, PoolTypeOK, RecoveryTypeOK, KeeperSteps, NoWork
  <1>2. ~(running /\ silent)'
    BY DEF RecoveryTypes, RecoveryTypeOK, PoolTypeOK
  <1>3. WorkCurrent'
    BY DEF WorkCurrent, RecoveryTypes, RecoveryTypeOK, PoolTypeOK, Restoring, NoWork, KeeperSteps
  <1>4. ClearedOnce'
    BY DEF ClearedOnce, Leased, RecoveryTypes, RecoveryTypeOK, PoolTypeOK
  <1>5. ClosedLanes'
    BY DEF ClosedLanes, Present, Leased, RecoveryTypes, RecoveryTypeOK, PoolTypeOK
  <1>6. RestorePending'
    BY DEF RestorePending, Pending, Present, Leased, Degraded, RecoveryTypes,
           RecoveryTypeOK, PoolTypeOK, NoWork, KeeperSteps, WorkCurrent, Restoring
  <1> QED
    BY <1>1, <1>2, <1>3, <1>4, <1>5, <1>6

\* StartFails: start raises.
LEMMA StartFailsInv ==
  ASSUME RecoveryInv, NEW k \in Keepers, StartFails(k)
  PROVE  RecoveryInv'
  <1> USE DEF RecoveryInv, StartFails, Goes, poolVars, stopVars, Fault
  <1>1. RecoveryTypes'
    BY DEF RecoveryTypes, PoolTypeOK, RecoveryTypeOK, KeeperSteps, NoWork
  <1>2. ~(running /\ silent)'
    BY DEF RecoveryTypes, RecoveryTypeOK, PoolTypeOK
  <1>3. WorkCurrent'
    BY DEF WorkCurrent, RecoveryTypes, RecoveryTypeOK, PoolTypeOK, Restoring, NoWork, KeeperSteps
  <1>4. ClearedOnce'
    BY DEF ClearedOnce, Leased, RecoveryTypes, RecoveryTypeOK, PoolTypeOK
  <1>5. ClosedLanes'
    BY DEF ClosedLanes, Present, Leased, RecoveryTypes, RecoveryTypeOK, PoolTypeOK
  <1>6. RestorePending'
    BY DEF RestorePending, Pending, Present, Leased, Degraded, RecoveryTypes,
           RecoveryTypeOK, PoolTypeOK, NoWork, KeeperSteps, WorkCurrent, Restoring
  <1> QED
    BY <1>1, <1>2, <1>3, <1>4, <1>5, <1>6

\* StartTimesOut: start gives up.
LEMMA StartTimesOutInv ==
  ASSUME RecoveryInv, NEW k \in Keepers, StartTimesOut(k)
  PROVE  RecoveryInv'
  <1> USE DEF RecoveryInv, StartTimesOut, Goes, poolVars, stopVars, Fault, ProcessStop
  <1>1. RecoveryTypes'
    <2>1. PoolTypeOK'
      BY DEF RecoveryTypes, PoolTypeOK
    <2>2. kpc' \in [Keepers -> KeeperSteps] /\ work' \in [Keepers -> [Lanes -> Nodes \cup {None}]]
      BY DEF RecoveryTypes, RecoveryTypeOK, KeeperSteps, NoWork
    <2>3. faults' \in 0 .. MaxFaults /\ kills' \in 0 .. MaxKills /\ stops' \in 0 .. MaxStops
      BY DEF RecoveryTypes, RecoveryTypeOK
    <2>4. silent' \in BOOLEAN /\ abandoned' \in BOOLEAN /\ spc' \in {"off", "read", "clear"}
          /\ toClear' \subseteq Lanes /\ torn' \in [Lanes -> Nodes \cup {None}]
      BY DEF RecoveryTypes, RecoveryTypeOK, PoolTypeOK
    <2> QED
      BY <2>1, <2>2, <2>3, <2>4 DEF RecoveryTypes, RecoveryTypeOK
  <1>2. ~(running /\ silent)'
    BY DEF RecoveryTypes, RecoveryTypeOK, PoolTypeOK
  <1>3. WorkCurrent'
    BY DEF WorkCurrent, RecoveryTypes, RecoveryTypeOK, PoolTypeOK, Restoring, NoWork, KeeperSteps
  <1>4. ClearedOnce'
    BY DEF ClearedOnce, Leased, RecoveryTypes, RecoveryTypeOK, PoolTypeOK
  <1>5. ClosedLanes'
    BY DEF ClosedLanes, Present, Leased, RecoveryTypes, RecoveryTypeOK, PoolTypeOK
  <1>6. RestorePending'
    BY DEF RestorePending, Pending, Present, Leased, Degraded, RecoveryTypes,
           RecoveryTypeOK, PoolTypeOK, NoWork, KeeperSteps, WorkCurrent, Restoring
  <1> QED
    BY <1>1, <1>2, <1>3, <1>4, <1>5, <1>6

\* ReadsLeases: the keeper reads what it has to restore.
LEMMA ReadsLeasesInv ==
  ASSUME RecoveryInv, NEW k \in Keepers, ReadsLeases(k)
  PROVE  RecoveryInv'
  <1> USE DEF RecoveryInv, ReadsLeases, Goes, poolVars, stopVars
  <1>0. \A l \in Lanes : leases[l].node \in Nodes \cup {None} /\ (Leased(l) => leases[l].node # None)
    BY RowColumns DEF RecoveryTypes, PoolTypeOK, LeaseRow, NoLease, Leased
  <1>1. RecoveryTypes'
    <2>1. PoolTypeOK'
      BY DEF RecoveryTypes, PoolTypeOK
    <2>2. kpc' \in [Keepers -> KeeperSteps] /\ work' \in [Keepers -> [Lanes -> Nodes \cup {None}]]
      BY <1>0 DEF RecoveryTypes, RecoveryTypeOK, KeeperSteps, NoWork
    <2>3. faults' \in 0 .. MaxFaults /\ kills' \in 0 .. MaxKills /\ stops' \in 0 .. MaxStops
      BY DEF RecoveryTypes, RecoveryTypeOK
    <2>4. silent' \in BOOLEAN /\ abandoned' \in BOOLEAN /\ spc' \in {"off", "read", "clear"}
          /\ toClear' \subseteq Lanes /\ torn' \in [Lanes -> Nodes \cup {None}]
      BY DEF RecoveryTypes, RecoveryTypeOK, PoolTypeOK
    <2> QED
      BY <2>1, <2>2, <2>3, <2>4 DEF RecoveryTypes, RecoveryTypeOK
  <1>2. ~(running /\ silent)'
    BY DEF RecoveryTypes, RecoveryTypeOK, PoolTypeOK
  <1>3. WorkCurrent'
    BY DEF WorkCurrent, RecoveryTypes, RecoveryTypeOK, PoolTypeOK, Restoring, NoWork, KeeperSteps
  <1>4. ClearedOnce'
    BY DEF ClearedOnce, Leased, RecoveryTypes, RecoveryTypeOK, PoolTypeOK
  <1>5. ClosedLanes'
    BY DEF ClosedLanes, Present, Leased, RecoveryTypes, RecoveryTypeOK, PoolTypeOK
  <1>6. RestorePending'
    <2>1. kpc'[k] = "away" => \A l \in Lanes : ~Leased(l)
      BY <1>0 DEF NoWork, RecoveryTypes, RecoveryTypeOK
    <2>2. kpc'[k] # "away" => \A l \in Lanes : Leased(l) => work'[k][l] # None
      BY <1>0 DEF RecoveryTypes, RecoveryTypeOK
    <2> QED
      BY <2>1, <2>2 DEF RestorePending, Pending, Present, Leased, Degraded
  <1> QED
    BY <1>1, <1>2, <1>3, <1>4, <1>5, <1>6

\* RecoveryRaises: the keeper leaves instead.
LEMMA RecoveryRaisesInv ==
  ASSUME RecoveryInv, NEW k \in Keepers, RecoveryRaises(k)
  PROVE  RecoveryInv'
  <1> USE DEF RecoveryInv, RecoveryRaises, Goes, poolVars, stopVars, Fault
  <1>1. RecoveryTypes'
    BY DEF RecoveryTypes, PoolTypeOK, RecoveryTypeOK, KeeperSteps, NoWork
  <1>2. ~(running /\ silent)'
    BY DEF RecoveryTypes, RecoveryTypeOK, PoolTypeOK
  <1>3. WorkCurrent'
    BY DEF WorkCurrent, RecoveryTypes, RecoveryTypeOK, PoolTypeOK, Restoring, NoWork, KeeperSteps
  <1>4. ClearedOnce'
    BY DEF ClearedOnce, Leased, RecoveryTypes, RecoveryTypeOK, PoolTypeOK
  <1>5. ClosedLanes'
    BY DEF ClosedLanes, Present, Leased, RecoveryTypes, RecoveryTypeOK, PoolTypeOK
  <1>6. RestorePending'
    BY DEF RestorePending, Pending, Present, Leased, Degraded, RecoveryTypes,
           RecoveryTypeOK, PoolTypeOK, NoWork, KeeperSteps, WorkCurrent, Restoring
  <1> QED
    BY <1>1, <1>2, <1>3, <1>4, <1>5, <1>6

\* RestoreSelects: a lane is bound to its node.
LEMMA RestoreSelectsInv ==
  ASSUME RecoveryInv, NEW k \in Keepers, NEW l \in Lanes, RestoreSelects(k, l)
  PROVE  RecoveryInv'
  <1> USE DEF RecoveryInv, RestoreSelects, Goes, poolVars, stopVars, Select, ToRestore, Lowest
  <1>1. RecoveryTypes'
    BY DEF RecoveryTypes, PoolTypeOK, RecoveryTypeOK, KeeperSteps, NoWork
  <1>2. ~(running /\ silent)'
    BY DEF RecoveryTypes, RecoveryTypeOK, PoolTypeOK
  <1>3. WorkCurrent'
    BY DEF WorkCurrent, RecoveryTypes, RecoveryTypeOK, PoolTypeOK, Restoring, NoWork, KeeperSteps
  <1>4. ClearedOnce'
    BY DEF ClearedOnce, Leased, RecoveryTypes, RecoveryTypeOK, PoolTypeOK
  <1>5. ClosedLanes'
    <2>1. work[k][l] \in {leases[l].node, torn[l]}
      BY DEF WorkCurrent
    <2> QED
      BY <2>1 DEF ClosedLanes, Present, RecoveryTypes, RecoveryTypeOK, PoolTypeOK
  <1>6. RestorePending'
    BY DEF RestorePending, Pending, Present, Leased, Degraded, RecoveryTypes,
           RecoveryTypeOK, PoolTypeOK, NoWork, KeeperSteps, WorkCurrent, Restoring
  <1> QED
    BY <1>1, <1>2, <1>3, <1>4, <1>5, <1>6

\* RestoreConfirms: the binding is confirmed.
LEMMA RestoreConfirmsInv ==
  ASSUME RecoveryInv, NEW k \in Keepers, NEW l \in Lanes, RestoreConfirms(k, l)
  PROVE  RecoveryInv'
  <1> USE DEF RecoveryInv, RestoreConfirms, poolVars, stopVars
  <1>0. /\ work[k][l] # None /\ kpc[k] \in Restoring
        /\ work[k][l] \in {leases[l].node, torn[l]}
        /\ Leased(l) => work[k][l] = leases[l].node
    BY DEF ToRestore, Lowest, Restoring, WorkCurrent, ClearedOnce
  <1>a. /\ kpc' \in [Keepers -> KeeperSteps]
        /\ work' \in [Keepers -> [Lanes -> Nodes \cup {None}]]
        /\ \A j \in Keepers : kpc'[j] \notin Restoring => work'[j] = NoWork
        /\ \A j \in Keepers, m \in Lanes :
             work'[j][m] = IF j = k /\ m = l THEN None ELSE work[j][m]
        /\ \A j \in Keepers \ {k} : kpc'[j] = kpc[j]
    BY <1>0, RestoreDoneWork DEF RecoveryTypes
  <1>1. RecoveryTypes'
    BY <1>a DEF RecoveryTypes, RecoveryTypeOK, PoolTypeOK
  <1>2. ~(running /\ silent)'
    BY DEF RecoveryTypes, RecoveryTypeOK, PoolTypeOK
  <1>3. WorkCurrent'
    <2>1. leases' = leases
      OBVIOUS
    <2>2. ASSUME NEW j \in Keepers, NEW m \in Lanes, work'[j][m] # None
          PROVE  work'[j][m] \in {leases'[m].node, torn'[m]}
      BY <1>a, <2>1, <2>2 DEF WorkCurrent
    <2> QED
      BY <1>a, <2>2 DEF WorkCurrent
  <1>4. ClearedOnce'
    BY DEF ClearedOnce, Leased
  <1>5. ClosedLanes'
    BY DEF ClosedLanes, Present, Leased, RecoveryTypes, RecoveryTypeOK, PoolTypeOK
  <1>6. RestorePending'
    <2> SUFFICES ASSUME Present, ~abandoned, NEW m \in Lanes, Leased(m)', ~Degraded(m)'
                 PROVE  selected[m] = leases[m].node \/ Pending(m)'
      BY DEF RestorePending, Present
    <2>1. m # l => Leased(m) /\ ~Degraded(m)
      BY DEF Leased, Degraded
    <2>2. CASE m = l
      BY <2>2, <1>0 DEF Leased
    <2>3. CASE m # l /\ selected[m] = leases[m].node
      BY <2>3
    <2>4. CASE m # l /\ Pending(m)
      BY <2>4, <1>0, <1>a DEF Pending, Restoring
    <2> QED
      BY <2>1, <2>2, <2>3, <2>4 DEF RestorePending
  <1> QED
    BY <1>1, <1>2, <1>3, <1>4, <1>5, <1>6

\* RestoreFails: the lane is counted as failed.
LEMMA RestoreFailsInv ==
  ASSUME RecoveryInv, NEW k \in Keepers, NEW l \in Lanes, RestoreFails(k, l)
  PROVE  RecoveryInv'
  <1> USE DEF RecoveryInv, RestoreFails, poolVars, stopVars, Fault
  <1>0. /\ work[k][l] # None /\ kpc[k] \in Restoring
        /\ work[k][l] \in {leases[l].node, torn[l]}
        /\ Leased(l) => work[k][l] = leases[l].node
    BY DEF ToRestore, Lowest, Restoring, WorkCurrent, ClearedOnce
  <1>a. /\ kpc' \in [Keepers -> KeeperSteps]
        /\ work' \in [Keepers -> [Lanes -> Nodes \cup {None}]]
        /\ \A j \in Keepers : kpc'[j] \notin Restoring => work'[j] = NoWork
        /\ \A j \in Keepers, m \in Lanes :
             work'[j][m] = IF j = k /\ m = l THEN None ELSE work[j][m]
        /\ \A j \in Keepers \ {k} : kpc'[j] = kpc[j]
    BY <1>0, RestoreDoneWork DEF RecoveryTypes
  <1>b. /\ leases' \in [Lanes -> LeaseRow \cup {NoLease}]
        /\ leases'[l].failures = CountAfter(l, FALSE)
        /\ \A m \in Lanes : leases'[m].node = leases[m].node
        /\ \A m \in Lanes \ {l} : leases'[m] = leases[m]
        /\ \A m \in Lanes : (leases'[m] # NoLease) <=> (leases[m] # NoLease)
    BY LaneCheckType DEF RecoveryTypes
  <1>c. Leased(l) => leases'[l].failures > 0
    <2>1. leases[l].failures \in Failures
      BY RowColumns DEF RecoveryTypes
    <2> QED
      BY <2>1, <1>b DEF CountAfter, Bump, Failures
  <1>1. RecoveryTypes'
    <2>1. PoolTypeOK'
      BY <1>b DEF RecoveryTypes, PoolTypeOK
    <2>2. faults' \in 0 .. MaxFaults
      BY DEF RecoveryTypes, RecoveryTypeOK
    <2> QED
      BY <2>1, <2>2, <1>a DEF RecoveryTypes, RecoveryTypeOK
  <1>2. ~(running /\ silent)'
    BY DEF RecoveryTypes, RecoveryTypeOK, PoolTypeOK
  <1>3. WorkCurrent'
    BY <1>a, <1>b DEF WorkCurrent
  <1>4. ClearedOnce'
    BY <1>b DEF ClearedOnce, Leased, RecoveryTypes, RecoveryTypeOK
  <1>5. ClosedLanes'
    BY <1>b DEF ClosedLanes, Present
  <1>6. RestorePending'
    <2> SUFFICES ASSUME Present, ~abandoned, NEW m \in Lanes, Leased(m)', ~Degraded(m)'
                 PROVE  selected[m] = leases[m].node \/ Pending(m)'
      BY <1>b DEF RestorePending, Present
    <2>1. m # l => Leased(m) /\ ~Degraded(m)
      BY <1>b DEF Leased, Degraded
    <2>2. CASE m = l
      BY <2>2, <1>b, <1>c DEF Degraded, Leased
    <2>3. CASE m # l /\ selected[m] = leases[m].node
      BY <2>3, <1>b
    <2>4. CASE m # l /\ Pending(m)
      BY <2>4, <1>0, <1>a DEF Pending, Restoring
    <2> QED
      BY <2>1, <2>2, <2>3, <2>4 DEF RestorePending
  <1> QED
    BY <1>1, <1>2, <1>3, <1>4, <1>5, <1>6

\* KeeperDies: a keeper is killed.
LEMMA KeeperDiesInv ==
  ASSUME RecoveryInv, NEW k \in Keepers, KeeperDies(k)
  PROVE  RecoveryInv'
  <1> USE DEF RecoveryInv, KeeperDies, Goes, poolVars, stopVars
  <1>1. RecoveryTypes'
    BY DEF RecoveryTypes, PoolTypeOK, RecoveryTypeOK, KeeperSteps, NoWork
  <1>2. ~(running /\ silent)'
    BY DEF RecoveryTypes, RecoveryTypeOK, PoolTypeOK
  <1>3. WorkCurrent'
    BY DEF WorkCurrent, RecoveryTypes, RecoveryTypeOK, PoolTypeOK, Restoring, NoWork, KeeperSteps
  <1>4. ClearedOnce'
    BY DEF ClearedOnce, Leased, RecoveryTypes, RecoveryTypeOK, PoolTypeOK
  <1>5. ClosedLanes'
    BY DEF ClosedLanes, Present, Leased, RecoveryTypes, RecoveryTypeOK, PoolTypeOK
  <1>6. RestorePending'
    BY DEF RestorePending, Pending, Present, Leased, Degraded, RecoveryTypes,
           RecoveryTypeOK, PoolTypeOK, NoWork, KeeperSteps, WorkCurrent, Restoring
  <1> QED
    BY <1>1, <1>2, <1>3, <1>4, <1>5, <1>6

\* GatewayCrashes: Mihomo exits or hangs.
LEMMA GatewayCrashesInv ==
  ASSUME RecoveryInv, GatewayCrashes
  PROVE  RecoveryInv'
  <1> USE DEF RecoveryInv, GatewayCrashes, Goes, poolVars, stopVars, Fault
  <1>1. RecoveryTypes'
    <2>1. PoolTypeOK'
      BY DEF RecoveryTypes, PoolTypeOK
    <2>2. kpc' \in [Keepers -> KeeperSteps] /\ work' \in [Keepers -> [Lanes -> Nodes \cup {None}]]
      BY DEF RecoveryTypes, RecoveryTypeOK, KeeperSteps, NoWork
    <2>3. faults' \in 0 .. MaxFaults /\ kills' \in 0 .. MaxKills /\ stops' \in 0 .. MaxStops
      BY DEF RecoveryTypes, RecoveryTypeOK
    <2>4. silent' \in BOOLEAN /\ abandoned' \in BOOLEAN /\ spc' \in {"off", "read", "clear"}
          /\ toClear' \subseteq Lanes /\ torn' \in [Lanes -> Nodes \cup {None}]
      BY DEF RecoveryTypes, RecoveryTypeOK, PoolTypeOK
    <2> QED
      BY <2>1, <2>2, <2>3, <2>4 DEF RecoveryTypes, RecoveryTypeOK
  <1>2. ~(running /\ silent)'
    BY DEF RecoveryTypes, RecoveryTypeOK, PoolTypeOK
  <1>3. WorkCurrent'
    BY DEF WorkCurrent, RecoveryTypes, RecoveryTypeOK, PoolTypeOK, Restoring, NoWork, KeeperSteps
  <1>4. ClearedOnce'
    BY DEF ClearedOnce, Leased, RecoveryTypes, RecoveryTypeOK, PoolTypeOK
  <1>5. ClosedLanes'
    BY DEF ClosedLanes, Present, Leased, RecoveryTypes, RecoveryTypeOK, PoolTypeOK
  <1>6. RestorePending'
    BY DEF RestorePending, Pending, Present, Leased, Degraded, RecoveryTypes,
           RecoveryTypeOK, PoolTypeOK, NoWork, KeeperSteps, WorkCurrent, Restoring
  <1> QED
    BY <1>1, <1>2, <1>3, <1>4, <1>5, <1>6

\* StopsProcess: stop kills Mihomo.
LEMMA StopsProcessInv ==
  ASSUME RecoveryInv, StopsProcess
  PROVE  RecoveryInv'
  <1> USE DEF RecoveryInv, StopsProcess, Goes, poolVars, stopVars, ProcessStop
  <1>1. RecoveryTypes'
    <2>1. PoolTypeOK'
      BY DEF RecoveryTypes, PoolTypeOK
    <2>2. kpc' \in [Keepers -> KeeperSteps] /\ work' \in [Keepers -> [Lanes -> Nodes \cup {None}]]
      BY DEF RecoveryTypes, RecoveryTypeOK, KeeperSteps, NoWork
    <2>3. faults' \in 0 .. MaxFaults /\ kills' \in 0 .. MaxKills /\ stops' \in 0 .. MaxStops
      BY DEF RecoveryTypes, RecoveryTypeOK
    <2>4. silent' \in BOOLEAN /\ abandoned' \in BOOLEAN /\ spc' \in {"off", "read", "clear"}
          /\ toClear' \subseteq Lanes /\ torn' \in [Lanes -> Nodes \cup {None}]
      BY DEF RecoveryTypes, RecoveryTypeOK, PoolTypeOK
    <2> QED
      BY <2>1, <2>2, <2>3, <2>4 DEF RecoveryTypes, RecoveryTypeOK
  <1>2. ~(running /\ silent)'
    BY DEF RecoveryTypes, RecoveryTypeOK, PoolTypeOK
  <1>3. WorkCurrent'
    BY DEF WorkCurrent, RecoveryTypes, RecoveryTypeOK, PoolTypeOK, Restoring, NoWork, KeeperSteps
  <1>4. ClearedOnce'
    BY DEF ClearedOnce, Leased, RecoveryTypes, RecoveryTypeOK, PoolTypeOK
  <1>5. ClosedLanes'
    BY DEF ClosedLanes, Present, Leased, RecoveryTypes, RecoveryTypeOK, PoolTypeOK
  <1>6. RestorePending'
    BY DEF RestorePending, Pending, Present, Leased, Degraded, RecoveryTypes,
           RecoveryTypeOK, PoolTypeOK, NoWork, KeeperSteps, WorkCurrent, Restoring
  <1> QED
    BY <1>1, <1>2, <1>3, <1>4, <1>5, <1>6

\* ListsLeases: stop reads the rows.
LEMMA ListsLeasesInv ==
  ASSUME RecoveryInv, ListsLeases
  PROVE  RecoveryInv'
  <1> USE DEF RecoveryInv, ListsLeases, Goes, poolVars, stopVars
  <1>1. RecoveryTypes'
    BY DEF RecoveryTypes, PoolTypeOK, RecoveryTypeOK, KeeperSteps, NoWork
  <1>2. ~(running /\ silent)'
    BY DEF RecoveryTypes, RecoveryTypeOK, PoolTypeOK
  <1>3. WorkCurrent'
    BY DEF WorkCurrent, RecoveryTypes, RecoveryTypeOK, PoolTypeOK, Restoring, NoWork, KeeperSteps
  <1>4. ClearedOnce'
    BY DEF ClearedOnce, Leased, RecoveryTypes, RecoveryTypeOK, PoolTypeOK
  <1>5. ClosedLanes'
    BY DEF ClosedLanes, Present, Leased, RecoveryTypes, RecoveryTypeOK, PoolTypeOK
  <1>6. RestorePending'
    BY DEF RestorePending, Pending, Present, Leased, Degraded, RecoveryTypes,
           RecoveryTypeOK, PoolTypeOK, NoWork, KeeperSteps, WorkCurrent, Restoring
  <1> QED
    BY <1>1, <1>2, <1>3, <1>4, <1>5, <1>6

\* ClearsLease: stop clears a row.
LEMMA ClearsLeaseInv ==
  ASSUME RecoveryInv, NEW l \in Lanes, ClearsLease(l)
  PROVE  RecoveryInv'
  <1> USE DEF RecoveryInv, ClearsLease, Goes, poolVars, stopVars, ClearLease, Lowest
  <1>0. /\ Leased(l) /\ torn[l] = None /\ leases'[l] = NoLease
        /\ \A m \in Lanes \ {l} : leases'[m] = leases[m] /\ torn'[m] = torn[m]
        /\ torn'[l] = IF Held(l) THEN leases[l].node ELSE None
        /\ leases[l].node \in Nodes
        /\ torn' \in [Lanes -> Nodes \cup {None}]
    <2>1. Leased(l) /\ torn[l] = None
      BY DEF ClearedOnce
    <2>2. leases[l].node \in Nodes
      BY <2>1 DEF Leased, LeaseRow, RecoveryTypes, PoolTypeOK
    <2> QED
      BY <2>1, <2>2 DEF RecoveryTypes, RecoveryTypeOK, PoolTypeOK
  <1>1. RecoveryTypes'
    BY <1>0 DEF RecoveryTypes, PoolTypeOK, RecoveryTypeOK
  <1>2. ~(running /\ silent)'
    BY DEF RecoveryTypes, RecoveryTypeOK, PoolTypeOK
  <1>3. WorkCurrent'
    <2>1. ASSUME NEW k \in Keepers, NEW m \in Lanes, work[k][m] # None
          PROVE  work[k][m] \in {leases'[m].node, torn'[m]}
      <3>1. CASE m # l
        BY <1>0, <2>1, <3>1 DEF WorkCurrent
      <3>2. CASE m = l
        <4>1. Held(l) /\ work[k][l] = leases[l].node
          BY <1>0, <2>1, <3>2 DEF WorkCurrent, Held, HasWork
        <4> QED
          BY <1>0, <3>2, <4>1
      <3> QED
        BY <3>1, <3>2
    <2> QED
      BY <2>1 DEF WorkCurrent
  <1>4. ClearedOnce'
    BY <1>0 DEF ClearedOnce, Leased
  <1>5. ClosedLanes'
    <2>1. ASSUME Present, NEW m \in Lanes
          PROVE  selected[m] \in {Reject, leases'[m].node, torn'[m]}
      <3>1. CASE m # l
        BY <1>0, <2>1, <3>1 DEF ClosedLanes
      <3>2. CASE m = l /\ selected[l] # Reject
        <4>1. Held(l) /\ selected[l] = leases[l].node
          BY <1>0, <2>1, <3>2 DEF ClosedLanes, Held, RecoveryTypes, PoolTypeOK
        <4> QED
          BY <1>0, <3>2, <4>1
      <3> QED
        BY <3>1, <3>2
    <2> QED
      BY <2>1 DEF ClosedLanes, Present
  <1>6. RestorePending'
    BY <1>0 DEF RestorePending, Pending, Present, Leased, Degraded
  <1> QED
    BY <1>1, <1>2, <1>3, <1>4, <1>5, <1>6

\* Every step keeps the invariant.
LEMMA RecoveryNextInv ==
  ASSUME RecoveryInv, [RecoveryNext]_gatewayVars
  PROVE  RecoveryInv'
  <1>1. CASE UNCHANGED gatewayVars
    BY <1>1 DEF gatewayVars, recoveryVars, poolVars, stopVars, RecoveryInv, RecoveryTypes,
         PoolTypeOK, RecoveryTypeOK, WorkCurrent, ClearedOnce, Present,
         ClosedLanes, RestorePending, Pending, Leased, Degraded
  <1>2. ASSUME NEW k \in Keepers, KeeperStep(k)
        PROVE  RecoveryInv'
    <2>1. CASE FindsRunning(k)
      BY <2>1, <1>1 DEF FindsRunning, gatewayVars
    <2>2. CASE FindsDead(k) \/ FindsUnresponsive(k) \/ StopsUnresponsive(k) \/ Spawns(k)
      BY <2>2, FindsDeadInv, FindsUnresponsiveInv, StopsUnresponsiveInv, SpawnsInv
    <2>3. CASE GatewayReady(k) \/ StartFails(k) \/ StartTimesOut(k)
      BY <2>3, GatewayReadyInv, StartFailsInv, StartTimesOutInv
    <2>4. CASE ReadsLeases(k) \/ RecoveryRaises(k)
      BY <2>4, ReadsLeasesInv, RecoveryRaisesInv
    <2>5. ASSUME NEW l \in Lanes,
                 RestoreSelects(k, l) \/ RestoreConfirms(k, l) \/ RestoreFails(k, l)
          PROVE  RecoveryInv'
      BY <2>5, RestoreSelectsInv, RestoreConfirmsInv, RestoreFailsInv
    <2> QED
      BY <1>2, <2>1, <2>2, <2>3, <2>4, <2>5 DEF KeeperStep
  <1>3. ASSUME NEW k \in Keepers, KeeperDies(k)
        PROVE  RecoveryInv'
    BY <1>3, KeeperDiesInv
  <1>4. CASE GatewayAnswers \/ GatewayCrashes
    BY <1>4, GatewayAnswersInv, GatewayCrashesInv
  <1>5. CASE StopStep
    BY <1>5, StopsProcessInv, ListsLeasesInv, ClearsLeaseInv DEF StopStep
  <1> QED
    BY <1>1, <1>2, <1>3, <1>4, <1>5 DEF RecoveryNext

\* The invariant holds initially, with the gateway down and nobody at work.
LEMMA RecoveryInitInv == GatewayInit => RecoveryInv
  <1> SUFFICES ASSUME GatewayInit
               PROVE  RecoveryInv
    OBVIOUS
  <1> USE DEF GatewayInit, DownInit, RecoveryInit
  <1>1. PoolTypeOK
    <2>1. leases \in [Lanes -> LeaseRow \cup {NoLease}]
      BY DEF LeaseRow, Failures
    <2>2. selected \in [Lanes -> Nodes \cup {Reject}]
      BY <2>1 DEF RouteOf, Leased, LeaseRow
    <2>3. health \in [Targets -> [Nodes -> Outcomes]]
      BY DEF Outcomes
    <2> QED
      BY <2>1, <2>2, <2>3 DEF PoolTypeOK
  <1>2. RecoveryTypeOK
    <2>1. faults \in 0 .. MaxFaults /\ kills \in 0 .. MaxKills /\ stops \in 0 .. MaxStops
      OBVIOUS
    <2>2. kpc \in [Keepers -> KeeperSteps]
      BY DEF KeeperSteps
    <2>3. work \in [Keepers -> [Lanes -> Nodes \cup {None}]]
      BY DEF NoWork
    <2> QED
      BY <2>1, <2>2, <2>3 DEF RecoveryTypeOK
  <1> QED
    BY <1>1, <1>2 DEF RecoveryInv, RecoveryTypes, WorkCurrent, NoWork, ClearedOnce,
         ClosedLanes, RestorePending, Present

\* The inductive invariant of the gateway holds in every reachable state.
THEOREM RecoveryInvariant == RecoverySpec => []RecoveryInv
  <1>1. RecoveryInv /\ [RecoveryNext]_gatewayVars => RecoveryInv'
    BY RecoveryNextInv
  <1> QED
    BY <1>1, RecoveryInitInv, PTL DEF RecoverySpec

\* Every variable keeps its type.
THEOREM RecoveryTypeCorrectness == RecoverySpec => []RecoveryTypes
  <1>1. RecoveryInv => RecoveryTypes
    BY DEF RecoveryInv
  <1> QED
    BY <1>1, RecoveryInvariant, PTL

\* Whenever Mihomo runs, every lane without a lease is on REJECT, whatever was
\* restarted, killed or half restored before, except that a lane whose lease
\* stop cleared under a keeper may still lead to that node.
THEOREM UnassignedLanesClosed == RecoverySpec => []UnassignedRejects
  <1>1. RecoveryInv => UnassignedRejects
    <2> SUFFICES ASSUME RecoveryInv, running, NEW l \in Lanes, ~Leased(l)
                 PROVE  selected[l] \in {Reject, torn[l]}
      BY DEF UnassignedRejects
    <2>1. selected[l] \in {Reject, leases[l].node, torn[l]}
      BY DEF RecoveryInv, ClosedLanes, Present
    <2>2. leases[l].node = None /\ selected[l] \in Nodes \cup {Reject}
      BY DEF Leased, NoLease, RecoveryInv, RecoveryTypes, PoolTypeOK
    <2> QED
      BY <2>1, <2>2
  <1> QED
    BY <1>1, RecoveryInvariant, PTL

\* When the keepers are done and none of them left half-way, every lane that
\* counts as active is routed to the node it leases.
THEOREM RecoveryRoutesActiveLanes == RecoverySpec => []ActiveLanesRouted
  <1>1. RecoveryInv => ActiveLanesRouted
    <2> SUFFICES ASSUME RecoveryInv, ~abandoned, AllAway, running, NEW l \in Lanes,
                        Leased(l), ~Degraded(l)
                 PROVE  selected[l] = leases[l].node
      BY DEF ActiveLanesRouted, LanesRestored
    <2>1. ~Pending(l)
      BY DEF Pending, AllAway, RecoveryInv, WorkCurrent, Restoring, NoWork
    <2> QED
      BY <2>1 DEF RecoveryInv, RestorePending, Present
  <1> QED
    BY <1>1, RecoveryInvariant, PTL

-----------------------------------------------------------------------------
(* The refinement of FailClosedLanes, step by step.                        *)

\* Where a step leaves Mihomo, the leased nodes and the selectors alone.
Seen == <<Present, LeasedNode, selected, torn>>

\* Mihomo goes, or there was none.
LEMMA MihomoGoes ==
  ASSUME running' = FALSE, silent' = FALSE, UNCHANGED <<leases, selected, torn>>
  PROVE  FailsClosed!Goes \/ UNCHANGED Seen
  BY DEF FailsClosed!Goes, Present, LeasedNode, Seen

\* A start that finds nothing brings a closed Mihomo, and its end closes it.
LEMMA StartIsClosed ==
  ASSUME RecoveryInv, NEW k \in Keepers, Spawns(k) \/ GatewayReady(k)
  PROVE  FailsClosed!Comes \/ FailsClosed!Closes \/ UNCHANGED Seen
  <1>1. CASE Spawns(k)
    <2>1. CASE running \/ silent
      BY <1>1, <2>1 DEF Spawns, Present, LeasedNode, Seen
    <2>2. CASE ~(running \/ silent)
      <3>1. PICK held \in SUBSET Lanes : held = {l \in Lanes : HasWork(l)}
        OBVIOUS
      <3>2. torn' = [l \in Lanes |-> IF l \in held THEN torn[l] ELSE None]
        BY <1>1, <2>2, <3>1 DEF Spawns
      <3> QED
        BY <1>1, <2>2, <3>2 DEF Spawns, FailClosed, FailsClosed!Comes, FailsClosed!AllClosed, Present, LeasedNode
    <2> QED
      BY <2>1, <2>2
  <1>2. CASE GatewayReady(k)
    BY <1>2 DEF GatewayReady, FailClosed, FailsClosed!Closes, FailsClosed!AllClosed, Present, LeasedNode
  <1> QED
    BY <1>1, <1>2

\* A keeper restores what the lane leases now, or leased when it was torn.
LEMMA RestoreOpensLease ==
  ASSUME RecoveryInv, NEW k \in Keepers, NEW l \in Lanes, RestoreSelects(k, l)
  PROVE  FailsClosed!Opens(l)
  <1>1. running /\ work[k][l] \in {leases[l].node, torn[l]} \ {None}
    BY DEF RestoreSelects, RecoveryInv, WorkCurrent, ToRestore, Lowest
  <1>2. LeasedNode[l] = leases[l].node
    BY DEF LeasedNode
  <1> QED
    BY <1>1, <1>2 DEF RestoreSelects, Select, FailsClosed!Opens, Present, LeasedNode

\* A lane that could not be restored keeps its node.
LEMMA FailedRestoreKeeps ==
  ASSUME RecoveryInv, NEW k \in Keepers, NEW l \in Lanes, RestoreFails(k, l)
  PROVE  UNCHANGED Seen
  <1>1. \A m \in Lanes : leases'[m].node = leases[m].node
    BY LaneCheckType DEF RestoreFails, RecoveryInv, RecoveryTypes
  <1> QED
    BY <1>1 DEF RestoreFails, Present, LeasedNode, Seen

\* The stop command accounts for a lane that is open when it clears it.
LEMMA StopClearsLease ==
  ASSUME RecoveryInv, NEW l \in Lanes, ClearsLease(l)
  PROVE  FailsClosed!Clears(l)
  <1>1. Leased(l)
    BY DEF RecoveryInv, ClearedOnce, ClearsLease, Lowest
  <1>2. leases[l].node \in Nodes
    BY <1>1 DEF Leased, LeaseRow, RecoveryInv, RecoveryTypes, PoolTypeOK
  <1>3. \A m \in Lanes : leases'[m].node = IF m = l THEN None ELSE leases[m].node
    BY DEF RecoveryInv, RecoveryTypes, PoolTypeOK, ClearsLease, ClearLease, NoLease
  <1>4. LeasedNode[l] # None /\ LeasedNode' = [LeasedNode EXCEPT ![l] = None]
    BY <1>2, <1>3 DEF LeasedNode
  <1>5. CASE Held(l)
    BY <1>4, <1>5 DEF FailsClosed!Clears, ClearsLease, Present, LeasedNode
  <1>6. CASE ~Held(l)
    BY <1>4, <1>6 DEF FailsClosed!Clears, ClearsLease, Held, Present
  <1> QED
    BY <1>5, <1>6

LEMMA StepFailsClosed ==
  ASSUME RecoveryInv, [RecoveryNext]_gatewayVars
  PROVE  [FailsClosed!Next]_Seen
  <1> USE DEF FailsClosed!Next
  <1>1. ASSUME NEW k \in Keepers, KeeperStep(k) \/ KeeperDies(k)
        PROVE  [FailsClosed!Next]_Seen
    <2>1. CASE Spawns(k) \/ GatewayReady(k)
      BY <2>1, StartIsClosed
    <2>2. CASE StopsUnresponsive(k) \/ StartTimesOut(k)
      BY <2>2, MihomoGoes DEF StopsUnresponsive, StartTimesOut, ProcessStop
    <2>3. ASSUME NEW l \in Lanes, RestoreSelects(k, l) \/ RestoreConfirms(k, l) \/ RestoreFails(k, l)
          PROVE  [FailsClosed!Next]_Seen
      <3>1. CASE RestoreConfirms(k, l)
        BY <3>1 DEF RestoreConfirms, poolVars, Present, LeasedNode, Seen
      <3> QED
        BY <2>3, <3>1, RestoreOpensLease, FailedRestoreKeeps
    <2>4. CASE \/ FindsRunning(k) \/ FindsDead(k) \/ FindsUnresponsive(k) \/ StartFails(k)
               \/ ReadsLeases(k) \/ RecoveryRaises(k) \/ KeeperDies(k)
      BY <2>4 DEF FindsRunning, FindsDead, FindsUnresponsive, StartFails, ReadsLeases, RecoveryRaises,
         KeeperDies, poolVars, recoveryVars, Present, LeasedNode, Seen
    <2> QED
      BY <1>1, <2>1, <2>2, <2>3, <2>4 DEF KeeperStep
  <1>2. CASE GatewayAnswers
    BY <1>2 DEF GatewayAnswers, Present, LeasedNode, Seen
  <1>3. CASE GatewayCrashes
    <2>1. CASE silent'
      BY <1>3, <2>1 DEF GatewayCrashes, Present, LeasedNode, Seen
    <2>2. CASE ~silent'
      <3>1. silent' = FALSE
        BY <1>3, <2>2 DEF GatewayCrashes, RecoveryInv, RecoveryTypes, PoolTypeOK
      <3> QED
        BY <1>3, <3>1, MihomoGoes DEF GatewayCrashes
    <2> QED
      BY <2>1, <2>2
  <1>4. CASE StopStep
    <2>1. CASE StopsProcess
      BY <2>1, MihomoGoes DEF StopsProcess, ProcessStop
    <2>2. CASE ListsLeases
      BY <2>2 DEF ListsLeases, poolVars, Present, LeasedNode, Seen
    <2> QED
      BY <1>4, <2>1, <2>2, StopClearsLease DEF StopStep
  <1>5. CASE UNCHANGED gatewayVars
    BY <1>5 DEF gatewayVars, poolVars, recoveryVars, Present, LeasedNode, Seen
  <1> QED
    BY <1>1, <1>2, <1>3, <1>4, <1>5 DEF RecoveryNext

\* Recovery implements FailClosedLanes: Mihomo comes up closed, lanes are opened
\* to their leases alone, or to one that stop took from a keeper, and no open
\* lane loses its lease unaccounted for.
THEOREM ImplementsFailClosedHolds == RecoverySpec => ImplementsFailClosed
  <1>1. GatewayInit => FailsClosed!Init
    <2> SUFFICES ASSUME GatewayInit PROVE FailsClosed!Init
      OBVIOUS
    <2>1. PoolTypeOK
      BY RecoveryInitInv DEF RecoveryInv, RecoveryTypes
    <2>2. \A l \in Lanes : leases[l].node \in Nodes \cup {None}
      BY <2>1, RowColumns
    <2> QED
      BY <2>1, <2>2 DEF FailsClosed!Init, GatewayInit, DownInit, RecoveryInit, Present, LeasedNode, PoolTypeOK
  <1>2. RecoveryInv /\ [RecoveryNext]_gatewayVars => [FailsClosed!Next]_Seen
    BY StepFailsClosed
  <1> QED
    BY <1>1, <1>2, RecoveryInvariant, PTL
    DEF RecoverySpec, ImplementsFailClosed, FailsClosed!Spec, FailsClosed!gateway, Seen

\* So no lane ever carries traffic to a node but the one it leases, or leased
\* when stop cleared the lease under a keeper.
THEOREM RecoveryOwnRoutes == RecoverySpec => []FailsClosed!OwnRoutes
  <1>1. RecoveryInv => FailsClosed!OwnRoutes
    <2> SUFFICES ASSUME RecoveryInv, Present, NEW l \in Lanes
                 PROVE  selected[l] \in {Reject} \cup ({LeasedNode[l], torn[l]} \ {None})
      BY DEF FailsClosed!OwnRoutes
    <2>1. selected[l] \in {Reject, leases[l].node, torn[l]}
      BY DEF RecoveryInv, ClosedLanes
    <2>2. selected[l] \in Nodes \cup {Reject}
      BY DEF RecoveryInv, RecoveryTypes, PoolTypeOK
    <2> QED
      BY <2>1, <2>2 DEF LeasedNode
  <1> QED
    BY <1>1, RecoveryInvariant, PTL

=============================================================================
