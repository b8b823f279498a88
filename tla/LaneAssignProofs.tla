-------------------------- MODULE LaneAssignProofs ---------------------------
(***************************************************************************)
(* Proofs about LaneAssign for every set of lanes, nodes and targets, any   *)
(* commands and any number of kills and failed releases.                    *)
(***************************************************************************)
EXTENDS LaneAssign, LanePoolProofs

USE LanesAssumption, ThresholdAssumption, NoneAssumption, RejectAssumption,
    SignatureAssumption, AssignTargetsAssumption, RequestsAssumption,
    AssignModesAssumption, NodeOutcomesAssumption, MishapsAssumption

\* Call: a command begins.
LEMMA CallInv ==
  ASSUME AssignInv, NEW j \in Jobs, Call(j)
  PROVE  AssignInv'
  <1> USE DEF AssignInv, Call, poolVars, jobVars, usedVars, offerVars, mishapVars
  <1>1. AssignTypes'
    BY DEF AssignTypes, PoolTypeOK, AssignTypeOK, Jobs, NoJob
  <1>2. JobShape'
    BY DEF JobShape, Requested
  <1>3. KeptApart'
    BY DEF KeptApart, JobShape, Requested
  <1>4. NothingMoved'
    BY DEF NothingMoved, NewlyGot, LanesOf
  <1>5. SettledUsed'
    BY DEF SettledUsed, Assigning, Settled, NewlyGot, Requested, LanesOf
  <1>6. OffersUnused'
    BY DEF OffersUnused
  <1>7. OfferFree'
    BY DEF OfferFree, Settled, NewlyGot, Requested, LanesOf
  <1>8. NewNodesDistinct'
    BY DEF NewNodesDistinct, Assigning, Settled, NewlyGot, Requested, LanesOf
  <1> QED
    BY <1>1, <1>2, <1>3, <1>4, <1>5, <1>6, <1>7, <1>8

\* Begin: assign reads the leases of its target.
LEMMA BeginInv ==
  ASSUME AssignInv, Begin
  PROVE  AssignInv'
  <1> USE DEF AssignInv, Begin, poolVars, jobVars, usedVars, offerVars, mishapVars
  <1>a. /\ existing' \in [Lanes -> Nodes \cup {None}]
        /\ waiting' \subseteq Requested /\ Requested \subseteq Lanes
        /\ step' = "keep" => waiting' \subseteq {l \in Requested : existing'[l] \in Nodes}
        /\ kept' = {} /\ step' \in {"list", "keep"} /\ job \in Jobs
    BY RowColumns DEF AssignTypes, JobShape, LanesOf, Requested, Jobs
  <1>b. usedNodes' \in SUBSET Nodes /\ usedIps' \in SUBSET AllIps
    BY RowColumns DEF AssignTypes, JobShape, LanesOf, LeasedNodes, KnownIps, AllIps, Jobs
  <1>1. AssignTypes'
    BY <1>a, <1>b DEF AssignTypes, PoolTypeOK, AssignTypeOK
  <1>2. JobShape'
    BY <1>a DEF JobShape, Requested
  <1>3. KeptApart'
    BY DEF KeptApart, JobShape, Requested
  <1>4. NothingMoved'
    BY DEF NothingMoved, NewlyGot, LanesOf
  <1>5. SettledUsed'
    BY DEF SettledUsed, Assigning, Settled, NewlyGot, Requested, LanesOf
  <1>6. OffersUnused'
    BY DEF OffersUnused
  <1>7. OfferFree'
    BY DEF OfferFree, Settled, NewlyGot, Requested, LanesOf
  <1>8. NewNodesDistinct'
    BY DEF NewNodesDistinct, Assigning, Settled, NewlyGot, Requested, LanesOf
  <1> QED
    BY <1>1, <1>2, <1>3, <1>4, <1>5, <1>6, <1>7, <1>8

\* Reselect: a lane is pointed at its node.
LEMMA ReselectInv ==
  ASSUME AssignInv, NEW l \in Lanes, Reselect(l)
  PROVE  AssignInv'
  <1> USE DEF AssignInv, Reselect, poolVars, jobVars, usedVars, offerVars, mishapVars, At, Lowest, Select
  <1>a. existing[l] \in Nodes
    BY DEF JobShape
  <1>1. AssignTypes'
    BY <1>a DEF AssignTypes, PoolTypeOK, AssignTypeOK
  <1>2. JobShape'
    BY DEF JobShape, Requested
  <1>3. KeptApart'
    BY DEF KeptApart, JobShape, Requested
  <1>4. NothingMoved'
    BY DEF NothingMoved, NewlyGot, LanesOf
  <1>5. SettledUsed'
    BY DEF SettledUsed, Assigning, Settled, NewlyGot, Requested, LanesOf
  <1>6. OffersUnused'
    BY DEF OffersUnused
  <1>7. OfferFree'
    BY DEF OfferFree, Settled, NewlyGot, Requested, LanesOf
  <1>8. NewNodesDistinct'
    BY DEF NewNodesDistinct, Assigning, Settled, NewlyGot, Requested, LanesOf
  <1> QED
    BY <1>1, <1>2, <1>3, <1>4, <1>5, <1>6, <1>7, <1>8

\* Recheck: the lane is kept or not.
LEMMA RecheckInv ==
  ASSUME AssignInv, NEW l \in Lanes, Recheck(l)
  PROVE  AssignInv'
  <1> USE DEF AssignInv, Recheck, poolVars, jobVars, usedVars, offerVars, mishapVars, At, Lowest
  <1>a. /\ leases' \in [Lanes -> LeaseRow \cup {NoLease}]
        /\ \A k \in Lanes : leases'[k].node = leases[k].node
        /\ \A k \in Lanes : leases'[k].target = leases[k].target
        /\ \A k \in Lanes \ {l} : leases'[k] = leases[k]
    BY LaneCheckType DEF AssignTypes
  <1>b. l \in Requested /\ existing[l] \in Nodes
    BY DEF JobShape
  <1>q. qualified' \in [Targets -> SUBSET Nodes]
    BY <1>b, RecordProbeType DEF AssignTypes
  <1>c. usedIps' \in SUBSET AllIps /\ usedNodes' \in SUBSET Nodes
    BY <1>b DEF SeenWith, AllIps, AssignTypes, AssignTypeOK
  <1>d. \A k \in LanesOf(job.target) : leases'[k].node = existing[k]
    BY <1>a DEF NothingMoved, NewlyGot, LanesOf
  <1>e. LanesOf(job.target)' = LanesOf(job.target) /\ Requested' = Requested
    BY <1>a DEF LanesOf, Requested
  <1>1. AssignTypes'
    BY <1>a, <1>b, <1>c, <1>q DEF AssignTypes, PoolTypeOK, AssignTypeOK
  <1>2. JobShape'
    BY <1>a DEF JobShape, Requested
  <1>3. KeptApart'
    BY <1>b DEF KeptApart, Requested
  <1>4. NothingMoved'
    BY <1>a DEF NothingMoved, NewlyGot, LanesOf
  <1>5. SettledUsed'
    BY <1>a DEF SettledUsed, Assigning, Settled, NewlyGot, Requested, LanesOf
  <1>6. OffersUnused'
    BY <1>a DEF OffersUnused
  <1>7. OfferFree'
    BY <1>a DEF OfferFree, Settled, NewlyGot, Requested, LanesOf
  <1>8. NewNodesDistinct'
    BY <1>d, <1>e DEF NewNodesDistinct, NewlyGot, Settled
  <1> QED
    BY <1>1, <1>2, <1>3, <1>4, <1>5, <1>6, <1>7, <1>8

\* KeepsDone: the other lanes are to be assigned.
LEMMA KeepsDoneInv ==
  ASSUME AssignInv, KeepsDone
  PROVE  AssignInv'
  <1> USE DEF AssignInv, KeepsDone, poolVars, jobVars, usedVars, offerVars, mishapVars, LanesToAssign
  <1>1. AssignTypes'
    BY DEF AssignTypes, PoolTypeOK, AssignTypeOK, Jobs, NoJob, Requested
  <1>2. JobShape'
    BY DEF JobShape, Requested
  <1>3. KeptApart'
    BY DEF KeptApart, JobShape, Requested
  <1>4. NothingMoved'
    BY DEF NothingMoved, NewlyGot, LanesOf
  <1>5. SettledUsed'
    BY DEF SettledUsed, Assigning, Settled, NewlyGot, Requested, LanesOf
  <1>6. OffersUnused'
    BY DEF OffersUnused
  <1>7. OfferFree'
    BY DEF OfferFree, Settled, NewlyGot, Requested, LanesOf
  <1>8. NewNodesDistinct'
    BY DEF NewNodesDistinct, Assigning, Settled, NewlyGot, Requested, LanesOf
  <1> QED
    BY <1>1, <1>2, <1>3, <1>4, <1>5, <1>6, <1>7, <1>8

\* ListOffers: the candidates of a lane are read.
LEMMA ListOffersInv ==
  ASSUME AssignInv, NEW l \in Lanes, ListOffers(l)
  PROVE  AssignInv'
  <1> USE DEF AssignInv, ListOffers, poolVars, jobVars, usedVars, offerVars, mishapVars, At, Lowest
  <1>1. AssignTypes'
    BY DEF AssignTypes, PoolTypeOK, AssignTypeOK, Jobs, NoJob, JobShape
  <1>2. JobShape'
    BY DEF JobShape, Requested
  <1>3. KeptApart'
    BY DEF KeptApart, JobShape, Requested
  <1>4. NothingMoved'
    BY DEF NothingMoved, NewlyGot, LanesOf
  <1>5. SettledUsed'
    BY DEF SettledUsed, Assigning, Settled, NewlyGot, Requested, LanesOf
  <1>6. OffersUnused'
    BY DEF OffersUnused
  <1>7. OfferFree'
    BY DEF OfferFree, Settled, NewlyGot, Requested, LanesOf
  <1>8. NewNodesDistinct'
    BY DEF NewNodesDistinct, Assigning, Settled, NewlyGot, Requested, LanesOf
  <1> QED
    BY <1>1, <1>2, <1>3, <1>4, <1>5, <1>6, <1>7, <1>8

\* TryOffer: a candidate is put on the lane.
LEMMA TryOfferInv ==
  ASSUME AssignInv, NEW l \in Lanes, NEW n \in Nodes, TryOffer(l, n)
  PROVE  AssignInv'
  <1> USE DEF AssignInv, TryOffer, poolVars, jobVars, usedVars, offerVars, mishapVars, At, Lowest, Select, UseNode, DropOffer
  <1>a. n \in offers
    BY DEF NextCandidates, FreshIp, FirstTier
  <1>1. AssignTypes'
    BY <1>a DEF AssignTypes, PoolTypeOK, AssignTypeOK, Jobs, NoJob, SeenWith, AllIps
  <1>2. JobShape'
    BY <1>a DEF JobShape, Requested
  <1>3. KeptApart'
    BY <1>a DEF KeptApart, JobShape, Requested
  <1>4. NothingMoved'
    BY <1>a DEF NothingMoved, NewlyGot, LanesOf
  <1>5. SettledUsed'
    BY <1>a DEF SettledUsed, Assigning, Settled, NewlyGot, Requested, LanesOf
  <1>6. OffersUnused'
    BY <1>a DEF OffersUnused
  <1>7. OfferFree'
    BY <1>a DEF OfferFree, Settled, NewlyGot, Requested, LanesOf, OffersUnused, SettledUsed, Assigning
  <1>8. NewNodesDistinct'
    BY <1>a DEF NewNodesDistinct, Assigning, Settled, NewlyGot, Requested, LanesOf
  <1> QED
    BY <1>1, <1>2, <1>3, <1>4, <1>5, <1>6, <1>7, <1>8

\* JudgeOffer: the candidate has been probed.
LEMMA JudgeOfferInv ==
  ASSUME AssignInv, NEW l \in Lanes, JudgeOffer(l)
  PROVE  AssignInv'
  <1> USE DEF AssignInv, JudgeOffer, poolVars, jobVars, usedVars, offerVars, mishapVars, At, Lowest
  <1>1. AssignTypes'
    BY DEF AssignTypes, PoolTypeOK, AssignTypeOK, Jobs, NoJob, JobShape, Judged, RecordProbe
  <1>2. JobShape'
    BY DEF JobShape, Requested
  <1>3. KeptApart'
    BY DEF KeptApart, JobShape, Requested
  <1>4. NothingMoved'
    BY DEF NothingMoved, NewlyGot, LanesOf
  <1>5. SettledUsed'
    BY DEF SettledUsed, Assigning, Settled, NewlyGot, Requested, LanesOf
  <1>6. OffersUnused'
    BY DEF OffersUnused
  <1>7. OfferFree'
    BY DEF OfferFree, Settled, NewlyGot, Requested, LanesOf
  <1>8. NewNodesDistinct'
    BY DEF NewNodesDistinct, Assigning, Settled, NewlyGot, Requested, LanesOf
  <1> QED
    BY <1>1, <1>2, <1>3, <1>4, <1>5, <1>6, <1>7, <1>8

\* LeaseOffer: the lane gets the candidate.
LEMMA LeaseOfferInv ==
  ASSUME AssignInv, NEW l \in Lanes, LeaseOffer(l)
  PROVE  AssignInv'
  <1> USE DEF AssignInv, LeaseOffer, poolVars, jobVars, usedVars, offerVars, mishapVars, At, Lowest, NoOffers
  <1>a. /\ leases' \in [Lanes -> LeaseRow \cup {NoLease}]
        /\ leases'[l].node = offer /\ leases'[l].target = job.target
        /\ \A k \in Lanes \ {l} : leases'[k] = leases[k]
    BY ReplaceType DEF AssignTypes, JobShape, Jobs
  <1>b. Settled' \subseteq Settled \cup {l}
    BY <1>a DEF Settled, NewlyGot, Requested, LanesOf
  <1>c. Settled \subseteq Lanes
    BY DEF Settled, Requested
  <1>1. AssignTypes'
    BY <1>a DEF AssignTypes, PoolTypeOK, AssignTypeOK, Jobs, NoJob, SeenWith, AllIps, JobShape
  <1>2. JobShape'
    BY <1>a DEF JobShape, Requested
  <1>3. KeptApart'
    BY <1>a DEF KeptApart, JobShape, Requested
  <1>4. NothingMoved'
    BY <1>a DEF NothingMoved, NewlyGot, LanesOf
  <1>5. SettledUsed'
    BY <1>a, <1>b, <1>c DEF SettledUsed, OfferFree, Assigning
  <1>6. OffersUnused'
    BY <1>a DEF OffersUnused
  <1>7. OfferFree'
    BY <1>a DEF OfferFree, Settled, NewlyGot, Requested, LanesOf
  <1>8. NewNodesDistinct'
    <2> SUFFICES ASSUME NEW j \in Settled', NEW k \in Settled', j # k, NewlyGot(j)'
                 PROVE  leases'[j].node # leases'[k].node
      BY DEF NewNodesDistinct
    <2>1. CASE j = l
      BY <2>1, <1>a, <1>b, <1>c DEF OfferFree
    <2>2. CASE k = l
      BY <2>2, <1>a, <1>b, <1>c DEF OfferFree
    <2>3. CASE j # l /\ k # l
      BY <2>3, <1>a, <1>b, <1>c DEF NewNodesDistinct, Assigning, NewlyGot
    <2> QED
      BY <2>1, <2>2, <2>3
  <1> QED
    BY <1>1, <1>2, <1>3, <1>4, <1>5, <1>6, <1>7, <1>8

\* NoOffer: no candidate works.
LEMMA NoOfferInv ==
  ASSUME AssignInv, NEW l \in Lanes, NoOffer(l)
  PROVE  AssignInv'
  <1> USE DEF AssignInv, NoOffer, poolVars, jobVars, usedVars, offerVars, mishapVars, At, Lowest, NoOffers
  <1>a. /\ leases' \in [Lanes -> LeaseRow \cup {NoLease}]
        /\ \A k \in Lanes : leases'[k] \in {leases[k], NoLease}
        /\ job.target # None
    BY DEF AssignTypes, PoolTypeOK, ClearLease, JobShape, Jobs
  <1>1. AssignTypes'
    BY <1>a DEF AssignTypes, PoolTypeOK, AssignTypeOK, Jobs, NoJob, BackToLease, Select
  <1>2. JobShape'
    BY <1>a DEF JobShape, Requested
  <1>3. KeptApart'
    BY <1>a DEF KeptApart, JobShape, Requested
  <1>4. NothingMoved'
    BY <1>a DEF NothingMoved, NewlyGot, LanesOf
  <1>5. SettledUsed'
    BY <1>a DEF SettledUsed, Assigning, Settled, NewlyGot, Requested, LanesOf, NoLease
  <1>6. OffersUnused'
    BY <1>a DEF OffersUnused
  <1>7. OfferFree'
    BY <1>a DEF OfferFree, Settled, NewlyGot, Requested, LanesOf, NoLease
  <1>8. NewNodesDistinct'
    BY <1>a DEF NewNodesDistinct, Assigning, Settled, NewlyGot, Requested, LanesOf, NoLease
  <1> QED
    BY <1>1, <1>2, <1>3, <1>4, <1>5, <1>6, <1>7, <1>8

\* OffersDone: the lanes beyond the requested ones are left.
LEMMA OffersDoneInv ==
  ASSUME AssignInv, OffersDone
  PROVE  AssignInv'
  <1> USE DEF AssignInv, OffersDone, poolVars, jobVars, usedVars, offerVars, mishapVars
  <1>1. AssignTypes'
    BY DEF AssignTypes, PoolTypeOK, AssignTypeOK, Jobs, NoJob, Requested
  <1>2. JobShape'
    BY DEF JobShape, Requested
  <1>3. KeptApart'
    BY DEF KeptApart, JobShape, Requested
  <1>4. NothingMoved'
    BY DEF NothingMoved, NewlyGot, LanesOf
  <1>5. SettledUsed'
    BY DEF SettledUsed, Assigning, Settled, NewlyGot, Requested, LanesOf
  <1>6. OffersUnused'
    BY DEF OffersUnused
  <1>7. OfferFree'
    BY DEF OfferFree, Settled, NewlyGot, Requested, LanesOf
  <1>8. NewNodesDistinct'
    BY DEF NewNodesDistinct, Assigning, Settled, NewlyGot, Requested, LanesOf
  <1> QED
    BY <1>1, <1>2, <1>3, <1>4, <1>5, <1>6, <1>7, <1>8

\* Trim: such a lane is cleared.
LEMMA TrimInv ==
  ASSUME AssignInv, NEW l \in Lanes, Trim(l)
  PROVE  AssignInv'
  <1> USE DEF AssignInv, Trim, poolVars, jobVars, usedVars, offerVars, mishapVars, At, Lowest
  <1>a. /\ leases' \in [Lanes -> LeaseRow \cup {NoLease}]
        /\ \A k \in Lanes : leases'[k] \in {leases[k], NoLease}
        /\ job.target # None
    BY DEF AssignTypes, PoolTypeOK, ClearLease, JobShape, Jobs
  <1>b. Settled' \subseteq Settled /\ \A k \in Settled' : leases'[k] = leases[k]
    <2> SUFFICES ASSUME NEW k \in Settled'
                 PROVE  k \in Settled /\ leases'[k] = leases[k]
      OBVIOUS
    <2>1. k \in Lanes /\ leases'[k].target = job.target /\ k \in Requested
      BY DEF Settled, Requested, LanesOf
    <2>2. leases'[k] = leases[k]
      BY <2>1, <1>a DEF NoLease
    <2> QED
      BY <2>1, <2>2 DEF Settled, NewlyGot, LanesOf
  <1>1. AssignTypes'
    BY <1>a DEF AssignTypes, PoolTypeOK, AssignTypeOK, Jobs, NoJob
  <1>2. JobShape'
    BY <1>a DEF JobShape, Requested
  <1>3. KeptApart'
    BY <1>a DEF KeptApart, JobShape, Requested
  <1>4. NothingMoved'
    BY <1>a DEF NothingMoved, NewlyGot, LanesOf
  <1>5. SettledUsed'
    BY <1>b DEF SettledUsed, Assigning
  <1>6. OffersUnused'
    BY <1>a DEF OffersUnused
  <1>7. OfferFree'
    BY <1>a DEF OfferFree, Settled, NewlyGot, Requested, LanesOf, NoLease
  <1>8. NewNodesDistinct'
    BY <1>a DEF NewNodesDistinct, Assigning, Settled, NewlyGot, Requested, LanesOf, NoLease
  <1> QED
    BY <1>1, <1>2, <1>3, <1>4, <1>5, <1>6, <1>7, <1>8

\* Release: a cleared lane is closed, or the call fails.
LEMMA ReleaseInv ==
  ASSUME AssignInv, NEW l \in Lanes, Release(l)
  PROVE  AssignInv'
  <1> USE DEF AssignInv, Release, poolVars, jobVars, usedVars, offerVars, mishapVars, At, Lowest, Select, Mishap
  <1>1. AssignTypes'
    <2>1. mishaps' \in 0 .. MaxMishaps /\ spoilt' \in BOOLEAN
      <3>1. mishaps \in 0 .. MaxMishaps /\ spoilt \in BOOLEAN
        BY DEF AssignTypes, AssignTypeOK
      <3>2. UNCHANGED mishapVars \/ Mishap
        OBVIOUS
      <3>3. CASE UNCHANGED mishapVars
        BY <3>1, <3>3
      <3>4. CASE Mishap
        BY <3>1, <3>4
      <3> QED
        BY <3>2, <3>3, <3>4
    <2>2. PoolTypeOK'
      BY DEF AssignTypes, PoolTypeOK
    <2> QED
      BY <2>1, <2>2 DEF AssignTypes, AssignTypeOK, Jobs, NoJob
  <1>2. JobShape'
    BY DEF JobShape, Requested
  <1>3. KeptApart'
    BY DEF KeptApart, JobShape, Requested
  <1>4. NothingMoved'
    BY DEF NothingMoved, NewlyGot, LanesOf
  <1>5. SettledUsed'
    BY DEF SettledUsed, Assigning, Settled, NewlyGot, Requested, LanesOf
  <1>6. OffersUnused'
    BY DEF OffersUnused
  <1>7. OfferFree'
    BY DEF OfferFree, Settled, NewlyGot, Requested, LanesOf
  <1>8. NewNodesDistinct'
    BY DEF NewNodesDistinct, Assigning, Settled, NewlyGot, Requested, LanesOf
  <1> QED
    BY <1>1, <1>2, <1>3, <1>4, <1>5, <1>6, <1>7, <1>8

\* Return: the command ends.
LEMMA ReturnInv ==
  ASSUME AssignInv, Return
  PROVE  AssignInv'
  <1> USE DEF AssignInv, Return, poolVars, jobVars, usedVars, offerVars, mishapVars, Forget, NoOffers
  <1>1. AssignTypes'
    BY DEF AssignTypes, PoolTypeOK, AssignTypeOK, Jobs, NoJob, LeaseRow
  <1>2. JobShape'
    BY DEF JobShape, Requested
  <1>3. KeptApart'
    BY DEF KeptApart, JobShape, Requested
  <1>4. NothingMoved'
    BY DEF NothingMoved, NewlyGot, LanesOf
  <1>5. SettledUsed'
    BY DEF SettledUsed, Assigning, Settled, NewlyGot, Requested, LanesOf
  <1>6. OffersUnused'
    BY DEF OffersUnused
  <1>7. OfferFree'
    BY DEF OfferFree, Settled, NewlyGot, Requested, LanesOf
  <1>8. NewNodesDistinct'
    BY DEF NewNodesDistinct, Assigning, Settled, NewlyGot, Requested, LanesOf
  <1> QED
    BY <1>1, <1>2, <1>3, <1>4, <1>5, <1>6, <1>7, <1>8

\* NeedInventory: ensure_lanes asks for an inventory.
LEMMA NeedInventoryInv ==
  ASSUME AssignInv, NeedInventory
  PROVE  AssignInv'
  <1> USE DEF AssignInv, NeedInventory, poolVars, jobVars, usedVars, offerVars, mishapVars
  <1>1. AssignTypes'
    BY DEF AssignTypes, PoolTypeOK, AssignTypeOK, Jobs, NoJob
  <1>2. JobShape'
    BY DEF JobShape, Requested
  <1>3. KeptApart'
    BY DEF KeptApart, JobShape, Requested
  <1>4. NothingMoved'
    BY DEF NothingMoved, NewlyGot, LanesOf
  <1>5. SettledUsed'
    BY DEF SettledUsed, Assigning, Settled, NewlyGot, Requested, LanesOf
  <1>6. OffersUnused'
    BY DEF OffersUnused
  <1>7. OfferFree'
    BY DEF OfferFree, Settled, NewlyGot, Requested, LanesOf
  <1>8. NewNodesDistinct'
    BY DEF NewNodesDistinct, Assigning, Settled, NewlyGot, Requested, LanesOf
  <1> QED
    BY <1>1, <1>2, <1>3, <1>4, <1>5, <1>6, <1>7, <1>8

\* TakeInventory: the inventory is done.
LEMMA TakeInventoryInv ==
  ASSUME AssignInv, TakeInventory
  PROVE  AssignInv'
  <1> USE DEF AssignInv, TakeInventory, poolVars, jobVars, usedVars, offerVars, mishapVars
  <1>1. AssignTypes'
    BY DEF AssignTypes, PoolTypeOK, AssignTypeOK, Jobs, NoJob, JobShape
  <1>2. JobShape'
    BY DEF JobShape, Requested
  <1>3. KeptApart'
    BY DEF KeptApart, JobShape, Requested
  <1>4. NothingMoved'
    BY DEF NothingMoved, NewlyGot, LanesOf
  <1>5. SettledUsed'
    BY DEF SettledUsed, Assigning, Settled, NewlyGot, Requested, LanesOf
  <1>6. OffersUnused'
    BY DEF OffersUnused
  <1>7. OfferFree'
    BY DEF OfferFree, Settled, NewlyGot, Requested, LanesOf
  <1>8. NewNodesDistinct'
    BY DEF NewNodesDistinct, Assigning, Settled, NewlyGot, Requested, LanesOf
  <1> QED
    BY <1>1, <1>2, <1>3, <1>4, <1>5, <1>6, <1>7, <1>8

\* NoInventory: the inventory raises.
LEMMA NoInventoryInv ==
  ASSUME AssignInv, NoInventory
  PROVE  AssignInv'
  <1> USE DEF AssignInv, NoInventory, poolVars, jobVars, usedVars, offerVars, mishapVars, Forget, NoOffers
  <1>1. AssignTypes'
    BY DEF AssignTypes, PoolTypeOK, AssignTypeOK, Jobs, NoJob
  <1>2. JobShape'
    BY DEF JobShape, Requested
  <1>3. KeptApart'
    BY DEF KeptApart, JobShape, Requested
  <1>4. NothingMoved'
    BY DEF NothingMoved, NewlyGot, LanesOf
  <1>5. SettledUsed'
    BY DEF SettledUsed, Assigning, Settled, NewlyGot, Requested, LanesOf
  <1>6. OffersUnused'
    BY DEF OffersUnused
  <1>7. OfferFree'
    BY DEF OfferFree, Settled, NewlyGot, Requested, LanesOf
  <1>8. NewNodesDistinct'
    BY DEF NewNodesDistinct, Assigning, Settled, NewlyGot, Requested, LanesOf
  <1> QED
    BY <1>1, <1>2, <1>3, <1>4, <1>5, <1>6, <1>7, <1>8

\* AssignDies: the process is killed.
LEMMA AssignDiesInv ==
  ASSUME AssignInv, AssignDies
  PROVE  AssignInv'
  <1> USE DEF AssignInv, AssignDies, poolVars, jobVars, usedVars, offerVars, mishapVars, Forget, NoOffers, Mishap
  <1>1. AssignTypes'
    <2>1. mishaps' \in 0 .. MaxMishaps /\ spoilt' \in BOOLEAN
      BY DEF AssignTypes, AssignTypeOK
    <2>2. PoolTypeOK'
      BY DEF AssignTypes, PoolTypeOK
    <2> QED
      BY <2>1, <2>2 DEF AssignTypes, AssignTypeOK, Jobs, NoJob
  <1>2. JobShape'
    BY DEF JobShape, Requested
  <1>3. KeptApart'
    BY DEF KeptApart, JobShape, Requested
  <1>4. NothingMoved'
    BY DEF NothingMoved, NewlyGot, LanesOf
  <1>5. SettledUsed'
    BY DEF SettledUsed, Assigning, Settled, NewlyGot, Requested, LanesOf
  <1>6. OffersUnused'
    BY DEF OffersUnused
  <1>7. OfferFree'
    BY DEF OfferFree, Settled, NewlyGot, Requested, LanesOf
  <1>8. NewNodesDistinct'
    BY DEF NewNodesDistinct, Assigning, Settled, NewlyGot, Requested, LanesOf
  <1> QED
    BY <1>1, <1>2, <1>3, <1>4, <1>5, <1>6, <1>7, <1>8

\* World: a node changes, or a row of the reserve.
LEMMA WorldInv ==
  ASSUME AssignInv, NEW t \in AssignTargets, NEW n \in Nodes, 
         \/ \E o \in NodeOutcomes : NodeChanges(t, n, o)
         \/ Expire(t, n)
         \/ ReserveProbe(t, n),
         UNCHANGED assignVars
  PROVE  AssignInv'
  <1> USE DEF AssignInv, assignVars, poolVars, jobVars, usedVars, offerVars, mishapVars
  <1>a. qualified' \in [Targets -> SUBSET Nodes] /\ health' \in [Targets -> [Nodes -> Outcomes]]
    <2>1. t \in Targets /\ PoolTypeOK
      BY DEF AssignTypes
    <2>2. CASE \E o \in NodeOutcomes : NodeChanges(t, n, o)
      BY <2>1, <2>2 DEF PoolTypeOK, NodeChanges
    <2>3. CASE Expire(t, n)
      BY <2>1, <2>3 DEF PoolTypeOK, Expire
    <2>4. CASE ReserveProbe(t, n)
      BY <2>1, <2>4 DEF PoolTypeOK, ReserveProbe, RecordProbe, Judged
    <2> QED
      BY <2>2, <2>3, <2>4
  <1>b. UNCHANGED <<leases, selected, running>>
    BY DEF NodeChanges, Expire, ReserveProbe
  <1>1. AssignTypes'
    BY <1>a, <1>b DEF AssignTypes, PoolTypeOK, AssignTypeOK, Jobs, NoJob
  <1>2. JobShape'
    BY <1>a, <1>b DEF JobShape, Requested
  <1>3. KeptApart'
    BY <1>a, <1>b DEF KeptApart, JobShape, Requested
  <1>4. NothingMoved'
    BY <1>a, <1>b DEF NothingMoved, NewlyGot, LanesOf
  <1>5. SettledUsed'
    BY <1>a, <1>b DEF SettledUsed, Assigning, Settled, NewlyGot, Requested, LanesOf
  <1>6. OffersUnused'
    BY <1>a, <1>b DEF OffersUnused
  <1>7. OfferFree'
    BY <1>a, <1>b DEF OfferFree, Settled, NewlyGot, Requested, LanesOf
  <1>8. NewNodesDistinct'
    BY <1>a, <1>b DEF NewNodesDistinct, Assigning, Settled, NewlyGot, Requested, LanesOf
  <1> QED
    BY <1>1, <1>2, <1>3, <1>4, <1>5, <1>6, <1>7, <1>8

\* Every step of the process, and of what is around it, keeps the invariant.
LEMMA AssignStepInv ==
  ASSUME AssignInv, [AssignNext]_allVars
  PROVE  AssignInv'
  <1>1. CASE AssignStep
    BY <1>1, BeginInv, ReselectInv, RecheckInv, KeepsDoneInv, ListOffersInv, TryOfferInv,
       JudgeOfferInv, LeaseOfferInv, NoOfferInv, OffersDoneInv, TrimInv, ReleaseInv,
       ReturnInv, NeedInventoryInv, TakeInventoryInv, NoInventoryInv DEF AssignStep
  <1>2. CASE AssignDies
    BY <1>2, AssignDiesInv
  <1>3. ASSUME NEW j \in Jobs, Call(j)
        PROVE  AssignInv'
    BY <1>3, CallInv
  <1>4. ASSUME NEW t \in AssignTargets, NEW n \in Nodes,
               \/ \E o \in NodeOutcomes : NodeChanges(t, n, o)
               \/ Expire(t, n)
               \/ ReserveProbe(t, n),
               UNCHANGED assignVars
        PROVE  AssignInv'
    BY <1>4, WorldInv
  <1>5. CASE UNCHANGED allVars
    BY <1>5 DEF allVars, poolVars, assignVars, jobVars, usedVars, offerVars, mishapVars,
       AssignInv, AssignTypes, PoolTypeOK, AssignTypeOK, JobShape, KeptApart, NothingMoved,
       SettledUsed, OffersUnused, OfferFree, NewNodesDistinct, Assigning, Settled, NewlyGot,
       Requested, LanesOf
  <1> QED
    BY <1>1, <1>2, <1>3, <1>4, <1>5 DEF AssignNext, AssignProcess

\* The invariant holds in every state left behind by earlier commands.
LEMMA AssignInitInv ==
  ASSUME AnyInit
  PROVE  AssignInv
  <1>1. PoolTypeOK
    BY DEF AnyInit, AnyPool, PoolTypeOK, LeaseRow, Failures, Outcomes
  <1>2. AssignTypeOK
    <2>1. mishaps \in 0 .. MaxMishaps
      BY DEF AnyInit, AssignInit
    <2>2. existing \in [Lanes -> Nodes \cup {None}]
      BY DEF AnyInit, AssignInit
    <2> QED
      BY <2>1, <2>2 DEF AnyInit, AssignInit, AssignTypeOK
  <1> QED
    BY <1>1, <1>2 DEF AnyInit, AssignInit, AssignInv, AssignTypes, JobShape, KeptApart,
       NothingMoved, SettledUsed, OffersUnused, OfferFree, NewNodesDistinct, Assigning

\* The inductive invariant of assign and ensure_lanes.
THEOREM AssignInvariant == AssignSpec => []AssignInv
  <1>1. AnyInit => AssignInv
    BY AssignInitInv
  <1>2. AssignInv /\ [AssignNext]_allVars => AssignInv'
    BY AssignStepInv
  <1> QED
    BY <1>1, <1>2, PTL DEF AssignSpec

\* Every variable of assign keeps its type.
THEOREM AssignTypeCorrectness == AssignSpec => []AssignTypes
  <1>1. AssignInv => AssignTypes
    BY DEF AssignInv
  <1> QED
    BY <1>1, AssignInvariant, PTL

\* No lane newly gets a node that a kept lane has, or another lane newly got.
THEOREM AssignsDistinctNodes == AssignSpec => []NewNodesDistinct
  <1>1. AssignInv => NewNodesDistinct
    BY DEF AssignInv
  <1> QED
    BY <1>1, AssignInvariant, PTL

\* No step touches the selector or the row of a lane that passed its check.
LEMMA KeptStep ==
  ASSUME AssignInv, [AssignNext]_allVars, NEW l \in kept, step # "idle"
  PROVE  selected'[l] = selected[l] /\ leases'[l] = leases[l]
  <1>a. l \in Requested /\ l \in Lanes /\ l \notin waiting
    BY DEF AssignInv, KeptApart, Requested
  <1>b. PoolTypeOK
    BY DEF AssignInv, AssignTypes
  <1> USE <1>a, <1>b DEF poolVars, At, Lowest, Select
  <1>1. ASSUME NEW k \in Lanes,
               \/ Reselect(k) \/ NoOffer(k) \/ Release(k)
               \/ \E n \in Nodes : TryOffer(k, n)
        PROVE  selected'[l] = selected[l]
    BY <1>1 DEF PoolTypeOK, Reselect, TryOffer, NoOffer, Release, BackToLease
  <1>2. ASSUME NEW k \in Lanes, Recheck(k) \/ LeaseOffer(k) \/ NoOffer(k) \/ Trim(k)
        PROVE  leases'[l] = leases[l]
    BY <1>2 DEF PoolTypeOK, Recheck, LeaseOffer, NoOffer, Trim, RecordLaneCheck,
       ReplaceLease, ClearLease
  <1>3. CASE AssignStep
    <2>1. CASE \E k \in Lanes :
                 \/ Reselect(k) \/ Recheck(k) \/ ListOffers(k) \/ JudgeOffer(k) \/ LeaseOffer(k)
                 \/ NoOffer(k) \/ Trim(k) \/ Release(k)
                 \/ \E n \in Nodes : TryOffer(k, n)
      <3>1. PICK k \in Lanes :
                 \/ Reselect(k) \/ Recheck(k) \/ ListOffers(k) \/ JudgeOffer(k) \/ LeaseOffer(k)
                 \/ NoOffer(k) \/ Trim(k) \/ Release(k)
                 \/ \E n \in Nodes : TryOffer(k, n)
        BY <2>1
      <3>2. CASE Reselect(k) \/ Release(k) \/ \E n \in Nodes : TryOffer(k, n)
        BY <3>2, <1>1 DEF Reselect, Release, TryOffer
      <3>3. CASE Recheck(k) \/ LeaseOffer(k) \/ Trim(k)
        BY <3>3, <1>2 DEF Recheck, LeaseOffer, Trim
      <3>4. CASE NoOffer(k)
        BY <3>4, <1>1, <1>2
      <3>5. CASE ListOffers(k) \/ JudgeOffer(k)
        BY <3>5 DEF ListOffers, JudgeOffer
      <3> QED
        BY <3>1, <3>2, <3>3, <3>4, <3>5
    <2>2. CASE \/ Begin \/ KeepsDone \/ OffersDone
               \/ Return \/ NeedInventory \/ TakeInventory \/ NoInventory
      BY <2>2 DEF Begin, KeepsDone, OffersDone, Return, NeedInventory, TakeInventory, NoInventory
    <2> QED
      BY <1>3, <2>1, <2>2 DEF AssignStep
  <1>4. CASE ~AssignStep
    BY <1>4 DEF AssignNext, AssignProcess, AssignDies, Call, NodeChanges, Expire,
       ReserveProbe, allVars
  <1> QED
    BY <1>3, <1>4

\* assign never reassigns a healthy lane because another one fails.
THEOREM KeptLanesStay == AssignSpec => KeptLanesUntouched
  <1>1. AssignInv /\ [AssignNext]_allVars =>
          [\A l \in kept :
             step # "idle" => selected'[l] = selected[l] /\ leases'[l] = leases[l]]_allVars
    BY KeptStep
  <1> QED
    BY <1>1, AssignInvariant, PTL DEF AssignSpec, KeptLanesUntouched

-----------------------------------------------------------------------------
(* RoutesRepaired: which lanes are done, step after step.                  *)

\* The lowest lane is one lane.
LEMMA LowestOne ==
  ASSUME NEW S \in SUBSET Lanes, NEW l \in Lowest(S), NEW k \in Lowest(S)
  PROVE  l = k
  BY DEF Lowest

\* Where a lane belongs is told by the node column of its row.
LEMMA RouteByNode ==
  ASSUME PoolTypeOK, NEW l \in Lanes
  PROVE  RouteOf(l) = IF leases[l].node = None THEN Reject ELSE leases[l].node
  BY DEF PoolTypeOK, RouteOf, Leased, LeaseRow, NoLease

\* The steps that touch neither rows nor selectors.
LEMMA RoutesOfQuietSteps ==
  ASSUME AssignInv, RoutesInv, UNCHANGED <<leases, selected, running>>,
         \/ Begin \/ KeepsDone \/ OffersDone
         \/ Return \/ NeedInventory \/ TakeInventory \/ NoInventory
         \/ \E l \in Lanes : ListOffers(l) \/ JudgeOffer(l)
         \/ \E j \in Jobs : Call(j)
         \/ AssignDies
         \/ UNCHANGED assignVars
  PROVE  RoutesInv'
  <1> USE DEF RoutesInv, RoutesDone, Offering, Trimming, HasExisting, Routed, RouteOf, Leased,
      Requested, Lowest, At
  <1>a. waiting \subseteq Lanes /\ kept \subseteq Requested /\ Requested \subseteq Lanes
    BY DEF AssignInv, AssignTypes, AssignTypeOK, KeptApart
  <1>1. CASE Begin
    BY <1>1 DEF Begin
  <1>2. CASE KeepsDone
    BY <1>2, <1>a DEF KeepsDone, LanesToAssign, jobVars, usedVars, mishapVars
  <1>3. CASE OffersDone
    BY <1>3, <1>a DEF OffersDone, jobVars, mishapVars
  <1>4. CASE Return \/ NeedInventory \/ NoInventory
    BY <1>4, <1>a DEF Return, NeedInventory, NoInventory, Forget, mishapVars
  <1>5. CASE TakeInventory
    BY <1>5 DEF TakeInventory, mishapVars
  <1>6. CASE \E l \in Lanes : ListOffers(l)
    BY <1>6 DEF ListOffers, jobVars, mishapVars
  <1>7. CASE \E l \in Lanes : JudgeOffer(l)
    BY <1>7 DEF JudgeOffer, jobVars, mishapVars
  <1>8. CASE \E j \in Jobs : Call(j)
    BY <1>8 DEF Call, mishapVars
  <1>9. CASE AssignDies
    BY <1>9 DEF AssignDies, Mishap
  <1>10. CASE UNCHANGED assignVars
    BY <1>10 DEF assignVars, jobVars, usedVars, mishapVars, offerVars
  <1> QED
    BY <1>1, <1>2, <1>3, <1>4, <1>5, <1>6, <1>7, <1>8, <1>9, <1>10

\* The check of a lane: its selector is moved, then only its count.
LEMMA RoutesOfCheck ==
  ASSUME AssignInv, RoutesInv, NEW l \in Lanes, Reselect(l) \/ Recheck(l)
  PROVE  RoutesInv'
  <1>a. PoolTypeOK /\ waiting \subseteq Lanes /\ kept \subseteq Lanes /\ kept \cap waiting = {}
    BY DEF AssignInv, AssignTypes, AssignTypeOK, KeptApart, Requested
  <1>1. CASE Reselect(l)
    <2>1. \A k \in kept : selected'[k] = selected[k]
      BY <1>1, <1>a DEF Reselect, Select, PoolTypeOK, At, Lowest
    <2> QED
      BY <1>1, <1>a, <2>1 DEF Reselect, At, RoutesInv, RoutesDone, HasExisting, Routed, RouteOf,
         Leased, jobVars, usedVars, mishapVars
  <1>2. CASE Recheck(l)
    <2> DEFINE outcome == Observed(l, job.target, existing[l])
    <2>1. /\ At("check", l)
          /\ RecordLaneCheck(l, outcome = "ok")
          /\ kept' = IF outcome = "ok" THEN kept \cup {l} ELSE kept
          /\ step' = "keep"
          /\ UNCHANGED <<selected, running, existing, spoilt>>
      BY <1>2 DEF Recheck, jobVars, mishapVars
    <2> HIDE DEF outcome
    <2>2. \A k \in Lanes : leases'[k].node = leases[k].node
      BY <2>1, <1>a, LaneCheckType
    <2>3. leases' \in [Lanes -> LeaseRow \cup {NoLease}]
      BY <2>1, <1>a, LaneCheckType
    <2>4. \A k \in Lanes : RouteOf(k)' = RouteOf(k)
      <3> SUFFICES ASSUME NEW k \in Lanes
                   PROVE  RouteOf(k)' = RouteOf(k)
        OBVIOUS
      <3>1. RouteOf(k)' = IF leases'[k].node = None THEN Reject ELSE leases'[k].node
        BY <2>3 DEF RouteOf, Leased, LeaseRow, NoLease
      <3> QED
        BY <3>1, <2>2, <1>a, RouteByNode
    <2>5. ~spoilt /\ outcome = "ok" => Routed(l)
      <3> SUFFICES ASSUME ~spoilt, outcome = "ok"
                   PROVE  Routed(l)
        OBVIOUS
      <3>1. existing[l] \in Nodes /\ leases[l].node = existing[l]
        BY <2>1 DEF At, Lowest, AssignInv, JobShape, RoutesInv, RoutesDone, HasExisting
      <3>2. selected[l] = existing[l]
        BY DEF Observed, outcome
      <3> QED
        BY <3>1, <3>2, <1>a, RouteByNode DEF Routed
    <2> QED
      BY <1>a, <2>1, <2>2, <2>4, <2>5 DEF At, RoutesInv, RoutesDone, HasExisting, Routed
  <1> QED
    BY <1>1, <1>2

\* The loop over the lanes to fill, the lanes to trim, and the release: the lane
\* that leaves waiting is routed, and no other lane is touched.
LEMMA RoutesOfOffers ==
  ASSUME AssignInv, RoutesInv, NEW l \in Lanes,
         \/ LeaseOffer(l) \/ NoOffer(l) \/ Trim(l) \/ Release(l)
         \/ \E n \in Nodes : TryOffer(l, n)
  PROVE  RoutesInv'
  <1>a. /\ PoolTypeOK /\ waiting \subseteq Lanes /\ running
        /\ Requested \subseteq Lanes
    BY DEF AssignInv, AssignTypes, AssignTypeOK, RoutesInv, Requested
  <1>b. l \in Lowest(waiting) /\ l \in waiting
    BY DEF LeaseOffer, NoOffer, Trim, Release, TryOffer, At, Lowest
  <1>c. \A k \in Lowest(waiting) : k = l
    BY <1>a, <1>b, LowestOne
  <1>d. Requested' = Requested /\ running' = running
    BY DEF LeaseOffer, NoOffer, Trim, Release, TryOffer, jobVars, Requested
  <1> SUFFICES ASSUME ~spoilt'
               PROVE  RoutesDone'
    BY <1>a, <1>d DEF RoutesInv
  <1>e. ~spoilt /\ RoutesDone
    <2>1. UNCHANGED mishapVars \/ Mishap
      BY DEF LeaseOffer, NoOffer, Trim, Release, TryOffer
    <2>2. UNCHANGED spoilt
      BY <2>1, Zenon DEF mishapVars, Mishap
    <2> QED
      BY <2>2 DEF RoutesInv
  <1> USE DEF At
  <1>1. CASE \E n \in Nodes : TryOffer(l, n)
    <2>1. PICK n \in Nodes : TryOffer(l, n)
      BY <1>1
    <2>2. /\ selected' = [selected EXCEPT ![l] = n]
          /\ step = "offer" /\ step' = "verify" /\ offer' = n
          /\ UNCHANGED <<leases, existing, waiting>>
      BY <2>1, <1>a DEF TryOffer, Select, jobVars
    <2>3. selected'[l] = n /\ \A k \in Lanes \ {l} : selected'[k] = selected[k]
      BY <2>2, <1>a DEF PoolTypeOK
    <2>4. Lowest(waiting)' = Lowest(waiting)
      BY <2>2 DEF Lowest
    <2> QED
      BY <2>2, <2>3, <2>4, <1>a, <1>b, <1>c, <1>d, <1>e
         DEF RoutesDone, Offering, HasExisting, Routed, RouteOf, Leased
  <1>2. CASE LeaseOffer(l)
    <2>1. /\ ReplaceLease(l, job.target, offer)
          /\ step = "lease" /\ step' = "list" /\ waiting' = waiting \ {l}
          /\ UNCHANGED <<selected, existing>>
      BY <1>2 DEF LeaseOffer, jobVars
    <2>2. offer \in Nodes /\ job.target \in Targets
      BY <2>1 DEF AssignInv, JobShape, Jobs
    <2>3. /\ leases'[l] # NoLease /\ leases'[l].node = offer
          /\ \A k \in Lanes \ {l} : leases'[k] = leases[k]
      BY <2>1, <2>2, <1>a, ReplaceType
    <2>4. selected[l] = offer
      BY <2>1, <1>b, <1>e DEF RoutesDone
    <2>5. Routed(l)'
      BY <2>1, <2>3, <2>4 DEF Routed, RouteOf, Leased
    <2>6. \A k \in Lanes \ {l} : (Routed(k)' <=> Routed(k)) /\ (HasExisting(k)' <=> HasExisting(k))
      BY <2>1, <2>3 DEF Routed, RouteOf, Leased, HasExisting
    <2> QED
      BY <2>1, <2>5, <2>6, <1>a, <1>b, <1>d, <1>e DEF RoutesDone, Offering
  <1>3. CASE NoOffer(l)
    <2>1. CASE existing[l] # None
      <3>1. /\ selected' = [selected EXCEPT ![l] = existing[l]]
            /\ step = "offer" /\ step' = "list" /\ waiting' = waiting \ {l}
            /\ UNCHANGED <<leases, existing>>
        BY <1>3, <2>1, <1>a DEF NoOffer, BackToLease, Select, jobVars
      <3>2. leases[l].node = existing[l]
        BY <3>1, <2>1, <1>b, <1>e DEF RoutesDone, HasExisting
      <3>3. selected'[l] = existing[l] /\ \A k \in Lanes \ {l} : selected'[k] = selected[k]
        BY <3>1, <1>a DEF PoolTypeOK
      <3>4. Routed(l)'
        BY <3>1, <3>2, <3>3, <2>1 DEF Routed, RouteOf, Leased, NoLease
      <3>5. \A k \in Lanes \ {l} : (Routed(k)' <=> Routed(k)) /\ (HasExisting(k)' <=> HasExisting(k))
        BY <3>1, <3>3 DEF Routed, RouteOf, Leased, HasExisting
      <3> QED
        BY <3>1, <3>4, <3>5, <1>a, <1>b, <1>d, <1>e DEF RoutesDone, Offering
    <2>2. CASE existing[l] = None
      <3>1. /\ ClearLease(l)
            /\ step = "offer" /\ step' = "release"
            /\ UNCHANGED <<selected, waiting, existing>>
        BY <1>3, <2>2 DEF NoOffer, jobVars
      <3>2. leases'[l] = NoLease /\ \A k \in Lanes \ {l} : leases'[k] = leases[k]
        BY <3>1, <1>a DEF ClearLease, PoolTypeOK
      <3>3. Lowest(waiting)' = Lowest(waiting)
        BY <3>1 DEF Lowest
      <3>4. \A k \in Lanes \ {l} : (Routed(k)' <=> Routed(k)) /\ (HasExisting(k)' <=> HasExisting(k))
        BY <3>1, <3>2 DEF Routed, RouteOf, Leased, HasExisting
      <3>5. Offering' /\ \A k \in (waiting \ Lowest(waiting))' : HasExisting(k)'
        BY <3>1, <3>3, <3>4, <1>a, <1>b, <1>c, <1>d, <1>e DEF RoutesDone, Offering
      <3> QED
        BY <3>1, <3>2, <3>3, <3>5, <1>c, <1>b DEF RoutesDone
    <2> QED
      BY <2>1, <2>2
  <1>4. CASE Trim(l)
    <2>1. /\ ClearLease(l)
          /\ step = "trim" /\ step' = "release"
          /\ UNCHANGED <<selected, waiting, existing>>
      BY <1>4 DEF Trim, jobVars
    <2>2. leases'[l] = NoLease /\ \A k \in Lanes \ {l} : leases'[k] = leases[k]
      BY <2>1, <1>a DEF ClearLease, PoolTypeOK
    <2>3. Lowest(waiting)' = Lowest(waiting)
      BY <2>1 DEF Lowest
    <2>4. \A k \in Lanes \ {l} : Routed(k)' <=> Routed(k)
      BY <2>1, <2>2 DEF Routed, RouteOf, Leased
    <2>5. Trimming'
      BY <2>1, <2>4, <1>a, <1>b, <1>d, <1>e DEF RoutesDone, Trimming
    <2> QED
      BY <2>1, <2>2, <2>3, <2>5, <1>c DEF RoutesDone
  <1>5. CASE Release(l)
    <2>1. /\ selected' = [selected EXCEPT ![l] = Reject]
          /\ step = "release" /\ step' = IF l \in Requested THEN "list" ELSE "trim"
          /\ waiting' = waiting \ {l}
          /\ UNCHANGED <<leases, existing>>
      BY <1>5, <1>a DEF Release, Select, Mishap, jobVars
    <2>2. selected'[l] = Reject /\ \A k \in Lanes \ {l} : selected'[k] = selected[k]
      BY <2>1, <1>a DEF PoolTypeOK
    <2>3. Routed(l)'
      BY <2>1, <2>2, <1>b, <1>e DEF RoutesDone, Routed, RouteOf, Leased
    <2>4. \A k \in Lanes \ {l} : (Routed(k)' <=> Routed(k)) /\ (HasExisting(k)' <=> HasExisting(k))
      BY <2>1, <2>2 DEF Routed, RouteOf, Leased, HasExisting
    <2>5. CASE Offering /\ \A k \in waiting \ Lowest(waiting) : HasExisting(k)
      <3>1. l \in Requested
        BY <2>5, <1>b DEF Offering
      <3> QED
        BY <2>1, <2>3, <2>4, <2>5, <3>1, <1>a, <1>b, <1>c, <1>d DEF RoutesDone, Offering
    <2>6. CASE Trimming
      <3>1. l \notin Requested
        BY <2>6, <1>b DEF Trimming
      <3> QED
        BY <2>1, <2>3, <2>4, <2>6, <3>1, <1>a, <1>b, <1>d DEF RoutesDone, Trimming
    <2> QED
      BY <2>1, <2>5, <2>6, <1>e DEF RoutesDone
  <1> QED
    BY <1>1, <1>2, <1>3, <1>4, <1>5

\* Every step keeps the invariant of the routes.
LEMMA RoutesStep ==
  ASSUME AssignInv, RoutesInv, [AssignNext]_allVars
  PROVE  RoutesInv'
  <1>1. CASE AssignStep
    <2>1. ASSUME NEW l \in Lanes,
                 \/ Reselect(l) \/ Recheck(l) \/ LeaseOffer(l)
                 \/ NoOffer(l) \/ Trim(l) \/ Release(l)
                 \/ \E n \in Nodes : TryOffer(l, n)
          PROVE  RoutesInv'
      BY <2>1, RoutesOfCheck, RoutesOfOffers
    <2>2. ASSUME \/ Begin \/ KeepsDone \/ OffersDone
                 \/ Return \/ NeedInventory \/ TakeInventory \/ NoInventory
                 \/ \E l \in Lanes : ListOffers(l) \/ JudgeOffer(l)
          PROVE  RoutesInv'
      <3>1. UNCHANGED <<leases, selected, running>>
        BY <2>2 DEF Begin, KeepsDone, OffersDone, Return, NeedInventory, TakeInventory,
           NoInventory, ListOffers, JudgeOffer, poolVars
      <3> QED
        BY <2>2, <3>1, RoutesOfQuietSteps
    <2> QED
      BY <1>1, <2>1, <2>2 DEF AssignStep
  <1>2. CASE AssignDies
    BY <1>2, RoutesOfQuietSteps DEF AssignDies, poolVars
  <1>3. CASE \E j \in Jobs : Call(j)
    BY <1>3, RoutesOfQuietSteps DEF Call, poolVars
  <1>4. ASSUME NEW t \in AssignTargets, NEW n \in Nodes,
               \/ \E o \in NodeOutcomes : NodeChanges(t, n, o)
               \/ Expire(t, n)
               \/ ReserveProbe(t, n),
               UNCHANGED assignVars
        PROVE  RoutesInv'
    BY <1>4, RoutesOfQuietSteps DEF NodeChanges, Expire, ReserveProbe
  <1>5. CASE UNCHANGED allVars
    BY <1>5, RoutesOfQuietSteps DEF allVars, poolVars
  <1> QED
    BY <1>1, <1>2, <1>3, <1>4, <1>5 DEF AssignNext, AssignProcess

\* Whatever the selectors and rows were before, when assign or ensure_lanes has
\* returned without a mishap, every lane is routed to its lease or closed.
THEOREM RoutesRepairedHolds == AssignSpec => []RoutesRepaired
  <1>1. AnyInit => RoutesInv
    BY DEF AnyInit, AnyPool, AssignInit, RoutesInv
  <1>2. AssignInv /\ RoutesInv /\ [AssignNext]_allVars => RoutesInv'
    BY RoutesStep
  <1>3. RoutesInv => RoutesRepaired
    BY DEF RoutesInv, RoutesDone, RoutesRepaired, Routed
  <1> QED
    BY <1>1, <1>2, <1>3, AssignInvariant, PTL DEF AssignSpec

=============================================================================
