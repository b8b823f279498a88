----------------------------- MODULE LaneAssign -----------------------------
(***************************************************************************)
(* The process that hands the lanes to a target: assign and ensure_lanes   *)
(* of controller.py, one action per step on the store or the selectors.    *)
(*                                                                         *)
(* assign keeps the lanes whose lease still works (unless told to replace  *)
(* them), gives each other requested lane the first candidate that works   *)
(* through it, and takes the remaining lanes away from whoever has them.   *)
(* ensure_lanes does that, and once more after an inventory if lanes are   *)
(* missing.                                                                *)
(***************************************************************************)
EXTENDS LanePool

CONSTANTS
  AssignTargets, \* targets the commands are run for
  Requests,      \* how many lanes they ask for
  Modes,         \* of "assign", "replace" (assign --replace), "ensure"
  NodeOutcomes,  \* the outcomes the nodes of this instance go through
  MaxMishaps     \* how often a release fails or the process is killed

ASSUME AssignTargetsAssumption == AssignTargets \subseteq Targets
ASSUME RequestsAssumption == Requests \subseteq Nat \ {0}
ASSUME AssignModesAssumption == Modes \subseteq {"assign", "replace", "ensure"}
ASSUME NodeOutcomesAssumption == NodeOutcomes \subseteq Outcomes
ASSUME MishapsAssumption == MaxMishaps \in Nat

VARIABLES
  step,          \* where the process is
  job,           \* what it was called with
  again,         \* is this the second assign of ensure_lanes?
  existing,      \* existing_by_lane: lane -> its node when assign began, or None
  kept,          \* the lanes whose lease still works
  usedNodes,     \* used_nodes
  usedIps,       \* used_ips
  waiting,       \* lanes the present loop has not finished
  offers,        \* candidates of the present lane not tried yet
  listed,        \* used_ips, and the IPs of the candidates tried
  offer,         \* the candidate on the lane, or None
  spoilt,        \* a mishap since assign began, or no assign yet
  mishaps

jobVars    == <<job, again, existing>>
usedVars   == <<kept, usedNodes, usedIps>>
offerVars  == <<offers, listed, offer>>
mishapVars == <<spoilt, mishaps>>
assignVars == <<step, jobVars, usedVars, waiting, offerVars, mishapVars>>
allVars    == <<poolVars, assignVars>>

Jobs  == [target : AssignTargets, lanes : Requests, mode : Modes]
NoJob == [target |-> None, lanes |-> 0, mode |-> "assign"]
AllIps == {IpOf[n] : n \in Nodes} \cup {NoIp}

AssignTypeOK ==
  /\ step \in {"idle", "begin", "keep", "check", "list", "offer", "verify",
               "lease", "trim", "release", "inventory"}
  /\ job \in Jobs \cup {NoJob}
  /\ again \in BOOLEAN
  /\ existing \in [Lanes -> Nodes \cup {None}]
  /\ kept \in SUBSET Lanes
  /\ usedNodes \in SUBSET Nodes
  /\ usedIps \in SUBSET AllIps
  /\ waiting \in SUBSET Lanes
  /\ offers \in SUBSET Nodes
  /\ listed \in SUBSET AllIps
  /\ offer \in Nodes \cup {None}
  /\ spoilt \in BOOLEAN
  /\ mishaps \in 0 .. MaxMishaps

AssignInit ==
  /\ step = "idle"
  /\ job = NoJob
  /\ again = FALSE
  /\ existing = [l \in Lanes |-> None]
  /\ kept = {} /\ usedNodes = {} /\ usedIps = {}
  /\ waiting = {}
  /\ offers = {} /\ listed = {} /\ offer = None
  /\ spoilt = TRUE
  /\ mishaps = 0

NoOffers == offers' = {} /\ listed' = {} /\ offer' = None
Forget ==
  /\ step' = "idle"
  /\ job' = NoJob
  /\ again' = FALSE
  /\ existing' = [l \in Lanes |-> None]
  /\ kept' = {} /\ usedNodes' = {} /\ usedIps' = {}
  /\ waiting' = {}
  /\ NoOffers

Requested == {l \in Lanes : l <= job.lanes}
At(s, l)  == step = s /\ l \in Lowest(waiting)

-----------------------------------------------------------------------------
(* assign: which lanes to keep.                                            *)

Call(j) ==
  /\ step = "idle"
  /\ job' = j
  /\ step' = "begin"
  /\ UNCHANGED <<poolVars, again, existing, usedVars, waiting, offerVars, mishapVars>>

\* require_api and leases(target).  With --replace nothing is kept, but the
\* nodes of all the lanes of the target count as used.
Begin ==
  LET old == LanesOf(job.target)
      replace == job.mode = "replace"
  IN  /\ step = "begin"
      /\ running
      /\ existing' = [l \in Lanes |-> IF l \in old THEN leases[l].node ELSE None]
      /\ kept' = {}
      /\ usedNodes' = IF replace THEN LeasedNodes(job.target) ELSE {}
      /\ usedIps' = KnownIps(usedNodes')
      /\ waiting' = IF replace THEN Requested ELSE Requested \cap old
      /\ step' = IF replace THEN "list" ELSE "keep"
      /\ spoilt' = FALSE
      /\ UNCHANGED <<poolVars, job, again, offerVars, mishaps>>

\* The selector of the lane is pointed at the node of its lease once more.
Reselect(l) ==
  /\ At("keep", l)
  /\ Select(l, existing[l])
  /\ step' = "check"
  /\ UNCHANGED <<leases, qualified, running, health, jobVars, usedVars, waiting, offerVars, mishapVars>>

\* _probe_lane_lease, record_probe and record_lane_check.
Recheck(l) ==
  LET outcome == Observed(l, job.target, existing[l])
      healthy == outcome = "ok"
  IN  /\ At("check", l)
      /\ RecordProbe(job.target, existing[l], outcome)
      /\ RecordLaneCheck(l, healthy)
      /\ kept' = IF healthy THEN kept \cup {l} ELSE kept
      /\ usedNodes' = IF healthy THEN usedNodes \cup {existing[l]} ELSE usedNodes
      /\ usedIps' = IF healthy THEN SeenWith(usedIps, existing[l]) ELSE usedIps
      /\ waiting' = waiting \ {l}
      /\ step' = "keep"
      /\ UNCHANGED <<selected, running, health, jobVars, offerVars, mishapVars>>

\* Mutant: a kept lane is assigned anew.
LanesToAssignAll == Requested
LanesToAssign == Requested \ kept

KeepsDone ==
  /\ step = "keep"
  /\ waiting = {}
  /\ waiting' = LanesToAssign
  /\ step' = "list"
  /\ UNCHANGED <<poolVars, jobVars, usedVars, offerVars, mishapVars>>

-----------------------------------------------------------------------------
(* assign: a candidate for each of the other lanes.                        *)

\* qualified_reserve_candidates, without the used nodes.
ListOffers(l) ==
  /\ At("list", l)
  /\ offers' = qualified[job.target] \ usedNodes
  /\ listed' = usedIps
  /\ step' = "offer"
  /\ UNCHANGED <<poolVars, jobVars, usedVars, waiting, offer, mishapVars>>

\* Mutants: the candidate stays on the list; it is not added to used_nodes.
KeepOffer(n) == UNCHANGED offers
ForgetOffered(n) == UNCHANGED usedNodes

DropOffer(n) == offers' = offers \ {n}
UseNode(n) == usedNodes' = usedNodes \cup {n}

\* _verify_candidate_on_work_lane, first half.
TryOffer(l, n) ==
  /\ At("offer", l)
  /\ n \in NextCandidates(offers, listed)
  /\ UseNode(n)
  /\ Select(l, n)
  /\ offer' = n
  /\ DropOffer(n)
  /\ listed' = SeenWith(listed, n)
  /\ step' = "verify"
  /\ UNCHANGED <<leases, qualified, running, health, jobVars, kept, usedIps, waiting, mishapVars>>

\* Second half.
JudgeOffer(l) ==
  LET outcome == Observed(l, job.target, offer)
  IN  /\ At("verify", l)
      /\ RecordProbe(job.target, offer, outcome)
      /\ step' = IF outcome = "ok" THEN "lease" ELSE "offer"
      /\ offer' = IF outcome = "ok" THEN offer ELSE None
      /\ UNCHANGED <<leases, selected, running, health, jobVars, usedVars, waiting, offers, listed, mishapVars>>

LeaseOffer(l) ==
  /\ At("lease", l)
  /\ ReplaceLease(l, job.target, offer)
  /\ usedIps' = SeenWith(usedIps, offer)
  /\ waiting' = waiting \ {l}
  /\ step' = "list"
  /\ NoOffers
  /\ UNCHANGED <<qualified, selected, running, health, jobVars, kept, usedNodes, mishapVars>>

\* Mutant: the lane stays on its last candidate.
BackStays(l) == UNCHANGED selected
BackToLease(l) == Select(l, existing[l])

\* No candidate works: a lane that had a lease goes back to its node, as it
\* was; any other lane is cleared, whoever leases it.
NoOffer(l) ==
  /\ At("offer", l)
  /\ offers = {}
  /\ NoOffers
  /\ IF existing[l] # None
     THEN /\ BackToLease(l)
          /\ waiting' = waiting \ {l}
          /\ step' = "list"
          /\ UNCHANGED leases
     ELSE /\ ClearLease(l)
          /\ step' = "release"
          /\ UNCHANGED <<selected, waiting>>
  /\ UNCHANGED <<qualified, running, health, jobVars, usedVars, mishapVars>>

-----------------------------------------------------------------------------
(* assign: the lanes beyond the requested number.                          *)

OffersDone ==
  /\ step = "list"
  /\ waiting = {}
  /\ waiting' = Lanes \ Requested
  /\ step' = "trim"
  /\ UNCHANGED <<poolVars, jobVars, usedVars, offerVars, mishapVars>>

Trim(l) ==
  /\ At("trim", l)
  /\ ClearLease(l)
  /\ step' = "release"
  /\ UNCHANGED <<qualified, selected, running, health, jobVars, usedVars, waiting, offerVars, mishapVars>>

\* Used up by what goes wrong.
Mishap == mishaps < MaxMishaps /\ mishaps' = mishaps + 1 /\ spoilt' = TRUE

\* After clear_lease the selector is put on REJECT; a call that fails is
\* reported, and the lane left as it is.
Release(l) ==
  /\ At("release", l)
  /\ \/ Select(l, Reject) /\ UNCHANGED mishapVars
     \/ UNCHANGED selected /\ Mishap
  /\ waiting' = waiting \ {l}
  /\ step' = IF l \in Requested THEN "list" ELSE "trim"
  /\ UNCHANGED <<leases, qualified, running, health, jobVars, usedVars, offerVars>>

-----------------------------------------------------------------------------
(* Returning.                                                              *)

\* What assign returns: the active leases among the requested lanes.
Assigned == {l \in Requested \cap LanesOf(job.target) : ~Degraded(l)}
Short    == Cardinality(Assigned) < job.lanes

Return ==
  /\ step = "trim"
  /\ waiting = {}
  /\ job.mode # "ensure" \/ again \/ ~Short
  /\ Forget
  /\ UNCHANGED <<poolVars, mishapVars>>

\* ensure_lanes got too few lanes: an inventory, and once more from the start.
NeedInventory ==
  /\ step = "trim"
  /\ waiting = {}
  /\ job.mode = "ensure" /\ ~again /\ Short
  /\ again' = TRUE
  /\ step' = "inventory"
  /\ UNCHANGED <<poolVars, job, existing, usedVars, waiting, offerVars, mishapVars>>

TakeInventory ==
  /\ step = "inventory"
  /\ running
  /\ qualified' = [qualified EXCEPT ![job.target] = {n \in Nodes : health[job.target][n] = "ok"}]
  /\ step' = "begin"
  /\ UNCHANGED <<leases, selected, running, health, jobVars, usedVars, waiting, offerVars, mishapVars>>

\* inventory raises, and so does ensure_lanes.
NoInventory ==
  /\ step = "inventory"
  /\ Forget
  /\ UNCHANGED <<poolVars, mishapVars>>

\* The process is killed between two steps.
AssignDies ==
  /\ step # "idle"
  /\ Mishap
  /\ Forget
  /\ UNCHANGED poolVars

-----------------------------------------------------------------------------

AssignStep ==
  \/ Begin
  \/ \E l \in Lanes :
       \/ Reselect(l) \/ Recheck(l) \/ ListOffers(l) \/ JudgeOffer(l) \/ LeaseOffer(l)
       \/ NoOffer(l) \/ Trim(l) \/ Release(l)
       \/ \E n \in Nodes : TryOffer(l, n)
  \/ KeepsDone \/ OffersDone
  \/ Return \/ NeedInventory \/ TakeInventory \/ NoInventory

AssignProcess == AssignStep \/ AssignDies \/ \E j \in Jobs : Call(j)

-----------------------------------------------------------------------------
(* The commands on a gateway that stays up, with the nodes and the reserve  *)
(* maintenance as their environment.                                       *)

\* Whatever earlier commands and processes left behind: leases of any target,
\* selectors on any node.
AnyPool ==
  /\ leases \in [Lanes -> {NoLease} \cup
                  [target : Targets, node : Nodes, failures : {0}]]
  /\ \A l, k \in Lanes :
       l # k /\ Leased(l) => <<leases[l].target, leases[l].node>> # <<leases[k].target, leases[k].node>>
  /\ selected \in [Lanes -> Nodes \cup {Reject}]
  /\ qualified = [t \in Targets |-> Nodes]
  /\ running = TRUE
  /\ health = [t \in Targets |-> [n \in Nodes |-> "ok"]]

AnyInit == AnyPool /\ AssignInit

\* A pool the gateway itself has set up: every lane is routed where it belongs.
RoutedInit == AnyInit /\ \A l \in Lanes : selected[l] = RouteOf(l)

AssignNext ==
  \/ AssignProcess
  \/ \E t \in AssignTargets, n \in Nodes :
       /\ \/ \E o \in NodeOutcomes : NodeChanges(t, n, o)
          \/ Expire(t, n)
          \/ ReserveProbe(t, n)
       /\ UNCHANGED assignVars

AssignSpec == AnyInit /\ [][AssignNext]_allVars
RoutedSpec == RoutedInit /\ [][AssignNext]_allVars

\* The process runs; nothing else is fair.
FairAssignSpec == AssignSpec /\ WF_allVars(AssignStep)

-----------------------------------------------------------------------------
(* Properties.                                                             *)

\* Every variable keeps its type.
AssignTypes == PoolTypeOK /\ AssignTypeOK

\* Whatever the selectors were, when assign returns every lane is routed to the
\* node it leases, and every lane without a lease is closed, unless a release
\* failed or the process was killed on the way.
RoutesRepaired ==
  step = "idle" /\ ~spoilt => \A l \in Lanes : selected[l] = RouteOf(l)

\* used_nodes keeps the lanes apart: the node a lane has newly got is that of no
\* kept lane, and of no other lane that has newly got one.  (It may still be
\* that of a lane that failed its check and is left where it was.)
Assigning   == step \notin {"idle", "begin", "inventory"}
NewlyGot(l) == leases[l].node # existing[l]
Settled     == {l \in Requested \cap LanesOf(job.target) : l \in kept \/ NewlyGot(l)}
NewNodesDistinct ==
  Assigning =>
    \A l, k \in Settled : l # k /\ NewlyGot(l) => leases[l].node # leases[k].node

\* "Never reassign a healthy lane merely because another lane fails": once a
\* lane has passed its check, assign touches neither its route nor its lease.
KeptLanesUntouched ==
  [][\A l \in kept :
       step # "idle" => selected'[l] = selected[l] /\ leases'[l] = leases[l]]_allVars

\* What makes NewNodesDistinct and KeptLanesUntouched inductive.

\* Each step has what it needs.
JobShape ==
  /\ step # "idle" => job \in Jobs
  /\ step = "idle" => kept = {}
  /\ step \in {"keep", "check"} => waiting \subseteq {l \in Requested : existing[l] \in Nodes}
  /\ step \in {"verify", "lease"} => offer \in Nodes

\* A kept lane is among the requested ones and never worked on again.
KeptApart == kept \subseteq Requested /\ kept \cap waiting = {}

\* While the lanes are checked, each has the lease assign read at first.
NothingMoved ==
  step \in {"keep", "check"} => \A l \in LanesOf(job.target) : ~NewlyGot(l)

\* used_nodes has the nodes of the kept lanes and of those that got one; what
\* is left to try and what is on the lane are none of them.
SettledUsed  == Assigning => \A l \in Settled : leases[l].node \in usedNodes
OffersUnused == step \in {"offer", "verify", "lease"} => offers \cap usedNodes = {}
OfferFree    ==
  step \in {"verify", "lease"} =>
    offer \in usedNodes /\ \A l \in Settled : leases[l].node # offer

\* The inductive invariant.
AssignInv ==
  /\ AssignTypes
  /\ JobShape
  /\ KeptApart
  /\ NothingMoved
  /\ SettledUsed
  /\ OffersUnused
  /\ OfferFree
  /\ NewNodesDistinct

\* What makes RoutesRepaired inductive: which lanes are done by now.
Routed(l)      == selected[l] = RouteOf(l)
HasExisting(l) == existing[l] # None => leases[l].node = existing[l]
Offering       == waiting \subseteq Requested /\ \A l \in Requested \ waiting : Routed(l)
Trimming       == waiting \cap Requested = {} /\ \A l \in Lanes \ waiting : Routed(l)
RoutesDone ==
  /\ step \in {"keep", "check"} => (\A l \in kept : Routed(l)) /\ \A l \in Lanes : HasExisting(l)
  /\ step \in {"list", "offer", "verify", "lease"} => Offering /\ \A l \in waiting : HasExisting(l)
  /\ step = "release" =>
       /\ (Offering /\ \A l \in waiting \ Lowest(waiting) : HasExisting(l)) \/ Trimming
       /\ \A l \in Lowest(waiting) : leases[l] = NoLease
  /\ step = "trim" => Trimming
  /\ step \in {"inventory", "idle"} => \A l \in Lanes : Routed(l)
  /\ step \in {"verify", "lease"} => \A l \in Lowest(waiting) : selected[l] = offer
RoutesInv == running /\ (~spoilt => RoutesDone)

\* However the nodes flap, assign and ensure_lanes come to an end, again and
\* again.
AssignEnds == []<>(step = "idle")

\* "When one lane has no verified replacement ... do not clear healthy lanes": a
\* search that finds nothing clears no lane another target holds and uses.
OthersLanesKept ==
  [][\A l \in Requested :
       leases[l].target \notin {None, job.target} /\ ~Degraded(l) => leases'[l] # NoLease]_allVars

=============================================================================
