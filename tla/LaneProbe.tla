------------------------------ MODULE LaneProbe ------------------------------
(***************************************************************************)
(* Probes of one lane: probe_target, detect_egress_ip, probe_selected_node *)
(* and probe_existing_lane (probe.py), and the two callers of the last,    *)
(* _verify_candidate_on_work_lane and _probe_lane_lease (controller.py).   *)
(*                                                                         *)
(* A probe looks at the selector of its lane once and then sends requests  *)
(* through its port for as long as they take, while other processes may    *)
(* select what they like.  What it finds is recorded about its node.       *)
(***************************************************************************)
EXTENDS Integers

CONSTANTS
  Probers,        \* processes, or threads of them
  Routes,         \* nodes that can be selected
  Closed,         \* REJECT
  NoRoute,        \* none
  MaxAttempts     \* target_probe_attempts

ASSUME RoutesAssumption   == Closed \notin Routes /\ NoRoute \notin Routes \cup {Closed}
ASSUME AttemptsAssumption == MaxAttempts \in Nat \ {0}   \* config.py checks it

VARIABLES
  reserveLane,    \* is it a lane for the probes of an inventory, or a work lane?
  now,            \* the selector of the lane
  stage,          \* prober -> where it is
  kind,           \* prober -> what it probes
  subject,        \* prober -> the node it probes
  attempts,       \* prober -> requests to the target so far
  answer,         \* prober -> the last of them
  okThrough,      \* prober -> the node a right answer came through
  ipOf,           \* prober -> the node whose address it found
  healthy,        \* prober -> what it recorded last
  rerouted        \* probers whose lane was switched after they had looked

probeVars == <<reserveLane, now, stage, kind, subject, attempts, answer,
               okThrough, ipOf, healthy, rerouted>>

ProbeTypes ==
  /\ reserveLane \in BOOLEAN /\ now \in Routes \cup {Closed}
  /\ stage \in [Probers -> {"idle", "select", "confirm", "target", "egress", "record"}]
  /\ kind \in [Probers -> {"reserve", "candidate", "lease"}]
  /\ subject \in [Probers -> Routes]
  /\ attempts \in [Probers -> 0 .. MaxAttempts]
  /\ answer \in [Probers -> {"none", "wrong", "right"}]
  /\ okThrough \in [Probers -> Routes \cup {NoRoute}]
  /\ ipOf \in [Probers -> Routes \cup {NoRoute}]
  /\ healthy \in [Probers -> BOOLEAN] /\ rerouted \in SUBSET Probers

ProbeInit ==
  /\ reserveLane \in BOOLEAN /\ now = Closed
  /\ stage = [p \in Probers |-> "idle"]
  /\ kind = [p \in Probers |-> "lease"]
  /\ subject \in [Probers -> Routes]
  /\ attempts = [p \in Probers |-> 0] /\ answer = [p \in Probers |-> "none"]
  /\ okThrough = [p \in Probers |-> NoRoute] /\ ipOf = [p \in Probers |-> NoRoute]
  /\ healthy = [p \in Probers |-> FALSE] /\ rerouted = {}

Advances(p, to) == stage' = [stage EXCEPT ![p] = to]

\* Someone selects a route: whoever has looked already is not told.
Switches(route) ==
  /\ now' = route
  /\ rerouted' = IF route = now THEN rerouted
                 ELSE rerouted \cup {p \in Probers : stage[p] \in {"target", "egress"}}

\* inventory.lock and one worker for each lane leave a lane of the inventory to
\* one prober; a work lane is checked and given candidates by whoever comes.
ProbeBegins(p) ==
  /\ stage[p] = "idle"
  /\ reserveLane => \A q \in Probers : stage[q] = "idle"
  /\ \E k \in IF reserveLane THEN {"reserve"} ELSE {"candidate", "lease"} :
       /\ kind' = [kind EXCEPT ![p] = k]
       /\ Advances(p, IF k = "lease" THEN "confirm" ELSE "select")
  /\ \E node \in Routes : subject' = [subject EXCEPT ![p] = node]
  /\ attempts' = [attempts EXCEPT ![p] = 0] /\ answer' = [answer EXCEPT ![p] = "none"]
  /\ okThrough' = [okThrough EXCEPT ![p] = NoRoute] /\ ipOf' = [ipOf EXCEPT ![p] = NoRoute]
  /\ healthy' = [healthy EXCEPT ![p] = FALSE]
  /\ rerouted' = rerouted \ {p}
  /\ UNCHANGED <<reserveLane, now>>

\* Then settle_seconds pass.
SelectsNode(p) ==
  /\ stage[p] = "select"
  /\ Switches(subject[p]) /\ Advances(p, "confirm")
  /\ UNCHANGED <<reserveLane, kind, subject, attempts, answer, okThrough, ipOf, healthy>>

\* Mutant: what is selected is not looked at.
ConfirmsBlindly(p) ==
  /\ stage[p] = "confirm" /\ Advances(p, "target")
  /\ UNCHANGED <<reserveLane, now, kind, subject, attempts, answer, okThrough, ipOf, healthy, rerouted>>

\* Another route is an error, and the last look at the selector.
ConfirmsNode(p) ==
  /\ stage[p] = "confirm"
  /\ Advances(p, IF now = subject[p] THEN "target" ELSE "record")
  /\ UNCHANGED <<reserveLane, now, kind, subject, attempts, answer, okThrough, ipOf, healthy, rerouted>>

\* A call of the API fails.
CallRaises(p) ==
  /\ stage[p] \in {"select", "confirm"} /\ Advances(p, "record")
  /\ UNCHANGED <<reserveLane, now, kind, subject, attempts, answer, okThrough, ipOf, healthy, rerouted>>

\* No answer, or a 5xx, is asked for again.
Retries(p, said) == said = "none" /\ attempts[p] + 1 < MaxAttempts

\* One turn of the loop of probe_target.  A closed lane gives no answer.
AsksTarget(p) ==
  /\ stage[p] = "target"
  /\ \E said \in IF now = Closed THEN {"none"} ELSE {"none", "wrong", "right"} :
       /\ answer' = [answer EXCEPT ![p] = said]
       /\ attempts' = [attempts EXCEPT ![p] = @ + 1]
       /\ okThrough' = IF said = "right" THEN [okThrough EXCEPT ![p] = now] ELSE okThrough
       /\ Advances(p, IF Retries(p, said) THEN "target"
                      ELSE IF said # "right" /\ kind[p] = "reserve" THEN "record" ELSE "egress")
  /\ UNCHANGED <<reserveLane, now, kind, subject, ipOf, healthy, rerouted>>

\* detect_egress_ip: the first service that tells an address, or none.
AsksAddress(p) ==
  /\ stage[p] = "egress" /\ Advances(p, "record")
  /\ ipOf' \in {ipOf} \cup {[ipOf EXCEPT ![p] = n] : n \in {now} \ {Closed}}
  /\ UNCHANGED <<reserveLane, now, kind, subject, attempts, answer, okThrough, healthy, rerouted>>

\* record_probe, of the outcome for the target.
RecordsOutcome(p) ==
  /\ stage[p] = "record" /\ Advances(p, "idle")
  /\ healthy' = [healthy EXCEPT ![p] = answer[p] = "right"]
  /\ UNCHANGED <<reserveLane, now, kind, subject, attempts, answer, okThrough, ipOf, rerouted>>

ProberKilled(p) ==
  /\ stage[p] # "idle" /\ Advances(p, "idle")
  /\ UNCHANGED <<reserveLane, now, kind, subject, attempts, answer, okThrough, ipOf, healthy, rerouted>>

\* Another process restores, releases or assigns a work lane.  Any lane is closed
\* when the gateway is started again, and one of the inventory at its end.
OthersSwitch ==
  /\ \E route \in (IF reserveLane THEN {} ELSE Routes) \cup {Closed} : Switches(route)
  /\ UNCHANGED <<reserveLane, stage, kind, subject, attempts, answer, okThrough, ipOf, healthy>>

ProbeNext ==
  \/ OthersSwitch
  \/ \E p \in Probers :
       \/ ProbeBegins(p) \/ SelectsNode(p) \/ ConfirmsNode(p) \/ CallRaises(p)
       \/ AsksTarget(p) \/ AsksAddress(p) \/ RecordsOutcome(p) \/ ProberKilled(p)

ProbeSpec == ProbeInit /\ [][ProbeNext]_probeVars

-----------------------------------------------------------------------------
(***************************************************************************)
(* Properties.                                                             *)
(***************************************************************************)

\* What is recorded about a node was found through that node: a right answer and
\* the address always in an inventory, although the gateway may be started again
\* at any moment, and on a work lane unless it was switched during the probe.  And
\* on a lane that stayed, a bad verdict after the target was asked took a wrong
\* answer or all the attempts.
VerdictOfSubject ==
  \A p \in Probers :
    reserveLane \/ p \notin rerouted =>
      /\ okThrough[p] \in {subject[p], NoRoute} /\ ipOf[p] \in {subject[p], NoRoute}
      /\ healthy[p] => okThrough[p] = subject[p]
      /\ stage[p] = "egress" /\ answer[p] # "right" => answer[p] = "wrong" \/ attempts[p] = MaxAttempts

\* Also on a work lane that was switched the right answer and the address are of
\* one node: no, the address is asked for without a second look at the selector.
OneNodeInRow == \A p \in Probers : healthy[p] /\ ipOf[p] # NoRoute => okThrough[p] = ipOf[p]

\* Requests are still to be made, and the lane has been looked at.
Asking(p) == stage[p] \in {"target", "egress"}
\* The target has not answered well, or for good.
Open(p)   == stage[p] \in {"select", "confirm", "target"}

\* Inductive: a lane of an inventory has one prober, and after its look its node
\* or nothing is selected.
ProbeInv ==
  /\ ProbeTypes /\ VerdictOfSubject
  /\ \A p \in Probers :
       /\ Asking(p) /\ p \notin rerouted => now = subject[p]
       /\ Asking(p) /\ reserveLane => now \in {subject[p], Closed}
       /\ Open(p) => answer[p] # "right" /\ attempts[p] < MaxAttempts
       /\ stage[p] # "idle" => ~healthy[p]
       /\ answer[p] = "right" => okThrough[p] # NoRoute
       /\ reserveLane /\ stage[p] # "idle" => \A q \in Probers \ {p} : stage[q] = "idle"

=============================================================================
