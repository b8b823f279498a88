---------------------------- MODULE MCSupervision ----------------------------
(***************************************************************************)
(* For TLC: the maintenance service and the NSFC supervisor share no       *)
(* state, so each is checked as the only one that moves.                   *)
(***************************************************************************)
EXTENDS ReserveService, NsfcSupervisor

VARIABLE moving

superVars == <<serviceVars, nsfcVars, moving>>

SuperInit ==
  /\ moving \in {"service", "nsfc"}
  /\ ServiceInit /\ (moving # "service" => pidFile = NoPid /\ gateway = "down")
  /\ NsfcInit

SuperNext ==
  /\ UNCHANGED moving
  /\ \/ moving = "service" /\ ServiceNext /\ UNCHANGED nsfcVars
     \/ moving = "nsfc"    /\ NsfcNext    /\ UNCHANGED serviceVars

\* Who rests has no fair action enabled.
SuperSpec ==
  /\ SuperInit /\ [][SuperNext]_superVars
  /\ ServiceFairness /\ NsfcFairness

=============================================================================
