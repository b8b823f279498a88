------------------------------ MODULE MCProxies ------------------------------
(***************************************************************************)
(* For TLC: the two backends, of which a configuration chooses one, the    *)
(* names of the nodes they are given, and the probes of a lane.  They      *)
(* share no state, so each is checked as the only one that moves.          *)
(***************************************************************************)
EXTENDS MihomoProcess, XrayLane, UniqueNames, LaneProbe, TLC

VARIABLE moving

proxiesVars == <<processVars, laneVars, namesVars, probeVars, moving>>

NamesRest == given = [s \in SourceIds |-> <<>>]
ProbeRest == ~reserveLane /\ subject = [p \in Probers |-> CHOOSE r \in Routes : TRUE]

ProxiesInit ==
  /\ moving \in {"mihomo", "xray", "names", "probes"}
  /\ ProcessInit /\ (moving # "mihomo" => pidFile = NoPid)
  /\ LaneInit
  /\ NamesInit /\ (moving # "names" => NamesRest)
  /\ ProbeInit /\ (moving # "probes" => ProbeRest)

ProxiesNext ==
  /\ UNCHANGED moving
  /\ \/ moving = "mihomo" /\ ProcessNext /\ UNCHANGED <<laneVars, namesVars, probeVars>>
     \/ moving = "xray"   /\ LaneNext    /\ UNCHANGED <<processVars, namesVars, probeVars>>
     \/ moving = "names"  /\ NamesNext   /\ UNCHANGED <<processVars, laneVars, probeVars>>
     \/ moving = "probes" /\ ProbeNext   /\ UNCHANGED <<processVars, laneVars, namesVars>>

ProxiesSpec == ProxiesInit /\ [][ProxiesNext]_proxiesVars

Symmetries == Permutations(Keepers) \cup Permutations(Users)

=============================================================================
