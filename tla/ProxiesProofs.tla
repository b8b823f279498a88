---------------------------- MODULE ProxiesProofs ---------------------------
(***************************************************************************)
(* Proofs about the two backends and the nodes they are given: first       *)
(* XrayLane, for every set of users, servers and nodes, then the names of  *)
(* UniqueNames, then MihomoProcess, for every set of keepers and cores and *)
(* any number of kills.                                                    *)
(***************************************************************************)
EXTENDS MihomoProcess, XrayLane, UniqueNames, FiniteSetTheorems, TLAPS

-----------------------------------------------------------------------------
(***************************************************************************)
(* One Xray lane.                                                          *)
(***************************************************************************)

LEMMA InitLaneInv == LaneInit => LaneInv
  <1> SUFFICES ASSUME LaneInit PROVE LaneInv
    OBVIOUS
  <1>1. LaneTypes
    <2>1. userMishaps \in 0 .. MaxUserMishaps
      BY LaneBoundsAssumption DEF LaneInit
    <2> QED
      BY <2>1 DEF LaneInit, LaneTypes
  <1>2. InTurn
    BY DEF LaneInit, InTurn, Busy, KnowsLane, Up
  <1> QED
    BY <1>1, <1>2 DEF LaneInv

LEMMA MishapsInv ==
  ASSUME userMishaps \in 0 .. MaxUserMishaps, UserMishap \/ UNCHANGED userMishaps
  PROVE  userMishaps' \in 0 .. MaxUserMishaps
  BY LaneBoundsAssumption DEF UserMishap

LEMMA UserBeginsInv ==
  ASSUME LaneInv, NEW u \in Users, UserBegins(u)
  PROVE  LaneInv'
  <1> USE DEF UserBegins, UserGoes, serverVars, fileVars
  <1>0. LaneTypes /\ (~overlapped /\ ~blind => InTurn)
    BY DEF LaneInv
  <1>1. LaneTypes'
    BY <1>0 DEF LaneTypes
  <1>2. ASSUME ~overlapped', ~blind' PROVE InTurn'
    <2>1. InTurn /\ \A o \in Users : ~Busy(o)
      BY <1>0, <1>2 DEF LaneTypes
    <2>2. at'[u] = "scan" /\ \A o \in Users \ {u} : at'[o] = at[o]
      BY <1>0, <2>1 DEF LaneTypes
    <2> QED
      BY <2>1, <2>2 DEF InTurn, Busy, KnowsLane, Up
  <1> QED
    BY <1>1, <1>2 DEF LaneInv

LEMMA StopsInv ==
  ASSUME LaneInv, NEW u \in Users, Scans(u) \/ Terminates(u) \/ Clears(u) \/ Unmarks(u)
  PROVE  LaneInv'
  <1> USE DEF Scans, Terminates, Clears, Unmarks, UserGoes, Returns, StopsAndRaises, serverVars, fileVars, userVars
  <1>0. LaneTypes /\ (~overlapped /\ ~blind => InTurn)
    BY DEF LaneInv
  <1>1. LaneTypes'
    <2>0. CASE Scans(u)
      <3>1. userMishaps' \in 0 .. MaxUserMishaps
        BY <1>0, <2>0, MishapsInv DEF LaneTypes
      <3>2. \E found \in SUBSET Servers : victims' = [victims EXCEPT ![u] = found]
        BY <2>0 DEF Up
      <3>3. blind' \in BOOLEAN
        BY <1>0, <2>0 DEF LaneTypes
      <3>4. at' = [at EXCEPT ![u] = "term"] /\ UNCHANGED <<serverVars, fileVars, marker, want, mine, overlapped>>
        BY <2>0
      <3> HIDE DEF Scans, UserGoes
      <3> QED
        BY <1>0, <3>1, <3>2, <3>3, <3>4 DEF LaneTypes
    <2>1. CASE Clears(u)
      BY <1>0, <2>1 DEF LaneTypes
    <2>2. CASE Terminates(u)
      BY <1>0, <2>2 DEF LaneTypes
    <2>3. CASE Unmarks(u)
      BY <1>0, <2>3 DEF LaneTypes
    <2> QED
      BY <2>0, <2>1, <2>2, <2>3
  <1>2. ASSUME ~overlapped', ~blind' PROVE InTurn'
    <2>1. ~overlapped /\ ~blind /\ InTurn
      BY <1>0, <1>2 DEF LaneTypes
    <2>2. KnowsLane(u) /\ Busy(u) /\ \A o \in Users \ {u} : ~Busy(o) /\ at'[o] = at[o]
      BY <1>0, <2>1 DEF InTurn, Busy, LaneTypes
    <2>3. KnowsLane(u)'
      <3>1. CASE Scans(u)
        <4>1. victims' = [victims EXCEPT ![u] = Up] /\ at' = [at EXCEPT ![u] = "term"] /\ Up' = Up
          BY <1>2, <3>1 DEF Up
        <4> QED
          BY <1>0, <4>1 DEF KnowsLane, LaneTypes
      <3>2. CASE Terminates(u) \/ Clears(u) \/ Unmarks(u)
        BY <1>0, <2>1, <2>2, <3>2 DEF KnowsLane, LaneTypes, Up, InTurn
      <3> QED
        BY <3>1, <3>2
    <2>4. \A s, t \in Up' : s = t
      BY <1>0, <2>1, <2>2 DEF KnowsLane, LaneTypes, Up, InTurn
    <2>5. \A s \in Up' : xrayPid' = s /\ selected' # Nothing => via'[s] = selected'
      BY <1>0, <2>1, <2>2 DEF KnowsLane, LaneTypes, Up, InTurn
    <2> QED
      BY <2>2, <2>3, <2>4, <2>5 DEF InTurn, Busy, KnowsLane
  <1> QED
    BY <1>1, <1>2 DEF LaneInv

LEMMA ConfiguresInv ==
  ASSUME LaneInv, NEW u \in Users, WritesConfig(u) \/ TestsConfig(u)
  PROVE  LaneInv'
  <1> USE DEF WritesConfig, TestsConfig, Busy, UserGoes, Returns, StopsAndRaises, serverVars, fileVars, userVars
  <1>0. LaneTypes /\ (~overlapped /\ ~blind => InTurn)
    BY DEF LaneInv
  <1>1. LaneTypes'
    BY <1>0, LaneNodesAssumption DEF LaneTypes
  <1>2. ASSUME ~overlapped', ~blind' PROVE InTurn'
    <2>1. ~overlapped /\ ~blind /\ InTurn
      BY <1>0, <1>2 DEF LaneTypes
    <2>2. KnowsLane(u) /\ Busy(u) /\ \A o \in Users \ {u} : ~Busy(o) /\ at'[o] = at[o]
      BY <1>0, <2>1 DEF InTurn, Busy, LaneTypes
    <2>3. KnowsLane(u)'
      BY <1>0, <2>1, <2>2 DEF KnowsLane, LaneTypes, Up, InTurn
    <2>4. \A s, t \in Up' : s = t
      BY <1>0, <2>1, <2>2 DEF KnowsLane, LaneTypes, Up, InTurn
    <2>5. \A s \in Up' : xrayPid' = s /\ selected' # Nothing => via'[s] = selected'
      BY <1>0, <2>1, <2>2 DEF KnowsLane, LaneTypes, Up, InTurn
    <2> QED
      BY <2>2, <2>3, <2>4, <2>5 DEF InTurn, Busy, KnowsLane
  <1> QED
    BY <1>1, <1>2 DEF LaneInv

LEMMA StartsServerInv ==
  ASSUME LaneInv, NEW u \in Users, StartsServer(u)
  PROVE  LaneInv'
  <1> USE DEF StartsServer, UserGoes, Returns, StopsAndRaises, serverVars, fileVars, userVars
  <1>0. LaneTypes /\ (~overlapped /\ ~blind => InTurn)
    BY DEF LaneInv
  <1>1. LaneTypes'
    BY <1>0, LaneNodesAssumption DEF LaneTypes
  <1>2. ASSUME ~overlapped', ~blind' PROVE InTurn'
    <2>1. ~overlapped /\ ~blind /\ InTurn
      BY <1>0, <1>2 DEF LaneTypes
    <2>2. KnowsLane(u) /\ Busy(u) /\ \A o \in Users \ {u} : ~Busy(o) /\ at'[o] = at[o]
      BY <1>0, <2>1 DEF InTurn, Busy, LaneTypes
    <2>3. KnowsLane(u)'
      BY <1>0, <2>1, <2>2 DEF KnowsLane, LaneTypes, Up, InTurn
    <2>4. \A s, t \in Up' : s = t
      BY <1>0, <2>1, <2>2 DEF KnowsLane, LaneTypes, Up, InTurn
    <2>5. \A s \in Up' : xrayPid' = s /\ selected' # Nothing => via'[s] = selected'
      BY <1>0, <2>1, <2>2 DEF KnowsLane, LaneTypes, Up, InTurn
    <2> QED
      BY <2>2, <2>3, <2>4, <2>5 DEF InTurn, Busy, KnowsLane
  <1> QED
    BY <1>1, <1>2 DEF LaneInv

LEMMA NamesInv ==
  ASSUME LaneInv, NEW u \in Users, NamesServer(u) \/ AwaitsPort(u)
  PROVE  LaneInv'
  <1> USE DEF NamesServer, AwaitsPort, UserGoes, Returns, StopsAndRaises, serverVars, fileVars, userVars
  <1>0. LaneTypes /\ (~overlapped /\ ~blind => InTurn)
    BY DEF LaneInv
  <1>1. LaneTypes'
    BY <1>0, LaneNodesAssumption DEF LaneTypes, Up
  <1>2. ASSUME ~overlapped', ~blind' PROVE InTurn'
    <2>1. ~overlapped /\ ~blind /\ InTurn
      BY <1>0, <1>2 DEF LaneTypes
    <2>2. KnowsLane(u) /\ Busy(u) /\ \A o \in Users \ {u} : ~Busy(o) /\ at'[o] = at[o]
      BY <1>0, <2>1 DEF InTurn, Busy, LaneTypes
    <2>3. KnowsLane(u)'
      BY <1>0, <2>1, <2>2 DEF KnowsLane, LaneTypes, Up, InTurn
    <2>4. \A s, t \in Up' : s = t
      BY <1>0, <2>1, <2>2 DEF KnowsLane, LaneTypes, Up, InTurn
    <2>5. \A s \in Up' : xrayPid' = s /\ selected' # Nothing => via'[s] = selected'
      BY <1>0, <2>1, <2>2 DEF KnowsLane, LaneTypes, Up, InTurn
    <2> QED
      BY <2>2, <2>3, <2>4, <2>5 DEF InTurn, Busy, KnowsLane
  <1> QED
    BY <1>1, <1>2 DEF LaneInv

LEMMA CompletesInv ==
  ASSUME LaneInv, NEW u \in Users, LooksForDuplicates(u) \/ Selects(u)
  PROVE  LaneInv'
  <1> USE DEF LooksForDuplicates, Selects, UserGoes, Returns, StopsAndRaises, serverVars, fileVars, userVars
  <1>0. LaneTypes /\ (~overlapped /\ ~blind => InTurn)
    BY DEF LaneInv
  <1>1. LaneTypes'
    <2>1. userMishaps' \in 0 .. MaxUserMishaps
      BY <1>0, MishapsInv DEF LaneTypes
    <2> QED
      BY <1>0, <2>1, LaneNodesAssumption DEF LaneTypes
  <1>2. ASSUME ~overlapped', ~blind' PROVE InTurn'
    <2>1. ~overlapped /\ ~blind /\ InTurn
      BY <1>0, <1>2 DEF LaneTypes
    <2>2. KnowsLane(u) /\ Busy(u) /\ \A o \in Users \ {u} : ~Busy(o) /\ at'[o] = at[o]
      BY <1>0, <2>1 DEF InTurn, Busy, LaneTypes
    <2>3. KnowsLane(u)'
      BY <1>0, <2>1, <2>2 DEF KnowsLane, LaneTypes, Up, InTurn
    <2>4. \A s, t \in Up' : s = t
      BY <1>0, <2>1, <2>2 DEF KnowsLane, LaneTypes, Up, InTurn
    <2>5. \A s \in Up' : xrayPid' = s /\ selected' # Nothing => via'[s] = selected'
      BY <1>0, <2>1, <2>2 DEF KnowsLane, LaneTypes, Up, InTurn
    <2> QED
      BY <2>2, <2>3, <2>4, <2>5 DEF InTurn, Busy, KnowsLane
  <1> QED
    BY <1>1, <1>2 DEF LaneInv

LEMMA UserKilledInv ==
  ASSUME LaneInv, NEW u \in Users, UserKilled(u)
  PROVE  LaneInv'
  <1> USE DEF UserKilled, UserGoes, Returns, serverVars, fileVars
  <1>0. LaneTypes /\ (~overlapped /\ ~blind => InTurn)
    BY DEF LaneInv
  <1>1. LaneTypes'
    <2>1. userMishaps' \in 0 .. MaxUserMishaps
      BY <1>0, MishapsInv DEF LaneTypes
    <2> QED
      BY <1>0, <2>1 DEF LaneTypes
  <1>2. ASSUME ~overlapped', ~blind' PROVE InTurn'
    <2>1. InTurn
      BY <1>0, <1>2
    <2>2. at'[u] = "idle" /\ \A o \in Users \ {u} : at'[o] = at[o]
      BY <1>0 DEF LaneTypes
    <2> QED
      BY <2>1, <2>2 DEF InTurn, Busy, KnowsLane, Up
  <1> QED
    BY <1>1, <1>2 DEF LaneInv

LEMMA ServersInv ==
  ASSUME LaneInv, (\E s \in Servers : Opens(s) \/ ServerExits(s)) \/ Marks
  PROVE  LaneInv'
  <1> USE DEF Opens, ServerExits, Marks, serverVars, fileVars, userVars
  <1>0. LaneTypes /\ (~overlapped /\ ~blind => InTurn)
    BY DEF LaneInv
  <1>1. LaneTypes'
    <2>1. server' \in [Servers -> {"off", "boot", "open"}]
      BY <1>0 DEF LaneTypes
    <2>2. via' \in [Servers -> Exits \cup {Nothing}] /\ marker' \in BOOLEAN
      BY <1>0 DEF LaneTypes
    <2>3. UNCHANGED <<config, xrayPid, selected, at, want, mine, victims, overlapped, blind, userMishaps>>
      OBVIOUS
    <2> QED
      BY <1>0, <2>1, <2>2, <2>3 DEF LaneTypes
  <1>2. Up' \subseteq Up /\ \A s \in Up' : via'[s] = via[s]
    BY <1>0 DEF LaneTypes, Up
  <1>3. ASSUME ~overlapped', ~blind' PROVE InTurn'
    <2>1. InTurn /\ UNCHANGED <<config, xrayPid, selected, at, want, mine, victims>>
      BY <1>0, <1>3
    <2>2. \A u \in Users : KnowsLane(u)'
      BY <1>2, <2>1 DEF InTurn, Busy, KnowsLane
    <2> QED
      BY <1>2, <2>1, <2>2 DEF InTurn, Busy
  <1> QED
    BY <1>1, <1>3 DEF LaneInv

LEMMA LooksInv ==
  ASSUME LaneInv, NEW u \in Users, ReadsLanePid(u) \/ ChecksLanePid(u)
  PROVE  LaneInv'
  <1> USE DEF ReadsLanePid, ChecksLanePid, UserGoes, Returns, serverVars, fileVars
  <1>0. LaneTypes /\ (~overlapped /\ ~blind => InTurn)
    BY DEF LaneInv
  <1>1. LaneTypes'
    <2>1. userMishaps' \in 0 .. MaxUserMishaps
      BY <1>0, MishapsInv DEF LaneTypes
    <2> QED
      BY <1>0, <2>1 DEF LaneTypes
  <1>2. ASSUME ~overlapped', ~blind' PROVE InTurn'
    <2>1. InTurn /\ ~Busy(u) /\ at'[u] \in {"idle", "look"} /\ xrayPid' \in {xrayPid, Nothing}
      BY <1>0, <1>2 DEF Busy, LaneTypes
    <2>2. \A o \in Users \ {u} : at'[o] = at[o] /\ mine'[o] = mine[o] /\ want'[o] = want[o]
                                /\ victims'[o] = victims[o]
      BY <1>0 DEF LaneTypes
    <2>3. Up' = Up /\ UNCHANGED <<via, config, selected>> /\ Nothing \notin Up
      BY LaneNodesAssumption DEF Up
    <2>4. \A o \in Users : KnowsLane(o)'
      BY <2>1, <2>2, <2>3 DEF InTurn, KnowsLane
    <2>5. \A a, o \in Users : Busy(a)' /\ Busy(o)' => a = o
      BY <2>1, <2>2 DEF InTurn, Busy
    <2> QED
      BY <2>1, <2>3, <2>4, <2>5 DEF InTurn
  <1> QED
    BY <1>1, <1>2 DEF LaneInv

LEMMA NextLaneInv == LaneInv /\ [LaneNext]_laneVars => LaneInv'
  <1> SUFFICES ASSUME LaneInv, [LaneNext]_laneVars PROVE LaneInv'
    OBVIOUS
  <1>1. ASSUME NEW u \in Users, UserBegins(u) \/ ReadsLanePid(u) \/ UserMoves(u) \/ UserKilled(u)
        PROVE  LaneInv'
    BY <1>1, UserBeginsInv, StopsInv, ConfiguresInv, StartsServerInv, NamesInv, CompletesInv,
       UserKilledInv, LooksInv DEF UserMoves
  <1>2. CASE UNCHANGED laneVars
    BY <1>2 DEF laneVars, serverVars, fileVars, userVars, LaneInv, LaneTypes, InTurn, Busy, KnowsLane, Up
  <1> QED
    BY <1>1, <1>2, ServersInv DEF LaneNext

\* The inductive invariant of a lane holds in every state.
THEOREM LaneInvHolds == LaneSpec => []LaneInv
  BY InitLaneInv, NextLaneInv, PTL DEF LaneSpec

\* As long as users take turns and ps answers in stop_lane, and whatever they and
\* the servers die of, a lane that tells a node goes through that node.
THEOREM TurnsTellTruthHolds == LaneSpec => []TurnsTellTruth
  <1>1. LaneInv => TurnsTellTruth
    BY DEF LaneInv, InTurn, TurnsTellTruth, SelectedNode
  <1> QED
    BY <1>1, LaneInvHolds, PTL

LEMMA InitPairsAreSeen == LaneInit => PairsAreSeen
  BY DEF LaneInit, PairsAreSeen, Up

\* Only StartsServer adds to what is up, and it is the user's who starts it.
LEMMA NextPairsAreSeen ==
  ASSUME LaneInv, PairsAreSeen, [LaneNext]_laneVars
  PROVE  PairsAreSeen'
  <1> SUFFICES ASSUME userMishaps' = 0, NEW s \in Up', NEW t \in Up', s # t
               PROVE  SomebodySees(s, t)'
    BY DEF PairsAreSeen
  <1> USE DEF UserGoes, Returns, StopsAndRaises, serverVars, fileVars, userVars
  <1>0. LaneTypes
    BY DEF LaneInv
  <1>1. ~UserMishap
    BY <1>0, LaneBoundsAssumption DEF UserMishap, LaneTypes
  <1>2. ASSUME NEW u \in Users, StartsServer(u)
        PROVE  SomebodySees(s, t)'
    <2>1. PICK x \in Servers :
            /\ server[x] = "off" /\ server' = [server EXCEPT ![x] = "boot"]
            /\ mine' = [o \in Users |-> IF o = u THEN x ELSE IF mine[o] = x THEN Stale ELSE mine[o]]
            /\ victims' = [o \in Users |-> victims[o] \ {x}]
      BY <1>2 DEF StartsServer
    <2>2. at[u] = "spawn" /\ at' = [at EXCEPT ![u] = "pid"] /\ userMishaps' = userMishaps
      BY <1>2 DEF StartsServer
    <2>3. CASE x \in {s, t}
      BY <1>0, <2>1, <2>2, <2>3 DEF SomebodySees, LaneTypes
    <2>4. CASE x \notin {s, t}
      <3>1. s \in Up /\ t \in Up
        BY <1>0, <2>1, <2>4 DEF Up, LaneTypes
      <3>2. PICK o \in Users : \/ at[o] \in {"pid", "await", "dups"} /\ mine[o] \in {s, t}
                               \/ at[o] = "scan"
                               \/ at[o] = "term" /\ {s, t} \cap victims[o] # {}
        BY <2>2, <3>1 DEF PairsAreSeen, SomebodySees
      <3>3. o # u /\ at'[o] = at[o]
        BY <1>0, <2>2, <3>2 DEF LaneTypes
      <3>4. mine[o] \in {s, t} => mine'[o] = mine[o]
        BY <2>1, <2>4, <3>3
      <3>5. {s, t} \cap victims[o] = {s, t} \cap victims'[o]
        BY <2>1, <2>4
      <3> QED
        BY <3>2, <3>3, <3>4, <3>5 DEF SomebodySees
    <2> QED
      BY <2>3, <2>4
  <1>3. ASSUME UNCHANGED userMishaps, Up' \subseteq Up
        PROVE  \E o \in Users : \/ at[o] \in {"pid", "await", "dups"} /\ mine[o] \in {s, t}
                                \/ at[o] = "scan"
                                \/ at[o] = "term" /\ {s, t} \cap victims[o] # {}
    BY <1>3 DEF PairsAreSeen, SomebodySees
  <1>4. ASSUME NEW u \in Users, UserBegins(u) \/ ReadsLanePid(u) \/ ChecksLanePid(u)
        PROVE  SomebodySees(s, t)'
    <2>1. UNCHANGED userMishaps /\ Up' = Up /\ at[u] \in {"idle", "look"}
      BY <1>1, <1>4 DEF UserBegins, ReadsLanePid, ChecksLanePid, Up
    <2>2. \A o \in Users \ {u} : at'[o] = at[o] /\ mine'[o] = mine[o] /\ victims'[o] = victims[o]
      BY <1>0, <1>4 DEF UserBegins, ReadsLanePid, ChecksLanePid, LaneTypes
    <2> QED
      BY <1>3, <2>1, <2>2 DEF SomebodySees
  <1>5. ASSUME NEW u \in Users, Scans(u)
        PROVE  SomebodySees(s, t)'
    <2>1. at'[u] = "term" /\ victims'[u] = Up /\ s \in Up
      BY <1>0, <1>1, <1>5 DEF Scans, Up, LaneTypes
    <2> QED
      BY <2>1 DEF SomebodySees
  <1>6. ASSUME NEW u \in Users, Terminates(u)
        PROVE  SomebodySees(s, t)'
    <2>1. UNCHANGED userMishaps /\ Up' \subseteq Up /\ {s, t} \cap victims[u] = {} /\ at[u] = "term"
      BY <1>0, <1>6 DEF Terminates, Up, LaneTypes
    <2>2. \A o \in Users \ {u} : at'[o] = at[o] /\ mine'[o] = mine[o] /\ victims'[o] = victims[o]
      BY <1>0, <1>6 DEF Terminates, LaneTypes
    <2> QED
      BY <1>3, <2>1, <2>2 DEF SomebodySees
  <1>7. ASSUME NEW u \in Users, Clears(u) \/ Unmarks(u) \/ WritesConfig(u) \/ TestsConfig(u) \/ Selects(u)
        PROVE  SomebodySees(s, t)'
    <2>1. UNCHANGED userMishaps /\ Up' = Up /\ at[u] \in {"clear", "unmark", "config", "test", "select"}
      BY <1>7 DEF Clears, Unmarks, WritesConfig, TestsConfig, Selects, Up
    <2>2. \A o \in Users \ {u} : at'[o] = at[o] /\ mine'[o] = mine[o] /\ victims'[o] = victims[o]
      BY <1>0, <1>7 DEF Clears, Unmarks, WritesConfig, TestsConfig, Selects, LaneTypes
    <2> QED
      BY <1>3, <2>1, <2>2 DEF SomebodySees
  <1>8. ASSUME NEW u \in Users, NamesServer(u) \/ AwaitsPort(u) \/ LooksForDuplicates(u)
        PROVE  SomebodySees(s, t)'
    <2>1. UNCHANGED userMishaps /\ Up' = Up /\ at[u] \in {"pid", "await", "dups"}
      BY <1>1, <1>8 DEF NamesServer, AwaitsPort, LooksForDuplicates, Up
    <2>2. \A o \in Users \ {u} : at'[o] = at[o] /\ mine'[o] = mine[o] /\ victims'[o] = victims[o]
      BY <1>0, <1>8 DEF NamesServer, AwaitsPort, LooksForDuplicates, LaneTypes
    <2>3. mine[u] \in {s, t} => \/ at'[u] \in {"await", "dups"} /\ mine'[u] = mine[u]
                                \/ at'[u] = "scan"
      BY <1>0, <1>1, <1>8, <2>1 DEF NamesServer, AwaitsPort, LooksForDuplicates, LaneTypes
    <2> QED
      BY <1>3, <2>1, <2>2, <2>3 DEF SomebodySees
  <1>9. ASSUME (\E x \in Servers : Opens(x) \/ ServerExits(x)) \/ Marks \/ UNCHANGED laneVars
        PROVE  SomebodySees(s, t)'
    <2>1. UNCHANGED <<userVars, userMishaps>> /\ Up' \subseteq Up
      BY <1>0, <1>9 DEF Opens, ServerExits, Marks, laneVars, Up, LaneTypes
    <2> QED
      BY <1>3, <2>1 DEF SomebodySees
  <1> QED
    BY <1>1, <1>2, <1>4, <1>5, <1>6, <1>7, <1>8, <1>9 DEF LaneNext, UserMoves, UserKilled

\* When everybody has returned, nobody was killed and ps never failed, nobody sees
\* two servers, so there are none; and users who take turns have one at most at
\* every step, as long as no stop_lane was blind.
THEOREM AtMostOneServerHolds == LaneSpec => []AtMostOneServer
  <1>1. LaneInv /\ PairsAreSeen => AtMostOneServer
    <2> SUFFICES ASSUME LaneInv, PairsAreSeen, (Quiet /\ userMishaps = 0) \/ ~(overlapped \/ blind)
                 PROVE  Cardinality(Up) <= 1
      BY DEF AtMostOneServer
    <2>1. \A s, t \in Up : s = t
      BY DEF LaneInv, InTurn, PairsAreSeen, SomebodySees, Quiet
    <2>2. Up = {} \/ \E s \in Up : Up = {s}
      BY <2>1
    <2>3. ASSUME NEW s PROVE Cardinality({s}) = 1
      BY FS_Singleton
    <2>4. Cardinality({}) = 0
      BY FS_EmptySet
    <2> QED
      BY <2>2, <2>3, <2>4
  <1>2. LaneInit => LaneInv /\ PairsAreSeen
    BY InitLaneInv, InitPairsAreSeen
  <1>3. LaneInv /\ PairsAreSeen /\ [LaneNext]_laneVars => LaneInv' /\ PairsAreSeen'
    BY NextLaneInv, NextPairsAreSeen
  <1> QED
    BY <1>1, <1>2, <1>3, PTL DEF LaneSpec

\* And a release that returns has left nothing running.
THEOREM ReleasedLaneIsClosedHolds == LaneSpec => ReleasedLaneIsClosed
  <1> DEFINE Closed ==
        \A u \in Users :
          (/\ at[u] \in {"clear", "unmark"} /\ at'[u] = "idle" /\ userMishaps' = userMishaps
           /\ ~overlapped /\ ~blind)
            => Up = {}
  <1>1. LaneInv => Closed
    BY DEF LaneInv, InTurn, KnowsLane
  <1> QED
    BY <1>1, LaneInvHolds, PTL DEF ReleasedLaneIsClosed

-----------------------------------------------------------------------------
(***************************************************************************)
(* Names, for any number of sources, names and nodes.                      *)
(***************************************************************************)

\* What CountUpTo counts.
Same(names, i) == {j \in 1 .. i : names[j] = names[i]}

LEMMA CountsGrow ==
  ASSUME NEW names, NEW i \in Nat, NEW k \in Nat, i < k, names[i] = names[k], i > 0
  PROVE  /\ CountUpTo(names, i) \in Nat \ {0} /\ CountUpTo(names, k) \in Nat
         /\ CountUpTo(names, i) < CountUpTo(names, k)
  <1>1. IsFiniteSet(1 .. i) /\ IsFiniteSet(1 .. k)
    BY FS_Interval
  <1>2. Same(names, i) \in SUBSET (1 .. i) /\ Same(names, k) \in SUBSET (1 .. k)
    BY DEF Same
  <1>3. IsFiniteSet(Same(names, i)) /\ IsFiniteSet(Same(names, k))
    BY <1>1, <1>2, FS_Subset
  <1>4. Same(names, i) \in SUBSET Same(names, k) /\ i \in Same(names, i)
        /\ k \in Same(names, k) /\ k \notin Same(names, i)
    BY DEF Same
  <1>5. Cardinality(Same(names, i)) <= Cardinality(Same(names, k))
        /\ Cardinality(Same(names, i)) # Cardinality(Same(names, k))
    BY <1>3, <1>4, FS_Subset
  <1>6. Cardinality(Same(names, i)) \in Nat \ {0} /\ Cardinality(Same(names, k)) \in Nat
    BY <1>3, <1>4, FS_CardinalityType, FS_EmptySet
  <1> QED
    BY <1>5, <1>6 DEF CountUpTo, Same

LEMMA RenamedDiffer ==
  ASSUME NEW names \in Lists, Plain(names)
  PROVE  Distinct(Renamed(names))
  <1>1. PICK n \in Nat : names \in [1 .. n -> GivenNames]
    BY NamesAssumption DEF Lists
  <1>2. \A i \in 1 .. n : names[i] = [base |-> names[i].base, numbers |-> <<>>]
    BY <1>1 DEF Plain, GivenNames
  <1>3. ASSUME NEW i \in 1 .. n, NEW k \in 1 .. n, i < k, Renamed(names)[i] = Renamed(names)[k]
        PROVE  FALSE
    <2>1. \A j \in 1 .. n : Renamed(names)[j] =
            IF CountUpTo(names, j) > 1
            THEN [base |-> names[j].base, numbers |-> <<CountUpTo(names, j)>>] ELSE names[j]
      BY <1>1, <1>2 DEF Renamed, Numbered
    <2>2. Renamed(names)[i].base = names[i].base /\ Renamed(names)[k].base = names[k].base
      <3>1. ASSUME NEW j \in 1 .. n PROVE Renamed(names)[j].base = names[j].base
        <4>1. CASE CountUpTo(names, j) > 1
          <5>1. Renamed(names)[j] = [base |-> names[j].base, numbers |-> <<CountUpTo(names, j)>>]
            BY <2>1, <4>1
          <5> QED
            BY <5>1
        <4>2. CASE ~(CountUpTo(names, j) > 1)
          BY <2>1, <4>2
        <4> QED
          BY <4>1, <4>2
      <3> QED
        BY <3>1
    <2>3. names[i] = names[k]
      BY <1>2, <1>3, <2>2
    <2>4. /\ CountUpTo(names, i) \in Nat \ {0} /\ CountUpTo(names, k) \in Nat
          /\ CountUpTo(names, i) < CountUpTo(names, k)
      BY <1>3, <2>3, CountsGrow
    <2>5. Renamed(names)[k].numbers = <<CountUpTo(names, k)>>
      <3>1. CountUpTo(names, k) > 1
        BY <2>4
      <3>2. Renamed(names)[k] = [base |-> names[k].base, numbers |-> <<CountUpTo(names, k)>>]
        BY <2>1, <3>1
      <3> QED
        BY <3>2
    <2>6. CASE CountUpTo(names, i) > 1
      <3>1. Renamed(names)[i] = [base |-> names[i].base, numbers |-> <<CountUpTo(names, i)>>]
        BY <2>1, <2>6
      <3>2. Renamed(names)[i].numbers = <<CountUpTo(names, i)>>
        BY <3>1
      <3>3. <<CountUpTo(names, i)>> = <<CountUpTo(names, k)>>
        BY <1>3, <2>5, <3>2
      <3>4. CountUpTo(names, i) = CountUpTo(names, k)
        BY <3>3
      <3> QED
        BY <2>4, <3>4
    <2>7. CASE ~(CountUpTo(names, i) > 1)
      <3>1. Renamed(names)[i] = names[i]
        BY <2>1, <2>7
      <3>2. names[i].numbers = <<>>
        BY <1>1 DEF Plain
      <3>3. <<>> = <<CountUpTo(names, k)>>
        BY <1>3, <2>5, <3>1, <3>2
      <3> QED
        BY <3>3
    <2> QED
      BY <2>6, <2>7
  <1>4. DOMAIN Renamed(names) = 1 .. n
    BY <1>1 DEF Renamed
  <1> QED
    BY <1>3, <1>4 DEF Distinct

LEMMA NextConvertedInv == ConvertedInv /\ [NamesNext]_namesVars => ConvertedInv'
  <1> SUFFICES ASSUME ConvertedInv, [NamesNext]_namesVars PROVE ConvertedInv'
    OBVIOUS
  <1>1. ASSUME NEW s \in SourceIds, Converts(s) PROVE ConvertedInv'
    BY <1>1 DEF Converts, ConvertedInv
  <1>2. ASSUME NEW s \in SourceIds, GivesOthers(s) PROVE ConvertedInv'
    BY <1>2 DEF GivesOthers, ConvertedInv
  <1>3. CASE MergesAll \/ UNCHANGED namesVars
    BY <1>3 DEF MergesAll, namesVars, ConvertedInv
  <1> QED
    BY <1>1, <1>2, <1>3 DEF NamesNext

\* Whatever names a source comes to give and however often it is asked, the names
\* it is converted to differ when none of them carried a number.
THEOREM SourceNamesDifferHolds == NamesSpec => []SourceNamesDiffer
  <1>1. NamesInit => ConvertedInv
    BY DEF NamesInit, ConvertedInv
  <1>2. ConvertedInv => SourceNamesDiffer
    <2>1. Distinct(<<>>)
      BY DEF Distinct
    <2> QED
      BY <2>1, RenamedDiffer DEF ConvertedInv, SourceNamesDiffer
  <1> QED
    BY <1>1, <1>2, NextConvertedInv, PTL DEF NamesSpec

-----------------------------------------------------------------------------
(***************************************************************************)
(* Mihomo.                                                                 *)
(***************************************************************************)
USE CoresAssumption, KeeperBoundsAssumption

LEMMA InitProcessInv == ProcessInit => ProcessInv
  <1> SUFFICES ASSUME ProcessInit PROVE ProcessInv
    OBVIOUS
  <1>1. ProcessTypes
    <2>1. keeperKills \in 0 .. MaxKeeperKills /\ pidFile \in Pids /\ pid \in [Keepers -> Pids]
      BY DEF ProcessInit, Pids
    <2> QED
      BY <2>1 DEF ProcessInit, ProcessTypes
  <1>2. LockHeld
    BY DEF ProcessInit, LockHeld, InStart, Starts, Stops
  <1>3. Undisturbed
    BY DEF ProcessInit, Undisturbed, Unguarded, KnowsCores, Live, Stops, Looks
  <1> QED
    BY <1>1, <1>2, <1>3 DEF ProcessInv

\* Steps of a keeper that touch no core and no file: where it goes decides what
\* it must know.
LEMMA KeeperBeginsInv ==
  ASSUME ProcessInv, NEW c \in Keepers, KeeperBegins(c)
  PROVE  ProcessInv'
  <1> USE DEF KeeperBegins, StartBegins, UnguardedBegins, At
  <1>0. ProcessTypes /\ LockHeld /\ (~disturbed => Undisturbed)
    BY DEF ProcessInv
  <1>1. ProcessTypes'
    BY <1>0 DEF ProcessTypes, Pids, Starts, Stops, Looks
  <1>2. startLock # c
    BY <1>0 DEF ProcessTypes, LockHeld, InStart, Starts, Stops
  <1>3. LockHeld'
    BY <1>0, <1>2 DEF ProcessTypes, LockHeld, InStart, Starts, Stops
  <1>4. ASSUME ~disturbed' PROVE Undisturbed'
    <2>1. ~disturbed /\ Undisturbed
      BY <1>0, <1>4 DEF ProcessTypes
    <2>2. Live' = Live
      BY DEF Live
    <2>3. \A k \in Live : Writing(k) => Writing(k)'
      BY <1>0 DEF Writing, ProcessTypes
    <2>4. \A o \in Keepers : Unguarded(o)' => startLock' = Unlocked
      BY <1>0, <1>4, <2>1 DEF Undisturbed, Unguarded, InStart, ProcessTypes, Stops, Looks
    <2>5. \A o \in Keepers : KnowsCores(o)'
      BY <1>0, <2>1, <2>2 DEF Undisturbed, KnowsCores, ProcessTypes
    <2> QED
      BY <2>1, <2>2, <2>3, <2>4, <2>5 DEF Undisturbed
  <1> QED
    BY <1>1, <1>3, <1>4 DEF ProcessInv

LEMMA TakesStartLockInv ==
  ASSUME ProcessInv, NEW c \in Keepers, TakesStartLock(c)
  PROVE  ProcessInv'
  <1> USE DEF TakesStartLock, At
  <1>0. ProcessTypes /\ LockHeld /\ (~disturbed => Undisturbed)
    BY DEF ProcessInv
  <1>1. ProcessTypes'
    BY <1>0 DEF ProcessTypes, Pids, Starts
  <1>2. \A o \in Keepers : ~InStart(o)
    BY DEF InStart
  <1>3. LockHeld'
    BY <1>0, <1>2 DEF ProcessTypes, LockHeld, InStart, Starts, Stops
  <1>4. ASSUME ~disturbed' PROVE Undisturbed'
    <2>1. ~disturbed /\ Undisturbed /\ \A o \in Keepers : ~Unguarded(o)
      BY <1>0, <1>4 DEF ProcessTypes
    <2>2. Live' = Live
      BY DEF Live
    <2>3. \A k \in Live : Writing(k) => Writing(k)'
      BY <1>0 DEF Writing, ProcessTypes
    <2>4. \A o \in Keepers : ~Unguarded(o)'
      BY <1>0, <1>2, <2>1 DEF Unguarded, InStart, ProcessTypes, Stops, Looks
    <2>5. \A o \in Keepers : KnowsCores(o)'
      BY <1>0, <2>1, <2>2 DEF Undisturbed, KnowsCores, ProcessTypes
    <2> QED
      BY <2>1, <2>2, <2>3, <2>4, <2>5 DEF Undisturbed
  <1> QED
    BY <1>1, <1>3, <1>4 DEF ProcessInv

\* Who is in a guarded or unguarded step with no start beside: then nobody
\* writes a pid but the holder of the lock, so what runs is what the file names.
LEMMA NamedByFile ==
  ASSUME ProcessTypes, LockHeld, Undisturbed, NEW c \in Keepers,
         pc[c] \in Starts \cup Stops \cup Looks, pc[c] # "write"
  PROVE  Live \subseteq {pidFile}
  <1>1. startLock \in {c, Unlocked}
    BY DEF LockHeld, Undisturbed, Unguarded, InStart
  <1>2. \A o \in Keepers : pc[o] = "write" => o = c
    BY <1>1 DEF LockHeld, InStart, Starts
  <1> QED
    BY <1>2 DEF Undisturbed, Writing

\* A step of one keeper that starts no core, and that changes the pid file only
\* when nothing runs.
MovesAlone(c) ==
  /\ \A o \in Keepers \ {c} : pc'[o] = pc[o] /\ pid'[o] = pid[o]
  /\ startLock' \in {startLock, Unlocked} /\ (startLock' # startLock => startLock = c)
  /\ Live' \subseteq Live
  /\ pidFile' = pidFile \/ Live' = {}
  /\ pc[c] # "write"
  /\ KnowsCores(c)'
  /\ pc'[c] \in Stops \cup Looks => startLock' = Unlocked \/ startLock' = c

LEMMA MovesAloneUndisturbed ==
  ASSUME ProcessTypes, Undisturbed, NEW c \in Keepers, MovesAlone(c)
  PROVE  Undisturbed'
  <1> USE DEF MovesAlone
  <1>1. \A o \in Keepers : Unguarded(o)' => startLock' = Unlocked
    BY DEF Undisturbed, Unguarded, InStart, ProcessTypes
  <1>2. \A o \in Keepers : KnowsCores(o)'
    BY DEF Undisturbed, KnowsCores
  <1>3. \A k \in Live : Writing(k) => Writing(k)'
    BY DEF Writing
  <1> QED
    BY <1>1, <1>2, <1>3 DEF Undisturbed

LEMMA ReadsPidInv ==
  ASSUME ProcessInv, NEW c \in Keepers, ReadsPid(c)
  PROVE  ProcessInv'
  <1> USE DEF ReadsPid, At, Ends, Unlocks
  <1>0. ProcessTypes /\ LockHeld /\ (~disturbed => Undisturbed)
    BY DEF ProcessInv
  <1>1. ProcessTypes'
    BY <1>0 DEF ProcessTypes, Pids, Starts, Stops, Looks
  <1>2. LockHeld'
    BY <1>0 DEF ProcessTypes, LockHeld, InStart, Starts, Stops
  <1>3. ASSUME ~disturbed' PROVE Undisturbed'
    <2>1. ~disturbed /\ Undisturbed
      BY <1>0, <1>3 DEF ProcessTypes
    <2>2. Live' \subseteq Live
      BY <1>0 DEF Live, ProcessTypes
    <2>3. KnowsCores(c) /\ (pc[c] \in Stops \cup Looks => startLock \in {c, Unlocked})
      BY <2>1 DEF Undisturbed, Unguarded, InStart
    <2>4. KnowsCores(c)'
      <3>1. Live \subseteq {pidFile}
        BY <1>0, <2>1, NamedByFile DEF Starts, Stops, Looks
      <3>2. pidFile = NoPid => Live = {}
        BY <3>1 DEF Live
      <3>3. CASE pidFile = NoPid
        BY <1>0, <2>2, <3>2, <3>3 DEF KnowsCores, ProcessTypes
      <3>4. CASE pidFile # NoPid
        BY <1>0, <2>2, <3>1, <3>4 DEF KnowsCores, ProcessTypes
      <3> QED
        BY <3>3, <3>4
    <2>5. pidFile' = pidFile \/ Live' = {}
      BY <1>0, <2>2, <2>3 DEF KnowsCores, ProcessTypes
    <2>6. MovesAlone(c)
      BY <1>0, <2>2, <2>3, <2>4, <2>5 DEF MovesAlone, ProcessTypes, LockHeld, InStart, Starts, Stops, Looks
    <2> QED
      BY <1>0, <2>1, <2>6, MovesAloneUndisturbed
  <1> QED
    BY <1>1, <1>2, <1>3 DEF ProcessInv

LEMMA ChecksPidInv ==
  ASSUME ProcessInv, NEW c \in Keepers, ChecksPid(c)
  PROVE  ProcessInv'
  <1> USE DEF ChecksPid, At, Ends, Unlocks
  <1>0. ProcessTypes /\ LockHeld /\ (~disturbed => Undisturbed)
    BY DEF ProcessInv
  <1>1. ProcessTypes'
    BY <1>0 DEF ProcessTypes, Pids, Starts, Stops, Looks
  <1>2. LockHeld'
    BY <1>0 DEF ProcessTypes, LockHeld, InStart, Starts, Stops
  <1>3. ASSUME ~disturbed' PROVE Undisturbed'
    <2>1. ~disturbed /\ Undisturbed
      BY <1>0, <1>3 DEF ProcessTypes
    <2>2. Live' \subseteq Live
      BY <1>0 DEF Live, ProcessTypes
    <2>3. KnowsCores(c) /\ (pc[c] \in Stops \cup Looks => startLock \in {c, Unlocked})
      BY <2>1 DEF Undisturbed, Unguarded, InStart
    <2>4. KnowsCores(c)'
      BY <1>0, <2>2, <2>3 DEF KnowsCores, ProcessTypes
    <2>5. pidFile' = pidFile \/ Live' = {}
      BY <1>0, <2>2, <2>3 DEF KnowsCores, ProcessTypes
    <2>6. MovesAlone(c)
      BY <1>0, <2>2, <2>3, <2>4, <2>5 DEF MovesAlone, ProcessTypes, LockHeld, InStart, Starts, Stops, Looks
    <2> QED
      BY <1>0, <2>1, <2>6, MovesAloneUndisturbed
  <1> QED
    BY <1>1, <1>2, <1>3 DEF ProcessInv

LEMMA SpawnFailsInv ==
  ASSUME ProcessInv, NEW c \in Keepers, SpawnFails(c)
  PROVE  ProcessInv'
  <1> USE DEF SpawnFails, At, Ends, Unlocks
  <1>0. ProcessTypes /\ LockHeld /\ (~disturbed => Undisturbed)
    BY DEF ProcessInv
  <1>1. ProcessTypes'
    BY <1>0 DEF ProcessTypes, Pids, Starts, Stops, Looks
  <1>2. LockHeld'
    BY <1>0 DEF ProcessTypes, LockHeld, InStart, Starts, Stops
  <1>3. ASSUME ~disturbed' PROVE Undisturbed'
    <2>1. ~disturbed /\ Undisturbed
      BY <1>0, <1>3 DEF ProcessTypes
    <2>2. Live' \subseteq Live
      BY <1>0 DEF Live, ProcessTypes
    <2>3. KnowsCores(c) /\ (pc[c] \in Stops \cup Looks => startLock \in {c, Unlocked})
      BY <2>1 DEF Undisturbed, Unguarded, InStart
    <2>4. KnowsCores(c)'
      BY <1>0, <2>2, <2>3 DEF KnowsCores, ProcessTypes
    <2>5. pidFile' = pidFile \/ Live' = {}
      BY <1>0, <2>2, <2>3 DEF KnowsCores, ProcessTypes
    <2>6. MovesAlone(c)
      BY <1>0, <2>2, <2>3, <2>4, <2>5 DEF MovesAlone, ProcessTypes, LockHeld, InStart, Starts, Stops, Looks
    <2> QED
      BY <1>0, <2>1, <2>6, MovesAloneUndisturbed
  <1> QED
    BY <1>1, <1>2, <1>3 DEF ProcessInv

LEMMA AwaitsInv ==
  ASSUME ProcessInv, NEW c \in Keepers, Awaits(c)
  PROVE  ProcessInv'
  <1> USE DEF Awaits, At, Ends, Unlocks
  <1>0. ProcessTypes /\ LockHeld /\ (~disturbed => Undisturbed)
    BY DEF ProcessInv
  <1>1. ProcessTypes'
    BY <1>0 DEF ProcessTypes, Pids, Starts, Stops, Looks
  <1>2. LockHeld'
    BY <1>0 DEF ProcessTypes, LockHeld, InStart, Starts, Stops
  <1>3. ASSUME ~disturbed' PROVE Undisturbed'
    <2>1. ~disturbed /\ Undisturbed
      BY <1>0, <1>3 DEF ProcessTypes
    <2>2. Live' \subseteq Live
      BY <1>0 DEF Live, ProcessTypes
    <2>3. KnowsCores(c) /\ (pc[c] \in Stops \cup Looks => startLock \in {c, Unlocked})
      BY <2>1 DEF Undisturbed, Unguarded, InStart
    <2>4. KnowsCores(c)'
      BY <1>0, <2>2, <2>3 DEF KnowsCores, ProcessTypes
    <2>5. pidFile' = pidFile \/ Live' = {}
      BY <1>0, <2>2, <2>3 DEF KnowsCores, ProcessTypes
    <2>6. MovesAlone(c)
      BY <1>0, <2>2, <2>3, <2>4, <2>5 DEF MovesAlone, ProcessTypes, LockHeld, InStart, Starts, Stops, Looks
    <2> QED
      BY <1>0, <2>1, <2>6, MovesAloneUndisturbed
  <1> QED
    BY <1>1, <1>2, <1>3 DEF ProcessInv

LEMMA SignalsInv ==
  ASSUME ProcessInv, NEW c \in Keepers, Signals(c)
  PROVE  ProcessInv'
  <1> USE DEF Signals, At, Ends, Unlocks
  <1>0. ProcessTypes /\ LockHeld /\ (~disturbed => Undisturbed)
    BY DEF ProcessInv
  <1>1. ProcessTypes'
    BY <1>0 DEF ProcessTypes, Pids, Starts, Stops, Looks
  <1>2. LockHeld'
    BY <1>0 DEF ProcessTypes, LockHeld, InStart, Starts, Stops
  <1>3. ASSUME ~disturbed' PROVE Undisturbed'
    <2>1. ~disturbed /\ Undisturbed
      BY <1>0, <1>3 DEF ProcessTypes
    <2>2. Live' \subseteq Live
      BY <1>0 DEF Live, ProcessTypes
    <2>3. KnowsCores(c) /\ (pc[c] \in Stops \cup Looks => startLock \in {c, Unlocked})
      BY <2>1 DEF Undisturbed, Unguarded, InStart
    <2>4. KnowsCores(c)'
      BY <1>0, <2>2, <2>3 DEF KnowsCores, ProcessTypes
    <2>5. pidFile' = pidFile \/ Live' = {}
      BY <1>0, <2>2, <2>3 DEF KnowsCores, ProcessTypes
    <2>6. MovesAlone(c)
      BY <1>0, <2>2, <2>3, <2>4, <2>5 DEF MovesAlone, ProcessTypes, LockHeld, InStart, Starts, Stops, Looks
    <2> QED
      BY <1>0, <2>1, <2>6, MovesAloneUndisturbed
  <1> QED
    BY <1>1, <1>2, <1>3 DEF ProcessInv

LEMMA OutlivesInv ==
  ASSUME ProcessInv, NEW c \in Keepers, Outlives(c)
  PROVE  ProcessInv'
  <1> USE DEF Outlives, At, Ends, Unlocks
  <1>0. ProcessTypes /\ LockHeld /\ (~disturbed => Undisturbed)
    BY DEF ProcessInv
  <1>1. ProcessTypes'
    BY <1>0 DEF ProcessTypes, Pids, Starts, Stops, Looks
  <1>2. LockHeld'
    BY <1>0 DEF ProcessTypes, LockHeld, InStart, Starts, Stops
  <1>3. ASSUME ~disturbed' PROVE Undisturbed'
    <2>1. ~disturbed /\ Undisturbed
      BY <1>0, <1>3 DEF ProcessTypes
    <2>2. Live' \subseteq Live
      BY <1>0 DEF Live, ProcessTypes
    <2>3. KnowsCores(c) /\ (pc[c] \in Stops \cup Looks => startLock \in {c, Unlocked})
      BY <2>1 DEF Undisturbed, Unguarded, InStart
    <2>4. KnowsCores(c)'
      BY <1>0, <2>2, <2>3 DEF KnowsCores, ProcessTypes, Live
    <2>5. pidFile' = pidFile \/ Live' = {}
      BY <1>0, <2>2, <2>3 DEF KnowsCores, ProcessTypes
    <2>6. MovesAlone(c)
      BY <1>0, <2>2, <2>3, <2>4, <2>5 DEF MovesAlone, ProcessTypes, LockHeld, InStart, Starts, Stops, Looks
    <2> QED
      BY <1>0, <2>1, <2>6, MovesAloneUndisturbed
  <1> QED
    BY <1>1, <1>2, <1>3 DEF ProcessInv

LEMMA UnlinksInv ==
  ASSUME ProcessInv, NEW c \in Keepers, Unlinks(c)
  PROVE  ProcessInv'
  <1> USE DEF Unlinks, At, Ends, Unlocks
  <1>0. ProcessTypes /\ LockHeld /\ (~disturbed => Undisturbed)
    BY DEF ProcessInv
  <1>1. ProcessTypes'
    BY <1>0 DEF ProcessTypes, Pids, Starts, Stops, Looks
  <1>2. LockHeld'
    BY <1>0 DEF ProcessTypes, LockHeld, InStart, Starts, Stops
  <1>3. ASSUME ~disturbed' PROVE Undisturbed'
    <2>1. ~disturbed /\ Undisturbed
      BY <1>0, <1>3 DEF ProcessTypes
    <2>2. Live' \subseteq Live
      BY <1>0 DEF Live, ProcessTypes
    <2>3. KnowsCores(c) /\ (pc[c] \in Stops \cup Looks => startLock \in {c, Unlocked})
      BY <2>1 DEF Undisturbed, Unguarded, InStart
    <2>4. KnowsCores(c)'
      BY <1>0, <2>2, <2>3 DEF KnowsCores, ProcessTypes
    <2>5. pidFile' = pidFile \/ Live' = {}
      BY <1>0, <2>2, <2>3 DEF KnowsCores, ProcessTypes
    <2>6. MovesAlone(c)
      BY <1>0, <2>2, <2>3, <2>4, <2>5 DEF MovesAlone, ProcessTypes, LockHeld, InStart, Starts, Stops, Looks
    <2> QED
      BY <1>0, <2>1, <2>6, MovesAloneUndisturbed
  <1> QED
    BY <1>1, <1>2, <1>3 DEF ProcessInv

\* A start begins where nothing runs.
LEMMA SpawnsInv ==
  ASSUME ProcessInv, NEW c \in Keepers, Spawns(c)
  PROVE  ProcessInv'
  <1>0. ProcessTypes /\ LockHeld /\ (~disturbed => Undisturbed)
    BY DEF ProcessInv
  <1>k. PICK k \in Cores :
          /\ core[k] = "off" /\ core' = [core EXCEPT ![k] = "boot"]
          /\ pidFile' = IF pidFile = k THEN Gone ELSE pidFile
          /\ pc' = [pc EXCEPT ![c] = "write"]
          /\ pid' = [o \in Keepers |-> IF o = c THEN k ELSE IF pid[o] = k THEN Gone ELSE pid[o]]
    BY DEF Spawns
  <1> USE DEF Spawns
  <1>1. ProcessTypes'
    BY <1>0, <1>k DEF ProcessTypes, Pids, Starts
  <1>2. LockHeld' /\ startLock = c /\ pc'[c] = "write"
    BY <1>0, <1>k DEF ProcessTypes, LockHeld, InStart, Starts, Stops
  <1>3. ASSUME ~disturbed' PROVE Undisturbed'
    <2>1. ~disturbed /\ Undisturbed
      BY <1>0, <1>3
    <2>2. Live = {}
      BY <2>1 DEF Undisturbed, KnowsCores
    <2>3. Live' = {k}
      BY <1>0, <1>k, <2>2 DEF Live, ProcessTypes
    <2>4. \A o \in Keepers \ {c} : pc'[o] = pc[o] /\ ~Unguarded(o) /\ ~InStart(o)
      BY <1>0, <1>k, <1>2, <2>1 DEF Undisturbed, InStart, ProcessTypes
    <2>5. \A o \in Keepers \ {c} : pc'[o] \notin Starts \cup Stops \cup Looks
      BY <1>0, <2>4 DEF LockHeld, Unguarded
    <2>6. \A o \in Keepers : ~Unguarded(o)'
      BY <1>2, <2>5 DEF Unguarded, InStart
    <2>7. \A o \in Keepers : KnowsCores(o)'
      BY <1>0, <1>k, <1>2, <2>3, <2>5 DEF KnowsCores, Starts, Stops, Looks, ProcessTypes
    <2>8. Writing(k)'
      BY <1>0, <1>k, <1>2 DEF Writing, ProcessTypes
    <2> QED
      BY <2>3, <2>6, <2>7, <2>8 DEF Undisturbed
  <1> QED
    BY <1>1, <1>2, <1>3 DEF ProcessInv

\* What the writer runs is all that runs.
LEMMA WritesPidInv ==
  ASSUME ProcessInv, NEW c \in Keepers, WritesPid(c)
  PROVE  ProcessInv'
  <1> USE DEF WritesPid, At
  <1>0. ProcessTypes /\ LockHeld /\ (~disturbed => Undisturbed)
    BY DEF ProcessInv
  <1>1. ProcessTypes'
    BY <1>0 DEF ProcessTypes, Starts
  <1>2. LockHeld'
    BY <1>0 DEF ProcessTypes, LockHeld, InStart, Starts, Stops
  <1>3. ASSUME ~disturbed' PROVE Undisturbed'
    <2>1. ~disturbed /\ Undisturbed /\ Live' = Live
      BY <1>0, <1>3 DEF Live
    <2>2. Live \subseteq {pid[c]}
      BY <2>1 DEF Undisturbed, KnowsCores
    <2>3. \A o \in Keepers : KnowsCores(o)'
      BY <1>0, <2>1, <2>2 DEF Undisturbed, KnowsCores, ProcessTypes
    <2>4. \A o \in Keepers : Unguarded(o)' => startLock' = Unlocked
      BY <1>0, <2>1 DEF Undisturbed, Unguarded, InStart, ProcessTypes, Stops, Looks
    <2> QED
      BY <2>1, <2>2, <2>3, <2>4 DEF Undisturbed
  <1> QED
    BY <1>1, <1>2, <1>3 DEF ProcessInv

LEMMA KeeperKilledInv ==
  ASSUME ProcessInv, NEW c \in Keepers, KeeperKilled(c)
  PROVE  ProcessInv'
  <1> USE DEF KeeperKilled, At, Ends, Unlocks
  <1>0. ProcessTypes /\ LockHeld /\ (~disturbed => Undisturbed)
    BY DEF ProcessInv
  <1>1. ProcessTypes'
    <2>1. keeperKills' \in 0 .. MaxKeeperKills /\ disturbed' \in BOOLEAN
      BY <1>0 DEF ProcessTypes
    <2> QED
      BY <1>0, <2>1 DEF ProcessTypes, Pids
  <1>2. LockHeld'
    BY <1>0 DEF ProcessTypes, LockHeld, InStart, Starts, Stops
  <1>3. ASSUME ~disturbed' PROVE Undisturbed'
    <2>1. ~disturbed /\ Undisturbed /\ pc[c] # "write"
      BY <1>0, <1>3 DEF ProcessTypes
    <2>2. Live' = Live
      BY DEF Live
    <2>3. pc'[c] = "idle"
      BY <1>0 DEF ProcessTypes
    <2>4. KnowsCores(c)'
      BY <2>3 DEF KnowsCores
    <2>5. MovesAlone(c)
      BY <1>0, <2>1, <2>2, <2>3, <2>4 DEF MovesAlone, ProcessTypes, Stops, Looks
    <2> QED
      BY <1>0, <2>1, <2>5, MovesAloneUndisturbed
  <1> QED
    BY <1>1, <1>2, <1>3 DEF ProcessInv

LEMMA CoreMovesInv ==
  ASSUME ProcessInv, NEW k \in Cores, CoreBoots(k) \/ CoreExits(k)
  PROVE  ProcessInv'
  <1> USE DEF CoreBoots, CoreExits
  <1>0. ProcessTypes /\ LockHeld /\ (~disturbed => Undisturbed)
    BY DEF ProcessInv
  <1>1. ProcessTypes'
    BY <1>0 DEF ProcessTypes
  <1>2. LockHeld'
    BY <1>0 DEF LockHeld, InStart
  <1>3. Live' \subseteq Live
    BY <1>0 DEF Live, ProcessTypes
  <1>4. ASSUME ~disturbed' PROVE Undisturbed'
    BY <1>0, <1>3, <1>4 DEF Undisturbed, Unguarded, InStart, KnowsCores, Writing
  <1> QED
    BY <1>1, <1>2, <1>4 DEF ProcessInv

LEMMA NextProcessInv == ProcessInv /\ [ProcessNext]_processVars => ProcessInv'
  <1> SUFFICES ASSUME ProcessInv, [ProcessNext]_processVars PROVE ProcessInv'
    OBVIOUS
  <1>1. ASSUME NEW c \in Keepers, KeeperBegins(c) PROVE ProcessInv'
    BY <1>1, KeeperBeginsInv
  <1>2. ASSUME NEW c \in Keepers, KeeperMoves(c) PROVE ProcessInv'
    BY <1>2, TakesStartLockInv, ReadsPidInv, ChecksPidInv, SpawnsInv, SpawnFailsInv, WritesPidInv,
       AwaitsInv, SignalsInv, OutlivesInv, UnlinksInv DEF KeeperMoves
  <1>3. ASSUME NEW c \in Keepers, KeeperKilled(c) PROVE ProcessInv'
    BY <1>3, KeeperKilledInv
  <1>4. ASSUME NEW k \in Cores, CoreBoots(k) \/ CoreExits(k) PROVE ProcessInv'
    BY <1>4, CoreMovesInv
  <1>5. CASE UNCHANGED processVars
    BY <1>5 DEF processVars, ProcessInv, ProcessTypes, LockHeld, Undisturbed, InStart, Unguarded,
                KnowsCores, Live, Writing
  <1> QED
    BY <1>1, <1>2, <1>3, <1>4, <1>5 DEF ProcessNext

\* The inductive invariant of the core's process holds in every state.
THEOREM ProcessInvHolds == ProcessSpec => []ProcessInv
  BY InitProcessInv, NextProcessInv, PTL DEF ProcessSpec

\* Unless a stop or a look ran beside a start, whatever runs is named by the pid
\* file or about to be: no process of Mihomo is left that nobody would stop.
THEOREM LiveCoreIsNamedHolds == ProcessSpec => []LiveCoreIsNamed
  <1>1. ProcessInv => LiveCoreIsNamed
    BY DEF ProcessInv, Undisturbed, LiveCoreIsNamed
  <1> QED
    BY <1>1, ProcessInvHolds, PTL

\* Nor is there ever a second one.
THEOREM OneCoreHolds == ProcessSpec => []OneCore
  <1>1. ASSUME ProcessInv PROVE OneCore
    <2> SUFFICES ASSUME ~disturbed PROVE Cardinality(Live) <= 1
      BY DEF OneCore
    <2>1. Undisturbed
      BY <1>1 DEF ProcessInv
    <2>2. \A k, m \in Live : k = m
      <3>1. ASSUME NEW k \in Live, Writing(k) PROVE Live \subseteq {k}
        BY <2>1, <3>1 DEF Undisturbed, KnowsCores, Writing
      <3> QED
        BY <2>1, <3>1 DEF Undisturbed
    <2>3. Live = {} \/ \E k \in Live : Live = {k}
      BY <2>2
    <2>4. ASSUME NEW k PROVE Cardinality({k}) = 1
      BY FS_Singleton
    <2>5. Cardinality({}) = 0
      BY FS_EmptySet
    <2> QED
      BY <2>3, <2>4, <2>5
  <1> QED
    BY <1>1, ProcessInvHolds, PTL

=============================================================================
