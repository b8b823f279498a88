------------------------------ MODULE XrayLane ------------------------------
(***************************************************************************)
(* One lane of the Xray backend (xray.py): a process, and a directory with *)
(* its configuration, its pid and what it was selected for.  Every select  *)
(* stops the lane and starts it anew, in many steps, and nothing keeps two *)
(* processes (monitor, assign, an inventory, stop) from doing so at once.  *)
(*                                                                         *)
(* A pid is the name of the process it belongs to; when the name is used   *)
(* again, what was written of the earlier process is Stale.                 *)
(***************************************************************************)
EXTENDS Integers, FiniteSets

CONSTANTS
  Users,          \* processes that select, release, stop or look
  Servers,        \* names of Xray processes
  Exits,          \* nodes
  Rejected,       \* nodes Xray has no configuration for, or rejects it
  MaxUserMishaps, \* how often a user is killed in the middle, or finds ps failing
  Nothing,        \* no file, or no node
  Stale            \* the pid of a process that has ended

ASSUME LaneNodesAssumption ==
  /\ Rejected \subseteq Exits /\ Nothing \notin Exits \cup Servers
  /\ Stale \notin Servers /\ Stale # Nothing
ASSUME LaneBoundsAssumption == MaxUserMishaps \in Nat

VARIABLES
  server,         \* server -> "off", "boot", or "open" when it has the port
  via,            \* server -> the node it was started for
  config,         \* config.json
  xrayPid,        \* xray.pid
  selected,       \* selected.json
  marker,         \* the backend is enabled
  at,             \* user -> where it is
  want,           \* user -> the node it selects, or Nothing
  mine,           \* user -> the server it started, or whose pid it read
  victims,        \* user -> the servers its stop_lane found
  overlapped,     \* two users selected, released or stopped at the same time
  blind,          \* a stop_lane could not look for the processes
  userMishaps

serverVars == <<server, via>>
fileVars   == <<config, xrayPid, selected>>
userVars   == <<at, want, mine, victims>>
laneVars   == <<serverVars, fileVars, marker, userVars, overlapped, blind, userMishaps>>

Up     == {s \in Servers : server[s] # "off"}
IsOpen == \E s \in Servers : server[s] = "open"

LaneTypes ==
  /\ server \in [Servers -> {"off", "boot", "open"}]
  /\ via \in [Servers -> Exits \cup {Nothing}]
  /\ config \in Exits \cup {Nothing} /\ selected \in Exits \cup {Nothing}
  /\ xrayPid \in Servers \cup {Nothing, Stale}
  /\ marker \in BOOLEAN
  /\ at \in [Users -> {"idle", "look", "scan", "term", "clear", "unmark", "config", "test",
                       "spawn", "pid", "await", "dups", "select"}]
  /\ want \in [Users -> Exits \cup {Nothing}]
  /\ mine \in [Users -> Servers \cup {Nothing, Stale}]
  /\ victims \in [Users -> SUBSET Servers]
  /\ overlapped \in BOOLEAN /\ blind \in BOOLEAN /\ userMishaps \in 0 .. MaxUserMishaps

LaneInit ==
  /\ server = [s \in Servers |-> "off"] /\ via = [s \in Servers |-> Nothing]
  /\ config = Nothing /\ xrayPid = Nothing /\ selected = Nothing
  /\ marker = TRUE
  /\ at = [u \in Users |-> "idle"] /\ want = [u \in Users |-> Nothing]
  /\ mine = [u \in Users |-> Nothing] /\ victims = [u \in Users |-> {}]
  /\ overlapped = FALSE /\ blind = FALSE /\ userMishaps = 0

Busy(u) == at[u] \notin {"idle", "look"}

UserMishap == userMishaps < MaxUserMishaps /\ userMishaps' = userMishaps + 1

UserGoes(u, step) == at' = [at EXCEPT ![u] = step]
Returns(u) ==
  /\ UserGoes(u, "idle") /\ want' = [want EXCEPT ![u] = Nothing]
  /\ mine' = [mine EXCEPT ![u] = Nothing] /\ victims' = [victims EXCEPT ![u] = {}]

(***************************************************************************)
(* stop_lane.                                                              *)
(***************************************************************************)

\* select(n) and release() both begin with stop_lane; so does stop(), for every
\* lane, and then it removes the marker.
UserBegins(u) ==
  /\ at[u] = "idle" /\ UserGoes(u, "scan")
  /\ \E n \in Exits \cup {Nothing} : want' = [want EXCEPT ![u] = n]
  /\ overlapped' = (overlapped \/ \E o \in Users : Busy(o))
  /\ UNCHANGED <<serverVars, fileVars, marker, mine, victims, blind, userMishaps>>

\* Mutant: only the process of the pid file is looked for.
ScansPidFile(u) ==
  /\ at[u] = "scan" /\ UserGoes(u, "term")
  /\ victims' = [victims EXCEPT ![u] = {xrayPid} \cap Up]
  /\ UNCHANGED <<serverVars, fileVars, marker, want, mine, overlapped, blind, userMishaps>>

\* _matching_lane_pids shows every process on this lane's config.json, those
\* of killed users included.  When ps fails it shows none, and the pid file only
\* helps when ps answers lane_pid.
Scans(u) ==
  /\ at[u] = "scan" /\ UserGoes(u, "term")
  /\ \/ victims' = [victims EXCEPT ![u] = Up] /\ UNCHANGED <<blind, userMishaps>>
     \/ /\ UserMishap /\ blind' = TRUE
        /\ \E found \in {{xrayPid} \cap Up, {}} : victims' = [victims EXCEPT ![u] = found]
  /\ UNCHANGED <<serverVars, fileVars, marker, want, mine, overlapped>>

\* _terminate_pids: SIGTERM, and SIGKILL six seconds later.
Terminates(u) ==
  /\ at[u] = "term" /\ UserGoes(u, "clear")
  /\ server' = [s \in Servers |-> IF s \in victims[u] THEN "off" ELSE server[s]]
  /\ via' = [s \in Servers |-> IF s \in victims[u] THEN Nothing ELSE via[s]]
  /\ victims' = [victims EXCEPT ![u] = {}]
  /\ UNCHANGED <<fileVars, marker, want, mine, overlapped, blind, userMishaps>>

\* Mutant: what was selected is left to be read.
ClearsPidOnly(u) ==
  /\ at[u] = "clear" /\ xrayPid' = Nothing
  /\ \/ want[u] # Nothing /\ UserGoes(u, "config") /\ UNCHANGED <<want, mine, victims>>
     \/ want[u] = Nothing /\ Returns(u)
     \/ want[u] = Nothing /\ UserGoes(u, "unmark") /\ UNCHANGED <<want, mine, victims>>
  /\ UNCHANGED <<serverVars, config, selected, marker, overlapped, blind, userMishaps>>

\* The files go, whoever wrote them.  A release is over then, and so is a start
\* that failed.
Clears(u) ==
  /\ at[u] = "clear" /\ xrayPid' = Nothing /\ selected' = Nothing
  /\ \/ want[u] # Nothing /\ UserGoes(u, "config") /\ UNCHANGED <<want, mine, victims>>
     \/ want[u] = Nothing /\ Returns(u)
     \/ want[u] = Nothing /\ UserGoes(u, "unmark") /\ UNCHANGED <<want, mine, victims>>
  /\ UNCHANGED <<serverVars, config, marker, overlapped, blind, userMishaps>>

Unmarks(u) ==
  /\ at[u] = "unmark" /\ marker' = FALSE /\ Returns(u)
  /\ UNCHANGED <<serverVars, fileVars, overlapped, blind, userMishaps>>

\* lane_pid, which group(), describe() and pid() call: a pid file that names no
\* server of this lane, or none that ps shows, is removed, whatever it says by
\* now.
ReadsLanePid(u) ==
  /\ at[u] = "idle" /\ xrayPid # Nothing /\ UserGoes(u, "look")
  /\ mine' = [mine EXCEPT ![u] = xrayPid]
  /\ UNCHANGED <<serverVars, fileVars, marker, want, victims, overlapped, blind, userMishaps>>

ChecksLanePid(u) ==
  /\ at[u] = "look" /\ Returns(u)
  /\ \/ mine[u] \in Up /\ UNCHANGED <<xrayPid, userMishaps>>
     \/ mine[u] \notin Up /\ xrayPid' = Nothing /\ UNCHANGED userMishaps
     \/ mine[u] \in Up /\ xrayPid' = Nothing /\ UserMishap
  /\ UNCHANGED <<serverVars, config, selected, marker, overlapped, blind>>

\* start() of the backend.
Marks ==
  /\ ~marker /\ marker' = TRUE
  /\ UNCHANGED <<serverVars, fileVars, userVars, overlapped, blind, userMishaps>>

(***************************************************************************)
(* start_lane, after its stop_lane.                                        *)
(***************************************************************************)

\* xray_config_for_node raises for a node of a kind it does not know.  Who start
\* the lane at once fill one temporary file: what is moved into place may be the
\* text of another or a broken one, and there may be nothing left to move.
WritesConfig(u) ==
  /\ at[u] = "config"
  /\ LET goesOn == UserGoes(u, "test") /\ UNCHANGED <<want, mine, victims>>
     IN  \/ config' = want[u] /\ goesOn
         \/ want[u] \in Rejected /\ UNCHANGED config /\ Returns(u)
         \/ \E o \in Users \ {u} :
              /\ at[o] \in {"config", "test", "spawn"}
              /\ config' \in {want[o]} \cup Rejected
              /\ goesOn \/ Returns(u)
  /\ UNCHANGED <<serverVars, xrayPid, selected, marker, overlapped, blind, userMishaps>>

\* xray run -test reads the file again.
TestsConfig(u) ==
  /\ at[u] = "test"
  /\ IF config \in Rejected THEN Returns(u)
                            ELSE UserGoes(u, "spawn") /\ UNCHANGED <<want, mine, victims>>
  /\ UNCHANGED <<serverVars, fileVars, marker, overlapped, blind, userMishaps>>

\* The process reads config.json as it is by now.
StartsServer(u) ==
  /\ at[u] = "spawn" /\ UserGoes(u, "pid")
  /\ \E s \in Servers :
       /\ server[s] = "off"
       /\ server' = [server EXCEPT ![s] = "boot"] /\ via' = [via EXCEPT ![s] = config]
       /\ xrayPid' = IF xrayPid = s THEN Stale ELSE xrayPid
       /\ mine' = [o \in Users |-> IF o = u THEN s ELSE IF mine[o] = s THEN Stale ELSE mine[o]]
       /\ victims' = [o \in Users |-> victims[o] \ {s}]
  /\ UNCHANGED <<config, selected, marker, want, overlapped, blind, userMishaps>>

NamesServer(u) ==
  /\ at[u] = "pid" /\ xrayPid' = mine[u] /\ UserGoes(u, "await")
  /\ UNCHANGED <<serverVars, config, selected, marker, want, mine, victims, overlapped, blind, userMishaps>>

StopsAndRaises(u) ==
  UserGoes(u, "scan") /\ want' = [want EXCEPT ![u] = Nothing] /\ UNCHANGED <<mine, victims>>

\* Its process has exited; somebody answers on the port; or twelve seconds are
\* over.
AwaitsPort(u) ==
  /\ at[u] = "await"
  /\ \/ mine[u] \notin Up /\ xrayPid' = Nothing /\ Returns(u)
     \/ /\ mine[u] \in Up /\ UNCHANGED xrayPid
        /\ IF IsOpen THEN UserGoes(u, "dups") /\ UNCHANGED <<want, mine, victims>>
                     ELSE StopsAndRaises(u)
  /\ UNCHANGED <<serverVars, config, selected, marker, overlapped, blind, userMishaps>>

\* Mutant: an open port is enough.
TrustsPort(u) ==
  /\ at[u] = "dups" /\ UserGoes(u, "select")
  /\ UNCHANGED <<serverVars, fileVars, marker, want, mine, victims, overlapped, blind, userMishaps>>

\* A failing ps shows no duplicates.
LooksForDuplicates(u) ==
  /\ at[u] = "dups"
  /\ LET selects == UserGoes(u, "select") /\ UNCHANGED <<want, mine, victims>>
     IN  \/ Up \subseteq {mine[u]} /\ selects /\ UNCHANGED userMishaps
         \/ ~(Up \subseteq {mine[u]}) /\ StopsAndRaises(u) /\ UNCHANGED userMishaps
         \/ ~(Up \subseteq {mine[u]}) /\ selects /\ UserMishap
  /\ UNCHANGED <<serverVars, fileVars, marker, overlapped, blind>>

Selects(u) ==
  /\ at[u] = "select" /\ selected' = want[u] /\ Returns(u)
  /\ UNCHANGED <<serverVars, config, xrayPid, marker, overlapped, blind, userMishaps>>

UserKilled(u) ==
  /\ at[u] # "idle" /\ UserMishap
  /\ Returns(u)
  /\ UNCHANGED <<serverVars, fileVars, marker, overlapped, blind>>

(***************************************************************************)
(* Xray (external): who comes second to the port exits.                    *)
(***************************************************************************)

Opens(s) ==
  /\ server[s] = "boot" /\ ~IsOpen /\ server' = [server EXCEPT ![s] = "open"]
  /\ UNCHANGED <<via, fileVars, marker, userVars, overlapped, blind, userMishaps>>

ServerExits(s) ==
  /\ server[s] # "off" /\ server' = [server EXCEPT ![s] = "off"]
  /\ via' = [via EXCEPT ![s] = Nothing]
  /\ UNCHANGED <<fileVars, marker, userVars, overlapped, blind, userMishaps>>

UserMoves(u) ==
  \/ ChecksLanePid(u) \/ Scans(u) \/ Terminates(u) \/ Clears(u) \/ Unmarks(u) \/ WritesConfig(u) \/ TestsConfig(u)
  \/ StartsServer(u) \/ NamesServer(u) \/ AwaitsPort(u) \/ LooksForDuplicates(u) \/ Selects(u)

LaneNext ==
  \/ \E u \in Users : UserBegins(u) \/ ReadsLanePid(u) \/ UserMoves(u) \/ UserKilled(u)
  \/ \E s \in Servers : Opens(s) \/ ServerExits(s)
  \/ Marks

LaneSpec == LaneInit /\ [][LaneNext]_laneVars

-----------------------------------------------------------------------------
(***************************************************************************)
(* Properties.                                                             *)
(***************************************************************************)

Quiet == \A u \in Users : at[u] = "idle"

\* selected_node: what group() tells, with "DIRECT" for Nothing.
SelectedNode == IF xrayPid \in Up THEN selected ELSE Nothing

\* What a user who is alone knows of the lane.
KnowsLane(u) ==
  /\ at[u] = "term" => Up \subseteq victims[u]
  /\ at[u] \in {"clear", "unmark", "config", "test", "spawn"} => Up = {}
  /\ at[u] \in {"test", "spawn"} => config = want[u]
  /\ at[u] \in {"pid", "await", "dups", "select"} =>
       Up \subseteq {mine[u]} /\ \A s \in Up : via[s] = want[u]
  /\ at[u] \in {"unmark", "config", "test", "spawn", "pid", "await", "dups", "select"} => selected = Nothing

\* Only one user is at it and knows the lane, there is one server at most, and
\* what was selected is what the named server was started for.
InTurn ==
  /\ \A u, o \in Users : Busy(u) /\ Busy(o) => u = o
  /\ \A u \in Users : KnowsLane(u)
  /\ \A s, t \in Up : s = t
  /\ \A s \in Up : xrayPid = s /\ selected # Nothing => via[s] = selected

\* The inductive invariant of users who take turns and whose stop_lane sees the
\* processes.
LaneInv == LaneTypes /\ (~overlapped /\ ~blind => InTurn)

\* Users who take turns, killed at whatever step, never leave a lane that tells
\* one node and goes through another, even to those who look meanwhile, and
\* whatever these remove or fail to see, unless ps failed in a stop_lane.
TurnsTellTruth ==
  ~overlapped /\ ~blind /\ SelectedNode # Nothing => \A s \in Up : via[s] = SelectedNode

\* Two starts that ran into each other stop the lane rather than leave two
\* servers behind: the later one has seen both, if ps answers.  Users who take
\* turns never have two, not even after one was killed between Popen and the pid
\* file, or when ps fails anywhere but in a stop_lane.
AtMostOneServer ==
  (Quiet /\ userMishaps = 0) \/ ~(overlapped \/ blind) => Cardinality(Up) <= 1

\* Of two servers one at least is somebody's business: of the user who started
\* it and has not looked for duplicates yet, or of one who is stopping the lane.
SomebodySees(s, t) ==
  \E u \in Users : \/ at[u] \in {"pid", "await", "dups"} /\ mine[u] \in {s, t}
                   \/ at[u] = "scan"
                   \/ at[u] = "term" /\ {s, t} \cap victims[u] # {}

\* Inductive, with LaneInv.
PairsAreSeen == userMishaps = 0 => \A s, t \in Up : s = t \/ SomebodySees(s, t)

\* A release, a stop, or a start that failed leaves nothing running, unless
\* somebody else started the lane meanwhile, or ps has failed in a stop_lane.
ReleasedLaneIsClosed ==
  [][ \A u \in Users :
        (/\ at[u] \in {"clear", "unmark"} /\ at'[u] = "idle" /\ userMishaps' = userMishaps
         /\ ~overlapped /\ ~blind)
          => Up = {} ]_laneVars

=============================================================================
