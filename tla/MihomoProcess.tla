---------------------------- MODULE MihomoProcess ---------------------------
(***************************************************************************)
(* MihomoProcess (mihomo.py): pid, start and stop of the shared core, in   *)
(* any number of processes at once.  start holds mihomo-start.lock from    *)
(* the look at the pid file until the API answers; stop and pid hold       *)
(* nothing.  GatewayRecovery takes all this for one process that runs or   *)
(* not; here it is seen when that is so.                                   *)
(*                                                                         *)
(* A pid is the name of the core it belongs to; when the name is used      *)
(* again, what was read or written of the earlier core is Gone.            *)
(***************************************************************************)
EXTENDS Integers, FiniteSets

CONSTANTS
  Keepers,        \* processes that call start, stop and running
  Cores,          \* names of Mihomo processes
  MaxKeeperKills, \* how often a keeper is killed in a call
  NoPid,          \* no pid file, or no pid
  Gone,           \* the pid of a core that has ended
  Unlocked        \* nobody holds mihomo-start.lock

ASSUME CoresAssumption ==
  /\ NoPid \notin Cores /\ Gone \notin Cores /\ NoPid # Gone
  /\ Unlocked \notin Keepers
ASSUME KeeperBoundsAssumption == MaxKeeperKills \in Nat

VARIABLES
  core,           \* core -> "off", "boot", "serves" the API, or "mute"
  pidFile,        \* mihomo.pid
  startLock,      \* who holds mihomo-start.lock
  pc,             \* keeper -> where it is in its call
  pid,            \* keeper -> the pid it read, or the core it started
  disturbed,      \* a stop or a look at the pid file ran beside a start, or a
                  \* start was killed between Popen and the pid file
  keeperKills

processVars == <<core, pidFile, startLock, pc, pid, disturbed, keeperKills>>

Pids == Cores \cup {NoPid, Gone}
Live == {k \in Cores : core[k] # "off"}

\* Steps of start that hold the lock: until the core is there, and after.
Starts == {"read", "check", "spawn", "write", "await"}
\* Steps of stop, and of a look (running, describe).
Stops  == {"stop-read", "stop-check", "signal", "outlive", "unlink"}
Looks  == {"look", "look-check"}

InStart(c)  == startLock = c
Unlocks(c)  == startLock' = IF startLock = c THEN Unlocked ELSE startLock
Unguarded(c) == pc[c] \in Stops \cup Looks /\ ~InStart(c)

ProcessTypes ==
  /\ core \in [Cores -> {"off", "boot", "serves", "mute"}]
  /\ pidFile \in Pids
  /\ startLock \in Keepers \cup {Unlocked}
  /\ pc \in [Keepers -> {"idle", "lock"} \cup Starts \cup Stops \cup Looks]
  /\ pid \in [Keepers -> Pids]
  /\ disturbed \in BOOLEAN /\ keeperKills \in 0 .. MaxKeeperKills

ProcessInit ==
  /\ core = [k \in Cores |-> "off"] /\ pidFile \in {NoPid, Gone}
  /\ startLock = Unlocked
  /\ pc = [c \in Keepers |-> "idle"] /\ pid = [c \in Keepers |-> NoPid]
  /\ disturbed = FALSE /\ keeperKills = 0

At(c, step, p) == pc' = [pc EXCEPT ![c] = step] /\ pid' = [pid EXCEPT ![c] = p]
Ends(c) == At(c, "idle", NoPid) /\ Unlocks(c)

(***************************************************************************)
(* Calls begin.                                                            *)
(***************************************************************************)

StartBegins(c) ==
  /\ pc[c] = "idle" /\ At(c, "lock", NoPid)
  /\ UNCHANGED <<core, pidFile, startLock, disturbed, keeperKills>>

TakesStartLock(c) ==
  /\ pc[c] = "lock" /\ startLock = Unlocked /\ startLock' = c
  /\ At(c, "read", NoPid)
  /\ disturbed' = (disturbed \/ \E o \in Keepers : Unguarded(o))
  /\ UNCHANGED <<core, pidFile, keeperKills>>

UnguardedBegins(c) ==
  /\ pc[c] = "idle"
  /\ \E step \in {"stop-read", "look"} : At(c, step, NoPid)
  /\ disturbed' = (disturbed \/ startLock # Unlocked)
  /\ UNCHANGED <<core, pidFile, startLock, keeperKills>>

(***************************************************************************)
(* pid(), the first step of every call.                                    *)
(***************************************************************************)

ReadsPid(c) ==
  /\ pc[c] \in {"read", "stop-read", "look"}
  /\ CASE pidFile # NoPid -> /\ UNCHANGED startLock
                             /\ At(c, CASE pc[c] = "read" -> "check" [] pc[c] = "look" -> "look-check"
                                        [] OTHER -> "stop-check", pidFile)
       [] pidFile = NoPid /\ pc[c] = "read" -> At(c, "spawn", NoPid) /\ UNCHANGED startLock
       [] OTHER -> Ends(c)
  /\ UNCHANGED <<core, pidFile, disturbed, keeperKills>>

\* A live core is returned by start, signalled by stop.  Otherwise the pid file
\* is removed, whatever it says by now.
ChecksPid(c) ==
  /\ pc[c] \in {"check", "stop-check", "look-check"}
  /\ IF pid[c] \in Live
     THEN /\ UNCHANGED pidFile
          /\ IF pc[c] = "stop-check" THEN At(c, "signal", pid[c]) /\ UNCHANGED startLock
                                     ELSE Ends(c)
     ELSE /\ pidFile' = NoPid
          /\ IF pc[c] = "check" THEN At(c, "spawn", NoPid) /\ UNCHANGED startLock
                                ELSE Ends(c)
  /\ UNCHANGED <<core, disturbed, keeperKills>>

(***************************************************************************)
(* _start_locked.                                                          *)
(***************************************************************************)

Spawns(c) ==
  /\ pc[c] = "spawn"
  /\ \E k \in Cores :
       /\ core[k] = "off" /\ core' = [core EXCEPT ![k] = "boot"]
       /\ pidFile' = IF pidFile = k THEN Gone ELSE pidFile
       /\ pc' = [pc EXCEPT ![c] = "write"]
       /\ pid' = [o \in Keepers |-> IF o = c THEN k ELSE IF pid[o] = k THEN Gone ELSE pid[o]]
  /\ UNCHANGED <<startLock, disturbed, keeperKills>>

\* No binary, or no configuration.
SpawnFails(c) ==
  /\ pc[c] = "spawn" /\ Ends(c)
  /\ UNCHANGED <<core, pidFile, disturbed, keeperKills>>

WritesPid(c) ==
  /\ pc[c] = "write" /\ pidFile' = pid[c] /\ At(c, "await", pid[c])
  /\ UNCHANGED <<core, startLock, disturbed, keeperKills>>

\* Mutant: the core that did not answer in time is left alone.
GivesUp(c) ==
  /\ pc[c] = "await"
  /\ pidFile' = NoPid /\ Ends(c)
  /\ UNCHANGED <<core, disturbed, keeperKills>>

\* The core has exited; the API answers, whoever serves it, and every selector
\* is released; or twenty seconds are over, and start calls stop.
Awaits(c) ==
  /\ pc[c] = "await"
  /\ IF pid[c] \notin Live
     THEN pidFile' = NoPid /\ Ends(c)
     ELSE /\ UNCHANGED pidFile
          /\ \/ (\E k \in Cores : core[k] = "serves") /\ Ends(c)
             \/ At(c, "stop-read", NoPid) /\ UNCHANGED startLock
  /\ UNCHANGED <<core, disturbed, keeperKills>>

(***************************************************************************)
(* stop, also as the end of a start.                                       *)
(***************************************************************************)

\* When the core has ended by now, kill raises and the pid file stays.
Signals(c) ==
  /\ pc[c] = "signal"
  /\ IF pid[c] \in Live THEN At(c, "outlive", pid[c]) /\ UNCHANGED startLock ELSE Ends(c)
  /\ UNCHANGED <<core, pidFile, disturbed, keeperKills>>

\* The core has ended, or ten seconds are over and it is killed.
Outlives(c) ==
  /\ pc[c] = "outlive" /\ At(c, "unlink", NoPid)
  /\ core' = [k \in Cores |-> IF k = pid[c] THEN "off" ELSE core[k]]
  /\ UNCHANGED <<pidFile, startLock, disturbed, keeperKills>>

Unlinks(c) ==
  /\ pc[c] = "unlink" /\ pidFile' = NoPid /\ Ends(c)
  /\ UNCHANGED <<core, disturbed, keeperKills>>

\* The kernel drops the lock of a killed keeper.
KeeperKilled(c) ==
  /\ pc[c] # "idle" /\ keeperKills < MaxKeeperKills /\ keeperKills' = keeperKills + 1
  /\ disturbed' = (disturbed \/ pc[c] = "write")
  /\ Ends(c)
  /\ UNCHANGED <<core, pidFile>>

(***************************************************************************)
(* Mihomo (external).  Without the port it runs on and serves no API.      *)
(***************************************************************************)

CoreBoots(k) ==
  /\ core[k] = "boot"
  /\ core' = [core EXCEPT ![k] = IF \E o \in Cores : core[o] = "serves" THEN "mute" ELSE "serves"]
  /\ UNCHANGED <<pidFile, startLock, pc, pid, disturbed, keeperKills>>

CoreExits(k) ==
  /\ core[k] # "off" /\ core' = [core EXCEPT ![k] = "off"]
  /\ UNCHANGED <<pidFile, startLock, pc, pid, disturbed, keeperKills>>

KeeperBegins(c) == StartBegins(c) \/ UnguardedBegins(c)
KeeperMoves(c) ==
  \/ TakesStartLock(c) \/ ReadsPid(c) \/ ChecksPid(c) \/ Spawns(c) \/ SpawnFails(c)
  \/ WritesPid(c) \/ Awaits(c) \/ Signals(c) \/ Outlives(c) \/ Unlinks(c)

ProcessNext ==
  \/ \E c \in Keepers : KeeperBegins(c) \/ KeeperMoves(c) \/ KeeperKilled(c)
  \/ \E k \in Cores : CoreBoots(k) \/ CoreExits(k)

ProcessSpec == ProcessInit /\ [][ProcessNext]_processVars

-----------------------------------------------------------------------------
(***************************************************************************)
(* Properties.                                                             *)
(***************************************************************************)

Writing(k) == \E c \in Keepers : pc[c] = "write" /\ pid[c] = k

\* The lock is held from the look at the pid file to the end of the call.
LockHeld ==
  \A c \in Keepers :
    /\ pc[c] \in Starts => InStart(c)
    /\ InStart(c) => pc[c] \in Starts \cup Stops

\* What a keeper knows of the cores when nothing runs beside a start.
KnowsCores(c) ==
  /\ pc[c] \in {"check", "write", "await"} \cup {"stop-check", "signal", "outlive", "look-check"}
       => Live \subseteq {pid[c]}
  /\ pc[c] \in {"spawn", "unlink"} => Live = {}

\* No stop or look is beside a start, nothing runs that a caller does not know
\* of, and the pid file names what runs.
Undisturbed ==
  /\ \A c \in Keepers : Unguarded(c) => startLock = Unlocked
  /\ \A c \in Keepers : KnowsCores(c)
  /\ \A k \in Live : pidFile = k \/ Writing(k)

\* The inductive invariant.
ProcessInv == ProcessTypes /\ LockHeld /\ (~disturbed => Undisturbed)

\* However many processes call start at once, and whatever they and the cores
\* die of, a running core is one that the pid file names, so that it can be
\* found and stopped; unless a stop or a look, which take no lock, ran beside a
\* start.
LiveCoreIsNamed == ~disturbed => \A k \in Live : pidFile = k \/ Writing(k)

\* Then a second core is never started beside the first.
OneCore == ~disturbed => Cardinality(Live) <= 1

=============================================================================
