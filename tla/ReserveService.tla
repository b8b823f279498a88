---------------------------- MODULE ReserveService ---------------------------
(***************************************************************************)
(* The maintenance daemon as a process: the lock and the pid file of       *)
(* maintain_reserve (controller.py), the launch agent that keeps it        *)
(* running (launchd.py), and the commands that install, look for and stop  *)
(* it.  What a cycle does is ReserveSync's; here it is one step that       *)
(* starts the gateway and one that works for as long as it likes.          *)
(*                                                                         *)
(* A pid is the name of the daemon it belongs to.  When that daemon is     *)
(* started again, what was read or written of the earlier one is Gone.     *)
(***************************************************************************)
EXTENDS Integers, FiniteSets

CONSTANTS
  Job,            \* the daemon launchd starts
  Manual,         \* the one a user starts in a terminal
  Admins,         \* processes that run install-service, stop-maintenance, ...
  Viewers,        \* processes that run status
  MaxMishaps,     \* how often a daemon is killed, or launchctl fails
  NoPid,          \* no pid file, or no such process
  Gone,           \* the pid of a process that has ended
  Unlocked        \* nobody holds reserve_maintenance.lock

Daemons == {Job, Manual}
Callers == Admins \cup Viewers
Pids    == Daemons \cup {NoPid, Gone}

ASSUME DaemonsAssumption ==
  /\ Job # Manual /\ NoPid # Gone
  /\ NoPid \notin Daemons /\ Gone \notin Daemons /\ Unlocked \notin Daemons
ASSUME ServiceBoundsAssumption == MaxMishaps \in Nat

VARIABLES
  daemon,         \* daemon -> where it is
  stopping,       \* daemon -> its stop event is set
  lock,           \* who holds reserve_maintenance.lock
  pidFile,        \* reserve_maintenance.pid
  enabled,        \* launchd may start the agent
  loaded,         \* launchd has the agent, and keeps it alive
  call,           \* caller -> where it is
  seen,           \* caller -> the pid it read
  gateway,        \* Mihomo is "up", "down", or "halted": everything was stopped
                  \* and nothing has been started since
  mishaps

daemonVars  == <<daemon, stopping, lock>>
launchdVars == <<enabled, loaded>>
callVars    == <<call, seen>>
serviceVars == <<daemonVars, pidFile, launchdVars, callVars, gateway, mishaps>>

\* Its signal handlers are installed.
Looping == {"cycle", "work", "wait"}
\* It holds the lock.
Holding == {"locked", "named", "ending", "closing"} \cup Looping
Alive(d) == daemon[d] # "off"

ServiceTypes ==
  /\ daemon \in [Daemons -> Holding \cup {"off", "born"}]
  /\ stopping \in [Daemons -> BOOLEAN]
  /\ lock \in Daemons \cup {Unlocked}
  /\ pidFile \in Pids
  /\ enabled \in BOOLEAN /\ loaded \in BOOLEAN
  /\ call \in [Callers -> {"idle", "evict", "enable", "bootstrap", "print", "compare",
                           "undo", "unload", "disable", "bootout", "find", "check",
                           "look", "look-check", "signal", "waiting", "stop"}]
  /\ seen \in [Callers -> Pids]
  /\ gateway \in {"up", "down", "halted"}
  /\ mishaps \in 0 .. MaxMishaps

ServiceInit ==
  /\ daemon = [d \in Daemons |-> "off"] /\ stopping = [d \in Daemons |-> FALSE]
  /\ lock = Unlocked
  /\ pidFile \in {NoPid, Gone}
  /\ enabled = FALSE /\ loaded = FALSE
  /\ call = [c \in Callers |-> "idle"] /\ seen = [c \in Callers |-> NoPid]
  /\ gateway \in {"up", "down"} /\ mishaps = 0

(***************************************************************************)
(* The daemon: maintain_reserve.                                           *)
(***************************************************************************)

Moves(d, step) == daemon' = [daemon EXCEPT ![d] = step]

\* Mutant: the lock is a file somebody would have to remove.
EndsLocked(d) ==
  /\ daemon' = [daemon EXCEPT ![d] = "off"]
  /\ stopping' = [stopping EXCEPT ![d] = FALSE]
  /\ lock' = lock

\* The process ends, however it does; the kernel drops its lock.
Ends(d) ==
  /\ daemon' = [daemon EXCEPT ![d] = "off"]
  /\ stopping' = [stopping EXCEPT ![d] = FALSE]
  /\ lock' = IF lock = d THEN Unlocked ELSE lock

\* What was known of an earlier process of that name is about a dead one.
Spawned(d) ==
  /\ ~Alive(d) /\ Moves(d, "born")
  /\ pidFile' = IF pidFile = d THEN Gone ELSE pidFile
  /\ seen' = [c \in Callers |-> IF seen[c] = d THEN Gone ELSE seen[c]]

SomethingStarts == gateway' = IF gateway = "halted" THEN "down" ELSE gateway

UserStarts ==
  /\ Spawned(Manual) /\ SomethingStarts
  /\ UNCHANGED <<stopping, lock, launchdVars, call, mishaps>>

\* RunAtLoad and KeepAlive: after a pause launchd starts the job again.
LaunchdStarts ==
  /\ loaded /\ Spawned(Job)
  /\ UNCHANGED <<stopping, lock, launchdVars, call, gateway, mishaps>>

\* Mutant: the lock is taken from whoever has it.
TakesAnyLock(d) ==
  /\ daemon[d] = "born" /\ Moves(d, "locked") /\ lock' = d
  /\ UNCHANGED <<stopping, pidFile, launchdVars, callVars, gateway, mishaps>>

\* flock with LOCK_NB, or "another reserve maintenance process is already running".
TakesLock(d) ==
  /\ daemon[d] = "born"
  /\ IF lock = Unlocked
     THEN Moves(d, "locked") /\ lock' = d /\ UNCHANGED stopping
     ELSE Ends(d)
  /\ UNCHANGED <<pidFile, launchdVars, callVars, gateway, mishaps>>

WritesPid(d) ==
  /\ daemon[d] = "locked"
  /\ pidFile' = d /\ Moves(d, "named")
  /\ UNCHANGED <<stopping, lock, launchdVars, callVars, gateway, mishaps>>

InstallsHandlers(d) ==
  /\ daemon[d] = "named" /\ Moves(d, "cycle")
  /\ UNCHANGED <<stopping, lock, pidFile, launchdVars, callVars, gateway, mishaps>>

\* ensure_gateway at the beginning of a cycle; its failure is caught.
StartsGateway(d) ==
  /\ daemon[d] = "cycle"
  /\ gateway' \in {"up", gateway} /\ Moves(d, "work")
  /\ UNCHANGED <<stopping, lock, pidFile, launchdVars, callVars, mishaps>>

\* The rest of the cycle.  What pool_report or prune_probe_history raises ends
\* the loop, and so does --once.
CycleEnds(d) ==
  /\ daemon[d] = "work" /\ daemon' \in {[daemon EXCEPT ![d] = s] : s \in {"wait", "ending"}}
  /\ UNCHANGED <<stopping, lock, pidFile, launchdVars, callVars, gateway, mishaps>>

\* Mutant: the loop does not look at the stop event.
NeverStops(d) ==
  /\ daemon[d] = "wait" /\ Moves(d, "cycle")
  /\ UNCHANGED <<stopping, lock, pidFile, launchdVars, callVars, gateway, mishaps>>

\* stop.wait returns at once when the event is set.
WaitEnds(d) ==
  /\ daemon[d] = "wait"
  /\ Moves(d, IF stopping[d] THEN "ending" ELSE "cycle")
  /\ UNCHANGED <<stopping, lock, pidFile, launchdVars, callVars, gateway, mishaps>>

\* Mutant: the lock is given up before the pid file is removed.
UnlocksFirst(d) ==
  /\ daemon[d] = "ending"
  /\ lock' = Unlocked /\ Moves(d, "closing")
  /\ UNCHANGED <<stopping, pidFile, launchdVars, callVars, gateway, mishaps>>
UnlinksLast(d) ==
  /\ daemon[d] = "closing"
  /\ pidFile' = NoPid /\ Ends(d)
  /\ UNCHANGED <<launchdVars, callVars, gateway, mishaps>>
WrongWayOut(d) == UnlocksFirst(d) \/ UnlinksLast(d)

\* The finally clause restores the handlers, removes the pid file, unlocks.
WayOut(d) ==
  \/ /\ daemon[d] = "ending"
     /\ pidFile' = NoPid /\ Moves(d, "closing")
     /\ UNCHANGED <<stopping, lock, launchdVars, callVars, gateway, mishaps>>
  \/ /\ daemon[d] = "closing" /\ Ends(d)
     /\ UNCHANGED <<pidFile, launchdVars, callVars, gateway, mishaps>>

DaemonMoves(d) ==
  \/ TakesLock(d) \/ WritesPid(d) \/ InstallsHandlers(d) \/ StartsGateway(d)
  \/ CycleEnds(d) \/ WaitEnds(d) \/ WayOut(d)

Killed(d) ==
  /\ Alive(d) /\ mishaps < MaxMishaps /\ mishaps' = mishaps + 1
  /\ Ends(d)
  /\ UNCHANGED <<pidFile, launchdVars, callVars, gateway>>

\* SIGTERM: request_stop sets the event; without that handler it is the end.
Terminates(d) ==
  IF daemon[d] \in Looping
  THEN stopping' = [stopping EXCEPT ![d] = TRUE] /\ UNCHANGED <<daemon, lock>>
  ELSE IF Alive(d) THEN Ends(d) ELSE UNCHANGED daemonVars

(***************************************************************************)
(* launchd, as launchctl shows it (external).                              *)
(***************************************************************************)

\* bootout sends SIGTERM and, after a while, SIGKILL.
Unloads ==
  /\ loaded' = FALSE
  /\ IF loaded THEN Terminates(Job) ELSE UNCHANGED daemonVars

LaunchdKills ==
  /\ ~loaded /\ Alive(Job) /\ Ends(Job)
  /\ UNCHANGED <<pidFile, launchdVars, callVars, gateway, mishaps>>

JobPid == IF loaded /\ Alive(Job) THEN Job ELSE NoPid

(***************************************************************************)
(* install_and_start_service.                                              *)
(***************************************************************************)

Knows(c, step, pid) == call' = [call EXCEPT ![c] = step] /\ seen' = [seen EXCEPT ![c] = pid]
Calls(c, step) == Knows(c, step, IF step = "signal" THEN seen[c] ELSE NoPid)

InstallBegins(c) ==
  /\ c \in Admins /\ call[c] = "idle" /\ Calls(c, "evict") /\ SomethingStarts
  /\ UNCHANGED <<daemonVars, pidFile, launchdVars, mishaps>>

\* launchctl does what it is asked to, or not.  When it does not answer in time,
\* the command is over, but not the script that called it.
Mishap == mishaps < MaxMishaps /\ mishaps' = mishaps + 1
GivesUp(c) == Calls(c, "idle") \/ (call[c] \in {"disable", "bootout"} /\ Calls(c, "stop"))

\* Nobody looks at the return code of bootout and disable.
BootsOutAndGoes(c, step) ==
  \/ Unloads /\ Calls(c, step) /\ UNCHANGED mishaps
  \/ Mishap /\ (Unloads \/ UNCHANGED <<loaded, daemonVars>>) /\ (Calls(c, step) \/ GivesUp(c))

Evicts(c) ==
  /\ call[c] = "evict" /\ BootsOutAndGoes(c, "enable")
  /\ UNCHANGED <<pidFile, enabled, gateway>>

Enables(c) ==
  /\ call[c] = "enable"
  /\ \/ enabled' = TRUE /\ Calls(c, "bootstrap") /\ UNCHANGED mishaps
     \/ enabled' \in {TRUE, enabled} /\ Mishap /\ GivesUp(c)
  /\ UNCHANGED <<daemonVars, pidFile, loaded, gateway>>

\* _bootstrap_agent asks again while the old job is on its way out, 21 times,
\* and not at all after any other failure.
Bootstraps(c) ==
  /\ call[c] = "bootstrap"
  /\ LET loads == enabled /\ ~loaded /\ ~Alive(Job)
     IN  \/ loads /\ loaded' = TRUE /\ Calls(c, "print") /\ UNCHANGED mishaps
         \/ ~loads /\ UNCHANGED loaded /\ Calls(c, "idle") /\ UNCHANGED mishaps
         \/ Mishap /\ GivesUp(c) /\ loaded' \in {loaded, loaded \/ loads}
  /\ UNCHANGED <<daemonVars, pidFile, enabled, gateway>>

\* service_status, then _maintenance_pid: two looks, in this order.  A print
\* that fails shows no job.
Prints(c) ==
  /\ call[c] = "print"
  /\ \/ Knows(c, "compare", JobPid) /\ UNCHANGED mishaps
     \/ Mishap /\ (Knows(c, "compare", NoPid) \/ GivesUp(c))
  /\ UNCHANGED <<daemonVars, pidFile, launchdVars, gateway>>

MaintenancePid == IF pidFile \in Daemons /\ Alive(pidFile) THEN pidFile ELSE NoPid

\* Mutant: that some daemon is there is enough.
ComparesAny(c) ==
  /\ call[c] = "compare"
  /\ Calls(c, IF seen[c] # NoPid /\ MaintenancePid # NoPid THEN "idle" ELSE "undo")
  /\ UNCHANGED <<daemonVars, pidFile, launchdVars, gateway, mishaps>>

\* It looks until the two agree on a running job or eight seconds are over, and
\* then only asks whether they agree: two times "none" are agreement.
Compares(c) ==
  LET agree == seen[c] = MaintenancePid
      ready == agree /\ seen[c] # NoPid
  IN  /\ call[c] = "compare"
      /\ \/ ready  /\ Calls(c, "idle")
         \/ ~ready /\ Calls(c, "print")
         \/ ~ready /\ Calls(c, IF agree THEN "idle" ELSE "undo")
      /\ UNCHANGED <<daemonVars, pidFile, launchdVars, gateway, mishaps>>

(***************************************************************************)
(* stop_service; reserve_maintenance_status; stop_reserve_maintenance.     *)
(***************************************************************************)

\* stop-maintenance and disable-service; an install that was not ready undoes
\* itself the same way ("undo").
StopBegins(c) ==
  /\ c \in Admins /\ call[c] = "idle"
  /\ \E s \in {"disable", "undo"} : Calls(c, s)
  /\ UNCHANGED <<daemonVars, pidFile, launchdVars, gateway, mishaps>>

Disables(c) ==
  /\ call[c] \in {"disable", "undo"}
  /\ LET step == IF call[c] = "disable" THEN "bootout" ELSE "unload"
     IN  \/ enabled' = FALSE /\ Calls(c, step) /\ UNCHANGED mishaps
         \/ Mishap /\ enabled' \in {FALSE, enabled} /\ (Calls(c, step) \/ GivesUp(c))
  /\ UNCHANGED <<daemonVars, pidFile, loaded, gateway>>

BootsOut(c) ==
  /\ call[c] \in {"bootout", "unload"}
  /\ BootsOutAndGoes(c, IF call[c] = "bootout" THEN "find" ELSE "idle")
  /\ UNCHANGED <<pidFile, enabled, gateway>>

StatusBegins(c) ==
  /\ c \in Viewers /\ call[c] = "idle" /\ Calls(c, "look")
  /\ UNCHANGED <<daemonVars, pidFile, launchdVars, gateway, mishaps>>

\* No daemon: the stop command goes on to its own status, and the script that
\* called it to the next command.
NotFound(c) == IF call[c] \in {"find", "check", "signal"} THEN {"idle", "stop"} ELSE {"idle"}

Finds(c) ==
  /\ call[c] \in {"find", "look"}
  /\ IF pidFile = NoPid
     THEN \E s \in NotFound(c) : Calls(c, s)
     ELSE Knows(c, IF call[c] = "find" THEN "check" ELSE "look-check", pidFile)
  /\ UNCHANGED <<daemonVars, pidFile, launchdVars, gateway, mishaps>>

\* ps shows whether the pid is a daemon's; if not, the pid file is removed,
\* whatever it says by now.
Checks(c) ==
  /\ call[c] \in {"check", "look-check"}
  /\ IF seen[c] \in Daemons /\ Alive(seen[c])
     THEN Calls(c, IF call[c] = "check" THEN "signal" ELSE "idle") /\ UNCHANGED pidFile
     ELSE (\E s \in NotFound(c) : Calls(c, s)) /\ pidFile' = NoPid
  /\ UNCHANGED <<daemonVars, launchdVars, gateway, mishaps>>

Signals(c) ==
  /\ call[c] = "signal"
  /\ IF seen[c] \in Daemons /\ Alive(seen[c])
     THEN Terminates(seen[c]) /\ Calls(c, "waiting")
     ELSE UNCHANGED daemonVars /\ (\E s \in NotFound(c) : Calls(c, s))
  /\ UNCHANGED <<pidFile, launchdVars, gateway, mishaps>>

\* The daemon has ended, or ten seconds are over: the caller cannot tell.  Then
\* come the status of stop-maintenance and, in the script that stops
\* everything, the stop command.
StopReturns(c) ==
  /\ call[c] = "waiting"
  /\ \E s \in {"look", "stop"} : Calls(c, s)
  /\ UNCHANGED <<daemonVars, pidFile, launchdVars, gateway, mishaps>>

StopsGateway(c) ==
  /\ call[c] = "stop" /\ Calls(c, "idle")
  /\ gateway' = "halted"
  /\ UNCHANGED <<daemonVars, pidFile, launchdVars, mishaps>>

CallBegins(c) == InstallBegins(c) \/ StopBegins(c) \/ StatusBegins(c)
CallMoves(c) ==
  \/ Evicts(c) \/ Enables(c) \/ Bootstraps(c) \/ Prints(c) \/ Compares(c)
  \/ Disables(c) \/ BootsOut(c) \/ Finds(c) \/ Checks(c) \/ Signals(c)
  \/ StopReturns(c) \/ StopsGateway(c)

ServiceNext ==
  \/ UserStarts \/ LaunchdStarts \/ LaunchdKills
  \/ \E d \in Daemons : DaemonMoves(d) \/ Killed(d)
  \/ \E c \in Callers : CallBegins(c) \/ CallMoves(c)

ServiceSpec == ServiceInit /\ [][ServiceNext]_serviceVars

\* Cycles end (every call in them has a timeout), launchd keeps its job alive,
\* and a command that has begun goes on.
ServiceFairness ==
  /\ WF_serviceVars(LaunchdStarts)
  /\ \A d \in Daemons : WF_serviceVars(DaemonMoves(d))
  /\ \A c \in Callers : WF_serviceVars(CallMoves(c))

FairServiceSpec == ServiceSpec /\ ServiceFairness

-----------------------------------------------------------------------------
(***************************************************************************)
(* Properties.                                                             *)
(***************************************************************************)

\* The inductive invariant: whoever is between flock and the end holds the lock,
\* nobody else does, and an installation compares what launchd can show.
ServiceInv ==
  /\ ServiceTypes
  /\ \A d \in Daemons : daemon[d] \in Holding <=> lock = d
  /\ \A d \in Daemons : pidFile = d /\ Alive(d) => daemon[d] \in Holding \ {"locked", "closing"}
  /\ \A c \in Callers : call[c] = "compare" => seen[c] \in {Job, Gone, NoPid}

\* A pid file that names a live process names the one that holds the lock: the
\* file is written after the lock is taken and removed before it is given up,
\* so no daemon ever finds the name of another that is on its way out.
PidNamesHolder == MaintenancePid # NoPid => lock = MaintenancePid

\* Nothing takes the pid file from a daemon in its loop but a status check that
\* read the file before the daemon wrote it.
OnlyLateChecksUnname ==
  [][ \A d \in Daemons :
        pidFile = d /\ pidFile' # d /\ daemon[d] \in Looping /\ daemon'[d] \in Looping
          => \E c \in Callers : /\ call[c] \in {"check", "look-check"} /\ call'[c] # call[c]
                                /\ seen[c] # d ]_serviceVars

\* When an installation that found a job running reports success, that job has
\* entered its loop, and not a daemon somebody started by hand.
InstalledJobHasLock ==
  [][ \A c \in Callers :
        call[c] = "compare" /\ call'[c] = "idle" /\ seen[c] # NoPid => lock = Job ]_serviceVars

\* What is told to stop stops, wherever in its loop it was told.
StopsInTheEnd == \A d \in Daemons : stopping[d] ~> daemon[d] = "off"

\* Installed once and left alone, the reserve is maintained again and again,
\* whatever was killed before ("install once, then only look", README.md:74).
MaintenanceGoesOn ==
  <>[](loaded /\ daemon[Manual] = "off" /\ \A c \in Callers : call[c] = "idle")
    => []<>(daemon[Job] = "work")

\* After stop-maintenance and stop the gateway stays down until something is
\* started: "stops the periodic maintenance of the reserve, ..., the daemon and
\* this project's proxy lanes" (README.md:67).
HaltedStaysDown == [][gateway = "halted" => gateway' # "up"]_serviceVars

\* install-service reports success only when the job is in its loop: "a merely
\* loaded xpcproxy is not sufficient proof that the maintenance loop started"
\* (SKILL.md:88), or else raises (launchd.py:209).
SuccessMeansLooping ==
  [][ \A c \in Callers :
        call[c] = "compare" /\ call'[c] = "idle" => lock = Job ]_serviceVars

=============================================================================
