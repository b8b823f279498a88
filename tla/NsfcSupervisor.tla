---------------------------- MODULE NsfcSupervisor ---------------------------
(***************************************************************************)
(* run-nsfc and stop-nsfc (integrations/nsfc.py).  A run looks for other   *)
(* writers of the data directory, waits for its lanes, starts a lane       *)
(* monitor and a crawler in sessions of their own, and from then on ties   *)
(* their lives together.  Runs, children and stop-nsfc are processes that  *)
(* any signal can reach at any step.                                       *)
(***************************************************************************)
EXTENDS Integers, FiniteSets

CONSTANTS
  Runs,           \* runs of run-nsfc on one data directory
  MaxRunKills     \* how often a run is ended in a way it cannot handle

ASSUME RunBoundsAssumption == MaxRunKills \in Nat

VARIABLES
  run,            \* run -> where it is
  crawler,        \* run -> its autopilot: "none", "up", "told" (SIGTERM)
  working,        \* the runs whose autopilot has started detail workers that
                  \* are still there
  monitor,        \* the runs whose lane monitor is there
  stopWanted,     \* run -> stop_requested, while the loop looks at it
  stop,           \* where stop-nsfc is
  found,          \* by run and role, those it is about to signal that are still
                  \* there
  raced,          \* a run has passed its check while another was between check
                  \* and start
  runKills

childVars == <<crawler, working, monitor>>
stopVars  == <<stop, found>>
nsfcVars  == <<run, childVars, stopWanted, stopVars, raced, runKills>>

\* After the check, before the crawler is there.
Starting == {"lanes", "crawler"}
\* SIGTERM and SIGINT still end the process.
Unguarded == {"check", "handlers"} \cup Starting
\* The finally clause.
Leaving == {"term", "wait"}
\* "done": it returned; "killed": it never got to its end; "off": it is not
\* there, or has given up.
Over == {"off", "done", "killed"}

Writers == {r \in Runs : crawler[r] # "none" \/ r \in working}

\* existing_nsfc_processes: ps shows the autopilots and the detail workers on
\* the data directory, whoever started them.
Roles   == {"autopilot", "detail_worker"}
Writing ==
  {w \in Runs \X Roles : IF w[2] = "autopilot" THEN crawler[w[1]] # "none" ELSE w[1] \in working}

NsfcTypes ==
  /\ run \in [Runs -> Unguarded \cup {"watch"} \cup Leaving \cup Over]
  /\ crawler \in [Runs -> {"none", "up", "told"}]
  /\ working \in SUBSET Runs /\ monitor \in SUBSET Runs
  /\ stopWanted \in [Runs -> BOOLEAN]
  /\ stop \in {"idle", "look", "term", "drain", "kill"} /\ found \in SUBSET (Runs \X Roles)
  /\ raced \in BOOLEAN /\ runKills \in 0 .. MaxRunKills

NsfcInit ==
  /\ run = [r \in Runs |-> "off"]
  /\ crawler = [r \in Runs |-> "none"] /\ working = {} /\ monitor = {}
  /\ stopWanted = [r \in Runs |-> FALSE]
  /\ stop = "idle" /\ found = {} /\ raced = FALSE /\ runKills = 0

RunGoes(r, step) == run' = [run EXCEPT ![r] = step]

(***************************************************************************)
(* run_nsfc.                                                               *)
(***************************************************************************)

\* A run of that name begins again once nothing of the last one is left.
RunBegins(r) ==
  /\ run[r] \in Over /\ r \notin Writers \cup monitor
  /\ RunGoes(r, "check")
  /\ UNCHANGED <<childVars, stopWanted, stopVars, raced, runKills>>

PassesBeside(r) == run'[r] = "lanes" /\ \E o \in Runs \ {r} : run[o] \in Starting

\* Mutant: only the crawlers of runs that are still there are looked for.
LooksAtRuns(r) ==
  /\ run[r] = "check"
  /\ RunGoes(r, IF \E w \in Writers : run[w] \notin Over THEN "off" ELSE "lanes")
  /\ raced' = (raced \/ PassesBeside(r))
  /\ UNCHANGED <<childVars, stopWanted, stopVars, runKills>>

\* The run also gives up when the gateway is down.
LooksForWriters(r) ==
  /\ run[r] = "check"
  /\ \E next \in IF Writers = {} THEN {"lanes", "off"} ELSE {"off"} : RunGoes(r, next)
  /\ raced' = (raced \/ PassesBeside(r))
  /\ UNCHANGED <<childVars, stopWanted, stopVars, runKills>>

\* ensure_lanes gives all lanes, and the monitor is started; or the run waits
\* and asks again, or gives up.
GetsLanes(r) ==
  /\ run[r] = "lanes"
  /\ \/ RunGoes(r, "crawler") /\ monitor' = monitor \cup {r}
     \/ RunGoes(r, "off") /\ UNCHANGED monitor
  /\ UNCHANGED <<crawler, working, stopWanted, stopVars, raced, runKills>>

\* nsfc_command or Popen raises: the monitor is told to go, and goes or not.
StartsCrawler(r) ==
  /\ run[r] = "crawler"
  /\ \/ RunGoes(r, "handlers") /\ crawler' = [crawler EXCEPT ![r] = "up"] /\ UNCHANGED monitor
     \/ RunGoes(r, "off") /\ UNCHANGED <<crawler, monitor>>
  /\ UNCHANGED <<working, stopWanted, stopVars, raced, runKills>>

InstallsRunHandlers(r) ==
  /\ run[r] = "handlers" /\ RunGoes(r, "watch")
  /\ UNCHANGED <<childVars, stopWanted, stopVars, raced, runKills>>

\* Mutant: the loop looks at the crawler only.
WatchesCrawler(r) ==
  /\ run[r] = "watch" /\ (stopWanted[r] \/ crawler[r] = "none")
  /\ RunGoes(r, "term")
  /\ stopWanted' = [stopWanted EXCEPT ![r] = FALSE]
  /\ UNCHANGED <<childVars, stopVars, raced, runKills>>

\* One of the two has exited, or a signal was handled.
Watches(r) ==
  /\ run[r] = "watch" /\ (stopWanted[r] \/ crawler[r] = "none" \/ r \notin monitor)
  /\ RunGoes(r, "term")
  /\ stopWanted' = [stopWanted EXCEPT ![r] = FALSE]
  /\ UNCHANGED <<childVars, stopVars, raced, runKills>>

Told(child) == IF child = "up" THEN "told" ELSE child

\* killpg: workers are in the session of their autopilot; they and the monitor
\* go or not.
TermsChildren(r) ==
  /\ run[r] = "term" /\ RunGoes(r, "wait")
  /\ crawler' = [crawler EXCEPT ![r] = Told(@)]
  /\ UNCHANGED <<working, monitor, stopWanted, stopVars, raced, runKills>>

\* Mutant: who was told to go is trusted to go.
KillsNobody(r) ==
  /\ run[r] = "wait" /\ RunGoes(r, "done")
  /\ UNCHANGED <<stopWanted, childVars, stopVars, raced, runKills>>

\* Both have exited, or ten seconds are over and what is left is killed; the
\* workers of an autopilot that has exited are nobody's.
KillsChildren(r) ==
  /\ run[r] = "wait" /\ RunGoes(r, "done")
  /\ crawler' = [crawler EXCEPT ![r] = "none"] /\ monitor' = monitor \ {r}
  /\ working' = IF crawler[r] # "none" THEN working \ {r} ELSE working
  /\ found' = IF crawler[r] # "none" THEN found \ ({r} \X Roles) ELSE found
  /\ UNCHANGED <<stopWanted, stop, raced, runKills>>

\* request_stop; in the finally clause nobody looks at it any more.
RunSignalled(r) ==
  /\ run[r] = "watch" /\ ~stopWanted[r]
  /\ stopWanted' = [stopWanted EXCEPT ![r] = TRUE]
  /\ UNCHANGED <<run, childVars, stopVars, raced, runKills>>

\* SIGTERM before the handlers are there, SIGKILL at any time: the children go
\* on without it.
RunKilled(r) ==
  /\ run[r] \notin Over /\ runKills < MaxRunKills
  /\ RunGoes(r, "killed") /\ runKills' = runKills + 1
  /\ stopWanted' = [stopWanted EXCEPT ![r] = FALSE]
  /\ UNCHANGED <<childVars, stopVars, raced>>

(***************************************************************************)
(* The children, and stop_nsfc_processes.                                  *)
(***************************************************************************)

\* They finish, fail, or do what SIGTERM asks; nothing makes them.
CrawlerExits(r) ==
  /\ crawler[r] # "none" /\ crawler' = [crawler EXCEPT ![r] = "none"]
  /\ found' = found \ {<<r, "autopilot">>}
  /\ UNCHANGED <<run, working, monitor, stopWanted, stop, raced, runKills>>
MonitorExits(r) ==
  /\ r \in monitor /\ monitor' = monitor \ {r}
  /\ UNCHANGED <<run, crawler, working, stopWanted, stopVars, raced, runKills>>

\* An autopilot that was told to go starts no more workers: stop-nsfc tells it
\* before it tells them.
WorkersStart(r) ==
  /\ crawler[r] = "up" /\ r \notin working /\ working' = working \cup {r}
  /\ UNCHANGED <<run, crawler, monitor, stopWanted, stopVars, raced, runKills>>
WorkersExit(r) ==
  /\ r \in working /\ working' = working \ {r}
  /\ found' = found \ {<<r, "detail_worker">>}
  /\ UNCHANGED <<run, crawler, monitor, stopWanted, stop, raced, runKills>>

StopLooks ==
  /\ stop = "idle" /\ Writing # {} /\ found' = Writing /\ stop' = "term"
  /\ UNCHANGED <<run, childVars, stopWanted, raced, runKills>>

\* Workers that are told go on or exit.
StopTerms ==
  /\ stop = "term" /\ stop' = "drain" /\ found' = {}
  /\ crawler' = [r \in Runs |-> IF <<r, "autopilot">> \in found THEN Told(crawler[r]) ELSE crawler[r]]
  /\ UNCHANGED <<run, working, monitor, stopWanted, raced, runKills>>

\* Mutant: it waits for the autopilots, which were to end their workers.
DrainsAutopilots ==
  /\ stop = "drain" /\ found' = {w \in Writing : w[2] = "autopilot"}
  /\ stop' = IF found' = {} THEN "idle" ELSE "kill"
  /\ UNCHANGED <<run, childVars, stopWanted, raced, runKills>>

\* It looks again until nobody writes or fifteen seconds are over.
StopDrains ==
  /\ stop = "drain" /\ found' = Writing
  /\ stop' = IF Writing = {} THEN "idle" ELSE "kill"
  /\ UNCHANGED <<run, childVars, stopWanted, raced, runKills>>

StopKills ==
  /\ stop = "kill" /\ stop' = "idle" /\ found' = {}
  /\ crawler' = [r \in Runs |-> IF <<r, "autopilot">> \in found THEN "none" ELSE crawler[r]]
  /\ working' = {r \in working : <<r, "detail_worker">> \notin found}
  /\ UNCHANGED <<run, monitor, stopWanted, raced, runKills>>

RunMoves(r) ==
  \/ LooksForWriters(r) \/ GetsLanes(r) \/ StartsCrawler(r)
  \/ InstallsRunHandlers(r) \/ Watches(r) \/ TermsChildren(r) \/ KillsChildren(r)
StopMoves == StopTerms \/ StopDrains \/ StopKills

NsfcNext ==
  \/ \E r \in Runs : \/ RunBegins(r) \/ RunMoves(r) \/ RunSignalled(r) \/ RunKilled(r)
                     \/ CrawlerExits(r) \/ MonitorExits(r) \/ WorkersStart(r) \/ WorkersExit(r)
  \/ StopLooks \/ StopMoves

NsfcSpec == NsfcInit /\ [][NsfcNext]_nsfcVars

\* Whoever has begun goes on; children owe nothing.
NsfcFairness ==
  /\ \A r \in Runs : WF_nsfcVars(RunMoves(r))
  /\ WF_nsfcVars(StopMoves)

FairNsfcSpec == NsfcSpec /\ NsfcFairness

-----------------------------------------------------------------------------
(***************************************************************************)
(* Properties.                                                             *)
(***************************************************************************)

\* The inductive invariant: a run that has not started its crawler has none,
\* one that has returned left none but orphaned workers, and, unless two runs
\* raced, there is one writer or one run about to start it.
NsfcInv ==
  /\ NsfcTypes
  /\ \A r \in Runs :
       /\ run[r] \in {"check", "lanes", "crawler"} => crawler[r] = "none" /\ r \notin working
       /\ run[r] = "done" => crawler[r] = "none" /\ r \notin monitor
  /\ ~raced =>
       /\ \A r \in Runs : run[r] \in Starting => Writers = {}
       /\ \A r, o \in Runs : run[r] \in Starting /\ run[o] \in Starting => r = o
       /\ \A r, o \in Writers : r = o

\* Only one run's crawler and workers write the data directory, the orphans of
\* killed runs and of autopilots included, as long as no two runs are between
\* their check and their start at the same time.
OneWriterUnlessRaced == ~raced => Cardinality(Writers) <= 1

\* "When an NSFC process is there already, a duplicate start is refused"
\* (README.md:66); "refuse duplicate writers" (SKILL.md:72).
OneWriter == Cardinality(Writers) <= 1

\* A run that returned has left neither its autopilot nor its monitor behind,
\* whatever they made of SIGTERM.
NoStrays ==
  \A r \in Runs : run[r] = "done" => crawler[r] = "none" /\ r \notin monitor

\* A crawler does not go on without its lane monitor, nor the monitor without
\* its crawler, nor either after a signal, while the run is there to see it.
ChildrenEndTogether ==
  \A r \in Runs :
    (run[r] = "watch" /\ (stopWanted[r] \/ crawler[r] = "none" \/ r \notin monitor))
      ~> (run[r] = "killed" \/ (crawler[r] = "none" /\ r \notin monitor))

\* When stop-nsfc has found every autopilot, it ends them and all workers, also
\* those they start while it waits, unless a run is starting another meanwhile.
StopEndsWriters ==
  (stop = "term" /\ \A r \in Runs : crawler[r] # "none" => <<r, "autopilot">> \in found)
    ~> (Writers = {} \/ \E r \in Runs : run[r] \in Starting)

=============================================================================
