---------------------------- MODULE ServiceControl ----------------------------
(***************************************************************************)
(* The control plane (openride_control): one ServiceManager, the command   *)
(* thread and the status thread of the agent that owns it, the watcher of  *)
(* a background simulation, and the host the manager starts and stops      *)
(* services on.                                                            *)
(*                                                                         *)
(* A command holds the manager's lock from its first step to its last, so  *)
(* cmd stands for the lock too.  The status thread takes the lock for      *)
(* refresh_states only: it probes before, and reports after, without it.   *)
(***************************************************************************)
EXTENDS Integers, Sequences, FiniteSets, SequencesExt

CONSTANTS
  Compose, Process,     \* services by kind
  ProjectOf,            \* the docker compose project of each compose service
  DependsOn,            \* spec.dependencies: a sequence per service
  Dependents,           \* spec.dependents: a set per service
  StartOrder,           \* BACKEND_START_ORDER
  DisplayOrder,         \* SERVICE_DISPLAY_ORDER and the simulation
  Worker,               \* the service that is pinged before a simulation (celery)
  Sim,                  \* SIMULATION_PROCESS_KEY
  MaxEvents, MaxRuns    \* bounds: commands and crashes together; simulations

Services == Compose \cup Process
Keys == Services \cup {Sim}
Runs == 1 .. MaxRuns
NoProc == 0

ASSUME ControlAssumption ==
  /\ StartOrder \in Seq(Services) /\ Range(StartOrder) = Services /\ Range(DisplayOrder) = Keys /\ Worker \in Process
  /\ Sim \notin Services /\ Compose \cap Process = {}
  /\ DependsOn \in [Services -> Seq(Services)] /\ Dependents \in [Services -> SUBSET Services]
  /\ {MaxEvents, MaxRuns} \subseteq Nat

VARIABLES
  up,        \* host: the services that answer their probe
  sims,      \* host: simulation processes alive
  spawned,   \* host: simulation processes ever spawned
  clean,     \* host: the ones that exited with code 0
  states,    \* manager: ServiceState by key
  proc,      \* manager: the registered simulation process
  watched,   \* manager: processes with a watcher thread
  cmd,       \* the command that holds the lock, or Idle
  status,    \* the status thread: its cache and what it still has to report
  lost,      \* history: services that crashed during the command
  budget     \* bound: commands and crashes left

vars == <<up, sims, spawned, clean, states, proc, watched, cmd, status, lost, budget>>
host == <<up, sims, spawned, clean>>

Settled == {"RUNNING", "STOPPED", "FAILED"}
Transitional == {"STARTING", "STOPPING"}
Idle == [op |-> "idle"]
Resting == [at |-> "rest"]

\* The processes a command's pgrep or Popen can see.
simulationAlive == sims # {}
probe(k) == IF (k = Sim /\ simulationAlive) \/ k \in up THEN "RUNNING" ELSE "STOPPED"

\* refresh_states: every key that is not in transition takes its probe.
\* Slip: a FAILED key is kept as well, like the ones in transition.
refreshedButFailed(seen) ==
  [k \in Keys |-> IF states[k] \in Transitional \cup {"FAILED"} THEN states[k]
                  ELSE IF k = Sim THEN probe(Sim)
                  ELSE IF k \in seen THEN "RUNNING" ELSE "STOPPED"]
refreshed(seen) ==
  [k \in Keys |-> IF states[k] \in Transitional THEN states[k]
                  ELSE IF k = Sim THEN probe(Sim)
                  ELSE IF k \in seen THEN "RUNNING" ELSE "STOPPED"]

Init ==
  /\ up \in SUBSET Services
  /\ sims = {} /\ spawned = 0 /\ clean = {}
  /\ states = [k \in Keys |-> "STOPPED"]
  /\ proc = NoProc /\ watched = {}
  /\ cmd = Idle /\ status = Resting
  /\ lost = {} /\ budget = MaxEvents

-----------------------------------------------------------------------------
(* Commands.  A command is taken off the control topic when the previous   *)
(* one has been answered; "done" is the moment its result is published.    *)

Takes(c) ==
  /\ cmd = Idle /\ budget > 0
  /\ cmd' = c /\ lost' = {}
  /\ budget' = budget - 1
  /\ UNCHANGED <<host, proc, watched, status>>

Done(op, ok, of) == [op |-> "done", was |-> op, ok |-> ok, of |-> of]

Answer ==
  /\ cmd.op = "done"
  /\ cmd' = Idle
  /\ UNCHANGED <<host, states, proc, watched, status, lost, budget>>

\* start and start_backend: the services still to start, the stack of the
\* recursion (a service and how many of its dependencies were looked at),
\* whether dependencies are started, and whether a failure ends the command.
StartPlan(op, todo, deps, aborts) ==
  [op |-> op, todo |-> todo, stack |-> <<>>, deps |-> deps, aborts |-> aborts, ok |-> TRUE,
   launching |-> FALSE, of |-> {}]

Start(k, deps) ==
  /\ Takes(StartPlan("start", <<k>>, deps, TRUE))
  /\ states' = refreshed(up)

StartBackend ==
  /\ Takes(StartPlan("start_backend", StartOrder, FALSE, FALSE))
  /\ UNCHANGED states

\* The next service of the plan is up, or its start begins.
PlanNext ==
  /\ cmd.op \in {"start", "start_backend", "run"}
  /\ cmd.todo # <<>> /\ cmd.stack = <<>>
  /\ LET k == Head(cmd.todo) IN
       cmd' = [cmd EXCEPT !.todo = Tail(@), !.of = @ \cup {k},
                          !.stack = IF k \in up THEN <<>> ELSE <<[key |-> k, looked |-> 0]>>]
  /\ states' = refreshed(up)
  /\ UNCHANGED <<host, proc, watched, status, lost, budget>>

\* start(key, with_dependencies=True) looks at one dependency after the other.
LookAtDependency ==
  /\ cmd.op \in {"start", "start_backend", "run"}
  /\ cmd.stack # <<>> /\ ~cmd.launching
  /\ LET top == Last(cmd.stack)
         dep == DependsOn[top.key][top.looked + 1]
         below == Append(Front(cmd.stack), [top EXCEPT !.looked = @ + 1])
     IN /\ cmd.deps /\ top.looked < Len(DependsOn[top.key])
        /\ cmd' = [cmd EXCEPT !.stack = IF dep \in up THEN below
                                        ELSE Append(below, [key |-> dep, looked |-> 0])]
        /\ states' = IF dep \in up THEN states ELSE refreshed(up)
  /\ UNCHANGED <<host, proc, watched, status, lost, budget>>

Launch ==
  /\ cmd.op \in {"start", "start_backend", "run"}
  /\ cmd.stack # <<>> /\ ~cmd.launching
  /\ LET top == Last(cmd.stack) IN
       /\ ~cmd.deps \/ top.looked = Len(DependsOn[top.key])
       /\ states' = [states EXCEPT ![top.key] = "STARTING"]
  /\ cmd' = [cmd EXCEPT !.launching = TRUE]
  /\ UNCHANGED <<host, proc, watched, status, lost, budget>>

\* docker compose up or the start command, and the readiness wait: it may be
\* ready, never come up, or come up and not be ready in time.  A failed
\* dependency fails every start above it.
comesUp(k, ok) == IF ok THEN {up \cup {k}} ELSE {up, up \cup {k}}
GoesOn(ok) == ok \/ ~cmd.aborts

LaunchEnds(ok) ==
  /\ cmd.op \in {"start", "start_backend", "run"}
  /\ cmd.stack # <<>> /\ cmd.launching
  /\ LET k == Last(cmd.stack).key
         next == [cmd EXCEPT !.launching = FALSE, !.ok = @ /\ ok,
                             !.stack = IF ok THEN Front(@) ELSE <<>>]
     IN /\ up' \in comesUp(k, ok)
        /\ lost' = IF ok THEN lost \ {k} ELSE lost
        /\ states' = [states EXCEPT ![k] = IF ok THEN "RUNNING" ELSE "FAILED",
                                    ![Sim] = IF GoesOn(ok) \/ cmd.op # "run" THEN @ ELSE "FAILED"]
        /\ cmd' = IF GoesOn(ok) THEN next ELSE Done(cmd.op, FALSE, {})
  /\ UNCHANGED <<sims, spawned, clean, proc, watched, status, budget>>

StartEnds ==
  /\ cmd.op \in {"start", "start_backend"}
  /\ cmd.todo = <<>> /\ cmd.stack = <<>>
  /\ cmd' = Done(cmd.op, cmd.ok, cmd.of)
  /\ UNCHANGED <<host, states, proc, watched, status, lost, budget>>

-----------------------------------------------------------------------------
(* Stopping one service, and everything.                                   *)

\* Not running: nothing to do.  A declared dependent runs: refused unless forced.
Stop(k, force) ==
  LET running == k \in up
      blocked == running /\ ~force /\ Dependents[k] \cap up # {}
      fresh == refreshed(up)
  IN /\ Takes(IF running /\ ~blocked THEN [op |-> "stop", of |-> {k}]
              ELSE Done("stop", ~blocked, {k}))
     /\ states' = [fresh EXCEPT ![k] = IF ~running THEN "STOPPED"
                                       ELSE IF blocked THEN @ ELSE "STOPPING"]

\* _stop_compose and _stop_process probe again before they report success.
StopEnds(ok) ==
  /\ cmd.op = "stop"
  /\ up' = IF ok THEN up \ cmd.of ELSE up
  /\ states' = [k \in Keys |-> IF k \notin cmd.of THEN states[k]
                               ELSE IF ok THEN "STOPPED" ELSE "FAILED"]
  /\ cmd' = Done("stop", ok, cmd.of)
  /\ UNCHANGED <<sims, spawned, clean, proc, watched, status, lost, budget>>

\* stop_all: the simulation, the process services in reverse BACKEND_START_ORDER, then
\* project by project.
StopAll ==
  /\ Takes([op |-> "stop_all", procs |-> Process, projects |-> {ProjectOf[k] : k \in Compose},
            simDone |-> FALSE, ok |-> TRUE])
  /\ UNCHANGED states

\* stop_simulation kills by pattern whatever simulation there is.
StopAllSimulation(ok) ==
  /\ cmd.op = "stop_all" /\ ~cmd.simDone
  /\ ok \/ simulationAlive
  /\ sims' = IF ok THEN {} ELSE sims
  /\ proc' = IF simulationAlive THEN NoProc ELSE proc
  /\ cmd' = [cmd EXCEPT !.simDone = TRUE, !.ok = @ /\ ok]
  /\ UNCHANGED <<up, spawned, clean, states, watched, status, lost, budget>>

LatestOf(S) ==
  CHOOSE k \in S : \E i \in 1 .. Len(StartOrder) :
    StartOrder[i] = k /\ \A j \in i + 1 .. Len(StartOrder) : StartOrder[j] \notin S

\* stop_all forces: the dependents of a process service do not hold it up.
StopAllProcess(ok) ==
  /\ cmd.op = "stop_all" /\ cmd.simDone /\ cmd.procs # {}
  /\ LET k == LatestOf(cmd.procs) IN
       /\ ok \/ k \in up
       /\ up' = IF ok THEN up \ {k} ELSE up
       /\ states' = [refreshed(up) EXCEPT ![k] = IF ok THEN "STOPPED" ELSE "FAILED"]
  /\ cmd' = [cmd EXCEPT !.procs = @ \ {LatestOf(cmd.procs)}, !.ok = @ /\ ok]
  /\ UNCHANGED <<sims, spawned, clean, proc, watched, status, lost, budget>>

\* docker compose down of a project, whether it worked or failed half way; what
\* still answers afterwards is FAILED.
StopAllProject ==
  /\ cmd.op = "stop_all" /\ cmd.simDone /\ cmd.procs = {}
  /\ \E p \in cmd.projects :
       LET members == {k \in Compose : ProjectOf[k] = p} IN
       \E left \in SUBSET (members \cap up) :
         /\ up' = (up \ members) \cup left
         /\ states' = [k \in Keys |-> IF k \notin members THEN states[k]
                                      ELSE IF k \in left THEN "FAILED" ELSE "STOPPED"]
         /\ cmd' = [cmd EXCEPT !.projects = @ \ {p}, !.ok = @ /\ left = {}]
  /\ UNCHANGED <<sims, spawned, clean, proc, watched, status, lost, budget>>

StopAllEnds ==
  /\ cmd.op = "stop_all" /\ cmd.simDone /\ cmd.procs = {} /\ cmd.projects = {}
  /\ cmd' = Done("stop_all", cmd.ok, Services)
  /\ UNCHANGED <<host, states, proc, watched, status, lost, budget>>

-----------------------------------------------------------------------------
(* The simulation process.                                                 *)

\* Slip: only the manager's own Popen is asked, not the host.
SeesOwnProcess == proc \in sims
isSimulationRunning == simulationAlive

RunSimulation ==
  /\ spawned < MaxRuns
  /\ IF isSimulationRunning
     THEN Takes(Done("run", FALSE, {})) /\ UNCHANGED states
     ELSE /\ Takes(StartPlan("run", StartOrder, FALSE, TRUE))
          /\ states' = [states EXCEPT ![Sim] = "STARTING"]

\* One worker's pong is enough; a busy pool may answer neither ping.
workerAnswers(pong) == pong => Worker \in up

\* Celery answers a ping, or is killed and started again with its dependencies.
PingWorker(pong) ==
  /\ cmd.op = "run" /\ cmd.todo = <<>> /\ cmd.stack = <<>> /\ ~cmd.deps
  /\ workerAnswers(pong)
  /\ IF pong
     THEN cmd' = [op |-> "spawn"] /\ UNCHANGED <<up, states>>
     ELSE /\ up' = up \ {Worker}
          /\ states' = [states EXCEPT ![Worker] = "STOPPED"]
          /\ cmd' = [cmd EXCEPT !.todo = <<Worker>>, !.deps = TRUE]
  /\ UNCHANGED <<sims, spawned, clean, proc, watched, status, lost, budget>>

RestartedWorker ==
  /\ cmd.op = "run" /\ cmd.todo = <<>> /\ cmd.stack = <<>> /\ cmd.deps
  /\ cmd' = [op |-> "spawn"]
  /\ UNCHANGED <<host, states, proc, watched, status, lost, budget>>

Spawn ==
  /\ cmd.op = "spawn"
  /\ spawned' = spawned + 1 /\ sims' = sims \cup {spawned + 1}
  /\ proc' = spawned + 1
  /\ cmd' = [op |-> "settle"]
  /\ UNCHANGED <<up, clean, states, watched, status, lost, budget>>

\* Two seconds later: still there and watched, or FAILED and cleaned up.
Settle ==
  /\ cmd.op = "settle"
  /\ LET alive == proc \in sims IN
       /\ states' = [states EXCEPT ![Sim] = IF alive THEN "RUNNING" ELSE "FAILED"]
       /\ watched' = IF alive THEN watched \cup {proc} ELSE watched
       /\ proc' = IF alive THEN proc ELSE NoProc
       /\ sims' = IF alive THEN sims ELSE {}
       /\ cmd' = Done("run", alive, {Sim})
  /\ UNCHANGED <<up, spawned, clean, status, lost, budget>>

StopSimulation ==
  /\ Takes(IF simulationAlive THEN [op |-> "stop_sim"] ELSE Done("stop_sim", TRUE, {Sim}))
  /\ states' = [states EXCEPT ![Sim] = IF simulationAlive THEN "STOPPING" ELSE "STOPPED"]

StopSimulationEnds(ok) ==
  /\ cmd.op = "stop_sim"
  /\ ok \/ simulationAlive
  /\ sims' = IF ok THEN {} ELSE sims
  /\ proc' = NoProc
  /\ states' = [states EXCEPT ![Sim] = IF ok THEN "STOPPED" ELSE "FAILED"]
  /\ cmd' = Done("stop_sim", ok, {Sim})
  /\ UNCHANGED <<up, spawned, clean, watched, status, lost, budget>>

\* The watcher of run p gets the lock some time after p has gone, and drops
\* whatever process is registered by then.
WatcherEnds(p) ==
  /\ p \in watched /\ p \notin sims /\ cmd.op \in {"idle", "done"}
  /\ watched' = watched \ {p}
  /\ proc' = NoProc
  /\ states' = [states EXCEPT ![Sim] = IF p \in clean THEN "STOPPED" ELSE "FAILED"]
  /\ UNCHANGED <<host, cmd, status, lost, budget>>

-----------------------------------------------------------------------------
(* The status thread: all_snapshots.                                       *)

BuildCache ==
  /\ status.at = "rest"
  /\ status' = [at |-> "cached", seen |-> up \cap Compose]
  /\ UNCHANGED <<host, states, proc, watched, cmd, lost, budget>>

\* refresh_states(cache) needs the lock; celery and the dataplane are probed
\* here and remembered.
RefreshStates ==
  /\ status.at = "cached" /\ cmd.op \in {"idle", "done"}
  /\ LET seen == status.seen \cup (up \cap Process) IN
       /\ states' = refreshed(seen)
       /\ status' = [at |-> "report", seen |-> seen, left |-> DisplayOrder]
  /\ UNCHANGED <<host, proc, watched, cmd, lost, budget>>

\* snapshot(key, cache), without the lock: the remembered state is read first,
\* the cache may be older than a command that ran since.
SnapshotReads ==
  /\ status.at = "report"
  /\ LET k == Head(status.left) IN
       status' = [at |-> "write", seen |-> status.seen, left |-> status.left,
                  transitional |-> states[k],
                  probed |-> IF k = Sim THEN probe(Sim)
                             ELSE IF k \in status.seen THEN "RUNNING" ELSE "STOPPED"]
  /\ UNCHANGED <<host, states, proc, watched, cmd, lost, budget>>

\* What snapshot() makes of the remembered state t and the probe p.
StoresProbe(t, p) ==
  \/ t = "STARTING" /\ p = "RUNNING"
  \/ t = "STOPPING" /\ p = "STOPPED"
  \/ t \in {"RUNNING", "STOPPED"}

SnapshotWrites ==
  /\ status.at = "write"
  /\ states' = IF ~StoresProbe(status.transitional, status.probed) THEN states
               ELSE [states EXCEPT ![Head(status.left)] = status.probed]
  /\ status' = IF Len(status.left) = 1 THEN Resting
               ELSE [at |-> "report", seen |-> status.seen, left |-> Tail(status.left)]
  /\ UNCHANGED <<host, proc, watched, cmd, lost, budget>>

-----------------------------------------------------------------------------
(* The host.                                                               *)

Crash(k) ==
  /\ k \in up /\ budget > 0
  /\ up' = up \ {k} /\ lost' = lost \cup {k}
  /\ budget' = budget - 1
  /\ UNCHANGED <<sims, spawned, clean, states, proc, watched, cmd, status>>

SimExits(p, code) ==
  /\ p \in sims
  /\ sims' = sims \ {p}
  /\ clean' = IF code = 0 THEN clean \cup {p} ELSE clean
  /\ UNCHANGED <<up, spawned, states, proc, watched, cmd, status, lost, budget>>

-----------------------------------------------------------------------------
Command ==
  \/ \E k \in Services, b \in BOOLEAN : Start(k, b) \/ Stop(k, b)
  \/ StartBackend \/ StopAll \/ RunSimulation \/ StopSimulation

Step ==
  \/ PlanNext \/ LookAtDependency \/ Launch \/ StartEnds \/ StopAllProject \/ StopAllEnds
  \/ RestartedWorker \/ Spawn \/ Settle \/ Answer
  \/ \E ok \in BOOLEAN : \/ LaunchEnds(ok) \/ StopEnds(ok) \/ StopAllSimulation(ok)
                         \/ StopAllProcess(ok) \/ PingWorker(ok) \/ StopSimulationEnds(ok)

Status == BuildCache \/ RefreshStates \/ SnapshotReads \/ SnapshotWrites

Host == (\E k \in Services : Crash(k)) \/ (\E p \in Runs, c \in {0, 1} : SimExits(p, c))

Next == Command \/ Step \/ Status \/ Host \/ (\E p \in Runs : WatcherEnds(p))

\* A command runs to its end, the heartbeat goes on, a watcher gets the lock.
Spec ==
  /\ Init /\ [][Next]_vars
  /\ WF_vars(Step) /\ WF_vars(Status)
  /\ \A p \in Runs : WF_vars(WatcherEnds(p))

-----------------------------------------------------------------------------
(* Properties.                                                             *)

\* Two simulations never share the host, although the registered process is
\* dropped by an old watcher and a failed stop forgets it (is_simulation_running).
OneSimulation == Cardinality(sims) <= 1

\* A key is shown in transition only while some command holds the lock: no
\* error path, and no unlocked snapshot, leaves one that refresh would skip for ever.
TransitionalMeansBusy ==
  cmd.op \in {"idle", "done"} => \A k \in Keys : states[k] \in Settled

\* A simulation is spawned only on a backend that was brought up whole: what is
\* missing crashed since the command began (_ensure_backend_for_simulation).
SimulationHasBackend == cmd.op = "spawn" => Services \subseteq (up \cup lost)

\* What a result says is true: after a start that succeeded the service is up or has
\* crashed, after a stop that succeeded it is gone, after stop_all nothing is left.
ResultsAreTrue ==
  (cmd.op = "done" /\ cmd.ok) =>
    CASE cmd.was \in {"start", "start_backend"} -> cmd.of \subseteq (up \cup lost)
      [] cmd.was = "stop" -> cmd.of \cap up = {}
      [] cmd.was = "stop_all" -> up = {}
      [] cmd.was = "stop_sim" -> sims = {}
      [] OTHER -> TRUE

\* What the lock of ServiceManager must keep true although watchers, the status
\* thread and the host act outside it.
ControlSafe ==
  OneSimulation /\ TransitionalMeansBusy /\ SimulationHasBackend /\ ResultsAreTrue

\* Once commands and crashes have ended, the states the page shows become the
\* probed ones and stay so, whatever a stale cache or an old watcher wrote.
StatusConverges == <>[](\A k \in Keys : states[k] = probe(k))
=============================================================================
