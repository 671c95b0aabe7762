------------------------------ MODULE Supervisor ------------------------------
(***************************************************************************)
(* One supervised task of apps/dataplane/supervisor.py: a runner thread    *)
(* that calls the task function again and again with a backoff, the        *)
(* watchdog that abandons a wedged thread and starts a new generation, and *)
(* the liveness verdict behind /health.                                    *)
(*                                                                         *)
(* Clocks are ages: Tick makes every one a unit older, up to a value past  *)
(* all the timeouts.  The state describes a task after start().            *)
(***************************************************************************)
EXTENDS Integers, FiniteSets

CONSTANTS
  HeartbeatTimeout, StallTimeout, ResetAfter,   \* ages
  BackoffMax,          \* the longest backoff; the first one is 1
  UnhealthyAfter,      \* consecutive failures that make a storm
  MaxGen               \* bound: generations

ASSUME SupervisorAssumption ==
  /\ {HeartbeatTimeout, StallTimeout, ResetAfter, BackoffMax, UnhealthyAfter, MaxGen}
       \subseteq Nat \ {0}
  /\ HeartbeatTimeout < StallTimeout /\ HeartbeatTimeout < ResetAfter

VARIABLES
  stop,           \* the service's stop event
  restart_on_stall, \* the task opted in to being restarted; set once
  gen,            \* _generation
  thread,         \* where the runner thread of each generation is
  heartbeat,      \* age of _last_heartbeat
  progress,       \* age of _last_progress, or Never
  round,          \* age of _round_started, or Never
  failures,       \* _consecutive_failures, counted up to UnhealthyAfter
  finished, join_failed,
  backoff,        \* each runner's own next delay
  wait,           \* what is left of its sleep
  attempt,        \* age of each runner's current attempt
  beat            \* history: age of the last beat of each generation, or Never

switches == <<stop, restart_on_stall>>
taskVars == <<switches, gen, thread, heartbeat, progress, round, failures, finished, join_failed,
          backoff, wait, attempt, beat>>

Gens == 1 .. MaxGen
Oldest == StallTimeout + ResetAfter    \* past every timeout
Never == Oldest + 1
Ages == 0 .. Oldest

\* A thread is running the task function, or is stuck in a call of it.
Working(g) == thread[g] \in {"fn", "wedged"}
Alive(g) == thread[g] \notin {"unborn", "dead"}

-----------------------------------------------------------------------------
TaskInit ==
  /\ stop = FALSE
  /\ restart_on_stall \in BOOLEAN
  /\ gen = 1
  /\ thread = [g \in Gens |-> IF g = 1 THEN "top" ELSE "unborn"]
  /\ heartbeat = 0
  /\ progress = Never
  /\ round = Never
  /\ failures = 0
  /\ finished = FALSE
  /\ join_failed = FALSE
  /\ backoff = [g \in Gens |-> 1]
  /\ wait = [g \in Gens |-> 0]
  /\ attempt = [g \in Gens |-> 0]
  /\ beat = [g \in Gens |-> Never]

-----------------------------------------------------------------------------
(* The runner of generation g.                                             *)

\* The end of the runner: only the current generation is finished by it.
Exit(g) ==
  /\ thread' = [thread EXCEPT ![g] = "dead"]
  /\ finished' = (finished \/ g = gen)

\* Top of the loop: leave when stopped or abandoned, else begin an attempt.
RunnerLeaves(g) ==
  /\ thread[g] = "top"
  /\ stop \/ g # gen
  /\ IF stop THEN Exit(g) ELSE thread' = [thread EXCEPT ![g] = "dead"] /\ UNCHANGED finished
  /\ UNCHANGED <<switches, gen, heartbeat, progress, round, failures, join_failed, backoff, wait,
                 attempt, beat>>

RunnerBegins(g) ==
  /\ thread[g] = "top"
  /\ ~stop /\ g = gen
  /\ round' = 0
  /\ heartbeat' = 0
  /\ attempt' = [attempt EXCEPT ![g] = 0]
  /\ thread' = [thread EXCEPT ![g] = "fn"]
  /\ UNCHANGED <<switches, gen, progress, failures, finished, join_failed, backoff, wait, beat>>

\* Slip: a beat of an abandoned thread counts.
HeartbeatSlip(g) ==
  /\ thread[g] = "fn"
  /\ beat' = [beat EXCEPT ![g] = 0]
  /\ heartbeat' = 0
  /\ progress' = 0
  /\ UNCHANGED <<switches, gen, thread, round, failures, finished, join_failed, backoff, wait,
                 attempt>>

\* heartbeat(): ignored from an abandoned thread.
Heartbeat(g) ==
  /\ thread[g] = "fn"
  /\ beat' = [beat EXCEPT ![g] = 0]
  /\ heartbeat' = IF g = gen THEN 0 ELSE heartbeat
  /\ progress' = IF g = gen THEN 0 ELSE progress
  /\ UNCHANGED <<switches, gen, thread, round, failures, finished, join_failed, backoff, wait,
                 attempt>>

\* Slip: stopping reads the service's stop event alone.
StoppingSlip(g) == stop

\* stopping, asked by the thread of generation g.
Stopping(g) == stop \/ g # gen

\* The task function blocks in a call, and perhaps comes back.
Wedge(g) ==
  /\ thread[g] = "fn"
  /\ thread' = [thread EXCEPT ![g] = "wedged"]
  /\ UNCHANGED <<switches, gen, heartbeat, progress, round, failures, finished, join_failed,
                 backoff, wait, attempt, beat>>

Unwedge(g) ==
  /\ thread[g] = "wedged"
  /\ thread' = [thread EXCEPT ![g] = "fn"]
  /\ UNCHANGED <<switches, gen, heartbeat, progress, round, failures, finished, join_failed,
                 backoff, wait, attempt, beat>>

\* After the function ended: an abandoned runner returns; the current one counts
\* the failure unless the attempt had settled, and sleeps.
Account(g) ==
  IF g # gen
  THEN /\ thread' = [thread EXCEPT ![g] = "dead"]
       /\ UNCHANGED <<heartbeat, round, failures, finished, backoff, wait>>
  ELSE LET settled == attempt[g] >= ResetAfter
           delay == IF settled THEN 1 ELSE backoff[g]
       IN  /\ thread' = [thread EXCEPT ![g] = "backoff"]
           /\ round' = Never
           /\ heartbeat' = 0
           /\ failures' = IF settled THEN 0
                          ELSE IF failures < UnhealthyAfter THEN failures + 1 ELSE failures
           /\ wait' = [wait EXCEPT ![g] = delay]
           /\ backoff' = [backoff EXCEPT ![g] = IF 2 * delay < BackoffMax THEN 2 * delay
                                                ELSE BackoffMax]
           /\ UNCHANGED finished

\* The function sees stopping and returns, or raises whenever it likes.
FnEnds(g) ==
  /\ IF stop THEN Exit(g) /\ UNCHANGED <<heartbeat, round, failures, backoff, wait>>
             ELSE Account(g)
  /\ UNCHANGED <<switches, gen, progress, join_failed, attempt, beat>>

FnReturns(g) == thread[g] = "fn" /\ Stopping(g) /\ FnEnds(g)

FnRaises(g) == Working(g) /\ FnEnds(g)

\* _stop.wait(backoff) ends.
BackoffEnds(g) ==
  /\ thread[g] = "backoff"
  /\ stop \/ wait[g] = 0
  /\ IF stop THEN Exit(g) ELSE thread' = [thread EXCEPT ![g] = "top"] /\ UNCHANGED finished
  /\ UNCHANGED <<switches, gen, heartbeat, progress, round, failures, join_failed, backoff, wait,
                 attempt, beat>>

-----------------------------------------------------------------------------
(* The watchdog, the verdict, the shutdown.                                *)

\* Function progress when there was any, else the runner's own mark.
LivenessAge == IF progress # Never THEN progress ELSE heartbeat

\* Slip: a thread that never made progress has no age to be stalled by.
StalledSlip == ~stop /\ Alive(gen) /\ progress # Never /\ progress > StallTimeout

Stalled == ~stop /\ Alive(gen) /\ LivenessAge > StallTimeout

\* Slip: every stalled task is restarted.
RestartStalledSlip ==
  /\ Stalled
  /\ gen < MaxGen
  /\ heartbeat' = 0
  /\ progress' = Never
  /\ finished' = FALSE
  /\ gen' = gen + 1
  /\ thread' = [thread EXCEPT ![gen + 1] = "top"]
  /\ UNCHANGED <<switches, round, failures, join_failed, backoff, wait, attempt, beat>>

RestartStalled ==
  /\ restart_on_stall
  /\ Stalled
  /\ gen < MaxGen
  /\ heartbeat' = 0
  /\ progress' = Never
  /\ finished' = FALSE
  /\ gen' = gen + 1
  /\ thread' = [thread EXCEPT ![gen + 1] = "top"]
  /\ UNCHANGED <<switches, round, failures, join_failed, backoff, wait, attempt, beat>>

Storm ==
  failures >= UnhealthyAfter /\ ~(round # Never /\ round >= ResetAfter)

Healthy ==
  /\ ~join_failed
  /\ \/ stop /\ finished
     \/ Alive(gen) /\ ~Storm /\ LivenessAge <= HeartbeatTimeout

StopTask ==
  /\ ~stop
  /\ stop' = TRUE
  /\ UNCHANGED <<restart_on_stall, gen, thread, heartbeat, progress, round, failures, finished,
                 join_failed, backoff, wait, attempt, beat>>

JoinTimesOut ==
  /\ stop /\ ~join_failed
  /\ Alive(gen)
  /\ join_failed' = TRUE
  /\ UNCHANGED <<switches, gen, thread, heartbeat, progress, round, failures, finished,
                 backoff, wait, attempt, beat>>

-----------------------------------------------------------------------------
Older(a) == IF a < Oldest THEN a + 1 ELSE a
OlderOrNever(a) == IF a = Never THEN Never ELSE Older(a)

Tick ==
  /\ heartbeat' = Older(heartbeat)
  /\ progress' = OlderOrNever(progress)
  /\ round' = OlderOrNever(round)
  /\ attempt' = [g \in Gens |-> IF Working(g) THEN Older(attempt[g]) ELSE attempt[g]]
  /\ beat' = [g \in Gens |-> OlderOrNever(beat[g])]
  /\ wait' = [g \in Gens |-> IF wait[g] > 0 THEN wait[g] - 1 ELSE 0]
  /\ UNCHANGED <<switches, gen, thread, failures, finished, join_failed, backoff>>

\* What a thread that is not stuck goes on to do.
Running(g) == RunnerLeaves(g) \/ RunnerBegins(g) \/ FnReturns(g) \/ BackoffEnds(g)

TaskNext ==
  \/ \E g \in Gens : \/ Running(g) \/ Heartbeat(g) \/ FnRaises(g)
                     \/ Wedge(g) \/ Unwedge(g)
  \/ RestartStalled
  \/ StopTask
  \/ JoinTimesOut
  \/ Tick

TaskSpec == TaskInit /\ [][TaskNext]_taskVars

\* Threads that are not stuck are scheduled, the watchdog ticks, time passes.
TaskFairness ==
  /\ \A g \in Gens : WF_taskVars(Running(g))
  /\ WF_taskVars(RestartStalled)
  /\ WF_taskVars(Tick)

FairTaskSpec == TaskSpec /\ TaskFairness

-----------------------------------------------------------------------------
(* Properties.                                                             *)

TaskTypeOK ==
  /\ {stop, restart_on_stall, finished, join_failed} \subseteq BOOLEAN
  /\ gen \in Gens
  /\ thread \in [Gens -> {"unborn", "top", "fn", "wedged", "backoff", "dead"}]
  /\ heartbeat \in Ages
  /\ {progress, round} \subseteq Ages \cup {Never}
  /\ failures \in 0 .. UnhealthyAfter
  /\ backoff \in [Gens -> 1 .. BackoffMax]
  /\ wait \in [Gens -> 0 .. BackoffMax]
  /\ attempt \in [Gens -> Ages]
  /\ beat \in [Gens -> Ages \cup {Never}]

\* "the *task function* (not the runner) has made progress recently": a verdict of
\* healthy on a running task means that the CURRENT generation made progress, or
\* has not had the time to; no beat of an abandoned thread is taken for work.
HealthyMeansProgress ==
  Healthy /\ ~stop =>
    \/ beat[gen] <= HeartbeatTimeout
    \/ beat[gen] = Never /\ heartbeat <= HeartbeatTimeout

\* healthy(): after a storm "the task is only considered recovered once the *current*
\* attempt has survived reset_after seconds".  One window is left open by the code:
\* restart_stalled keeps _round_started, so until its new thread takes the first
\* step the abandoned attempt's age still counts.
StormIsUnhealthy ==
  Healthy /\ ~stop /\ failures >= UnhealthyAfter
    => \/ Working(gen) /\ attempt[gen] >= ResetAfter
       \/ gen > 1 /\ thread[gen] = "top" /\ beat[gen] = Never

\* SupervisedTask.healthy(): a verdict of healthy is never given to a task whose
\* current thread does nothing, or that has just come out of a crash storm.
HealthIsHonest == TaskTypeOK /\ HealthyMeansProgress /\ StormIsUnhealthy

\* build_tasks: "two threads polling the same confluent Consumer object is worse than
\* one stuck thread": a task that did not opt in never has two threads at work.
NeverTwoPollers == ~restart_on_stall => Cardinality({g \in Gens : Working(g)}) <= 1

\* stopping: a superseded thread that is not stuck leaves, instead of running forever
\* beside its replacement; so does every thread once the service stops.
SupersededLeave ==
  \A g \in Gens : (Alive(g) /\ (stop \/ g # gen)) ~> (~Alive(g) \/ thread[g] = "wedged")

\* watchdog_tick: a task that opted in and is stuck in a call is replaced, or comes
\* back, or is stopped; it is never left alone for good.
StuckIsReplaced ==
  \A g \in Gens : (thread[g] = "wedged" /\ restart_on_stall /\ gen = g /\ g < MaxGen /\ ~stop)
                    ~> (gen # g \/ thread[g] # "wedged" \/ stop)

===============================================================================
