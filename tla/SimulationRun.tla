----------------------------- MODULE SimulationRun -----------------------------
(***************************************************************************)
(* One simulation process: the step loop of SimulationRuntime              *)
(* (apps/simulation/simulation_runtime.py), the spawn batching of          *)
(* BatchedPrecomputedAgentSource, HorizonDrainTermination, the writes of   *)
(* run_config.status under Eve's etags, and the terminal run_status sent   *)
(* by the signal hook, the runtime and main().                             *)
(*                                                                         *)
(* The schedulers appear through what termination reads of them: how many  *)
(* domain agents are registered and awake, and which service agents are    *)
(* registered.  The step barrier itself is StepBarrier.                    *)
(***************************************************************************)
EXTENDS Integers, Sequences, FiniteSets

CONSTANTS
    HorizonSteps,   \* SIMULATION_LENGTH_IN_STEPS
    MaxDrain,       \* POST_HORIZON_DRAIN_MAX_STEPS
    Services,       \* the agents of the service scheduler
    OrdersDue,      \* step -> number of order agents registered for it
    SpawnCap,       \* ORDER_SPAWN_MAX_PER_STEP
    Attempts,       \* STATUS_PATCH_MAX_ATTEMPTS and TERMINAL_STATUS_PATCH_MAX_ATTEMPTS
    MaxRivals,      \* bound: writes of other clients to the run record
    MaxFaults,      \* bound: failed or unanswered requests, failed steps
    MaxSignals      \* bound: SIGTERM

ASSUME RunAssumption ==
    /\ HorizonSteps \in Nat \ {0} /\ MaxDrain \in Nat /\ IsFiniteSet(Services)
    /\ OrdersDue \in [0..HorizonSteps -> Nat] /\ SpawnCap \in Nat \ {0}
    /\ Attempts \in Nat \ {0} /\ {MaxRivals, MaxFaults, MaxSignals} \subseteq Nat

VARIABLES
    pc, step, isFinal,
    backlog, live, spawned,      \* orders waiting; awake domain agents; orders spawned so far
    svc,                         \* service agents: "boot", "up" or "gone"
    doc, cached,                 \* the run record: status and etag; the etag held
    etag, attempt, tries, want, outcome,     \* update_status and its retry loops
    stray,                       \* PATCHes the client gave up on that may still arrive
    published, latch, failed,    \* terminal run_status, its latch, was there an exception
    finalized,                   \* _finalize_unserved_orders has run
    rivals, faults, signals

statusVars == <<etag, attempt, tries, want, outcome>>
worldVars  == <<step, isFinal, backlog, live, spawned, svc>>
endVars    == <<published, latch, failed, finalized>>
vars == <<pc, worldVars, doc, cached, statusVars, stray, endVars, rivals, faults, signals>>

Cap == HorizonSteps + MaxDrain
Succeeded(o) == o \in {"OK", "RETRIED_OK"}

Init ==
    /\ pc = "start" /\ step = 0 /\ isFinal = FALSE
    /\ backlog = 0 /\ live = 0 /\ spawned = 0
    /\ svc = [s \in Services |-> "boot"]
    /\ doc = [status |-> "none", etag |-> 0] /\ cached = 0
    /\ etag = 0 /\ attempt = 0 /\ tries = 0 /\ want = "none" /\ outcome = "none"
    /\ stray = {} /\ published = <<>> /\ latch = FALSE /\ failed = FALSE /\ finalized = FALSE
    /\ rivals = 0 /\ faults = 0 /\ signals = 0

-----------------------------------------------------------------------------
(* Publishing                                                              *)

\* _publish_terminal of install_terminal_status_publisher: once per process.
PublishOnce(status) ==
    /\ published' = IF latch THEN published ELSE Append(published, status)
    /\ latch' = TRUE

\* run_simulation raised: it publishes FAILED through the latch, main() again
\* without it.
Abort ==
    /\ failed' = TRUE
    /\ published' = (IF latch THEN published ELSE Append(published, "FAILED")) \o <<"FAILED">>
    /\ latch' = TRUE
    /\ pc' = "exit"
    /\ UNCHANGED finalized

-----------------------------------------------------------------------------
(* Start                                                                   *)

\* run_simulation installs the hook; on_before_run posts the run record. A failure
\* there is raised to main(), outside the runtime's own handler.
Start ==
    /\ pc = "start"
    /\ doc' = [status |-> "InProgress", etag |-> 1]
    /\ cached' = 1
    /\ pc' = "loop"
    /\ UNCHANGED <<worldVars, statusVars, stray, endVars, rivals, faults, signals>>

StartFails ==
    /\ pc = "start" /\ faults < MaxFaults
    /\ faults' = faults + 1
    /\ failed' = TRUE /\ published' = Append(published, "FAILED")
    /\ pc' = "exit"
    /\ UNCHANGED <<worldVars, doc, cached, statusVars, stray, latch, finalized, rivals, signals>>

-----------------------------------------------------------------------------
(* HorizonDrainTermination and the agent source                            *)

LastDue == CHOOSE n \in 0..HorizonSteps : /\ OrdersDue[n] > 0 \/ n = 0
                                          /\ \A m \in n + 1 .. HorizonSteps : OrdersDue[m] = 0

\* _ready_for_final_shutdown, over the last step the source served (is_exhausted),
\* its backlog and the awake domain agents.
CapReached == step >= Cap
\* Slip: the cap does not count.
ReadyUncapped(served, waiting, awake) ==
    step >= HorizonSteps /\ served >= LastDue /\ waiting = 0 /\ awake = 0
ReadyForFinalShutdown(served, waiting, awake) ==
    \/ CapReached
    \/ step >= HorizonSteps /\ served >= LastDue /\ waiting = 0 /\ awake = 0
ServiceDrained == \A s \in Services : svc[s] = "gone"
ShouldTerminate == ReadyForFinalShutdown(step - 1, backlog, live) /\ ServiceDrained

\* agents_for_step: orders deferred earlier go first, at most SpawnCap are spawned.
Overflow(due) == IF due > SpawnCap THEN due - SpawnCap ELSE 0
SpawnAndStep ==
    /\ pc = "loop" /\ ~ShouldTerminate
    /\ LET due == backlog + (IF step \in DOMAIN OrdersDue THEN OrdersDue[step] ELSE 0)
           launched == IF due > SpawnCap THEN SpawnCap ELSE due
       IN /\ backlog' = Overflow(due)
          /\ live' = live + launched
          /\ spawned' = spawned + launched
    \* the source has served this step when is_final_step asks it
    /\ isFinal' = (ReadyForFinalShutdown(step, backlog', live') /\ ~ServiceDrained)
    /\ pc' = "step"
    /\ UNCHANGED <<step, svc, doc, cached, statusVars, stray, endVars, rivals, faults, signals>>

\* Both schedulers step: domain agents finish or go to sleep, a final step shuts
\* down every service agent that has booted and every domain agent.
StepSchedulers ==
    /\ pc = "step"
    /\ \E n \in 0..live : live' = IF isFinal THEN 0 ELSE n
    /\ svc' = [s \in Services |-> IF isFinal /\ svc[s] = "up" THEN "gone" ELSE svc[s]]
    /\ pc' = "status"
    /\ UNCHANGED <<step, isFinal, backlog, spawned, doc, cached, statusVars, stray, endVars, rivals,
                   faults, signals>>

\* A scheduler raises: the consecutive-timeout abort.
StepRaises ==
    /\ pc = "step" /\ faults < MaxFaults
    /\ faults' = faults + 1
    /\ Abort
    /\ UNCHANGED <<worldVars, doc, cached, statusVars, stray, rivals, signals>>

\* A service agent's first reply clears pending_boot.
ServiceBoots(s) ==
    /\ pc # "exit" /\ svc[s] = "boot"
    /\ svc' = [svc EXCEPT ![s] = "up"]
    /\ UNCHANGED <<pc, step, isFinal, backlog, live, spawned, doc, cached, statusVars, stray, endVars,
                   rivals, faults, signals>>

-----------------------------------------------------------------------------
(* update_status                                                           *)

BeginWrite(status, next) ==
    /\ want' = status /\ etag' = cached /\ attempt' = 1 /\ outcome' = "none"
    /\ pc' = next

\* _should_update_status with RUNTIME_STATUS_UPDATE_INTERVAL_STEPS = 1: every step.
\* Bound: the etag grows with every write, so the steps past the cap, which are all
\* alike, write no further progress here.
WriteProgress ==
    /\ pc = "status" /\ step <= Cap
    /\ BeginWrite("InProgress", "patch")
    /\ tries' = 0
    /\ UNCHANGED <<worldVars, doc, cached, stray, endVars, rivals, faults, signals>>

PastCap ==
    /\ pc = "status" /\ step > Cap
    /\ pc' = "nextStep"
    /\ UNCHANGED <<worldVars, doc, cached, statusVars, stray, endVars, rivals, faults, signals>>

\* The server (Eve): a PATCH lands only under the current etag.
\* Slip: the PATCH is sent without If-Match.
LandsAlways(e) == TRUE
Lands(e) == e = doc.etag
Patched(status) == [status |-> status, etag |-> doc.etag + 1]

\* _record_status_write and _apply_status_write: the record is kept only on
\* success; what follows depends on which write it was.
Settle(o, newEtag) ==
    /\ outcome' = o
    /\ cached' = IF Succeeded(o) THEN newEtag ELSE cached
    /\ pc' = IF want = "success" THEN "terminal" ELSE "nextStep"

\* 200: the first attempt is OK, a later one RETRIED_OK.
PatchOk ==
    /\ pc = "patch" /\ Lands(etag)
    /\ doc' = Patched(want)
    /\ Settle(IF attempt = 1 THEN "OK" ELSE "RETRIED_OK", doc.etag + 1)
    /\ UNCHANGED <<worldVars, etag, attempt, tries, want, stray, endVars, rivals, faults, signals>>

\* 412 on the last attempt: the race is lost; before that, back off and re-GET.
\* Slip: the retry goes on with the etag it has.
RetryWithSame == etag
RetryEtag == doc.etag
PatchStale ==
    /\ pc = "patch" /\ ~Lands(etag)
    /\ IF attempt = Attempts
         THEN /\ Settle("STALE_ETAG_EXHAUSTED", cached)
              /\ UNCHANGED attempt
         ELSE /\ attempt' = attempt + 1 /\ pc' = "refresh"
              /\ UNCHANGED <<outcome, cached>>
    /\ UNCHANGED <<worldVars, doc, etag, tries, want, stray, endVars, rivals, faults, signals>>

Refresh ==
    /\ pc = "refresh"
    /\ etag' = RetryEtag /\ pc' = "patch"
    /\ UNCHANGED <<worldVars, doc, cached, attempt, tries, want, outcome, stray, endVars,
                   rivals, faults, signals>>

\* Any other status code, on the PATCH or on the GET: not retried here.
ServerError ==
    /\ pc \in {"patch", "refresh"} /\ faults < MaxFaults
    /\ faults' = faults + 1
    /\ Settle("SERVER_ERROR", cached)
    /\ UNCHANGED <<worldVars, doc, etag, attempt, tries, want, stray, endVars, rivals, signals>>

\* The request times out: the PATCH may still arrive, now or much later.
PatchTimesOut ==
    /\ pc = "patch" /\ faults < MaxFaults
    /\ faults' = faults + 1
    /\ stray' = stray \cup {[status |-> want, etag |-> etag]}
    /\ Settle("EXCEPTION", cached)
    /\ UNCHANGED <<worldVars, doc, etag, attempt, tries, want, endVars, rivals, signals>>

StrayArrives ==
    /\ \E m \in stray :
          /\ stray' = stray \ {m}
          /\ doc' = IF Lands(m.etag) THEN Patched(m.status) ELSE doc
    /\ UNCHANGED <<pc, worldVars, cached, statusVars, endVars, rivals, faults, signals>>

\* The assignment agent stamps meta.market: another writer of the same record.
RivalWrites ==
    /\ rivals < MaxRivals /\ doc.etag > 0 /\ pc # "exit"
    /\ rivals' = rivals + 1
    /\ doc' = [doc EXCEPT !.etag = @ + 1]
    /\ UNCHANGED <<pc, worldVars, cached, statusVars, stray, endVars, faults, signals>>

\* The end of the loop body. Steps past the cap are all alike, so the counter
\* stops there.
NextStep ==
    /\ pc = "nextStep"
    /\ step' = IF step <= Cap THEN step + 1 ELSE step
    /\ pc' = "loop"
    /\ UNCHANGED <<isFinal, backlog, live, spawned, svc, doc, cached, statusVars, stray, endVars,
                   rivals, faults, signals>>

-----------------------------------------------------------------------------
(* on_simulation_complete                                                  *)

\* _finalize_unserved_orders and _finalize_kpi_breakdowns swallow their failures.
Finalize ==
    /\ pc = "loop" /\ ShouldTerminate
    /\ finalized' = TRUE
    /\ BeginWrite("success", "patch")
    /\ tries' = 1
    /\ UNCHANGED <<worldVars, doc, cached, stray, published, latch, failed, rivals, faults,
                   signals>>

\* _write_terminal_status: every failing outcome is retried; a write that failed
\* for good is announced through the latch instead.
TriesExhausted == tries >= Attempts
Terminal ==
    /\ pc = "terminal"
    /\ IF ~Succeeded(outcome) /\ ~TriesExhausted
         THEN /\ BeginWrite("success", "patch") /\ tries' = tries + 1
              /\ UNCHANGED <<published, latch>>
         ELSE /\ IF Succeeded(outcome) THEN UNCHANGED <<published, latch>>
                                       ELSE PublishOnce("COMPLETED")
              /\ pc' = "announce"
              /\ UNCHANGED <<etag, attempt, tries, want, outcome>>
    /\ UNCHANGED <<worldVars, doc, cached, stray, failed, finalized, rivals, faults, signals>>

\* main(): COMPLETED is pushed without the latch; the flush that follows still
\* runs with the signal handler installed.
Announce ==
    /\ pc = "announce"
    /\ published' = Append(published, "COMPLETED")
    /\ pc' = "flush"
    /\ UNCHANGED <<worldVars, doc, cached, statusVars, stray, latch, failed, finalized,
                   rivals, faults, signals>>

Flush ==
    /\ pc = "flush" /\ pc' = "exit"
    /\ UNCHANGED <<worldVars, doc, cached, statusVars, stray, endVars, rivals, faults, signals>>

\* _on_signal: CANCELLED through the latch, then sys.exit.
Signal ==
    /\ pc # "exit" /\ signals < MaxSignals
    /\ signals' = signals + 1
    /\ PublishOnce("CANCELLED")
    /\ pc' = "exit"
    /\ UNCHANGED <<worldVars, doc, cached, statusVars, stray, failed, finalized, rivals, faults>>

Rest == pc = "exit" /\ UNCHANGED vars

-----------------------------------------------------------------------------
Status == PatchOk \/ PatchStale \/ Refresh
Process ==
    \/ Start \/ SpawnAndStep \/ StepSchedulers \/ WriteProgress \/ PastCap \/ Status
    \/ NextStep \/ Finalize \/ Terminal \/ Announce \/ Flush

Next ==
    \/ Process
    \/ StartFails \/ StepRaises \/ ServerError \/ PatchTimesOut
    \/ StrayArrives \/ RivalWrites \/ Signal \/ Rest
    \/ \E s \in Services : ServiceBoots(s)

\* The process runs; a run's remaining domain agents finish in the end only
\* because the drain is capped, so nothing is assumed of them.
Spec == Init /\ [][Next]_vars /\ WF_vars(Process)

\* The same with workers that pick up every service task.
SpecBooting == Spec /\ \A s \in Services : WF_vars(ServiceBoots(s))

-----------------------------------------------------------------------------
(* Properties                                                              *)

\* Types; a COMPLETED run announces itself at most twice, a failed one too.
TypeOK ==
    /\ pc \in {"start", "loop", "step", "status", "patch", "refresh", "nextStep",
               "terminal", "announce", "flush", "exit"}
    /\ step \in 0..Cap + 1 /\ backlog \in Nat /\ live \in Nat
    /\ svc \in [Services -> {"boot", "up", "gone"}]
    /\ attempt \in 0..Attempts /\ tries \in 0..Attempts
    /\ Len(published) <= 2

\* A write reported as landed has landed, whatever other clients and late requests
\* do: while a write's success is current, the record carries its status.
OutcomeHonest == (Succeeded(outcome) /\ pc # "patch") => doc.status = want

\* A process that ended, by whatever path, has left a terminal run_status.
NeverLeftRunning == pc = "exit" => published # <<>>

\* Fewer rival writes than attempts cannot cost the run its final status: with no
\* other fault the record ends as success.
RivalsAreSurvived ==
    (pc = "exit" /\ faults = 0 /\ signals = 0 /\ rivals < Attempts) => doc.status = "success"

\* A run that ends before the drain cap has spawned every planned order, however
\* many steps the spawn cap spread them over.  Planned[n]: the orders due before n.
Planned[n \in 0 .. HorizonSteps + 1] ==
    IF n = 0 THEN 0 ELSE Planned[n - 1] + OrdersDue[n - 1]
AllOrdersSpawned == (finalized /\ step < Cap) => spawned = Planned[HorizonSteps + 1]

\* run_config never goes from success back to In Progress, although a PATCH that
\* timed out can arrive late.
SuccessIsFinal == [][doc.status = "success" => doc'.status = "success"]_vars

\* What a run must keep whatever fails, arrives late or interrupts it.
RunSafe ==
    /\ TypeOK /\ OutcomeHonest /\ NeverLeftRunning /\ RivalsAreSurvived /\ AllOrdersSpawned
=============================================================================
