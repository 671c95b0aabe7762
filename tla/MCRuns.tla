-------------------------------- MODULE MCRuns --------------------------------
(***************************************************************************)
(* What must come to an end: a simulation run, and the recovery of the     *)
(* dataplane's consumer from writes that failed, an instance of each in    *)
(* one state space.  Init chooses the part that behaves; the other stays   *)
(* at its Init.                                                            *)
(***************************************************************************)
EXTENDS SimulationRun

VARIABLES
  part,
  end, gone, group, stored, loop, stopping, handled, position, buffer,
  max_seen, commit_at, flush_floor, blocked, committed, cooling, commit_due,
  refusals, crashes, stops, rebalances

\* One deferred topic and one that is not, without compaction: a record behind a gap
\* stays blocked.  No handler accepts the first kpi record: it is discarded on every
\* delivery.  One refused write and one ordered stop.
Consumer == INSTANCE DataplaneConsumer WITH
  Topics <- {"kpi", "run_status"}, FlushTopics <- {"kpi"}, CompactedTopics <- {},
  Poison <- {<<"kpi", 0>>}, Preassigned <- {"kpi", "run_status"}, Earliest <- FALSE,
  PollBatch <- 2, MaxOffset <- 2, MaxFaults <- 1, MaxCrashes <- 0, MaxStops <- 1,
  MaxRebalances <- 0, pc <- loop, faults <- refusals

\* All the orders are due at the start, more than a step may spawn.
Due == [n \in 0..2 |-> IF n = 0 THEN 3 ELSE 0]

-----------------------------------------------------------------------------
consumerVars == <<end, gone, group, stored, loop, stopping, handled, position, buffer, max_seen,
                  commit_at, flush_floor, blocked, committed, cooling, commit_due, refusals,
                  crashes, stops, rebalances>>

RunsInit == part \in {"run", "consumer"} /\ Init /\ Consumer!Init
RunStep == part = "run" /\ Next /\ UNCHANGED <<part, consumerVars>>
ConsumerStep == part = "consumer" /\ Consumer!Next /\ UNCHANGED <<part, vars>>

\* The fairness of each module's own specification.
RunsSpec ==
  /\ RunsInit /\ [][RunStep \/ ConsumerStep]_<<part, vars, consumerVars>>
  /\ WF_vars(part = "run" /\ Process)
  /\ \A s \in Services : WF_vars(part = "run" /\ ServiceBoots(s))
  /\ WF_consumerVars(part = "consumer" /\ Consumer!Loop)
  /\ WF_consumerVars(part = "consumer" /\ Consumer!Restart)
  /\ WF_consumerVars(part = "consumer" /\ Consumer!CommitIntervalElapses)
  /\ \A t \in {"kpi", "run_status"} :
       /\ SF_consumerVars(part = "consumer" /\ Consumer!HandleOk(t))
       /\ WF_consumerVars(part = "consumer" /\ Consumer!SeekBackoffElapses(t))

-----------------------------------------------------------------------------
\* SimulationRun: a run that starts ends, because past the drain cap no domain agent
\* can hold it open.
RunEnds == part = "run" ~> (part = "run" /\ pc = "exit")

\* DataplaneConsumer: once writes stop failing, a blocked partition is rewound until it
\* clears (_rewind_blocked) ...
BlockClears == Consumer!BlockClears

\* ... and every record produced is committed in the end, across an ordered stop.
EventuallyCommitted == Consumer!EventuallyCommitted
===============================================================================
