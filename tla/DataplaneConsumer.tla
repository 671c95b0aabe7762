-------------------------- MODULE DataplaneConsumer --------------------------
(***************************************************************************)
(* The offset protocol of apps/dataplane/ingest/consumer.py: one poll      *)
(* thread reads single-partition topics, hands each record to its handler, *)
(* flushes the rows the deferred handlers buffered, commits the offsets    *)
(* whose rows are durable and rewinds the partitions that hold a record    *)
(* known not to be written.                                                *)
(*                                                                         *)
(* A record is its offset.  A topic's log only grows, except that a        *)
(* compacted topic may lose superseded records.  Everything the process    *)
(* keeps in memory (the dictionaries of the class, the row buffer of the   *)
(* service) is lost when it dies; the broker's log and group offsets and   *)
(* the store's rows survive.                                               *)
(***************************************************************************)
EXTENDS Integers, FiniteSets

CONSTANTS
  Topics,            \* the subscribed topics, one partition each
  FlushTopics,       \* topics whose handler defers its write to the flush
  CompactedTopics,   \* topics the broker declares cleanup.policy=compact
  Poison,            \* <<topic, offset>> no handler will ever accept
  Preassigned,       \* topics the group had a committed offset on at the start
  Earliest,          \* auto.offset.reset is "earliest" (the code passes "latest")
  PollBatch,         \* POLL_BATCH, records handled between two commit ticks
  MaxOffset,         \* bound: records ever produced per topic
  MaxFaults,         \* bound: handler raises, failed flushes, failed commits
  MaxCrashes,        \* bound: hard kills of the process
  MaxStops,          \* bound: ordered shutdowns
  MaxRebalances      \* bound: times the broker resets the fetch positions

ASSUME ConsumerAssumption ==
  /\ FlushTopics \subseteq Topics
  /\ CompactedTopics \subseteq Topics \ FlushTopics
  /\ Preassigned \subseteq Topics
  /\ Earliest \in BOOLEAN
  /\ PollBatch \in Nat \ {0}
  /\ {MaxOffset, MaxFaults, MaxCrashes, MaxStops, MaxRebalances} \subseteq Nat

VARIABLES
  \* The broker.
  end,          \* next offset to be produced
  gone,         \* offsets compaction removed
  group,        \* the group's committed offset
  \* The store.
  stored,       \* records whose rows are durable
  \* The process.
  pc,           \* where the poll loop is
  stopping,     \* an ordered shutdown is under way
  handled,      \* records handled in this batch
  position,     \* the client's fetch position
  buffer,       \* rows accepted by a deferred handler and not yet written
  max_seen, commit_at, flush_floor, blocked, committed,  \* the class's dicts
  cooling,      \* a seek happened less than SEEK_BACKOFF_S ago
  commit_due,   \* commit_interval_s has passed since _last_commit_at
  \* Bookkeeping of the bounds.
  faults, crashes, stops, rebalances

broker == <<end, gone, group>>
ledger == <<max_seen, commit_at, flush_floor, blocked>>
bounds == <<faults, crashes, stops, rebalances>>
vars == <<end, gone, group, stored, pc, stopping, handled, position, buffer,
          max_seen, commit_at, flush_floor, blocked, committed, cooling,
          commit_due, faults, crashes, stops, rebalances>>

-----------------------------------------------------------------------------
(* Operators.                                                              *)

Unset == -1      \* a key a dictionary does not hold

Offsets == 0 .. MaxOffset
Maybe == Offsets \cup {Unset}

Larger(a, b) == IF a >= b THEN a ELSE b

\* Where the group resumes a partition it is (re)assigned.
ResumeAt(t) ==
  IF group[t] # Unset THEN group[t]
  ELSE IF Earliest THEN 0 ELSE end[t]

\* The records the broker can still deliver from the fetch position on.
Deliverable(t) == {o \in position[t] .. end[t] - 1 : o \notin gone[t]}

NextRecord(t, o) == /\ o \in Deliverable(t)
                    /\ \A x \in Deliverable(t) : o <= x

\* A record that needs no further delivery: written, worthless, or superseded.
Accounted(t, o) == \/ o \in stored[t]
                   \/ <<t, o>> \in Poison
                   \/ o \in gone[t]

-----------------------------------------------------------------------------
TypeOK ==
  /\ end \in [Topics -> Offsets]
  /\ gone \in [Topics -> SUBSET Offsets]
  /\ group \in [Topics -> Maybe]
  /\ stored \in [Topics -> SUBSET Offsets]
  /\ pc \in {"down", "poll", "flush", "commit", "rewind"}
  /\ stopping \in BOOLEAN
  /\ handled \in 0 .. PollBatch
  /\ position \in [Topics -> Offsets]
  /\ buffer \in [Topics -> SUBSET Offsets]
  /\ max_seen \in [Topics -> Maybe]
  /\ commit_at \in [Topics -> Maybe]
  /\ flush_floor \in [Topics -> Maybe]
  /\ blocked \in [Topics -> Maybe]
  /\ committed \in [Topics -> Maybe]
  /\ cooling \in [Topics -> BOOLEAN]
  /\ commit_due \in BOOLEAN
  /\ faults \in 0 .. MaxFaults
  /\ crashes \in 0 .. MaxCrashes
  /\ stops \in 0 .. MaxStops
  /\ rebalances \in 0 .. MaxRebalances

\* The group joins empty logs; where it resumes decides what a restart replays.
Init ==
  /\ end = [t \in Topics |-> 0]
  /\ gone = [t \in Topics |-> {}]
  /\ group = [t \in Topics |-> IF t \in Preassigned THEN 0 ELSE Unset]
  /\ stored = [t \in Topics |-> {}]
  /\ pc = "poll"
  /\ stopping = FALSE
  /\ handled = 0
  /\ position = [t \in Topics |-> 0]
  /\ buffer = [t \in Topics |-> {}]
  /\ max_seen = [t \in Topics |-> Unset]
  /\ commit_at = [t \in Topics |-> Unset]
  /\ flush_floor = [t \in Topics |-> Unset]
  /\ blocked = [t \in Topics |-> Unset]
  /\ committed = [t \in Topics |-> Unset]
  /\ cooling = [t \in Topics |-> FALSE]
  /\ commit_due = TRUE
  /\ faults = 0
  /\ crashes = 0
  /\ stops = 0
  /\ rebalances = 0

-----------------------------------------------------------------------------
(* The broker and the clock.                                               *)

Produce(t) ==
  /\ end[t] < MaxOffset
  /\ end' = [end EXCEPT ![t] = @ + 1]
  /\ UNCHANGED <<gone, group, stored, pc, stopping, handled, position, buffer,
                 ledger, committed, cooling, commit_due, bounds>>

\* The log cleaner drops a record a later one of the same key supersedes; it
\* never drops the newest record and knows nothing of the consumer.
Compact(t) ==
  /\ t \in CompactedTopics
  /\ \E o \in 0 .. end[t] - 2 :
       /\ o \notin gone[t]
       /\ gone' = [gone EXCEPT ![t] = @ \cup {o}]
  /\ UNCHANGED <<end, group, stored, pc, stopping, handled, position, buffer,
                 ledger, committed, cooling, commit_due, bounds>>

\* The client loses and regains its partitions: it resumes where the group
\* stands, with every dictionary of the process as it was.
Rebalance ==
  /\ pc = "poll"
  /\ rebalances < MaxRebalances
  /\ rebalances' = rebalances + 1
  /\ position' = [t \in Topics |-> ResumeAt(t)]
  /\ UNCHANGED <<broker, stored, pc, stopping, handled, buffer, ledger,
                 committed, cooling, commit_due, faults, crashes, stops>>

SeekBackoffElapses(t) ==
  /\ cooling[t]
  /\ cooling' = [cooling EXCEPT ![t] = FALSE]
  /\ UNCHANGED <<broker, stored, pc, stopping, handled, position, buffer,
                 ledger, committed, commit_due, bounds>>

CommitIntervalElapses ==
  /\ pc # "down"
  /\ ~commit_due
  /\ commit_due' = TRUE
  /\ UNCHANGED <<broker, stored, pc, stopping, handled, position, buffer,
                 ledger, committed, cooling, bounds>>

-----------------------------------------------------------------------------
(* The message path.                                                       *)

\* Slip: the commit point steps over a blocked record.
NoteOffsetStepsOverBlock(t, o, ok) ==
  LET rewound == commit_at[t] = Unset \/ o < commit_at[t]
      nxt     == IF rewound THEN o ELSE commit_at[t]
  IN  /\ max_seen' = [max_seen EXCEPT ![t] = Larger(@, o)]
      /\ commit_at' = [commit_at EXCEPT ![t] = IF ok THEN o + 1 ELSE nxt]
      /\ flush_floor' = [flush_floor EXCEPT ![t] = IF @ = Unset THEN o ELSE @]
      /\ blocked' = [blocked EXCEPT ![t] = IF ok THEN Unset ELSE o]

\* The offset rule, applied to the record at offset o of topic t.
NoteOffset(t, o, ok) ==
  LET rewound == commit_at[t] = Unset \/ o < commit_at[t]
      nxt     == IF rewound THEN o ELSE commit_at[t]
      advance == ok /\ (nxt = o \/ blocked[t] = Unset)
      lower   == rewound /\ (flush_floor[t] = Unset \/ o < flush_floor[t])
  IN  /\ max_seen' = [max_seen EXCEPT ![t] = Larger(@, o)]
      /\ commit_at' = [commit_at EXCEPT ![t] = IF advance THEN o + 1 ELSE nxt]
      /\ flush_floor' = [flush_floor EXCEPT ![t] = IF lower THEN o ELSE @]
      /\ blocked' = [blocked EXCEPT ![t] =
                       IF advance THEN Unset
                       ELSE IF ~ok /\ @ = Unset THEN o ELSE @]

\* Slip: the batch limit is not looked at.
PolledWithoutLimit(t, o) ==
  /\ pc = "poll"
  /\ NextRecord(t, o)
  /\ handled' = handled + 1
  /\ position' = [position EXCEPT ![t] = o + 1]
  /\ UNCHANGED <<broker, pc, stopping, committed, cooling, commit_due,
                 crashes, stops, rebalances>>

\* poll() returned the next record of t; the client's position is past it.
Polled(t, o) ==
  /\ pc = "poll"
  /\ handled < PollBatch
  /\ NextRecord(t, o)
  /\ handled' = handled + 1
  /\ position' = [position EXCEPT ![t] = o + 1]
  /\ UNCHANGED <<broker, pc, stopping, committed, cooling, commit_due,
                 crashes, stops, rebalances>>

\* The handler returned: it wrote the row, buffered it for the flush, or threw
\* the record away.
HandleOk(t) ==
  \E o \in Offsets :
    /\ Polled(t, o)
    /\ NoteOffset(t, o, TRUE)
    /\ stored' = IF t \in FlushTopics \/ <<t, o>> \in Poison THEN stored
                 ELSE [stored EXCEPT ![t] = @ \cup {o}]
    /\ buffer' = IF t \in FlushTopics /\ <<t, o>> \notin Poison
                 THEN [buffer EXCEPT ![t] = @ \cup {o}] ELSE buffer
    /\ UNCHANGED faults

\* The handler raised: the store did not take the row.  A deferred handler
\* writes nothing and has nothing to raise about.
HandlerRaises(t) ==
  /\ t \notin FlushTopics
  /\ faults < MaxFaults
  /\ \E o \in Offsets :
       /\ <<t, o>> \notin Poison
       /\ Polled(t, o)
       /\ NoteOffset(t, o, FALSE)
  /\ faults' = faults + 1
  /\ UNCHANGED <<stored, buffer>>

\* poll() returned nothing, or the batch is full: on to the commit tick.
BatchEnds ==
  /\ pc = "poll"
  /\ pc' = "flush"
  /\ handled' = 0
  /\ UNCHANGED <<broker, stored, stopping, position, buffer, ledger, committed,
                 cooling, commit_due, bounds>>

-----------------------------------------------------------------------------
(* commit_safe and the rewind.                                             *)

\* Seek every blocked partition whose back-off has passed, as one call of
\* _seek_back does, given the blocked offsets it was handed.
SeekBack(at) ==
  LET sought == {t \in Topics : at[t] # Unset /\ ~cooling[t]}
  IN  /\ position' = [t \in Topics |-> IF t \in sought THEN at[t] ELSE position[t]]
      /\ cooling' = [t \in Topics |-> cooling[t] \/ t \in sought]

FlushSucceeds ==
  /\ pc = "flush"
  /\ pc' = "commit"
  /\ stored' = [t \in Topics |-> stored[t] \cup buffer[t]]
  /\ buffer' = [t \in Topics |-> {}]
  /\ flush_floor' = commit_at
  /\ UNCHANGED <<broker, stopping, handled, position, max_seen, commit_at,
                 blocked, committed, cooling, commit_due, bounds>>

\* Slip: the commit points are not rolled back.
FlushFailsKeepingOffsets ==
  /\ pc = "flush"
  /\ \E t \in Topics : buffer[t] # {}
  /\ faults < MaxFaults
  /\ faults' = faults + 1
  /\ pc' = "commit"
  /\ buffer' = [t \in Topics |-> {}]
  /\ UNCHANGED <<broker, stored, stopping, handled, position, ledger, cooling,
                 committed, commit_due, crashes, stops, rebalances>>

\* The rows are dropped, the deferred topics' commit points go back to the last
\* flush that returned and those partitions are blocked and rewound there.
FlushFails ==
  /\ pc = "flush"
  /\ \E t \in Topics : buffer[t] # {}
  /\ faults < MaxFaults
  /\ faults' = faults + 1
  /\ pc' = IF stopping THEN "down" ELSE "rewind"
  /\ buffer' = [t \in Topics |-> {}]
  /\ LET rolled == {t \in FlushTopics : commit_at[t] > flush_floor[t]}
     IN  /\ commit_at' = [t \in Topics |->
                            IF t \in rolled THEN flush_floor[t] ELSE commit_at[t]]
         /\ blocked' = [t \in Topics |->
                          IF t \in rolled /\ blocked[t] = Unset
                          THEN flush_floor[t] ELSE blocked[t]]
  /\ SeekBack(blocked')
  /\ UNCHANGED <<broker, stored, stopping, handled, max_seen, flush_floor,
                 committed, commit_due, crashes, stops, rebalances>>

\* What safe_offsets() lists: commit points the broker has not accepted yet.
SafeOffsets == {t \in Topics : commit_at[t] > committed[t]}

AfterCommit == IF stopping THEN "down" ELSE "rewind"

\* Not due, or nothing to commit.
CommitSkipped ==
  /\ pc = "commit"
  /\ ~(commit_due \/ stopping) \/ SafeOffsets = {}
  /\ pc' = AfterCommit
  /\ UNCHANGED <<broker, stored, stopping, handled, position, buffer, ledger,
                 committed, cooling, commit_due, bounds>>

Committing ==
  /\ pc = "commit"
  /\ commit_due \/ stopping
  /\ SafeOffsets # {}
  /\ pc' = AfterCommit
  /\ commit_due' = FALSE
  /\ UNCHANGED <<end, gone, stored, stopping, handled, position, buffer, ledger,
                 cooling, crashes, stops, rebalances>>

Committed(old) == [t \in Topics |-> IF t \in SafeOffsets THEN commit_at[t] ELSE old[t]]

CommitSucceeds ==
  /\ Committing
  /\ group' = Committed(group)
  /\ committed' = Committed(committed)
  /\ UNCHANGED faults

\* Slip: a commit that raised is remembered as accepted.
CommitFailsButRemembered ==
  /\ Committing
  /\ faults < MaxFaults
  /\ faults' = faults + 1
  /\ committed' = Committed(committed)
  /\ UNCHANGED group

\* commit() raised; the broker may have applied the request all the same.
CommitFails ==
  /\ Committing
  /\ faults < MaxFaults
  /\ faults' = faults + 1
  /\ group' \in {group, Committed(group)}
  /\ UNCHANGED committed

\* Slip: the commit tick does not retry a partition a handler blocked.
NoRewind ==
  /\ pc = "rewind"
  /\ pc' = "poll"
  /\ UNCHANGED <<broker, stored, stopping, handled, position, buffer, ledger,
                 committed, cooling, commit_due, bounds>>

RewindIfBlocked ==
  /\ pc = "rewind"
  /\ pc' = "poll"
  /\ SeekBack(blocked)
  /\ UNCHANGED <<broker, stored, stopping, handled, buffer, ledger, committed,
                 commit_due, bounds>>

-----------------------------------------------------------------------------
(* The process.                                                            *)

\* stop(): the poll loop leaves at the top, then one forced commit tick runs.
Stop ==
  /\ pc = "poll"
  /\ handled = 0
  /\ ~stopping
  /\ stops < MaxStops
  /\ stops' = stops + 1
  /\ stopping' = TRUE
  /\ pc' = "flush"
  /\ UNCHANGED <<broker, stored, handled, position, buffer, ledger, committed,
                 cooling, commit_due, faults, crashes, rebalances>>

\* A hard kill, between any two steps.
Crash ==
  /\ pc # "down"
  /\ crashes < MaxCrashes
  /\ crashes' = crashes + 1
  /\ pc' = "down"
  /\ UNCHANGED <<broker, stored, stopping, handled, position, buffer, ledger,
                 committed, cooling, commit_due, faults, stops, rebalances>>

\* A new process: empty dictionaries, fetch positions where the group stands.
Restart ==
  /\ pc = "down"
  /\ pc' = "poll"
  /\ stopping' = FALSE
  /\ handled' = 0
  /\ position' = [t \in Topics |-> ResumeAt(t)]
  /\ buffer' = [t \in Topics |-> {}]
  /\ max_seen' = [t \in Topics |-> Unset]
  /\ commit_at' = [t \in Topics |-> Unset]
  /\ flush_floor' = [t \in Topics |-> Unset]
  /\ blocked' = [t \in Topics |-> Unset]
  /\ committed' = [t \in Topics |-> Unset]
  /\ cooling' = [t \in Topics |-> FALSE]
  /\ commit_due' = TRUE
  /\ UNCHANGED <<broker, stored, bounds>>

Loop == \/ BatchEnds
        \/ FlushSucceeds
        \/ FlushFails
        \/ CommitSkipped
        \/ CommitSucceeds
        \/ CommitFails
        \/ RewindIfBlocked

Next ==
  \/ \E t \in Topics : \/ Produce(t)
                       \/ Compact(t)
                       \/ HandleOk(t)
                       \/ HandlerRaises(t)
                       \/ SeekBackoffElapses(t)
  \/ Rebalance
  \/ CommitIntervalElapses
  \/ Loop
  \/ Stop
  \/ Crash
  \/ Restart

Spec == Init /\ [][Next]_vars

(***************************************************************************)
(* The poll thread keeps looping, the clock advances and systemd restarts  *)
(* the process.  poll() may return empty-handed any number of times, but   *)
(* not for ever while the broker holds a record.                           *)
(***************************************************************************)
Fairness ==
  /\ WF_vars(Loop)
  /\ WF_vars(Restart)
  /\ WF_vars(CommitIntervalElapses)
  /\ \A t \in Topics : /\ SF_vars(HandleOk(t))
                       /\ WF_vars(SeekBackoffElapses(t))

FairSpec == Spec /\ Fairness

-----------------------------------------------------------------------------
(* Properties.                                                             *)

\* The rule the module exists for: an offset the broker holds as committed has
\* nothing unwritten below it, whatever was flushed, rewound, killed or
\* rebalanced in between (commit_safe, "exactly the offsets whose data is
\* durable").
CommittedIsDurable ==
  \A t \in Topics : \A o \in Offsets : o < group[t] => Accounted(t, o)

\* stop(): "A hard kill costs time, never data ... anything unwritten at any
\* moment is replayed by the broker on the next start": no unwritten record lies
\* below the offset a new process would resume at.
UnwrittenIsReplayed ==
  \A t \in Topics : \A o \in Offsets :
    (o < end[t] /\ ~Accounted(t, o)) => ResumeAt(t) <= o

\* Why the offset rule is enough, in the parts that make CommittedIsDurable
\* inductive.  Everything below the last good flush is durable; everything below
\* the commit point is durable or in the buffer, which is empty when an offset is
\* sent to the broker; and on a partition that is not blocked the client has
\* read past nothing else (_note_offset steps over a gap only when nothing below
\* is known to be unwritten).
FloorIsDurable ==
  \A t \in Topics : \A o \in Offsets : o < flush_floor[t] => Accounted(t, o)

CommitPointIsCovered ==
  \A t \in Topics : \A o \in Offsets :
    o < commit_at[t] => Accounted(t, o) \/ o \in buffer[t]

UnblockedReadNothingElse ==
  \A t \in Topics : \A o \in Offsets :
    (blocked[t] = Unset /\ o < position[t])
       => Accounted(t, o) \/ (o \in buffer[t] /\ o < commit_at[t])

BufferIsFlushedFirst ==
  /\ pc = "commit" => \A t \in Topics : buffer[t] = {}
  /\ \A t \in Topics \ FlushTopics : buffer[t] = {}

LedgerEntriesAppearTogether ==
  \A t \in Topics :
    /\ commit_at[t] = Unset => blocked[t] = Unset
    /\ commit_at[t] # Unset => flush_floor[t] # Unset

\* A buffered row belongs to a record the broker delivered.
BufferWasProduced == \A t \in Topics : \A o \in buffer[t] : o < end[t]

EveryPartitionResumes == \A t \in Topics : Earliest \/ group[t] # Unset

OffsetInv ==
  /\ CommittedIsDurable
  /\ FloorIsDurable
  /\ CommitPointIsCovered
  /\ UnblockedReadNothingElse
  /\ BufferIsFlushedFirst
  /\ LedgerEntriesAppearTogether
  /\ EveryPartitionResumes

\* _rewind_blocked: a partition does not stay blocked "for the life of the
\* process": once writes stop failing the block clears.
BlockClears == \A t \in Topics : (pc # "down" /\ blocked[t] # Unset) ~> (blocked[t] = Unset \/ pc = "down")

\* Everything stored is eventually committed, so a restart replays nothing twice
\* for ever.
EventuallyCommitted ==
  \A t \in Topics : \A o \in 0 .. MaxOffset - 1 : (o < end[t]) ~> (o < group[t])

-----------------------------------------------------------------------------
Ingest == INSTANCE DurableIngest

\* The process implements the abstract promise of DurableIngest: whatever the
\* poll loop, the flush and the restarts do, seen from the log, the store and
\* the group offset it only writes produced records and acknowledges durable
\* ones.
IngestSpec == Ingest!Spec

=============================================================================
