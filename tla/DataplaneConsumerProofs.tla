----------------------- MODULE DataplaneConsumerProofs -----------------------
(***************************************************************************)
(* Proofs about the offset protocol, for every set of topics and every     *)
(* value of the bounds.  OffsetInv (with the types) is the inductive       *)
(* invariant; CommittedIsDurable follows once every partition either has a *)
(* committed offset or is reset to the earliest one.  The other parts are  *)
(* about KpiSink, the consumer without a ledger that came before it, and   *)
(* about Supervisor, the tasks that run the pollers.                       *)
(***************************************************************************)
EXTENDS DataplaneConsumer, Supervisor, RunReports,
        FiniteSetTheorems, SequenceTheorems, WellFoundedInduction, TLAPS

LEMMA ConstantTypes ==
  /\ FlushTopics \subseteq Topics
  /\ PollBatch \in Nat \ {0}
  /\ MaxOffset \in Nat
  /\ MaxFaults \in Nat
  /\ MaxCrashes \in Nat
  /\ MaxStops \in Nat
  /\ MaxRebalances \in Nat
BY ConsumerAssumption

\* What a poll delivers lies below the end of the log.
LEMMA DeliveredBounds ==
  ASSUME TypeOK, NEW t \in Topics, NEW o, NextRecord(t, o)
  PROVE  /\ o \in Offsets
         /\ o + 1 \in Offsets
         /\ position[t] <= o
         /\ o < end[t]
BY ConstantTypes DEF TypeOK, NextRecord, Deliverable, Offsets

LEMMA NoteOffsetType ==
  ASSUME TypeOK, NEW t \in Topics, NEW o \in Offsets, o + 1 \in Offsets,
         NEW ok \in BOOLEAN, NoteOffset(t, o, ok)
  PROVE  /\ max_seen' \in [Topics -> Maybe]
         /\ commit_at' \in [Topics -> Maybe]
         /\ flush_floor' \in [Topics -> Maybe]
         /\ blocked' \in [Topics -> Maybe]
BY DEF TypeOK, NoteOffset, Maybe, Larger

LEMMA ResumeType ==
  ASSUME TypeOK, NEW t \in Topics
  PROVE  ResumeAt(t) \in Offsets
BY ConstantTypes DEF TypeOK, ResumeAt, Maybe, Offsets

LEMMA SeekBackType ==
  ASSUME TypeOK, NEW at \in [Topics -> Maybe], SeekBack(at)
  PROVE  position' \in [Topics -> Offsets] /\ cooling' \in [Topics -> BOOLEAN]
<1>1. position' \in [Topics -> Offsets]
  BY DEF TypeOK, SeekBack, Maybe
<1>2. cooling' \in [Topics -> BOOLEAN]
  BY Zenon DEF SeekBack
<1> QED
  BY <1>1, <1>2

LEMMA CommittingType ==
  ASSUME Committing
  PROVE  /\ pc' \in {"down", "poll", "flush", "commit", "rewind"}
         /\ commit_due' \in BOOLEAN
BY Zenon DEF Committing, AfterCommit

LEMMA InitTypes == Init => TypeOK
<1> SUFFICES ASSUME Init PROVE TypeOK
  OBVIOUS
<1>1. cooling \in [Topics -> BOOLEAN]
  BY Zenon DEF Init
<1>2. 0 \in Offsets /\ Unset \in Maybe /\ 0 \in Maybe
  BY ConstantTypes DEF Offsets, Maybe
<1>3. group \in [Topics -> Maybe]
  BY <1>2 DEF Init
<1>4. /\ end \in [Topics -> Offsets]
      /\ position \in [Topics -> Offsets]
      /\ gone \in [Topics -> SUBSET Offsets]
      /\ stored \in [Topics -> SUBSET Offsets]
      /\ buffer \in [Topics -> SUBSET Offsets]
  BY <1>2 DEF Init
<1>5. /\ max_seen \in [Topics -> Maybe]
      /\ commit_at \in [Topics -> Maybe]
      /\ flush_floor \in [Topics -> Maybe]
      /\ blocked \in [Topics -> Maybe]
      /\ committed \in [Topics -> Maybe]
  BY <1>2 DEF Init
<1>6. /\ handled \in 0 .. PollBatch
      /\ faults \in 0 .. MaxFaults
      /\ crashes \in 0 .. MaxCrashes
      /\ stops \in 0 .. MaxStops
      /\ rebalances \in 0 .. MaxRebalances
  BY ConstantTypes DEF Init
<1>7. /\ pc \in {"down", "poll", "flush", "commit", "rewind"}
      /\ stopping \in BOOLEAN
      /\ commit_due \in BOOLEAN
  BY Zenon DEF Init
<1> QED
  BY <1>1, <1>3, <1>4, <1>5, <1>6, <1>7, Zenon DEF TypeOK

LEMMA StepTypes == TypeOK /\ [Next]_vars => TypeOK'
<1> SUFFICES ASSUME TypeOK, [Next]_vars PROVE TypeOK'
  OBVIOUS
<1> USE ConstantTypes
<1>1. ASSUME NEW t \in Topics, Produce(t) PROVE TypeOK'
  BY <1>1 DEF TypeOK, Produce, ledger, bounds, Offsets
<1>2. ASSUME NEW t \in Topics, Compact(t) PROVE TypeOK'
  <2>1. PICK o \in 0 .. end[t] - 2 : gone' = [gone EXCEPT ![t] = @ \cup {o}]
    BY <1>2 DEF Compact
  <2>2. o \in Offsets
    BY DEF TypeOK, Offsets
  <2>3. gone' \in [Topics -> SUBSET Offsets]
    BY <2>1, <2>2 DEF TypeOK
  <2> QED
    BY <1>2, <2>3 DEF TypeOK, Compact, ledger, bounds
<1>3. ASSUME NEW t \in Topics, HandleOk(t) PROVE TypeOK'
  <2>1. PICK o \in Offsets : /\ Polled(t, o)
                             /\ NoteOffset(t, o, TRUE)
                             /\ stored' = IF t \in FlushTopics \/ <<t, o>> \in Poison THEN stored
                                          ELSE [stored EXCEPT ![t] = @ \cup {o}]
                             /\ buffer' = IF t \in FlushTopics /\ <<t, o>> \notin Poison
                                          THEN [buffer EXCEPT ![t] = @ \cup {o}] ELSE buffer
                             /\ UNCHANGED faults
    BY <1>3 DEF HandleOk
  <2>2. o + 1 \in Offsets
    BY <2>1, DeliveredBounds DEF Polled
  <2>3. /\ max_seen' \in [Topics -> Maybe]
        /\ commit_at' \in [Topics -> Maybe]
        /\ flush_floor' \in [Topics -> Maybe]
        /\ blocked' \in [Topics -> Maybe]
    BY <2>1, <2>2, NoteOffsetType
  <2>4. /\ stored' \in [Topics -> SUBSET Offsets]
        /\ buffer' \in [Topics -> SUBSET Offsets]
    BY <2>1 DEF TypeOK
  <2>5. /\ position' \in [Topics -> Offsets]
        /\ handled' \in 0 .. PollBatch
    BY <2>1, <2>2 DEF TypeOK, Polled
  <2> QED
    BY <2>1, <2>3, <2>4, <2>5 DEF TypeOK, Polled, broker
<1>4. ASSUME NEW t \in Topics, HandlerRaises(t) PROVE TypeOK'
  <2>1. PICK o \in Offsets : Polled(t, o) /\ NoteOffset(t, o, FALSE)
    BY <1>4 DEF HandlerRaises
  <2>2. o + 1 \in Offsets
    BY <2>1, DeliveredBounds DEF Polled
  <2>3. /\ max_seen' \in [Topics -> Maybe]
        /\ commit_at' \in [Topics -> Maybe]
        /\ flush_floor' \in [Topics -> Maybe]
        /\ blocked' \in [Topics -> Maybe]
    BY <2>1, <2>2, NoteOffsetType
  <2>4. /\ position' \in [Topics -> Offsets]
        /\ handled' \in 0 .. PollBatch
    BY <2>1, <2>2 DEF TypeOK, Polled
  <2>5. /\ faults' \in 0 .. MaxFaults
        /\ UNCHANGED <<stored, buffer>>
    BY <1>4 DEF HandlerRaises, TypeOK
  <2> QED
    BY <2>1, <2>3, <2>4, <2>5 DEF TypeOK, Polled, broker
<1>5. ASSUME NEW t \in Topics, SeekBackoffElapses(t) PROVE TypeOK'
  BY <1>5 DEF TypeOK, SeekBackoffElapses, broker, ledger, bounds
<1>6. CASE Rebalance
  BY <1>6, ResumeType DEF TypeOK, Rebalance, broker, ledger
<1>7. CASE CommitIntervalElapses
  BY <1>7 DEF TypeOK, CommitIntervalElapses, broker, ledger, bounds
<1>8. CASE BatchEnds
  BY <1>8 DEF TypeOK, BatchEnds, broker, ledger, bounds
<1>9. CASE FlushSucceeds
  BY <1>9 DEF TypeOK, FlushSucceeds, broker, bounds
<1>10. CASE FlushFails
  <2>1. /\ commit_at' \in [Topics -> Maybe]
        /\ blocked' \in [Topics -> Maybe]
    BY <1>10 DEF TypeOK, FlushFails
  <2>2. position' \in [Topics -> Offsets] /\ cooling' \in [Topics -> BOOLEAN]
    BY <1>10, <2>1, SeekBackType DEF FlushFails
  <2> QED
    BY <1>10, <2>1, <2>2 DEF TypeOK, FlushFails, broker
<1>11. CASE CommitSkipped
  BY <1>11 DEF TypeOK, CommitSkipped, AfterCommit, broker, ledger, bounds
<1>12. CASE CommitSucceeds
  BY <1>12 DEF TypeOK, CommitSucceeds, Committing, Committed, AfterCommit, ledger
<1>13. CASE CommitFails
  <2>1. Committed(group) \in [Topics -> Maybe]
    BY DEF TypeOK, Committed
  <2>2. group' \in [Topics -> Maybe]
    BY <1>13, <2>1 DEF TypeOK, CommitFails
  <2>3. faults' \in 0 .. MaxFaults
    BY <1>13 DEF TypeOK, CommitFails
  <2>4. Committing /\ UNCHANGED committed
    BY <1>13 DEF CommitFails
  <2> QED
    BY <2>2, <2>3, <2>4, CommittingType, Zenon DEF TypeOK, Committing, ledger
<1>14. CASE RewindIfBlocked
  <2>1. position' \in [Topics -> Offsets] /\ cooling' \in [Topics -> BOOLEAN]
    BY <1>14, SeekBackType DEF RewindIfBlocked, TypeOK
  <2> QED
    BY <1>14, <2>1 DEF TypeOK, RewindIfBlocked, broker, ledger, bounds
<1>15. CASE Stop
  BY <1>15 DEF TypeOK, Stop, broker, ledger
<1>16. CASE Crash
  BY <1>16 DEF TypeOK, Crash, broker, ledger
<1>17. CASE Restart
  <2>1. cooling' \in [Topics -> BOOLEAN]
    BY <1>17, Zenon DEF Restart
  <2>2. position' \in [Topics -> Offsets]
    BY <1>17, ResumeType DEF Restart
  <2>3. Unset \in Maybe
    BY DEF Maybe
  <2>4. /\ max_seen' \in [Topics -> Maybe]
        /\ commit_at' \in [Topics -> Maybe]
        /\ flush_floor' \in [Topics -> Maybe]
        /\ blocked' \in [Topics -> Maybe]
        /\ committed' \in [Topics -> Maybe]
        /\ buffer' \in [Topics -> SUBSET Offsets]
        /\ handled' \in 0 .. PollBatch
    BY <1>17, <2>3 DEF Restart
  <2>5. pc' \in {"down", "poll", "flush", "commit", "rewind"}
        /\ stopping' \in BOOLEAN /\ commit_due' \in BOOLEAN
    BY <1>17, Zenon DEF Restart
  <2> QED
    BY <1>17, <2>1, <2>2, <2>4, <2>5, Zenon DEF TypeOK, Restart, broker, bounds
<1>18. CASE UNCHANGED vars
  BY <1>18 DEF TypeOK, vars
<1> QED
  BY <1>1, <1>2, <1>3, <1>4, <1>5, <1>6, <1>7, <1>8, <1>9, <1>10, <1>11,
     <1>12, <1>13, <1>14, <1>15, <1>16, <1>17, <1>18 DEF Next, Loop

\* Every dictionary of the consumer, the broker's log and the store keep their
\* types through every handler, flush, commit, rewind and restart.
THEOREM TypeCorrect == Spec => []TypeOK
BY InitTypes, StepTypes, PTL DEF Spec

-----------------------------------------------------------------------------
(* The offset rule.                                                        *)

\* The store and the cleaner only ever account for more records.
Grows == \A t \in Topics : stored[t] \subseteq stored'[t] /\ gone[t] \subseteq gone'[t]

LEMMA AccountedGrows ==
  ASSUME Grows, NEW t \in Topics, NEW o, Accounted(t, o)
  PROVE  Accounted(t, o)'
BY DEF Grows, Accounted

\* Steps that touch neither the ledger, the buffer, the positions nor the group.
LEMMA QuietStep ==
  ASSUME OffsetInv, Grows, UNCHANGED <<group, ledger, buffer, position>>,
         pc' = "commit" => pc = "commit"
  PROVE  OffsetInv'
<1> USE DEF ledger
<1>1. CommittedIsDurable' /\ FloorIsDurable'
  BY AccountedGrows DEF OffsetInv, CommittedIsDurable, FloorIsDurable
<1>2. CommitPointIsCovered'
  BY AccountedGrows DEF OffsetInv, CommitPointIsCovered
<1>3. UnblockedReadNothingElse'
  BY AccountedGrows DEF OffsetInv, UnblockedReadNothingElse
<1>4. BufferIsFlushedFirst' /\ LedgerEntriesAppearTogether' /\ EveryPartitionResumes'
  BY DEF OffsetInv, BufferIsFlushedFirst, LedgerEntriesAppearTogether,
         EveryPartitionResumes
<1> QED
  BY <1>1, <1>2, <1>3, <1>4 DEF OffsetInv

\* Nothing below the offset a partition resumes at is unwritten.
LEMMA ResumeIsDurable ==
  ASSUME TypeOK, OffsetInv, NEW t \in Topics, NEW o \in Offsets, o < ResumeAt(t)
  PROVE  Accounted(t, o)
BY ConstantTypes
   DEF OffsetInv, EveryPartitionResumes, CommittedIsDurable, ResumeAt, Offsets, TypeOK, Maybe

\* What the record delivered next has below it, on a partition that is not
\* blocked: the gap up to it was compacted away.
LEMMA BelowNextRecord ==
  ASSUME TypeOK, OffsetInv, NEW t \in Topics, NEW o \in Offsets, NextRecord(t, o),
         blocked[t] = Unset, NEW x \in Offsets, x < o
  PROVE  Accounted(t, x) \/ (x \in buffer[t] /\ x < commit_at[t])
<1>1. CASE x < position[t]
  BY <1>1 DEF OffsetInv, UnblockedReadNothingElse
<1>2. CASE ~(x < position[t])
  <2>1. x \notin Deliverable(t)
    BY DEF NextRecord, Offsets
  <2>2. o \in position[t] .. end[t] - 1
    BY DEF NextRecord, Deliverable
  <2>3. x \in position[t] .. end[t] - 1
    BY <1>2, <2>2 DEF TypeOK, Offsets
  <2> QED
    BY <2>1, <2>3 DEF Deliverable, Accounted
<1> QED
  BY <1>1, <1>2

\* The offset rule keeps the ledger honest: whether the handler wrote, buffered
\* or discarded the record (ok) or raised.
LEMMA NoteOffsetStep ==
  ASSUME TypeOK, TypeOK', OffsetInv, NEW t \in Topics, NEW o \in Offsets,
         NEW ok \in BOOLEAN, Polled(t, o), NoteOffset(t, o, ok), Grows,
         \A x \in Topics : buffer[x] \subseteq buffer'[x],
         \A x \in Topics \ {t} : buffer'[x] = buffer[x],
         t \notin FlushTopics => buffer'[t] = buffer[t],
         ok => (Accounted(t, o)' \/ o \in buffer'[t])
  PROVE  OffsetInv'
<1> DEFINE rewound == commit_at[t] = Unset \/ o < commit_at[t]
           nxt     == IF rewound THEN o ELSE commit_at[t]
           advance == ok /\ (nxt = o \/ blocked[t] = Unset)
           lower   == rewound /\ (flush_floor[t] = Unset \/ o < flush_floor[t])
<1>1. /\ commit_at' = [commit_at EXCEPT ![t] = IF advance THEN o + 1 ELSE nxt]
      /\ flush_floor' = [flush_floor EXCEPT ![t] = IF lower THEN o ELSE @]
      /\ blocked' = [blocked EXCEPT ![t] =
                       IF advance THEN Unset
                       ELSE IF ~ok /\ @ = Unset THEN o ELSE @]
  BY DEF NoteOffset
<1>2. /\ NextRecord(t, o)
      /\ position' = [position EXCEPT ![t] = o + 1]
      /\ UNCHANGED <<end, group, pc>>
      /\ pc = "poll"
  BY DEF Polled, broker
<1>3. /\ Unset \notin Offsets
      /\ Offsets \subseteq Int
      /\ Maybe \subseteq Int
      /\ \A x \in Offsets : Unset < x
  BY ConstantTypes DEF Offsets, Maybe, Unset
<1>4. /\ commit_at[t] \in Maybe
      /\ flush_floor[t] \in Maybe
      /\ blocked[t] \in Maybe
      /\ position[t] \in Offsets
  BY DEF TypeOK
<1>5. ASSUME NEW x \in Offsets, x < nxt PROVE Accounted(t, x) \/ x \in buffer[t]
  <2>1. CASE commit_at[t] = Unset
    BY <2>1, <1>2, <1>5, BelowNextRecord DEF OffsetInv, LedgerEntriesAppearTogether
  <2>2. CASE commit_at[t] # Unset
    <3>1. x < commit_at[t]
      BY <2>2, <1>5, <1>4, ConstantTypes DEF Offsets, Maybe
    <3> QED
      BY <3>1 DEF OffsetInv, CommitPointIsCovered
  <2> QED
    BY <2>1, <2>2
<1>6. ASSUME NEW x \in Offsets, x < o, blocked[t] = Unset
      PROVE Accounted(t, x) \/ x \in buffer[t]
  BY <1>6, <1>2, BelowNextRecord
<1>7. ASSUME NEW x \in Offsets, advance, x < o + 1
      PROVE Accounted(t, x)' \/ x \in buffer'[t]
  <2>1. CASE x = o
    BY <2>1, <1>7
  <2>2. CASE x < o
    BY <2>2, <1>5, <1>6, <1>7, AccountedGrows
  <2> QED
    BY <2>1, <2>2, <1>7, <1>3
<1>8. CommitPointIsCovered'
  <2> SUFFICES ASSUME NEW s \in Topics, NEW x \in Offsets, x < commit_at'[s]
               PROVE  Accounted(s, x)' \/ x \in buffer'[s]
    BY DEF CommitPointIsCovered
  <2>1. CASE s # t
    BY <2>1, <1>1, AccountedGrows DEF OffsetInv, CommitPointIsCovered, TypeOK
  <2>2. CASE s = t /\ advance
    BY <2>2, <1>1, <1>7 DEF TypeOK
  <2>3. CASE s = t /\ ~advance
    <3>1. x < nxt
      BY <2>3, <1>1 DEF TypeOK
    <3> QED
      BY <3>1, <2>3, <1>5, AccountedGrows
  <2> QED
    BY <2>1, <2>2, <2>3
<1>9. FloorIsDurable'
  <2> SUFFICES ASSUME NEW s \in Topics, NEW x \in Offsets, x < flush_floor'[s]
               PROVE  Accounted(s, x)'
    BY DEF FloorIsDurable
  <2>1. CASE ~(s = t /\ lower)
    <3>1. x < flush_floor[s]
      BY <2>1, <1>1 DEF TypeOK
    <3> QED
      BY <3>1, AccountedGrows DEF OffsetInv, FloorIsDurable
  <2>2. CASE s = t /\ lower
    <3>1. x < o
      BY <2>2, <1>1 DEF TypeOK
    <3>2. CASE commit_at[t] = Unset
      <4>1. ~(x < commit_at[t])
        BY <3>2, ConstantTypes DEF Offsets, Unset
      <4>2. blocked[t] = Unset
        BY <3>2 DEF OffsetInv, LedgerEntriesAppearTogether
      <4>3. Accounted(t, x)
        BY <4>1, <4>2, <3>1, <1>2, BelowNextRecord
      <4> QED
        BY <4>3, <2>2, AccountedGrows
    <3>3. CASE commit_at[t] # Unset
      <4>1. flush_floor[t] # Unset
        BY <3>3 DEF OffsetInv, LedgerEntriesAppearTogether
      <4>2. x < flush_floor[t]
        BY <4>1, <3>1, <2>2, <1>4, ConstantTypes DEF Offsets, Maybe
      <4> QED
        BY <4>2, <2>2, AccountedGrows DEF OffsetInv, FloorIsDurable
    <3> QED
      BY <3>2, <3>3
  <2> QED
    BY <2>1, <2>2
<1>10. UnblockedReadNothingElse'
  <2> SUFFICES ASSUME NEW s \in Topics, NEW x \in Offsets, blocked'[s] = Unset,
                      x < position'[s]
               PROVE  Accounted(s, x)' \/ (x \in buffer'[s] /\ x < commit_at'[s])
    BY DEF UnblockedReadNothingElse
  <2>1. CASE s # t
    BY <2>1, <1>1, <1>2, AccountedGrows DEF OffsetInv, UnblockedReadNothingElse, TypeOK
  <2>2. CASE s = t
    <3>1. advance
      BY <2>2, <1>1, <1>3, <1>4 DEF TypeOK
    <3>2. commit_at'[t] = o + 1 /\ position'[t] = o + 1
      BY <3>1, <1>1, <1>2 DEF TypeOK
    <3> QED
      BY <3>1, <3>2, <2>2, <1>7
  <2> QED
    BY <2>1, <2>2
<1>11. BufferIsFlushedFirst'
  BY <1>2 DEF OffsetInv, BufferIsFlushedFirst
<1>12. LedgerEntriesAppearTogether'
  <2> SUFFICES ASSUME NEW s \in Topics
               PROVE  /\ commit_at'[s] = Unset => blocked'[s] = Unset
                      /\ commit_at'[s] # Unset => flush_floor'[s] # Unset
    BY DEF LedgerEntriesAppearTogether
  <2>1. CASE s # t
    BY <2>1, <1>1 DEF OffsetInv, LedgerEntriesAppearTogether, TypeOK
  <2>2. CASE s = t
    <3>1. commit_at'[t] # Unset
      BY <1>1, <1>3, <1>4 DEF TypeOK, Unset
    <3>2. flush_floor'[t] # Unset
      BY <1>1, <1>3, <1>4 DEF TypeOK, OffsetInv, LedgerEntriesAppearTogether
    <3> QED
      BY <3>1, <3>2, <2>2
  <2> QED
    BY <2>1, <2>2
<1>13. CommittedIsDurable' /\ EveryPartitionResumes'
  BY <1>2, AccountedGrows DEF OffsetInv, CommittedIsDurable, EveryPartitionResumes
<1> QED
  BY <1>8, <1>9, <1>10, <1>11, <1>12, <1>13 DEF OffsetInv

LEMMA InitOffsets ==
  ASSUME Init, Earliest \/ Preassigned = Topics
  PROVE  OffsetInv
<1>1. /\ \A t \in Topics : /\ flush_floor[t] = Unset
                           /\ commit_at[t] = Unset
                           /\ blocked[t] = Unset
                           /\ buffer[t] = {}
                           /\ position[t] = 0
                           /\ group[t] \in {0, Unset}
      /\ pc = "poll"
  BY DEF Init
<1>2. \A t \in Topics : Earliest \/ group[t] # Unset
  BY DEF Init, Unset
<1>3. \A x \in Offsets : ~(x < 0) /\ ~(x < Unset)
  BY ConstantTypes DEF Offsets, Unset
<1> QED
  BY <1>1, <1>2, <1>3 DEF OffsetInv, CommittedIsDurable, FloorIsDurable,
     CommitPointIsCovered, UnblockedReadNothingElse, BufferIsFlushedFirst,
     LedgerEntriesAppearTogether, EveryPartitionResumes

LEMMA HandleOkStep ==
  ASSUME TypeOK, TypeOK', OffsetInv, NEW t \in Topics, HandleOk(t)
  PROVE  OffsetInv'
<1>1. PICK o \in Offsets : /\ Polled(t, o)
                           /\ NoteOffset(t, o, TRUE)
                           /\ stored' = IF t \in FlushTopics \/ <<t, o>> \in Poison THEN stored
                                        ELSE [stored EXCEPT ![t] = @ \cup {o}]
                           /\ buffer' = IF t \in FlushTopics /\ <<t, o>> \notin Poison
                                        THEN [buffer EXCEPT ![t] = @ \cup {o}] ELSE buffer
  BY DEF HandleOk
<1>2. UNCHANGED gone
  BY <1>1 DEF Polled, broker
<1>3. Grows
  BY <1>1, <1>2 DEF Grows, TypeOK
<1>4. /\ \A x \in Topics : buffer[x] \subseteq buffer'[x]
      /\ \A x \in Topics \ {t} : buffer'[x] = buffer[x]
      /\ t \notin FlushTopics => buffer'[t] = buffer[t]
  BY <1>1 DEF TypeOK
<1>5. Accounted(t, o)' \/ o \in buffer'[t]
  BY <1>1 DEF Accounted, TypeOK
<1> QED
  BY <1>1, <1>3, <1>4, <1>5, NoteOffsetStep

LEMMA HandlerRaisesStep ==
  ASSUME TypeOK, TypeOK', OffsetInv, NEW t \in Topics, HandlerRaises(t)
  PROVE  OffsetInv'
<1>1. PICK o \in Offsets : Polled(t, o) /\ NoteOffset(t, o, FALSE)
  BY DEF HandlerRaises
<1>2. UNCHANGED <<stored, buffer, gone>>
  BY <1>1 DEF HandlerRaises, Polled, broker
<1>3. Grows
  BY <1>2 DEF Grows
<1> QED
  BY <1>1, <1>2, <1>3, NoteOffsetStep

\* A flush makes everything below the commit points durable.
LEMMA FlushSucceedsStep ==
  ASSUME TypeOK, OffsetInv, FlushSucceeds
  PROVE  OffsetInv'
<1>1. /\ \A t \in Topics : stored'[t] = stored[t] \cup buffer[t] /\ buffer'[t] = {}
      /\ flush_floor' = commit_at
      /\ UNCHANGED <<end, gone, group, position, commit_at, blocked>>
  BY DEF FlushSucceeds, broker
<1>2. Grows
  BY <1>1 DEF Grows
<1>3. ASSUME NEW t \in Topics, NEW o, Accounted(t, o) \/ o \in buffer[t]
      PROVE  Accounted(t, o)'
  BY <1>1, <1>3 DEF Accounted
<1>4. FloorIsDurable' /\ CommitPointIsCovered'
  BY <1>1, <1>3 DEF OffsetInv, CommitPointIsCovered, FloorIsDurable
<1>5. UnblockedReadNothingElse'
  BY <1>1, <1>3 DEF OffsetInv, UnblockedReadNothingElse
<1>6. CommittedIsDurable'
  BY <1>1, <1>3 DEF OffsetInv, CommittedIsDurable
<1>7. BufferIsFlushedFirst' /\ LedgerEntriesAppearTogether' /\ EveryPartitionResumes'
  BY <1>1 DEF OffsetInv, BufferIsFlushedFirst, LedgerEntriesAppearTogether,
              EveryPartitionResumes
<1> QED
  BY <1>4, <1>5, <1>6, <1>7 DEF OffsetInv

\* A failed flush drops the rows; the deferred topics fall back to their floor and
\* are blocked, the others had nothing in the buffer.
LEMMA FlushFailsStep ==
  ASSUME TypeOK, OffsetInv, FlushFails
  PROVE  OffsetInv'
<1> DEFINE rolled == {t \in FlushTopics : commit_at[t] > flush_floor[t]}
<1>1. /\ \A t \in Topics : buffer'[t] = {}
      /\ pc' # "commit"
      /\ UNCHANGED <<end, gone, group, stored, flush_floor>>
      /\ commit_at' = [t \in Topics |->
                         IF t \in rolled THEN flush_floor[t] ELSE commit_at[t]]
      /\ blocked' = [t \in Topics |->
                       IF t \in rolled /\ blocked[t] = Unset
                       THEN flush_floor[t] ELSE blocked[t]]
      /\ SeekBack(blocked')
  BY DEF FlushFails, broker
<1>2. ASSUME NEW t \in Topics
      PROVE  /\ commit_at[t] \in Int
             /\ flush_floor[t] \in Int
             /\ commit_at[t] = Unset => flush_floor[t] >= commit_at[t]
  BY ConstantTypes DEF TypeOK, Maybe, Offsets, Unset
<1>3. ASSUME NEW t \in Topics, NEW o PROVE Accounted(t, o)' <=> Accounted(t, o)
  BY <1>1 DEF Accounted
<1>4. ASSUME NEW t \in Topics, NEW o \in Offsets, o < commit_at'[t]
      PROVE  Accounted(t, o)
  <2>1. CASE t \in rolled
    BY <2>1, <1>1, <1>4 DEF OffsetInv, FloorIsDurable
  <2>2. CASE t \notin FlushTopics
    BY <2>2, <1>1, <1>4 DEF OffsetInv, CommitPointIsCovered, BufferIsFlushedFirst
  <2>3. CASE t \in FlushTopics /\ t \notin rolled
    <3>1. o < flush_floor[t]
      BY <2>3, <1>1, <1>2, <1>4, ConstantTypes DEF Offsets
    <3> QED
      BY <3>1 DEF OffsetInv, FloorIsDurable
  <2> QED
    BY <2>1, <2>2, <2>3
<1>5. CommitPointIsCovered' /\ FloorIsDurable' /\ CommittedIsDurable'
  BY <1>1, <1>3, <1>4 DEF OffsetInv, CommitPointIsCovered, FloorIsDurable,
                          CommittedIsDurable
<1>6. UnblockedReadNothingElse'
  <2> SUFFICES ASSUME NEW t \in Topics, NEW o \in Offsets, blocked'[t] = Unset,
                      o < position'[t]
               PROVE  Accounted(t, o)'
    BY DEF UnblockedReadNothingElse
  <2>1. t \notin rolled
    <3> SUFFICES ASSUME t \in rolled PROVE FALSE
      OBVIOUS
    <3>1. flush_floor[t] = Unset
      BY <1>1
    <3>2. commit_at[t] # Unset
      BY <3>1, <1>2
    <3> QED
      BY <3>1, <3>2 DEF OffsetInv, LedgerEntriesAppearTogether
  <2>2. blocked[t] = Unset /\ commit_at'[t] = commit_at[t]
    BY <2>1, <1>1
  <2>3. position'[t] = position[t]
    BY <1>1 DEF SeekBack
  <2>4. Accounted(t, o) \/ o < commit_at'[t]
    BY <2>2, <2>3 DEF OffsetInv, UnblockedReadNothingElse
  <2> QED
    BY <2>4, <1>3, <1>4
<1>7. BufferIsFlushedFirst' /\ EveryPartitionResumes'
  BY <1>1 DEF OffsetInv, BufferIsFlushedFirst, EveryPartitionResumes
<1>8. LedgerEntriesAppearTogether'
  <2> SUFFICES ASSUME NEW t \in Topics
               PROVE  /\ commit_at'[t] = Unset => blocked'[t] = Unset
                      /\ commit_at'[t] # Unset => flush_floor'[t] # Unset
    BY DEF LedgerEntriesAppearTogether
  <2>1. CASE t \in rolled
    <3>1. commit_at[t] # Unset
      BY <2>1, <1>2
    <3>2. flush_floor[t] # Unset
      BY <3>1 DEF OffsetInv, LedgerEntriesAppearTogether
    <3> QED
      BY <2>1, <3>2, <1>1
  <2>2. CASE t \notin rolled
    BY <2>2, <1>1 DEF OffsetInv, LedgerEntriesAppearTogether
  <2> QED
    BY <2>1, <2>2
<1> QED
  BY <1>5, <1>6, <1>7, <1>8 DEF OffsetInv

\* A commit sends commit points only, after the flush emptied the buffer.
LEMMA CommitStep ==
  ASSUME TypeOK, OffsetInv, Committing, group' \in {group, Committed(group)}
  PROVE  OffsetInv'
<1>1. /\ pc = "commit"
      /\ pc' # "commit"
      /\ UNCHANGED <<end, gone, stored, position, buffer, commit_at, flush_floor, blocked>>
  BY DEF Committing, AfterCommit, ledger
<1>2. ASSUME NEW t \in Topics, NEW o PROVE Accounted(t, o)' <=> Accounted(t, o)
  BY <1>1 DEF Accounted
<1>3. ASSUME NEW t \in Topics, group'[t] # group[t]
      PROVE  group'[t] = commit_at[t] /\ group'[t] # Unset
  <2>1. group' = Committed(group)
    BY <1>3
  <2>2. t \in SafeOffsets /\ group'[t] = commit_at[t]
    BY <2>1, <1>3 DEF Committed
  <2>3. commit_at[t] > committed[t]
    BY <2>2 DEF SafeOffsets
  <2>4. commit_at[t] # Unset
    BY <2>3, ConstantTypes DEF TypeOK, Maybe, Offsets, Unset
  <2> QED
    BY <2>2, <2>4
<1>4. CommittedIsDurable'
  <2> SUFFICES ASSUME NEW t \in Topics, NEW o \in Offsets, o < group'[t]
               PROVE  Accounted(t, o)
    BY <1>2 DEF CommittedIsDurable
  <2>1. CASE group'[t] = group[t]
    BY <2>1 DEF OffsetInv, CommittedIsDurable
  <2>2. CASE group'[t] # group[t]
    BY <2>2, <1>1, <1>3 DEF OffsetInv, CommitPointIsCovered, BufferIsFlushedFirst
  <2> QED
    BY <2>1, <2>2
<1>5. EveryPartitionResumes'
  BY <1>3 DEF OffsetInv, EveryPartitionResumes
<1>6. FloorIsDurable' /\ CommitPointIsCovered' /\ UnblockedReadNothingElse'
  BY <1>1, <1>2 DEF OffsetInv, FloorIsDurable, CommitPointIsCovered,
                    UnblockedReadNothingElse
<1>7. BufferIsFlushedFirst' /\ LedgerEntriesAppearTogether'
  BY <1>1 DEF OffsetInv, BufferIsFlushedFirst, LedgerEntriesAppearTogether
<1> QED
  BY <1>4, <1>5, <1>6, <1>7 DEF OffsetInv

\* A rewind moves only the positions of blocked partitions.
LEMMA RewindStep ==
  ASSUME TypeOK, OffsetInv, RewindIfBlocked
  PROVE  OffsetInv'
<1>1. /\ pc' # "commit"
      /\ UNCHANGED <<end, gone, group, stored, buffer, commit_at, flush_floor, blocked>>
      /\ \A t \in Topics : blocked[t] = Unset => position'[t] = position[t]
  BY DEF RewindIfBlocked, SeekBack, broker, ledger
<1>2. ASSUME NEW t \in Topics, NEW o PROVE Accounted(t, o)' <=> Accounted(t, o)
  BY <1>1 DEF Accounted
<1>3. UnblockedReadNothingElse'
  BY <1>1, <1>2 DEF OffsetInv, UnblockedReadNothingElse
<1>4. CommittedIsDurable' /\ FloorIsDurable' /\ CommitPointIsCovered'
  BY <1>1, <1>2 DEF OffsetInv, CommittedIsDurable, FloorIsDurable, CommitPointIsCovered
<1>5. BufferIsFlushedFirst' /\ LedgerEntriesAppearTogether' /\ EveryPartitionResumes'
  BY <1>1 DEF OffsetInv, BufferIsFlushedFirst, LedgerEntriesAppearTogether,
              EveryPartitionResumes
<1> QED
  BY <1>3, <1>4, <1>5 DEF OffsetInv

\* Reassigned partitions start where everything below is durable.
LEMMA RebalanceStep ==
  ASSUME TypeOK, OffsetInv, Rebalance
  PROVE  OffsetInv'
<1>1. /\ UNCHANGED <<end, gone, group, stored, pc, buffer, commit_at, flush_floor, blocked>>
      /\ \A t \in Topics : position'[t] = ResumeAt(t)
  BY DEF Rebalance, broker, ledger
<1>2. ASSUME NEW t \in Topics, NEW o PROVE Accounted(t, o)' <=> Accounted(t, o)
  BY <1>1 DEF Accounted
<1>3. UnblockedReadNothingElse'
  BY <1>1, <1>2, ResumeIsDurable DEF UnblockedReadNothingElse
<1>4. CommittedIsDurable' /\ FloorIsDurable' /\ CommitPointIsCovered'
  BY <1>1, <1>2 DEF OffsetInv, CommittedIsDurable, FloorIsDurable, CommitPointIsCovered
<1>5. BufferIsFlushedFirst' /\ LedgerEntriesAppearTogether' /\ EveryPartitionResumes'
  BY <1>1 DEF OffsetInv, BufferIsFlushedFirst, LedgerEntriesAppearTogether,
              EveryPartitionResumes
<1> QED
  BY <1>3, <1>4, <1>5 DEF OffsetInv

\* A new process knows nothing and reads on from the group's offset.
LEMMA RestartStep ==
  ASSUME TypeOK, OffsetInv, Restart
  PROVE  OffsetInv'
<1>1. /\ UNCHANGED <<end, gone, group, stored>>
      /\ pc' # "commit"
      /\ \A t \in Topics : /\ position'[t] = ResumeAt(t)
                           /\ flush_floor'[t] = Unset
                           /\ commit_at'[t] = Unset
                           /\ blocked'[t] = Unset
                           /\ buffer'[t] = {}
  BY DEF Restart, broker
<1>2. ASSUME NEW t \in Topics, NEW o PROVE Accounted(t, o)' <=> Accounted(t, o)
  BY <1>1 DEF Accounted
<1>3. \A x \in Offsets : ~(x < Unset)
  BY ConstantTypes DEF Offsets, Unset
<1>4. UnblockedReadNothingElse'
  BY <1>1, <1>2, ResumeIsDurable DEF UnblockedReadNothingElse
<1>5. FloorIsDurable' /\ CommitPointIsCovered'
  BY <1>1, <1>3 DEF FloorIsDurable, CommitPointIsCovered
<1>6. CommittedIsDurable' /\ EveryPartitionResumes'
  BY <1>1, <1>2 DEF OffsetInv, CommittedIsDurable, EveryPartitionResumes
<1>7. BufferIsFlushedFirst' /\ LedgerEntriesAppearTogether'
  BY <1>1 DEF BufferIsFlushedFirst, LedgerEntriesAppearTogether
<1> QED
  BY <1>4, <1>5, <1>6, <1>7 DEF OffsetInv

LEMMA StepOffsets == TypeOK /\ TypeOK' /\ OffsetInv /\ [Next]_vars => OffsetInv'
<1> SUFFICES ASSUME TypeOK, TypeOK', OffsetInv, [Next]_vars PROVE OffsetInv'
  OBVIOUS
<1>1. ASSUME NEW t \in Topics, Produce(t) PROVE OffsetInv'
  BY <1>1, QuietStep DEF Produce, Grows
<1>2. ASSUME NEW t \in Topics, Compact(t) PROVE OffsetInv'
  <2>1. Grows /\ UNCHANGED <<group, ledger, buffer, position, pc>>
    BY <1>2 DEF Compact, Grows, TypeOK
  <2> QED
    BY <2>1, QuietStep
<1>3. ASSUME NEW t \in Topics, SeekBackoffElapses(t) PROVE OffsetInv'
  BY <1>3, QuietStep DEF SeekBackoffElapses, broker, Grows
<1>4. ASSUME NEW t \in Topics, HandleOk(t) PROVE OffsetInv'
  BY <1>4, HandleOkStep
<1>5. ASSUME NEW t \in Topics, HandlerRaises(t) PROVE OffsetInv'
  BY <1>5, HandlerRaisesStep
<1>6. CASE CommitIntervalElapses
  BY <1>6, QuietStep DEF CommitIntervalElapses, broker, Grows
<1>7. CASE BatchEnds
  BY <1>7, QuietStep DEF BatchEnds, broker, Grows
<1>8. CASE CommitSkipped
  BY <1>8, QuietStep DEF CommitSkipped, broker, Grows
<1>9. CASE Stop
  BY <1>9, QuietStep DEF Stop, broker, Grows
<1>10. CASE Crash
  BY <1>10, QuietStep DEF Crash, broker, Grows
<1>11. CASE UNCHANGED vars
  BY <1>11, QuietStep DEF vars, ledger, Grows
<1>12. CASE FlushSucceeds
  BY <1>12, FlushSucceedsStep
<1>13. CASE FlushFails
  BY <1>13, FlushFailsStep
<1>14. CASE CommitSucceeds
  BY <1>14, CommitStep DEF CommitSucceeds
<1>15. CASE CommitFails
  BY <1>15, CommitStep DEF CommitFails
<1>16. CASE RewindIfBlocked
  BY <1>16, RewindStep
<1>17. CASE Rebalance
  BY <1>17, RebalanceStep
<1>18. CASE Restart
  BY <1>18, RestartStep
<1> QED
  BY <1>1, <1>2, <1>3, <1>4, <1>5, <1>6, <1>7, <1>8, <1>9, <1>10, <1>11,
     <1>12, <1>13, <1>14, <1>15, <1>16, <1>17, <1>18 DEF Next, Loop

\* The inductive invariant behind the offset rule, for any handlers that fail,
\* flushes that fail, compaction gaps, rebalances, kills and restarts.
THEOREM OffsetInvariant ==
  (Earliest \/ Preassigned = Topics) => (Spec => []OffsetInv)
<1> SUFFICES ASSUME Earliest \/ Preassigned = Topics PROVE Spec => []OffsetInv
  OBVIOUS
<1>1. Init => OffsetInv
  BY InitOffsets
<1> QED
  BY <1>1, StepOffsets, TypeCorrect, PTL DEF Spec

\* No offset is committed past a record whose row is not durable: commit_safe
\* commits "exactly the offsets whose data is durable", provided every partition
\* has a committed offset to resume at (or resets to the earliest one).
THEOREM CommitsAreDurable ==
  (Earliest \/ Preassigned = Topics) => (Spec => []CommittedIsDurable)
<1> SUFFICES ASSUME Earliest \/ Preassigned = Topics PROVE Spec => []CommittedIsDurable
  OBVIOUS
<1>1. OffsetInv => CommittedIsDurable
  BY DEF OffsetInv
<1> QED
  BY <1>1, OffsetInvariant, PTL

\* stop(): "a hard kill costs time, never data", under the same condition.
THEOREM HardKillCostsNoData ==
  (Earliest \/ Preassigned = Topics) => (Spec => []UnwrittenIsReplayed)
<1> SUFFICES ASSUME Earliest \/ Preassigned = Topics PROVE Spec => []UnwrittenIsReplayed
  OBVIOUS
<1>1. ASSUME TypeOK, OffsetInv PROVE UnwrittenIsReplayed
  <2> SUFFICES ASSUME NEW t \in Topics, NEW o \in Offsets, ~Accounted(t, o)
               PROVE  ResumeAt(t) <= o
    BY DEF UnwrittenIsReplayed
  <2>1. ~(o < ResumeAt(t))
    BY <1>1, ResumeIsDurable
  <2> QED
    BY <1>1, <2>1, ResumeType, ConstantTypes DEF Offsets
<1> QED
  BY <1>1, OffsetInvariant, TypeCorrect, PTL

-----------------------------------------------------------------------------
(* Refinement of DurableIngest.                                            *)

LEMMA BufferSteps ==
  ASSUME TypeOK, BufferWasProduced, [Next]_vars
  PROVE  BufferWasProduced'
<1>1. ASSUME NEW t \in Topics, HandleOk(t) PROVE BufferWasProduced'
  <2>1. PICK o \in Offsets : /\ NextRecord(t, o)
                             /\ UNCHANGED end
                             /\ \/ buffer' = buffer
                                \/ buffer' = [buffer EXCEPT ![t] = @ \cup {o}]
    BY <1>1 DEF HandleOk, Polled, broker
  <2>2. o < end[t]
    BY <2>1, DeliveredBounds
  <2> QED
    BY <2>1, <2>2 DEF BufferWasProduced, TypeOK
<1>2. CASE UNCHANGED <<buffer, end>>
  BY <1>2 DEF BufferWasProduced
<1>3. CASE \A t \in Topics : buffer'[t] = {}
  BY <1>3 DEF BufferWasProduced
<1>4. ASSUME NEW t \in Topics, Produce(t) PROVE BufferWasProduced'
  <2>1. /\ UNCHANGED buffer
        /\ end' = [end EXCEPT ![t] = end[t] + 1]
    BY <1>4 DEF Produce
  <2> SUFFICES ASSUME NEW s \in Topics, NEW o \in buffer[s] PROVE o < end'[s]
    BY <2>1 DEF BufferWasProduced
  <2>2. o < end[s] /\ o \in Int /\ end[s] \in Int
    BY ConstantTypes DEF BufferWasProduced, TypeOK, Offsets
  <2> QED
    BY <2>1, <2>2 DEF TypeOK
<1> QED
  BY <1>1, <1>2, <1>3, <1>4
  DEF Next, Loop, vars, broker, Compact, HandlerRaises, SeekBackoffElapses, Rebalance,
      Polled, CommitIntervalElapses, BatchEnds, FlushSucceeds, FlushFails, CommitSkipped,
      CommitSucceeds, CommitFails, Committing, RewindIfBlocked, Stop, Crash, Restart

LEMMA StepRefines ==
  ASSUME TypeOK, OffsetInv, OffsetInv', BufferWasProduced, [Next]_vars
  PROVE  [Ingest!Next]_(Ingest!vars)
<1> USE DEF Ingest!Next, Ingest!vars
<1>1. ASSUME NEW t \in Topics, Produce(t) PROVE Ingest!Append
  BY <1>1 DEF Produce, Ingest!Append
<1>2. ASSUME NEW t \in Topics, Compact(t) PROVE Ingest!Supersede
  BY <1>2 DEF Compact, Ingest!Supersede
<1>3. ASSUME NEW t \in Topics, HandleOk(t) PROVE Ingest!Write
  <2>1. PICK o \in Offsets : /\ NextRecord(t, o)
                             /\ UNCHANGED <<end, gone, group>>
                             /\ \/ stored' = stored
                                \/ stored' = [stored EXCEPT ![t] = @ \cup {o}]
    BY <1>3 DEF HandleOk, Polled, broker
  <2>2. o < end[t]
    BY <2>1, DeliveredBounds
  <2> QED
    BY <2>1, <2>2 DEF Ingest!Write, TypeOK
<1>4. CASE FlushSucceeds
  <2>1. /\ \A t \in Topics : stored'[t] = stored[t] \cup buffer[t]
        /\ UNCHANGED <<end, gone, group>>
    BY <1>4 DEF FlushSucceeds, broker
  <2> QED
    BY <2>1 DEF Ingest!Write, BufferWasProduced
<1>5. CASE CommitSucceeds \/ CommitFails
  <2>1. UNCHANGED <<end, gone, stored>>
    BY <1>5 DEF CommitSucceeds, CommitFails, Committing
  <2>2. \A t \in Topics : \A o \in Offsets : o < group'[t] => Accounted(t, o)
    BY <2>1 DEF OffsetInv, CommittedIsDurable, Accounted
  <2> QED
    BY <2>1, <2>2 DEF Ingest!Acknowledge, Accounted, Ingest!Accounted,
                      Offsets, Ingest!Offsets
<1>6. CASE UNCHANGED <<end, gone, stored, group>>
  BY <1>6
<1> QED
  BY <1>1, <1>2, <1>3, <1>4, <1>5, <1>6
  DEF Next, Loop, vars, broker, HandlerRaises, SeekBackoffElapses, Rebalance,
      Polled, CommitIntervalElapses, BatchEnds, FlushFails, CommitSkipped,
      RewindIfBlocked, Stop, Crash, Restart

\* The consumer implements the abstract ingest: seen from the log, the store and
\* the group's offset it writes only produced records and acknowledges only
\* durable ones, across every crash, rewind and rebalance.
THEOREM ConsumerImplementsIngest ==
  (Earliest \/ Preassigned = Topics) => (Spec => IngestSpec)
<1> SUFFICES ASSUME Earliest \/ Preassigned = Topics PROVE Spec => Ingest!Spec
  BY DEF IngestSpec
<1>1. Init => Ingest!Init
  BY DEF Init, Ingest!Init, Unset
<1>2. Init => BufferWasProduced
  BY DEF Init, BufferWasProduced
<1>3. Spec => []BufferWasProduced
  BY <1>2, BufferSteps, TypeCorrect, PTL DEF Spec
<1> QED
  BY <1>1, <1>3, StepRefines, OffsetInvariant, TypeCorrect, PTL DEF Spec, Ingest!Spec

-----------------------------------------------------------------------------
(* The KPI sink, for any number of rows, documents and failures.  It reads *)
(* its streams as a consumer without a ledger does: the offset is          *)
(* committed once a row is delivered.  An export may be skipped because    *)
(* the count on record never exceeds the stored rows that are in Mongo.    *)

-----------------------------------------------------------------------------
(* The operators of the sink.                                              *)

\* Max: a finite set of integers has a greatest element, and it is that.
LEMMA MaxOf ==
  ASSUME NEW S, IsFiniteSet(S), S \subseteq Int, S # {}
  PROVE  Sink!Max(S) \in S /\ \A y \in S : Sink!Max(S) >= y
<1> DEFINE above(x) == {y \in S : y > x}
           sizes == {Cardinality(above(x)) : x \in S}
<1>1. \A x \in S : IsFiniteSet(above(x)) /\ Cardinality(above(x)) \in Nat
  BY FS_Subset, FS_CardinalityType
<1>2. sizes \subseteq Nat /\ sizes # {}
  BY <1>1
<1>3. PICK m \in sizes : \A n \in sizes : ~(<<n, m>> \in OpToRel(<, Nat))
  BY <1>2, NatLessThanWellFounded, WFMin
<1>4. PICK x \in S : m = Cardinality(above(x))
  OBVIOUS
<1>5. above(x) = {}
  <2> SUFFICES ASSUME NEW y \in above(x) PROVE FALSE
    OBVIOUS
  <2>1. above(y) \subseteq above(x) /\ y \notin above(y) /\ y \in S
    BY <1>4
  <2>2. Cardinality(above(y)) < m
    BY <1>1, <1>4, <2>1, FS_Subset
  <2>3. Cardinality(above(y)) \in sizes
    BY <2>1
  <2>4. <<Cardinality(above(y)), m>> \in OpToRel(<, Nat)
    BY <1>2, <2>2, <2>3 DEF OpToRel
  <2> QED
    BY <1>3, <2>3, <2>4
<1>6. \A y \in S : x >= y
  BY <1>5
<1> QED
  BY <1>6, Zenon DEF Sink!Max

LEMMA SmallMin ==
  ASSUME NEW a \in Int, NEW b \in Int
  PROVE  Sink!Min({a, b}) = IF a <= b THEN a ELSE b
<1> DEFINE m == IF a <= b THEN a ELSE b
<1>1. m \in {a, b} /\ \A y \in {a, b} : m <= y
  OBVIOUS
<1>2. \A x \in {a, b} : (\A y \in {a, b} : x <= y) => x = m
  OBVIOUS
<1> QED
  BY <1>1, <1>2, Zenon DEF Sink!Min

\* Division: one more multiple of a longer series is at least one point further.
LEMMA NextPoint ==
  ASSUME NEW n \in Nat \ {0}, NEW a \in Nat, NEW len \in Nat, len > n
  PROVE  /\ a \div n \in Nat /\ n * (a \div n) <= a /\ a < n * (a \div n) + n
         /\ (a + len) \div n > a \div n
<1>1. \A x \in Nat : x \div n \in Nat /\ n * (x \div n) <= x /\ x < n * (x \div n) + n
  OBVIOUS
<1>2. a + len \in Nat /\ a \in Nat
  OBVIOUS
<1>3. PICK p \in Nat : p = a \div n /\ n * p <= a /\ a < n * p + n
  BY <1>1
<1>4. PICK q \in Nat : q = (a + len) \div n /\ n * q <= a + len /\ a + len < n * q + n
  BY <1>1, <1>2
<1>5. ~(q <= p)
  <2> SUFFICES ASSUME q <= p PROVE FALSE
    OBVIOUS
  <2>1. PICK d \in Nat : p = q + d
    <3>1. p = q + (p - q) /\ p - q \in Nat
      OBVIOUS
    <3> QED
      BY <3>1
  <2>2. n * p = n * q + n * d /\ n * d >= 0
    BY <2>1
  <2> QED
    BY <1>3, <1>4, <2>2
<1> QED
  BY <1>1, <1>3, <1>4, <1>5

\* downsample: the first point, the last one, and in between ever later ones.
LEMMA KeepsItsEnds == ASSUME MaxSeries \in Nat, SeriesPoints \in Nat PROVE Sink!SeriesKeepsItsEnds
<1> SUFFICES ASSUME NEW len \in 1 .. MaxSeries, NEW n \in 2 .. SeriesPoints
             PROVE  LET s == Sink!downsample(len, n) IN
                    /\ Len(s) = Sink!Min({len, n}) /\ s[1] = 1 /\ s[Len(s)] = len
                    /\ \A i \in 1 .. (Len(s) - 1) : s[i] < s[i + 1]
  BY DEF Sink!SeriesKeepsItsEnds
<1> DEFINE s == Sink!downsample(len, n)
<1>1. CASE len <= n
  <2>1. s = [i \in 1 .. len |-> i]
    BY <1>1 DEF Sink!downsample
  <2>2. Len(s) = len
    BY <2>1
  <2> QED
    BY <1>1, <2>1, <2>2, SmallMin
<1>2. CASE len > n
  <2> DEFINE at(i) == ((i - 1) * len) \div n + 1
  <2>1. s = [i \in 1 .. n |-> IF i = n THEN len ELSE at(i)]
    BY <1>2 DEF Sink!downsample
  <2>2. Len(s) = n
    BY <2>1
  <2>3. \A i \in 1 .. n : (i - 1) * len \in Nat /\ i * len = (i - 1) * len + len
    OBVIOUS
  <2>4. at(1) = 1
    <3>1. (1 - 1) * len = 0 /\ n \in Nat \ {0}
      OBVIOUS
    <3>2. 0 \div n = 0
      BY <3>1
    <3> QED
      BY <3>1, <3>2
  <2>5. ASSUME NEW i \in 1 .. (n - 1) PROVE at(i) \in Int /\ at(i) < at(i + 1)
    <3>1. PICK a \in Nat : a = (i - 1) * len
      BY <2>3
    <3>2. (i + 1 - 1) * len = a + len
      BY <2>3, <3>1
    <3> QED
      BY <1>2, <3>1, <3>2, NextPoint
  <2>6. ASSUME NEW i \in 1 .. (n - 1), i + 1 = n PROVE at(i) < len
    <3>1. PICK a \in Nat : a = (i - 1) * len /\ a + len + len = n * len
      <4>1. (i - 1) * len \in Nat /\ (i - 1) * len + len + len = (i + 1) * len
        OBVIOUS
      <4> QED
        BY <2>6, <4>1
    <3>2. PICK q \in Nat : q = a \div n /\ n * q <= a
      BY <1>2, NextPoint
    <3>3. ~(q >= len - 1)
      <4> SUFFICES ASSUME q >= len - 1 PROVE FALSE
        OBVIOUS
      <4>1. PICK d \in Nat : q = (len - 1) + d
        <5>1. q = (len - 1) + (q - (len - 1)) /\ q - (len - 1) \in Nat
          BY <3>2
        <5> QED
          BY <5>1
      <4>2. n * q = n * len - n + n * d /\ n * d >= 0
        BY <4>1
      <4> QED
        BY <1>2, <3>1, <3>2, <4>2
    <3> QED
      BY <3>1, <3>2, <3>3
  <2> HIDE DEF at, s
  <2>7. s[1] = 1 /\ s[n] = len
    BY <2>1, <2>4
  <2>8. \A i \in 1 .. (n - 1) : s[i] < s[i + 1]
    <3> TAKE i \in 1 .. (n - 1)
    <3>1. CASE i + 1 = n
      BY <2>1, <2>6, <3>1
    <3>2. CASE i + 1 # n
      BY <2>1, <2>5, <3>2
    <3> QED
      BY <3>1, <3>2
  <2> QED
    BY <1>2, <2>2, <2>7, <2>8, SmallMin DEF s
<1> QED
  BY <1>1, <1>2

-----------------------------------------------------------------------------
(* Types, and the invariant.                                               *)

Rows == 1 .. produced
Jobs == [pc : {"idle", "fetch", "insert", "record", "skipped", "closed"}, count : Nat, rows : SUBSET Rows]

\* The final breakdown of a run is the last one published: of the documents of one
\* clock, a live one never follows a final one.
DocsInOrder ==
  /\ Docs \in Seq([clock : Int, final : BOOLEAN])
  /\ \A i, j \in DOMAIN Docs : i < j /\ Docs[i].clock = Docs[j].clock /\ Docs[i].final => Docs[j].final

StreamTypes ==
  /\ produced \in Nat /\ pos \in 1 .. produced + 1 /\ sinkGroup \in 1 .. pos
  /\ pending \subseteq Rows /\ store \subseteq Rows
  /\ popped \in [Sink!Flushers -> SUBSET Rows]

ExportTypes ==
  /\ export \in [status : {"none", "exported", "failed"}, count : Nat]
  /\ job \in [Sink!Exporters -> Jobs]

\* What an exporter knows of the rows it counted, fetched and inserted.
JobHolds(j, kept, copied) ==
  /\ j.pc = "fetch" => j.count <= Cardinality(kept)
  /\ j.pc = "insert" => j.rows \subseteq kept /\ j.count <= Cardinality(j.rows)
  /\ j.pc = "record" => j.rows \subseteq kept \cap copied /\ j.count <= Cardinality(j.rows)

JobInv == \A x \in Sink!Exporters : JobHolds(job[x], store, mongo)

\* The count on record is no more than the stored rows that are in Mongo.
RecordInv == export.status = "exported" => export.count <= Cardinality(store \cap mongo)

\* What is shown of a clock is of it, and no document read since was of it and later.
ShownInv ==
  /\ bpos \in 1 .. Len(Docs) + 1 /\ breakdowns \in [Sink!Clocks -> 0 .. Len(Docs)]
  /\ \A c \in Sink!Clocks : breakdowns[c] # 0 => Docs[breakdowns[c]].clock = c
  /\ \A i \in DOMAIN Docs : i < bpos => breakdowns[Docs[i].clock] >= i

SinkInv == StreamTypes /\ ExportTypes /\ JobInv /\ RecordInv /\ Sink!NoRowVanishes /\ ShownInv

-----------------------------------------------------------------------------
(* What the invariant says of the answers.                                 *)

LEMMA FinalServed == ASSUME DocsInOrder, ShownInv PROVE Sink!FinalIsServed
<1>1. DOMAIN Docs = 1 .. Len(Docs) /\ Len(Docs) \in Nat
  BY DEF DocsInOrder
<1>2. \A i \in DOMAIN Docs : Docs[i].clock \in Int /\ Docs[i].final \in BOOLEAN /\ Docs[i].clock \in Sink!Clocks
  <2>1. \A i \in 1 .. Len(Docs) : Docs[i] \in [clock : Int, final : BOOLEAN]
    BY ElementOfSeq DEF DocsInOrder
  <2>2. \A i \in DOMAIN Docs : Docs[i].clock \in Sink!Clocks
    BY Zenon DEF Sink!Clocks
  <2> QED
    BY <1>1, <2>1, <2>2
<1>3. Sink!Clocks \subseteq Int
  BY <1>2 DEF Sink!Clocks
<1>4. IsFiniteSet(Sink!Clocks)
  <2> DEFINE f == [i \in 1 .. Len(Docs) |-> Docs[i].clock]
  <2>1. f \in Surjection(1 .. Len(Docs), Sink!Clocks)
    BY <1>1, <1>2 DEF Surjection, Sink!Clocks
  <2>2. IsFiniteSet(1 .. Len(Docs))
    BY <1>1, FS_Interval
  <2> QED
    BY <2>1, <2>2, FS_Surjection
<1>5. \A S \in SUBSET Sink!Clocks : S # {} => Sink!Max(S) \in S /\ \A y \in S : Sink!Max(S) >= y
  BY <1>3, <1>4, MaxOf, FS_Subset
<1>6. ASSUME NEW c \in Sink!Clocks, NEW p \in BOOLEAN
      PROVE  LET d == Sink!breakdown_latest(c, p) IN
             /\ d # 0 => Docs[d].clock <= c
             /\ p /\ (\E b \in Sink!Clocks : breakdowns[b] # 0 /\ b <= c /\ Docs[breakdowns[b]].final)
                  => d # 0 /\ Docs[d].final
  <2> DEFINE scoped == {b \in Sink!Clocks : breakdowns[b] # 0 /\ b <= c}
             chosen == {b \in scoped : p => Docs[breakdowns[b]].final}
  <2>1. Sink!breakdown_latest(c, p) = IF chosen # {} THEN breakdowns[Sink!Max(chosen)]
          ELSE IF scoped # {} THEN breakdowns[Sink!Max(scoped)] ELSE 0
    BY DEF Sink!breakdown_latest
  <2>2. chosen # {} => Sink!Max(chosen) \in chosen
    BY <1>5
  <2>3. scoped # {} => Sink!Max(scoped) \in scoped
    BY <1>5
  <2>4. \A b \in scoped : breakdowns[b] # 0 /\ Docs[breakdowns[b]].clock <= c
    BY DEF ShownInv
  <2> QED
    BY <2>1, <2>2, <2>3, <2>4
<1>7. ASSUME NEW i \in DOMAIN Docs, Docs[i].final, bpos > Len(Docs)
      PROVE  LET d == Sink!breakdown_latest(Sink!Max(Sink!Clocks), TRUE) IN d # 0 /\ Docs[d].final
  <2> DEFINE b == Docs[i].clock
  <2>1. b \in Sink!Clocks /\ Sink!Max(Sink!Clocks) \in Sink!Clocks /\ b <= Sink!Max(Sink!Clocks)
    BY <1>2, <1>5
  <2>2. breakdowns[b] >= i /\ breakdowns[b] \in 0 .. Len(Docs)
    BY <1>1, <1>7, <2>1 DEF ShownInv
  <2>3. breakdowns[b] \in DOMAIN Docs /\ breakdowns[b] # 0 /\ Docs[breakdowns[b]].clock = b
    BY <1>1, <2>1, <2>2 DEF ShownInv
  <2>4. Docs[breakdowns[b]].final
    BY <1>1, <1>7, <2>2, <2>3 DEF DocsInOrder
  <2> QED
    BY <1>6, <2>1, <2>3, <2>4
<1> QED
  BY <1>6, <1>7 DEF Sink!FinalIsServed

LEMMA SameCount == \A S : Sink!Cardinality(S) = Cardinality(S)
BY DEF Sink!Cardinality, Cardinality

LEMMA SkipSafe == ASSUME StreamTypes, ExportTypes, RecordInv PROVE Sink!SkipIsSafe
<1>1. IsFiniteSet(store) /\ Cardinality(store) \in Nat /\ export.count \in Nat
  <2>1. IsFiniteSet(Rows) /\ store \in SUBSET Rows /\ export.count \in Nat
    BY FS_Interval DEF StreamTypes, ExportTypes, Rows
  <2> QED
    BY <2>1, FS_Subset, FS_CardinalityType
<1>2. store \cap mongo \in SUBSET store
  OBVIOUS
<1>3. /\ IsFiniteSet(store \cap mongo) /\ Cardinality(store \cap mongo) <= Cardinality(store)
      /\ Cardinality(store) = Cardinality(store \cap mongo) => store = store \cap mongo
  BY <1>1, <1>2, FS_Subset
<1>4. Cardinality(store \cap mongo) \in Nat
  BY <1>3, FS_CardinalityType
<1> QED
  BY <1>1, <1>3, <1>4, SameCount DEF Sink!SkipIsSafe, RecordInv

LEMMA InitSink == ASSUME DocsInOrder, Sink!Init PROVE SinkInv
<1>1. Len(Docs) \in Nat /\ DOMAIN Docs = 1 .. Len(Docs)
  BY DEF DocsInOrder
<1>2. StreamTypes
  BY DEF Sink!Init, StreamTypes, Rows
<1>3. ExportTypes
  BY DEF Sink!Init, ExportTypes, Jobs, Sink!Idle, Rows
<1>4. JobInv /\ RecordInv /\ Sink!NoRowVanishes
  BY DEF Sink!Init, JobInv, JobHolds, RecordInv, Sink!NoRowVanishes, Sink!Idle
<1>5. ShownInv
  BY <1>1 DEF Sink!Init, ShownInv
<1> QED
  BY <1>2, <1>3, <1>4, <1>5 DEF SinkInv
-----------------------------------------------------------------------------
(* The steps.                                                              *)

LEMMA StreamStep == ASSUME SinkInv, [Sink!Next]_(Sink!vars) PROVE StreamTypes'
<1> USE DEF StreamTypes, Rows
<1>0. StreamTypes /\ job \in [Sink!Exporters -> Jobs]
  BY DEF SinkInv, ExportTypes
<1>1. CASE Sink!Publish
  <2>1. produced' = produced + 1 /\ UNCHANGED <<pos, sinkGroup, pending, popped, store>>
    BY <1>1 DEF Sink!Publish, Sink!buffers
  <2>2. 1 .. produced \subseteq 1 .. produced'
    BY <1>0, <2>1
  <2>3. popped' \in [Sink!Flushers -> SUBSET (1 .. produced')]
    BY <1>0, <2>1, <2>2
  <2>4. pos \in 1 .. produced' + 1 /\ produced' \in Nat /\ sinkGroup \in 1 .. pos
    BY <1>0, <2>1
  <2>5. pending \subseteq 1 .. produced' /\ store \subseteq 1 .. produced'
    BY <1>0, <2>2
  <2> QED
    BY <2>1, <2>3, <2>4, <2>5
<1>2. CASE Sink!enqueue
  <2>1. /\ pos <= produced /\ pos' = pos + 1 /\ UNCHANGED <<produced, sinkGroup, store>>
        /\ \/ popped' = [popped EXCEPT !["kpi"] = pending \cup {pos}] /\ pending' = {}
           \/ popped' = popped /\ pending' = pending \cup {pos}
    BY <1>2 DEF Sink!enqueue
  <2>2. pending \cup {pos} \subseteq 1 .. produced
    BY <1>0, <2>1
  <2>3. popped' \in [Sink!Flushers -> SUBSET (1 .. produced)] /\ pending' \subseteq 1 .. produced
    BY <1>0, <2>1, <2>2
  <2> QED
    BY <1>0, <2>1, <2>3
<1>3. CASE Sink!BadRow
  BY <1>0, <1>3 DEF Sink!BadRow
<1>4. CASE Sink!AutoCommit
  BY <1>0, <1>4 DEF Sink!AutoCommit, Sink!buffers
<1>5. CASE Sink!TimerFlush
  BY <1>0, <1>5 DEF Sink!TimerFlush, Sink!Flushers
<1>6. ASSUME NEW f \in Sink!Flushers, NEW works \in BOOLEAN, Sink!Write(f, works) PROVE StreamTypes'
  BY <1>0, <1>6 DEF Sink!Write, Sink!Flushers
<1>7. ASSUME NEW x \in Sink!Exporters, Sink!export_run(x) PROVE StreamTypes'
  BY <1>0, <1>7 DEF Sink!export_run, Sink!Flushed
<1>8. CASE Sink!NextMessage \/ Sink!write_breakdown \/ UNCHANGED Sink!vars
  BY <1>0, <1>8 DEF Sink!NextMessage, Sink!write_breakdown, Sink!buffers, Sink!vars
<1>9. CASE Sink!LastFlush
  BY <1>0, <1>9 DEF Sink!LastFlush, Sink!Flushed
<1>10. CASE Sink!Exit \/ Sink!Kill
  <2>1. /\ pending' = {} /\ popped' = [f \in Sink!Flushers |-> {}] /\ UNCHANGED <<produced, pos, store>>
        /\ sinkGroup' \in {sinkGroup, pos}
    BY <1>10 DEF Sink!Exit, Sink!Kill, Sink!GoDown
  <2> QED
    BY <1>0, <2>1
<1>11. CASE Sink!Restart
  BY <1>0, <1>11 DEF Sink!Restart
<1>12. ASSUME NEW x \in Sink!Exporters, Sink!fetch_all(x) PROVE StreamTypes'
  BY <1>0, <1>12 DEF Sink!fetch_all, Sink!Flushed
<1>13. ASSUME NEW x \in Sink!Exporters, Sink!insert_batches(x) \/ Sink!InsertFails(x)
                    \/ Sink!set_export_state(x) PROVE StreamTypes'
  BY <1>0, <1>13 DEF Sink!insert_batches, Sink!InsertFails, Sink!set_export_state, Sink!buffers
<1> QED
  BY <1>1, <1>2, <1>3, <1>4, <1>5, <1>6, <1>7, <1>8, <1>9, <1>10, <1>11, <1>12, <1>13
     DEF Sink!Next, Sink!handle_terminal_run, Sink!Shutdown, Sink!Exporters

LEMMA VanishStep == ASSUME SinkInv, [Sink!Next]_(Sink!vars) PROVE Sink!NoRowVanishes'
<1> DEFINE seen == pending \cup popped["timer"] \cup popped["kpi"] \cup store \cup discarded
<1> USE DEF StreamTypes, Rows, Sink!NoRowVanishes
<1>0. StreamTypes /\ Sink!NoRowVanishes
  BY DEF SinkInv
<1>k. ASSUME pos' = pos, seen \subseteq seen' PROVE Sink!NoRowVanishes'
  BY <1>0, <1>k
<1>1. CASE Sink!Publish
  BY <1>0, <1>1, <1>k DEF Sink!Publish, Sink!buffers
<1>2. CASE Sink!enqueue
  <2>1. pos' = pos + 1 /\ seen \cup {pos} \subseteq seen'
    BY <1>0, <1>2 DEF Sink!enqueue, Sink!Flushers
  <2> QED
    BY <1>0, <2>1
<1>3. CASE Sink!BadRow
  BY <1>0, <1>3 DEF Sink!BadRow
<1>4. CASE Sink!AutoCommit
  BY <1>k, <1>4 DEF Sink!AutoCommit, Sink!buffers
<1>5. CASE Sink!TimerFlush
  BY <1>0, <1>k, <1>5 DEF Sink!TimerFlush, Sink!Flushers
<1>6. ASSUME NEW f \in Sink!Flushers, NEW works \in BOOLEAN, Sink!Write(f, works) PROVE Sink!NoRowVanishes'
  BY <1>0, <1>k, <1>6 DEF Sink!Write, Sink!Flushers
<1>7. ASSUME NEW x \in Sink!Exporters, Sink!export_run(x) PROVE Sink!NoRowVanishes'
  BY <1>0, <1>k, <1>7 DEF Sink!export_run, Sink!Flushed
<1>8. CASE Sink!NextMessage \/ Sink!write_breakdown \/ UNCHANGED Sink!vars
  BY <1>k, <1>8 DEF Sink!NextMessage, Sink!write_breakdown, Sink!buffers, Sink!vars
<1>9. CASE Sink!LastFlush
  BY <1>k, <1>9 DEF Sink!LastFlush, Sink!Flushed
<1>10. CASE Sink!Exit \/ Sink!Kill
  <2>1. discarded' = discarded \cup pending \cup popped["timer"] \cup popped["kpi"] /\ UNCHANGED <<pos, store>>
    BY <1>10, Zenon DEF Sink!Exit, Sink!Kill, Sink!GoDown, Sink!Flushers
  <2> QED
    BY <1>k, <2>1
<1>11. CASE Sink!Restart
  <2>1. pos' = sinkGroup /\ discarded' = discarded \ (sinkGroup .. pos) /\ UNCHANGED <<pending, popped, store>>
    BY <1>11 DEF Sink!Restart
  <2> QED
    BY <1>0, <2>1
<1>12. ASSUME NEW x \in Sink!Exporters, Sink!fetch_all(x) PROVE Sink!NoRowVanishes'
  BY <1>k, <1>12 DEF Sink!fetch_all, Sink!Flushed
<1>13. ASSUME NEW x \in Sink!Exporters, Sink!insert_batches(x) \/ Sink!InsertFails(x)
                    \/ Sink!set_export_state(x) PROVE Sink!NoRowVanishes'
  BY <1>k, <1>13 DEF Sink!insert_batches, Sink!InsertFails, Sink!set_export_state, Sink!buffers
<1> QED
  BY <1>1, <1>2, <1>3, <1>4, <1>5, <1>6, <1>7, <1>8, <1>9, <1>10, <1>11, <1>12, <1>13
     DEF Sink!Next, Sink!handle_terminal_run, Sink!Shutdown, Sink!Exporters

LEMMA ShownStep == ASSUME DocsInOrder, SinkInv, [Sink!Next]_(Sink!vars) PROVE ShownInv'
<1> USE DEF ShownInv
<1>0. ShownInv /\ Len(Docs) \in Nat /\ DOMAIN Docs = 1 .. Len(Docs)
  BY DEF SinkInv, DocsInOrder
<1>1. CASE Sink!write_breakdown
  <2>1. bpos \in DOMAIN Docs /\ Docs[bpos].clock \in Sink!Clocks
    BY <1>1 DEF Sink!write_breakdown, Sink!Clocks
  <2>2. breakdowns' = [breakdowns EXCEPT ![Docs[bpos].clock] = bpos] /\ bpos' = bpos + 1
    BY <1>1 DEF Sink!write_breakdown
  <2> QED
    BY <1>0, <2>1, <2>2
<1>2. CASE Sink!Restart
  <2>1. bpos' \in {1, bpos} /\ breakdowns' = breakdowns
    BY <1>2 DEF Sink!Restart
  <2> QED
    BY <1>0, <2>1
<1>3. CASE UNCHANGED <<bpos, breakdowns>>
  BY <1>0, <1>3
<1>4. UNCHANGED <<bpos, breakdowns>> \/ Sink!write_breakdown \/ Sink!Restart
  BY DEF Sink!Next, Sink!vars, Sink!Publish, Sink!enqueue, Sink!BadRow, Sink!AutoCommit,
     Sink!TimerFlush, Sink!handle_terminal_run, Sink!Shutdown, Sink!export_run,
     Sink!NextMessage, Sink!LastFlush, Sink!Exit, Sink!Kill, Sink!GoDown, Sink!Write, Sink!fetch_all,
       Sink!insert_batches, Sink!InsertFails, Sink!set_export_state
<1> QED
  BY <1>1, <1>2, <1>3, <1>4
\* Rows are stored and copied for good, so what an exporter knows stays true.
LEMMA Kept ==
  ASSUME SinkInv, StreamTypes', store \subseteq store', mongo \subseteq mongo'
  PROVE  /\ \A j \in Jobs : JobHolds(j, store, mongo) => JobHolds(j, store', mongo')
         /\ Cardinality(store) <= Cardinality(store')
         /\ Cardinality(store \cap mongo) <= Cardinality(store' \cap mongo')
         /\ \A S \in SUBSET store' : Cardinality(S) \in Nat
         /\ \A S \in SUBSET (store' \cap mongo') : Cardinality(S) <= Cardinality(store' \cap mongo')
<1>1. IsFiniteSet(store')
  <2>1. IsFiniteSet(1 .. produced') /\ store' \in SUBSET (1 .. produced')
    BY FS_Interval DEF StreamTypes, Rows
  <2> QED
    BY <2>1, FS_Subset
<1>2. \A S \in SUBSET store' : IsFiniteSet(S) /\ Cardinality(S) \in Nat /\ Cardinality(S) <= Cardinality(store')
  BY <1>1, FS_Subset, FS_CardinalityType
<1>3. \A S \in SUBSET (store' \cap mongo') : Cardinality(S) <= Cardinality(store' \cap mongo')
  <2> TAKE S \in SUBSET (store' \cap mongo')
  <2>1. IsFiniteSet(store' \cap mongo')
    BY <1>2
  <2> QED
    BY <2>1, FS_Subset
<1>4. Cardinality(store) <= Cardinality(store') /\ Cardinality(store) \in Nat /\ Cardinality(store') \in Nat
  BY <1>2
<1>5. Cardinality(store \cap mongo) <= Cardinality(store' \cap mongo')
  BY <1>3
<1>6. ASSUME NEW j \in Jobs, JobHolds(j, store, mongo) PROVE JobHolds(j, store', mongo')
  BY <1>4, <1>6 DEF JobHolds, Jobs
<1> QED
  BY <1>2, <1>3, <1>4, <1>5, <1>6

LEMMA Grown ==
  ASSUME SinkInv, [Sink!Next]_(Sink!vars)
  PROVE  store \subseteq store' /\ mongo \subseteq mongo' /\ produced <= produced'
<1>0. produced \in Nat
  BY DEF SinkInv, StreamTypes
<1>1. \A x \in Sink!Exporters : Sink!export_run(x) => store \subseteq store' /\ UNCHANGED <<mongo, produced>>
  BY DEF Sink!export_run, Sink!Flushed
<1>2. CASE Sink!Publish \/ Sink!enqueue \/ Sink!BadRow \/ Sink!AutoCommit \/ Sink!TimerFlush \/ UNCHANGED Sink!vars
  BY <1>0, <1>2 DEF Sink!Publish, Sink!enqueue, Sink!BadRow, Sink!AutoCommit, Sink!TimerFlush,
     Sink!vars, Sink!buffers, Sink!exports
<1>3. CASE Sink!handle_terminal_run \/ Sink!Shutdown
  BY <1>0, <1>1, <1>3 DEF Sink!handle_terminal_run, Sink!Shutdown, Sink!Exporters
<1>4. CASE Sink!NextMessage \/ Sink!LastFlush \/ Sink!Exit \/ Sink!Kill \/ Sink!Restart \/ Sink!write_breakdown
  BY <1>0, <1>4 DEF Sink!NextMessage, Sink!LastFlush, Sink!Exit, Sink!Kill, Sink!GoDown, Sink!Restart,
     Sink!write_breakdown, Sink!buffers, Sink!exports, Sink!Flushed
<1>5. ASSUME NEW f \in Sink!Flushers, NEW works \in BOOLEAN, Sink!Write(f, works)
      PROVE  store \subseteq store' /\ mongo \subseteq mongo' /\ produced <= produced'
  BY <1>0, <1>5 DEF Sink!Write, Sink!exports
<1>6. ASSUME NEW x \in Sink!Exporters, Sink!fetch_all(x) \/ Sink!insert_batches(x)
                   \/ Sink!InsertFails(x) \/ Sink!set_export_state(x)
      PROVE  store \subseteq store' /\ mongo \subseteq mongo' /\ produced <= produced'
  BY <1>0, <1>6 DEF Sink!fetch_all, Sink!insert_batches, Sink!InsertFails, Sink!set_export_state,
     Sink!buffers, Sink!Flushed
<1> QED
  BY <1>2, <1>3, <1>4, <1>5, <1>6 DEF Sink!Next

\* An exporter moves alone: what the others know stays, what it knows now holds.
LEMMA OneMoves ==
  ASSUME SinkInv, StreamTypes', store \subseteq store', mongo \subseteq mongo', NEW x \in Sink!Exporters,
         NEW j \in [pc : {"idle", "fetch", "insert", "record", "skipped", "closed"}, count : Nat,
           rows : SUBSET (1 .. produced')],
         JobHolds(j, store', mongo'), job' = [job EXCEPT ![x] = j], produced <= produced'
  PROVE  JobInv' /\ job' \in [Sink!Exporters -> Jobs']
<1>1. \A y \in Sink!Exporters : job[y] \in Jobs /\ JobHolds(job[y], store', mongo')
  BY Kept DEF SinkInv, ExportTypes, JobInv
<1>2. \A y \in Sink!Exporters : job'[y] = IF y = x THEN j ELSE job[y]
  BY DEF SinkInv, ExportTypes
<1>3. JobInv'
  BY <1>1, <1>2 DEF JobInv
<1>4. Jobs \subseteq Jobs'
  BY DEF Jobs, Rows, SinkInv, StreamTypes
<1> QED
  BY <1>1, <1>3, <1>4 DEF SinkInv, ExportTypes, Jobs, Rows
ExportSafe == JobInv /\ RecordInv /\ ExportTypes

LEMMA ExportStep == ASSUME SinkInv, [Sink!Next]_(Sink!vars) PROVE ExportSafe'
<1>0. /\ StreamTypes /\ ExportTypes /\ JobInv /\ RecordInv /\ StreamTypes'
      /\ store \subseteq store' /\ mongo \subseteq mongo' /\ produced <= produced'
  BY StreamStep, Grown DEF SinkInv
<1>1. /\ Cardinality(store \cap mongo) \in Nat /\ Cardinality(store) \in Nat
      /\ Cardinality(store' \cap mongo') \in Nat /\ Cardinality(store') \in Nat
      /\ Cardinality(store \cap mongo) <= Cardinality(store' \cap mongo')
      /\ Cardinality(store) <= Cardinality(store')
  BY <1>0, Kept
<1>2. \A e : e = export /\ export' = e
        => RecordInv' /\ export' \in [status : {"none", "exported", "failed"}, count : Nat]
  BY <1>0, <1>1 DEF RecordInv, ExportTypes
<1>3. ASSUME UNCHANGED job PROVE JobInv' /\ job' \in [Sink!Exporters -> Jobs']
  <2>1. \A x \in Sink!Exporters : JobHolds(job[x], store', mongo')
    BY <1>0, Kept DEF JobInv, ExportTypes
  <2>2. Jobs \subseteq Jobs'
    BY <1>0 DEF Jobs, Rows, StreamTypes
  <2> QED
    BY <1>0, <1>3, <2>1, <2>2 DEF JobInv, ExportTypes
<1>4. ASSUME UNCHANGED <<export, job>> PROVE ExportSafe'
  BY <1>2, <1>3, <1>4 DEF ExportSafe, ExportTypes
<1>5. CASE Sink!Publish \/ Sink!enqueue \/ Sink!BadRow \/ Sink!AutoCommit \/ Sink!TimerFlush
             \/ Sink!Restart \/ Sink!write_breakdown \/ UNCHANGED Sink!vars
  BY <1>4, <1>5 DEF Sink!Publish, Sink!enqueue, Sink!BadRow, Sink!AutoCommit, Sink!TimerFlush,
     Sink!Restart, Sink!write_breakdown, Sink!vars, Sink!exports
<1>6. ASSUME NEW f \in Sink!Flushers, NEW works \in BOOLEAN, Sink!Write(f, works) PROVE ExportSafe'
  BY <1>4, <1>6 DEF Sink!Write, Sink!exports
<1> DEFINE J == [pc : {"idle", "fetch", "insert", "record", "skipped", "closed"}, count : Nat,
             rows : SUBSET (1 .. produced')]
<1>7. ASSUME NEW x \in Sink!Exporters, NEW j \in J, JobHolds(j, store', mongo'), job' = [job EXCEPT ![x] = j]
      PROVE  JobInv' /\ job' \in [Sink!Exporters -> Jobs']
  BY <1>0, <1>7, OneMoves
<1>8. \A x \in Sink!Exporters : job[x] \in J /\ \A q \in {"skipped", "closed"} : [job[x] EXCEPT !.pc = q] \in J
  <2>1. 1 .. produced \subseteq 1 .. produced'
    BY <1>0 DEF StreamTypes
  <2> QED
    BY <1>0, <2>1 DEF ExportTypes, Jobs, Rows
<1>9. \A j : j.pc \notin {"fetch", "insert", "record"} => JobHolds(j, store', mongo')
  BY DEF JobHolds
<1>10. ASSUME NEW x \in Sink!Exporters, Sink!export_run(x) PROVE ExportSafe'
  <2>1. store' = Sink!Flushed /\ UNCHANGED export
    BY <1>10 DEF Sink!export_run
  <2>2. PICK j \in J : JobHolds(j, store', mongo') /\ job' = [job EXCEPT ![x] = j]
    <3>1. CASE job' = [job EXCEPT ![x].pc = "skipped"]
      <4>1. job' = [job EXCEPT ![x] = [job[x] EXCEPT !.pc = "skipped"]]
        BY <1>0, <3>1 DEF ExportTypes
      <4> QED
        BY <1>0, <1>8, <1>9, <4>1 DEF ExportTypes, Jobs
    <3>2. CASE job' = [job EXCEPT ![x] = [pc |-> "fetch", count |-> Cardinality(Sink!Flushed), rows |-> {}]]
      <4>1. JobHolds([pc |-> "fetch", count |-> Cardinality(Sink!Flushed), rows |-> {}], store', mongo')
        BY <1>1, <2>1 DEF JobHolds
      <4>2. [pc |-> "fetch", count |-> Cardinality(Sink!Flushed), rows |-> {}] \in J
        BY <1>1, <2>1
      <4> QED
        BY <3>2, <4>1, <4>2
    <3> QED
      BY <1>10, <3>1, <3>2, SameCount DEF Sink!export_run
  <2> QED
    BY <1>2, <1>7, <2>1, <2>2 DEF ExportSafe, ExportTypes
<1>11. CASE Sink!NextMessage
  <2>1. UNCHANGED export /\ job' = [job EXCEPT !["status"] = Sink!Idle]
    BY <1>11 DEF Sink!NextMessage
  <2>2. Sink!Idle \in J /\ JobHolds(Sink!Idle, store', mongo') /\ "status" \in Sink!Exporters
    BY <1>9 DEF Sink!Idle, Sink!Exporters
  <2> QED
    BY <1>2, <1>7, <2>1, <2>2 DEF ExportSafe, ExportTypes
<1>12. CASE Sink!LastFlush
  <2>1. UNCHANGED export /\ job' = [job EXCEPT !["main"] = [job["main"] EXCEPT !.pc = "closed"]]
    BY <1>0, <1>12 DEF Sink!LastFlush, ExportTypes
  <2>2. [job["main"] EXCEPT !.pc = "closed"] \in J /\ "main" \in Sink!Exporters
    BY <1>8 DEF Sink!Exporters
  <2>3. JobHolds([job["main"] EXCEPT !.pc = "closed"], store', mongo')
    BY <1>0, <1>9, <2>2 DEF ExportTypes, Jobs
  <2> QED
    BY <1>2, <1>7, <2>1, <2>2, <2>3 DEF ExportSafe, ExportTypes
<1>13. CASE Sink!Exit \/ Sink!Kill
  <2>1. UNCHANGED export /\ job' = [x \in Sink!Exporters |-> Sink!Idle]
    BY <1>13 DEF Sink!Exit, Sink!Kill, Sink!GoDown
  <2>2. JobHolds(Sink!Idle, store', mongo') /\ Sink!Idle \in Jobs'
    BY <1>9 DEF Sink!Idle, Jobs
  <2> QED
    BY <1>2, <2>1, <2>2 DEF ExportSafe, ExportTypes, JobInv
<1>14. ASSUME NEW x \in Sink!Exporters, Sink!fetch_all(x) PROVE ExportSafe'
  <2>1. store' = Sink!Flushed /\ UNCHANGED mongo /\ job[x].count <= Cardinality(store) /\ job[x] \in J
    BY <1>0, <1>8, <1>14 DEF Sink!fetch_all, JobInv, JobHolds
  <2>2. CASE Sink!Flushed = {}
    <3>1. export' = [status |-> "exported", count |-> 0]
            /\ job' = [job EXCEPT ![x] = [Sink!Idle EXCEPT !.pc = "skipped"]]
      BY <1>14, <2>2 DEF Sink!fetch_all
    <3>2. RecordInv' /\ export' \in [status : {"none", "exported", "failed"}, count : Nat]
      BY <1>1, <3>1 DEF RecordInv
    <3>3. [Sink!Idle EXCEPT !.pc = "skipped"] \in J
            /\ JobHolds([Sink!Idle EXCEPT !.pc = "skipped"], store', mongo')
      BY <1>9 DEF Sink!Idle
    <3> QED
      BY <1>7, <3>1, <3>2, <3>3 DEF ExportSafe, ExportTypes
  <2>3. CASE Sink!Flushed # {}
    <3> DEFINE j == [pc |-> "insert", count |-> job[x].count, rows |-> store']
    <3>1. UNCHANGED export /\ job' = [job EXCEPT ![x].pc = "insert", ![x].rows = Sink!Flushed]
      BY <1>14, <2>3 DEF Sink!fetch_all
    <3>2. job' = [job EXCEPT ![x] = j]
      <4>1. j = [job[x] EXCEPT !.pc = "insert", !.rows = store']
        <5>1. [job[x] EXCEPT !.pc = "insert",
               !.rows = store'] = [[job[x] EXCEPT !.pc = "insert"] EXCEPT !.rows = store']
          OBVIOUS
        <5>2. [job[x] EXCEPT !.pc = "insert"] = [pc |-> "insert", count |-> job[x].count, rows |-> job[x].rows]
          BY <2>1
        <5>3. j = [[pc |-> "insert", count |-> job[x].count, rows |-> job[x].rows] EXCEPT !.rows = store']
          OBVIOUS
        <5> QED
          BY <5>1, <5>2, <5>3
      <4>2. job' = [job EXCEPT ![x] = [job[x] EXCEPT !.pc = "insert", !.rows = store']]
        BY <1>0, <2>1, <3>1 DEF ExportTypes
      <4> QED
        BY <4>1, <4>2
    <3>3. j \in J
      BY <1>0, <2>1 DEF StreamTypes, Rows
    <3>4. JobHolds(j, store', mongo')
      BY <1>1, <2>1 DEF JobHolds
    <3> QED
      BY <1>2, <1>7, <3>1, <3>2, <3>3, <3>4 DEF ExportSafe, ExportTypes
  <2> QED
    BY <2>2, <2>3
<1>15. ASSUME NEW x \in Sink!Exporters, Sink!insert_batches(x) PROVE ExportSafe'
  <2>1. /\ UNCHANGED <<export, store>> /\ mongo' = mongo \cup job[x].rows
        /\ job[x].rows \subseteq store /\ job[x].count <= Cardinality(job[x].rows) /\ job[x] \in J
    BY <1>0, <1>8, <1>15 DEF Sink!insert_batches, JobInv, JobHolds, Sink!buffers
  <2> DEFINE j == [pc |-> "record", count |-> job[x].count, rows |-> job[x].rows]
  <2>2. job' = [job EXCEPT ![x] = j]
    <3>1. j = [job[x] EXCEPT !.pc = "record"]
      BY <2>1
    <3>2. job' = [job EXCEPT ![x] = [job[x] EXCEPT !.pc = "record"]]
      BY <1>0, <1>15 DEF Sink!insert_batches, ExportTypes
    <3> QED
      BY <3>1, <3>2
  <2>3. j \in J /\ JobHolds(j, store', mongo')
    BY <2>1 DEF JobHolds
  <2> QED
    BY <1>2, <1>7, <2>1, <2>2, <2>3 DEF ExportSafe, ExportTypes
<1>16. ASSUME NEW x \in Sink!Exporters, Sink!InsertFails(x) PROVE ExportSafe'
  <2>1. export' = [status |-> "failed", count |-> 0]
          /\ job' = [job EXCEPT ![x] = [Sink!Idle EXCEPT !.pc = "skipped"]]
    BY <1>16 DEF Sink!InsertFails
  <2>2. [Sink!Idle EXCEPT !.pc = "skipped"] \in J /\ JobHolds([Sink!Idle EXCEPT !.pc = "skipped"], store', mongo')
    BY <1>9 DEF Sink!Idle
  <2>3. RecordInv' /\ export' \in [status : {"none", "exported", "failed"}, count : Nat]
    BY <2>1 DEF RecordInv
  <2> QED
    BY <1>7, <2>1, <2>2, <2>3 DEF ExportSafe, ExportTypes
<1>17. ASSUME NEW x \in Sink!Exporters, Sink!set_export_state(x) PROVE ExportSafe'
  <2>1. /\ export' = [status |-> "exported", count |-> job[x].count] /\ UNCHANGED <<store, mongo>>
        /\ job' = [job EXCEPT ![x] = [Sink!Idle EXCEPT !.pc = "skipped"]]
    BY <1>17 DEF Sink!set_export_state, Sink!recorded_count, Sink!buffers
  <2>2. [Sink!Idle EXCEPT !.pc = "skipped"] \in J /\ JobHolds([Sink!Idle EXCEPT !.pc = "skipped"], store', mongo')
    BY <1>9 DEF Sink!Idle
  <2>3. /\ job[x] \in J /\ job[x].rows \subseteq store \cap mongo
        /\ job[x].count <= Cardinality(job[x].rows)
    BY <1>0, <1>8, <1>17 DEF Sink!set_export_state, JobInv, JobHolds
  <2>4. /\ job[x].rows \in SUBSET (store' \cap mongo')
        /\ Cardinality(job[x].rows) <= Cardinality(store' \cap mongo') /\ Cardinality(job[x].rows) \in Nat
    BY <1>0, <2>1, <2>3, Kept
  <2>5. RecordInv' /\ export' \in [status : {"none", "exported", "failed"}, count : Nat]
    BY <1>1, <2>1, <2>3, <2>4 DEF RecordInv
  <2> QED
    BY <1>7, <2>1, <2>2, <2>5 DEF ExportSafe, ExportTypes
<1> QED
  BY <1>5, <1>6, <1>10, <1>11, <1>12, <1>13, <1>14, <1>15, <1>16, <1>17
     DEF Sink!Next, Sink!handle_terminal_run, Sink!Shutdown, Sink!Exporters

LEMMA SinkStep == ASSUME DocsInOrder, SinkInv, [Sink!Next]_(Sink!vars) PROVE SinkInv'
BY StreamStep, VanishStep, ShownStep, ExportStep DEF SinkInv, ExportSafe

\* The KPI sink, for any number of rows, documents, terminal messages and failures: an
\* export that is skipped loses nothing, a delivered row vanishes only where a write, a
\* row or the process failed, the final breakdown is the one served once it was read,
\* and a chart keeps the ends of its series.
THEOREM SinkSafeAlways ==
  ASSUME DocsInOrder, MaxSeries \in Nat, SeriesPoints \in Nat
  PROVE  Sink!Spec => []SinkSafe
<1>1. Sink!Init => SinkInv
  BY InitSink
<1>2. SinkInv /\ [Sink!Next]_(Sink!vars) => SinkInv'
  BY SinkStep
<1>3. SinkInv => SinkSafe
  BY SkipSafe, FinalServed, KeepsItsEnds DEF SinkInv, SinkSafe, Sink!SinkSafe
<1> QED
  BY <1>1, <1>2, <1>3, PTL DEF Sink!Spec

-----------------------------------------------------------------------------
(* The supervised tasks that run the consumer and its siblings, for every  *)
(* choice of the timeouts and any number of generations.  The verdict of   *)
(* healthy() reads marks that several threads write; SupervisorInv says    *)
(* whose marks they are.                                                   *)

RunnerPoints == {"unborn", "top", "fn", "wedged", "backoff", "dead"}

LEMMA TaskConstants ==
  /\ HeartbeatTimeout \in Nat \ {0} /\ StallTimeout \in Nat \ {0}
  /\ ResetAfter \in Nat \ {0} /\ BackoffMax \in Nat \ {0}
  /\ UnhealthyAfter \in Nat \ {0} /\ MaxGen \in Nat \ {0}
  /\ HeartbeatTimeout < StallTimeout /\ HeartbeatTimeout < ResetAfter
BY SupervisorAssumption

-----------------------------------------------------------------------------
(* Types.                                                                  *)

(* The Boolean part of the types goes its own way: Zenon, not SMT.         *)
Switches == stop \in BOOLEAN /\ restart_on_stall \in BOOLEAN
            /\ finished \in BOOLEAN /\ join_failed \in BOOLEAN

Numbers ==
  /\ gen \in Gens
  /\ thread \in [Gens -> RunnerPoints]
  /\ heartbeat \in Ages
  /\ progress \in Ages \cup {Never} /\ round \in Ages \cup {Never}
  /\ failures \in 0 .. UnhealthyAfter
  /\ backoff \in [Gens -> 1 .. BackoffMax]
  /\ wait \in [Gens -> 0 .. BackoffMax]
  /\ attempt \in [Gens -> Ages]
  /\ beat \in [Gens -> Ages \cup {Never}]

LEMMA TypeParts == TaskTypeOK <=> Switches /\ Numbers
BY Zenon DEF TaskTypeOK, Switches, Numbers, RunnerPoints

LEMMA AgeBounds ==
  /\ Oldest \in Nat /\ 0 \in Ages /\ Never \notin Ages
  /\ Never = Oldest + 1
  /\ HeartbeatTimeout < Oldest /\ StallTimeout < Oldest /\ ResetAfter < Oldest
BY TaskConstants DEF Oldest, Never, Ages

LEMMA OlderType ==
  ASSUME NEW a \in Ages
  PROVE  Older(a) \in Ages
BY AgeBounds DEF Older, Ages

LEMMA OlderOrNeverType ==
  ASSUME NEW a \in Ages \cup {Never}
  PROVE  OlderOrNever(a) \in Ages \cup {Never}
BY OlderType DEF OlderOrNever

LEMMA TaskInitTypes == TaskInit => Switches /\ Numbers
<1> SUFFICES ASSUME TaskInit PROVE Switches /\ Numbers
  OBVIOUS
<1>1. Switches
  BY Zenon DEF TaskInit, Switches
<1>2. Numbers
  BY TaskConstants, AgeBounds DEF TaskInit, Numbers, Gens, RunnerPoints
<1> QED
  BY <1>1, <1>2

LEMMA SwitchesStep == Switches /\ [TaskNext]_taskVars => Switches'
<1> SUFFICES ASSUME Switches, [TaskNext]_taskVars PROVE Switches'
  OBVIOUS
<1> USE DEF Switches, switches
<1>1. CASE UNCHANGED taskVars
  BY <1>1, Zenon DEF taskVars
<1>2. ASSUME NEW g \in Gens, Running(g) \/ Heartbeat(g) \/ FnRaises(g) \/ Wedge(g) \/ Unwedge(g)
      PROVE  Switches'
  <2>1. CASE RunnerLeaves(g)
    BY <2>1, Zenon DEF RunnerLeaves, Exit
  <2>2. CASE RunnerBegins(g)
    BY <2>2, Zenon DEF RunnerBegins
  <2>3. CASE FnReturns(g) \/ FnRaises(g)
    BY <2>3, Zenon DEF FnReturns, FnRaises, FnEnds, Account, Exit
  <2>4. CASE BackoffEnds(g)
    BY <2>4, Zenon DEF BackoffEnds, Exit
  <2>5. CASE Heartbeat(g) \/ Wedge(g) \/ Unwedge(g)
    BY <2>5, Zenon DEF Heartbeat, Wedge, Unwedge
  <2> QED
    BY <1>2, <2>1, <2>2, <2>3, <2>4, <2>5 DEF Running
<1>3. CASE RestartStalled
  BY <1>3, Zenon DEF RestartStalled
<1>4. CASE StopTask \/ JoinTimesOut \/ Tick
  BY <1>4, Zenon DEF StopTask, JoinTimesOut, Tick
<1> QED
  BY <1>1, <1>2, <1>3, <1>4 DEF TaskNext

LEMMA NumbersStep == Numbers /\ [TaskNext]_taskVars => Numbers'
<1> SUFFICES ASSUME Numbers, [TaskNext]_taskVars PROVE Numbers'
  OBVIOUS
<1> USE TaskConstants, AgeBounds DEF Numbers, RunnerPoints
<1>1. CASE UNCHANGED taskVars
  BY <1>1 DEF taskVars
<1>2. ASSUME NEW g \in Gens, Running(g) \/ Heartbeat(g) \/ FnRaises(g) \/ Wedge(g) \/ Unwedge(g)
      PROVE  Numbers'
  <2>1. CASE RunnerLeaves(g)
    BY <2>1 DEF RunnerLeaves, Exit
  <2>2. CASE RunnerBegins(g)
    BY <2>2 DEF RunnerBegins
  <2>3. ASSUME FnEnds(g) PROVE Numbers'
    BY <2>3 DEF FnEnds, Account, Exit
  <2>4. CASE BackoffEnds(g)
    BY <2>4 DEF BackoffEnds, Exit
  <2>5. CASE Heartbeat(g)
    BY <2>5 DEF Heartbeat
  <2>6. CASE Wedge(g) \/ Unwedge(g)
    BY <2>6 DEF Wedge, Unwedge
  <2> QED
    BY <1>2, <2>1, <2>2, <2>3, <2>4, <2>5, <2>6 DEF Running, FnReturns, FnRaises
<1>3. CASE RestartStalled
  BY <1>3 DEF RestartStalled, Gens
<1>4. CASE StopTask \/ JoinTimesOut
  BY <1>4 DEF StopTask, JoinTimesOut
<1>5. CASE Tick
  <2>1. heartbeat' \in Ages /\ progress' \in Ages \cup {Never} /\ round' \in Ages \cup {Never}
    BY <1>5, OlderType, OlderOrNeverType DEF Tick
  <2>2. attempt' \in [Gens -> Ages] /\ beat' \in [Gens -> Ages \cup {Never}]
    BY <1>5, OlderType, OlderOrNeverType DEF Tick
  <2>3. wait' \in [Gens -> 0 .. BackoffMax]
    BY <1>5 DEF Tick
  <2> QED
    BY <1>5, <2>1, <2>2, <2>3 DEF Tick
<1> QED
  BY <1>1, <1>2, <1>3, <1>4, <1>5 DEF TaskNext

\* The state of a supervised task (supervisor.py) is well-formed: ages are ages,
\* every counter stays within its bound, each runner is at a known point.
THEOREM TaskTyped == TaskSpec => []TaskTypeOK
<1>1. TaskInit => Switches /\ Numbers
  BY TaskInitTypes
<1>2. Switches /\ Numbers /\ [TaskNext]_taskVars => (Switches /\ Numbers)'
  BY SwitchesStep, NumbersStep
<1>3. Switches /\ Numbers => TaskTypeOK
  BY TypeParts
<1> QED
  BY <1>1, <1>2, <1>3, PTL DEF TaskSpec

-----------------------------------------------------------------------------
(* Whose marks the verdict reads.                                          *)

\* _last_progress is the age of the current generation's last beat, never of an
\* abandoned one's.
OwnProgress == progress = beat[gen]

\* A generation that was not started has no thread and has made no beat.
UnbornAhead == \A g \in Gens : g > gen => thread[g] = "unborn" /\ beat[g] = Never

\* Only a task that opted in is ever restarted.
OnlyOptedIn == ~restart_on_stall => gen = 1

\* _round_started is the current attempt's, except between a restart and the first
\* step of the new thread, when it is still the abandoned attempt's.
RoundOwner ==
  ~stop /\ round # Never =>
    \/ Working(gen) /\ attempt[gen] = round
    \/ gen > 1 /\ thread[gen] = "top" /\ beat[gen] = Never

SupervisorInv ==
  /\ Switches /\ Numbers
  /\ OwnProgress /\ UnbornAhead /\ OnlyOptedIn /\ RoundOwner

LEMMA TaskInitInv == TaskInit => SupervisorInv
<1> SUFFICES ASSUME TaskInit PROVE SupervisorInv
  OBVIOUS
<1>1. Switches /\ Numbers
  BY TaskInitTypes
<1>2. 1 \in Gens
  BY TaskConstants DEF Gens
<1>3. OwnProgress /\ UnbornAhead /\ OnlyOptedIn /\ RoundOwner
  BY <1>2 DEF TaskInit, OwnProgress, UnbornAhead, OnlyOptedIn, RoundOwner, Gens
<1> QED
  BY <1>1, <1>3 DEF SupervisorInv

LEMMA OwnProgressStep == SupervisorInv /\ [TaskNext]_taskVars => OwnProgress'
<1> SUFFICES ASSUME SupervisorInv, [TaskNext]_taskVars PROVE OwnProgress'
  OBVIOUS
<1> USE DEF SupervisorInv, Numbers, OwnProgress
<1>1. CASE UNCHANGED taskVars
  BY <1>1 DEF taskVars
<1>2. ASSUME NEW g \in Gens, Running(g) \/ FnRaises(g) \/ Wedge(g) \/ Unwedge(g)
      PROVE  OwnProgress'
  BY <1>2 DEF Running, RunnerLeaves, RunnerBegins, FnReturns, FnRaises, FnEnds, BackoffEnds,
              Wedge, Unwedge
<1>3. ASSUME NEW g \in Gens, Heartbeat(g)
      PROVE  OwnProgress'
  BY <1>3 DEF Heartbeat
<1>4. CASE RestartStalled
  BY <1>4, TaskConstants DEF RestartStalled, UnbornAhead, Gens
<1>5. CASE StopTask \/ JoinTimesOut
  BY <1>5 DEF StopTask, JoinTimesOut
<1>6. CASE Tick
  BY <1>6 DEF Tick
<1> QED
  BY <1>1, <1>2, <1>3, <1>4, <1>5, <1>6 DEF TaskNext

LEMMA UnbornAheadStep == SupervisorInv /\ [TaskNext]_taskVars => UnbornAhead'
<1> SUFFICES ASSUME SupervisorInv, [TaskNext]_taskVars PROVE UnbornAhead'
  OBVIOUS
<1> USE TaskConstants DEF SupervisorInv, Numbers, UnbornAhead, Gens
<1>1. CASE UNCHANGED taskVars
  BY <1>1 DEF taskVars
<1>2. ASSUME NEW g \in Gens, Running(g) \/ Heartbeat(g) \/ FnRaises(g) \/ Wedge(g) \/ Unwedge(g)
      PROVE  UnbornAhead'
  <2>1. ASSUME NEW p, thread[g] # "unborn", thread' = [thread EXCEPT ![g] = p], UNCHANGED gen,
               beat' = beat \/ beat' = [beat EXCEPT ![g] = 0]
        PROVE  UnbornAhead'
    BY <2>1
  <2> QED
    BY <1>2, <2>1 DEF Running, RunnerLeaves, RunnerBegins, FnReturns, FnRaises, FnEnds, Account, Exit,
                      BackoffEnds, Heartbeat, Wedge, Unwedge, Working
<1>3. CASE RestartStalled
  BY <1>3 DEF RestartStalled
<1>4. CASE StopTask \/ JoinTimesOut
  BY <1>4 DEF StopTask, JoinTimesOut
<1>5. CASE Tick
  BY <1>5 DEF Tick, OlderOrNever
<1> QED
  BY <1>1, <1>2, <1>3, <1>4, <1>5 DEF TaskNext

LEMMA OnlyOptedInStep == SupervisorInv /\ [TaskNext]_taskVars => OnlyOptedIn'
<1> SUFFICES ASSUME SupervisorInv, [TaskNext]_taskVars PROVE OnlyOptedIn'
  OBVIOUS
<1> USE DEF SupervisorInv, OnlyOptedIn, switches
<1>1. CASE RestartStalled
  BY <1>1, Zenon DEF RestartStalled
<1>2. CASE ~RestartStalled
  <2>1. UNCHANGED <<restart_on_stall, gen>>
    BY <1>2, Zenon DEF TaskNext, taskVars, Running, RunnerLeaves, RunnerBegins, FnReturns, FnRaises, FnEnds,
         BackoffEnds, Heartbeat, Wedge, Unwedge, StopTask, JoinTimesOut, Tick
  <2> QED
    BY <2>1, Zenon
<1> QED
  BY <1>1, <1>2

LEMMA RoundOwnerStep == SupervisorInv /\ [TaskNext]_taskVars => RoundOwner'
<1> SUFFICES ASSUME SupervisorInv, [TaskNext]_taskVars, ~stop', round' # Never
    PROVE  \/ Working(gen)' /\ attempt'[gen'] = round'
           \/ gen' > 1 /\ thread'[gen'] = "top" /\ beat'[gen'] = Never
  BY DEF RoundOwner
<1> USE TaskConstants DEF SupervisorInv, Numbers, RoundOwner, Working, RunnerPoints, switches
<1>1. CASE UNCHANGED taskVars
  BY <1>1 DEF taskVars
<1>2. ASSUME NEW g \in Gens, Running(g) \/ Heartbeat(g) \/ FnRaises(g) \/ Wedge(g) \/ Unwedge(g)
      PROVE  \/ Working(gen)' /\ attempt'[gen'] = round'
             \/ gen' > 1 /\ thread'[gen'] = "top" /\ beat'[gen'] = Never
  <2>1. CASE RunnerLeaves(g)
    BY <2>1 DEF RunnerLeaves
  <2>2. CASE RunnerBegins(g)
    BY <2>2 DEF RunnerBegins
  <2>3. ASSUME Working(g), FnEnds(g)
        PROVE  \/ Working(gen)' /\ attempt'[gen'] = round'
               \/ gen' > 1 /\ thread'[gen'] = "top" /\ beat'[gen'] = Never
    BY <2>3 DEF FnEnds, Account
  <2>4. CASE BackoffEnds(g)
    BY <2>4 DEF BackoffEnds
  <2>5. CASE Heartbeat(g) \/ Wedge(g) \/ Unwedge(g)
    BY <2>5 DEF Heartbeat, Wedge, Unwedge
  <2> QED
    BY <1>2, <2>1, <2>2, <2>3, <2>4, <2>5 DEF Running, FnReturns, FnRaises
<1>3. CASE RestartStalled
  BY <1>3 DEF RestartStalled, UnbornAhead, Gens
<1>4. CASE StopTask \/ JoinTimesOut
  BY <1>4 DEF StopTask, JoinTimesOut
<1>5. CASE Tick
  <2>1. round # Never /\ round' = Older(round)
    BY <1>5 DEF Tick, OlderOrNever
  <2> QED
    BY <1>5, <2>1 DEF Tick, OlderOrNever
<1> QED
  BY <1>1, <1>2, <1>3, <1>4, <1>5 DEF TaskNext

LEMMA TaskInvStep == SupervisorInv /\ [TaskNext]_taskVars => SupervisorInv'
<1> SUFFICES ASSUME SupervisorInv, [TaskNext]_taskVars PROVE SupervisorInv'
  OBVIOUS
<1>1. Switches' /\ Numbers'
  BY SwitchesStep, NumbersStep DEF SupervisorInv
<1>2. OwnProgress' /\ UnbornAhead' /\ OnlyOptedIn' /\ RoundOwner'
  BY OwnProgressStep, UnbornAheadStep, OnlyOptedInStep, RoundOwnerStep
<1> QED
  BY <1>1, <1>2, Zenon DEF SupervisorInv

\* The marks of a supervised task belong to its current generation, through crashes,
\* abandoned threads that wake up late, restarts and a stop.
THEOREM MarksAreOwn == TaskSpec => []SupervisorInv
<1>1. TaskInit => SupervisorInv
  BY TaskInitInv
<1>2. SupervisorInv /\ [TaskNext]_taskVars => SupervisorInv'
  BY TaskInvStep
<1> QED
  BY <1>1, <1>2, PTL DEF TaskSpec

LEMMA InvHonest == SupervisorInv => HealthIsHonest
<1> SUFFICES ASSUME SupervisorInv PROVE HealthIsHonest
  OBVIOUS
<1>1. TaskTypeOK
  BY TypeParts DEF SupervisorInv
<1>2. HealthyMeansProgress
  BY AgeBounds DEF SupervisorInv, Numbers, OwnProgress, HealthyMeansProgress, Healthy, LivenessAge
<1>3. StormIsUnhealthy
  BY TaskConstants, AgeBounds
     DEF SupervisorInv, Numbers, RoundOwner, StormIsUnhealthy, Healthy, Storm
<1> QED
  BY <1>1, <1>2, <1>3 DEF HealthIsHonest

\* SupervisedTask.healthy(): whatever the timeouts and however many generations, a
\* verdict of healthy on a running task means that the current thread made progress
\* or had no time to, and never hides a crash storm outside the window after a
\* restart.
THEOREM HealthIsHonestAlways == TaskSpec => []HealthIsHonest
BY MarksAreOwn, InvHonest, PTL

LEMMA InvOnePoller == SupervisorInv => NeverTwoPollers
<1> SUFFICES ASSUME SupervisorInv, ~restart_on_stall
    PROVE  Cardinality({g \in Gens : Working(g)}) <= 1
  BY DEF NeverTwoPollers
<1>1. gen = 1
  BY DEF SupervisorInv, OnlyOptedIn
<1>2. {g \in Gens : Working(g)} \subseteq {1}
  BY <1>1, TaskConstants DEF SupervisorInv, UnbornAhead, Working, Gens
<1>3. IsFiniteSet({1}) /\ Cardinality({1}) = 1
  BY FS_Singleton
<1>4. Cardinality({g \in Gens : Working(g)}) <= Cardinality({1})
  BY <1>2, <1>3, FS_Subset
<1> QED
  BY <1>3, <1>4

\* build_tasks: a task that did not opt in to restart_on_stall, as the Kafka poller
\* did not, never has two threads in its function, whatever stalls or crashes.
THEOREM NeverTwoPollersAlways == TaskSpec => []NeverTwoPollers
BY MarksAreOwn, InvOnePoller, PTL

=============================================================================
