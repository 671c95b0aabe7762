------------------------------ MODULE RunFrames ------------------------------
(***************************************************************************)
(* The position series of a run: apps/dataplane/service.py (on_trip_geo,   *)
(* capture_frames, capture_run, persist_run_meta, restore_run_codes,       *)
(* finalize_run) over apps/dataplane/store/hot.py.                         *)
(*                                                                         *)
(* The poll thread puts positions into the hot tier and, when a terminal   *)
(* run_status arrives, captures, persists and evicts the run; the capture  *)
(* sweep snapshots every resident run into DuckDB's frames table, which    *)
(* has no primary key, and writes the run's code books into run_meta.      *)
(* A step is what one thread does between two points where another can     *)
(* observe it: _run_lock and the hot tier's lock bound the steps.          *)
(*                                                                         *)
(* A position is its number in the order of delivery; a book maps trucks   *)
(* to slots (the haulier codes take the same path).  A frame carries its   *)
(* index and a row per truck with a position: the truck, the slot it is    *)
(* encoded as, the position.                                               *)
(***************************************************************************)
EXTENDS Integers, Sequences, FiniteSets

CONSTANTS
  Runs, Trucks,
  Sweepers,      \* capture sweep threads (a stalled one is abandoned, not killed)
  MaxRuns,       \* HOT_MAX_RUNS, slabs the hot tier keeps
  Limits         \* the bounds of each scenario, one of them chosen at the start: the
                 \* runs that are live, the sweep threads, the positions delivered
                 \* (updates), the reads and writes the store refuses (faults), the
                 \* hard kills (crashes), and the redeliveries of a terminal that was
                 \* already handled (replays)

ASSUME FramesAssumption ==
  /\ MaxRuns \in Nat \ {0} /\ IsFiniteSet(Runs)
  /\ Limits \subseteq [runs : SUBSET Runs, sweepers : SUBSET Sweepers, updates : Nat,
                       faults : Nat, crashes : Nat, replays : Nat]

VARIABLES
  \* DuckDB.
  frames,        \* frames[r]: the sequence of frames written
  meta_book,     \* run_meta.slot_map, a set of <<truck, slot>>
  meta_max,      \* run_meta.max_frame_idx
  meta_status,   \* run_meta.status is terminal
  \* The hot tier.
  lru,           \* resident runs, least recently updated first
  book, counter, \* a run's identity, resident or parked
  slab,          \* the newest position of each truck of a resident run
  \* The service.
  updates, captured, max_idx, sig, restored, finalized, dropped,
  \* The poll thread and the sweep threads.
  poll, sweep,
  \* The world: positions delivered, the newest one this process took from each
  \* truck of a run, terminals, bounds.
  ver, last, terminal, faults, crashes, replays, limit

store == <<frames, meta_book, meta_max, meta_status>>
hot == <<lru, book, counter, slab>>
svc == <<updates, captured, max_idx, sig, restored, finalized, dropped>>
world == <<ver, last, terminal, faults, crashes, replays>>
vars == <<store, hot, svc, poll, sweep, world, limit>>

-----------------------------------------------------------------------------
Unset == -1

Resident == {lru[i] : i \in 1 .. Len(lru)}
\* A run is in the list once at most.
Without(s, r) ==
  IF \E i \in 1 .. Len(s) : s[i] = r
  THEN LET p == CHOOSE i \in 1 .. Len(s) : s[i] = r
       IN  [i \in 1 .. Len(s) - 1 |-> IF i < p THEN s[i] ELSE s[i + 1]]
  ELSE s

Highest(S) == CHOOSE x \in S : \A y \in S : y <= x
TrucksOf(b) == {e[1] : e \in b}
SlotsOf(b) == {e[2] : e \in b}

\* slot_for: the next slot is one above the highest ever given out.
NextSlot(b) == IF b = {} THEN 0 ELSE Highest(SlotsOf(b)) + 1
WithTruck(b, k) == IF k \in TrucksOf(b) THEN b ELSE b \cup {<<k, NextSlot(b)>>}

\* _merge_code_map: on a disagreement the persisted entry wins.
MergeCodeMap(persisted, live) ==
  persisted \cup {e \in live : e[1] \notin TrucksOf(persisted)}

\* _non_clashing: entries that neither rename a known truck nor steal a slot.
NonClashing(current, incoming) ==
  {e \in incoming : e[1] \notin TrucksOf(current) /\ e[2] \notin SlotsOf(current)}

Indexes(r) == {frames[r][i].idx : i \in 1 .. Len(frames[r])}

\* frame_range through _seed_frame_idx: one above the highest index on disk.
SeededFrameIdx(r) == IF frames[r] = <<>> THEN 0 ELSE Highest(Indexes(r)) + 1

\* Positions are numbered from 1; 0 is a truck without one.
NoPositions == [k \in Trucks |-> 0]
Empty(r) == slab[r] = NoPositions

\* The frame snapshot() would take now: the trucks with a position, under their slots.
\* Two trucks with one slot share its cells, and the newer position is in them.
Shadowed(r, e) == \E x \in book[r] : x[2] = e[2] /\ slab[r][x[1]] > slab[r][e[1]]
Snapshot(r) ==
  [idx |-> counter[r],
   rows |-> {<<e[1], e[2], slab[r][e[1]]>> :
               e \in {x \in book[r] : slab[r][x[1]] > 0 /\ ~Shadowed(r, x)}}]

Idle == [pc |-> "idle"]
IsIdle(s) == sweep[s].pc = "idle"

\* Slip: the frame write happens outside _run_lock.
LockHeldSlip == FALSE

\* capture_run holds _run_lock from the sequence read to the frame write.
LockHeld == \E s \in Sweepers : sweep[s].pc \in {"snap", "write"}

-----------------------------------------------------------------------------
Init ==
  /\ frames = [r \in Runs |-> <<>>]
  /\ meta_book = [r \in Runs |-> {}]
  /\ meta_max = [r \in Runs |-> Unset]
  /\ meta_status = [r \in Runs |-> FALSE]
  /\ lru = <<>>
  /\ book = [r \in Runs |-> {}]
  /\ counter = [r \in Runs |-> 0]
  /\ slab = [r \in Runs |-> NoPositions]
  /\ updates = [r \in Runs |-> Unset]
  /\ captured = [r \in Runs |-> Unset]
  /\ max_idx = [r \in Runs |-> Unset]
  /\ sig = [r \in Runs |-> Unset]
  /\ restored = {}
  /\ finalized = {}
  /\ dropped = {}
  /\ poll = Idle
  /\ sweep = [s \in Sweepers |-> Idle]
  /\ ver = 0
  /\ last = [r \in Runs |-> NoPositions]
  /\ terminal = [r \in Runs |-> "none"]
  /\ faults = 0
  /\ crashes = 0
  /\ replays = 0
  /\ limit \in Limits

\* The store refuses a call.
Fault == faults < limit.faults /\ faults' = faults + 1

-----------------------------------------------------------------------------
(* The hot tier.  Each operator is one critical section of HotStore._lock.  *)

\* Appending a run makes it the most recently updated; past MaxRuns the least
\* recently updated one leaves, and only its identity stays parked.
Touched(r) == Append(Without(lru, r), r)
Kept(s) == IF Len(s) > MaxRuns THEN Tail(s) ELSE s

\* A slab that leaves the hot tier takes its positions with it.
DropSlabs(gone) == [r \in Runs |-> IF r \in gone THEN NoPositions ELSE slab[r]]

\* _create_slab_locked: a given book wins over the parked one; the frame counter
\* never goes backwards.
CreatedBook(r, given) == IF given # {} THEN given ELSE book[r]
CreatedCounter(r, seed, start) == Highest({seed, counter[r], start})

\* _seed_frame_idx through _seeded_frame_idx: a lookup that fails says 0.
SeedLookup(r, seed) ==
  \/ seed = SeededFrameIdx(r) /\ UNCHANGED faults
  \/ seed = 0 /\ SeededFrameIdx(r) > 0 /\ Fault

\* seed_run_identity.
SeedRunIdentity(r, given, start) ==
  IF r \in Resident
  THEN /\ book' = [book EXCEPT ![r] = @ \cup NonClashing(@, given)]
       /\ counter' = [counter EXCEPT ![r] = Highest({@, start})]
       /\ UNCHANGED <<lru, slab, faults>>
  ELSE /\ book' = [book EXCEPT ![r] = CreatedBook(r, given)]
       /\ \E seed \in {SeededFrameIdx(r), 0} :
            /\ SeedLookup(r, seed)
            /\ counter' = [counter EXCEPT ![r] = CreatedCounter(r, seed, start)]
       /\ lru' = Kept(Touched(r))
       /\ slab' = DropSlabs(Resident \ Resident')

\* ensure_run: a run that is not resident gets a slab.
EnsureRun(r) ==
  IF r \in Resident
  THEN UNCHANGED <<counter, faults>>
  ELSE \E seed \in {SeededFrameIdx(r), 0} :
         /\ SeedLookup(r, seed)
         /\ counter' = [counter EXCEPT ![r] = CreatedCounter(r, seed, 0)]

\* update_position: make the run resident, give the truck a slot, write it.
UpdatePosition(r, k) ==
  LET known == IF r \in Resident THEN book[r] ELSE CreatedBook(r, {})
  IN  /\ EnsureRun(r)
      /\ lru' = Kept(Touched(r))
      /\ book' = [book EXCEPT ![r] = WithTruck(known, k)]
      /\ slab' = [DropSlabs(Resident \ Resident') EXCEPT ![r][k] = ver + 1]

-----------------------------------------------------------------------------
(* on_trip_geo, on the poll thread.                                        *)

Position(r) == poll = Idle /\ ~LockHeld /\ ver < limit.updates /\ r \in limit.runs

\* The finalized check, then restore_run_codes: nothing to restore ...
AdmitKnown(r, k) ==
  /\ Position(r)
  /\ r \notin finalized
  /\ sig[r] # Unset \/ r \in restored \/ (meta_book[r] = {} /\ meta_max[r] = Unset)
  /\ restored' = IF sig[r] # Unset THEN restored ELSE restored \cup {r}
  /\ poll' = [pc |-> "update", run |-> r, truck |-> k]
  /\ UNCHANGED <<store, hot, updates, captured, max_idx, sig, finalized, dropped,
                 sweep, world>>

\* ... or the persisted identity goes into the hot tier first.
AdmitRestored(r, k) ==
  /\ Position(r)
  /\ r \notin finalized
  /\ sig[r] = Unset /\ r \notin restored
  /\ meta_book[r] # {} \/ meta_max[r] # Unset
  /\ restored' = restored \cup {r}
  /\ max_idx' = [max_idx EXCEPT ![r] = IF meta_max[r] # Unset THEN meta_max[r] ELSE @]
  /\ SeedRunIdentity(r, meta_book[r], meta_max[r] + 1)
  /\ poll' = [pc |-> "update", run |-> r, truck |-> k]
  /\ UNCHANGED <<store, updates, captured, sig, finalized, dropped, sweep, ver, last,
                 terminal, crashes, replays>>

\* The lookup failed: the run is not latched and the position goes in regardless.
AdmitUnread(r, k) ==
  /\ Position(r)
  /\ r \notin finalized
  /\ sig[r] = Unset /\ r \notin restored
  /\ Fault
  /\ poll' = [pc |-> "update", run |-> r, truck |-> k]
  /\ UNCHANGED <<store, hot, svc, sweep, ver, last, terminal, crashes, replays>>

Update ==
  /\ poll.pc = "update"
  /\ UpdatePosition(poll.run, poll.truck)
  /\ ver' = ver + 1
  /\ last' = [last EXCEPT ![poll.run][poll.truck] = ver + 1]
  /\ poll' = [pc |-> "bump", run |-> poll.run]
  /\ UNCHANGED <<store, svc, sweep, terminal, crashes, replays>>

Bump ==
  /\ poll.pc = "bump"
  /\ ~LockHeld
  /\ updates' = [updates EXCEPT ![poll.run] = IF @ = Unset THEN 1 ELSE @ + 1]
  /\ poll' = Idle
  /\ UNCHANGED <<store, hot, captured, max_idx, sig, restored, finalized, dropped,
                 sweep, world>>

-----------------------------------------------------------------------------
(* finalize_run, on the poll thread, once the ingest gate let it through.  *)

RunSeq(r) == IF updates[r] = Unset THEN 0 ELSE updates[r]
NothingNew(r) == captured[r] # Unset /\ captured[r] = RunSeq(r)

\* capture_run has written frame f of run r for update sequence q.
FrameWritten(r, f, q) ==
  /\ frames' = [frames EXCEPT ![r] = Append(@, f)]
  /\ captured' = [captured EXCEPT ![r] = q]
  /\ max_idx' = [max_idx EXCEPT ![r] = Highest({@, f.idx})]

TerminalArrives(r) ==
  /\ r \in limit.runs /\ terminal[r] = "none"
  /\ terminal' = [terminal EXCEPT ![r] = "sent"]
  /\ UNCHANGED <<store, hot, svc, poll, sweep, ver, last, faults, crashes, replays>>

\* The terminal record is at hand: new, redelivered after a failure, or
\* redelivered although it was handled.
Terminal(r) ==
  /\ poll = Idle
  /\ ~LockHeld
  /\ \/ terminal[r] = "sent" /\ UNCHANGED <<terminal, replays>>
     \/ /\ terminal[r] = "done" /\ replays < limit.replays
        /\ terminal' = [terminal EXCEPT ![r] = "sent"]
        /\ replays' = replays + 1

\* _positions_uncaptured after the capture: what the terminal counts as lost.
CountLost(r) ==
  dropped' = IF updates[r] # captured'[r] THEN dropped \cup {r} ELSE dropped

FinalCapture(r) ==
  /\ Terminal(r)
  /\ \/ /\ NothingNew(r) \/ r \notin Resident
        /\ UNCHANGED <<frames, captured, max_idx, counter>>
     \/ /\ ~NothingNew(r) /\ r \in Resident
        /\ counter' = [counter EXCEPT ![r] = @ + 1]
        /\ IF Empty(r)
           THEN /\ captured' = [captured EXCEPT ![r] = RunSeq(r)]
                /\ UNCHANGED <<frames, max_idx>>
           ELSE FrameWritten(r, Snapshot(r), RunSeq(r))
  /\ CountLost(r)
  /\ poll' = [pc |-> "meta_read", run |-> r]
  /\ UNCHANGED <<meta_book, meta_max, meta_status, lru, book, slab, updates, sig,
                 restored, finalized, sweep, ver, last, faults, crashes>>

\* Slip: finalize_run swallows the failed capture and goes on to evict the run.
FinalCaptureFailsSlip(r) ==
  /\ Terminal(r)
  /\ ~NothingNew(r) /\ r \in Resident /\ ~Empty(r)
  /\ Fault
  /\ poll' = [pc |-> "meta_read", run |-> r]
  /\ UNCHANGED <<store, hot, svc, sweep, ver, last, crashes>>

\* write_frame raised: the index is handed back, the terminal will be replayed.
FinalCaptureFails(r) ==
  /\ Terminal(r)
  /\ ~NothingNew(r) /\ r \in Resident /\ ~Empty(r)
  /\ Fault
  /\ UNCHANGED <<store, hot, svc, poll, sweep, ver, last, crashes>>

\* persist_run_meta reads the live maps and the row on disk ...
LiveBook(r) == IF r \in Resident THEN book[r] ELSE {}

\* get_run_meta: a read that fails finds no book, and the write goes ahead.
BookOnDisk(r, b) ==
  \/ b = meta_book[r] /\ UNCHANGED faults
  \/ b = {} /\ meta_book[r] # {} /\ Fault

FinalMetaRead ==
  /\ poll.pc = "meta_read"
  /\ ~LockHeld
  /\ \E b \in {meta_book[poll.run], {}} :
       /\ BookOnDisk(poll.run, b)
       /\ poll' = [pc |-> "meta_write", run |-> poll.run,
                   book |-> MergeCodeMap(b, LiveBook(poll.run)), max |-> max_idx[poll.run]]
  /\ UNCHANGED <<store, hot, svc, sweep, ver, last, terminal, crashes, replays>>

\* ... and upserts what it merged, never an empty map.
UpsertRunMeta(r, b, m) ==
  /\ meta_book' = [meta_book EXCEPT ![r] = IF b # {} THEN b ELSE @]
  /\ meta_max' = [meta_max EXCEPT ![r] = IF m # Unset THEN m ELSE @]
  /\ sig' = [sig EXCEPT ![r] = Cardinality(b)]

FinalMetaWrite ==
  /\ poll.pc = "meta_write"
  /\ ~LockHeld
  /\ UpsertRunMeta(poll.run, poll.book, poll.max)
  /\ meta_status' = [meta_status EXCEPT ![poll.run] = TRUE]
  /\ poll' = [pc |-> "mark", run |-> poll.run]
  /\ UNCHANGED <<frames, hot, updates, captured, max_idx, restored, finalized, dropped,
                 sweep, world>>

FinalMetaWriteFails ==
  /\ poll.pc = "meta_write"
  /\ Fault
  /\ poll' = Idle
  /\ UNCHANGED <<store, hot, svc, sweep, ver, last, terminal, crashes, replays>>

\* Slip: the run is not remembered as finalized.
MarkFinalizedSlip ==
  /\ poll.pc = "mark"
  /\ ~LockHeld
  /\ poll' = [pc |-> "evict", run |-> poll.run]
  /\ UNCHANGED <<store, hot, svc, sweep, world>>

MarkFinalized ==
  /\ poll.pc = "mark"
  /\ ~LockHeld
  /\ finalized' = finalized \cup {poll.run}
  /\ poll' = [pc |-> "evict", run |-> poll.run]
  /\ UNCHANGED <<store, hot, updates, captured, max_idx, sig, restored, dropped,
                 sweep, world>>

\* evict_run, first half: the hot tier drops the slab; then queue_dump and done
\* when there was none.
EvictRun ==
  /\ poll.pc = "evict"
  /\ lru' = Without(lru, poll.run)
  /\ slab' = DropSlabs({poll.run})
  /\ IF poll.run \in Resident
     THEN /\ poll' = [pc |-> "forget", run |-> poll.run]
          /\ UNCHANGED terminal
     ELSE /\ poll' = Idle
          /\ terminal' = [terminal EXCEPT ![poll.run] = "done"]
  /\ UNCHANGED <<store, book, counter, svc, sweep, ver, last, faults, crashes, replays>>

\* evict_run, second half, and queue_dump.
ForgetRun ==
  /\ poll.pc = "forget"
  /\ ~LockHeld
  /\ updates' = [updates EXCEPT ![poll.run] = Unset]
  /\ captured' = [captured EXCEPT ![poll.run] = Unset]
  /\ terminal' = [terminal EXCEPT ![poll.run] = "done"]
  /\ poll' = Idle
  /\ UNCHANGED <<store, hot, max_idx, sig, restored, finalized, dropped, sweep, ver, last,
                 faults, crashes, replays>>

-----------------------------------------------------------------------------
(* capture_frames, on a sweep thread.                                      *)

SweepKnown(s) ==
  /\ IsIdle(s) /\ s \in limit.sweepers
  /\ ~LockHeld
  /\ sweep' = [sweep EXCEPT ![s] =
                 [pc |-> "resident", known |-> {r \in Runs : updates[r] # Unset}]]
  /\ UNCHANGED <<store, hot, svc, poll, world>>

SweepResident(s) ==
  /\ sweep[s].pc = "resident"
  /\ sweep' = [sweep EXCEPT ![s] =
                 [pc |-> "gone", known |-> sweep[s].known, todo |-> Resident]]
  /\ UNCHANGED <<store, hot, svc, poll, world>>

\* The next run of the sweep, or its end.
NextRun(todo) == IF todo = {} THEN Idle ELSE [pc |-> "next", todo |-> todo]

\* Runs that left by the LRU door; losing positions no frame holds is counted.
SweepGone(s) ==
  /\ sweep[s].pc = "gone"
  /\ ~LockHeld
  /\ LET gone == {r \in sweep[s].known : r \notin sweep[s].todo /\ r \notin finalized}
     IN  /\ dropped' = dropped \cup {r \in gone : updates[r] # captured[r]}
         /\ updates' = [r \in Runs |-> IF r \in gone THEN Unset ELSE updates[r]]
         /\ captured' = [r \in Runs |-> IF r \in gone THEN Unset ELSE captured[r]]
  /\ sweep' = [sweep EXCEPT ![s] = NextRun(sweep[s].todo)]
  /\ UNCHANGED <<store, hot, max_idx, sig, restored, finalized, poll, world>>

At(s, pc, r) == [pc |-> pc, todo |-> sweep[s].todo, run |-> r]

\* capture_run takes _run_lock and reads the update sequence.
SweepLock(s, r) ==
  /\ sweep[s].pc = "next"
  /\ r \in sweep[s].todo
  /\ ~LockHeld
  /\ sweep' = [sweep EXCEPT ![s] =
                 IF NothingNew(r) THEN At(s, "meta_read", r)
                 ELSE [pc |-> "snap", todo |-> sweep[s].todo, run |-> r, seq |-> RunSeq(r)]]
  /\ UNCHANGED <<store, hot, svc, poll, world>>

SweepSnapshot(s) ==
  /\ sweep[s].pc = "snap"
  /\ LET r == sweep[s].run
     IN  \/ /\ r \notin Resident
            /\ sweep' = [sweep EXCEPT ![s] = At(s, "meta_read", r)]
            /\ UNCHANGED <<counter, captured>>
         \/ /\ r \in Resident /\ Empty(r)
            /\ counter' = [counter EXCEPT ![r] = @ + 1]
            /\ captured' = [captured EXCEPT ![r] = sweep[s].seq]
            /\ sweep' = [sweep EXCEPT ![s] = At(s, "meta_read", r)]
         \/ /\ r \in Resident /\ ~Empty(r)
            /\ counter' = [counter EXCEPT ![r] = @ + 1]
            /\ sweep' = [sweep EXCEPT ![s] =
                           [pc |-> "write", todo |-> sweep[s].todo, run |-> r,
                            seq |-> sweep[s].seq, frame |-> Snapshot(r)]]
            /\ UNCHANGED captured
  /\ UNCHANGED <<store, lru, book, slab, updates, max_idx, sig, restored, finalized,
                 dropped, poll, world>>

SweepWrite(s) ==
  /\ sweep[s].pc = "write"
  /\ FrameWritten(sweep[s].run, sweep[s].frame, sweep[s].seq)
  /\ sweep' = [sweep EXCEPT ![s] = At(s, "meta_read", sweep[s].run)]
  /\ UNCHANGED <<meta_book, meta_max, meta_status, hot, updates, sig, restored, finalized,
                 dropped, poll, world>>

Done(s) == NextRun(sweep[s].todo \ {sweep[s].run})

\* write_frame raised: rollback_frame_idx takes back the last index only, and the
\* sweep moves on without persisting the run's meta.
SweepWriteFails(s) ==
  /\ sweep[s].pc = "write"
  /\ Fault
  /\ LET r == sweep[s].run
         f == sweep[s].frame
     IN  counter' = IF r \in Resident /\ counter[r] = f.idx + 1
                    THEN [counter EXCEPT ![r] = f.idx] ELSE counter
  /\ sweep' = [sweep EXCEPT ![s] = Done(s)]
  /\ UNCHANGED <<store, lru, book, slab, svc, poll, ver, last, terminal, crashes, replays>>

\* persist_run_meta without a status: a run that is gone, or a book that has not
\* grown since the last durable write, is left alone.
SweepMetaRead(s) ==
  /\ sweep[s].pc = "meta_read"
  /\ ~LockHeld
  /\ \E b \in {meta_book[sweep[s].run], {}} :
       LET r == sweep[s].run
           merged == MergeCodeMap(b, LiveBook(r))
       IN  /\ BookOnDisk(r, b)
           /\ sweep' = [sweep EXCEPT ![s] =
                          IF r \notin Resident \/ sig[r] = Cardinality(merged) THEN Done(s)
                          ELSE [pc |-> "meta_write", todo |-> sweep[s].todo, run |-> r,
                                book |-> merged, max |-> max_idx[r]]]
  /\ UNCHANGED <<store, hot, svc, poll, ver, last, terminal, crashes, replays>>

SweepMetaWrite(s) ==
  /\ sweep[s].pc = "meta_write"
  /\ ~LockHeld
  /\ UpsertRunMeta(sweep[s].run, sweep[s].book, sweep[s].max)
  /\ sweep' = [sweep EXCEPT ![s] = Done(s)]
  /\ UNCHANGED <<frames, meta_status, hot, updates, captured, max_idx, restored, finalized,
                 dropped, poll, world>>

SweepMetaWriteFails(s) ==
  /\ sweep[s].pc = "meta_write"
  /\ Fault
  /\ sweep' = [sweep EXCEPT ![s] = Done(s)]
  /\ UNCHANGED <<store, hot, svc, poll, ver, last, terminal, crashes, replays>>

-----------------------------------------------------------------------------
\* A hard kill and the next start: DuckDB and the terminal records survive.
Crash ==
  /\ crashes < limit.crashes
  /\ crashes' = crashes + 1
  /\ lru' = <<>>
  /\ book' = [r \in Runs |-> {}]
  /\ counter' = [r \in Runs |-> 0]
  /\ slab' = [r \in Runs |-> NoPositions]
  /\ last' = [r \in Runs |-> NoPositions]
  /\ updates' = [r \in Runs |-> Unset]
  /\ captured' = [r \in Runs |-> Unset]
  /\ max_idx' = [r \in Runs |-> Unset]
  /\ sig' = [r \in Runs |-> Unset]
  /\ restored' = {}
  /\ finalized' = {}
  /\ dropped' = {}
  /\ poll' = Idle
  /\ sweep' = [s \in Sweepers |-> Idle]
  /\ UNCHANGED <<store, ver, terminal, faults, replays>>

Finalizing ==
  \/ FinalMetaRead
  \/ FinalMetaWrite
  \/ FinalMetaWriteFails
  \/ MarkFinalized
  \/ EvictRun
  \/ ForgetRun

Sweeping(s) ==
  \/ SweepKnown(s)
  \/ SweepResident(s)
  \/ SweepGone(s)
  \/ \E r \in Runs : SweepLock(s, r)
  \/ SweepSnapshot(s)
  \/ SweepWrite(s)
  \/ SweepWriteFails(s)
  \/ SweepMetaRead(s)
  \/ SweepMetaWrite(s)
  \/ SweepMetaWriteFails(s)

Step ==
  \/ \E r \in Runs : \/ \E k \in Trucks : AdmitKnown(r, k) \/ AdmitRestored(r, k) \/ AdmitUnread(r, k)
                     \/ TerminalArrives(r)
                     \/ FinalCapture(r)
                     \/ FinalCaptureFails(r)
  \/ Update
  \/ Bump
  \/ Finalizing
  \/ \E s \in Sweepers : Sweeping(s)
  \/ Crash

\* The scenario is chosen at the start and stays.
Next == Step /\ UNCHANGED limit

Spec == Init /\ [][Next]_vars

-----------------------------------------------------------------------------
(* Properties.                                                             *)

Rows(r) == UNION {frames[r][i].rows : i \in 1 .. Len(frames[r])}

TypeOK ==
  /\ \A r \in Runs : \A i \in 1 .. Len(frames[r]) :
       /\ frames[r][i].idx \in Nat
       /\ frames[r][i].rows \subseteq Trucks \X Nat \X (1 .. limit.updates)
  /\ meta_book \in [Runs -> SUBSET (Trucks \X Nat)]
  /\ meta_max \in [Runs -> Nat \cup {Unset}]
  /\ meta_status \in [Runs -> BOOLEAN]
  /\ Resident \subseteq Runs /\ Len(lru) <= MaxRuns
  /\ Cardinality(Resident) = Len(lru)
  /\ book \in [Runs -> SUBSET (Trucks \X Nat)]
  /\ counter \in [Runs -> Nat]
  /\ slab \in [Runs -> [Trucks -> 0 .. limit.updates]]
  /\ \A r \in Runs : ~Empty(r) => r \in Resident
  /\ updates \in [Runs -> Nat \cup {Unset}]
  /\ captured \in [Runs -> Nat \cup {Unset}]
  /\ restored \subseteq Runs /\ finalized \subseteq Runs /\ dropped \subseteq Runs
  /\ poll.pc \in {"idle", "update", "bump", "meta_read", "meta_write", "mark", "evict", "forget"}
  /\ \A s \in Sweepers : sweep[s].pc \in
       {"idle", "resident", "gone", "next", "snap", "write", "meta_read", "meta_write"}

\* No run ever has to leave the hot tier for want of room.
Room == Cardinality(limit.runs) <= MaxRuns

\* Rules 5 and 7 of service.py ("exactly one frame producer per run at a time"): no
\* two frames of a run share an index, although the table has no primary key, the
\* sweep and the terminal both capture, the LRU evicts and a restart reseeds; and, within
\* one process, no failed write leaves a hole, "which permanently defeats the archive's dense-prefix
\* check".  Two things void it, see the README: a store that refuses the reseeding query
\* after a restart, since _seed_frame_idx then starts at 0; and, for the holes, a write
\* that fails after the LRU pushed its run out, whose index nobody takes back.
FramesDense ==
  \A r \in Runs :
    /\ crashes = 0 /\ (faults = 0 \/ Room) => Indexes(r) = 0 .. Len(frames[r]) - 1
    /\ crashes = 0 \/ faults = 0 => \A i, j \in 1 .. Len(frames[r]) :
                                     frames[r][i].idx = frames[r][j].idx => i = j

\* No process inherits a book that merged two meanings of a slot: it takes a restore
\* that failed, and a second restart to bring the merged book into the hot tier.
BooksRestored == crashes <= 1 \/ faults = 0

\* A truck's newest position is in no frame of the run.
Unwritten(r, k) == last[r][k] > 0 /\ ~\E row \in Rows(r) : row[1] = k /\ row[3] = last[r][k]

\* Rule 4 and _positions_uncaptured: when a run is done, a frame holds the last
\* position of each of its trucks, or positions_dropped was raised.  (While the LRU
\* has room: a run evicted and re-admitted between two sweeps loses what it held
\* uncounted; and so do trucks whose slots a failed restore confused: see the README.)
NoPositionSilentlyLost ==
  Room /\ BooksRestored =>
    \A r \in Runs : \A k \in Trucks :
      terminal[r] = "done" /\ r \notin Resident /\ Unwritten(r, k) => r \in dropped

\* Rule 3: "A finished run is evicted from the hot tier and never re-admitted",
\* by the process that finished it.
FinishedNeverReadmitted ==
  [][crashes = 0 => \A r \in Runs : (terminal[r] = "done" /\ r \in Resident') => r \in Resident]_vars

\* Rule 5: one slot never means two trucks, neither in the live book, even when a
\* restore lands after trucks were numbered without it, nor in the frames of one run
\* that one process wrote.  (After a hard kill between a frame and the book that
\* decodes it, a frame may use a slot no row describes; and a book persisted after a
\* restore that could not be read confuses the process after that: see the README.)
SlotsMeanOneTruck ==
  \A r \in Runs :
    /\ BooksRestored => \A e, f \in book[r] : e[2] = f[2] => e = f
    /\ crashes = 0 => \A x, y \in Rows(r) : x[2] = y[2] => x[1] = y[1]

\* restore_run_codes: "a process restart mid-run would otherwise make the same uint8 mean
\* a different haulier -- and the same uint32 a different truck".  The book on disk, which
\* the next process numbers its trucks with and the archive decodes the frames with,
\* names one truck for a slot.
PersistedSlotsMeanOneTruck ==
  \A r \in Runs : \A e, f \in meta_book[r] : e[2] = f[2] => e = f

\* What a reader of the frames relies on: every index once, every slot one truck.
FramesSafe == TypeOK /\ FramesDense /\ SlotsMeanOneTruck

=============================================================================
