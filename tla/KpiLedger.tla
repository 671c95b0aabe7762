------------------------------ MODULE KpiLedger ------------------------------
(***************************************************************************)
(* The container-logistics analytics of one run: the per-haulier ledger    *)
(* the analytics agent folds window by window while the run goes on, the   *)
(* KPI rows and breakdown documents it publishes, and the authoritative    *)
(* recompute a fresh manager makes when the run is finalized.              *)
(*                                                                         *)
(* Haul trips are written by the truck agents; here they are documents     *)
(* that arrive at two facilities (each arrival stamped, or its stamp lost) *)
(* and complete, the write sometimes landing one step late; no agent       *)
(* cancels one, so what is not completed at the horizon was cut off.        *)
(* A facility that publishes a rebate schedule pays the carrier of a       *)
(* completed trip for each stamped arrival by the hour it happened; an     *)
(* hour is one clock step.  Kilometres and durations are left out: they    *)
(* are added up the way trip counts are.                                   *)
(***************************************************************************)
EXTENDS Integers, FiniteSets, FiniteSetsExt, Sequences

CONSTANTS
  Trips, Hauliers,
  carrier, owner,      \* Trips -> Hauliers: whose truck runs it, whose order it is
  Valued,              \* the shared trips whose benefit_km is known
  site,                \* site[t][leg]: the facility of each arrival
  Paying,              \* the facilities that publish a schedule
  Horizon,             \* bound: the last clock step
  Window,              \* steps_per_action: clock steps per analytics window
  MinGap,              \* breakdown_min_gap_seconds, in clock steps
  CheckpointInterval,  \* CHECKPOINT_INTERVAL_HOURS, in clock steps
  MaxFaults            \* bound: failed reads and publishes, restarts, late or unstamped writes

VARIABLES
  clock, trip,
  ticked,     \* the clock of the analytics agent's last step
  live,       \* its manager: [acc, lane, book, roster]
  flushed,    \* _last_breakdown_flush_time
  kpis,       \* rows published on kpi_stream, in order
  docs,       \* breakdown documents persisted
  phase,      \* "running" | "finalized"
  faults

vars == <<clock, trip, ticked, live, flushed, kpis, docs, phase, faults>>

-----------------------------------------------------------------------------
(* The ledger.                                                             *)

Legs == {"pickup", "dropoff"}
NoStamp == -1
Shared(t) == carrier[t] # owner[t]
Lane(t) == <<site[t]["pickup"], site[t]["dropoff"]>>
Lanes == {Lane(t) : t \in Trips}

new_haulier_acc ==
  [trips |-> 0, credited |-> 0, credited_pickup |-> 0, priced |-> 0, no_schedule |-> 0, no_stamp |-> 0,
   carried |-> 0, shared_out |-> 0, defined |-> 0, enabled |-> 0,
   inflight |-> 0, inflight_value |-> 0, abandoned |-> 0, abandoned_value |-> 0]

NewManager ==
  [acc |-> [h \in Hauliers |-> new_haulier_acc], lane |-> [l \in Lanes |-> 0], book |-> FALSE, roster |-> FALSE]

(* The schedule's amount for the hour of the recorded stamp.               *)
price_at(when) == when + 1

(* Both arrivals of a trip, sorted by what settlement can make of them; a  *)
(* trip settled on an empty book (a failed or empty read) sees no schedule. *)
Arrivals(S) == S \X Legs
Stamp(a) == trip[a[1]].stamp[a[2]]
Stamped(S) == {a \in Arrivals(S) : Stamp(a) # NoStamp}
Priced(S, blind) == {a \in Stamped(S \ blind) : site[a[1]][a[2]] \in Paying}
Value(A) == LET Amount(a) == price_at(Stamp(a)) IN MapThenSumSet(Amount, A)

(* The facility pays whoever shows up: the carrier.                        *)
settle_rebate_arrivals(h, S, blind) == Priced({t \in S : carrier[t] = h}, blind)

(* A set of completed trips folded into a manager's accumulators.          *)
accumulate_completed_trips(m, S, blind) ==
  [m EXCEPT
    !.acc = [h \in Hauliers |->
      LET mine == {t \in S : carrier[t] = h}
          lent == {t \in S : Shared(t) /\ owner[t] = h}
          paid == settle_rebate_arrivals(h, S, blind)
          plain == Stamped(mine) \ Priced(mine, blind) IN
      [@[h] EXCEPT
        !.trips = @ + Cardinality(mine),
        !.credited = @ + Value(paid),
        !.credited_pickup = @ + Value({a \in paid : a[2] = "pickup"}),
        !.priced = @ + Cardinality(paid),
        !.no_schedule = @ + Cardinality(plain),
        !.no_stamp = @ + Cardinality(Arrivals(mine) \ Stamped(mine)),
        !.carried = @ + Cardinality({t \in mine : Shared(t)}),
        !.shared_out = @ + Cardinality(lent),
        !.defined = @ + Cardinality(lent \cap Valued),
        !.enabled = @ + Cardinality(lent \ Valued)]],
    !.lane = [l \in Lanes |-> @[l] + Cardinality({t \in S : Lane(t) = l})],
    !.book = @ \/ Stamped(S \ blind) # {}]

(* Trips fold in completion order: once the book is cached, none is blind. *)
Blindings(m, S) ==
  {b \in SUBSET S : /\ m.book => b = {}
                    /\ \A t \in b, u \in S : trip[u].at < trip[t].at /\ Stamped({u}) # {} => u \in b}

(* One row per planner group: its members' additive fields, summed.        *)
build_planner_breakdown(acc) ==
  [k \in DOMAIN new_haulier_acc |-> LET Field(h) == acc[h][k] IN MapThenSumSet(Field, Hauliers)]

(* Pairable round trips between two facilities run loaded both ways.       *)
build_lane_breakdown(lane) ==
  {[corridor |-> {l[1], l[2]}, strength |-> Min({lane[l], lane[<<l[2], l[1]>>]})] :
     l \in {l \in Lanes : l[1] # l[2] /\ <<l[2], l[1]>> \in Lanes /\ lane[l] > 0 /\ lane[<<l[2], l[1]>>] > 0}}

(* The haulier rows a document lists: the whole fleet once the roster was  *)
(* read, else the hauliers something was folded for.                       *)
seed_haulier_roster(m, readable) ==
  IF m.roster \/ readable THEN Hauliers ELSE {h \in Hauliers : m.acc[h] # new_haulier_acc}

Document(m, at, final, readable, sighted) ==
  [clock |-> at, final |-> final, rows |-> seed_haulier_roster(m, readable), acc |-> m.acc,
   planner |-> build_planner_breakdown(m.acc), lanes |-> build_lane_breakdown(m.lane), sighted |-> sighted]

-----------------------------------------------------------------------------
Init ==
  /\ clock = 0 /\ ticked = 0
  /\ trip = [t \in Trips |-> [state |-> "assigned", at |-> 0, reached |-> 0, stamp |-> [l \in Legs |-> NoStamp]]]
  /\ live = NewManager /\ flushed = -MinGap
  /\ kpis = <<>> /\ docs = {} /\ phase = "running" /\ faults = 0

InState(s) == {t \in Trips : trip[t].state = s}
Running == phase = "running"
Fault == faults < MaxFaults /\ faults' = faults + 1
AnalyticsUnchanged == UNCHANGED <<ticked, live, flushed, kpis, docs, phase>>

(* The truck agents' writes.  An arrival's stamp may be lost; a completion *)
(* may land a step after the clock it is stamped with.                     *)
Arrive(t, stamped) ==
  /\ Running /\ trip[t].state = "assigned" /\ trip[t].reached < 2
  /\ LET leg == IF trip[t].reached = 0 THEN "pickup" ELSE "dropoff" IN
     trip' = [trip EXCEPT ![t].reached = @ + 1, ![t].at = clock,
                          ![t].stamp[leg] = IF stamped THEN clock ELSE NoStamp]
  /\ IF stamped THEN UNCHANGED faults ELSE Fault
  /\ AnalyticsUnchanged /\ UNCHANGED clock

CompleteTrip(t, late) ==
  /\ Running /\ trip[t].state = "assigned" /\ trip[t].reached = 2
  /\ late => trip[t].at < clock
  /\ trip' = [trip EXCEPT ![t].state = "completed", ![t].at = IF late THEN clock - 1 ELSE clock]
  /\ IF late THEN Fault ELSE UNCHANGED faults
  /\ AnalyticsUnchanged /\ UNCHANGED clock

Advance ==
  /\ Running /\ clock < Horizon /\ ticked = clock
  /\ clock' = clock + 1
  /\ ticked' = IF (clock + 1) % Window = 0 THEN clock ELSE clock + 1
  /\ UNCHANGED <<trip, live, flushed, kpis, docs, phase, faults>>

-----------------------------------------------------------------------------
(* The analytics agent's step, at every Window-th clock.                   *)

(* Slip: the window is closed at both ends. *)
ClosedWindow(t) == clock - Window <= trip[t].at /\ trip[t].at <= clock

(* The analytics interval [start, end).                                    *)
InWindow(t) == clock - Window <= trip[t].at /\ trip[t].at < clock
fetch_completed_trips_window == {t \in InState("completed") : InWindow(t)}

count_haul_trips_in_window == Cardinality(fetch_completed_trips_window)
count_haul_trips_by_state == Cardinality(InState("completed"))

Due == Running /\ ticked < clock /\ clock % Window = 0

save_kpi ==
  kpis' = Append(kpis, [clock |-> clock, delta |-> count_haul_trips_in_window, total |-> count_haul_trips_by_state])

(* Throttled by simulated time, not by the step count; best effort.        *)
maybe_flush_breakdowns(m, readable) ==
  IF clock - flushed < MinGap THEN UNCHANGED <<flushed, docs>> /\ live' = m
  ELSE /\ flushed' = clock
       /\ docs' = docs \cup {Document(m, clock, FALSE, readable, TRUE)}
       /\ live' = [m EXCEPT !.roster = @ \/ readable]

(* A tick that works: fold the window, publish, flush.  A failed read of   *)
(* the facilities or of the roster degrades it and is not remembered.      *)
Tick(blind, readable) ==
  /\ Due
  /\ ticked' = clock
  /\ blind \in Blindings(live, fetch_completed_trips_window)
  /\ readable \/ ~ live.roster
  /\ IF blind = {} /\ readable THEN UNCHANGED faults ELSE Fault
  /\ save_kpi
  /\ maybe_flush_breakdowns(accumulate_completed_trips(live, fetch_completed_trips_window, blind), readable)
  /\ UNCHANGED <<clock, trip, phase>>

(* compute_all_metrics raises: before its trips were folded, or after, with *)
(* nothing published.  The window is not read again.                       *)
TickFails(folded) ==
  /\ Due /\ Fault
  /\ ticked' = clock
  /\ live' = IF folded THEN accumulate_completed_trips(live, fetch_completed_trips_window, {}) ELSE live
  /\ UNCHANGED <<clock, trip, flushed, kpis, docs, phase>>

(* The agent is restarted with empty accumulators and caches.              *)
Restart ==
  /\ Running /\ Fault
  /\ live # NewManager /\ live' = NewManager /\ flushed' = -MinGap
  /\ UNCHANGED <<clock, trip, ticked, kpis, docs, phase>>

-----------------------------------------------------------------------------
(* Finalizing the run.                                                     *)

(* Every arrival that was priced and will never be paid: censored when its *)
(* trip stopped at the last instant any unpaid trip stopped, else abandoned. *)
accumulate_forfeited_arrivals(m, blind) ==
  LET unpaid == Trips \ InState("completed")
      terminal == Max({trip[t].at : t \in unpaid})
      Of(h, S) == Priced({t \in S : carrier[t] = h}, blind)
      cut == {t \in unpaid : trip[t].at = terminal} IN
  IF unpaid = {} THEN m
  ELSE [m EXCEPT !.acc = [h \in Hauliers |->
          [@[h] EXCEPT !.inflight = Cardinality(Of(h, cut)), !.inflight_value = Value(Of(h, cut)),
                       !.abandoned = Cardinality(Of(h, unpaid \ cut)), !.abandoned_value = Value(Of(h, unpaid \ cut))]]]

(* recompute_breakdowns_full by a fresh manager: cumulative documents at   *)
(* fixed spacing from the first completion, then the final one, stamped    *)
(* with the last completion's clock.                                       *)
Checkpoints(first, last) ==
  {b \in (first + 1) .. (last - 1) : (b - first) % CheckpointInterval = 0}

recompute_breakdowns_full(blind, scanned, readable) ==
  LET done == InState("completed")
      UpTo(c) == {t \in done : trip[t].at <= c}
      FoldedTo(c) == accumulate_completed_trips(NewManager, UpTo(c), blind \cap UpTo(c))
      first == Min({trip[t].at : t \in done})
      last == Max({trip[t].at : t \in done})
      Final(m, at) ==
        Document(IF scanned THEN accumulate_forfeited_arrivals(m, blind) ELSE m, at, TRUE, readable, blind = {} /\ scanned)
  IN IF done = {} THEN {Final(NewManager, clock)}
     ELSE {Document(FoldedTo(c), c, FALSE, readable, TRUE) : c \in Checkpoints(first, last)}
          \cup {Final(FoldedTo(last), last)}

(* _finalize_kpi_breakdowns, after the last step.  Reads may fail: of the  *)
(* facilities (blind), of the unpaid trips, of the roster.                 *)
Finalize(blind, scanned, readable) ==
  /\ Running /\ clock = Horizon /\ ticked = clock
  /\ phase' = "finalized"
  /\ blind \in {{}, Trips}
  /\ IF blind = {} /\ scanned /\ readable THEN UNCHANGED faults ELSE Fault
  /\ docs' = docs \cup recompute_breakdowns_full(blind, scanned, readable)
  /\ UNCHANGED <<clock, trip, ticked, live, flushed, kpis>>

(* The completed trips cannot be read: nothing final is written.           *)
FinalizeFails ==
  /\ Running /\ clock = Horizon /\ ticked = clock /\ Fault
  /\ phase' = "finalized"
  /\ UNCHANGED <<clock, trip, ticked, live, flushed, kpis, docs>>

Next ==
  \/ \E t \in Trips, b \in BOOLEAN : Arrive(t, b) \/ CompleteTrip(t, b)
  \/ Advance \/ Restart \/ FinalizeFails
  \/ \E blind \in SUBSET Trips, readable \in BOOLEAN : Tick(blind, readable)
  \/ \E folded \in BOOLEAN : TickFails(folded)
  \/ \E blind \in SUBSET Trips, scanned, readable \in BOOLEAN : Finalize(blind, scanned, readable)

Spec == Init /\ [][Next]_vars

-----------------------------------------------------------------------------
Total(acc, k) == build_planner_breakdown(acc)[k]
Carried(h) == {t \in InState("completed") : carrier[t] = h}
Lent(h) == {t \in InState("completed") : Shared(t) /\ owner[t] = h}
Owed(S) == {a \in Stamped(S) : site[a[1]][a[2]] \in Paying}

(* No ledger invents anything: a manager, however its windows were cut,    *)
(* late, failed or restarted, has folded no completed trip twice, accounts *)
(* for two arrivals per trip, never credits a haulier more than its own    *)
(* completed arrivals earn, and books every shared trip once on each side. *)
(* The rows on kpi_stream add up to no more than the last total.           *)
Bounded(acc) ==
  /\ \A h \in Hauliers :
       /\ acc[h].trips <= Cardinality(Carried(h))
       /\ acc[h].priced + acc[h].no_schedule + acc[h].no_stamp = 2 * acc[h].trips
       /\ acc[h].credited <= Value(Owed(Carried(h)))
       /\ acc[h].shared_out <= Cardinality(Lent(h))
       /\ acc[h].shared_out = acc[h].defined + acc[h].enabled
  /\ Total(acc, "carried") = Total(acc, "shared_out")
LiveNeverOvercounts ==
  /\ Bounded(live.acc)
  /\ \A d \in docs : Bounded(d.acc)
  /\ LET Delta(i) == kpis[i].delta IN
     kpis # <<>> => MapThenSumSet(Delta, DOMAIN kpis) <= kpis[Len(kpis)].total

(* The final document is the run's truth whatever the live agent missed:   *)
(* every completed trip is counted for its carrier and its owner, no       *)
(* earlier document counts more, and unless a read failed the money paid   *)
(* and the money still owed are together what the stamped arrivals earn.   *)
FinalIsExact ==
  \A d \in docs : d.final =>
    /\ \A h \in Hauliers : /\ d.acc[h].trips = Cardinality(Carried(h))
                           /\ d.acc[h].shared_out = Cardinality(Lent(h))
                           /\ d.sighted => d.acc[h].credited = Value(Owed(Carried(h)))
    /\ \A e \in docs : e.planner.trips <= d.planner.trips
    /\ d.sighted => d.planner.inflight_value + d.planner.abandoned_value = Value(Owed(Trips \ InState("completed")))
    /\ ~ d.sighted => d.planner.credited <= Value(Owed(InState("completed")))
    /\ d.lanes # {} => \A r \in d.lanes : 2 * r.strength <= d.planner.trips

LedgerSafe == LiveNeverOvercounts /\ FinalIsExact

=============================================================================
