------------------------------ MODULE WorkingSet ------------------------------
(***************************************************************************)
(* DuckDB as a working set over the durable Mongo archive, for one run:    *)
(* writers under the run's lock, whole-run dumps to the archive, eviction, *)
(* and read requests that pull an absent run back first, with phase 1 (the *)
(* source is read into memory) and phase 2 (one local transaction) under   *)
(* the run's lock and the residency check of the request outside it.       *)
(*                                                                         *)
(* Rows are numbered per table; a headless run writes no frames.  An       *)
(* upsert of a row that is there changes nothing that matters here.        *)
(***************************************************************************)
EXTENDS Integers, FiniteSets

CONSTANTS
  Readers,
  MaxRows,     \* bound: rows published per table
  MaxFaults    \* bound: archive reads that fail, breakdown reads unanswered, evictions

VARIABLES
  duck,       \* duck[tb]: rows in the working set
  arch,       \* arch[tb]: rows in the archive
  meta,       \* run_meta.source: "live" | "rehydrated" | "none"
  published,  \* published[tb]: rows ingested so far
  fresh,      \* fresh[tb]: rows ingested since the last eviction
  lock,       \* holder of the run's lock, "" if free
  req,        \* req[r]: a read request [pc, cols, keeps]
  faults

vars == <<duck, arch, meta, published, fresh, lock, req, faults>>

Tables == {"frames", "kpi", "breakdown"}
Nothing == [tb \in Tables |-> {}]
Idle == [pc |-> "idle", cols |-> Nothing, keeps |-> FALSE]
Rows(d) == UNION {d[tb] : tb \in Tables}

Init ==
  /\ duck = Nothing /\ arch = Nothing /\ meta = "none"
  /\ published = [tb \in Tables |-> 0] /\ fresh = Nothing
  /\ lock = "" /\ req = [r \in Readers |-> Idle] /\ faults = 0

Fault == faults < MaxFaults /\ faults' = faults + 1

-----------------------------------------------------------------------------
(* A writer of the ingest path, the dump of what is there, the eviction.   *)
Ingest(tb) ==
  /\ lock = "" /\ published[tb] < MaxRows
  /\ published' = [published EXCEPT ![tb] = @ + 1]
  /\ duck' = [duck EXCEPT ![tb] = @ \cup {published[tb] + 1}]
  /\ fresh' = [fresh EXCEPT ![tb] = @ \cup {published[tb] + 1}]
  /\ meta' = IF meta = "none" THEN "live" ELSE meta
  /\ UNCHANGED <<arch, lock, req, faults>>

Dump ==
  /\ Rows(duck) # {} /\ arch' = [tb \in Tables |-> arch[tb] \cup duck[tb]] /\ arch' # arch
  /\ UNCHANGED <<duck, meta, published, fresh, lock, req, faults>>

evict_run ==
  /\ lock = "" /\ Rows(duck) # {} /\ Fault
  /\ duck' = Nothing /\ fresh' = Nothing /\ meta' = "none"
  /\ UNCHANGED <<arch, published, lock, req>>

-----------------------------------------------------------------------------
(* A read request.                                                         *)

Goes(r, pc) == req' = [req EXCEPT ![r].pc = pc]

(* _ensure_available: a run with any row is served as it is, and one the   *)
(* archive does not hold is served empty.                                  *)
ensure_available(r) ==
  /\ req[r].pc = "idle"
  /\ Goes(r, IF Rows(duck) # {} \/ Rows(arch) = {} THEN "served" ELSE "rehydrate")
  /\ UNCHANGED <<duck, arch, meta, published, fresh, lock, faults>>

(* Slip: a run is absent when it has no frames. *)
no_frames(d) == d["frames"] = {}

(* Phase 0: under the lock, a run with a row of any kind is not touched.   *)
absent(d) == Rows(d) = {}

Guard(r) ==
  /\ req[r].pc = "rehydrate" /\ lock = ""
  /\ IF absent(duck) THEN lock' = r /\ Goes(r, "read") ELSE Goes(r, "served") /\ UNCHANGED lock
  /\ UNCHANGED <<duck, arch, meta, published, fresh, faults>>

(* Breakdown rows the archive cannot answer for may only be left as they   *)
(* are when there are some to keep.                                        *)
keeps_breakdown(d) == d["breakdown"] # {}

(* Phase 1: everything the source supplies, in memory.  A breakdown read   *)
(* the archive cannot answer, with none to keep, fails the whole read.     *)
ReadSource(r, answered) ==
  /\ req[r].pc = "read"
  /\ IF answered \/ keeps_breakdown(duck)
       THEN /\ req' = [req EXCEPT ![r] = [pc |-> "write", cols |-> arch, keeps |-> ~ answered]]
            /\ UNCHANGED lock
       ELSE Goes(r, "served") /\ lock' = ""
  /\ IF answered THEN UNCHANGED faults ELSE Fault
  /\ UNCHANGED <<duck, arch, meta, published, fresh>>

(* The source dies half-way, or the transaction rolls back.                *)
RehydrateFails(r) ==
  /\ req[r].pc \in {"read", "write"} /\ Fault
  /\ Goes(r, "served") /\ lock' = ""
  /\ UNCHANGED <<duck, arch, meta, published, fresh>>

(* Phase 2: one transaction.                                               *)
rehydrate_run(r) ==
  /\ req[r].pc = "write"
  /\ duck' = [tb \in Tables |-> IF tb = "breakdown" /\ req[r].keeps THEN duck[tb] ELSE req[r].cols[tb]]
  /\ meta' = "rehydrated" /\ lock' = "" /\ Goes(r, "served")
  /\ UNCHANGED <<arch, published, fresh, faults>>

(* The handler answers from the working set.                               *)
handle(r) ==
  /\ req[r].pc = "served" /\ req' = [req EXCEPT ![r] = Idle]
  /\ UNCHANGED <<duck, arch, meta, published, fresh, lock, faults>>

Next ==
  \/ \E tb \in Tables : Ingest(tb)
  \/ Dump \/ evict_run
  \/ \E r \in Readers :
       \/ ensure_available(r) \/ Guard(r) \/ RehydrateFails(r) \/ rehydrate_run(r) \/ handle(r)
       \/ \E answered \in BOOLEAN : ReadSource(r, answered)

Spec == Init /\ [][Next]_vars

-----------------------------------------------------------------------------
(* Reading never costs a row: what was ingested since the last eviction is *)
(* in the working set, whatever requests came between, for a headless run  *)
(* of KPI rows alone too.                                                  *)
IngestSurvivesReads == \A tb \in Tables : fresh[tb] \subseteq duck[tb]

(* No half-restored run: a run that was pulled back holds every row of     *)
(* every table the archive has, or it was not pulled back at all.          *)
RestoreIsWhole == meta = "rehydrated" => \A tb \in Tables : arch[tb] \subseteq duck[tb]

WorkingSetSafe == IngestSurvivesReads /\ RestoreIsWhole

===============================================================================
