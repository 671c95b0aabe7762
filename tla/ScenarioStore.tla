---------------------------- MODULE ScenarioStore ----------------------------
(***************************************************************************)
(* One container-logistics scenario on disk, as the control plane, the     *)
(* command line, a hand editor, the dashboard's browse lists and a         *)
(* simulation launch see it.                                               *)
(*                                                                         *)
(* The folder holds spec.json (the editable recipe), scenario.json (the    *)
(* compiled bundle a run loads, with the recipe it came from), authored    *)
(* sources and index.json; beside it are the roll-up _index.json, the      *)
(* registry and the work folder <slug>.tmp.  A save reads the folder,      *)
(* guards it, assembles a payload, compiles it in the work folder, removes *)
(* the old folder, renames the new one into place and refreshes the        *)
(* indexes: one step each, since nothing locks them against a launch, a    *)
(* hand edit, a list, or the process being killed.                         *)
(*                                                                         *)
(* A recipe is abstracted to the keys whose survival is in question: the   *)
(* cooperation structures, the planner (null clears it), the facility      *)
(* rules (null does not), the world the rules were recorded for, what      *)
(* decides the facility world (trip matrix, counts), and whether the order *)
(* count is a per-day rate over several days.                              *)
(***************************************************************************)
EXTENDS Integers, FiniteSets, FiniteSetsExt

CONSTANTS
  Structures,        \* cooperation structure ids
  MaxSaves,          \* bound: saves started
  MaxEvents          \* bound: hand edits, source drops, deletes, kills and launches that write

VARIABLES
  spec,      \* spec.json: a recipe, NoSpec, or Garbled
  bundle,    \* scenario.json: [recipe, applied, sites, realized, stamp] or NoBundle
  sources,   \* scenario_gen.py / inputs present in the folder
  edited,    \* spec.json's mtime is later than scenario.json's, by over a second
  index,     \* index.json: [chip, stamp] or NoEntry
  rollup,    \* this scenario's entry in _index.json
  registry,  \* its recorded state: "absent" | "error" | "compiled"
  tmp,       \* <slug>.tmp: "none" | "work" | "built"
  op,        \* the control process's operation in flight
  saves,     \* saves started
  events     \* such events so far

vars == <<spec, bundle, sources, edited, index, rollup, registry, tmp, op, saves, events>>

-----------------------------------------------------------------------------
(* Recipes.                                                                *)

NoWorld == -1
Worlds == 0 .. 1                  \* facility worlds a matrix generates
Shapes == {"missing", "empty", "clique", "trio"}
   \* a structure: not there; no edges; edges only; an authored 3-member pool

Blank == [coop |-> [s \in Structures |-> "missing"], planner |-> "unset", rules |-> "null",
          world |-> NoWorld, matrix |-> 0, multiday |-> FALSE, kind |-> "blank"]
NoSpec == [Blank EXCEPT !.kind = "absent"]
Garbled == [Blank EXCEPT !.kind = "garbled"]
Readable(s) == s.kind = "recipe"

NoBundle == [recipe |-> NoSpec, applied |-> FALSE, sites |-> NoWorld, realized |-> "none", stamp |-> 0]
NoEntry == [chip |-> "none", stamp |-> 0]
bundle_exists == bundle.stamp # 0
Exists == spec.kind # "absent" \/ bundle_exists \/ sources

(* What a client sends: every key a value, or "unspoken".                  *)
Unspoken == [s \in Structures |-> "unspoken"]
Coops == {Unspoken} \cup [Structures -> Shapes]
Silent == [coop |-> Unspoken, planner |-> "unspoken", rules |-> "unspoken", matrix |-> NoWorld,
           multiday |-> "unspoken"]
Spoken(c) ==
  {[Silent EXCEPT !.coop = c, !.planner = p] : p \in {"null", "pooled"}} \cup
  {[Silent EXCEPT !.coop = c, !.rules = r] : r \in {"null", "empty", "some"}} \cup
  {[Silent EXCEPT !.coop = c, !.matrix = 1], [Silent EXCEPT !.coop = c, !.multiday = "yes"]}
AllCliques == [s \in Structures |-> "clique"]
Requests == {[Silent EXCEPT !.coop = c] : c \in Coops} \cup Spoken(Unspoken) \cup Spoken(AllCliques)

-----------------------------------------------------------------------------
(* Reading what is on disk.                                                *)

(* spec.json, else the recipe mirrored in the bundle.                      *)
load_generation_spec ==
  IF Readable(spec) THEN spec
  ELSE IF bundle_exists /\ Readable(bundle.recipe) THEN bundle.recipe ELSE NoSpec

(* A file is there and nothing in the folder could be read as a recipe.    *)
previous_exists_but_is_unreadable ==
  ~ Readable(load_generation_spec) /\ (spec.kind = "garbled" \/ bundle_exists)

derive_state ==
  CASE bundle_exists -> IF spec.kind # "absent" /\ edited THEN "stale" ELSE "ready"
    [] ~ bundle_exists /\ spec.kind # "absent" -> "draft"
    [] OTHER -> "none"

(* A recorded error shows on a draft only.                                 *)
State == IF derive_state = "draft" /\ registry = "error" THEN "error" ELSE derive_state

-----------------------------------------------------------------------------
(* The destructive-save guard.                                             *)

content_ids(coop) == {s \in Structures : coop[s] \in {"clique", "trio"}}
Lost(previous, coop) == content_ids(previous.coop) \ content_ids(coop)

guard_refuses(previous, coop, reset) == ~ reset /\ Lost(previous, coop) # {}

(* Only the structures being emptied lose their carry.                     *)
scoped_to_untouched(previous, coop) ==
  [previous EXCEPT !.coop = [s \in Structures |-> IF s \in Lost(previous, coop) THEN "missing" ELSE @[s]]]

-----------------------------------------------------------------------------
(* Assembling the payload, key by key.                                     *)

(* An edges-only structure whose saved form authored pools gets them back; *)
(* pools carried onto emptied edges disagree, which the compile refuses.   *)
carry_authored_pools(incoming, previous) ==
  [s \in Structures |->
     IF previous[s] = "trio" /\ incoming[s] = "clique" THEN "trio"
     ELSE IF previous[s] = "trio" /\ incoming[s] = "empty" THEN "clash"
     ELSE IF incoming[s] = "unspoken" THEN "missing" ELSE incoming[s]]

(* Slip: presence alone decides, so a serialised null wipes the rules. *)
PresenceOnly(key, value) == value # "unspoken"

(* null leaves a key unspoken where null is outside its domain.            *)
key_supplied(key, value) ==
  /\ value # "unspoken"
  /\ ~ (value = "null" /\ key \in {"rules", "multiday"})

Take(key, value, cleared, previous) ==
  IF key_supplied(key, value) THEN IF value = "null" THEN cleared ELSE value
  ELSE IF previous.kind # "recipe" THEN cleared ELSE previous[key]

assemble_spec(raw, previous) ==
  [coop     |-> carry_authored_pools(raw.coop, previous.coop),
   planner  |-> Take("planner", raw.planner, "unset", previous),
   rules    |-> Take("rules", raw.rules, "null", previous),
   world    |-> previous.world,
   matrix   |-> IF raw.matrix # NoWorld THEN raw.matrix ELSE previous.matrix,
   multiday |-> IF raw.multiday = "yes" THEN TRUE ELSE previous.multiday,
   kind     |-> "recipe"]

(* An edit shallow-merges its patch over the saved recipe first.           *)
Merged(base, patch) ==
  [patch EXCEPT !.coop = IF @ = Unspoken THEN base.coop ELSE @]

-----------------------------------------------------------------------------
(* Compiling.                                                              *)

site_digest(recipe) == recipe.matrix

(* Slip: rules with no recorded world are taken as they are.               *)
UnrecordedPasses(recipe) ==
  IF recipe.rules = "some" THEN recipe.world \in {NoWorld, site_digest(recipe)}
  ELSE recipe.world = NoWorld

(* Rules bind to the recorded world; a recorded world with no rules is     *)
(* refused too.                                                            *)
validate_world_baseline(recipe) ==
  IF recipe.rules = "some" THEN recipe.world = site_digest(recipe) ELSE recipe.world = NoWorld

normalize_cooperation(coop) == \A s \in Structures : coop[s] # "clash"

Compiles(recipe) == normalize_cooperation(recipe.coop) /\ validate_world_baseline(recipe)

(* The planner block is normalised; everything else is echoed.             *)
Recipe(payload) == [payload EXCEPT !.planner = IF @ = "unset" THEN "partitioned" ELSE @]

(* A fresh mtime: none of those recorded anywhere.                         *)
NewStamp == Min((1 .. 4) \ {bundle.stamp, index.stamp, rollup.stamp})

compile_spec_to_bundle(payload) ==
  [recipe |-> Recipe(payload), applied |-> payload.rules = "some", sites |-> site_digest(payload),
   realized |-> IF payload.multiday THEN "days times rate" ELSE "count", stamp |-> NewStamp]

-----------------------------------------------------------------------------
(* The browse indexes.                                                     *)

EntryOf(b) == [chip |-> b.recipe.planner, stamp |-> b.stamp]

is_fresh(entry) == bundle_exists /\ entry.stamp = bundle.stamp

(* What a list, from the roll-up, and a detail read, from index.json, answer. *)
Served(entry) == IF is_fresh(entry) THEN entry.chip ELSE EntryOf(bundle).chip
Listed == Served(rollup)
Detail == Served(index)

upsert_rollup == rollup' = EntryOf(bundle)
remove_from_rollup == rollup' = NoEntry
refresh_scenario == index' = EntryOf(bundle) /\ upsert_rollup

(* The registry's record, mirrored to Mongo when that answers.             *)
mark_compiled == registry' = "compiled"
mark_error == registry' = "error"

-----------------------------------------------------------------------------
Idle == [stage |-> "idle", request |-> Silent, reset |-> FALSE, before |-> NoSpec,
         payload |-> NoSpec, carry |-> FALSE]

Init ==
  /\ spec = NoSpec /\ bundle = NoBundle /\ sources = FALSE /\ edited = FALSE
  /\ index = NoEntry /\ rollup = NoEntry /\ registry = "absent" /\ tmp = "none"
  /\ op = Idle /\ saves = 0 /\ events = 0

Event == events < MaxEvents /\ events' = events + 1
IsIdle == op.stage = "idle"
DiskUnchanged == UNCHANGED <<spec, bundle, sources, edited, index, rollup, registry>>

(* _compile_into_folder up to the compile: a fresh work folder, with the   *)
(* sources carried on a recompile.                                         *)
Begin(request, reset, before, payload, carry) ==
  /\ saves < MaxSaves /\ saves' = saves + 1
  /\ tmp' = "work"
  /\ op' = [stage |-> "compile", request |-> request, reset |-> reset, before |-> before,
            payload |-> payload, carry |-> carry /\ sources]
  /\ DiskUnchanged /\ UNCHANGED events

(* generate_scenario, on a new slug or overwriting; a refused save changes *)
(* nothing.                                                                *)
Generate(request, reset) ==
  LET previous == load_generation_spec IN
  /\ IsIdle
  /\ ~ (previous_exists_but_is_unreadable /\ ~ reset)
  /\ ~ guard_refuses(previous, request.coop, reset)
  /\ Begin(request, reset, previous,
           assemble_spec(request, IF reset THEN scoped_to_untouched(previous, request.coop) ELSE previous),
           FALSE)

(* edit_scenario: the same guard on the merged block; sources are carried. *)
Edit(patch, reset) ==
  LET base == load_generation_spec
      merged == Merged(base, patch) IN
  /\ IsIdle /\ Exists
  /\ ~ guard_refuses(base, merged.coop, reset)
  /\ Begin(patch, reset, base,
           assemble_spec(merged, IF reset THEN scoped_to_untouched(base, merged.coop) ELSE base), TRUE)

(* compile_scenario, with or without a new seed: the folder's own recipe.  *)
Recompile ==
  /\ IsIdle /\ Exists /\ Readable(load_generation_spec)
  /\ Begin(Silent, FALSE, load_generation_spec, load_generation_spec, TRUE)

(* stage_sources drops files in the folder, then recompiles.               *)
StageSources ==
  /\ Event
  /\ IsIdle /\ Exists /\ ~ sources
  /\ sources' = TRUE
  /\ UNCHANGED <<spec, bundle, edited, index, rollup, registry, tmp, op, saves>>

(* The compile writes bundle and spec into the work folder.                *)
Compile ==
  /\ op.stage = "compile" /\ Compiles(op.payload)
  /\ tmp' = "built" /\ op' = [op EXCEPT !.stage = "remove"]
  /\ DiskUnchanged /\ UNCHANGED <<saves, events>>

RemoveTarget ==
  /\ op.stage = "remove"
  /\ spec' = NoSpec /\ bundle' = NoBundle /\ sources' = FALSE /\ edited' = FALSE /\ index' = NoEntry
  /\ op' = [op EXCEPT !.stage = "rename"]
  /\ UNCHANGED <<rollup, registry, tmp, saves, events>>

(* The rename fails when something recreated the folder meanwhile.         *)
Rename ==
  /\ op.stage = "rename" /\ ~ Exists
  /\ LET b == compile_spec_to_bundle(op.payload) IN bundle' = b /\ spec' = b.recipe
  /\ sources' = op.carry /\ edited' = FALSE /\ tmp' = "none"
  /\ op' = [op EXCEPT !.stage = "refresh"]
  /\ UNCHANGED <<index, rollup, registry, saves, events>>

(* The indexes and the registry; the save reports success.                 *)
Refresh ==
  /\ op.stage = "refresh" /\ bundle_exists
  /\ refresh_scenario
  /\ mark_compiled /\ op' = Idle
  /\ UNCHANGED <<spec, bundle, sources, edited, tmp, saves, events>>

(* Any exception: the work folder goes, the error is recorded.             *)
Fail ==
  /\ op.stage \in {"compile", "rename", "refresh"}
  /\ op.stage = "rename" => Exists
  /\ tmp' = "none" /\ mark_error /\ op' = Idle
  /\ UNCHANGED <<spec, bundle, sources, edited, index, rollup, saves, events>>

(* The control process is killed; the next save clears the work folder.    *)
Crash ==
  /\ Event
  /\ ~ IsIdle
  /\ op' = Idle
  /\ UNCHANGED <<spec, bundle, sources, edited, index, rollup, registry, tmp, saves>>

(* delete_scenario: the folder, then its roll-up and registry entries.     *)
Delete ==
  /\ Event
  /\ IsIdle /\ Exists
  /\ spec' = NoSpec /\ bundle' = NoBundle /\ sources' = FALSE /\ edited' = FALSE /\ index' = NoEntry
  /\ op' = [Idle EXCEPT !.stage = "unlist"]
  /\ UNCHANGED <<rollup, registry, tmp, saves>>

Unlist ==
  /\ op.stage = "unlist"
  /\ remove_from_rollup /\ registry' = "absent" /\ op' = Idle
  /\ UNCHANGED <<spec, bundle, sources, edited, index, tmp, saves, events>>

(* rules-baseline: generate the world of spec.json without its rules, then *)
(* rewrite facilityRulesWorld alone, without a compile.                    *)
rules_baseline_due == spec.rules = "some" /\ spec.world # site_digest(spec)
Probe ==
  /\ IsIdle /\ Readable(spec) /\ rules_baseline_due
  /\ normalize_cooperation(spec.coop)
  /\ op' = [Idle EXCEPT !.stage = "baseline", !.payload = spec]
  /\ DiskUnchanged /\ UNCHANGED <<tmp, saves, events>>

RecordWorld ==
  /\ op.stage = "baseline"
  /\ op' = Idle
  /\ IF Readable(spec) THEN spec' = [spec EXCEPT !.world = site_digest(op.payload)] /\ edited' = TRUE
     ELSE UNCHANGED <<spec, edited>>
  /\ UNCHANGED <<bundle, sources, index, rollup, registry, tmp, saves, events>>

(* list_scenarios and get_scenario_detail rebuild an index that is not     *)
(* fresh; rebuild_rollup rebuilds it regardless.                           *)
Browse ==
  /\ bundle_exists /\ ~ (is_fresh(rollup) /\ is_fresh(index))
  /\ refresh_scenario
  /\ UNCHANGED <<spec, bundle, sources, edited, registry, tmp, op, saves, events>>

(* A person starts a scenario with a spec.json of their own.               *)
HandWrite ==
  /\ Event
  /\ ~ Exists
  /\ spec' = [Blank EXCEPT !.kind = "recipe", !.coop = [s \in Structures |-> "trio"]]
  /\ UNCHANGED <<bundle, sources, edited, index, rollup, registry, tmp, op, saves>>

(* A person edits spec.json: other facilities, no rules, rules, or damage. *)
HandEdit ==
  /\ Event
  /\ spec.kind # "absent" /\ edited' = TRUE
  /\ spec' \in {Garbled} \cup
       IF Readable(spec) THEN {[spec EXCEPT !.matrix = 1 - @], [spec EXCEPT !.rules = "some"], [spec EXCEPT !.rules = "empty"]}
       ELSE {}
  /\ UNCHANGED <<bundle, sources, index, rollup, registry, tmp, op, saves>>

-----------------------------------------------------------------------------
(* A launch: ScenarioManager loads the bundle, or regenerates it.          *)

(* The recipe's order count, a per-day rate, against the total loaded.     *)
expected_behavior_counts(recipe) == "count"
loaded_behaviors_match == bundle.realized = expected_behavior_counts(bundle.recipe)

(* The keys the legacy generator is given: neither matrix, hauliers,       *)
(* cooperation, planner nor the order count's unit is among them.          *)
normalize_generate_spec(recipe) ==
  [Blank EXCEPT !.kind = "recipe", !.rules = recipe.rules, !.world = recipe.world]

(* It cannot honour rules, so it refuses them.                             *)
refuse_facility_rules(recipe) == recipe.rules = "some"

(* It writes the bundle again, over the same recipe.                       *)
Regenerated(recipe) ==
  [recipe |-> recipe, applied |-> FALSE, sites |-> site_digest(normalize_generate_spec(recipe)),
   realized |-> expected_behavior_counts(recipe), stamp |-> NewStamp]

generate_random_behaviors(recipe) ==
  /\ ~ refuse_facility_rules(normalize_generate_spec(recipe))
  /\ bundle' = Regenerated(recipe)

(* A launch of a loaded bundle that matches changes nothing on disk.       *)
LaunchRegenerates ==
  /\ Event
  /\ bundle_exists /\ ~ loaded_behaviors_match
  /\ generate_random_behaviors(bundle.recipe)
  /\ edited' = FALSE
  /\ UNCHANGED <<spec, sources, index, rollup, registry, tmp, op, saves>>

(* With nothing on disk a default scenario is generated and kept.          *)
LaunchGenerates ==
  /\ Event
  /\ ~ bundle_exists
  /\ generate_random_behaviors([Blank EXCEPT !.planner = "partitioned"])
  /\ edited' = FALSE
  /\ UNCHANGED <<spec, sources, index, rollup, registry, tmp, op, saves>>

Next ==
  \/ \E request \in Requests, reset \in BOOLEAN : Generate(request, reset) \/ Edit(request, reset)
  \/ Recompile \/ StageSources \/ Compile \/ RemoveTarget \/ Rename \/ Refresh \/ Fail \/ Crash
  \/ Delete \/ Unlist \/ Probe \/ RecordWorld \/ Browse \/ HandWrite \/ HandEdit
  \/ LaunchRegenerates \/ LaunchGenerates

Spec == Init /\ [][Next]_vars

-----------------------------------------------------------------------------
(* A save never takes away what its request did not speak about: when      *)
(* _compile_into_folder renames the new folder in, the planner and the     *)
(* facility rules of the recipe the save read are still there unless the   *)
(* request spoke them (for rules, null is not speaking), the recorded      *)
(* world is the one that was read, and every authored pool the request did *)
(* not empty on purpose is still authored - the reset of one structure     *)
(* does not cost another its pools.                                        *)
Keeps(before, after, request, reset) ==
  /\ request.planner = "unspoken" /\ before.planner # "unset" => after.planner = before.planner
  /\ request.rules \in {"unspoken", "null"} => after.rules = before.rules
  /\ after.world = before.world
  /\ \A s \in Structures :
       before.coop[s] = "trio" /\ (~ reset \/ request.coop[s] = "clique")
         => after.coop[s] = "trio"
AuthoredSurvives ==
  [][op.stage = "rename" /\ op'.stage = "refresh" /\ Readable(op.before)
       => Keeps(op.before, spec', op.request, op.reset)]_vars

(* A runnable bundle means what its recipe says: if the recipe carries     *)
(* facility rules they were applied, in the very facility world they were  *)
(* recorded for, and no recorded world is left without its rules           *)
(* (facility_rules.validate_world_baseline, and the refusal of the legacy  *)
(* generator at launch).                                                   *)
BundleHonoursRules ==
  bundle_exists =>
    IF bundle.recipe.rules = "some" THEN bundle.applied /\ bundle.sites = bundle.recipe.world
    ELSE bundle.recipe.world = NoWorld

(* What a list or detail read serves is what is on disk, also after a save *)
(* was killed between the rename and the refresh of the indexes, or a      *)
(* launch rewrote the bundle (scenario_index.is_fresh).                    *)
BrowseTellsTruth ==
  bundle_exists => Listed = bundle.recipe.planner /\ Detail = bundle.recipe.planner

(* A scenario whose spec.json no longer is what its bundle was compiled    *)
(* from is listed as stale - unless a launch rewrote the bundle since, which *)
(* makes the old recipe's bundle the newer file (derive_state).            *)
RewrittenByLaunch == bundle.recipe.multiday /\ bundle.realized = "count"
StaleIsShown ==
  bundle_exists /\ Readable(bundle.recipe) /\ Readable(spec) /\ spec # bundle.recipe /\ ~ RewrittenByLaunch
    => State = "stale"

(* The three together: what a scenario's files must tell at every moment.  *)
ScenarioSafe == BundleHonoursRules /\ BrowseTellsTruth /\ StaleIsShown

(* A launch runs the agents that were compiled: it never replaces them.    *)
LaunchKeepsBundle ==
  [][bundle_exists /\ Readable(bundle.recipe) /\ bundle'.stamp # 0 /\ op' = op
       => bundle'.realized = bundle.realized]_vars

=============================================================================
