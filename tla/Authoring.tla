------------------------------- MODULE Authoring -------------------------------
(***************************************************************************)
(* What an author writes: a scenario on disk, and the rules of its         *)
(* facilities compiled, patched by hand and run.  The two share nothing;   *)
(* names that would clash are told apart here.                             *)
(***************************************************************************)
CONSTANTS
  Structures, MaxSaves, MaxStoreEvents,
  Facilities, CodeOf, Schedules, SiteRules, Blankets, Patches, MaxRules, HoursPerDay

VARIABLES
  spec, bundle, sources, edited, index, rollup, registry, tmp, saving, saves, events,
  rule_spec, rule_out, rule_first, patched, stamp

Store == INSTANCE ScenarioStore WITH MaxEvents <- MaxStoreEvents, op <- saving

Site == INSTANCE FacilityRules WITH
  Rules <- SiteRules, spec <- rule_spec, out <- rule_out, first <- rule_first, bundle <- patched

storeVars == <<spec, bundle, sources, edited, index, rollup, registry, tmp, saving, saves, events>>
ruleVars == <<rule_spec, rule_out, rule_first, patched, stamp>>

ASSUME RulesAssumption == Site!RulesFacts

-----------------------------------------------------------------------------
\* ScenarioStore: a bundle means what its recipe says, what is listed is what is on
\* disk, and a bundle its spec has outrun is listed as stale.
ScenarioSafe == Store!ScenarioSafe

\* ScenarioStore: an edit keeps what the request does not speak of.
AuthoredSurvives == Store!AuthoredSurvives

\* FacilityRules: each facility gets what its most specific rule promises, in whatever
\* order the rules are written.
RulesSafe == Site!RulesSafe
================================================================================
