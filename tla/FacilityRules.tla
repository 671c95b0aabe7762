----------------------------- MODULE FacilityRules -----------------------------
(***************************************************************************)
(* Compiling what a scenario says of its facilities: the scenario-wide     *)
(* blanket (overrides over the legacy role settings), the targeted rules,  *)
(* and the rebate schedules they attach, down to the price settlement pays *)
(* for an arrival; compiling the written recipe again; an operator who     *)
(* patches the compiled bundle by hand; and the stamps in which a run      *)
(* records what it runs on and which rule each value came from.            *)
(*                                                                         *)
(* service_time is resolved exactly as gate_count and is left out, and so  *)
(* are malformed shapes (a rule that is no object).  A key that a setter   *)
(* lacks is "", a JSON null is "null".  The world baseline of the rules is *)
(* in ScenarioStore.                                                       *)
(***************************************************************************)
EXTENDS Integers, FiniteSets, Sequences, SequencesExt

CONSTANTS
  Facilities,  \* the facilities, in the order of the bundle
  CodeOf,      \* the facility type each is compiled from
  Schedules,   \* what an author may write as a rebate, by name: [currency, points]
  Rules,       \* the rules an author may add
  Blankets,    \* pairs [legacy, overrides] of setters
  Patches,     \* the rebates an operator may patch in by hand
  MaxRules,    \* bound: rules in one scenario
  HoursPerDay  \* hours of a schedule

VARIABLES
  spec,   \* [rules, legacy, overrides, midnight]
  out,    \* the compile: [status, sites]
  first,  \* the sites of the first compile, once there is a second
  bundle, \* the facilities of the compiled bundle, hand-patched or not
  stamp   \* the run's record: [on, enabled, currencies, groups]

vars == <<spec, out, first, bundle, stamp>>

Keys == {"gate_count", "rebate"}
Names == ToSet(Facilities)
Codes == {CodeOf[n] : n \in Names}
Hours == 0 .. HoursPerDay - 1
Unset == [k \in Keys |-> ""]
Null == {"", "null"}

NoBlock == [currency |-> "", points |-> <<>>]
NoSites == [n \in Names |-> [gate_count |-> "", rebate |-> NoBlock]]
NoStamp == [on |-> FALSE, enabled |-> FALSE, currencies |-> {}, groups |-> {}]

RulesFacts ==
  /\ HoursPerDay \in Nat \ {0} /\ MaxRules \in Nat
  /\ Facilities \in Seq(STRING) /\ Facilities # <<>>
  /\ {"", "null"} \cap DOMAIN Schedules = {}
  /\ \A s \in DOMAIN Schedules : Schedules[s] \in [currency : STRING, points : Seq([hour : Int, amount : Int])]
  /\ \A r \in Rules : r.by \in {"name", "code"}
  /\ Patches \subseteq {"null"} \cup DOMAIN Schedules

-----------------------------------------------------------------------------
(* Rebate schedules.                                                       *)

well_formed(b) ==
  /\ b.points # <<>>
  /\ \A i \in DOMAIN b.points : b.points[i].hour \in Hours
  /\ \A i, j \in DOMAIN b.points : b.points[i].hour = b.points[j].hour => i = j

(* Densified: an hour nobody listed pays 0.                                *)
parse_rebate_schedule(b) ==
  [h \in Hours |-> IF \E p \in ToSet(b.points) : p.hour = h
                     THEN (CHOOSE p \in ToSet(b.points) : p.hour = h).amount ELSE 0]

as_block(b) ==
  LET dense == parse_rebate_schedule(b) IN
  [currency |-> b.currency, points |-> [i \in 1 .. HoursPerDay |-> [hour |-> i - 1, amount |-> dense[i - 1]]]]

(* What settlement pays at a facility in an hour, as [priced, amount].     *)
price_at(site, h) ==
  IF site.rebate = NoBlock THEN [priced |-> FALSE, amount |-> 0]
                           ELSE [priced |-> TRUE, amount |-> parse_rebate_schedule(site.rebate)[h]]

-----------------------------------------------------------------------------
(* Rules.                                                                  *)

rule_rank(r) == IF r.by = "name" THEN 30 ELSE 10
rule_matches(r, n) == IF r.by = "code" THEN CodeOf[n] = r.of ELSE n = r.of
Sets(r, k) == r.set[k] # ""
coerce(k, v) == IF k = "gate_count" THEN v \in {"one", "two"} ELSE v \in DOMAIN Schedules /\ well_formed(Schedules[v])

merged_overrides(s) == [k \in Keys |-> IF s.overrides[k] # "" THEN s.overrides[k] ELSE s.legacy[k]]
blanket_is_legal(b) == \A k \in Keys : b[k] \in Null \/ coerce(k, b[k])

validate_facility_rules(rules) ==
  \A r \in ToSet(rules) :
    /\ r.by = "code" => r.of \in Codes
    /\ \E k \in Keys : Sets(r, k)
    /\ \A k \in Keys : Sets(r, k) => IF r.set[k] = "null" THEN k = "rebate" ELSE coerce(k, r.set[k])
    /\ \E n \in Names : rule_matches(r, n)

(* Two rules of one rank may not set one key of one facility, equal values *)
(* or not.                                                                 *)
equal_rank_conflict(rules) ==
  \E i, j \in DOMAIN rules, k \in Keys, n \in Names :
    /\ i < j /\ rule_rank(rules[i]) = rule_rank(rules[j])
    /\ Sets(rules[i], k) /\ Sets(rules[j], k)
    /\ rule_matches(rules[i], n) /\ rule_matches(rules[j], n)

(* The rank-0 value of a key: the blanket's unless null, else the default. *)
blanket_value(k, b) ==
  IF b[k] \notin Null THEN b[k] ELSE IF k = "gate_count" THEN "one" ELSE "null"

(* Slip: the most specific rule wins the facility, not the key. *)
candidates_by_rule(rules, n, k) ==
  LET matching == {i \in DOMAIN rules : rule_matches(rules[i], n)} IN
  {i \in matching : Sets(rules[i], k) /\ \A j \in matching : rule_rank(rules[j]) <= rule_rank(rules[i])}

(* The rules that set a key of a facility: by presence, null counts.       *)
candidates(rules, n, k) == {i \in DOMAIN rules : rule_matches(rules[i], n) /\ Sets(rules[i], k)}

resolve_facility_rules(rules, b, n, k) ==
  LET setting == candidates(rules, n, k)
      winners == {i \in setting : \A j \in setting : rule_rank(rules[j]) <= rule_rank(rules[i])} IN
  IF setting = {} THEN blanket_value(k, b) ELSE rules[CHOOSE i \in winners : TRUE].set[k]

(* The sites as stamped; a null rebate leaves the facility without one.    *)
apply_resolution(rules, b) ==
  [n \in Names |->
    LET rebate == resolve_facility_rules(rules, b, n, "rebate") IN
    [gate_count |-> resolve_facility_rules(rules, b, n, "gate_count"),
     rebate |-> IF rebate = "null" THEN NoBlock ELSE as_block(Schedules[rebate])]]

(* The sites that will really pay decide: they need a midnight epoch and   *)
(* share one currency, whichever way they were authored.                   *)
validate_facility_rebate(sites, midnight) ==
  LET effective == {n \in Names : sites[n].rebate # NoBlock} IN
  effective # {} => midnight /\ Cardinality({sites[n].rebate.currency : n \in effective}) = 1

compile(s) ==
  LET b == merged_overrides(s)
      sites == apply_resolution(s.rules, b)
      accepted == /\ blanket_is_legal(b) /\ validate_facility_rules(s.rules) /\ ~ equal_rank_conflict(s.rules)
                  /\ validate_facility_rebate(sites, s.midnight) IN
  IF accepted THEN [status |-> "ok", sites |-> sites] ELSE [status |-> "refused", sites |-> NoSites]

(* What the recipe writes back: the merged overrides and the rules as they *)
(* were authored.                                                          *)
recipe(s) == [rules |-> s.rules, legacy |-> Unset, overrides |-> merged_overrides(s), midnight |-> s.midnight]

-----------------------------------------------------------------------------
(* The run's stamps, from the bundle's facilities.                         *)

Block(v) == IF v = "null" THEN NoBlock ELSE as_block(Schedules[v])

(* The rule that explains a value, 0 for none: the first of the highest    *)
(* rank that sets the key.  A rebate is compared by whether there is one.  *)
attribute(n, k) ==
  LET setting == candidates(spec.rules, n, k)
      best == {i \in setting : \A j \in setting : rule_rank(spec.rules[j]) <= rule_rank(spec.rules[i])}
      i == CHOOSE x \in best : \A y \in best : x <= y
      says == spec.rules[i].set[k]
      fits == IF k = "rebate" THEN (says = "null") = (bundle[n].rebate = NoBlock) ELSE says = bundle[n].gate_count IN
  IF setting = {} THEN 0 ELSE IF fits THEN i ELSE 0

(* Facilities grouped by value; the first of a group names its source.     *)
group_of(n, k) ==
  LET same == {i \in DOMAIN Facilities : bundle[Facilities[i]][k] = bundle[n][k]} IN
  [key |-> k, members |-> {Facilities[i] : i \in same},
   source |-> attribute(Facilities[CHOOSE i \in same : \A j \in same : i <= j], k)]

-----------------------------------------------------------------------------
Init ==
  /\ \E b \in Blankets, m \in BOOLEAN :
       spec = [rules |-> <<>>, legacy |-> b.legacy, overrides |-> b.overrides, midnight |-> m]
  /\ out = [status |-> "none", sites |-> NoSites] /\ first = NoSites /\ bundle = NoSites /\ stamp = NoStamp

AddRule(r) ==
  /\ out.status = "none" /\ Len(spec.rules) < MaxRules
  /\ spec' = [spec EXCEPT !.rules = Append(@, r)]
  /\ UNCHANGED <<out, first, bundle, stamp>>

Compile ==
  /\ out.status = "none"
  /\ out' = compile(spec) /\ bundle' = compile(spec).sites
  /\ UNCHANGED <<spec, first, stamp>>

Recompile ==
  /\ out.status = "ok" /\ first = NoSites /\ ~ stamp.on
  /\ first' = out.sites /\ spec' = recipe(spec)
  /\ out' = compile(recipe(spec)) /\ bundle' = compile(recipe(spec)).sites
  /\ UNCHANGED stamp

(* One facility of the bundle is edited in place.                          *)
HandPatch(n, k, v) ==
  /\ out.status = "ok" /\ first = NoSites /\ bundle = out.sites /\ ~ stamp.on
  /\ bundle' = IF k = "rebate" THEN [bundle EXCEPT ![n].rebate = Block(v)] ELSE [bundle EXCEPT ![n].gate_count = v]
  /\ UNCHANGED <<spec, out, first, stamp>>

(* A run starts: the rebate stamp and the rules stamp.                     *)
Launch ==
  /\ out.status = "ok" /\ ~ stamp.on
  /\ LET paying == {n \in Names : bundle[n].rebate # NoBlock} IN
     stamp' = [on |-> TRUE, enabled |-> paying # {}, currencies |-> {bundle[n].rebate.currency : n \in paying},
               groups |-> {group_of(n, k) : n \in Names, k \in Keys}]
  /\ UNCHANGED <<spec, out, first, bundle>>

Next ==
  \/ \E r \in Rules : AddRule(r)
  \/ Compile \/ Recompile \/ Launch
  \/ \E n \in Names : HandPatch(n, "gate_count", "two") \/ \E v \in Patches : HandPatch(n, "rebate", v)

Spec == Init /\ [][Next]_vars

-----------------------------------------------------------------------------
Attempted == out.status # "none"
Compiled == out.status = "ok"

(* The precedence an author is promised, key by key: by name, then by      *)
(* code, then the blanket, then the default.                               *)
Promised(n, k) ==
  LET saying(by) == {r \in ToSet(spec.rules) : r.by = by /\ Sets(r, k) /\ r.of = IF by = "name" THEN n ELSE CodeOf[n]}
      b == merged_overrides(spec)[k] IN
  IF saying("name") # {} THEN {r.set[k] : r \in saying("name")}
  ELSE IF saying("code") # {} THEN {r.set[k] : r \in saying("code")}
  ELSE {IF b \notin Null THEN b ELSE IF k = "gate_count" THEN "one" ELSE "null"}

(* Money follows the author: an arrival is paid what the schedule promised *)
(* to its facility lists for the hour, nothing for an hour it leaves out,  *)
(* and a facility promised none is not priced.                             *)
PaysAsPromised ==
  Compiled => \A n \in Names :
    /\ Promised(n, "gate_count") = {out.sites[n].gate_count}
    /\ \E s \in Promised(n, "rebate") : \A h \in Hours :
         IF s = "null" THEN ~ price_at(out.sites[n], h).priced
         ELSE LET listed == {p.amount : p \in {q \in ToSet(Schedules[s].points) : q.hour = h}} IN
              price_at(out.sites[n], h) = [priced |-> TRUE, amount |-> IF listed = {} THEN 0 ELSE CHOOSE a \in listed : TRUE]

(* The order rules are written in decides nothing; no door lets a facility *)
(* open with no gate; the facilities that pay share one currency on a      *)
(* midnight clock; compiling the recipe gives the same world; and the run  *)
(* records every facility once per key, says whether it pays as the bundle *)
(* does, and credits a value nobody patched to the rule that set it.       *)
RulesSafe ==
  /\ PaysAsPromised
  /\ Attempted => compile([spec EXCEPT !.rules = Reverse(@)]) = out
  /\ Compiled => \A n, m \in Names :
       /\ out.sites[n].gate_count \in {"one", "two"}
       /\ out.sites[n].rebate # NoBlock => spec.midnight
       /\ NoBlock \notin {out.sites[n].rebate, out.sites[m].rebate} => out.sites[n].rebate.currency = out.sites[m].rebate.currency
  /\ first # NoSites => out.sites = first
  /\ stamp.on =>
       /\ stamp.enabled <=> \E n \in Names, h \in Hours : price_at(bundle[n], h).priced
       /\ \A n \in Names, k \in Keys : Cardinality({g \in stamp.groups : g.key = k /\ n \in g.members}) = 1
       /\ bundle = out.sites => \A g \in stamp.groups : g.source # 0 =>
            \E n \in g.members : spec.rules[g.source].set[g.key] \in Promised(n, g.key)

===============================================================================
