------------------------------ MODULE MCAuthoring ------------------------------
(***************************************************************************)
(* What an author writes and what becomes of it: the scenario on disk, its *)
(* facility rules, its cooperation structures, and the market that runs on *)
(* such a structure, an instance of each in one state space.  Init chooses *)
(* the part that behaves; the others stay at their Init.                   *)
(***************************************************************************)
EXTENDS OrderMarket, Authoring, TLC

VARIABLES
  part,
  coop_spec, coop_out, coop_first, run

-----------------------------------------------------------------------------
\* Three companies in a line of two agreements, and every planner profile.
MCHauliers == <<"A", "B", "C">>
MCHaulierOf == ("b1" :> "B") @@ ("b2" :> "B") @@ ("c1" :> "C") @@ ("oa" :> "A") @@ ("ob" :> "B") @@ ("oc" :> "C")
MCStructure == [edges |-> {{"A", "B"}, {"B", "C"}}]
MCTruckPlaces == {0, 2, 99}
MCOrderPlaces == {0, 3}
MCOversize == {<<"c1", "oc">>}
MCChained == {<<"b1", "oc">>}
Plain(s) == [topology |-> "other", solver |-> s, offer |-> None, claim |-> None, rule |-> None, rounds |-> Unset]
MCPlanners ==
  {Plain("other"), Plain("GreedyNearest")}
  \cup [topology : {"two-stage"}, solver : {"RandomAssignment"}, offer : {"OfferSpare"}, claim : {"ClaimAllPlanned"},
        rule : Rules, rounds : {1}]
  \cup [topology : {"pooled"}, solver : {"GreedyNearest"}, offer : Offers, claim : Claims,
        rule : {"LowestCost"}, rounds : {Unset}]
  \cup [topology : {"pooled"}, solver : {"GreedyNearest"}, offer : {"OfferSpare"}, claim : {"ClaimAllPlanned"},
        rule : Rules, rounds : {0, 9}]

StructureSymmetry == Permutations(Structures)

\* Two rules by type or name (a type or a name no facility has among them), over the
\* blanket settings of both authoring surfaces.
Setter(g, r) == [gate_count |-> g, rebate |-> r]
Setters ==
  {Setter(g, r) : g \in {"", "two", "zero"}, r \in {"", "null", "day", "night"}}
  \cup {Setter("null", ""), Setter("", "twice"), Setter("", "late")}
RuleChoices ==
  {[by |-> "code", of |-> c, set |-> s] : c \in {"CT", "MT"}, s \in Setters}
  \cup {[by |-> "name", of |-> n, set |-> s] : n \in {"CT_1", "gone"}, s \in Setters}
  \cup {[by |-> "code", of |-> "XX", set |-> Setter("two", "")]}
NoBlanket == [legacy |-> Setter("", ""), overrides |-> Setter("", "")]
BlanketChoices ==
  {NoBlanket,
   [legacy |-> Setter("zero", "day"), overrides |-> Setter("two", "")],
   [legacy |-> Setter("zero", ""), overrides |-> Setter("null", "night")],
   [legacy |-> Setter("zero", "day"), overrides |-> Setter("", "")]}
MCFacilities == <<"CT_1", "CT_2", "MT_1">>
MCCodeOf == [CT_1 |-> "CT", CT_2 |-> "CT", MT_1 |-> "MT"]

\* Sparse schedules: one hour, two hours, one repeated hour, one hour out of range.
MCSchedules ==
  [day   |-> [currency |-> "SGD", points |-> <<[hour |-> 1, amount |-> 5]>>],
   night |-> [currency |-> "USD", points |-> <<[hour |-> 0, amount |-> 7], [hour |-> 2, amount |-> -3]>>],
   twice |-> [currency |-> "SGD", points |-> <<[hour |-> 1, amount |-> 5], [hour |-> 1, amount |-> 6]>>],
   late  |-> [currency |-> "SGD", points |-> <<[hour |-> HoursPerDay, amount |-> 5]>>]]

\* Three hauliers, two structures written as edges, pools or both.
Edges(id, E) == [form |-> "edges", id |-> id, edges |-> E, pools |-> <<>>]
PoolsOf(id, P) == [form |-> "pools", id |-> id, edges |-> {}, pools |-> P]
Both(id, E, P) == [form |-> "both", id |-> id, edges |-> E, pools |-> P]
PoolOf(id, m) == [id |-> id, members |-> m]
EntryChoices ==
  {Edges(<<"x">>, E) : E \in SUBSET {<<1, 2>>, <<3, 1>>, <<2, 3>>}}
  \cup {Edges(id, {<<1, 2>>}) : id \in {<<>>, <<"no-coop">>, <<"baseline">>, <<"x", 1>>}}
  \cup {Edges(<<>>, {<<2, 2>>}),
        PoolsOf(<<"x">>, <<PoolOf(<<>>, {1, 2, 3})>>),
        PoolsOf(<<>>, <<PoolOf(<<"q">>, {1, 2}), PoolOf(<<"q">>, {2, 3})>>),
        PoolsOf(<<"x">>, <<PoolOf(<<"q">>, {1})>>),
        Both(<<"x">>, {<<1, 3>>}, <<PoolOf(<<>>, {1, 3})>>),
        Both(<<"x">>, {<<1, 3>>}, <<PoolOf(<<>>, {1, 2})>>)}
ShareChoices == {<<-1, -1, -1>>, <<-1, 30, 70>>, <<33, 33, 34>>, <<50, 30, -1>>}
Coop == INSTANCE Cooperation WITH
  N <- 3, ShareLists <- ShareChoices, Counts <- {0, 1, 5}, Entries <- EntryChoices,
  Actives <- {<<>>, <<"x">>, <<"baseline">>}, MaxEntries <- 2,
  spec <- coop_spec, out <- coop_out, first <- coop_first

-----------------------------------------------------------------------------
coopVars == <<coop_spec, coop_out, coop_first, run>>
allVars == <<part, vars, storeVars, ruleVars, coopVars>>

AuthoringInit ==
  /\ part \in {"market", "scenario", "rules", "coop"}
  /\ part = "market" \/ (at = [x \in Trucks \cup Orders |-> 0] /\ planner = Plain("other"))
  /\ part = "rules" \/ rule_spec = [rules |-> <<>>, legacy |-> NoBlanket.legacy,
                                    overrides |-> NoBlanket.overrides, midnight |-> FALSE]
  /\ part = "coop" \/ coop_spec = [shares |-> <<-1, -1, -1>>, count |-> 0, entries |-> <<>>,
                                   active |-> <<>>]
  /\ Init /\ Store!Init /\ Site!Init /\ Coop!Init

MarketStep == part = "market" /\ Next /\ UNCHANGED <<part, storeVars, ruleVars, coopVars>>
ScenarioStep == part = "scenario" /\ Store!Next /\ UNCHANGED <<part, vars, ruleVars, coopVars>>
RulesStep == part = "rules" /\ Site!Next /\ UNCHANGED <<part, vars, storeVars, coopVars>>
CoopStep == part = "coop" /\ Coop!Next /\ UNCHANGED <<part, vars, storeVars, ruleVars>>

AuthoringSpec ==
  AuthoringInit /\ [][MarketStep \/ ScenarioStep \/ RulesStep \/ CoopStep]_allVars

-----------------------------------------------------------------------------
\* ScenarioStore: a launch runs the agents that were compiled ("This is the
\* authoritative run artifact"): it never replaces them.
LaunchKeepsBundle == Store!LaunchKeepsBundle

\* Cooperation: orders are shared where an edge says so and nowhere else, and compiling
\* the recipe again changes nothing.
CooperationSafe == part = "coop" => Coop!CooperationSafe
===============================================================================
