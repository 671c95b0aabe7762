------------------------------ MODULE OrderMarket ------------------------------
(***************************************************************************)
(* One assignment service of apps/container_logistics deciding, tick after *)
(* tick, which truck hauls which order: the "partitioned" planner (one     *)
(* solve per component of cooperating hauliers) and the "pooled" one (a    *)
(* planner per haulier, orders contributed to shared pools, rounds of bids *)
(* and arbitration), with the round statistics the service publishes.      *)
(*                                                                         *)
(* Positions are points on a line, a truck or an order may have none.  A   *)
(* greedy sweep over a ranked list is modelled by its outcomes: ties are   *)
(* broken by a hash or a shuffle, that is, in any way.                     *)
(***************************************************************************)
EXTENDS Integers, Sequences, FiniteSets, SequencesExt, FiniteSetsExt

CONSTANTS
  Hauliers,             \* the companies, in sorted order
  Trucks, Orders,
  HaulierOf,            \* haulier_of, for trucks and orders; None: no haulier id
  Structure,            \* the active structure: its edges and, if compiled, its pools: a set of
                        \* [id, members], ids are numbers
  Oversize, Restricted, \* pairs that size, or a restricted area, rules out
  Chained,              \* pairs whose pickup is where the truck last dropped off
  TruckPlaces, OrderPlaces,   \* positions to explore, Nowhere included
  Nowhere,
  Planners,             \* the authored planner profiles to explore
  PerOrder, MaxRings, CellSize,   \* spatial candidate generation
  FleetCap,             \* max_trucks_per_haulier
  MaxPickup,            \* max_travel_time_pickup, as a distance
  Bonus, MinGain, KeepBelow,      \* solver, claim and offer parameters
  Ceiling, DefaultRounds,   \* MAX_ROUNDS_CEILING, DEFAULT_MAX_ROUNDS
  PatchEvery,           \* _ROUND_STATS_PATCH_EVERY
  Horizon,              \* first tick past the simulation horizon
  MaxTicks, MaxFaults   \* bounds: ticks; patches that fail

None == "none"
Unknown == 1000         \* an infinite cost
Unset == -1             \* no number yet, or none authored
NoPool == 0
Pairs == Trucks \X Orders
Companies == Range(Hauliers)

\* Hauliers are read once each, by id; a truck or an order without one has None.
MarketFacts ==
  /\ Hauliers \in Seq(Companies) /\ None \notin Companies
  /\ \A i, j \in DOMAIN Hauliers : Hauliers[i] = Hauliers[j] => i = j
  /\ IsFiniteSet(Trucks) /\ Trucks \cap Orders = {}
  /\ HaulierOf \in [Trucks \cup Orders -> Companies \cup {None}]
  /\ TruckPlaces \cup OrderPlaces \subseteq Int
  /\ {PerOrder, MaxRings, FleetCap, Bonus} \subseteq Nat
  /\ IsFiniteSet(Structure.edges) /\ Structure.edges \subseteq SUBSET Companies
  /\ "pools" \in DOMAIN Structure =>
       \A p \in Structure.pools : p.id \in Nat \ {NoPool} /\ p.members \subseteq Companies
ASSUME MarketAssumption == MarketFacts

VARIABLES
  at,        \* positions of trucks and orders
  planner,   \* the authored planner block
  phase,     \* where the tick is
  turn,      \* index of the company that solves next
  placed,    \* PoolMarket._contributions: the pools an order is in
  offered,   \* candidate pairs of the round
  bids,      \* the round's bids
  private,   \* a private order was committed in the round
  awards,    \* PoolMarket._awards of the tick
  round, converged,
  gone,      \* trucks and orders assigned in earlier ticks
  tick, stats, published, faults

vars == <<at, planner, phase, turn, placed, offered, bids, private, awards, round,
          converged, gone, tick, stats, published, faults>>
market == <<placed, offered, bids, private, awards, round, converged>>
book == <<tick, stats, published, faults, gone>>

-----------------------------------------------------------------------------
(* Feasibility and cost of a pair.                                         *)

Abs(n) == IF n < 0 THEN -n ELSE n
Distance(t, o) == IF Nowhere \in {at[t], at[o]} THEN Unknown ELSE Abs(at[t] - at[o])
within_max_reposition(t, o) == Distance(t, o) = Unknown \/ Distance(t, o) <= MaxPickup

assignment_cost(t, o) ==
  LET d == Distance(t, o) IN
  IF d = Unknown THEN Unknown
  ELSE IF <<t, o>> \in Chained THEN (IF d > Bonus THEN d - Bonus ELSE 0) ELSE d

haulier_matches(t, o) == HaulierOf[t] # None /\ HaulierOf[t] = HaulierOf[o]
size_compatible(t, o) == <<t, o>> \notin Oversize
restricted_area_blocks(t, o) == <<t, o>> \in Restricted
pair_allowed_ignoring_haulier(t, o) ==
  size_compatible(t, o) /\ ~restricted_area_blocks(t, o) /\ within_max_reposition(t, o)
pair_allowed(t, o) == haulier_matches(t, o) /\ pair_allowed_ignoring_haulier(t, o)

\* A compiled "pools" key is authoritative, even when it is empty; without it
\* every edge is a pool.  Entries with fewer than two members are dropped.
pools_from_edges ==
  LET edges == {e \in Structure.edges : Cardinality(e) = 2}
      id(e) == CHOOSE i \in DOMAIN SetToSeq(edges) : SetToSeq(edges)[i] = e
  IN {[id |-> id(e), members |-> e] : e \in edges}
pools_from_structure ==
  IF "pools" \notin DOMAIN Structure THEN pools_from_edges
  ELSE {p \in Structure.pools : Cardinality(p.members) >= 2}
Pools == [i \in {p.id : p \in pools_from_structure} |->
            (CHOOSE p \in pools_from_structure : p.id = i).members]

\* The structure: partners share a pool; a component is what pools connect.
Partners(h) == (UNION {Pools[p] : p \in {q \in DOMAIN Pools : h \in Pools[q]}}) \ {h}
share_eligible(t, o) ==
  /\ None \notin {HaulierOf[t], HaulierOf[o]}
  /\ HaulierOf[o] \in Partners(HaulierOf[t])
Component(h) ==
  LET grown[n \in 0 .. Len(Hauliers)] ==
        IF n = 0 THEN {h} ELSE grown[n - 1] \cup UNION {Partners(g) : g \in grown[n - 1]}
  IN grown[Len(Hauliers)]

-----------------------------------------------------------------------------
(* The planner block a run executes: missing or unknown names fall back.   *)

Offers == {"OfferAll", "OfferNone", "OfferSpare"}
Claims == {"ClaimAllPlanned", "ClaimNone", "ClaimIfGainExceeds"}
Rules == {"LowestCost", "OwnerFirst", "HighestBenefit", "RandomAward"}
Known(name, registry, default) == IF name \in registry THEN name ELSE default
Clamp(n, lo, hi) == IF n < lo THEN lo ELSE IF n > hi THEN hi ELSE n

resolved_topology ==
  IF planner.topology = "two-stage" THEN "pooled"
  ELSE Known(planner.topology, {"partitioned", "pooled"}, "partitioned")
get_solver == Known(planner.solver, {"RandomAssignment", "GreedyNearest"}, "RandomAssignment")
get_offer_policy == Known(planner.offer, Offers, "OfferAll")
get_claim_policy == Known(planner.claim, Claims, "ClaimAllPlanned")
get_arbitration_rule == Known(planner.rule, Rules, "LowestCost")
max_rounds == Clamp(IF planner.rounds = Unset THEN DefaultRounds ELSE planner.rounds, 1, Ceiling)

-----------------------------------------------------------------------------
(* Sweeps.  A list is walked in rank order and a pair is taken when neither *)
(* side is taken yet.  With ties broken in any way the outcomes are the    *)
(* matchings in which every pair left out meets one ranked no worse.       *)

Meets(p, q) == p[1] = q[1] \/ p[2] = q[2]
IsMatching(m) == \A p, q \in m : p # q => ~Meets(p, q)
Sweeps(pairs, rank) ==
  {m \in SUBSET pairs :
     IsMatching(m) /\ \A p \in pairs \ m : \E q \in m : Meets(p, q) /\ rank[q] <= rank[p]}

Cost(p) == assignment_cost(p[1], p[2])
Nearest(pairs) == [p \in pairs |-> Cost(p)]
AnyOrder(pairs) == [p \in pairs |-> 0]

\* GreedyNearestSolver ranks by cost; RandomAssignmentSolver shuffles.
Solve(pairs) == IF get_solver = "GreedyNearest" THEN Sweeps(pairs, Nearest(pairs))
                ELSE Sweeps(pairs, AnyOrder(pairs))

-----------------------------------------------------------------------------
(* Spatial candidates.  Rings of cells around the pickup are gathered until *)
(* the cap is reached, trucks without a position come last, the list is    *)
(* cut at the cap, and only then is feasibility looked at.                 *)

Ring(t, o) == IF at[t] = Nowhere THEN MaxRings + 1 ELSE Abs(at[t] \div CellSize - at[o] \div CellSize)
nearby(o, trucks) ==
  LET reach == {t \in trucks : at[o] = Nowhere \/ Ring(t, o) <= MaxRings + (IF at[t] = Nowhere THEN 1 ELSE 0)}
      n == Min({PerOrder, Cardinality(reach)})
  IN {s \in kSubset(n, reach) :
        at[o] = Nowhere \/ \A a \in s, b \in reach \ s : Ring(a, o) <= Ring(b, o)}

\* Every way to generate the pairs of the orders os, each over its own trucks
\* (trucksFor[o]), cut to the feasible ones.
CandidatePairs(trucksFor, feasible) ==
  LET os == DOMAIN trucksFor
      choices == [o \in os |-> nearby(o, trucksFor[o])]
  IN {{p \in feasible : p[1] \in near[p[2]]} :
        near \in {f \in [os -> UNION Range(choices)] : \A o \in os : f[o] \in choices[o]}}

\* What the tick reads: online trucks without a haul, unassigned orders that
\* no open haul refers to.
AssignableTrucks == Trucks \ gone
UnassignedOrders == Orders \ gone
Fleet(h) == {t \in AssignableTrucks : HaulierOf[t] = h}
OrdersOf(h) == {o \in UnassignedOrders : HaulierOf[o] = h}
Sampled(trucks) == kSubset(Min({FleetCap, Cardinality(trucks)}), trucks)

-----------------------------------------------------------------------------
Taken == {a.truck : a \in awards} \cup {a.order : a \in awards}
FreeTrucks(h) == Fleet(h) \ Taken
FreeOrders == {o \in UnassignedOrders \ Taken : HaulierOf[o] # None}

NoStats == [ticks |-> 0, drain |-> 0, idle |-> 0, auctions |-> 0, sum |-> 0, max |-> Unset,
            truncated |-> 0, pushedMax |-> Unset]

Patched(s) == [s EXCEPT !.pushedMax = s.max]
round_stats(s) ==
  [ticks |-> s.ticks, inHorizon |-> s.ticks - s.drain, drain |-> s.drain, idle |-> s.idle,
   auctions |-> s.auctions, mean |-> IF s.auctions = 0 THEN Unset ELSE s.sum \div s.auctions,
   max |-> s.max, truncated |-> s.truncated]

Init ==
  /\ at \in {f \in [Trucks \cup Orders -> TruckPlaces \cup OrderPlaces] :
               /\ \A t \in Trucks : f[t] \in TruckPlaces
               /\ \A o \in Orders : f[o] \in OrderPlaces}
  /\ planner \in Planners
  /\ phase = "open" /\ turn = 1 /\ gone = {}
  /\ placed = [o \in Orders |-> {}] /\ offered = {} /\ bids = {} /\ private = FALSE
  /\ awards = {} /\ round = 0 /\ converged = FALSE
  /\ tick = 0 /\ stats = NoStats /\ published = round_stats(NoStats) /\ faults = 0

Award(h, p, pool) ==
  [truck |-> p[1], order |-> p[2], carrier |-> h, owner |-> HaulierOf[p[2]],
   cost |-> Cost(p), pool |-> pool, round |-> round]

-----------------------------------------------------------------------------
(* The partitioned planner: one solve per component, own and partner       *)
(* trucks on equal footing.                                                *)

pair_allowed_partitioned(t, o) ==
  IF haulier_matches(t, o) THEN pair_allowed(t, o)
  ELSE share_eligible(t, o) /\ pair_allowed_ignoring_haulier(t, o)

Serves(o) == {t \in AssignableTrucks : HaulierOf[t] = HaulierOf[o] \/ share_eligible(t, o)}

BucketPairs(component) ==
  LET os == UNION {OrdersOf(h) : h \in component}
      ts == UNION {Fleet(h) : h \in component}
  IN IF get_solver = "GreedyNearest"
     THEN CandidatePairs([o \in os |-> Serves(o)],
                         {p \in Trucks \X os : pair_allowed_partitioned(p[1], p[2])})
     ELSE {{p \in s \X os : pair_allowed_partitioned(p[1], p[2])} : s \in Sampled(ts)}

AssignPartitioned ==
  /\ phase = "open" /\ resolved_topology = "partitioned"
  /\ turn <= Len(Hauliers)
  /\ LET h == Hauliers[turn]
         first == CHOOSE i \in DOMAIN Hauliers : /\ Hauliers[i] \in Component(h)
                                                 /\ \A j \in 1 .. i - 1 : Hauliers[j] \notin Component(h)
     IN IF first # turn THEN UNCHANGED awards
        ELSE \E pairs \in BucketPairs(Component(h)) : \E m \in Solve(pairs) :
               awards' = awards \cup {Award(HaulierOf[p[1]], p, NoPool) : p \in m}
  /\ turn' = turn + 1
  /\ UNCHANGED <<at, planner, phase, placed, offered, bids, private, round, converged, book>>

PartitionedDone ==
  /\ phase = "open" /\ resolved_topology = "partitioned" /\ turn > Len(Hauliers)
  /\ phase' = "assigned" /\ turn' = 1
  /\ UNCHANGED <<at, planner, market, book>>

-----------------------------------------------------------------------------
(* The pooled planner.                                                     *)

pools_for(h) == {p \in DOMAIN Pools : h \in Pools[p]}
cheapest_feasible_cost(o, trucks) == Min({Unknown} \cup {assignment_cost(t, o) : t \in trucks})

\* The orders a company contributes, to every pool it belongs to.
offer(h) ==
  LET own == OrdersOf(h)
      short == Cardinality(Fleet(h)) < Cardinality(own)
      spare(o) == LET best == cheapest_feasible_cost(o, Fleet(h))
                  IN short \/ best = Unknown \/ best > KeepBelow
  IN CASE get_offer_policy = "OfferAll" -> own
       [] get_offer_policy = "OfferNone" -> {}
       [] get_offer_policy = "OfferSpare" -> {o \in own : spare(o)}

\* Only the owner's placements are accepted, into pools it is a member of.
contribute(o) == UNION {pools_for(h) : h \in {g \in Companies : HaulierOf[o] = g /\ o \in offer(g)}}

Contribute ==
  /\ phase = "open" /\ resolved_topology = "pooled"
  /\ placed' = [o \in Orders |-> contribute(o)]
  /\ phase' = "round"
  /\ UNCHANGED <<at, planner, turn, offered, bids, private, awards, round, converged, book>>

visible_pooled_order_ids(h) ==
  {o \in Orders : HaulierOf[o] # h /\ placed[o] \cap pools_for(h) # {}}
pool_of_order(o, h) ==
  IF placed[o] \cap pools_for(h) = {} THEN NoPool ELSE Min(placed[o] \cap pools_for(h))
eligible_carriers(o) == {HaulierOf[o]} \cup UNION {Pools[p] : p \in placed[o]}
pair_allowed_for(t, o) ==
  IF HaulierOf[o] = HaulierOf[t] THEN pair_allowed(t, o) ELSE pair_allowed_ignoring_haulier(t, o)

\* A round opens: candidates are built once, over the union of the fleets
\* that may carry an order; the auction ends when nothing is free or the
\* backstop is reached.
build_round_candidates ==
  IF get_solver = "GreedyNearest"
  THEN CandidatePairs([o \in FreeOrders |-> UNION {FreeTrucks(h) : h \in eligible_carriers(o)}],
                      {p \in Trucks \X FreeOrders : pair_allowed_for(p[1], p[2])})
  ELSE {{}}

OpenRound ==
  /\ phase = "round" /\ FreeOrders # {} /\ round < max_rounds
  /\ offered' \in build_round_candidates
  /\ round' = round + 1
  /\ turn' = 1 /\ bids' = {} /\ private' = FALSE /\ phase' = "bid"
  /\ UNCHANGED <<at, planner, placed, awards, converged, book>>

EndRounds ==
  /\ phase = "round" /\ (FreeOrders = {} \/ round = max_rounds)
  /\ converged' = (FreeOrders = {})
  /\ phase' = "assigned" /\ turn' = 1
  /\ UNCHANGED <<at, planner, placed, offered, bids, private, awards, round, book>>

\* One company solves over its free trucks and what it can see.
CompanyPairs(h) ==
  IF get_solver = "GreedyNearest"
  THEN {{p \in offered : HaulierOf[p[1]] = h}}
  ELSE {{p \in s \X (FreeOrders \cap (OrdersOf(h) \cup visible_pooled_order_ids(h))) :
            pair_allowed_for(p[1], p[2])} : s \in Sampled(FreeTrucks(h))}

\* claim.bids: the planned pairs on pooled orders the company bids on.  own
\* are the planned pairs on its own orders, the opportunity cost of a truck.
GainSuffices(p, own) ==
  LET best == Min({Unknown} \cup {assignment_cost(p[1], q[2]) : q \in own})
  IN \/ own = {} \/ best = Unknown
     \/ Cost(p) # Unknown /\ best - Cost(p) >= MinGain
Claimed(pooled, own) ==
  CASE get_claim_policy = "ClaimAllPlanned" -> pooled
    [] get_claim_policy = "ClaimNone" -> {}
    [] get_claim_policy = "ClaimIfGainExceeds" -> {p \in pooled : GainSuffices(p, own)}

PrivateCommits(h, plan) == {p \in plan : HaulierOf[p[2]] = h /\ placed[p[2]] = {}}

CompanyBids ==
  /\ phase = "bid" /\ turn <= Len(Hauliers)
  /\ LET h == Hauliers[turn]
         own(plan) == {p \in plan : HaulierOf[p[2]] = h}
     IN \E pairs \in CompanyPairs(h) : \E plan \in Solve(pairs) :
          LET direct == PrivateCommits(h, plan)
              claims == Claimed(plan \ direct, own(plan))
          IN /\ awards' = awards \cup {Award(h, p, NoPool) : p \in direct}
             /\ private' = (private \/ direct # {})
             /\ bids' = bids \cup {Award(h, p, pool_of_order(p[2], h)) : p \in claims}
  /\ turn' = turn + 1
  /\ UNCHANGED <<at, planner, phase, placed, offered, round, converged, book>>

\* Arbitration ranks the bids, sweeps them and commits what it awarded; a
\* round that committed nothing ends the auction.
OwnBid(b) == b.carrier = b.owner
Reserve(o) == Min({Unknown} \cup {b.cost : b \in {x \in bids : x.order = o /\ OwnBid(x)}})
HasBenefit(b) == Unknown \notin {Reserve(b.order), b.cost}
\* Slip: the cost decides, whatever the rule.
CheaperBid(b, c) == b.cost <= c.cost
NoWorseBid(b, c) ==
  CASE get_arbitration_rule = "LowestCost" -> b.cost <= c.cost
    [] get_arbitration_rule = "OwnerFirst" ->
         (OwnBid(b) /\ ~OwnBid(c)) \/ (OwnBid(b) = OwnBid(c) /\ b.cost <= c.cost)
    [] get_arbitration_rule = "HighestBenefit" ->
         \/ HasBenefit(b) /\ ~HasBenefit(c)
         \/ HasBenefit(b) /\ HasBenefit(c) /\ Reserve(b.order) - b.cost >= Reserve(c.order) - c.cost
         \/ ~HasBenefit(b) /\ ~HasBenefit(c) /\ b.cost <= c.cost
    [] get_arbitration_rule = "RandomAward" -> TRUE
Rivals(b, c) == b.truck = c.truck \/ b.order = c.order

AwardSets ==
  {w \in SUBSET bids :
     /\ \A b, c \in w : b # c => ~Rivals(b, c)
     /\ \A b \in bids \ w : \E c \in w : Rivals(b, c) /\ NoWorseBid(c, b)}

\* The host's own check of an award (I-P4), and commit()'s (I-P2).
Committable(b) ==
  /\ OwnBid(b) \/ pool_of_order(b.order, b.carrier) # NoPool
  /\ {b.truck, b.order} \cap Taken = {}

\* Slip: private commits do not count as progress.
NothingBid == bids = {}
NothingCommitted == bids = {} /\ ~private

Arbitrate ==
  /\ phase = "bid" /\ turn > Len(Hauliers) /\ ~NothingCommitted
  /\ \E won \in AwardSets : awards' = awards \cup {b \in won : Committable(b)}
  /\ phase' = "round"
  /\ UNCHANGED <<at, planner, turn, placed, offered, bids, private, round, converged, book>>

Converge ==
  /\ phase = "bid" /\ turn > Len(Hauliers) /\ NothingCommitted
  /\ converged' = TRUE
  /\ phase' = "assigned" /\ turn' = 1
  /\ UNCHANGED <<at, planner, placed, offered, bids, private, awards, round, book>>

-----------------------------------------------------------------------------
(* After the tick: statistics of the rounds, and the PATCH that publishes  *)
(* them on the run record, which may fail and is then not repeated.        *)

Recorded ==
  [ticks |-> stats.ticks + 1,
   drain |-> IF tick >= Horizon THEN stats.drain + 1 ELSE stats.drain,
   idle |-> IF round = 0 THEN stats.idle + 1 ELSE stats.idle,
   auctions |-> IF round > 0 THEN stats.auctions + 1 ELSE stats.auctions,
   sum |-> stats.sum + round,
   max |-> IF stats.max = Unset THEN round ELSE Max({stats.max, round}),
   truncated |-> IF converged THEN stats.truncated ELSE stats.truncated + 1,
   pushedMax |-> stats.pushedMax]

\* The patches of one tick: a forced one when the tick was truncated, then
\* one that is due when the maximum grew or on every PatchEvery-th tick.
Forced == ~converged
Due(s) == s.max # s.pushedMax \/ s.ticks % PatchEvery = 0

RecordRoundStats(ok) ==
  /\ phase = "assigned" /\ resolved_topology = "pooled"
  /\ LET s == Recorded
         pushes == Forced \/ Due(s)
         pushed == IF pushes THEN Patched(s) ELSE s
     IN /\ (~ok) => pushes /\ faults < MaxFaults
        /\ faults' = IF ok THEN faults ELSE faults + 1
        /\ stats' = pushed
        /\ published' = IF pushes /\ ok THEN round_stats(pushed) ELSE published
  /\ phase' = "recorded"
  /\ UNCHANGED <<at, planner, turn, market, tick, gone>>

\* The matches are published and the next tick reads a market without them;
\* the partitioned planner keeps no statistics.
NextTick ==
  /\ \/ phase = "recorded"
     \/ phase = "assigned" /\ resolved_topology = "partitioned"
  /\ tick < MaxTicks
  /\ tick' = tick + 1 /\ gone' = gone \cup Taken
  /\ phase' = "open" /\ turn' = 1
  /\ placed' = [o \in Orders |-> {}] /\ offered' = {} /\ bids' = {} /\ private' = FALSE
  /\ awards' = {} /\ round' = 0 /\ converged' = FALSE
  /\ UNCHANGED <<at, planner, stats, published, faults>>

\* close(): a last forced patch.
Close(ok) ==
  /\ \/ phase = "recorded"
     \/ phase = "assigned" /\ resolved_topology = "partitioned"
  /\ tick = MaxTicks
  /\ IF stats.ticks = 0 THEN ok /\ UNCHANGED <<stats, published, faults>>
     ELSE /\ ok \/ faults < MaxFaults
          /\ stats' = Patched(stats)
          /\ published' = IF ok THEN round_stats(stats) ELSE published
          /\ faults' = IF ok THEN faults ELSE faults + 1
  /\ phase' = "closed"
  /\ UNCHANGED <<at, planner, turn, market, tick, gone>>

Next ==
  \/ AssignPartitioned \/ PartitionedDone
  \/ Contribute \/ OpenRound \/ EndRounds \/ CompanyBids \/ Arbitrate \/ Converge
  \/ \E ok \in BOOLEAN : RecordRoundStats(ok) \/ Close(ok)
  \/ NextTick

Spec == Init /\ [][Next]_vars

-----------------------------------------------------------------------------
(* The share tag of a cross-haulier award: the owner's cheapest own truck   *)
(* still free after the tick against the awarded cost.                     *)

owner_reserve_km(o) ==
  Min({Unknown} \cup {assignment_cost(t, o) :
         t \in {u \in Fleet(HaulierOf[o]) \ Taken : pair_allowed(u, o)}})
benefit_km(a) ==
  IF Unknown \in {owner_reserve_km(a.order), a.cost} THEN Unknown ELSE owner_reserve_km(a.order) - a.cost

-----------------------------------------------------------------------------
(* Properties.                                                             *)

\* No truck and no order is assigned twice, over all rounds and ticks
\* (I-P2; commit() and the sweeps), and every pair is physically feasible.
OneToOne ==
  /\ \A a, b \in awards : a # b => a.truck # b.truck /\ a.order # b.order
  /\ \A a \in awards : /\ {a.truck, a.order} \cap gone = {}
                       /\ pair_allowed_ignoring_haulier(a.truck, a.order)

\* An order is carried by its owner or by a haulier the structure lets share
\* it; in a pooled tick, only if the owner contributed it to a pool of both
\* (I-P4): a private order is never seen by anyone else.
OnlySharedTravels ==
  \A a \in awards : a.carrier # a.owner =>
    /\ a.carrier \in Partners(a.owner)
    /\ resolved_topology = "pooled" =>
         /\ a.pool \in placed[a.order]
         /\ {a.carrier, a.owner} \subseteq Pools[a.pool]

\* The owner's bid wins its own order under OwnerFirst: a partner carries it
\* only when the owner did not bid in that round.
OwnersKeepTheirs ==
  (get_arbitration_rule = "OwnerFirst" /\ phase \in {"round", "assigned"}) =>
    \A a \in awards : (a.carrier # a.owner /\ a.round = round) =>
      ~\E b \in bids : b.order = a.order /\ OwnBid(b)

\* Every round that does not end the auction commits an award, so the
\* backstop can only truncate an auction that made an award per round.
EveryRoundAwards ==
  (phase = "assigned" /\ resolved_topology = "pooled") =>
    \A r \in 1 .. (IF converged /\ FreeOrders # {} THEN round - 1 ELSE round) :
      \E a \in awards : a.round = r

\* The partitioned greedy solve never hands an order to a partner while an
\* own truck in sight that stays free would have been cheaper: there
\* benefit_km is not negative (in a pooled tick it may be).
InSight(t, o) ==
  /\ Cardinality(Trucks) <= PerOrder
  /\ at[t] = Nowhere \/ at[o] = Nowhere \/ Ring(t, o) <= MaxRings
SharingNeverCostsMore ==
  (phase = "assigned" /\ resolved_topology = "partitioned" /\ get_solver = "GreedyNearest") =>
    \A a \in awards : (a.carrier # a.owner /\ \A t \in Fleet(a.owner) : InSight(t, a.order)) =>
      benefit_km(a) >= 0

\* A tick that reports convergence has allocated all it could: no free truck
\* may serve a free order it can see and would claim, when the search is wide
\* enough (every truck in sight, or the whole fleet in the sample).  A claim that
\* asks for a gain over the company's own work is certain once the company has no
\* such work left.
InSearch(t, o) ==
  IF get_solver = "GreedyNearest" THEN InSight(t, o)
  ELSE Cardinality(FreeTrucks(HaulierOf[t])) <= FleetCap
Servable(t, o) ==
  HaulierOf[t] \in eligible_carriers(o) /\ pair_allowed_for(t, o) /\ InSearch(t, o)
SureToClaim(h) ==
  \/ get_claim_policy = "ClaimAllPlanned"
  \/ /\ get_claim_policy = "ClaimIfGainExceeds"
     /\ ~\E t \in FreeTrucks(h), o \in FreeOrders \cap OrdersOf(h) : pair_allowed(t, o)
ConvergedIsExhausted ==
  (phase = "assigned" /\ converged) =>
    \A h \in Companies : SureToClaim(h) =>
      ~\E t \in FreeTrucks(h), o \in FreeOrders : Servable(t, o)

\* The published statistics never hide a truncated tick, unless the patch
\* that would have shown it failed ("ticks_truncated_by_backstop is never
\* stale"), and add up.
TruncationIsShown ==
  /\ phase \in {"recorded", "closed"} /\ faults = 0 => published.truncated = stats.truncated
  /\ stats.auctions + stats.idle = stats.ticks
  /\ phase = "closed" /\ faults = 0 => published = round_stats(stats)

\* The allocation and the statistics published of it.
MarketSafe ==
  /\ OneToOne /\ OnlySharedTravels /\ OwnersKeepTheirs /\ EveryRoundAwards
  /\ SharingNeverCostsMore /\ TruncationIsShown
=============================================================================
