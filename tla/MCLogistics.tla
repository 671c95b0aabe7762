------------------------------ MODULE MCLogistics ------------------------------
(***************************************************************************)
(* The haulage of a container-logistics run and the three views of it that *)
(* are kept outside the agents (the KPI ledger of the analytics agent, the *)
(* KPI sink, the live map), an instance of each in one state space.  Init  *)
(* chooses the part that behaves; the others stay at their Init.           *)
(***************************************************************************)
EXTENDS Haulage, RunReports, TLC

CONSTANTS k1, k2, o1, o2, f1
VARIABLES
  part,
  clock, run_trip, ticked, manager, flushed, kpis, docs, phase, ledger_faults

-----------------------------------------------------------------------------
PickAt == [o \in Orders |-> f1]
DropAt == [o \in Orders |-> f1]
Scene(m, ts, os, c, n) == [mode |-> m, trucks |-> ts, orders |-> os, closes |-> c, faults |-> n]

\* Two trucks compete; a run that ends with work open; one call of each kind fails,
\* with and without the end of the run; and the order agents of "agent" mode.
AllScenes == { Scene("service", {k1, k2}, {o1, o2}, FALSE, {}),
               Scene("service", {k1}, {o1, o2}, TRUE, {}),
               Scene("service", {k1}, {o1}, TRUE, {"api", "read", "sweep", "drain"}),
               Scene("service", {k1, k2}, {o1}, FALSE, {"api", "read", "sweep"}),
               Scene("agent", {k1}, {o1, o2}, TRUE, {}) }

\* A trip of a haulier's own and one it shares, between a port that pays a rebate and
\* a depot that does not.
Carrier == ("own" :> "A") @@ ("shared" :> "B")
Owner == ("own" :> "A") @@ ("shared" :> "A")
Site == ("own" :> [pickup |-> "port", dropoff |-> "depot"])
        @@ ("shared" :> [pickup |-> "depot", dropoff |-> "port"])
Ledger == INSTANCE KpiLedger WITH
  Trips <- {"own", "shared"}, Hauliers <- {"A", "B"}, carrier <- Carrier, owner <- Owner,
  Valued <- {"shared"}, site <- Site, Paying <- {"port"}, Horizon <- 3, Window <- 1,
  MinGap <- 2, CheckpointInterval <- 1, MaxFaults <- 1,
  trip <- run_trip, live <- manager, faults <- ledger_faults

\* A live breakdown and the final one with an earlier clock.
BreakdownDocs == <<[clock |-> 3, final |-> FALSE], [clock |-> 2, final |-> TRUE]>>

-----------------------------------------------------------------------------
ledgerVars == <<clock, run_trip, ticked, manager, flushed, kpis, docs, phase, ledger_faults>>
allVars == <<part, vars, ledgerVars, sinkVars, mapVars>>

LogisticsInit ==
  /\ part \in {"haulage", "ledger", "sink", "map"}
  /\ part = "haulage" \/ scene = CHOOSE s \in Scenes : TRUE
  /\ part = "map" \/ (route = [t \in Trips |-> "none"] /\ authoritative = FALSE)
  /\ Init /\ Ledger!Init /\ Sink!Init /\ Map!Init

HaulageStep == part = "haulage" /\ Next /\ UNCHANGED <<part, ledgerVars, sinkVars, mapVars>>
LedgerStep == part = "ledger" /\ Ledger!Next /\ UNCHANGED <<part, vars, sinkVars, mapVars>>
SinkStep == part = "sink" /\ Sink!Next /\ UNCHANGED <<part, vars, ledgerVars, mapVars>>
MapStep == part = "map" /\ Map!Next /\ UNCHANGED <<part, vars, ledgerVars, sinkVars>>

LogisticsSpec ==
  LogisticsInit /\ [][HaulageStep \/ LedgerStep \/ SinkStep \/ MapStep]_allVars

-----------------------------------------------------------------------------
\* KpiLedger: the KPI rows, the breakdown documents and the final ledger tell every
\* trip once, to the hauliers that ran and owned it.
LedgerSafe == part = "ledger" => Ledger!LedgerSafe

\* LiveMap: a leg still renders something while the routing service is down.
OutageStillRenders == part = "map" => Map!OutageStillRenders
===============================================================================
