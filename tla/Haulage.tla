------------------------------- MODULE Haulage -------------------------------
(***************************************************************************)
(* The haul workflow of apps/container_logistics: the assignment service   *)
(* matches unassigned orders with free trucks, a truck carries its order   *)
(* through the gates of the facilities, and the order documents follow by  *)
(* events, applied by one batch writer ("service" mode) or by an agent per *)
(* order ("agent" mode).                                                   *)
(*                                                                         *)
(* Every agent handles one message at a time, so a handler is one action;  *)
(* a simulation step lets every live agent act once, in any order, and     *)
(* Tick starts the next step when all have.  Simulation time is abstracted *)
(* to that: which orders are due or overdue, whether a truck has arrived,  *)
(* and which gate services end is chosen afresh at every step.             *)
(***************************************************************************)
EXTENDS Integers, Sequences, FiniteSets, Functions

CONSTANTS
  Trucks, Orders, Facilities,
  Gates,           \* gate indices of a facility: gate_count
  PickupAt, DropoffAt,   \* the facility where an order is picked up, dropped
  ServiceTime,     \* resolve_service_time: 0 means "no service time"
  Punctual,        \* a matching round starts after every assignment arrived
  Scenes           \* the runs to explore, records of
                   \*   mode: ORDER_LIFECYCLE mode, "service" or "agent"
                   \*   trucks, orders: the ones that take part
                   \*   closes: the run reaches its horizon and ends
                   \*   faults: the kinds of call of which one may fail:
                   \*     "api" a POST or PATCH of a truck, "read" the
                   \*     writer's state read, "sweep" or "match" the query
                   \*     for open hauls, "drain" the last drain

ASSUME HaulageConstants ==
  /\ PickupAt \in [Orders -> Facilities] /\ DropoffAt \in [Orders -> Facilities]
  /\ Gates \subseteq Nat /\ IsFiniteSet(Gates) /\ Gates # {}
  /\ {"none", "writer", "assigner"} \cap (Trucks \cup Facilities) = {}
  /\ ServiceTime \in Nat /\ Punctual \in BOOLEAN
  /\ Scenes \subseteq [mode : {"service", "agent"}, trucks : SUBSET Trucks,
                       orders : SUBSET Orders, closes : BOOLEAN,
                       faults : SUBSET {"api", "read", "sweep", "match", "drain"}]

VARIABLES
  scene,     \* the run being explored
  stage,     \* "run", "horizon" (no new demand), "closing", "ended"
  turn,      \* the agents that have not acted in this step
  failed,    \* a call has failed (at most one per run does)
  trip,      \* trip[k]: the haul trip document truck k holds, or NoTrip
  idle,      \* the trucks with an open idle-trip record
  online,    \* the trucks that are logged in
  offer,     \* offer[k]: assignments published to truck k, not yet handled
  tq,        \* tq[k]: gate messages queued at truck k
  fq,        \* fq[f]: arrivals published to facility f, not yet consumed
  queue,     \* queue[f]: the FIFO gate queue
  gate,      \* gate[f][g]: the visit gate g serves, or Free
  ends,      \* ends[f]: the gates with a scheduled end of service
  round,     \* the orders and trucks the matching round has read, or NoRound
  doc,       \* doc[o]: state and cancel reason of the order document
  mail,      \* mail[o]: order events published, not yet applied
  live,      \* the order-side agents that are up
  hauls,     \* hauls[o]: trips ever created for o (history)
  delivered, \* orders whose trip completed (history)
  drained    \* FALSE once the writer's final drain failed (history)

vars == <<scene, stage, turn, failed, trip, idle, online, offer, tq, fq, queue,
          gate, ends, round, doc, mail, live, hauls, delivered, drained>>
truckVars == <<trip, idle, online, hauls, delivered>>
gateVars == <<queue, gate, ends>>
orderVars == <<doc, live, drained>>

NoTrip == [st |-> "none"]
Free == [truck |-> "none"]
NoRound == [ph |-> "none"]
Writer == "writer"
Assigner == "assigner"

mode == scene.mode
OrderAgents == IF mode = "service" THEN {Writer} ELSE scene.orders
Agents == scene.trucks \cup Facilities \cup OrderAgents \cup {Assigner}
Alive == (Trucks \cap online) \cup Facilities \cup (live \cap OrderAgents) \cup {Assigner}
Running == stage \in {"run", "horizon"}
Acts(a) == Running /\ a \in turn /\ a \in Alive /\ turn' = turn \ {a}
CanFail(kind) == ~failed /\ kind \in scene.faults
MayFail(kind, bad) == (bad => CanFail(kind)) /\ failed' = (failed \/ bad)

(***************************************************************************)
(* The truck and its haul trip.                                            *)
(***************************************************************************)
Terminal == {"completed", "cancelled"}
HaulTransitions ==
  { <<"assign", "created", "assigned">>,
    <<"start_empty_reposition", "assigned", "repositioning_to_pickup">>,
    <<"arrive_pickup_queue", "assigned", "queued_for_pickup">>,
    <<"arrive_pickup_queue", "repositioning_to_pickup", "queued_for_pickup">>,
    <<"enter_pickup_gate", "queued_for_pickup", "at_pickup_gate">>,
    <<"finish_pickup_service", "at_pickup_gate", "loaded_in_transit">>,
    <<"arrive_dropoff_queue", "loaded_in_transit", "queued_for_dropoff">>,
    <<"enter_dropoff_gate", "queued_for_dropoff", "at_dropoff_gate">>,
    <<"finish_dropoff_service", "at_dropoff_gate", "completed">> }
    \cup {<<"cancel", s, "cancelled">> :
            s \in {"created", "assigned", "repositioning_to_pickup", "queued_for_pickup",
                   "at_pickup_gate", "loaded_in_transit", "queued_for_dropoff",
                   "at_dropoff_gate"}}
TripStates == {h[2] : h \in HaulTransitions} \cup Terminal

(* The state an order reaches by the event of a haul transition.           *)
OrderEvents ==
  [assign |-> "assigned", enter_pickup_gate |-> "pickup_in_progress",
   finish_pickup_service |-> "in_transit", enter_dropoff_gate |-> "dropoff_in_progress",
   finish_dropoff_service |-> "completed", cancel |-> "cancelled"]

(* The visit a facility learns of by the event of a haul transition.       *)
GateEvents == [arrive_pickup_queue |-> "pickup", arrive_dropoff_queue |-> "dropoff"]

Visit(v, o) == IF v = "pickup" THEN PickupAt[o] ELSE DropoffAt[o]
Unsaid(t) == [trip |-> t, orders |-> <<>>, visits |-> [f \in Facilities |-> <<>>]]

(* A PATCH of transition t: the API refuses it when the trip's state does  *)
(* not allow it or when the call is the bad one of this step, and then     *)
(* nothing is published.  w collects the trip and what it published, to    *)
(* the order and to each facility.                                         *)
ApplyTripTransitionAndNotify(w, t, bad) ==
  LET fired == {h \in HaulTransitions : h[1] = t /\ h[2] = w.trip.st /\ t # bad}
  IN IF fired = {} THEN w ELSE
     [trip |-> [w.trip EXCEPT !.st = (CHOOSE h \in fired : TRUE)[3]],
      orders |-> IF t \in DOMAIN OrderEvents THEN Append(w.orders, OrderEvents[t]) ELSE w.orders,
      visits |-> IF t \in DOMAIN GateEvents
                 THEN [w.visits EXCEPT ![Visit(GateEvents[t], w.trip.ord)] = Append(@, GateEvents[t])]
                 ELSE w.visits]

(* The facility messages a truck handles and the transition each applies.  *)
OnGateMessage ==
  [pickup_slot |-> "enter_pickup_gate", pickup_done |-> "finish_pickup_service",
   dropoff_slot |-> "enter_dropoff_gate", dropoff_done |-> "finish_dropoff_service"]

(* The state handlers: what a truck does by itself in a trip state.  there *)
(* says whether the truck already stands at the pickup.                    *)
OnStateAssigned(there) == IF there THEN "arrive_pickup_queue" ELSE "start_empty_reposition"
OnStateMoving == [repositioning_to_pickup |-> "arrive_pickup_queue",
                  loaded_in_transit |-> "arrive_dropoff_queue"]
PerformWorkflowActions(w, there, bad) ==
  LET st == w.trip.st
  IN IF st = "assigned" THEN ApplyTripTransitionAndNotify(w, OnStateAssigned(there), bad)
     ELSE IF st \in DOMAIN OnStateMoving
          THEN ApplyTripTransitionAndNotify(w, OnStateMoving[st], bad) ELSE w

(* A new trip document of truck k, or what a PATCH left of it, with the    *)
(* messages it published to the order and to the facilities.               *)
Published(k, w) ==
  /\ trip' = [trip EXCEPT ![k] = w.trip]
  /\ mail' = IF w.trip = NoTrip THEN mail ELSE [mail EXCEPT ![w.trip.ord] = @ \o w.orders]
  /\ fq' = [f \in Facilities |-> fq[f] \o
              [i \in 1..Len(w.visits[f]) |-> [truck |-> k, visit |-> w.visits[f][i]]]]
  /\ delivered' = IF "completed" \in Range(w.orders)
                  THEN delivered \cup {w.trip.ord} ELSE delivered

Bad(x) == x # "none"
Refusals == {"none"} \cup (IF CanFail("api") THEN {h[1] : h \in HaulTransitions} ELSE {})

(* handle_assignment for the oldest assignment: dropped unless the truck   *)
(* is online without a trip; otherwise the idle record ends, the trip is   *)
(* posted, and assigned.  A failed POST leaves the truck with neither.     *)
NewTrip(o) == Unsaid([st |-> "created", ord |-> o])
HandleAssignment(k) ==
  LET o == Head(offer[k])
  IN /\ Running /\ offer[k] # <<>>
     /\ offer' = [offer EXCEPT ![k] = Tail(@)]
     /\ UNCHANGED <<scene, stage, turn, online, tq, gateVars, round, orderVars>>
     /\ \/ /\ k \notin online \/ trip[k] # NoTrip
           /\ UNCHANGED <<failed, trip, idle, fq, mail, hauls, delivered>>
        \/ /\ k \in online /\ trip[k] = NoTrip
           /\ idle' = idle \ {k}
           /\ \/ MayFail("api", TRUE) /\ UNCHANGED <<trip, fq, mail, hauls, delivered>>
              \/ \E bad \in Refusals \cap {"none", "assign"} :
                   /\ MayFail("api", Bad(bad))
                   /\ Published(k, ApplyTripTransitionAndNotify(NewTrip(o), "assign", bad))
                   /\ hauls' = [hauls EXCEPT ![o] = @ + 1]

(* consume_messages: the queued gate messages, oldest first.               *)
ConsumeMessages(w, msgs, bad) ==
  LET told[i \in 0..Len(msgs)] ==
        IF i = 0 THEN w
        ELSE ApplyTripTransitionAndNotify(told[i - 1], OnGateMessage[msgs[i]], bad)
  IN told[Len(msgs)]

(* execute_step_actions: drop a finished trip, handle the queued gate      *)
(* messages, then the state handler.  A trip that is over, or none, leaves *)
(* the truck on an idle record.                                            *)
Held(k) == IF trip[k].st \in Terminal THEN NoTrip ELSE trip[k]
OffShift(k) == stage = "horizon" /\ Held(k) = NoTrip
TruckStep(k) ==
  \E there \in BOOLEAN, bad \in Refusals :
    /\ Acts(k) /\ offer[k] = <<>> /\ ~OffShift(k)
    /\ Published(k, PerformWorkflowActions(ConsumeMessages(Unsaid(Held(k)), tq[k], bad), there, bad))
    /\ MayFail("api", Bad(bad))
    /\ idle' = IF Held(k) = NoTrip THEN idle \cup {k} ELSE idle
    /\ tq' = [tq EXCEPT ![k] = <<>>]
    /\ UNCHANGED <<scene, stage, online, offer, gateVars, round, orderVars, hauls>>

(* A step a truck sits out: its cadence, its response rate, or the next    *)
(* event of its trip still ahead (step_only_on_events).                    *)
TruckWaits(k) ==
  /\ Acts(k) /\ offer[k] = <<>> /\ ~OffShift(k)
  /\ UNCHANGED <<scene, stage, failed, truckVars, offer, tq, fq, gateVars, round, mail, orderVars>>

(* exiting_market: past the end of its shift, which is no later than the   *)
(* horizon, a truck without a trip logs out and ends its idle record.      *)
TruckLeaves(k) ==
  /\ Acts(k) /\ offer[k] = <<>> /\ OffShift(k)
  /\ trip' = [trip EXCEPT ![k] = NoTrip]
  /\ online' = online \ {k} /\ idle' = idle \ {k}
  /\ UNCHANGED <<scene, stage, failed, offer, tq, fq, gateVars, round, mail, orderVars, hauls, delivered>>

(***************************************************************************)
(* The facility: one FIFO queue, several gates.                            *)
(***************************************************************************)
(* assign_available_gates: free gates in index order take the head of the  *)
(* queue.  fac is [queue, gate]; the result adds the gates given.          *)
InOrder(gs) == CHOOSE s \in [1..Cardinality(gs) -> gs] :
                 \A i, j \in 1..Cardinality(gs) : i < j => s[i] < s[j]
FreeGates(fac) == InOrder({g \in Gates : fac.gate[g] = Free})
AssignAvailableGates(fac) ==
  LET free == FreeGates(fac)
      n == IF Len(free) < Len(fac.queue) THEN Len(free) ELSE Len(fac.queue)
      given == [i \in 1..n |-> free[i]]
  IN [queue |-> SubSeq(fac.queue, n + 1, Len(fac.queue)),
      gate |-> [g \in Gates |->
                  IF \E i \in 1..n : given[i] = g
                  THEN fac.queue[CHOOSE i \in 1..n : given[i] = g] ELSE fac.gate[g]],
      given |-> Range(given)]

(* The messages to truck k for the gates given or finished.                *)
Slot == [pickup |-> "pickup_slot", dropoff |-> "dropoff_slot"]
DoneMsg == [pickup |-> "pickup_done", dropoff |-> "dropoff_done"]
Notices(k, at, gs, msg) ==
  LET mine == {g \in gs : at[g].truck = k}
  IN [i \in 1..Cardinality(mine) |-> msg[at[InOrder(mine)[i]].visit]]

(* execute_step_actions: consume the arrivals, allocate, complete the due  *)
(* services, allocate again.  A gate given out now is never due in the     *)
(* same step, and with no service time no end is ever scheduled.           *)
(* Slip: a service of one second schedules no end.                         *)
EndsOfLong(given) == IF ServiceTime > 1 THEN given ELSE {}
EndsOf(given) == IF ServiceTime > 0 THEN given ELSE {}
FacilityStep(f, due) ==
  LET a1 == AssignAvailableGates([queue |-> queue[f] \o fq[f], gate |-> gate[f]])
      freed == [g \in Gates |-> IF g \in due THEN Free ELSE a1.gate[g]]
      a2 == IF due = {} THEN [a1 EXCEPT !.given = {}]
            ELSE AssignAvailableGates([queue |-> a1.queue, gate |-> freed])
  IN /\ Acts(f) /\ due \subseteq ends[f]
     /\ queue' = [queue EXCEPT ![f] = a2.queue]
     /\ gate' = [gate EXCEPT ![f] = a2.gate]
     /\ ends' = [ends EXCEPT ![f] = ((@ \cup EndsOf(a1.given)) \ due) \cup EndsOf(a2.given)]
     /\ tq' = [k \in Trucks |-> tq[k] \o Notices(k, a1.gate, a1.given, Slot)
                                      \o Notices(k, a1.gate, due, DoneMsg)
                                      \o Notices(k, a2.gate, a2.given, Slot)]
     /\ fq' = [fq EXCEPT ![f] = <<>>]
     /\ UNCHANGED <<scene, stage, failed, truckVars, offer, round, mail, orderVars>>

(***************************************************************************)
(* The order documents.                                                    *)
(***************************************************************************)
OrderPath == <<"created", "unassigned", "assigned", "pickup_in_progress",
               "in_transit", "dropoff_in_progress", "completed">>
OrderStates == Range(OrderPath) \cup {"cancelled"}
Hauling == {k \in Trucks : trip[k].st \notin Terminal \cup {"none"}}
OpenHauls == {trip[k].ord : k \in Hauling}

(* Slip: a sweep cancel is as final as any other.                          *)
NeverResurrectable(d) == FALSE
Resurrectable(d) == d.st = "cancelled" /\ d.why = "overdue"

(* One event of plan_event_updates folded into p, the state this drain     *)
(* believes in (st, why) and what it will write (set, clear): an event for *)
(* a finally terminal order is dropped, and so is a cancel of a shed one;  *)
(* a jump over a lost event is applied like any other.                     *)
FoldEvent(p, to) ==
  LET reviving == Resurrectable(p)
  IN IF \/ reviving /\ to = "cancelled"
        \/ ~reviving /\ p.st \in Terminal
     THEN p
     ELSE [st |-> to, why |-> "none", set |-> to, clear |-> p.clear \/ reviving]

FoldEvents(p, events) ==
  LET folded[i \in 0..Len(events)] == IF i = 0 THEN p ELSE FoldEvent(folded[i - 1], events[i])
  IN folded[Len(events)]

(* apply_events for one order: read the document (unknown when the read    *)
(* failed), fold its events, and write through the filter that protects a  *)
(* finally terminal document.                                              *)
ApplyEvents(d, events, known) ==
  LET p == FoldEvents([st |-> IF known THEN d.st ELSE "unknown",
                       why |-> IF known THEN d.why ELSE "none",
                       set |-> "nothing", clear |-> FALSE], events)
  IN IF p.set = "nothing" \/ (d.st \in Terminal /\ ~Resurrectable(d)) THEN d
     ELSE [st |-> p.set, why |-> IF p.clear THEN "none" ELSE d.why]

(* run_step of the writer: apply, publish the due demand before the        *)
(* horizon, cancel overdue unassigned orders that no open haul refers to.  *)
(* When the haul query fails it returns nothing, and guards nothing.       *)
(* Slip: the sweep and the matching forget the orders of open hauls.       *)
UnprotectedHauls(lost) == {}
Protected(lost) == IF lost THEN {} ELSE OpenHauls
(* Slip: publish_due without its filter on the state.                      *)
PublishAgain(d, due) == IF due THEN [d EXCEPT !.st = "unassigned"] ELSE d
PublishDue(d, due) == IF due /\ d.st = "created" THEN [d EXCEPT !.st = "unassigned"] ELSE d
CancelOverdue(d) == [st |-> "cancelled", why |-> "overdue"]
WriterStep ==
  \E due \in SUBSET Orders, overdue \in SUBSET Orders, bad \in {"none", "read", "sweep"} :
    LET applied == [o \in Orders |-> ApplyEvents(doc[o], mail[o], bad # "read")]
        shown == [o \in Orders |-> PublishDue(applied[o], o \in due)]
    IN /\ Acts(Writer) /\ mode = "service" /\ MayFail(bad, Bad(bad))
       /\ stage = "horizon" => due = {}
       /\ due \subseteq scene.orders
       /\ overdue \subseteq {o \in Orders : shown[o].st = "unassigned"} \ ({o \in due : applied[o].st = "created"} \cup Protected(bad = "sweep"))
       /\ doc' = [o \in Orders |-> IF o \in overdue THEN CancelOverdue(shown[o]) ELSE shown[o]]
       /\ mail' = [o \in Orders |-> <<>>]
       /\ UNCHANGED <<scene, stage, truckVars, offer, tq, fq, gateVars, round, live, drained>>

(* One event at an order agent: the API applies it only along the path.    *)
AgentApplies(d, to) ==
  IF \/ to = "cancelled" /\ d.st \notin Terminal
     \/ \E i \in 1..6 : OrderPath[i] = d.st /\ OrderPath[i + 1] = to
  THEN [d EXCEPT !.st = to] ELSE d
AgentHears(d, events) ==
  LET heard[i \in 0..Len(events)] == IF i = 0 THEN d ELSE AgentApplies(heard[i - 1], events[i])
  IN heard[Len(events)]

(* A step of the agent of order o in agent mode: it publishes itself when  *)
(* its request step has come, handles its events, and leaves when it is    *)
(* terminal, when it waited too long unassigned (which cancels it), or, at *)
(* the end of the run, unserved or out of grace.                           *)
OrderAgentStep(o) ==
  \E due \in BOOLEAN, overdue \in BOOLEAN, grace \in BOOLEAN :
    LET d0 == IF due /\ doc[o].st = "created" THEN [doc[o] EXCEPT !.st = "unassigned"] ELSE doc[o]
        d1 == AgentHears(d0, mail[o])
        sheds == overdue /\ d1.st = "unassigned"
        leaves == \/ d1.st \in Terminal \/ sheds
                  \/ stage = "horizon" /\ (d1.st \in {"created", "unassigned"} \/ ~grace)
    IN /\ mode = "agent" /\ Acts(o)
       /\ due => doc[o].st = "created"
       /\ overdue => ~due /\ doc[o].st # "created"
       /\ doc' = [doc EXCEPT ![o] = IF sheds THEN [d1 EXCEPT !.st = "cancelled"] ELSE d1]
       /\ mail' = [mail EXCEPT ![o] = <<>>]
       /\ live' = IF leaves THEN live \ {o} ELSE live
       /\ UNCHANGED <<scene, stage, failed, truckVars, offer, tq, fq, gateVars, round, drained>>

(***************************************************************************)
(* The matching round of the assignment service.                           *)
(***************************************************************************)
(* assign reads the online trucks, then the unassigned orders.             *)
ReadMarket ==
  /\ Running /\ Assigner \in turn /\ round = NoRound
  /\ Punctual => \A k \in Trucks : offer[k] = <<>>
  /\ round' = [ph |-> "read", trucks |-> online,
               orders |-> {o \in Orders : doc[o].st = "unassigned"}]
  /\ UNCHANGED <<scene, stage, turn, failed, truckVars, offer, tq, fq, gateVars, mail, orderVars>>

(* Then it reads the open hauls, drops the orders and trucks they name,    *)
(* solves, and publishes one assignment per matched truck.  A failed haul  *)
(* query names nobody.                                                     *)
Matchings(ts, os) ==
  {m \in UNION {[S -> os] : S \in SUBSET ts} : \A a, b \in DOMAIN m : m[a] = m[b] => a = b}
Match ==
  \E lost \in BOOLEAN :
    LET ts == round.trucks \ (IF lost THEN {} ELSE Hauling)
        os == round.orders \ Protected(lost)
    IN /\ round # NoRound /\ Acts(Assigner) /\ MayFail("match", lost)
       /\ \E m \in Matchings(ts, os) :
            /\ \A n \in Matchings(ts, os) : Cardinality(DOMAIN n) <= Cardinality(DOMAIN m)
            /\ offer' = [k \in Trucks |-> IF k \in DOMAIN m THEN Append(offer[k], m[k]) ELSE offer[k]]
       /\ round' = NoRound
       /\ UNCHANGED <<scene, stage, truckVars, tq, fq, gateVars, mail, orderVars>>

(***************************************************************************)
(* The run.                                                                *)
(***************************************************************************)
Tick ==
  /\ Running /\ turn \cap Alive = {} /\ turn' = Alive
  /\ UNCHANGED <<scene, stage, failed, truckVars, offer, tq, fq, gateVars, round, mail, orderVars>>

Horizon ==
  /\ stage = "run" /\ scene.closes /\ stage' = "horizon"
  /\ UNCHANGED <<scene, turn, failed, truckVars, offer, tq, fq, gateVars, round, mail, orderVars>>

(* The drain cap ends the run whatever is still in flight.                 *)
FinalStep ==
  /\ stage = "horizon" /\ turn \cap Alive = {} /\ stage' = "closing"
  /\ UNCHANGED <<scene, turn, failed, truckVars, offer, tq, fq, gateVars, round, mail, orderVars>>

(* close of a truck: cancel the open trip, end the idle record.            *)
TruckCloses(k) ==
  /\ stage = "closing" /\ k \in online
  /\ Published(k, ApplyTripTransitionAndNotify(Unsaid(trip[k]), "cancel", "none"))
  /\ online' = online \ {k} /\ idle' = idle \ {k}
  /\ UNCHANGED <<scene, stage, turn, failed, offer, tq, gateVars, round, orderVars, hauls>>

(* close of the writer: one last drain, whose failure is only logged.      *)
WriterCloses ==
  /\ stage = "closing" /\ mode = "service" /\ Writer \in live
  /\ \/ /\ doc' = [o \in Orders |-> ApplyEvents(doc[o], mail[o], TRUE)]
        /\ mail' = [o \in Orders |-> <<>>]
        /\ UNCHANGED <<failed, drained>>
     \/ MayFail("drain", TRUE) /\ drained' = FALSE /\ UNCHANGED <<doc, mail>>
  /\ live' = live \ {Writer}
  /\ UNCHANGED <<scene, stage, turn, truckVars, offer, tq, fq, gateVars, round>>

(* close of an order agent releases nothing.                               *)
OrderCloses(o) ==
  /\ stage = "closing" /\ mode = "agent" /\ o \in live
  /\ live' = live \ {o}
  /\ UNCHANGED <<scene, stage, turn, failed, truckVars, offer, tq, fq, gateVars, round, mail, doc, drained>>

(* bulk_cancel_nonterminal_orders, once everybody has closed.              *)
BulkCancel ==
  /\ stage = "closing" /\ online = {} /\ live \cap OrderAgents = {}
  /\ stage' = "ended"
  /\ doc' = [o \in Orders |-> IF doc[o].st \in Terminal THEN doc[o]
                              ELSE [doc[o] EXCEPT !.st = "cancelled"]]
  /\ UNCHANGED <<scene, turn, failed, truckVars, offer, tq, fq, gateVars, round, mail, live, drained>>

Init ==
  /\ scene \in Scenes /\ stage = "run" /\ turn = Agents /\ failed = FALSE
  /\ trip = [k \in Trucks |-> NoTrip] /\ idle = scene.trucks /\ online = scene.trucks
  /\ offer = [k \in Trucks |-> <<>>] /\ tq = [k \in Trucks |-> <<>>]
  /\ fq = [f \in Facilities |-> <<>>] /\ queue = [f \in Facilities |-> <<>>]
  /\ gate = [f \in Facilities |-> [g \in Gates |-> Free]]
  /\ ends = [f \in Facilities |-> {}] /\ round = NoRound
  /\ doc = [o \in Orders |-> [st |-> "created", why |-> "none"]]
  /\ mail = [o \in Orders |-> <<>>] /\ live = OrderAgents
  /\ hauls = [o \in Orders |-> 0] /\ delivered = {} /\ drained = TRUE

Next ==
  \/ \E k \in Trucks : \/ HandleAssignment(k) \/ TruckStep(k) \/ TruckWaits(k)
                       \/ TruckLeaves(k) \/ TruckCloses(k)
  \/ \E f \in Facilities : \E due \in SUBSET ends[f] : FacilityStep(f, due)
  \/ WriterStep \/ WriterCloses \/ ReadMarket \/ Match
  \/ \E o \in Orders : OrderAgentStep(o) \/ OrderCloses(o)
  \/ Tick \/ Horizon \/ FinalStep \/ BulkCancel

Spec == Init /\ [][Next]_vars

(***************************************************************************)
(* Properties.                                                             *)
(***************************************************************************)
Lifecycle == INSTANCE OrderLifecycle
  WITH book <- [o \in Orders |-> doc[o].st],
       shed <- {o \in Orders : Resurrectable(doc[o])}

(* The order documents live by OrderLifecycle in both modes: events folded *)
(* in batches, sweeps, jumps over lost events, failed reads and the bulk   *)
(* cancel never move a document back, nor out of completed.                *)
LifecycleSpec == Lifecycle!Spec

(* With the batch writer a haul that happened is never lost: once a trip   *)
(* completed, its order document is completed or the event is still on the *)
(* way, even when the sweep cancelled the order while the assignment was   *)
(* in flight; and the run does not end with it unrecorded.                 *)
DeliveredIsRecorded ==
  mode = "service" => \A o \in delivered :
    /\ doc[o].st = "completed" \/ "completed" \in Range(mail[o])
    /\ stage = "ended" /\ drained => doc[o].st = "completed"

(* The open-haul exclusion of the matching round works although the order  *)
(* documents lag: no order is ever hauled twice.                           *)
NoOrderHauledTwice == \A o \in Orders : hauls[o] <= 1

(* Facilities and trucks agree on every visit although they share only     *)
(* messages without a trip id: a truck is known at one place at most, a    *)
(* queued or served truck is known there until its completion message is   *)
(* on the way, and a truck known somewhere is on that visit.  And a gate   *)
(* in service has an end of service ahead (when there is a service time),  *)
(* so a truck never waits at a gate for a message nobody will send.        *)
Known(k) ==
  LET inMail == UNION {{<<f, "m", i>> : i \in {j \in DOMAIN fq[f] : fq[f][j].truck = k}} : f \in Facilities}
      inQueue == UNION {{<<f, "q", i>> : i \in {j \in DOMAIN queue[f] : queue[f][j].truck = k}} : f \in Facilities}
      atGate == UNION {{<<f, "g", g>> : g \in {h \in Gates : gate[f][h].truck = k}} : f \in Facilities}
  IN inMail \cup inQueue \cup atGate
Visiting == {"queued_for_pickup", "at_pickup_gate", "queued_for_dropoff", "at_dropoff_gate"}
VisitTracked ==
  /\ ServiceTime > 0 => \A f \in Facilities, g \in Gates : gate[f][g] # Free => g \in ends[f]
  /\ Running /\ ~failed => \A k \in online :
       /\ Cardinality(Known(k)) <= 1
       /\ trip[k].st \in Visiting =>
            Known(k) # {} \/ Range(tq[k]) \cap {"pickup_done", "dropoff_done"} # {}
       /\ Known(k) # {} => trip[k].st \in Visiting
=============================================================================
