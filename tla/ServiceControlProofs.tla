------------------------- MODULE ServiceControlProofs -------------------------
(***************************************************************************)
(* Proofs about the control plane, for any services, dependencies and      *)
(* projects, any number of commands, crashes and simulations.  ControlInv  *)
(* says what each command still has to do, and which key it has in         *)
(* transition, at every point where watchers, the status thread and the    *)
(* host may act beside it.  The second part is about the rides of          *)
(* RideHail.                                                               *)
(***************************************************************************)
EXTENDS ServiceControl, Rides, FiniteSetTheorems, SequenceTheorems, TLAPS

-----------------------------------------------------------------------------
(* Lists.                                                                  *)

Frames == [key : Services, looked : Nat]
Elems(s) == {s[i] : i \in 1 .. Len(s)}
KeysOn(s) == {s[i].key : i \in 1 .. Len(s)}

LEMMA TailOf ==
  ASSUME NEW S, NEW s \in Seq(S), s # <<>>
  PROVE  Head(s) \in S /\ Tail(s) \in Seq(S) /\ Elems(s) \subseteq Elems(Tail(s)) \cup {Head(s)}
<1>1. Len(s) \in Nat \ {0} /\ Head(s) = s[1] /\ s[1] \in S
  OBVIOUS
<1>2. Tail(s) \in Seq(S) /\ Len(Tail(s)) = Len(s) - 1 /\ \A i \in 1 .. Len(s) - 1 : Tail(s)[i] = s[i + 1]
  OBVIOUS
<1>3. ASSUME NEW i \in 1 .. Len(s), i # 1 PROVE s[i] \in Elems(Tail(s))
  <2>1. i - 1 \in 1 .. Len(s) - 1 /\ (i - 1) + 1 = i
    BY <1>1, <1>3
  <2>2. Tail(s)[i - 1] = s[i]
    BY <1>2, <2>1
  <2> QED BY <1>2, <2>1, <2>2 DEF Elems
<1> QED
  BY <1>1, <1>2, <1>3 DEF Elems

LEMMA TopOf ==
  ASSUME NEW s \in Seq(Frames), s # <<>>
  PROVE  /\ Last(s) \in Frames /\ Front(s) \in Seq(Frames)
         /\ KeysOn(s) \subseteq KeysOn(Front(s)) \cup {Last(s).key}
<1>1. Len(s) \in Nat \ {0} /\ Last(s) = s[Len(s)] /\ s[Len(s)] \in Frames
  BY DEF Last
<1>2. Front(s) \in Seq(Frames) /\ Len(Front(s)) = Len(s) - 1 /\ \A i \in 1 .. Len(s) - 1 : Front(s)[i] = s[i]
  <2> DEFINE l == Len(s) - 1
  <2>1. l \in Nat /\ 1 \in Int /\ l - 1 + 1 = l /\ \A i \in 1 .. l : s[i] \in Frames /\ 1 + i - 1 = i
    BY <1>1
  <2>2. /\ SubSeq(s, 1, l) \in Seq(Frames)
        /\ Len(SubSeq(s, 1, l)) = IF 1 <= l THEN l - 1 + 1 ELSE 0
        /\ \A i \in 1 .. l - 1 + 1 : SubSeq(s, 1, l)[i] = s[1 + i - 1]
    <3> HIDE DEF l
    <3>1. l \in Int
      BY <2>1
    <3> QED
      BY <2>1, <3>1, SubSeqProperties
  <2>3. Len(SubSeq(s, 1, l)) = l
    <3> HIDE DEF l
    <3> QED
      BY <2>1, <2>2
  <2> QED
    BY <2>1, <2>2, <2>3 DEF Front
<1> QED
  BY <1>1, <1>2 DEF KeysOn

LEMMA PushOn ==
  ASSUME NEW s \in Seq(Frames), NEW f \in Frames
  PROVE  /\ Append(s, f) \in Seq(Frames) /\ Append(s, f) # <<>>
         /\ KeysOn(s) \cup {f.key} \subseteq KeysOn(Append(s, f))
<1>1. Append(s, f) \in Seq(Frames) /\ Len(Append(s, f)) = Len(s) + 1 /\ Len(s) \in Nat
      /\ Append(s, f)[Len(s) + 1] = f /\ \A i \in 1 .. Len(s) : Append(s, f)[i] = s[i]
  OBVIOUS
<1> QED
  BY <1>1 DEF KeysOn

LEMMA OneOn ==
  ASSUME NEW k \in Services
  PROVE  /\ <<>> \in Seq(Services) /\ <<>> \in Seq(Frames)
         /\ <<k>> \in Seq(Services) /\ k \in Elems(<<k>>)
         /\ <<[key |-> k, looked |-> 0]>> \in Seq(Frames)
         /\ k \in KeysOn(<<[key |-> k, looked |-> 0]>>)
<1>1. [key |-> k, looked |-> 0] \in Frames
  BY DEF Frames
<1> QED
  BY <1>1 DEF Elems, KeysOn

-----------------------------------------------------------------------------
(* The inductive invariant.                                                *)

Planning == {"start", "start_backend", "run"}
Projects == {ProjectOf[k] : k \in Compose}
Plans ==
  [op : Planning, todo : Seq(Services), stack : Seq(Frames), deps : BOOLEAN, aborts : BOOLEAN,
   ok : BOOLEAN, launching : BOOLEAN, of : SUBSET Services]
StopAlls ==
  [op : {"stop_all"}, procs : SUBSET Services, projects : SUBSET Projects, simDone : BOOLEAN,
   ok : BOOLEAN]
Answers == Planning \cup {"stop", "stop_all", "stop_sim"}
Stops == [op : {"stop"}, of : SUBSET Services]
Results == [op : {"done"}, was : Answers, ok : BOOLEAN, of : SUBSET Keys]
Bare == [op : {"idle", "spawn", "settle", "stop_sim"}]
Commands == Plans \cup StopAlls \cup Stops \cup Results \cup Bare

States == [Keys -> Settled \cup Transitional]

Types ==
  /\ up \subseteq Services
  /\ states \in States
  /\ cmd \in Commands
  /\ status.at = "write" => status.probed \in {"RUNNING", "STOPPED"}

\* What a plan has still to bring up: the services not yet begun, and those on the stack
\* of the recursion.
Pending == Elems(cmd.todo) \cup KeysOn(cmd.stack)

\* A plan has everything it was asked for up, crashed since, or still before it.
PlanInv ==
  cmd.op \in Planning =>
    /\ cmd.launching => cmd.stack # <<>>
    /\ cmd.op = "run" => cmd.aborts /\ Services \subseteq up \cup lost \cup Pending
    /\ cmd.op # "run" /\ cmd.ok => cmd.of \subseteq up \cup lost \cup Pending

\* stop_all has everything that is up before it.
StopInv ==
  cmd.op = "stop_all" /\ cmd.ok =>
    up \subseteq cmd.procs \cup {k \in Compose : ProjectOf[k] \in cmd.projects}

\* The lock is held from the check for a running simulation to the spawn.
SpawnsAlone ==
  /\ \A p, q \in sims : p = q
  /\ cmd.op \in {"run", "spawn"} => sims = {}

\* The key in transition is the one the command works on.
Works(k) ==
  \/ k = Sim /\ cmd.op \in {"run", "spawn", "settle", "stop_sim"}
  \/ cmd.op \in Planning /\ cmd.launching /\ k = Last(cmd.stack).key
  \/ cmd.op = "stop" /\ k \in cmd.of
TransitionsAreOwn == \A k \in Keys : states[k] \in Transitional => Works(k)

ControlInv ==
  /\ Types /\ PlanInv /\ StopInv /\ SpawnsAlone /\ TransitionsAreOwn
  /\ SimulationHasBackend /\ ResultsAreTrue

-----------------------------------------------------------------------------
(* What follows from it at once.                                           *)

LEMMA Kinds ==
  ASSUME cmd \in Commands
  PROVE  /\ cmd.op \in Planning => cmd \in Plans
         /\ cmd.op = "stop_all" => cmd \in StopAlls
         /\ cmd.op = "stop" => cmd \in Stops
         /\ cmd.op = "done" => cmd \in Results
BY DEF Commands, Plans, StopAlls, Stops, Results, Bare, Planning

LEMMA NoKeyIsUnknown == Sim \in Keys /\ Services \subseteq Keys /\ Worker \in Services /\ Worker # Sim
BY ControlAssumption DEF Keys, Services

\* No command on a key: nothing is in transition.
LEMMA Quiet ==
  ASSUME Types, TransitionsAreOwn, cmd.op \in {"idle", "done", "stop_all"}
  PROVE  \A k \in Keys : states[k] \in Settled
BY DEF Types, TransitionsAreOwn, Works, States, Planning, Settled, Transitional

\* refresh_states leaves the keys in transition alone and puts no key in transition.
LEMMA Refreshed ==
  ASSUME Types, NEW seen
  PROVE  /\ refreshed(seen) \in States
         /\ \A k \in Keys : refreshed(seen)[k] \in Transitional => states[k] \in Transitional
<1>1. \A k \in Keys : probe(k) \in {"RUNNING", "STOPPED"}
  BY DEF probe
<1> QED
  BY <1>1, NoKeyIsUnknown DEF refreshed, Types, States, Settled, Transitional

LEMMA InitInv == Init => ControlInv
<1> SUFFICES ASSUME Init PROVE ControlInv
  OBVIOUS
<1>1. cmd = [op |-> "idle"] /\ cmd.op = "idle"
  BY DEF Init, Idle
<1>2. Types
  BY <1>1 DEF Init, Types, States, Settled, Commands, Bare, Resting
<1>3. SpawnsAlone /\ TransitionsAreOwn
  BY <1>1 DEF Init, SpawnsAlone, TransitionsAreOwn, Transitional
<1> QED
  BY <1>1, <1>2, <1>3 DEF ControlInv, PlanInv, StopInv, SimulationHasBackend, ResultsAreTrue, Planning

-----------------------------------------------------------------------------
(* A command that takes the lock.                                          *)

LEMMA OrderCoversServices ==
  Services \subseteq Elems(StartOrder)
<1>1. Range(StartOrder) = Services
  BY ControlAssumption, Zenon
<1>2. Range(StartOrder) = {StartOrder[i] : i \in DOMAIN StartOrder}
  BY DEF Range
<1>3. StartOrder \in Seq(Services)
  BY ControlAssumption, Zenon
<1>4. DOMAIN StartOrder = 1 .. Len(StartOrder)
  BY <1>3
<1> QED
  BY <1>1, <1>2, <1>4, Zenon DEF Elems

LEMMA FreshPlan ==
  ASSUME NEW op \in Planning, NEW todo \in Seq(Services), NEW deps \in BOOLEAN, NEW aborts \in BOOLEAN
  PROVE  /\ StartPlan(op, todo, deps, aborts) \in Plans
         /\ StartPlan(op, todo, deps, aborts).op = op
         /\ StartPlan(op, todo, deps, aborts).aborts = aborts
         /\ StartPlan(op, todo, deps, aborts).todo = todo
         /\ StartPlan(op, todo, deps, aborts).stack = <<>>
         /\ StartPlan(op, todo, deps, aborts).launching = FALSE
         /\ StartPlan(op, todo, deps, aborts).of = {}
<1>1. <<>> \in Seq(Frames)
  OBVIOUS
<1> QED
  BY <1>1 DEF StartPlan, Plans

LEMMA Taken ==
  ASSUME ControlInv, NEW c, Takes(c)
  PROVE  /\ cmd.op = "idle" /\ cmd' = c
         /\ UNCHANGED <<up, sims, spawned, clean, status>>
         /\ \A k \in Keys : states[k] \in Settled
<1>1. cmd = [op |-> "idle"] /\ cmd.op = "idle"
  BY DEF Takes, Idle
<1>2. \A k \in Keys : states[k] \in Settled
  BY <1>1, Quiet DEF ControlInv
<1> QED
  BY <1>1, <1>2 DEF Takes, host

LEMMA StartStep ==
  ASSUME ControlInv, NEW k \in Services, NEW deps \in BOOLEAN, Start(k, deps)
  PROVE  ControlInv'
<1> DEFINE c == StartPlan("start", <<k>>, deps, TRUE)
<1>1. c \in Plans /\ c.op = "start" /\ c.of = {} /\ c.launching = FALSE
  <2>1. PICK todo \in Seq(Services) : todo = <<k>>
    BY OneOn
  <2>2. "start" \in Planning
    BY DEF Planning
  <2>3. [op |-> "start", todo |-> todo, stack |-> <<>>, deps |-> deps, aborts |-> TRUE, ok |-> TRUE,
         launching |-> FALSE, of |-> {}] \in Plans
    BY <2>2, OneOn DEF Plans
  <2> QED
    BY <2>1, <2>3 DEF StartPlan
<1>2. /\ cmd' = c /\ UNCHANGED <<up, sims, status>> /\ states' = refreshed(up)
      /\ \A j \in Keys : states[j] \in Settled
  BY Taken DEF Start
<1> HIDE DEF c
<1>3. Types'
  BY <1>1, <1>2, Refreshed DEF ControlInv, Types, Commands
<1>4. TransitionsAreOwn'
  BY <1>2, Refreshed DEF ControlInv, TransitionsAreOwn, Settled, Transitional
<1>5. SpawnsAlone'
  BY <1>1, <1>2 DEF ControlInv, SpawnsAlone
<1> QED
  BY <1>1, <1>2, <1>3, <1>4, <1>5
     DEF ControlInv, PlanInv, StopInv, SimulationHasBackend, ResultsAreTrue

LEMMA StartBackendStep ==
  ASSUME ControlInv, StartBackend
  PROVE  ControlInv'
<1> DEFINE c == StartPlan("start_backend", StartOrder, FALSE, FALSE)
<1>1. c \in Plans /\ c.op = "start_backend" /\ c.of = {} /\ c.launching = FALSE
  <2>1. "start_backend" \in Planning /\ FALSE \in BOOLEAN
    BY DEF Planning
  <2>2. StartOrder \in Seq(Services)
    BY ControlAssumption
  <2>3. <<>> \in Seq(Frames)
    OBVIOUS
  <2> QED
    BY <2>1, <2>2, <2>3 DEF StartPlan, Plans
<1>2. /\ cmd' = c /\ UNCHANGED <<up, sims, status, states>>
      /\ \A j \in Keys : states[j] \in Settled
  BY Taken DEF StartBackend
<1> HIDE DEF c
<1>3. Types'
  BY <1>1, <1>2 DEF ControlInv, Types, Commands
<1>4. TransitionsAreOwn' /\ SpawnsAlone'
  BY <1>1, <1>2 DEF ControlInv, TransitionsAreOwn, Settled, Transitional, SpawnsAlone
<1> QED
  BY <1>1, <1>2, <1>3, <1>4
     DEF ControlInv, PlanInv, StopInv, SimulationHasBackend, ResultsAreTrue

LEMMA StopStep ==
  ASSUME ControlInv, NEW k \in Services, NEW force \in BOOLEAN, Stop(k, force)
  PROVE  ControlInv'
<1> DEFINE running == k \in up
           blocked == running /\ ~force /\ Dependents[k] \cap up # {}
           fresh == refreshed(up)
           c == IF running /\ ~blocked THEN [op |-> "stop", of |-> {k}] ELSE Done("stop", ~blocked, {k})
<1>1. /\ cmd' = c /\ UNCHANGED <<up, sims, status>>
      /\ states' = [fresh EXCEPT ![k] = IF ~running THEN "STOPPED" ELSE IF blocked THEN @ ELSE "STOPPING"]
      /\ \A j \in Keys : states[j] \in Settled
  BY Taken DEF Stop
<1>2. /\ fresh \in States /\ k \in Keys
      /\ \A j \in Keys : fresh[j] \notin Transitional
  BY <1>1, Refreshed, NoKeyIsUnknown DEF ControlInv, Settled, Transitional
<1>3. blocked \in BOOLEAN /\ running \in BOOLEAN
  OBVIOUS
<1>4. /\ c \in Commands /\ c.op \in {"stop", "done"}
      /\ c.op = "stop" => c.of = {k} /\ running /\ ~blocked
      /\ c.op = "done" => c.was = "stop" /\ c.of = {k} /\ (running => blocked) /\ c.ok = ~blocked
  <2>1. CASE running /\ ~blocked
    <3>1. c = [op |-> "stop", of |-> {k}]
      BY <2>1
    <3> HIDE DEF c, running, blocked
    <3> QED
      BY <2>1, <3>1 DEF Commands, Stops
  <2>2. CASE ~(running /\ ~blocked)
    <3>1. c = Done("stop", ~blocked, {k})
      BY <2>2
    <3> HIDE DEF c, running, blocked
    <3> QED
      BY <1>2, <1>3, <2>2, <3>1 DEF Commands, Results, Done, Answers
  <2> QED
    BY <2>1, <2>2
<1>5. ASSUME running, ~blocked PROVE c.op = "stop"
  BY <1>5
<1>6. running <=> k \in up
  OBVIOUS
<1> HIDE DEF c, running, blocked, fresh
<1>7. Types'
  BY <1>1, <1>2, <1>4 DEF ControlInv, Types, States, Settled, Transitional
<1>8. TransitionsAreOwn'
  <2> SUFFICES ASSUME NEW j \in Keys, states'[j] \in Transitional PROVE Works(j)'
    BY DEF TransitionsAreOwn
  <2>1. j = k
    BY <1>1, <1>2 DEF States
  <2>2. running /\ ~blocked
    BY <1>1, <1>2, <2>1 DEF States, Transitional
  <2> QED
    BY <1>1, <1>4, <1>5, <2>1, <2>2 DEF Works
<1>9. ResultsAreTrue'
  BY <1>1, <1>4, <1>6 DEF ResultsAreTrue
<1> QED
  BY <1>1, <1>4, <1>7, <1>8, <1>9
     DEF ControlInv, PlanInv, StopInv, SimulationHasBackend, SpawnsAlone, Planning

LEMMA StopAllStep ==
  ASSUME ControlInv, StopAll
  PROVE  ControlInv'
<1> DEFINE c == [op |-> "stop_all", procs |-> Process, projects |-> Projects, simDone |-> FALSE, ok |-> TRUE]
<1>1. c \in StopAlls /\ c.op = "stop_all" /\ c.procs = Process /\ c.projects = Projects
  BY DEF StopAlls, Services
<1>2. /\ cmd' = c /\ UNCHANGED <<up, sims, status, states>>
      /\ \A j \in Keys : states[j] \in Settled
  BY Taken DEF StopAll, Projects
<1> HIDE DEF c
<1>3. Types'
  BY <1>1, <1>2 DEF ControlInv, Types, Commands
<1>4. StopInv'
  BY <1>1, <1>2 DEF ControlInv, Types, StopInv, Services, Projects
<1>5. TransitionsAreOwn' /\ SpawnsAlone'
  BY <1>1, <1>2 DEF ControlInv, TransitionsAreOwn, Settled, Transitional, SpawnsAlone
<1> QED
  BY <1>1, <1>2, <1>3, <1>4, <1>5
     DEF ControlInv, PlanInv, SimulationHasBackend, ResultsAreTrue, Planning

LEMMA RunStep ==
  ASSUME ControlInv, RunSimulation
  PROVE  ControlInv'
<1>1. CASE isSimulationRunning
  <2> DEFINE c == Done("run", FALSE, {})
  <2>1. c \in Results /\ c.op = "done" /\ c.ok = FALSE
    BY DEF Results, Done, Answers, Planning
  <2>2. /\ cmd' = c /\ UNCHANGED <<up, sims, status, states>>
        /\ \A j \in Keys : states[j] \in Settled
    BY <1>1, Taken DEF RunSimulation
  <2> HIDE DEF c
  <2>3. Types'
    BY <2>1, <2>2 DEF ControlInv, Types, Commands
  <2>4. TransitionsAreOwn' /\ SpawnsAlone'
    BY <2>1, <2>2 DEF ControlInv, TransitionsAreOwn, Settled, Transitional, SpawnsAlone
  <2> QED
    BY <2>1, <2>2, <2>3, <2>4
       DEF ControlInv, PlanInv, StopInv, SimulationHasBackend, ResultsAreTrue, Planning
<1>2. CASE ~isSimulationRunning
  <2> DEFINE c == StartPlan("run", StartOrder, FALSE, TRUE)
  <2>1. /\ c \in Plans /\ c.op = "run" /\ c.aborts = TRUE /\ c.launching = FALSE
        /\ c.todo = StartOrder /\ c.stack = <<>>
    BY FreshPlan, ControlAssumption DEF Planning
  <2>2. /\ cmd' = c /\ UNCHANGED <<up, sims, status>>
        /\ states' = [states EXCEPT ![Sim] = "STARTING"]
        /\ \A j \in Keys : states[j] \in Settled
    BY <1>2, Taken DEF RunSimulation
  <2> HIDE DEF c
  <2>3. sims = {}
    BY <1>2 DEF isSimulationRunning, simulationAlive
  <2>4. Services \subseteq Elems(StartOrder)
    BY OrderCoversServices
  <2>5. Types'
    BY <2>1, <2>2 DEF ControlInv, Types, Commands, States, Settled, Transitional
  <2>6. PlanInv'
    BY <2>1, <2>2, <2>4 DEF PlanInv, Pending
  <2>7. TransitionsAreOwn'
    BY <2>1, <2>2 DEF ControlInv, Types, States, TransitionsAreOwn, Works, Settled, Transitional
  <2> QED
    BY <2>1, <2>2, <2>3, <2>5, <2>6, <2>7
       DEF ControlInv, StopInv, SimulationHasBackend, ResultsAreTrue, SpawnsAlone
<1> QED
  BY <1>1, <1>2

LEMMA StopSimulationStep ==
  ASSUME ControlInv, StopSimulation
  PROVE  ControlInv'
<1> DEFINE c == IF simulationAlive THEN [op |-> "stop_sim"] ELSE Done("stop_sim", TRUE, {Sim})
<1>1. /\ cmd' = c /\ UNCHANGED <<up, sims, status>>
      /\ states' = [states EXCEPT ![Sim] = IF simulationAlive THEN "STOPPING" ELSE "STOPPED"]
      /\ \A j \in Keys : states[j] \in Settled
  <2>1. Takes(c) /\ states' = [states EXCEPT ![Sim] = IF simulationAlive THEN "STOPPING" ELSE "STOPPED"]
    BY DEF StopSimulation
  <2> HIDE DEF c
  <2> QED
    BY <2>1, Taken
<1>2. CASE simulationAlive
  <2>1. cmd' \in Bare /\ cmd'.op = "stop_sim"
    BY <1>1, <1>2 DEF Bare
  <2>2. Types' /\ TransitionsAreOwn'
    BY <1>1, <1>2, <2>1 DEF ControlInv, Types, Commands, States, TransitionsAreOwn, Works, Settled,
       Transitional
  <2> QED
    BY <1>1, <2>1, <2>2
       DEF ControlInv, PlanInv, StopInv, SimulationHasBackend, ResultsAreTrue, SpawnsAlone, Planning
<1>3. CASE ~simulationAlive
  <2>1. cmd' \in Results /\ cmd'.op = "done" /\ cmd'.was = "stop_sim" /\ sims' = {}
    BY <1>1, <1>3, NoKeyIsUnknown DEF Results, Done, simulationAlive, Answers
  <2>2. Types' /\ TransitionsAreOwn'
    BY <1>1, <1>3, <2>1 DEF ControlInv, Types, Commands, States, TransitionsAreOwn, Works, Settled,
       Transitional
  <2> QED
    BY <1>1, <2>1, <2>2
       DEF ControlInv, PlanInv, StopInv, SimulationHasBackend, ResultsAreTrue, SpawnsAlone, Planning
<1> QED
  BY <1>2, <1>3

-----------------------------------------------------------------------------
(* The steps of a plan.                                                    *)

\* Where a plan stands: nothing is in transition but the launched key, and Sim for a run.
LEMMA Planned ==
  ASSUME ControlInv, cmd.op \in Planning
  PROVE  /\ cmd \in Plans /\ states \in States
         /\ \A k \in Keys : states[k] \in Transitional =>
              (k = Sim /\ cmd.op = "run") \/ (cmd.launching /\ k = Last(cmd.stack).key)
         /\ cmd.op = "run" => sims = {}
<1>1. cmd \in Plans
  BY Kinds DEF ControlInv, Types
<1> QED
  BY <1>1 DEF ControlInv, Types, TransitionsAreOwn, Works, SpawnsAlone, Planning

\* A step of a plan that goes on: what is left to show.
LEMMA PlanGoesOn ==
  ASSUME ControlInv, cmd.op \in Planning, cmd' \in Plans, cmd'.op = cmd.op,
         up' \in SUBSET Services, states' \in States, UNCHANGED <<sims, status>>,
         PlanInv', TransitionsAreOwn'
  PROVE  ControlInv'
<1>1. Types'
  BY DEF ControlInv, Types, Commands
<1> QED
  BY <1>1
     DEF ControlInv, StopInv, SpawnsAlone, SimulationHasBackend, ResultsAreTrue, Planning

LEMMA PlanNextStep ==
  ASSUME ControlInv, PlanNext
  PROVE  ControlInv'
<1> DEFINE k == Head(cmd.todo)
           onto == IF k \in up THEN <<>> ELSE <<[key |-> k, looked |-> 0]>>
<1>1. cmd.op \in Planning /\ cmd.todo # <<>> /\ cmd.stack = <<>>
  BY DEF PlanNext, Planning
<1>2. cmd \in Plans /\ cmd.todo \in Seq(Services) /\ cmd.launching = FALSE
  BY <1>1, Planned DEF ControlInv, PlanInv, Plans
<1>3. /\ cmd' = [cmd EXCEPT !.todo = Tail(@), !.of = @ \cup {k}, !.stack = onto]
      /\ states' = refreshed(up) /\ UNCHANGED <<up, sims, status, lost>>
  BY DEF PlanNext, host
<1>4. /\ k \in Services /\ Tail(cmd.todo) \in Seq(Services)
      /\ Elems(cmd.todo) \subseteq Elems(Tail(cmd.todo)) \cup {k}
  BY <1>1, <1>2, TailOf
<1>5. onto \in Seq(Frames) /\ (k \in up \/ k \in KeysOn(onto))
  <2>1. CASE k \in up
    BY <2>1, <1>4, OneOn
  <2>2. CASE k \notin up
    BY <2>2, <1>4, OneOn
  <2> QED
    BY <2>1, <2>2
<1> HIDE DEF k, onto
<1>6. /\ cmd' \in Plans /\ cmd'.op = cmd.op /\ cmd'.todo = Tail(cmd.todo) /\ cmd'.of = cmd.of \cup {k}
      /\ cmd'.stack = onto /\ cmd'.launching = FALSE /\ cmd'.aborts = cmd.aborts /\ cmd'.ok = cmd.ok
  BY <1>2, <1>3, <1>4, <1>5 DEF Plans
<1>7. KeysOn(<<>>) = {}
  BY DEF KeysOn
<1>8. Pending \subseteq up \cup Pending'
  BY <1>1, <1>4, <1>5, <1>6, <1>7 DEF Pending
<1>9. k \in up \cup Pending'
  BY <1>5, <1>6 DEF Pending
<1>10. PlanInv'
  BY <1>1, <1>3, <1>6, <1>8, <1>9 DEF ControlInv, PlanInv
<1>11. states' \in States /\ TransitionsAreOwn'
  BY <1>1, <1>2, <1>3, <1>6, Refreshed, Planned DEF ControlInv, TransitionsAreOwn, Works
<1> QED
  BY <1>1, <1>3, <1>6, <1>10, <1>11, PlanGoesOn DEF ControlInv, Types

LEMMA LookAtDependencyStep ==
  ASSUME ControlInv, LookAtDependency
  PROVE  ControlInv'
<1> DEFINE top == Last(cmd.stack)
           dep == DependsOn[top.key][top.looked + 1]
           below == Append(Front(cmd.stack), [top EXCEPT !.looked = @ + 1])
           onto == IF dep \in up THEN below ELSE Append(below, [key |-> dep, looked |-> 0])
<1>1. cmd.op \in Planning /\ cmd.stack # <<>> /\ ~cmd.launching /\ top.looked < Len(DependsOn[top.key])
  BY DEF LookAtDependency, Planning
<1>2. cmd \in Plans /\ cmd.stack \in Seq(Frames) /\ cmd.launching = FALSE
  BY <1>1, Planned DEF Plans
<1>3. /\ cmd' = [cmd EXCEPT !.stack = onto]
      /\ states' = IF dep \in up THEN states ELSE refreshed(up)
      /\ UNCHANGED <<up, sims, status, lost>>
  BY DEF LookAtDependency, host
<1>4. /\ top \in Frames /\ Front(cmd.stack) \in Seq(Frames)
      /\ KeysOn(cmd.stack) \subseteq KeysOn(Front(cmd.stack)) \cup {top.key}
  BY <1>1, <1>2, TopOf
<1>5. dep \in Services
  BY <1>1, <1>4, ControlAssumption DEF Frames
<1>6. PICK looked \in Frames : looked = [top EXCEPT !.looked = @ + 1] /\ looked.key = top.key
  <2> HIDE DEF top
  <2>1. top.looked + 1 \in Nat /\ [top EXCEPT !.looked = @ + 1] = [key |-> top.key, looked |-> top.looked + 1]
    BY <1>4 DEF Frames
  <2>2. [key |-> top.key, looked |-> top.looked + 1] \in Frames
    BY <1>4, <2>1 DEF Frames
  <2> QED
    BY <2>1, <2>2
<1>7. below \in Seq(Frames) /\ below # <<>> /\ KeysOn(cmd.stack) \subseteq KeysOn(below)
  BY <1>4, <1>6, PushOn
<1> HIDE DEF below
<1>8. onto \in Seq(Frames) /\ onto # <<>> /\ KeysOn(below) \subseteq KeysOn(onto)
  <2>1. PICK f \in Frames : f = [key |-> dep, looked |-> 0]
    BY <1>5 DEF Frames
  <2> HIDE DEF dep
  <2> QED
    BY <1>7, <2>1, PushOn
<1> HIDE DEF top, dep, onto
<1>9. /\ cmd' \in Plans /\ cmd'.op = cmd.op /\ cmd'.todo = cmd.todo /\ cmd'.of = cmd.of
      /\ cmd'.stack = onto /\ cmd'.launching = FALSE /\ cmd'.aborts = cmd.aborts /\ cmd'.ok = cmd.ok
  BY <1>2, <1>3, <1>8 DEF Plans
<1>10. Pending \subseteq Pending'
  BY <1>7, <1>8, <1>9 DEF Pending
<1>11. PlanInv'
  BY <1>1, <1>3, <1>9, <1>10 DEF ControlInv, PlanInv
<1>12. states' \in States /\ TransitionsAreOwn'
  BY <1>1, <1>2, <1>3, <1>9, Refreshed, Planned DEF ControlInv, TransitionsAreOwn, Works
<1> QED
  BY <1>1, <1>3, <1>9, <1>11, <1>12, PlanGoesOn DEF ControlInv, Types

LEMMA LaunchStep ==
  ASSUME ControlInv, Launch
  PROVE  ControlInv'
<1> DEFINE k == Last(cmd.stack).key
<1>1. cmd.op \in Planning /\ cmd.stack # <<>> /\ ~cmd.launching
  BY DEF Launch, Planning
<1>2. cmd \in Plans /\ cmd.stack \in Seq(Frames) /\ states \in States
  BY <1>1, Planned DEF Plans
<1>3. /\ cmd' = [cmd EXCEPT !.launching = TRUE]
      /\ states' = [states EXCEPT ![k] = "STARTING"]
      /\ UNCHANGED <<up, sims, status, lost>>
  BY DEF Launch, host
<1>4. /\ cmd' \in Plans /\ cmd'.op = cmd.op /\ cmd'.todo = cmd.todo /\ cmd'.of = cmd.of
      /\ cmd'.stack = cmd.stack /\ cmd'.launching = TRUE /\ cmd'.aborts = cmd.aborts /\ cmd'.ok = cmd.ok
  BY <1>2, <1>3 DEF Plans
<1>5. PlanInv'
  BY <1>1, <1>3, <1>4 DEF ControlInv, PlanInv, Pending
<1>6. states' \in States
  BY <1>2, <1>3 DEF States, Settled, Transitional
<1>7. TransitionsAreOwn'
  <2> SUFFICES ASSUME NEW j \in Keys, states'[j] \in Transitional PROVE Works(j)'
    BY DEF TransitionsAreOwn
  <2>1. CASE j = k
    BY <1>1, <1>4, <2>1 DEF Works
  <2>2. CASE j # k
    <3>1. states[j] \in Transitional
      BY <1>2, <1>3, <2>2 DEF States
    <3> QED
      BY <1>1, <1>4, <3>1, Planned DEF Works
  <2> QED
    BY <2>1, <2>2
<1> QED
  BY <1>1, <1>3, <1>4, <1>5, <1>6, <1>7, PlanGoesOn DEF ControlInv, Types

LEMMA LaunchEndsStep ==
  ASSUME ControlInv, NEW ok \in BOOLEAN, LaunchEnds(ok)
  PROVE  ControlInv'
<1> DEFINE k == Last(cmd.stack).key
           rest == IF ok THEN Front(cmd.stack) ELSE <<>>
<1>1. cmd.op \in Planning /\ cmd.stack # <<>> /\ cmd.launching
  BY DEF LaunchEnds, Planning
<1>2. /\ cmd \in Plans /\ cmd.stack \in Seq(Frames) /\ states \in States
      /\ cmd.ok \in BOOLEAN /\ cmd.aborts \in BOOLEAN
  BY <1>1, Planned DEF Plans
<1>3. /\ up' \in comesUp(k, ok)
      /\ lost' = IF ok THEN lost \ {k} ELSE lost
      /\ states' = [states EXCEPT ![k] = IF ok THEN "RUNNING" ELSE "FAILED",
                                  ![Sim] = IF GoesOn(ok) \/ cmd.op # "run" THEN @ ELSE "FAILED"]
      /\ cmd' = IF GoesOn(ok) THEN [cmd EXCEPT !.launching = FALSE, !.ok = @ /\ ok, !.stack = rest]
                ELSE Done(cmd.op, FALSE, {})
      /\ UNCHANGED <<sims, status>>
  BY DEF LaunchEnds
<1>4. /\ k \in Services /\ Front(cmd.stack) \in Seq(Frames)
      /\ KeysOn(cmd.stack) \subseteq KeysOn(Front(cmd.stack)) \cup {k}
  BY <1>1, <1>2, TopOf DEF Frames
<1>5. /\ up \subseteq up' /\ up' \in SUBSET Services /\ (ok => k \in up')
      /\ up \cup lost \subseteq up' \cup lost'
  BY <1>3, <1>4 DEF comesUp, ControlInv, Types
<1>6. rest \in Seq(Frames) /\ (ok => KeysOn(cmd.stack) \subseteq KeysOn(rest) \cup {k})
  BY <1>4, OneOn
<1> HIDE DEF k, rest
<1>7. k # Sim /\ k \in Keys /\ Sim \in Keys
  BY <1>4, NoKeyIsUnknown, ControlAssumption DEF Keys
<1>8. /\ states' \in States
      /\ \A j \in Keys : states'[j] \in Transitional =>
           states[j] \in Transitional /\ j # k /\ (cmd.op = "run" => j # Sim \/ GoesOn(ok))
  BY <1>2, <1>3, <1>7 DEF States, Settled, Transitional
<1>9. \A j \in Keys : states'[j] \in Transitional => j = Sim /\ cmd.op = "run" /\ GoesOn(ok)
  BY <1>1, <1>8, Planned DEF k
<1>10. CASE GoesOn(ok)
  <2>1. /\ cmd' \in Plans /\ cmd'.op = cmd.op /\ cmd'.todo = cmd.todo /\ cmd'.of = cmd.of
        /\ cmd'.stack = rest /\ cmd'.launching = FALSE /\ cmd'.aborts = cmd.aborts /\ cmd'.ok = (cmd.ok /\ ok)
    BY <1>2, <1>3, <1>6, <1>10 DEF Plans
  <2>2. cmd.aborts => ok
    BY <1>10 DEF GoesOn
  <2>3. ok => Pending \subseteq Pending' \cup up'
    BY <1>5, <1>6, <2>1 DEF Pending
  <2>4. PlanInv'
    BY <1>1, <1>5, <2>1, <2>2, <2>3 DEF ControlInv, PlanInv
  <2>5. TransitionsAreOwn'
    BY <1>9, <2>1 DEF TransitionsAreOwn, Works
  <2> QED
    BY <1>1, <1>3, <1>5, <1>8, <2>1, <2>4, <2>5, PlanGoesOn
<1>11. CASE ~GoesOn(ok)
  <2>1. cmd' = Done(cmd.op, FALSE, {})
    BY <1>3, <1>11
  <2>2. cmd' \in Results /\ cmd'.op = "done" /\ cmd'.ok = FALSE
    BY <1>1, <2>1 DEF Results, Done, Answers
  <2>3. Types'
    BY <1>3, <1>5, <1>8, <2>2 DEF ControlInv, Types, Commands
  <2>4. TransitionsAreOwn'
    BY <1>9, <1>11 DEF TransitionsAreOwn
  <2> QED
    BY <1>3, <2>2, <2>3, <2>4
       DEF ControlInv, PlanInv, StopInv, SpawnsAlone, SimulationHasBackend, ResultsAreTrue, Planning
<1> QED
  BY <1>10, <1>11

LEMMA StartEndsStep ==
  ASSUME ControlInv, StartEnds
  PROVE  ControlInv'
<1>1. /\ cmd.op \in {"start", "start_backend"} /\ cmd.op \in Planning
      /\ cmd.todo = <<>> /\ cmd.stack = <<>>
      /\ cmd' = Done(cmd.op, cmd.ok, cmd.of)
      /\ UNCHANGED <<up, sims, states, status, lost>>
  BY DEF StartEnds, host, Planning
<1>2. cmd \in Plans /\ cmd.ok \in BOOLEAN /\ cmd.of \in SUBSET Services /\ cmd.launching = FALSE
  BY <1>1, Planned DEF Plans, ControlInv, PlanInv
<1>3. Pending = {}
  BY <1>1 DEF Pending, Elems, KeysOn
<1>4. cmd' \in Results /\ cmd'.op = "done" /\ cmd'.was = cmd.op /\ cmd'.ok = cmd.ok /\ cmd'.of = cmd.of
  BY <1>1, <1>2, NoKeyIsUnknown DEF Results, Done, Answers
<1>5. Types'
  BY <1>1, <1>4 DEF ControlInv, Types, Commands
<1>6. TransitionsAreOwn'
  BY <1>1, <1>2, Planned DEF TransitionsAreOwn
<1>7. ResultsAreTrue'
  <2>1. cmd.ok => cmd.of \subseteq up \cup lost
    BY <1>1, <1>3 DEF ControlInv, PlanInv
  <2> QED
    BY <1>1, <1>4, <2>1 DEF ResultsAreTrue
<1> QED
  BY <1>1, <1>4, <1>5, <1>6, <1>7
     DEF ControlInv, PlanInv, StopInv, SpawnsAlone, SimulationHasBackend, Planning

-----------------------------------------------------------------------------
(* A run: the ping, the spawn and the two seconds after it.                *)

LEMMA RunPlanDone ==
  ASSUME ControlInv, cmd.op = "run", cmd.todo = <<>>, cmd.stack = <<>>
  PROVE  /\ cmd \in Plans /\ cmd.launching = FALSE /\ cmd.aborts = TRUE
         /\ Services \subseteq up \cup lost /\ sims = {}
         /\ \A k \in Keys : states[k] \in Transitional => k = Sim
<1>1. cmd.op \in Planning
  BY DEF Planning
<1>2. Pending = {}
  BY DEF Pending, Elems, KeysOn
<1> QED
  BY <1>1, <1>2, Planned DEF ControlInv, PlanInv, Plans

\* The command goes on to the spawn.
LEMMA ToSpawn ==
  ASSUME ControlInv, cmd.op = "run", cmd.todo = <<>>, cmd.stack = <<>>, cmd' = [op |-> "spawn"],
         UNCHANGED <<up, sims, states, status, lost>>
  PROVE  ControlInv'
<1>1. cmd' \in Bare /\ cmd'.op = "spawn"
  BY DEF Bare
<1>2. Types'
  BY <1>1 DEF ControlInv, Types, Commands
<1>3. TransitionsAreOwn'
  BY <1>1, RunPlanDone DEF TransitionsAreOwn, Works
<1>4. SpawnsAlone' /\ SimulationHasBackend'
  BY <1>1, RunPlanDone DEF SpawnsAlone, SimulationHasBackend
<1> QED
  BY <1>1, <1>2, <1>3, <1>4 DEF ControlInv, PlanInv, StopInv, ResultsAreTrue, Planning

LEMMA PingWorkerStep ==
  ASSUME ControlInv, NEW pong \in BOOLEAN, PingWorker(pong)
  PROVE  ControlInv'
<1>1. cmd.op = "run" /\ cmd.todo = <<>> /\ cmd.stack = <<>> /\ UNCHANGED <<sims, status, lost>>
  BY DEF PingWorker
<1>2. CASE pong
  BY <1>1, <1>2, ToSpawn DEF PingWorker
<1>3. CASE ~pong
  <2>1. /\ up' = up \ {Worker} /\ states' = [states EXCEPT ![Worker] = "STOPPED"]
        /\ cmd' = [cmd EXCEPT !.todo = <<Worker>>, !.deps = TRUE]
    BY <1>3 DEF PingWorker
  <2>2. /\ cmd \in Plans /\ cmd.launching = FALSE /\ cmd.aborts = TRUE /\ cmd.op \in Planning
        /\ Services \subseteq up \cup lost /\ states \in States
        /\ \A k \in Keys : states[k] \in Transitional => k = Sim
    BY <1>1, RunPlanDone DEF ControlInv, Types, Planning
  <2>3. Worker \in Services /\ <<Worker>> \in Seq(Services) /\ Worker \in Elems(<<Worker>>)
    BY NoKeyIsUnknown, OneOn
  <2>4. PICK todo \in Seq(Services) : todo = <<Worker>>
    BY <2>3
  <2>5. /\ cmd' \in Plans /\ cmd'.op = "run" /\ cmd'.todo = todo /\ cmd'.stack = <<>>
        /\ cmd'.launching = FALSE /\ cmd'.aborts = TRUE
    BY <1>1, <2>1, <2>2, <2>4 DEF Plans
  <2>6. PlanInv'
    BY <1>1, <2>1, <2>2, <2>3, <2>4, <2>5 DEF PlanInv, Pending
  <2>7. states' \in States /\ TransitionsAreOwn'
    BY <2>1, <2>2, <2>5 DEF States, Settled, Transitional, TransitionsAreOwn, Works
  <2>8. up' \in SUBSET Services
    BY <2>1 DEF ControlInv, Types
  <2> QED
    BY <1>1, <2>2, <2>5, <2>6, <2>7, <2>8, PlanGoesOn
<1> QED
  BY <1>2, <1>3

LEMMA RestartedWorkerStep ==
  ASSUME ControlInv, RestartedWorker
  PROVE  ControlInv'
BY ToSpawn DEF RestartedWorker, host

LEMMA SpawnStep ==
  ASSUME ControlInv, Spawn
  PROVE  ControlInv'
<1>1. /\ cmd.op = "spawn" /\ sims' = sims \cup {spawned + 1} /\ cmd' = [op |-> "settle"]
      /\ UNCHANGED <<up, states, status, lost>>
  BY DEF Spawn
<1>2. cmd' \in Bare /\ cmd'.op = "settle"
  BY <1>1 DEF Bare
<1>3. Types'
  BY <1>1, <1>2 DEF ControlInv, Types, Commands
<1>4. TransitionsAreOwn'
  BY <1>1, <1>2 DEF ControlInv, TransitionsAreOwn, Works, Planning
<1>5. SpawnsAlone'
  <2>1. sims = {}
    BY <1>1 DEF ControlInv, SpawnsAlone
  <2> QED
    BY <1>1, <1>2, <2>1 DEF SpawnsAlone
<1> QED
  BY <1>2, <1>3, <1>4, <1>5
     DEF ControlInv, PlanInv, StopInv, SimulationHasBackend, ResultsAreTrue, Planning

LEMMA SettleStep ==
  ASSUME ControlInv, Settle
  PROVE  ControlInv'
<1> DEFINE alive == proc \in sims
<1>1. /\ cmd.op = "settle" /\ cmd' = Done("run", alive, {Sim})
      /\ states' = [states EXCEPT ![Sim] = IF alive THEN "RUNNING" ELSE "FAILED"]
      /\ sims' = IF alive THEN sims ELSE {}
      /\ UNCHANGED <<up, status, lost>>
  BY DEF Settle
<1>2. alive \in BOOLEAN
  OBVIOUS
<1> HIDE DEF alive
<1>3. cmd' \in Results /\ cmd'.op = "done" /\ cmd'.was = "run"
  BY <1>1, <1>2, NoKeyIsUnknown DEF Results, Done, Answers, Planning
<1>4. Types'
  BY <1>1, <1>3 DEF ControlInv, Types, Commands, States, Settled, Transitional
<1>5. TransitionsAreOwn'
  BY <1>1, NoKeyIsUnknown
     DEF ControlInv, Types, TransitionsAreOwn, Works, States, Transitional, Planning
<1> QED
  BY <1>1, <1>3, <1>4, <1>5
     DEF ControlInv, PlanInv, StopInv, SpawnsAlone, SimulationHasBackend, ResultsAreTrue, Planning

LEMMA StopSimulationEndsStep ==
  ASSUME ControlInv, NEW ok \in BOOLEAN, StopSimulationEnds(ok)
  PROVE  ControlInv'
<1>1. /\ cmd.op = "stop_sim" /\ cmd' = Done("stop_sim", ok, {Sim})
      /\ states' = [states EXCEPT ![Sim] = IF ok THEN "STOPPED" ELSE "FAILED"]
      /\ sims' = IF ok THEN {} ELSE sims
      /\ UNCHANGED <<up, status, lost>>
  BY DEF StopSimulationEnds
<1>2. cmd' \in Results /\ cmd'.op = "done" /\ cmd'.was = "stop_sim" /\ cmd'.ok = ok
  BY <1>1, NoKeyIsUnknown DEF Results, Done, Answers
<1>3. Types'
  BY <1>1, <1>2 DEF ControlInv, Types, Commands, States, Settled, Transitional
<1>4. TransitionsAreOwn'
  BY <1>1, NoKeyIsUnknown
     DEF ControlInv, Types, TransitionsAreOwn, Works, States, Transitional, Planning
<1> QED
  BY <1>1, <1>2, <1>3, <1>4
     DEF ControlInv, PlanInv, StopInv, SpawnsAlone, SimulationHasBackend, ResultsAreTrue, Planning

-----------------------------------------------------------------------------
(* The stops.                                                              *)

LEMMA StopEndsStep ==
  ASSUME ControlInv, NEW ok \in BOOLEAN, StopEnds(ok)
  PROVE  ControlInv'
<1>1. /\ cmd.op = "stop" /\ cmd' = Done("stop", ok, cmd.of)
      /\ up' = IF ok THEN up \ cmd.of ELSE up
      /\ states' = [k \in Keys |-> IF k \notin cmd.of THEN states[k]
                                   ELSE IF ok THEN "STOPPED" ELSE "FAILED"]
      /\ UNCHANGED <<sims, status, lost>>
  BY DEF StopEnds
<1>2. cmd \in Stops /\ cmd.of \in SUBSET Services
  BY <1>1, Kinds DEF ControlInv, Types, Stops
<1>3. cmd' \in Results /\ cmd'.op = "done" /\ cmd'.was = "stop" /\ cmd'.ok = ok /\ cmd'.of = cmd.of
  BY <1>1, <1>2, NoKeyIsUnknown DEF Results, Done, Answers
<1>4. Types'
  BY <1>1, <1>3 DEF ControlInv, Types, Commands, States, Settled, Transitional
<1>5. TransitionsAreOwn'
  BY <1>1 DEF ControlInv, Types, TransitionsAreOwn, Works, States, Transitional, Planning
<1> QED
  BY <1>1, <1>3, <1>4, <1>5
     DEF ControlInv, PlanInv, StopInv, SpawnsAlone, SimulationHasBackend, ResultsAreTrue, Planning

\* A step of stop_all that goes on: what is left to show.
LEMMA StopAllGoesOn ==
  ASSUME ControlInv, cmd.op = "stop_all", cmd' \in StopAlls,
         up' \in SUBSET Services, states' \in States, UNCHANGED status,
         \A p, q \in sims' : p = q,
         \A k \in Keys : states'[k] \in Settled,
         StopInv'
  PROVE  ControlInv'
<1>1. cmd'.op = "stop_all"
  BY DEF StopAlls
<1>2. Types'
  BY DEF ControlInv, Types, Commands
<1>3. TransitionsAreOwn'
  BY DEF TransitionsAreOwn, Settled, Transitional
<1> QED
  BY <1>1, <1>2, <1>3
     DEF ControlInv, PlanInv, SpawnsAlone, SimulationHasBackend, ResultsAreTrue, Planning

LEMMA StopAllSimulationStep ==
  ASSUME ControlInv, NEW ok \in BOOLEAN, StopAllSimulation(ok)
  PROVE  ControlInv'
<1>1. /\ cmd.op = "stop_all" /\ sims' = IF ok THEN {} ELSE sims
      /\ cmd' = [cmd EXCEPT !.simDone = TRUE, !.ok = @ /\ ok]
      /\ UNCHANGED <<up, states, status>>
  BY DEF StopAllSimulation
<1>2. cmd \in StopAlls /\ \A k \in Keys : states[k] \in Settled
  BY <1>1, Kinds, Quiet DEF ControlInv, Types
<1>3. /\ cmd' \in StopAlls /\ cmd'.procs = cmd.procs /\ cmd'.projects = cmd.projects
      /\ cmd'.ok = (cmd.ok /\ ok)
  BY <1>1, <1>2 DEF StopAlls
<1>4. StopInv'
  BY <1>1, <1>3 DEF ControlInv, StopInv
<1> QED
  BY <1>1, <1>2, <1>3, <1>4, StopAllGoesOn DEF ControlInv, Types, SpawnsAlone

LEMMA StopAllProcessStep ==
  ASSUME ControlInv, NEW ok \in BOOLEAN, StopAllProcess(ok)
  PROVE  ControlInv'
<1> DEFINE k == LatestOf(cmd.procs)
<1>1. /\ cmd.op = "stop_all" /\ up' = IF ok THEN up \ {k} ELSE up
      /\ states' = [refreshed(up) EXCEPT ![k] = IF ok THEN "STOPPED" ELSE "FAILED"]
      /\ cmd' = [cmd EXCEPT !.procs = @ \ {k}, !.ok = @ /\ ok]
      /\ UNCHANGED <<sims, status>>
  BY DEF StopAllProcess
<1>2. cmd \in StopAlls /\ \A j \in Keys : states[j] \in Settled
  BY <1>1, Kinds, Quiet DEF ControlInv, Types
<1> HIDE DEF k
<1>3. /\ cmd' \in StopAlls /\ cmd'.op = cmd.op /\ cmd'.procs = cmd.procs \ {k}
      /\ cmd'.projects = cmd.projects /\ cmd'.ok = (cmd.ok /\ ok)
  BY <1>1, <1>2 DEF StopAlls
<1>4. StopInv'
  BY <1>1, <1>3 DEF ControlInv, StopInv
<1>5. refreshed(up) \in States /\ \A j \in Keys : refreshed(up)[j] \in Settled
  <2>1. refreshed(up) \in States /\ \A j \in Keys : refreshed(up)[j] \notin Transitional
    BY <1>2, Refreshed DEF ControlInv, Settled, Transitional
  <2> QED
    BY <2>1 DEF States
<1>6. states' \in States /\ \A j \in Keys : states'[j] \in Settled
  BY <1>1, <1>5 DEF States, Settled
<1>7. up' \in SUBSET Services
  BY <1>1 DEF ControlInv, Types
<1> QED
  BY <1>1, <1>3, <1>4, <1>6, <1>7, StopAllGoesOn DEF ControlInv, SpawnsAlone

LEMMA StopAllProjectStep ==
  ASSUME ControlInv, StopAllProject
  PROVE  ControlInv'
<1>1. cmd.op = "stop_all" /\ cmd.procs = {} /\ UNCHANGED <<sims, status>>
  BY DEF StopAllProject
<1>2. cmd \in StopAlls /\ \A j \in Keys : states[j] \in Settled
  BY <1>1, Kinds, Quiet DEF ControlInv, Types
<1>3. PICK p \in cmd.projects : \E left \in SUBSET ({k \in Compose : ProjectOf[k] = p} \cap up) :
         /\ up' = (up \ {k \in Compose : ProjectOf[k] = p}) \cup left
         /\ states' = [k \in Keys |-> IF k \notin {j \in Compose : ProjectOf[j] = p} THEN states[k]
                                      ELSE IF k \in left THEN "FAILED" ELSE "STOPPED"]
         /\ cmd' = [cmd EXCEPT !.projects = @ \ {p}, !.ok = @ /\ left = {}]
  BY DEF StopAllProject
<1> DEFINE members == {k \in Compose : ProjectOf[k] = p}
<1>4. PICK left \in SUBSET (members \cap up) :
         /\ up' = (up \ members) \cup left
         /\ states' = [k \in Keys |-> IF k \notin members THEN states[k]
                                      ELSE IF k \in left THEN "FAILED" ELSE "STOPPED"]
         /\ cmd' = [cmd EXCEPT !.projects = @ \ {p}, !.ok = @ /\ left = {}]
  BY <1>3
<1>5. \A k : k \in members <=> k \in Compose /\ ProjectOf[k] = p
  OBVIOUS
<1> HIDE DEF members
<1>6. /\ cmd' \in StopAlls /\ cmd'.op = cmd.op /\ cmd'.procs = cmd.procs
      /\ cmd'.projects = cmd.projects \ {p} /\ cmd'.ok = (cmd.ok /\ left = {})
  BY <1>2, <1>4 DEF StopAlls
<1>7. StopInv'
  BY <1>1, <1>4, <1>5, <1>6 DEF ControlInv, StopInv
<1>8. states' \in States /\ \A j \in Keys : states'[j] \in Settled
  BY <1>2, <1>4 DEF States, Settled
<1>9. up' \in SUBSET Services
  BY <1>4 DEF ControlInv, Types
<1> QED
  BY <1>1, <1>6, <1>7, <1>8, <1>9, StopAllGoesOn DEF ControlInv, SpawnsAlone

LEMMA StopAllEndsStep ==
  ASSUME ControlInv, StopAllEnds
  PROVE  ControlInv'
<1>1. /\ cmd.op = "stop_all" /\ cmd.procs = {} /\ cmd.projects = {}
      /\ cmd' = Done("stop_all", cmd.ok, Services)
      /\ UNCHANGED <<up, sims, states, status, lost>>
  BY DEF StopAllEnds, host
<1>2. cmd \in StopAlls /\ cmd.ok \in BOOLEAN /\ \A j \in Keys : states[j] \in Settled
  BY <1>1, Kinds, Quiet DEF ControlInv, Types, StopAlls
<1>3. cmd' \in Results /\ cmd'.op = "done" /\ cmd'.was = "stop_all" /\ cmd'.ok = cmd.ok
  BY <1>1, <1>2, NoKeyIsUnknown DEF Results, Done, Answers
<1>4. cmd.ok => up = {}
  BY <1>1 DEF ControlInv, StopInv
<1>5. Types' /\ TransitionsAreOwn'
  BY <1>1, <1>2, <1>3
     DEF ControlInv, Types, Commands, TransitionsAreOwn, Settled, Transitional
<1> QED
  BY <1>1, <1>3, <1>4, <1>5
     DEF ControlInv, PlanInv, StopInv, SpawnsAlone, SimulationHasBackend, ResultsAreTrue, Planning

-----------------------------------------------------------------------------
(* Beside the command: the answer, watchers, the status thread, the host.  *)

\* A step that leaves the command and the host alone and puts no key in transition.
LEMMA StatesRewritten ==
  ASSUME ControlInv, UNCHANGED <<up, sims, cmd, lost>>, states' \in States,
         \A k \in Keys : states'[k] \in Transitional => states[k] \in Transitional,
         status'.at = "write" => status'.probed \in {"RUNNING", "STOPPED"}
  PROVE  ControlInv'
<1>1. Types'
  BY DEF ControlInv, Types
<1>2. TransitionsAreOwn'
  BY DEF ControlInv, TransitionsAreOwn, Works
<1> QED
  BY <1>1, <1>2
     DEF ControlInv, PlanInv, Pending, StopInv, SpawnsAlone, SimulationHasBackend, ResultsAreTrue

LEMMA AnswerStep ==
  ASSUME ControlInv, Answer
  PROVE  ControlInv'
<1>1. cmd.op = "done" /\ cmd' = [op |-> "idle"] /\ UNCHANGED <<up, sims, states, status, lost>>
  BY DEF Answer, Idle, host
<1>2. cmd' \in Bare /\ cmd'.op = "idle" /\ \A k \in Keys : states[k] \in Settled
  BY <1>1, Quiet DEF ControlInv, Bare
<1>3. Types' /\ TransitionsAreOwn'
  BY <1>1, <1>2 DEF ControlInv, Types, Commands, TransitionsAreOwn, Settled, Transitional
<1> QED
  BY <1>1, <1>2, <1>3
     DEF ControlInv, PlanInv, StopInv, SpawnsAlone, SimulationHasBackend, ResultsAreTrue, Planning

LEMMA WatcherEndsStep ==
  ASSUME ControlInv, NEW p \in Runs, WatcherEnds(p)
  PROVE  ControlInv'
<1>1. /\ states' = [states EXCEPT ![Sim] = IF p \in clean THEN "STOPPED" ELSE "FAILED"]
      /\ UNCHANGED <<up, sims, cmd, lost, status>>
  BY DEF WatcherEnds, host
<1>2. states' \in States /\ \A k \in Keys : states'[k] \in Transitional => states[k] \in Transitional
  BY <1>1 DEF ControlInv, Types, States, Settled, Transitional
<1> QED
  BY <1>1, <1>2, StatesRewritten DEF ControlInv, Types

LEMMA StatusStep ==
  ASSUME ControlInv, Status
  PROVE  ControlInv'
<1>0. states \in States
  BY DEF ControlInv, Types
<1>1. CASE BuildCache
  <2>1. UNCHANGED <<up, sims, cmd, lost, states>> /\ status'.at = "cached"
    BY <1>1 DEF BuildCache, host
  <2> QED
    BY <1>0, <2>1, StatesRewritten
<1>2. CASE RefreshStates
  <2>1. PICK seen : states' = refreshed(seen) /\ status'.at = "report"
    BY <1>2 DEF RefreshStates
  <2>2. UNCHANGED <<up, sims, cmd, lost>>
    BY <1>2 DEF RefreshStates, host
  <2> QED
    BY <2>1, <2>2, Refreshed, StatesRewritten DEF ControlInv
<1>3. CASE SnapshotReads
  <2>1. UNCHANGED <<up, sims, cmd, lost, states>> /\ status'.probed \in {"RUNNING", "STOPPED"}
    BY <1>3 DEF SnapshotReads, host, probe
  <2> QED
    BY <1>0, <2>1, StatesRewritten
<1>4. CASE SnapshotWrites
  <2>1. /\ status.probed \in {"RUNNING", "STOPPED"} /\ UNCHANGED <<up, sims, cmd, lost>>
        /\ status'.at \in {"rest", "report"}
        /\ states' = states \/ states' = [states EXCEPT ![Head(status.left)] = status.probed]
    BY <1>4 DEF SnapshotWrites, host, ControlInv, Types, Resting
  <2>2. states' \in States /\ \A k \in Keys : states'[k] \in Transitional => states[k] \in Transitional
    BY <1>0, <2>1 DEF States, Settled, Transitional
  <2> QED
    BY <2>1, <2>2, StatesRewritten
<1> QED
  BY <1>1, <1>2, <1>3, <1>4 DEF Status

LEMMA HostStep ==
  ASSUME ControlInv, Host
  PROVE  ControlInv'
<1>1. ASSUME NEW k \in Services, Crash(k) PROVE ControlInv'
  <2>1. up' = up \ {k} /\ lost' = lost \cup {k} /\ UNCHANGED <<sims, states, cmd, status>>
    BY <1>1 DEF Crash
  <2>2. Types' /\ TransitionsAreOwn' /\ SpawnsAlone'
    BY <2>1 DEF ControlInv, Types, TransitionsAreOwn, Works, SpawnsAlone
  <2>3. PlanInv'
    BY <2>1 DEF ControlInv, PlanInv, Pending
  <2>4. StopInv' /\ SimulationHasBackend'
    BY <2>1 DEF ControlInv, StopInv, SimulationHasBackend
  <2>5. ResultsAreTrue'
    BY <2>1 DEF ControlInv, ResultsAreTrue
  <2> QED
    BY <2>2, <2>3, <2>4, <2>5 DEF ControlInv
<1>2. ASSUME NEW p \in Runs, NEW code, SimExits(p, code) PROVE ControlInv'
  <2>1. sims' = sims \ {p} /\ UNCHANGED <<up, lost, states, cmd, status>>
    BY <1>2 DEF SimExits
  <2>2. Types' /\ TransitionsAreOwn' /\ SpawnsAlone'
    BY <2>1 DEF ControlInv, Types, TransitionsAreOwn, Works, SpawnsAlone
  <2>3. PlanInv' /\ StopInv' /\ SimulationHasBackend'
    BY <2>1 DEF ControlInv, PlanInv, Pending, StopInv, SimulationHasBackend
  <2>4. ResultsAreTrue'
    BY <2>1 DEF ControlInv, ResultsAreTrue
  <2> QED
    BY <2>2, <2>3, <2>4 DEF ControlInv
<1> QED
  BY <1>1, <1>2 DEF Host

-----------------------------------------------------------------------------
(* The theorem.                                                            *)

LEMMA CommandStep ==
  ASSUME ControlInv, Command
  PROVE  ControlInv'
<1>1. ASSUME NEW k \in Services, NEW b \in BOOLEAN, Start(k, b) \/ Stop(k, b) PROVE ControlInv'
  BY <1>1, StartStep, StopStep
<1> QED
  BY <1>1, StartBackendStep, StopAllStep, RunStep, StopSimulationStep DEF Command

LEMMA StepStep ==
  ASSUME ControlInv, Step
  PROVE  ControlInv'
<1>1. ASSUME NEW ok \in BOOLEAN,
             LaunchEnds(ok) \/ StopEnds(ok) \/ StopAllSimulation(ok) \/ StopAllProcess(ok)
             \/ PingWorker(ok) \/ StopSimulationEnds(ok)
      PROVE  ControlInv'
  BY <1>1, LaunchEndsStep, StopEndsStep, StopAllSimulationStep, StopAllProcessStep, PingWorkerStep,
     StopSimulationEndsStep
<1> QED
  BY <1>1, PlanNextStep, LookAtDependencyStep, LaunchStep, StartEndsStep, StopAllProjectStep,
     StopAllEndsStep, RestartedWorkerStep, SpawnStep, SettleStep, AnswerStep DEF Step

LEMMA InvStep == ControlInv /\ [Next]_vars => ControlInv'
<1> SUFFICES ASSUME ControlInv, [Next]_vars PROVE ControlInv'
  OBVIOUS
<1>1. CASE UNCHANGED vars
  <2>1. UNCHANGED <<up, sims, cmd, lost, states, status>>
    BY <1>1 DEF vars
  <2> QED
    BY <2>1, StatesRewritten DEF ControlInv, Types
<1>2. CASE Next
  BY <1>2, CommandStep, StepStep, StatusStep, HostStep, WatcherEndsStep DEF Next
<1> QED
  BY <1>1, <1>2

LEMMA InvIsSafe == ControlInv => ControlSafe
<1> SUFFICES ASSUME ControlInv PROVE ControlSafe
  OBVIOUS
<1>1. OneSimulation
  <2>1. CASE sims = {}
    BY <2>1, FS_EmptySet DEF OneSimulation
  <2>2. CASE sims # {}
    <3>1. PICK p \in sims : TRUE
      BY <2>2
    <3>2. sims = {p}
      BY <3>1 DEF ControlInv, SpawnsAlone
    <3>3. Cardinality(sims) = 1
      BY <3>2, FS_Singleton
    <3> QED
      BY <3>3 DEF OneSimulation
  <2> QED
    BY <2>1, <2>2
<1>2. TransitionalMeansBusy
  BY Quiet DEF ControlInv, TransitionalMeansBusy
<1> QED
  BY <1>1, <1>2 DEF ControlInv, ControlSafe

\* ServiceManager: commands under its lock, and beside them watchers, the status thread
\* and a host that crashes services: there is never a second simulation, no key is left in
\* transition without a command, a simulation is spawned on a whole backend, and what a
\* result says is true, for any services and any number of commands and crashes.
THEOREM ControlSafeAlways == Spec => []ControlSafe
<1>1. Init => ControlInv
  BY InitInv
<1>2. ControlInv /\ [Next]_vars => ControlInv'
  BY InvStep
<1>3. ControlInv => ControlSafe
  BY InvIsSafe
<1> QED
  BY <1>1, <1>2, <1>3, PTL DEF Spec

-----------------------------------------------------------------------------
(* The rides: any number of drivers, passengers, rounds and failed writes. *)
(* The two sides of a ride share only messages, so RideInv says of every   *)
(* message on its way what its sender has done, and that nothing undid it  *)
(* since.                                                                  *)

DriverEvents ==
  {"passenger_confirmed_trip", "passenger_cancel_trip", "passenger_acknowledge_pickup",
   "passenger_acknowledge_dropoff", "passenger_rejected_trip"}
PassengerEvents ==
  {"driver_confirmed_trip", "driver_arrived_for_pickup", "driver_move_for_dropoff",
   "driver_waiting_for_dropoff"}
QueuedForDriver == [event : DriverEvents, from : Passengers]
QueuedForPassenger == [event : PassengerEvents, from : Drivers]
ForDriver == QueuedForDriver \cup [event : {"requested_trip"}, from : Passengers]
ForPassenger == QueuedForPassenger \cup [event : {"assigned"}, from : Drivers]
Mail == ForDriver \cup ForPassenger

DriverStates ==
  {"init", "looking_for_job", "received_trip", "rejected_trip", "accepted_trip", "completed_trip",
   "cancelled_trip"} \cup Ride!OnTheWay \cup Ride!Carrying
DriverTrips == [state : DriverStates, occupied : BOOLEAN, passenger : Passengers \cup {None}]
PassengerTrips == [state : Ride!Unpicked \cup Ride!Riding \cup Ride!Ended, driver : Drivers \cup {None}]

\* A family of mailboxes that hold messages D for drivers and P for passengers.
Boxes(n, D, P) ==
  /\ n \in [Ride!Agents -> Seq(Mail)]
  /\ \A d \in Drivers : Elems(n[d]) \subseteq D
  /\ \A p \in Passengers : Elems(n[p]) \subseteq P
Held(n, a) == Elems(n[a])
In(a) == Held(net, a) \cup Held(box, a)

RideTypes ==
  /\ dtrip \in [Drivers -> DriverTrips] /\ ptrip \in [Passengers -> PassengerTrips]
  /\ Boxes(net, ForDriver, ForPassenger) /\ Boxes(box, QueuedForDriver, QueuedForPassenger)
  /\ round.drivers \subseteq Drivers

\* No agent is both, and none is called None.
RidersDistinct == Drivers \cap Passengers = {} /\ None \notin Ride!Agents

-----------------------------------------------------------------------------
(* The inductive invariant.                                                *)

\* From its acceptance on a passenger keeps its driver and never asks for one again.
Accepted == {"accepted_trip", "waiting_for_pickup"} \cup Ride!Riding \cup Ride!Ended
Committed(p, d) == ptrip[p].driver = d /\ ptrip[p].state \in Accepted
Awaits(p) == ptrip[p].state \in {"accepted_trip", "waiting_for_pickup"}

\* What a driver that gets message m may take as done by its passenger.
Told(d, m) ==
  /\ m.event = "passenger_confirmed_trip" => Committed(m.from, d)
  /\ m.event = "passenger_acknowledge_pickup" =>
       Committed(m.from, d) /\ ptrip[m.from].state \in Ride!Riding \cup Ride!Ended
  /\ m.event = "passenger_acknowledge_dropoff" =>
       Committed(m.from, d) /\ ptrip[m.from].state \in {"droppedoff"} \cup Ride!Ended
  /\ m.event = "passenger_cancel_trip" => ptrip[m.from].state = "cancelled_trip"

Honest == ~declined /\ ~horizon
Meets(d, p) == dtrip[d].passenger = p /\ dtrip[d].state = "waiting_to_pickup"
With(d, p) == dtrip[d].passenger = p /\ dtrip[d].state \in Ride!Carrying \cup {"waiting_to_pickup"}

\* A driver that said it has arrived is still there for the passenger that waits.
Arrived(p, m) ==
  m.event = "driver_arrived_for_pickup" =>
    Committed(p, m.from) /\ (Honest /\ Awaits(p) => Meets(m.from, p))

MailInv ==
  /\ \A d \in Drivers : \A m \in In(d) : Told(d, m)
  /\ \A p \in Passengers : \A m \in In(p) : Arrived(p, m)

Vacant == {"init", "looking_for_job", "completed_trip"}
DriverInv(d) ==
  /\ dtrip[d].occupied => dtrip[d].passenger \in Passengers /\ dtrip[d].state # "looking_for_job"
  /\ ~dtrip[d].occupied => dtrip[d].state \in Vacant
  /\ dtrip[d].state \in Ride!OnTheWay \cup Ride!Carrying => Committed(dtrip[d].passenger, d)
  /\ dtrip[d].state \in Ride!Carrying => ptrip[dtrip[d].passenger].state \in Ride!Riding \cup Ride!Ended
  /\ dtrip[d].state = "droppedoff" => ptrip[dtrip[d].passenger].state \in {"droppedoff"} \cup Ride!Ended
  /\ d \in closed => dtrip[d].state \in Ride!Ended

PassengerInv(p) ==
  /\ Honest /\ ptrip[p].state \in {"pickedup", "moving_for_dropoff"} =>
       ptrip[p].driver \in Drivers /\ With(ptrip[p].driver, p)
  /\ p \in closed => ptrip[p].state \in Ride!Ended

RideInv ==
  /\ RideTypes /\ MailInv
  /\ \A d \in Drivers : DriverInv(d)
  /\ \A p \in Passengers : PassengerInv(p)

-----------------------------------------------------------------------------
(* Mailboxes.                                                              *)

LEMMA Appended ==
  ASSUME NEW S, NEW s \in Seq(S), NEW m \in S
  PROVE  Append(s, m) \in Seq(S) /\ Elems(Append(s, m)) = Elems(s) \cup {m}
<1>1. /\ Append(s, m) \in Seq(S) /\ Len(Append(s, m)) = Len(s) + 1 /\ Len(s) \in Nat
      /\ Append(s, m)[Len(s) + 1] = m /\ \A i \in 1 .. Len(s) : Append(s, m)[i] = s[i]
  OBVIOUS
<1>2. \A i \in 1 .. Len(s) + 1 : i \in 1 .. Len(s) \/ i = Len(s) + 1
  BY <1>1
<1> QED
  BY <1>1, <1>2 DEF Elems

LEMMA Dropped ==
  ASSUME NEW S, NEW s \in Seq(S), s # <<>>
  PROVE  Head(s) \in Elems(s) /\ Tail(s) \in Seq(S) /\ Elems(Tail(s)) \subseteq Elems(s)
<1>1. Len(s) \in Nat \ {0} /\ Head(s) = s[1] /\ 1 \in 1 .. Len(s)
  OBVIOUS
<1>2. Tail(s) \in Seq(S) /\ Len(Tail(s)) = Len(s) - 1 /\ \A i \in 1 .. Len(s) - 1 : Tail(s)[i] = s[i + 1]
  OBVIOUS
<1>3. \A i \in 1 .. Len(s) - 1 : i + 1 \in 1 .. Len(s)
  BY <1>1
<1> QED
  BY <1>1, <1>2, <1>3 DEF Elems

Sent(n, a, m, n2) == n2 = [n EXCEPT ![a] = Append(n[a], m)]
Popped(n, a, n2) == n2 = [n EXCEPT ![a] = Tail(n[a])]

LEMMA Sends ==
  ASSUME RidersDistinct, NEW n, Boxes(n, ForDriver, ForPassenger), NEW a \in Ride!Agents, NEW m,
         (a \in Drivers /\ m \in ForDriver) \/ (a \in Passengers /\ m \in ForPassenger),
         NEW n2, Sent(n, a, m, n2)
  PROVE  /\ Boxes(n2, ForDriver, ForPassenger) /\ Held(n2, a) = Held(n, a) \cup {m}
         /\ \A b \in Ride!Agents : b # a => n2[b] = n[b]
<1>1. n[a] \in Seq(Mail) /\ m \in Mail /\ n \in [Ride!Agents -> Seq(Mail)]
  BY DEF Boxes, Mail
<1>2. Append(n[a], m) \in Seq(Mail) /\ Elems(Append(n[a], m)) = Elems(n[a]) \cup {m}
  BY <1>1, Appended
<1>3. n2 \in [Ride!Agents -> Seq(Mail)] /\ n2[a] = Append(n[a], m)
      /\ \A b \in Ride!Agents : b # a => n2[b] = n[b]
  BY <1>1, <1>2 DEF Sent
<1>4. Boxes(n2, ForDriver, ForPassenger)
  BY <1>2, <1>3 DEF Boxes, RidersDistinct, Ride!Agents
<1> QED
  BY <1>2, <1>3, <1>4 DEF Held

LEMMA Queues ==
  ASSUME RidersDistinct, NEW n, Boxes(n, QueuedForDriver, QueuedForPassenger), NEW a \in Ride!Agents, NEW m,
         (a \in Drivers /\ m \in QueuedForDriver) \/ (a \in Passengers /\ m \in QueuedForPassenger),
         NEW n2, Sent(n, a, m, n2)
  PROVE  /\ Boxes(n2, QueuedForDriver, QueuedForPassenger) /\ Held(n2, a) = Held(n, a) \cup {m}
         /\ \A b \in Ride!Agents : b # a => n2[b] = n[b]
<1>1. n[a] \in Seq(Mail) /\ m \in Mail /\ n \in [Ride!Agents -> Seq(Mail)]
  BY DEF Boxes, Mail, ForDriver, ForPassenger
<1>2. Append(n[a], m) \in Seq(Mail) /\ Elems(Append(n[a], m)) = Elems(n[a]) \cup {m}
  BY <1>1, Appended
<1>3. n2 \in [Ride!Agents -> Seq(Mail)] /\ n2[a] = Append(n[a], m)
      /\ \A b \in Ride!Agents : b # a => n2[b] = n[b]
  BY <1>1, <1>2 DEF Sent
<1>4. Boxes(n2, QueuedForDriver, QueuedForPassenger)
  BY <1>2, <1>3 DEF Boxes, RidersDistinct, Ride!Agents
<1> QED
  BY <1>2, <1>3, <1>4 DEF Held

LEMMA Pops ==
  ASSUME NEW D, NEW P, NEW n, Boxes(n, D, P), NEW a \in Ride!Agents, n[a] # <<>>,
         NEW n2, Popped(n, a, n2)
  PROVE  /\ Boxes(n2, D, P) /\ Head(n[a]) \in Held(n, a) /\ Held(n2, a) \subseteq Held(n, a)
         /\ \A b \in Ride!Agents : b # a => n2[b] = n[b]
<1>1. n[a] \in Seq(Mail) /\ n \in [Ride!Agents -> Seq(Mail)]
  BY DEF Boxes
<1>2. Tail(n[a]) \in Seq(Mail) /\ Head(n[a]) \in Elems(n[a]) /\ Elems(Tail(n[a])) \subseteq Elems(n[a])
  BY <1>1, Dropped
<1>3. n2 \in [Ride!Agents -> Seq(Mail)] /\ n2[a] = Tail(n[a]) /\ \A b \in Ride!Agents : b # a => n2[b] = n[b]
  BY <1>1, <1>2 DEF Popped
<1>4. Boxes(n2, D, P)
  BY <1>2, <1>3 DEF Boxes, Ride!Agents
<1> QED
  BY <1>2, <1>3, <1>4 DEF Held

-----------------------------------------------------------------------------
(* A step of one agent: what is left to show.                              *)

LEMMA DriverMoves ==
  ASSUME RidersDistinct, RideInv, NEW d \in Drivers, RideTypes', UNCHANGED <<ptrip, horizon>>,
         \A e \in Drivers : e # d => dtrip'[e] = dtrip[e],
         declined => declined', closed' \subseteq closed \cup {d},
         DriverInv(d)',
         \A p \in Passengers :
           /\ Honest' /\ Committed(p, d) /\ Awaits(p) /\ Meets(d, p) => Meets(d, p)'
           /\ Honest' /\ ptrip[p].driver = d /\ ptrip[p].state \in {"pickedup", "moving_for_dropoff"}
                /\ With(d, p) => With(d, p)',
         \A e \in Drivers : In(e)' \subseteq In(e),
         \A p \in Passengers : \A m \in In(p)' : m \in In(p) \/ Arrived(p, m)'
  PROVE  RideInv'
<1>1. \A e \in Drivers : \A m \in In(e)' : Told(e, m)'
  <2> SUFFICES ASSUME NEW e \in Drivers, NEW m \in In(e)' PROVE Told(e, m)'
    OBVIOUS
  <2>1. Told(e, m)
    BY DEF RideInv, MailInv
  <2> QED
    BY <2>1 DEF Told, Committed
<1>2. \A p \in Passengers : \A m \in In(p)' : Arrived(p, m)'
  <2> SUFFICES ASSUME NEW p \in Passengers, NEW m \in In(p)', m \in In(p), m.event = "driver_arrived_for_pickup"
               PROVE  Arrived(p, m)'
    BY DEF Arrived
  <2>1. Arrived(p, m)
    BY DEF RideInv, MailInv
  <2>2. m.from \in Drivers
    BY DEF RideInv, RideTypes, Boxes, In, Held, ForPassenger, QueuedForPassenger
  <2>3. Honest' => Honest
    BY DEF Honest
  <2>4. CASE m.from = d
    BY <2>1, <2>3, <2>4 DEF Arrived, Committed, Awaits
  <2>5. CASE m.from # d
    BY <2>1, <2>2, <2>3, <2>5 DEF Arrived, Committed, Awaits, Meets
  <2> QED
    BY <2>4, <2>5
<1>3. \A e \in Drivers : DriverInv(e)'
  <2> SUFFICES ASSUME NEW e \in Drivers, e # d PROVE DriverInv(e)'
    OBVIOUS
  <2>1. DriverInv(e)
    BY DEF RideInv
  <2> QED
    BY <2>1 DEF DriverInv, Committed
<1>4. \A p \in Passengers : PassengerInv(p)'
  <2> SUFFICES ASSUME NEW p \in Passengers PROVE PassengerInv(p)'
    OBVIOUS
  <2>1. PassengerInv(p)
    BY DEF RideInv
  <2>2. Honest' => Honest
    BY DEF Honest
  <2>3. p # d
    BY DEF RidersDistinct
  <2>4. CASE ptrip[p].driver = d
    BY <2>1, <2>2, <2>3, <2>4 DEF PassengerInv
  <2>5. CASE ptrip[p].driver # d
    BY <2>1, <2>2, <2>3, <2>5 DEF PassengerInv, With
  <2> QED
    BY <2>4, <2>5
<1> QED
  BY <1>1, <1>2, <1>3, <1>4 DEF RideInv, MailInv

\* What a passenger's trip never takes back.
Onward(p) ==
  /\ ptrip[p].state \in Accepted => ptrip'[p].state \in Accepted /\ ptrip'[p].driver = ptrip[p].driver
  /\ ptrip[p].state \in Accepted /\ Awaits(p)' => Awaits(p)
  /\ ptrip[p].state \in Ride!Riding \cup Ride!Ended => ptrip'[p].state \in Ride!Riding \cup Ride!Ended
  /\ ptrip[p].state \in {"droppedoff"} \cup Ride!Ended => ptrip'[p].state \in {"droppedoff"} \cup Ride!Ended
  /\ ptrip[p].state = "cancelled_trip" => ptrip'[p].state = "cancelled_trip"

LEMMA PassengerMoves ==
  ASSUME RidersDistinct, RideInv, NEW p \in Passengers, RideTypes', UNCHANGED <<dtrip, horizon>>,
         \A q \in Passengers : q # p => ptrip'[q] = ptrip[q],
         Onward(p), declined => declined', closed' \subseteq closed \cup {p},
         PassengerInv(p)',
         \A q \in Passengers : In(q)' \subseteq In(q),
         \A d \in Drivers : \A m \in In(d)' : m \in In(d) \/ Told(d, m)'
  PROVE  RideInv'
<1>0. \A q \in Passengers : Onward(q)
  BY DEF Onward, Awaits
<1>1. \A d \in Drivers : \A m \in In(d)' : Told(d, m)'
  <2> SUFFICES ASSUME NEW d \in Drivers, NEW m \in In(d)', m \in In(d) PROVE Told(d, m)'
    OBVIOUS
  <2>1. Told(d, m)
    BY DEF RideInv, MailInv
  <2>2. m.from \in Passengers
    BY DEF RideInv, RideTypes, Boxes, In, Held, ForDriver, QueuedForDriver
  <2>3. Onward(m.from)
    BY <1>0, <2>2
  <2> QED
    BY <2>1, <2>3 DEF Told, Committed, Onward
<1>2. \A q \in Passengers : \A m \in In(q)' : Arrived(q, m)'
  <2> SUFFICES ASSUME NEW q \in Passengers, NEW m \in In(q)' PROVE Arrived(q, m)'
    OBVIOUS
  <2>1. Arrived(q, m) /\ Onward(q)
    BY <1>0 DEF RideInv, MailInv
  <2>2. Honest' => Honest
    BY DEF Honest
  <2> QED
    BY <2>1, <2>2 DEF Arrived, Committed, Onward, Meets
<1>3. \A d \in Drivers : DriverInv(d)'
  <2> SUFFICES ASSUME NEW d \in Drivers PROVE DriverInv(d)'
    OBVIOUS
  <2>1. DriverInv(d) /\ d # p
    BY DEF RideInv, RidersDistinct
  <2>2. CASE dtrip[d].state \in Ride!OnTheWay \cup Ride!Carrying
    <3>1. dtrip[d].passenger \in Passengers
      BY <2>1, <2>2 DEF DriverInv, Vacant, Ride!OnTheWay, Ride!Carrying
    <3>2. Onward(dtrip[d].passenger)
      BY <1>0, <3>1
    <3> QED
      BY <2>1, <3>2 DEF DriverInv, Committed, Onward
  <2>3. CASE dtrip[d].state \notin Ride!OnTheWay \cup Ride!Carrying
    BY <2>1, <2>3 DEF DriverInv, Ride!Carrying
  <2> QED
    BY <2>2, <2>3
<1>4. \A q \in Passengers : PassengerInv(q)'
  <2> SUFFICES ASSUME NEW q \in Passengers, q # p PROVE PassengerInv(q)'
    OBVIOUS
  <2>1. PassengerInv(q) /\ ptrip'[q] = ptrip[q]
    BY DEF RideInv
  <2>2. Honest' => Honest
    BY DEF Honest
  <2> QED
    BY <2>1, <2>2 DEF PassengerInv, With
<1> QED
  BY <1>1, <1>2, <1>3, <1>4 DEF RideInv, MailInv

-----------------------------------------------------------------------------
(* The steps of a driver.                                                  *)

Replies == {"passenger_confirmed_trip", "passenger_cancelled_trip", "passenger_acknowledge_pickup",
            "passenger_acknowledge_dropoff"}
OwnMoves == {"confirm", "wait_to_pickup", "move_to_dropoff", "wait_to_dropoff"}

\* What a driver tells its passenger when it applies a transition.
LEMMA DriverNews ==
  ASSUME RidersDistinct, RideTypes, NEW d \in Drivers,
         NEW tr \in Replies \cup OwnMoves \cup {"force_quit", "end_trip"},
         NEW ok \in BOOLEAN, Ride!DriverApplies(d, tr, ok)
  PROVE  /\ Boxes(net', ForDriver, ForPassenger)
         /\ \A e \in Drivers : net'[e] = net[e]
         /\ \A p \in Passengers : \A m \in Held(net', p) :
              \/ m \in Held(net, p)
              \/ m.event # "driver_arrived_for_pickup"
              \/ /\ tr = "wait_to_pickup" /\ ok /\ Ride!Legal(Ride!DriverSM, dtrip[d], tr)
                 /\ p = dtrip[d].passenger /\ m.from = d
<1> DEFINE to == dtrip[d].passenger
<1>1. CASE net' = net
  BY <1>1 DEF RideTypes
<1>2. CASE net' # net
  <2>1. ok /\ Ride!Legal(Ride!DriverSM, dtrip[d], tr) /\ net' = Ride!Notified(d, tr, to)
    BY <1>2 DEF Ride!DriverApplies
  <2>2. tr \in DOMAIN Ride!Interactions /\ to # None
          /\ net' = [net EXCEPT ![to] = Append(@, Ride!Msg(Ride!Interactions[tr], d))]
    BY <1>2, <2>1 DEF Ride!Notified
  <2>3. to \in Passengers
    BY <2>2 DEF RideTypes, DriverTrips
  <2> DEFINE m == Ride!Msg(Ride!Interactions[tr], d)
  <2>4. tr \in OwnMoves
    BY <2>2 DEF Ride!Interactions, Replies, OwnMoves
  <2>5. /\ m \in QueuedForPassenger /\ m.from = d
        /\ m.event = "driver_arrived_for_pickup" => tr = "wait_to_pickup"
    <3>1. Ride!Interactions[tr] \in PassengerEvents
          /\ (Ride!Interactions[tr] = "driver_arrived_for_pickup" => tr = "wait_to_pickup")
      BY <2>4 DEF Ride!Interactions, OwnMoves, PassengerEvents
    <3> QED
      BY <3>1 DEF Ride!Msg, QueuedForPassenger
  <2>6. m \in ForPassenger
    BY <2>5 DEF ForPassenger
  <2> HIDE DEF m, to
  <2>7. net' = [net EXCEPT ![to] = Append(@, m)]
    BY <2>2 DEF m
  <2>8. /\ Boxes(net', ForDriver, ForPassenger) /\ Held(net', to) = Held(net, to) \cup {m}
        /\ \A b \in Ride!Agents : b # to => net'[b] = net[b]
    <3>1. to \in Ride!Agents
      BY <2>3 DEF Ride!Agents
    <3> QED
      <4>1. Boxes(net, ForDriver, ForPassenger) /\ Sent(net, to, m, net')
        BY <2>7 DEF RideTypes, Sent
      <4> QED
        BY <2>3, <2>6, <3>1, <4>1, Sends
  <2>9. \A e \in Drivers : e # to /\ e \in Ride!Agents
    BY <2>3 DEF RidersDistinct, Ride!Agents
  <2>10. \A p \in Passengers : p \in Ride!Agents
    BY DEF Ride!Agents
  <2> QED
    BY <2>1, <2>3, <2>5, <2>8, <2>9, <2>10 DEF to, Held
<1> QED
  BY <1>1, <1>2

\* An occupied driver applies a transition its passenger has given it reason for.
LEMMA DriverGoes ==
  ASSUME RidersDistinct, RideInv, NEW d \in Drivers, NEW tr \in Replies \cup OwnMoves \cup {"force_quit"},
         NEW ok \in BOOLEAN, Ride!DriverApplies(d, tr, ok), dtrip[d].occupied,
         UNCHANGED <<ptrip, round, horizon>>,
         Boxes(box', QueuedForDriver, QueuedForPassenger),
         \A a \in Ride!Agents : Held(box', a) \subseteq Held(box, a),
         declined => declined',
         IF tr = "force_quit" THEN ok /\ (horizon \/ dtrip[d].state = "init") /\ closed' = closed \cup {d}
         ELSE d \notin closed /\ closed' = closed,
         tr = "passenger_confirmed_trip" => Committed(dtrip[d].passenger, d),
         tr = "passenger_acknowledge_pickup" => ptrip[dtrip[d].passenger].state \in Ride!Riding \cup Ride!Ended,
         tr = "passenger_acknowledge_dropoff"
           => ptrip[dtrip[d].passenger].state \in {"droppedoff"} \cup Ride!Ended,
         tr = "passenger_cancelled_trip" => ptrip[dtrip[d].passenger].state = "cancelled_trip"
  PROVE  RideInv'
<1> DEFINE goes == ok /\ Ride!Legal(Ride!DriverSM, dtrip[d], tr)
           t == dtrip[d]
<1>1. RideTypes /\ DriverInv(d) /\ t.passenger \in Passengers /\ t \in DriverTrips
  BY DEF RideInv, DriverInv, RideTypes
<1>2. /\ Boxes(net', ForDriver, ForPassenger)
      /\ \A e \in Drivers : net'[e] = net[e]
      /\ \A p \in Passengers : \A m \in Held(net', p) :
              \/ m \in Held(net, p)
              \/ m.event # "driver_arrived_for_pickup"
              \/ tr = "wait_to_pickup" /\ goes /\ p = t.passenger /\ m.from = d
  BY <1>1, DriverNews
<1>3. dtrip' = IF goes THEN [dtrip EXCEPT ![d].state = Ride!DriverSM[tr].to] ELSE dtrip
  BY DEF Ride!DriverApplies
<1>4. Ride!DriverSM[tr].to \in DriverStates
  BY DEF Ride!DriverSM, Replies, OwnMoves, DriverStates, Ride!OnTheWay, Ride!Carrying
<1>5. /\ dtrip' \in [Drivers -> DriverTrips] /\ \A e \in Drivers : e # d => dtrip'[e] = dtrip[e]
      /\ dtrip'[d].passenger = t.passenger /\ dtrip'[d].occupied = t.occupied
      /\ dtrip'[d].state = IF goes THEN Ride!DriverSM[tr].to ELSE t.state
  BY <1>1, <1>3, <1>4 DEF RideTypes, DriverTrips
<1>6. RideTypes'
  BY <1>1, <1>2, <1>5 DEF RideTypes
<1>7. goes => t.state \in Ride!DriverSM[tr].from
  BY DEF Ride!Legal
<1> DEFINE u == dtrip'[d]
<1>8. DriverInv(d)'
  <2>1. CASE ~goes
    <3>1. u.state = t.state /\ (d \in closed' => t.state \in Ride!Ended)
      <4>1. CASE tr = "force_quit"
        <5>1. t.state \notin Ride!DriverSM["force_quit"].from
          BY <2>1, <4>1 DEF Ride!Legal
        <5>2. t.state \in Ride!Ended
          BY <1>1, <5>1 DEF Ride!DriverSM, DriverTrips, DriverStates, Ride!OnTheWay, Ride!Carrying,
             Ride!Ended, DriverInv
        <5> QED
          BY <1>5, <2>1, <5>2
      <4>2. CASE tr # "force_quit"
        BY <1>5, <2>1, <4>2
      <4> QED
        BY <4>1, <4>2
    <3> QED
      BY <1>1, <1>5, <3>1 DEF DriverInv, Committed
  <2>2. CASE goes
    <3>1. t.state \in Ride!DriverSM[tr].from /\ u.state = Ride!DriverSM[tr].to
      BY <1>5, <1>7, <2>2
    <3>2. d \in closed' => tr = "force_quit"
      OBVIOUS
    <3> DEFINE W == Ride!OnTheWay \cup Ride!Carrying
    <3>3. /\ u.state # "looking_for_job"
          /\ u.state \in W => t.state \in W \/ tr = "passenger_confirmed_trip"
          /\ u.state \in Ride!Carrying => t.state \in Ride!Carrying \/ tr = "passenger_acknowledge_pickup"
          /\ u.state = "droppedoff" => tr = "passenger_acknowledge_dropoff"
          /\ tr = "force_quit" => u.state \in Ride!Ended
      BY <3>1 DEF Ride!DriverSM, Replies, OwnMoves, Ride!OnTheWay, Ride!Carrying, Ride!Ended
    <3> HIDE DEF t, u, goes
    <3> QED
      BY <1>1, <1>5, <3>2, <3>3 DEF DriverInv, Committed, t, u
  <2> QED
    BY <2>1, <2>2
<1>9. ASSUME NEW p \in Passengers, Honest', goes, t.passenger = p,
             t.state \in Ride!Carrying \cup {"waiting_to_pickup"}, ~(ptrip[p].state \in Ride!Ended)
      PROVE  /\ u.state \in Ride!Carrying \cup {"waiting_to_pickup"}
             /\ Awaits(p) /\ t.state = "waiting_to_pickup" => u.state = "waiting_to_pickup"
  <2>1. tr # "force_quit" /\ tr # "passenger_cancelled_trip"
    <3>1. ~horizon
      BY <1>9 DEF Honest
    <3> QED
      BY <1>9, <3>1 DEF Ride!Carrying, Ride!Ended
  <2>2. t.state \in Ride!DriverSM[tr].from /\ u.state = Ride!DriverSM[tr].to
    BY <1>5, <1>7, <1>9
  <2>3. tr = "passenger_acknowledge_pickup" => ~Awaits(p)
    BY <1>9 DEF Awaits, Ride!Riding, Ride!Ended
  <2> QED
    BY <1>9, <2>1, <2>2, <2>3 DEF Ride!DriverSM, Replies, OwnMoves, Ride!Carrying
<1>10. ASSUME NEW p \in Passengers
       PROVE  /\ Honest' /\ Committed(p, d) /\ Awaits(p) /\ Meets(d, p) => Meets(d, p)'
              /\ Honest' /\ ptrip[p].driver = d /\ ptrip[p].state \in {"pickedup", "moving_for_dropoff"}
                   /\ With(d, p) => With(d, p)'
  <2>1. CASE ~goes
    BY <1>5, <2>1 DEF Meets, With
  <2>2. CASE goes
    BY <1>5, <1>9, <2>2 DEF Meets, With, Awaits, Ride!Ended
  <2> QED
    BY <2>1, <2>2
<1>11. \A e \in Drivers : In(e)' \subseteq In(e)
  BY <1>2 DEF In, Held, Ride!Agents
<1>12. \A p \in Passengers : \A m \in In(p)' : m \in In(p) \/ Arrived(p, m)'
  <2> SUFFICES ASSUME NEW p \in Passengers,
          NEW m \in In(p)', m \notin In(p), m.event = "driver_arrived_for_pickup"
               PROVE  Arrived(p, m)'
    BY DEF Arrived
  <2>1. tr = "wait_to_pickup" /\ goes /\ p = t.passenger /\ m.from = d
    BY <1>2 DEF In, Held, Ride!Agents
  <2>2. t.state = "moving_to_pickup" /\ u.state = "waiting_to_pickup"
    BY <1>5, <1>7, <2>1 DEF Ride!DriverSM
  <2>3. Committed(p, d)
    BY <1>1, <2>1, <2>2 DEF DriverInv, Ride!OnTheWay
  <2> QED
    BY <1>5, <2>1, <2>2, <2>3 DEF Arrived, Committed, Meets
<1> QED
  BY <1>5, <1>6, <1>8, <1>10, <1>11, <1>12, DriverMoves
-----------------------------------------------------------------------------
(* Steps that move only messages.                                          *)

\* Nobody learns anything from these.
Noise == {"requested_trip", "assigned", Ride!PassengerRejects}

LEMMA OnlyMail ==
  ASSUME RidersDistinct, RideInv, RideTypes', UNCHANGED <<dtrip, ptrip, closed>>, Honest' => Honest,
         \A a \in Ride!Agents : \A m \in In(a)' : m \in In(a) \/ m.event \in Noise
  PROVE  RideInv'
<1>1. ASSUME NEW d \in Drivers, NEW m \in In(d)' PROVE Told(d, m)'
  <2>1. CASE m \in In(d)
    BY <2>1 DEF RideInv, MailInv, Told, Committed
  <2>2. CASE m.event \in Noise
    BY <2>2 DEF Noise, Ride!PassengerRejects, Told
  <2> QED
    BY <1>1, <2>1, <2>2 DEF Ride!Agents
<1>2. ASSUME NEW p \in Passengers, NEW m \in In(p)' PROVE Arrived(p, m)'
  <2>1. CASE m \in In(p)
    <3>1. Arrived(p, m)
      BY <2>1 DEF RideInv, MailInv
    <3> QED
      BY <3>1 DEF Arrived, Committed, Awaits, Meets
  <2>2. CASE m.event \in Noise
    BY <2>2 DEF Noise, Ride!PassengerRejects, Arrived
  <2> QED
    BY <1>2, <2>1, <2>2 DEF Ride!Agents
<1>3. ASSUME NEW d \in Drivers PROVE DriverInv(d)'
  <2>1. DriverInv(d)
    BY DEF RideInv
  <2> QED
    BY <2>1 DEF DriverInv, Committed
<1>4. ASSUME NEW p \in Passengers PROVE PassengerInv(p)'
  <2>1. PassengerInv(p)
    BY DEF RideInv
  <2> QED
    BY <2>1 DEF PassengerInv, With
<1> QED
  BY <1>1, <1>2, <1>3, <1>4 DEF RideInv, MailInv

LEMMA EnqueueKeeps ==
  ASSUME RidersDistinct, RideInv, NEW a \in Ride!Agents, Ride!Enqueue(a)
  PROVE  RideInv'
<1> DEFINE m == Head(net[a])
<1>1. RideTypes /\ Boxes(net, ForDriver, ForPassenger) /\ Boxes(box, QueuedForDriver, QueuedForPassenger)
  BY DEF RideInv, RideTypes
<1>2. /\ Boxes(net', ForDriver, ForPassenger) /\ m \in Held(net, a) /\ Held(net', a) \subseteq Held(net, a)
      /\ \A b \in Ride!Agents : b # a => net'[b] = net[b]
  <2>1. Popped(net, a, net') /\ net[a] # <<>>
    BY DEF Ride!Enqueue, Popped
  <2> QED
    BY <1>1, <2>1, Pops
<1>3. (a \in Drivers /\ m \in QueuedForDriver) \/ (a \in Passengers /\ m \in QueuedForPassenger)
  <2>1. CASE a \in Drivers
    <3>1. m \in ForDriver
      BY <1>1, <1>2, <2>1 DEF Boxes, Held
    <3>2. m.event # "requested_trip"
      BY DEF Ride!Enqueue
    <3> QED
      BY <2>1, <3>1, <3>2 DEF ForDriver
  <2>2. CASE a \in Passengers
    <3>1. m \in ForPassenger
      BY <1>1, <1>2, <2>2 DEF Boxes, Held
    <3>2. m.event # "assigned"
      BY DEF Ride!Enqueue
    <3> QED
      BY <2>2, <3>1, <3>2 DEF ForPassenger
  <2> QED
    BY <2>1, <2>2 DEF Ride!Agents
<1>4. /\ Boxes(box', QueuedForDriver, QueuedForPassenger) /\ Held(box', a) = Held(box, a) \cup {m}
      /\ \A b \in Ride!Agents : b # a => box'[b] = box[b]
  <2>1. Sent(box, a, m, box')
    BY DEF Ride!Enqueue, Sent
  <2> QED
    BY <1>1, <1>3, <2>1, Queues
<1>5. RideTypes'
  BY <1>1, <1>2, <1>4 DEF RideTypes, Ride!Enqueue
<1>6. \A b \in Ride!Agents : In(b)' \subseteq In(b)
  <2> HIDE DEF m
  <2>1. In(a)' \subseteq In(a)
    BY <1>2, <1>4 DEF In
  <2>2. \A b \in Ride!Agents : b # a => In(b)' = In(b)
    BY <1>2, <1>4 DEF In, Held
  <2> QED
    BY <2>1, <2>2
<1> QED
  BY <1>5, <1>6, OnlyMail DEF Ride!Enqueue, Honest
-----------------------------------------------------------------------------
(* The actions of a driver.                                                *)

LEMMA HeadOfNet ==
  ASSUME RideTypes, NEW a \in Ride!Agents, net[a] # <<>>, NEW n2, Popped(net, a, n2)
  PROVE  /\ Boxes(n2, ForDriver, ForPassenger) /\ Head(net[a]) \in Held(net, a)
         /\ \A b \in Ride!Agents : Held(n2, b) \subseteq Held(net, b)
<1>1. Boxes(net, ForDriver, ForPassenger)
  BY DEF RideTypes
<1>2. /\ Boxes(n2, ForDriver, ForPassenger) /\ Head(net[a]) \in Held(net, a)
           /\ Held(n2, a) \subseteq Held(net, a)
      /\ \A b \in Ride!Agents : b # a => n2[b] = net[b]
  BY <1>1, Pops
<1> QED
  BY <1>2 DEF Held

LEMMA HeadOfBox ==
  ASSUME RideTypes, NEW a \in Ride!Agents, box[a] # <<>>, Popped(box, a, box')
  PROVE  /\ Boxes(box', QueuedForDriver, QueuedForPassenger) /\ Head(box[a]) \in Held(box, a)
         /\ \A b \in Ride!Agents : Held(box', b) \subseteq Held(box, b)
<1>1. Boxes(box, QueuedForDriver, QueuedForPassenger)
  BY DEF RideTypes
<1>2. /\ Boxes(box', QueuedForDriver, QueuedForPassenger) /\ Head(box[a]) \in Held(box, a)
      /\ Held(box', a) \subseteq Held(box, a) /\ \A b \in Ride!Agents : b # a => box'[b] = box[b]
  BY <1>1, Pops
<1> QED
  BY <1>2 DEF Held

LEMMA DriverConsumesKeeps ==
  ASSUME RidersDistinct, RideInv, NEW d \in Drivers, NEW ok \in BOOLEAN, Ride!DriverConsumes(d, ok)
  PROVE  RideInv'
<1> DEFINE m == Head(box[d])
<1>1. RideTypes /\ DriverInv(d) /\ d \in Ride!Agents
  BY DEF RideInv, Ride!Agents
<1>2. box[d] # <<>> /\ Popped(box, d, box')
  BY DEF Ride!DriverConsumes, Popped
<1>3. /\ Boxes(box', QueuedForDriver, QueuedForPassenger) /\ m \in Held(box, d)
      /\ \A b \in Ride!Agents : Held(box', b) \subseteq Held(box, b)
  BY <1>1, <1>2, HeadOfBox
<1>4. m \in QueuedForDriver /\ Told(d, m)
  <2>1. m \in QueuedForDriver
    BY <1>1, <1>3 DEF RideTypes, Boxes, Held
  <2>2. m \in In(d)
    BY <1>3 DEF In
  <2> QED
    BY <2>1, <2>2 DEF RideInv, MailInv
<1> HIDE DEF m
<1>5. CASE Ride!Hears(d, m) /\ m.event # Ride!PassengerRejects
  <2> DEFINE tr == Ride!HandlerOf(m.event)
  <2>1. /\ tr \in Replies
        /\ tr = "passenger_confirmed_trip" => m.event = "passenger_confirmed_trip"
        /\ tr = "passenger_acknowledge_pickup" => m.event = "passenger_acknowledge_pickup"
        /\ tr = "passenger_acknowledge_dropoff" => m.event = "passenger_acknowledge_dropoff"
        /\ tr = "passenger_cancelled_trip" => m.event = "passenger_cancel_trip"
    <3>1. m.event \in DriverEvents
      BY <1>4 DEF QueuedForDriver
    <3> QED
      BY <1>5, <3>1 DEF Ride!HandlerOf, DriverEvents, Replies, Ride!PassengerRejects
  <2>2. Ride!DriverApplies(d, tr, ok) /\ d \notin closed /\ closed' = closed /\ (declined => declined')
        /\ UNCHANGED <<ptrip, round, horizon>>
    BY <1>5 DEF Ride!DriverConsumes, Ride!Stepping, m
  <2>3. dtrip[d].passenger = m.from /\ dtrip[d].occupied
    <3>1. dtrip[d].state \notin Vacant /\ dtrip[d].passenger = m.from
      BY <1>5 DEF Ride!Hears, Ride!PassengerChannelOpen, Vacant
    <3>2. dtrip[d] \in DriverTrips
      BY <1>1 DEF RideTypes
    <3> QED
      BY <1>1, <3>1, <3>2 DEF DriverInv, DriverTrips
  <2>4. tr # "force_quit"
    BY <2>1 DEF Replies
  <2>5. /\ tr = "passenger_confirmed_trip" => Committed(dtrip[d].passenger, d)
        /\ tr = "passenger_acknowledge_pickup"
             => ptrip[dtrip[d].passenger].state \in Ride!Riding \cup Ride!Ended
        /\ tr = "passenger_acknowledge_dropoff"
             => ptrip[dtrip[d].passenger].state \in {"droppedoff"} \cup Ride!Ended
        /\ tr = "passenger_cancelled_trip" => ptrip[dtrip[d].passenger].state = "cancelled_trip"
    <3> HIDE DEF tr
    <3> QED
      BY <1>4, <2>1, <2>3 DEF Told
  <2>6. tr \in Replies \cup OwnMoves \cup {"force_quit"}
    BY <2>1
  <2> HIDE DEF tr
  <2> QED
    BY <1>3, <2>2, <2>3, <2>4, <2>5, <2>6, DriverGoes
<1>6. CASE ~(Ride!Hears(d, m) /\ m.event # Ride!PassengerRejects)
  <2>1. UNCHANGED <<dtrip, ptrip, net, closed, round, horizon>> /\ (declined => declined')
    BY <1>6 DEF Ride!DriverConsumes, m
  <2>2. RideTypes'
    BY <1>1, <1>3, <2>1 DEF RideTypes
  <2>3. \A a \in Ride!Agents : In(a)' \subseteq In(a)
    BY <1>3, <2>1 DEF In
  <2> QED
    BY <2>1, <2>2, <2>3, OnlyMail DEF Honest
<1> QED
  BY <1>5, <1>6

LEMMA DriverActsKeeps ==
  ASSUME RidersDistinct, RideInv, NEW d \in Drivers, NEW ok \in BOOLEAN, Ride!DriverActs(d, ok)
  PROVE  RideInv'
<1>1. PICK tr \in OwnMoves : Ride!Legal(Ride!DriverSM, dtrip[d], tr) /\ Ride!DriverApplies(d, tr, ok)
  BY DEF Ride!DriverActs, OwnMoves
<1>2. RideTypes /\ DriverInv(d) /\ dtrip[d] \in DriverTrips
  BY DEF RideInv, RideTypes
<1>3. dtrip[d].state \notin Vacant
  BY <1>1 DEF Ride!Legal, Ride!DriverSM, OwnMoves, Vacant
<1>4. dtrip[d].occupied
  BY <1>2, <1>3 DEF DriverInv, DriverTrips
<1>5. d \notin closed /\ closed' = closed /\ (declined => declined') /\ UNCHANGED <<ptrip, box, round, horizon>>
  BY DEF Ride!DriverActs, Ride!Stepping
<1>6. tr \notin Replies \cup {"force_quit"} /\ tr \in Replies \cup OwnMoves \cup {"force_quit"}
  BY DEF OwnMoves, Replies
<1>7. Boxes(box', QueuedForDriver, QueuedForPassenger)
        /\ \A a \in Ride!Agents : Held(box', a) \subseteq Held(box, a)
  BY <1>2, <1>5 DEF RideTypes
<1>8. /\ tr # "passenger_confirmed_trip" /\ tr # "passenger_acknowledge_pickup"
      /\ tr # "passenger_acknowledge_dropoff" /\ tr # "passenger_cancelled_trip" /\ tr # "force_quit"
  BY <1>6 DEF Replies
<1> QED
  BY <1>1, <1>4, <1>5, <1>6, <1>7, <1>8, DriverGoes
\* A driver between trips may take on any trip that is not under way.
LEMMA FreeDriverMoves ==
  ASSUME RidersDistinct, RideInv, NEW d \in Drivers, RideTypes', UNCHANGED <<ptrip, horizon, closed>>,
         d \notin closed,
         \A e \in Drivers : e # d => dtrip'[e] = dtrip[e], declined => declined',
         dtrip[d].state \notin Ride!OnTheWay \cup Ride!Carrying \/ dtrip[d].state = "droppedoff",
         dtrip'[d].state \in Vacant \cup {"received_trip", "rejected_trip"},
         dtrip'[d].occupied => dtrip'[d].passenger \in Passengers /\ dtrip'[d].state # "looking_for_job",
         ~dtrip'[d].occupied => dtrip'[d].state \in Vacant,
         \A e \in Drivers : In(e)' \subseteq In(e),
         \A p \in Passengers : \A m \in In(p)' : m \in In(p) \/ m.event \in Noise
  PROVE  RideInv'
<1>1. DriverInv(d)'
  BY DEF DriverInv, Vacant, Ride!OnTheWay, Ride!Carrying
<1>2. ASSUME NEW p \in Passengers
      PROVE  ~Meets(d, p) /\ (ptrip[p].state \in {"pickedup", "moving_for_dropoff"} => ~With(d, p))
  <2>1. DriverInv(d)
    BY DEF RideInv
  <2> QED
    BY <2>1 DEF DriverInv, Meets, With, Ride!OnTheWay, Ride!Carrying, Ride!Ended
<1>3. \A p \in Passengers : \A m \in In(p)' : m \in In(p) \/ Arrived(p, m)'
  BY DEF Noise, Ride!PassengerRejects, Arrived
<1> QED
  BY <1>1, <1>2, <1>3, DriverMoves

LEMMA DriverIsAssignedKeeps ==
  ASSUME RidersDistinct, RideInv, NEW d \in Drivers,
         NEW outcome \in Ride!Outcomes, Ride!DriverIsAssigned(d, outcome)
  PROVE  RideInv'
<1> DEFINE p == Head(net[d]).from
           rest == [net EXCEPT ![d] = Tail(@)]
<1>1. RideTypes /\ DriverInv(d) /\ d \in Ride!Agents /\ dtrip[d] \in DriverTrips
  BY DEF RideInv, Ride!Agents, RideTypes
<1>2. net[d] # <<>> /\ d \notin closed /\ UNCHANGED <<ptrip, box, round, horizon, closed>>
      /\ (declined => declined')
  BY DEF Ride!DriverIsAssigned, Ride!Stepping
<1>3. PICK r : r = rest
  OBVIOUS
<1>4. /\ Boxes(r, ForDriver, ForPassenger) /\ Head(net[d]) \in Held(net, d)
      /\ \A b \in Ride!Agents : Held(r, b) \subseteq Held(net, b)
  <2>1. Popped(net, d, r)
    BY <1>3 DEF Popped
  <2> QED
    BY <1>1, <1>2, <2>1, HeadOfNet
<1>5. p \in Passengers
  <2>1. Head(net[d]) \in ForDriver
    BY <1>1, <1>4 DEF RideTypes, Boxes, Held
  <2> QED
    BY <2>1 DEF ForDriver, QueuedForDriver
<1>6. CASE net' = r /\ dtrip' = dtrip
  <2>1. RideTypes'
    BY <1>1, <1>2, <1>4, <1>6 DEF RideTypes
  <2>2. \A a \in Ride!Agents : In(a)' \subseteq In(a)
    BY <1>2, <1>4, <1>6 DEF In
  <2> QED
    BY <1>2, <1>6, <2>1, <2>2, OnlyMail DEF Honest
<1>7. CASE ~dtrip[d].occupied
  <2> DEFINE t == CASE outcome = "ok"    -> Ride!OccupiedTrip(p, "received_trip")
                    [] outcome = "patch" -> Ride!OccupiedTrip(p, "init")
                    [] OTHER -> [dtrip[d] EXCEPT !.state = "completed_trip"]
  <2>1. /\ dtrip' = [dtrip EXCEPT ![d] = t]
        /\ net' = IF outcome # "ok" THEN r ELSE [r EXCEPT ![p] = Append(@, Ride!Msg("assigned", d))]
    BY <1>3, <1>7 DEF Ride!DriverIsAssigned
  <2>2. /\ t \in DriverTrips /\ t.state \in Vacant \cup {"received_trip", "rejected_trip"}
        /\ t.occupied => t.passenger \in Passengers /\ t.state # "looking_for_job"
        /\ ~t.occupied => t.state \in Vacant
    BY <1>1, <1>5, <1>7 DEF Ride!OccupiedTrip, DriverTrips, DriverStates, Vacant, Ride!Outcomes
  <2> HIDE DEF t, p
  <2>3. /\ dtrip' \in [Drivers -> DriverTrips] /\ dtrip'[d] = t
        /\ \A e \in Drivers : e # d => dtrip'[e] = dtrip[e]
    BY <1>1, <2>1, <2>2 DEF RideTypes
  <2>4. /\ Boxes(net', ForDriver, ForPassenger)
        /\ \A a \in Ride!Agents : \A m \in Held(net', a) :
             m \in Held(net, a) \/ (a \in Passengers /\ m.event = "assigned")
    <3>1. CASE outcome # "ok"
      BY <1>4, <2>1, <3>1
    <3>2. CASE outcome = "ok"
      <4> DEFINE m == Ride!Msg("assigned", d)
      <4>1. m \in ForPassenger /\ m.event = "assigned" /\ p \in Ride!Agents
        BY <1>5 DEF Ride!Msg, ForPassenger, Ride!Agents
      <4>2. Sent(r, p, m, net')
        BY <2>1, <3>2 DEF Sent
      <4> HIDE DEF m
      <4>3. /\ Boxes(net', ForDriver, ForPassenger) /\ Held(net', p) = Held(r, p) \cup {m}
            /\ \A b \in Ride!Agents : b # p => net'[b] = r[b]
        BY <1>4, <1>5, <4>1, <4>2, Sends
      <4>4. \A b \in Ride!Agents : b # p => Held(net', b) = Held(r, b)
        BY <4>3 DEF Held
      <4> QED
        BY <1>4, <1>5, <4>1, <4>3, <4>4
    <3> QED
      BY <3>1, <3>2
  <2>5. RideTypes'
    BY <1>1, <1>2, <2>3, <2>4 DEF RideTypes
  <2>6. /\ \A e \in Drivers : In(e)' \subseteq In(e)
        /\ \A q \in Passengers : \A m \in In(q)' : m \in In(q) \/ m.event \in Noise
    BY <1>2, <2>4 DEF In, Noise, Ride!Agents, RidersDistinct
  <2>7. dtrip[d].state \notin Ride!OnTheWay \cup Ride!Carrying
    BY <1>1, <1>7 DEF DriverInv, Vacant, Ride!OnTheWay, Ride!Carrying
  <2> QED
    BY <1>2, <2>2, <2>3, <2>5, <2>6, <2>7, FreeDriverMoves
<1> QED
  BY <1>3, <1>6, <1>7 DEF Ride!DriverIsAssigned

LEMMA DriverFreesKeeps ==
  ASSUME RidersDistinct, RideInv, NEW d \in Drivers, NEW tr \in {"end_trip", "reject"},
         NEW outcome \in Ride!Outcomes,
         Ride!DriverFrees(d, tr, outcome)
  PROVE  RideInv'
<1> DEFINE s == Ride!DriverSM[tr].to
           t == Ride!DriverFreed(d, s, outcome)
<1>1. RideTypes /\ DriverInv(d) /\ dtrip[d] \in DriverTrips
  BY DEF RideInv, RideTypes
<1>2. /\ d \notin closed /\ UNCHANGED <<ptrip, net, box, round, horizon, closed>> /\ (declined => declined')
      /\ dtrip' = [dtrip EXCEPT ![d] = t]
  BY DEF Ride!DriverFrees, Ride!Stepping
<1>3. /\ dtrip[d].state \in {"droppedoff", "looking_for_job", "received_trip"}
      /\ tr = "reject" => dtrip[d].state = "received_trip"
  BY DEF Ride!DriverFrees
<1>4. s = IF tr = "reject" THEN "rejected_trip" ELSE "completed_trip"
  BY DEF Ride!DriverSM
<1>5. /\ t \in DriverTrips /\ t.state \in Vacant \cup {"received_trip", "rejected_trip"}
      /\ t.occupied => t.passenger \in Passengers /\ t.state # "looking_for_job"
      /\ ~t.occupied => t.state \in Vacant
  <2> HIDE DEF s
  <2>1. CASE outcome = "ok"
    BY <2>1 DEF Ride!DriverFreed, Ride!NewTrip, DriverTrips, DriverStates, Vacant
  <2>2. CASE outcome = "patch"
    BY <2>2 DEF Ride!DriverFreed, Ride!NewTrip, DriverTrips, DriverStates, Vacant
  <2>3. CASE outcome = "post"
    <3>1. t = [dtrip[d] EXCEPT !.state = s]
      BY <2>3 DEF Ride!DriverFreed
    <3>2. tr = "reject" => dtrip[d].occupied
      BY <1>1, <1>3 DEF DriverInv, Vacant, DriverTrips
    <3>3. s \in DriverStates
      BY <1>4 DEF DriverStates
    <3> QED
      BY <1>1, <1>4, <3>1, <3>2, <3>3 DEF DriverInv, DriverTrips, Vacant
  <2> QED
    BY <2>1, <2>2, <2>3 DEF Ride!Outcomes
<1> HIDE DEF s, t
<1>6. /\ dtrip' \in [Drivers -> DriverTrips] /\ dtrip'[d] = t
      /\ \A e \in Drivers : e # d => dtrip'[e] = dtrip[e]
  BY <1>1, <1>2, <1>5 DEF RideTypes
<1>7. RideTypes' /\ \A a \in Ride!Agents : In(a)' = In(a)
  BY <1>1, <1>2, <1>6 DEF RideTypes, In
<1>8. dtrip[d].state \notin Ride!OnTheWay \cup Ride!Carrying \/ dtrip[d].state = "droppedoff"
  BY <1>3 DEF Ride!OnTheWay, Ride!Carrying
<1>9. Drivers \cup Passengers \subseteq Ride!Agents
  BY DEF Ride!Agents
<1> QED
  BY <1>2, <1>5, <1>6, <1>7, <1>8, <1>9, FreeDriverMoves
LEMMA DriverClosesKeeps ==
  ASSUME RidersDistinct, RideInv, NEW d \in Drivers, Ride!DriverCloses(d)
  PROVE  RideInv'
<1>1. RideTypes /\ DriverInv(d) /\ dtrip[d] \in DriverTrips
  BY DEF RideInv, RideTypes
<1>2. /\ closed' = closed \cup {d} /\ UNCHANGED <<ptrip, box, round, horizon, declined>>
      /\ horizon \/ dtrip[d].state = "init"
  BY DEF Ride!DriverCloses
<1>3. CASE dtrip[d].occupied
  <2>1. Ride!DriverApplies(d, "force_quit", TRUE)
    BY <1>3 DEF Ride!DriverCloses
  <2>2. Boxes(box', QueuedForDriver, QueuedForPassenger)
          /\ \A a \in Ride!Agents : Held(box', a) \subseteq Held(box, a)
    BY <1>1, <1>2 DEF RideTypes
  <2> DEFINE tr == "force_quit"
  <2>3. tr \in Replies \cup OwnMoves \cup {"force_quit"} /\ TRUE \in BOOLEAN
    OBVIOUS
  <2> QED
    BY <1>2, <1>3, <2>1, <2>2, <2>3, DriverGoes
<1>4. CASE ~dtrip[d].occupied
  <2> DEFINE goes == Ride!Legal(Ride!DriverSM, dtrip[d], "end_trip")
  <2>1. /\ dtrip' = IF goes THEN [dtrip EXCEPT ![d].state = Ride!DriverSM["end_trip"].to] ELSE dtrip
        /\ net' = IF goes THEN Ride!Notified(d, "end_trip", dtrip[d].passenger) ELSE net
    BY <1>4 DEF Ride!DriverCloses, Ride!DriverApplies
  <2>2. net' = net
    BY <2>1 DEF Ride!Notified, Ride!Interactions
  <2>3. dtrip[d].state \in Vacant
    BY <1>1, <1>4 DEF DriverInv
  <2>4. goes \/ dtrip[d].state = "completed_trip"
    BY <2>3 DEF Ride!Legal, Ride!DriverSM, Vacant
  <2>5. Ride!DriverSM["end_trip"].to = "completed_trip" /\ "completed_trip" \in DriverStates
    BY DEF Ride!DriverSM, DriverStates
  <2>6. /\ dtrip' \in [Drivers -> DriverTrips] /\ dtrip'[d].state = "completed_trip"
        /\ dtrip'[d].passenger = dtrip[d].passenger /\ dtrip'[d].occupied = dtrip[d].occupied
        /\ \A e \in Drivers : e # d => dtrip'[e] = dtrip[e]
    BY <1>1, <2>1, <2>4, <2>5 DEF RideTypes, DriverTrips
  <2>7. RideTypes'
    BY <1>1, <1>2, <2>2, <2>6 DEF RideTypes
  <2>8. \A a \in Ride!Agents : In(a)' = In(a)
    BY <1>2, <2>2 DEF In
  <2>9. DriverInv(d)'
    BY <1>4, <2>6 DEF DriverInv, Vacant, Ride!OnTheWay, Ride!Carrying, Ride!Ended
  <2>10. \A p \in Passengers : ~Meets(d, p) /\ ~With(d, p)
    BY <2>3 DEF Meets, With, Vacant, Ride!Carrying
  <2>11. Drivers \cup Passengers \subseteq Ride!Agents
    BY DEF Ride!Agents
  <2> QED
    BY <1>2, <2>6, <2>7, <2>8, <2>9, <2>10, <2>11, DriverMoves
<1> QED
  BY <1>3, <1>4

-----------------------------------------------------------------------------
(* The steps of a passenger.                                               *)

OwnChoices == {"accept", "reject", "wait_for_pickup", "end_trip", "cancel"}
PassengerAnswers == {"accept", "cancel", "driver_arrived_for_pickup", "driver_waiting_for_dropoff"}

\* What a passenger tells its driver when it applies a transition.
LEMMA PassengerNews ==
  ASSUME RidersDistinct, RideTypes, NEW p \in Passengers,
         NEW tr \in PassengerEvents \cup OwnChoices \cup {"force_quit"},
         NEW ok \in BOOLEAN, Ride!PassengerApplies(p, tr, ok)
  PROVE  /\ Boxes(net', ForDriver, ForPassenger)
         /\ \A q \in Passengers : net'[q] = net[q]
         /\ \A d \in Drivers : \A m \in Held(net', d) :
              \/ m \in Held(net, d)
              \/ /\ tr \in PassengerAnswers /\ ok /\ Ride!Legal(Ride!PassengerSM, ptrip[p], tr)
                 /\ d = ptrip[p].driver /\ m.from = p /\ m.event = Ride!Interactions[tr]
<1> DEFINE to == ptrip[p].driver
<1>1. CASE net' = net
  BY <1>1 DEF RideTypes
<1>2. CASE net' # net
  <2>1. ok /\ Ride!Legal(Ride!PassengerSM, ptrip[p], tr) /\ net' = Ride!Notified(p, tr, to)
    BY <1>2 DEF Ride!PassengerApplies
  <2>2. tr \in DOMAIN Ride!Interactions /\ to # None
          /\ net' = [net EXCEPT ![to] = Append(@, Ride!Msg(Ride!Interactions[tr], p))]
    BY <1>2, <2>1 DEF Ride!Notified
  <2>3. to \in Drivers
    BY <2>2 DEF RideTypes, PassengerTrips
  <2> DEFINE m == Ride!Msg(Ride!Interactions[tr], p)
  <2>4. tr \in PassengerAnswers
    BY <2>2 DEF Ride!Interactions, PassengerEvents, OwnChoices, PassengerAnswers
  <2>5. m \in ForDriver /\ m.from = p /\ m.event = Ride!Interactions[tr]
    <3>1. Ride!Interactions[tr] \in DriverEvents
      BY <2>4 DEF Ride!Interactions, PassengerAnswers, DriverEvents
    <3> QED
      BY <3>1 DEF Ride!Msg, QueuedForDriver, ForDriver
  <2> HIDE DEF m, to
  <2>6. to \in Ride!Agents /\ Sent(net, to, m, net')
    BY <2>2, <2>3 DEF m, Ride!Agents, Sent
  <2>7. Boxes(net, ForDriver, ForPassenger)
    BY DEF RideTypes
  <2>8. /\ Boxes(net', ForDriver, ForPassenger) /\ Held(net', to) = Held(net, to) \cup {m}
        /\ \A b \in Ride!Agents : b # to => net'[b] = net[b]
    BY <2>3, <2>5, <2>6, <2>7, Sends
  <2>9. \A q \in Passengers : q # to /\ q \in Ride!Agents
    BY <2>3 DEF RidersDistinct, Ride!Agents
  <2>10. \A d \in Drivers : d \in Ride!Agents
    BY DEF Ride!Agents
  <2> QED
    BY <2>1, <2>3, <2>4, <2>5, <2>8, <2>9, <2>10 DEF to, Held
<1> QED
  BY <1>1, <1>2
\* A passenger applies a transition its driver has given it reason for.
LEMMA PassengerGoes ==
  ASSUME RidersDistinct, RideInv, NEW p \in Passengers,
         NEW tr \in PassengerEvents \cup OwnChoices \cup {"force_quit"},
         NEW ok \in BOOLEAN, Ride!PassengerApplies(p, tr, ok),
         UNCHANGED <<dtrip, round, horizon>>,
         Boxes(box', QueuedForDriver, QueuedForPassenger),
         \A a \in Ride!Agents : Held(box', a) \subseteq Held(box, a),
         declined => declined',
         IF tr = "force_quit" THEN ok /\ closed' = closed \cup {p} ELSE p \notin closed /\ closed' = closed,
         tr = "driver_arrived_for_pickup" =>
           /\ ptrip[p].driver \in Drivers
           /\ Honest /\ Awaits(p) => Meets(ptrip[p].driver, p)
  PROVE  RideInv'
<1> DEFINE goes == ok /\ Ride!Legal(Ride!PassengerSM, ptrip[p], tr)
           t == ptrip[p]
           u == ptrip'[p]
<1>1. RideTypes /\ PassengerInv(p) /\ t \in PassengerTrips
  BY DEF RideInv, RideTypes
<1>2. /\ Boxes(net', ForDriver, ForPassenger)
      /\ \A q \in Passengers : net'[q] = net[q]
      /\ \A d \in Drivers : \A m \in Held(net', d) :
           \/ m \in Held(net, d)
           \/ tr \in PassengerAnswers /\ goes /\ d = t.driver /\ m.from = p /\ m.event = Ride!Interactions[tr]
  BY <1>1, PassengerNews
<1>3. ptrip' = IF goes THEN [ptrip EXCEPT ![p].state = Ride!PassengerSM[tr].to] ELSE ptrip
  BY DEF Ride!PassengerApplies
<1>4. Ride!PassengerSM[tr].to \in Ride!Unpicked \cup Ride!Riding \cup Ride!Ended
  BY DEF Ride!PassengerSM, PassengerEvents, OwnChoices, Ride!Unpicked, Ride!Riding, Ride!Ended
<1>5. /\ ptrip' \in [Passengers -> PassengerTrips] /\ \A q \in Passengers : q # p => ptrip'[q] = ptrip[q]
      /\ u.driver = t.driver /\ u.state = IF goes THEN Ride!PassengerSM[tr].to ELSE t.state
  BY <1>1, <1>3, <1>4 DEF RideTypes, PassengerTrips
<1>6. RideTypes'
  BY <1>1, <1>2, <1>5 DEF RideTypes
<1>7. goes => t.state \in Ride!PassengerSM[tr].from
  BY DEF Ride!Legal
<1>8. Onward(p)
  <2>1. CASE ~goes
    BY <1>5, <2>1 DEF Onward, Awaits
  <2>2. CASE goes
    <3>1. t.state \in Ride!PassengerSM[tr].from /\ u.state = Ride!PassengerSM[tr].to
      BY <1>5, <1>7, <2>2
    <3>2. /\ t.state \in Accepted => u.state \in Accepted
          /\ t.state \in Accepted /\ u.state \in {"accepted_trip", "waiting_for_pickup"} =>
               t.state \in {"accepted_trip", "waiting_for_pickup"}
          /\ t.state \in Ride!Riding \cup Ride!Ended => u.state \in Ride!Riding \cup Ride!Ended
          /\ t.state \in {"droppedoff"} \cup Ride!Ended => u.state \in {"droppedoff"} \cup Ride!Ended
          /\ t.state # "cancelled_trip"
      <4> HIDE DEF t, u, goes
      <4> QED
        BY <3>1 DEF Ride!PassengerSM, PassengerEvents, OwnChoices, Ride!Unpicked,
            Accepted, Ride!Riding, Ride!Ended
    <3> QED
      BY <1>5, <3>2 DEF Onward, Awaits
  <2> QED
    BY <2>1, <2>2
<1>9. PassengerInv(p)'
  <2>1. CASE ~goes
    <3>1. CASE tr = "force_quit"
      <4>1. t.state \notin Ride!PassengerSM["force_quit"].from
        BY <2>1, <3>1 DEF Ride!Legal
      <4>2. t.state \in Ride!Ended
        BY <1>1, <4>1 DEF Ride!PassengerSM, PassengerTrips, Ride!Unpicked, Ride!Riding, Ride!Ended
      <4> QED
        BY <1>5, <2>1, <4>2 DEF PassengerInv, Ride!Ended
    <3>2. CASE tr # "force_quit"
      <4>1. Honest' => Honest
        BY DEF Honest
      <4> QED
        BY <1>1, <1>5, <2>1, <3>2, <4>1 DEF PassengerInv, With
    <3> QED
      BY <3>1, <3>2
  <2>2. CASE goes
    <3>1. t.state \in Ride!PassengerSM[tr].from /\ u.state = Ride!PassengerSM[tr].to
      BY <1>5, <1>7, <2>2
    <3>2. /\ u.state = "pickedup" => tr = "driver_arrived_for_pickup" /\ Awaits(p)
          /\ u.state = "moving_for_dropoff" => t.state = "pickedup"
          /\ tr = "force_quit" => u.state \in Ride!Ended
      BY <3>1 DEF Ride!PassengerSM, PassengerEvents, OwnChoices, Awaits, Ride!Ended
    <3>3. Honest' => Honest
      BY DEF Honest
    <3>4. ASSUME Honest', u.state \in {"pickedup", "moving_for_dropoff"}
          PROVE  (ptrip[p].driver \in Drivers /\ With(ptrip[p].driver, p))'
      <4>1. CASE u.state = "pickedup"
        BY <1>5, <3>2, <3>3, <3>4, <4>1 DEF Meets, With
      <4>2. CASE u.state = "moving_for_dropoff"
        BY <1>1, <1>5, <3>2, <3>3, <3>4, <4>2 DEF PassengerInv, With
      <4> QED
        BY <3>4, <4>1, <4>2
    <3>5. p \in closed' => u.state \in Ride!Ended
      BY <3>2
    <3> QED
      BY <3>4, <3>5 DEF PassengerInv
  <2> QED
    BY <2>1, <2>2
<1>10. \A q \in Passengers : In(q)' \subseteq In(q)
  BY <1>2 DEF In, Held, Ride!Agents
<1>11. \A d \in Drivers : \A m \in In(d)' : m \in In(d) \/ Told(d, m)'
  <2> SUFFICES ASSUME NEW d \in Drivers, NEW m \in In(d)', m \notin In(d)
               PROVE  Told(d, m)'
    OBVIOUS
  <2>1. tr \in PassengerAnswers /\ goes /\ d = t.driver /\ m.from = p /\ m.event = Ride!Interactions[tr]
    BY <1>2 DEF In, Ride!Agents
  <2>2. u.state = Ride!PassengerSM[tr].to /\ u.driver = d
    BY <1>5, <2>1
  <2>3. /\ m.event = "passenger_confirmed_trip" => tr = "accept"
        /\ m.event = "passenger_acknowledge_pickup" => tr = "driver_arrived_for_pickup"
        /\ m.event = "passenger_acknowledge_dropoff" => tr = "driver_waiting_for_dropoff"
        /\ m.event = "passenger_cancel_trip" => tr = "cancel"
    BY <2>1 DEF PassengerAnswers, Ride!Interactions
  <2>4. /\ tr = "accept" => u.state = "accepted_trip"
        /\ tr = "driver_arrived_for_pickup" => u.state = "pickedup"
        /\ tr = "driver_waiting_for_dropoff" => u.state = "droppedoff"
        /\ tr = "cancel" => u.state = "cancelled_trip"
    BY <2>2 DEF Ride!PassengerSM
  <2> HIDE DEF u, t, goes
  <2>5. Committed(p, d)' <=> u.driver = d /\ u.state \in Accepted
    BY DEF Committed, u
  <2>6. /\ m.event = "passenger_confirmed_trip" => Committed(p, d)'
        /\ m.event = "passenger_acknowledge_pickup" => Committed(p, d)'
             /\ u.state \in Ride!Riding \cup Ride!Ended
        /\ m.event = "passenger_acknowledge_dropoff" => Committed(p, d)'
             /\ u.state \in {"droppedoff"} \cup Ride!Ended
        /\ m.event = "passenger_cancel_trip" => u.state = "cancelled_trip"
    BY <2>2, <2>3, <2>4, <2>5 DEF Accepted, Ride!Riding
  <2> QED
    BY <2>1, <2>6 DEF Told, u
<1>12. closed' \subseteq closed \cup {p}
  OBVIOUS
<1> QED
  BY <1>5, <1>6, <1>8, <1>9, <1>10, <1>11, <1>12, PassengerMoves
LEMMA PassengerConsumesKeeps ==
  ASSUME RidersDistinct, RideInv, NEW p \in Passengers, NEW ok \in BOOLEAN, Ride!PassengerConsumes(p, ok)
  PROVE  RideInv'
<1> DEFINE m == Head(box[p])
<1>1. RideTypes /\ p \in Ride!Agents
  BY DEF RideInv, Ride!Agents
<1>2. box[p] # <<>> /\ Popped(box, p, box')
  BY DEF Ride!PassengerConsumes, Popped
<1>3. /\ Boxes(box', QueuedForDriver, QueuedForPassenger) /\ m \in Held(box, p)
      /\ \A b \in Ride!Agents : Held(box', b) \subseteq Held(box, b)
  BY <1>1, <1>2, HeadOfBox
<1>4. m \in QueuedForPassenger /\ Arrived(p, m)
  <2>1. m \in QueuedForPassenger
    BY <1>1, <1>3 DEF RideTypes, Boxes, Held
  <2>2. m \in In(p)
    BY <1>3 DEF In
  <2> QED
    BY <2>1, <2>2 DEF RideInv, MailInv
<1> HIDE DEF m
<1>5. CASE Ride!DriverChannelOpen(ptrip[p].state) /\ ptrip[p].driver = m.from
  <2> DEFINE tr == m.event
  <2>1. tr \in PassengerEvents /\ m.from \in Drivers
    BY <1>4 DEF QueuedForPassenger
  <2>2. Ride!PassengerApplies(p, tr, ok) /\ p \notin closed /\ closed' = closed /\ (declined => declined')
        /\ UNCHANGED <<dtrip, round, horizon>>
    BY <1>5 DEF Ride!PassengerConsumes, Ride!Stepping, m
  <2>3. tr = "driver_arrived_for_pickup" =>
          /\ ptrip[p].driver \in Drivers
          /\ Honest /\ Awaits(p) => Meets(ptrip[p].driver, p)
    BY <1>4, <1>5, <2>1 DEF Arrived
  <2>4. tr # "force_quit" /\ tr \in PassengerEvents \cup OwnChoices \cup {"force_quit"}
    BY <2>1 DEF PassengerEvents
  <2> HIDE DEF tr
  <2> QED
    BY <1>3, <2>2, <2>3, <2>4, PassengerGoes
<1>6. CASE ~(Ride!DriverChannelOpen(ptrip[p].state) /\ ptrip[p].driver = m.from)
  <2>1. UNCHANGED <<dtrip, ptrip, net, closed, round, horizon>> /\ (declined => declined')
    BY <1>6 DEF Ride!PassengerConsumes, m
  <2>2. RideTypes'
    BY <1>1, <1>3, <2>1 DEF RideTypes
  <2>3. \A a \in Ride!Agents : In(a)' \subseteq In(a)
    BY <1>3, <2>1 DEF In
  <2> QED
    BY <2>1, <2>2, <2>3, OnlyMail DEF Honest
<1> QED
  BY <1>5, <1>6

\* The passenger's own choices: PassengerActs and PassengerGivesUp.
LEMMA PassengerChooses ==
  ASSUME RidersDistinct, RideInv, NEW p \in Passengers, NEW tr \in OwnChoices, NEW ok \in BOOLEAN,
         Ride!PassengerApplies(p, tr, ok), p \notin closed, declined => declined',
         UNCHANGED <<dtrip, box, round, horizon, closed>>
  PROVE  RideInv'
<1>1. Boxes(box', QueuedForDriver, QueuedForPassenger)
        /\ \A a \in Ride!Agents : Held(box', a) \subseteq Held(box, a)
  BY DEF RideInv, RideTypes
<1>2. tr # "force_quit" /\ tr # "driver_arrived_for_pickup"
      /\ tr \in PassengerEvents \cup OwnChoices \cup {"force_quit"}
  BY DEF OwnChoices
<1> QED
  BY <1>1, <1>2, PassengerGoes

LEMMA PassengerClosesKeeps ==
  ASSUME RidersDistinct, RideInv, NEW p \in Passengers, Ride!PassengerCloses(p)
  PROVE  RideInv'
<1> DEFINE tr == "force_quit"
<1>1. Ride!PassengerApplies(p, tr, TRUE) /\ closed' = closed \cup {p}
        /\ UNCHANGED <<dtrip, box, round, horizon, declined>>
  BY DEF Ride!PassengerCloses
<1>2. Boxes(box', QueuedForDriver, QueuedForPassenger)
        /\ \A a \in Ride!Agents : Held(box', a) \subseteq Held(box, a)
  BY <1>1 DEF RideInv, RideTypes
<1>3. tr \in PassengerEvents \cup OwnChoices \cup {"force_quit"} /\ TRUE \in BOOLEAN
  OBVIOUS
<1> QED
  BY <1>1, <1>2, <1>3, PassengerGoes

LEMMA PassengerIsAssignedKeeps ==
  ASSUME RidersDistinct, RideInv, NEW p \in Passengers, NEW ok \in BOOLEAN, Ride!PassengerIsAssigned(p, ok)
  PROVE  RideInv'
<1> DEFINE d == Head(net[p]).from
           rest == [net EXCEPT ![p] = Tail(@)]
<1>1. RideTypes /\ PassengerInv(p) /\ p \in Ride!Agents
  BY DEF RideInv, Ride!Agents
<1>2. net[p] # <<>> /\ p \notin closed /\ UNCHANGED <<dtrip, box, round, horizon, closed>>
      /\ (declined => declined')
  BY DEF Ride!PassengerIsAssigned, Ride!Stepping
<1>3. PICK r : r = rest
  OBVIOUS
<1>4. /\ Boxes(r, ForDriver, ForPassenger) /\ Head(net[p]) \in Held(net, p)
      /\ \A b \in Ride!Agents : Held(r, b) \subseteq Held(net, b)
  <2>1. Popped(net, p, r)
    BY <1>3 DEF Popped
  <2> QED
    BY <1>1, <1>2, <2>1, HeadOfNet
<1>5. d \in Drivers
  <2>1. Head(net[p]) \in ForPassenger
    BY <1>1, <1>4 DEF RideTypes, Boxes, Held
  <2> QED
    BY <2>1 DEF ForPassenger, QueuedForPassenger
<1>6. CASE Ride!TakesDriver(p) /\ ok
  <2> DEFINE t == [state |-> "assigned_trip", driver |-> d]
  <2>1. ptrip' = [ptrip EXCEPT ![p] = t] /\ net' = r /\ ptrip[p].state = "requested_trip"
    BY <1>3, <1>6 DEF Ride!PassengerIsAssigned, Ride!TakesDriver
  <2>2. t \in PassengerTrips /\ t.state = "assigned_trip"
    BY <1>5 DEF PassengerTrips, Ride!Unpicked
  <2> HIDE DEF t
  <2>3. /\ ptrip' \in [Passengers -> PassengerTrips] /\ ptrip'[p] = t
        /\ \A q \in Passengers : q # p => ptrip'[q] = ptrip[q]
    BY <1>1, <2>1, <2>2 DEF RideTypes
  <2>4. RideTypes'
    BY <1>1, <1>2, <1>4, <2>1, <2>3 DEF RideTypes
  <2>5. \A a \in Ride!Agents : In(a)' \subseteq In(a)
    BY <1>2, <1>4, <2>1 DEF In
  <2>6. Onward(p) /\ PassengerInv(p)'
    BY <1>2, <2>1, <2>2, <2>3 DEF Onward, PassengerInv, Accepted, Ride!Riding, Ride!Ended
  <2>7. Drivers \cup Passengers \subseteq Ride!Agents
    BY DEF Ride!Agents
  <2> QED
    BY <1>2, <2>3, <2>4, <2>5, <2>6, <2>7, PassengerMoves
<1>7. CASE ~(Ride!TakesDriver(p) /\ ok)
  <2> DEFINE m == Ride!Msg(Ride!PassengerRejects, p)
  <2>1. ptrip' = ptrip /\ net' = [r EXCEPT ![d] = Append(@, m)]
    BY <1>3, <1>7 DEF Ride!PassengerIsAssigned
  <2>2. m \in ForDriver /\ m.event \in Noise /\ d \in Ride!Agents
    BY <1>5 DEF Ride!Msg, Ride!PassengerRejects, Noise, ForDriver, QueuedForDriver, DriverEvents, Ride!Agents
  <2> HIDE DEF m, d
  <2>3. Sent(r, d, m, net')
    BY <2>1 DEF Sent
  <2>4. /\ Boxes(net', ForDriver, ForPassenger) /\ Held(net', d) = Held(r, d) \cup {m}
        /\ \A b \in Ride!Agents : b # d => net'[b] = r[b]
    BY <1>4, <1>5, <2>2, <2>3, Sends
  <2>5. \A b \in Ride!Agents : b # d => Held(net', b) = Held(r, b)
    BY <2>4 DEF Held
  <2>6. RideTypes'
    BY <1>1, <1>2, <2>1, <2>4 DEF RideTypes
  <2>7. \A a \in Ride!Agents : \A x \in In(a)' : x \in In(a) \/ x.event \in Noise
    BY <1>2, <1>4, <2>2, <2>4, <2>5 DEF In
  <2> QED
    BY <1>2, <2>1, <2>6, <2>7, OnlyMail DEF Honest
<1> QED
  BY <1>6, <1>7

-----------------------------------------------------------------------------
(* The assignment, and the theorem.                                        *)

LEMMA AssignKeeps ==
  ASSUME RidersDistinct, RideInv, Ride!AssignAndPublish
  PROVE  RideInv'
<1>1. RideTypes /\ net \in [Ride!Agents -> Seq(Mail)] /\ round.drivers \subseteq Drivers
  BY DEF RideInv, RideTypes, Boxes
<1>2. PICK m \in Ride!Matchings(round.drivers, Ride!RequestedTrips) :
        net' = [a \in Ride!Agents |->
                  IF a \in DOMAIN m THEN Append(net[a], Ride!Msg("requested_trip", m[a])) ELSE net[a]]
  BY DEF Ride!AssignAndPublish
<1>3. DOMAIN m \subseteq Drivers /\ \A d \in DOMAIN m : m[d] \in Passengers
  <2>1. PICK s \in SUBSET round.drivers : m \in [s -> Ride!RequestedTrips]
    BY DEF Ride!Matchings
  <2> QED
    BY <1>1, <2>1 DEF Ride!RequestedTrips
<1>4. ASSUME NEW a \in Ride!Agents
      PROVE  /\ net'[a] \in Seq(Mail)
             /\ \A x \in Held(net', a) :
                  x \in Held(net, a) \/ (a \in Drivers /\ x \in ForDriver /\ x.event = "requested_trip")
  <2>1. CASE a \in DOMAIN m
    <3> DEFINE x == Ride!Msg("requested_trip", m[a])
    <3>1. x \in ForDriver /\ x \in Mail /\ x.event = "requested_trip" /\ a \in Drivers
      BY <1>3, <2>1 DEF Ride!Msg, ForDriver, Mail
    <3>2. net'[a] = Append(net[a], x)
      BY <1>2, <2>1
    <3> HIDE DEF x
    <3>3. Append(net[a], x) \in Seq(Mail) /\ Elems(Append(net[a], x)) = Elems(net[a]) \cup {x}
      BY <1>1, <3>1, Appended
    <3> QED
      BY <3>1, <3>2, <3>3 DEF Held
  <2>2. CASE a \notin DOMAIN m
    BY <1>1, <1>2, <2>2 DEF Held
  <2> QED
    BY <2>1, <2>2
<1>5. net' \in [Ride!Agents -> Seq(Mail)]
  <2>1. net' = [a \in Ride!Agents |-> net'[a]]
    BY <1>2
  <2> QED
    BY <1>4, <2>1
<1>6. Boxes(net', ForDriver, ForPassenger)
  <2>1. Boxes(net, ForDriver, ForPassenger)
    BY <1>1 DEF RideTypes
  <2> QED
    BY <1>4, <1>5, <2>1 DEF Boxes, Held, Ride!Agents, RidersDistinct
<1>7. UNCHANGED <<dtrip, ptrip, box, horizon, closed, declined>> /\ round'.drivers \subseteq Drivers
  <2>1. round' = [round EXCEPT !.at = "idle", !.drivers = {}]
    BY DEF Ride!AssignAndPublish
  <2>2. round'.drivers \subseteq Drivers
    BY <1>1, <2>1
  <2> QED
    BY <2>2 DEF Ride!AssignAndPublish
<1>8. RideTypes'
  BY <1>1, <1>6, <1>7 DEF RideTypes
<1>9. \A a \in Ride!Agents : \A x \in In(a)' : x \in In(a) \/ x.event \in Noise
  BY <1>4, <1>7 DEF In, Noise
<1> QED
  BY <1>7, <1>8, <1>9, OnlyMail DEF Honest
LEMMA RideInitInv == ASSUME RidersDistinct, Ride!Init PROVE RideInv
<1>1. ASSUME NEW n, n = [a \in Ride!Agents |-> <<>>], NEW D, NEW P
      PROVE  Boxes(n, D, P) /\ \A a \in Ride!Agents : Held(n, a) = {}
  <2>1. n \in [Ride!Agents -> Seq(Mail)] /\ \A a \in Ride!Agents : n[a] = <<>> /\ Elems(n[a]) = {}
    BY <1>1 DEF Elems
  <2> QED
    BY <2>1 DEF Boxes, Held, Ride!Agents
<1>2. /\ Boxes(net, ForDriver, ForPassenger) /\ \A a \in Ride!Agents : Held(net, a) = {}
      /\ Boxes(box, QueuedForDriver, QueuedForPassenger) /\ \A a \in Ride!Agents : Held(box, a) = {}
  BY <1>1 DEF Ride!Init
<1>3. dtrip \in [Drivers -> DriverTrips] /\ \A d \in Drivers : dtrip[d].state = "looking_for_job"
        /\ ~dtrip[d].occupied
  BY DEF Ride!Init, Ride!NewTrip, DriverTrips, DriverStates
<1>4. ptrip \in [Passengers -> PassengerTrips] /\ \A p \in Passengers : ptrip[p].state = "requested_trip"
  BY DEF Ride!Init, PassengerTrips, Ride!Unpicked
<1>5. RideTypes
  BY <1>2, <1>3, <1>4 DEF RideTypes, Ride!Init
<1>6. MailInv
  BY <1>2 DEF MailInv, In, Ride!Agents
<1>7. \A d \in Drivers : DriverInv(d)
  BY <1>3 DEF DriverInv, Vacant, Ride!OnTheWay, Ride!Carrying, Ride!Init
<1>8. \A p \in Passengers : PassengerInv(p)
  BY <1>4 DEF PassengerInv, Ride!Init
<1> QED
  BY <1>5, <1>6, <1>7, <1>8 DEF RideInv

LEMMA RideNextInv == ASSUME RidersDistinct, RideInv, [Ride!Next]_(Ride!vars) PROVE RideInv'
<1>1. ASSUME NEW d \in Drivers, Ride!DriverNext(d) PROVE RideInv'
  <2>1. ASSUME NEW o \in Ride!Outcomes, Ride!DriverIsAssigned(d, o) PROVE RideInv'
    BY <2>1, DriverIsAssignedKeeps
  <2>2. ASSUME NEW o \in Ride!Outcomes, NEW tr \in {"end_trip", "reject"}, Ride!DriverFrees(d, tr, o)
          PROVE RideInv'
    BY <2>2, DriverFreesKeeps
  <2>3. ASSUME NEW ok \in BOOLEAN, Ride!DriverConsumes(d, ok) PROVE RideInv'
    BY <2>3, DriverConsumesKeeps
  <2>4. ASSUME NEW ok \in BOOLEAN, Ride!DriverActs(d, ok) PROVE RideInv'
    BY <2>4, DriverActsKeeps
  <2>5. CASE Ride!DriverCloses(d)
    BY <2>5, DriverClosesKeeps
  <2> QED
    BY <1>1, <2>1, <2>2, <2>3, <2>4, <2>5 DEF Ride!DriverNext
<1>2. ASSUME NEW p \in Passengers, Ride!PassengerNext(p) PROVE RideInv'
  <2>1. ASSUME NEW ok \in BOOLEAN, Ride!PassengerIsAssigned(p, ok) PROVE RideInv'
    BY <2>1, PassengerIsAssignedKeeps
  <2>2. ASSUME NEW ok \in BOOLEAN, Ride!PassengerConsumes(p, ok) PROVE RideInv'
    BY <2>2, PassengerConsumesKeeps
  <2>3. ASSUME NEW ok \in BOOLEAN, Ride!PassengerGivesUp(p, ok) PROVE RideInv'
    <3> DEFINE tr == "cancel"
    <3>1. tr \in OwnChoices /\ Ride!PassengerApplies(p, tr, ok) /\ p \notin closed /\ (declined => declined')
          /\ UNCHANGED <<dtrip, box, round, horizon, closed>>
      BY <2>3 DEF Ride!PassengerGivesUp, Ride!Stepping, OwnChoices
    <3> HIDE DEF tr
    <3> QED
      BY <3>1, PassengerChooses
  <2>4. ASSUME NEW ok \in BOOLEAN, NEW tr \in DOMAIN Ride!PassengerSM, Ride!PassengerActs(p, tr, ok)
          PROVE RideInv'
    <3>1. tr \in OwnChoices /\ Ride!PassengerApplies(p, tr, ok) /\ p \notin closed /\ (declined => declined')
          /\ UNCHANGED <<dtrip, box, round, horizon, closed>>
      BY <2>4 DEF Ride!PassengerActs, Ride!Stepping, OwnChoices
    <3> QED
      BY <3>1, PassengerChooses
  <2>5. CASE Ride!PassengerCloses(p)
    BY <2>5, PassengerClosesKeeps
  <2> QED
    BY <1>2, <2>1, <2>2, <2>3, <2>4, <2>5 DEF Ride!PassengerNext
<1>3. ASSUME NEW a \in Ride!Agents, Ride!Enqueue(a) PROVE RideInv'
  BY <1>3, EnqueueKeeps
<1>4. CASE Ride!GetDriverTrips
  <2>1. UNCHANGED <<dtrip, ptrip, net, box, horizon, closed, declined>> /\ round'.drivers \subseteq Drivers
    BY <1>4 DEF Ride!GetDriverTrips
  <2> QED
    BY <2>1, OnlyMail DEF RideInv, RideTypes, In, Honest
<1>5. CASE Ride!AssignAndPublish
  BY <1>5, AssignKeeps
<1>6. CASE Ride!RunEnds
  <2>1. UNCHANGED <<dtrip, ptrip, net, box, round, closed, declined>> /\ horizon'
    BY <1>6 DEF Ride!RunEnds
  <2> QED
    BY <2>1, OnlyMail DEF RideInv, RideTypes, In, Honest
<1>7. CASE UNCHANGED Ride!vars
  BY <1>7, OnlyMail DEF Ride!vars, RideInv, RideTypes, In, Honest
<1> QED
  BY <1>1, <1>2, <1>3, <1>4, <1>5, <1>6, <1>7 DEF Ride!Next

LEMMA RideInvSafe == ASSUME RideInv PROVE Ride!RideSafe
<1>1. Ride!OneDriverServes
  <2>1. \A d \in Drivers : dtrip[d].state \in Ride!OnTheWay \cup Ride!Carrying
          => ptrip[dtrip[d].passenger].driver = d
    BY DEF RideInv, DriverInv, Committed
  <2> QED
    BY <2>1 DEF Ride!OneDriverServes
<1>2. Ride!RidesAgree
  <2>1. ASSUME NEW d \in Drivers, dtrip[d].state \in Ride!Carrying
        PROVE  ptrip[dtrip[d].passenger].driver = d
          /\ ptrip[dtrip[d].passenger].state \in Ride!Riding \cup Ride!Ended
    BY <2>1 DEF RideInv, DriverInv, Committed
  <2>2. ASSUME NEW p \in Passengers, ptrip[p].state \in Ride!Riding, ~horizon,
                    ptrip[p].state # "droppedoff", ~declined
        PROVE  With(ptrip[p].driver, p)
    BY <2>2 DEF RideInv, PassengerInv, Ride!Riding, Honest
  <2> QED
    BY <2>1, <2>2 DEF Ride!RidesAgree, With
<1>3. Ride!NothingLeftOpen
  BY DEF Ride!NothingLeftOpen, RideInv, DriverInv, PassengerInv, Ride!Agents
<1> QED
  BY <1>1, <1>2, <1>3 DEF Ride!RideSafe

\* However assignments overlap, messages cross and writes fail: one driver at most
\* drives to a passenger or with it, both trip documents tell the same ride, and
\* no trip is left open when all agents have closed (handle_overbooking,
\* consume_messages, end_active_trip).
THEOREM RideSafeAlways == ASSUME RidersDistinct PROVE Ride!Spec => []RideSafe
<1>1. Ride!Init => RideInv
  BY RideInitInv
<1>2. RideInv /\ [Ride!Next]_(Ride!vars) => RideInv'
  BY RideNextInv
<1>3. RideInv => RideSafe
  BY RideInvSafe DEF RideSafe
<1> QED
  BY <1>1, <1>2, <1>3, PTL DEF Ride!Spec

=============================================================================
