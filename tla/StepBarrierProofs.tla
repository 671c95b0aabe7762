--------------------------- MODULE StepBarrierProofs ---------------------------
(***************************************************************************)
(* Proofs about the step barrier, for every set of agents, horizon,        *)
(* tolerance, nap and bound.  BarrierInv follows each agent's mailbox and  *)
(* reply queue from the broadcast to the ledger entry.                     *)
(***************************************************************************)
EXTENDS StepBarrier, FiniteSetTheorems, TLAPS

Broadcasts == [kind : {"step", "shutdown", "direct"}, t : Nat]
Replies == [t : Int, action : {"ready", "completed", "error", "shutdown"}, nap : Int]
InStep == phase \in {"wait", "reap"}

\* The stash has room for every agent, so that none is forgotten.
StashHolds == StashMax >= Cardinality(Agents)

-----------------------------------------------------------------------------
(* Types.                                                                  *)

ClockTypes ==
  /\ phase \in {"idle", "wait", "reap", "ended", "aborted"}
  /\ time \in 0 .. Horizon
  /\ ~RunOver => time < Horizon
  /\ InStep => (final <=> time = Horizon - 1)

SetTypes ==
  /\ coll \subseteq Agents /\ booting \subseteq coll /\ expected \subseteq Agents
  /\ responded \subseteq expected /\ stash \subseteq Agents /\ wakeTopics \subseteq Agents
  /\ stash \cap coll = {}
  /\ InStep => expected \subseteq coll /\ expected \cap booting = {}

LedgerTypes ==
  /\ sleepUntil \in [Agents -> Nat] /\ nap \in [Agents -> Nat]
  /\ life \in [Agents -> {"absent", "boot", "up", "down"}]
  /\ DOMAIN subscribed = Agents

QueueTypes ==
  /\ inbox \in [Agents -> Seq(Broadcasts)] /\ outbox \in [Agents -> Seq(Replies)]

-----------------------------------------------------------------------------
(* The counter.                                                            *)

Missing == Cardinality(expected \ responded)

CounterInv ==
  /\ tally \in Agents \cup {NoTally}
  /\ outstanding \in Int /\ outstanding <= Cardinality(expected)
  /\ outstanding = Missing \/ outstanding = Missing + (IF tally = NoTally THEN -1 ELSE 1)
  /\ ~straddled => outstanding = Missing + (IF tally = NoTally THEN 0 ELSE 1)

-----------------------------------------------------------------------------
(* One agent.                                                              *)

\* Who has not come up has heard and said nothing, and nobody has it on a list.
NotYetUp(a) ==
  /\ life[a] \in {"absent", "boot"} =>
       /\ inbox[a] = <<>> /\ outbox[a] = <<>> /\ ~subscribed[a]
       /\ nap[a] = Awake /\ sleepUntil[a] = Awake
  /\ life[a] = "absent" => a \notin coll \cup stash
  /\ life[a] = "boot" => a \in booting

\* What waits in the reply queue: nothing of the future; a report of readiness only
\* first and while the agent boots; naps only in completions; nothing but farewells after the
\* first farewell.
SaidInv(a) ==
  \A i \in 1 .. Len(outbox[a]) :
    /\ outbox[a][i].t \in -1 .. time
    /\ phase = "idle" => outbox[a][i].t < time
    /\ outbox[a][i].t = -1 => i = 1 /\ a \in booting
    /\ outbox[a][i].nap # 0 => outbox[a][i].action = "completed"
    /\ outbox[a][i].action = "shutdown" =>
         life[a] = "down" /\ \A j \in i .. Len(outbox[a]) : outbox[a][j].nap = 0

\* What waits in the mailbox of an agent that is up: one step after the other, all
\* of them later than what the agent has answered.
HeardInv(a) ==
  /\ \A i \in 1 .. Len(inbox[a]) :
       /\ inbox[a][i].t <= time
       /\ phase = "idle" => inbox[a][i].t < time
  /\ life[a] = "up" =>
       /\ \A i, j \in 1 .. Len(inbox[a]) :
            i < j /\ inbox[a][i].kind = "step" => inbox[a][i].t < inbox[a][j].t
       /\ \A i \in 1 .. Len(outbox[a]), j \in 1 .. Len(inbox[a]) : outbox[a][i].t < inbox[a][j].t
       /\ InStep /\ a \in responded => \A j \in 1 .. Len(inbox[a]) : inbox[a][j].t < time

\* Who is booting has said nothing that was heard; who bade farewell is down and will
\* not nap again; who is in neither list has
\* never come up or bade farewell.
GoneInv(a) ==
  /\ a \in booting => a \notin shutReplied /\ sleepUntil[a] = Awake
  /\ a \in shutReplied => life[a] = "down"
  /\ a \in shutReplied \/ (StashHolds /\ ~RunOver /\ a \notin coll \cup stash) =>
       /\ life[a] \in {"absent", "down"}
       /\ \A i \in 1 .. Len(outbox[a]) : outbox[a][i].nap = 0
  /\ StashHolds /\ ~RunOver /\ a \notin coll => sleepUntil[a] = Awake

\* A promise on the record is in the ledger, or it is the one answer to the current
\* step that the barrier is still waiting for.
Announced(a) ==
  /\ outbox[a] = <<>> /\ sleepUntil[a] = nap[a]
  /\ InStep /\ a \in expected => a \in responded
Announcing(a) ==
  /\ outbox[a] # <<>> /\ InStep /\ a \in expected /\ a \notin responded
  /\ LET n == Len(outbox[a])
         r == outbox[a][n]
     IN /\ r.t = time /\ r.action = "completed"
        /\ (r.nap < 0 /\ nap[a] = Inf) \/ (r.nap > 0 /\ nap[a] = time + r.nap)
        /\ \A i \in 1 .. n - 1 : outbox[a][i].t < time /\ outbox[a][i].t # -1
PromiseInv(a) ==
  ~RunOver /\ life[a] = "up" /\ nap[a] > time /\ a \notin offRecord => Announced(a) \/ Announcing(a)

AgentInv(a) == NotYetUp(a) /\ SaidInv(a) /\ HeardInv(a) /\ GoneInv(a) /\ PromiseInv(a)

BarrierInv ==
  /\ ClockTypes /\ SetTypes /\ LedgerTypes /\ QueueTypes /\ CounterInv
  /\ \A a \in Agents : AgentInv(a)

LEMMA ConstantTypes ==
  /\ IsFiniteSet(Agents) /\ NoTally \notin Agents /\ Orders \subseteq Agents /\ Horizon \in Nat \ {0}
  /\ AbortAfter \in Nat \ {0} /\ StashMax \in Nat /\ Naps \subseteq Int /\ Inf \in Nat /\ Inf > 0
  /\ Cardinality(Agents) \in Nat
BY BarrierAssumption, FS_CardinalityType

LEMMA InitInv == Init => BarrierInv
<1> SUFFICES ASSUME Init PROVE BarrierInv
  OBVIOUS
<1>1. ClockTypes /\ SetTypes
  BY ConstantTypes DEF Init, ClockTypes, SetTypes, RunOver, InStep
<1>2. LedgerTypes
  BY DEF Init, LedgerTypes, Awake
<1>3. QueueTypes
  BY DEF Init, QueueTypes
<1>4. CounterInv
  <2>1. Missing = 0 /\ Cardinality(expected) = 0
    BY FS_EmptySet DEF Init, Missing
  <2> QED
    BY <2>1 DEF Init, CounterInv
<1>5. ASSUME NEW a \in Agents PROVE AgentInv(a)
  BY DEF Init, AgentInv, NotYetUp, SaidInv, HeardInv, GoneInv, PromiseInv, Awake, InStep
<1> QED
  BY <1>1, <1>2, <1>3, <1>4, <1>5 DEF BarrierInv

-----------------------------------------------------------------------------
(* Queues.                                                                 *)

LEMMA TailFacts ==
  ASSUME NEW S, NEW s \in Seq(S), s # <<>>
  PROVE  /\ Tail(s) \in Seq(S) /\ Len(s) \in Nat /\ Len(s) >= 1 /\ Len(Tail(s)) = Len(s) - 1
         /\ Head(s) = s[1] /\ s[1] \in S
         /\ \A i \in 1 .. Len(s) - 1 : Tail(s)[i] = s[i + 1]
OBVIOUS

LEMMA AppendFacts ==
  ASSUME NEW S, NEW s \in Seq(S), NEW x \in S
  PROVE  /\ Append(s, x) \in Seq(S) /\ Len(s) \in Nat /\ Len(Append(s, x)) = Len(s) + 1
         /\ Append(s, x)[Len(s) + 1] = x
         /\ \A i \in 1 .. Len(s) : Append(s, x)[i] = s[i]
         /\ Append(s, x) # <<>>
OBVIOUS

LEMMA EmptyIsZero ==
  ASSUME NEW S, NEW s \in Seq(S)
  PROVE  s = <<>> <=> Len(s) = 0
OBVIOUS

-----------------------------------------------------------------------------
(* Steps that leave the lists, the ledger and the agents alone.            *)

\* An agent none of whose own state changes, in a step of another agent.
LEMMA OtherAgent ==
  ASSUME NEW b \in Agents, AgentInv(b), UNCHANGED schedVars,
         life'[b] = life[b], nap'[b] = nap[b], inbox'[b] = inbox[b], outbox'[b] = outbox[b],
         subscribed'[b] = subscribed[b], b \in offRecord' <=> b \in offRecord
  PROVE  AgentInv(b)'
<1> USE DEF AgentInv, schedVars
<1>1. NotYetUp(b)'
  BY DEF NotYetUp
<1>2. SaidInv(b)'
  BY DEF SaidInv
<1>3. HeardInv(b)'
  BY DEF HeardInv, InStep
<1>4. GoneInv(b)'
  BY DEF GoneInv, RunOver
<1>5. PromiseInv(b)'
  BY DEF PromiseInv, Announced, Announcing, InStep, RunOver
<1> QED
  BY <1>1, <1>2, <1>3, <1>4, <1>5

LEMMA SchedulerFrame ==
  ASSUME BarrierInv, UNCHANGED <<schedVars, tally, straddled>>
  PROVE  ClockTypes' /\ SetTypes' /\ CounterInv'
<1>1. ClockTypes' /\ SetTypes'
  BY DEF BarrierInv, schedVars, ClockTypes, SetTypes, RunOver, InStep
<1>2. CounterInv'
  BY DEF BarrierInv, schedVars, CounterInv, Missing
<1> QED
  BY <1>1, <1>2

\* A step of agent a: what remains to show is about a.
LEMMA AgentStep ==
  ASSUME BarrierInv, NEW a \in Agents, UNCHANGED <<schedVars, tally, straddled>>,
         LedgerTypes', QueueTypes', AgentInv(a)',
         \A b \in Agents \ {a} :
            /\ life'[b] = life[b] /\ nap'[b] = nap[b] /\ inbox'[b] = inbox[b] /\ outbox'[b] = outbox[b]
            /\ subscribed'[b] = subscribed[b] /\ (b \in offRecord' <=> b \in offRecord)
  PROVE  BarrierInv'
<1>1. ClockTypes' /\ SetTypes' /\ CounterInv'
  BY SchedulerFrame
<1>2. ASSUME NEW b \in Agents PROVE AgentInv(b)'
  <2>1. CASE b = a
    BY <2>1, Zenon
  <2>2. CASE b # a
    BY <2>2, OtherAgent DEF BarrierInv
  <2> QED
    BY <2>1, <2>2
<1> QED
  BY <1>1, <1>2 DEF BarrierInv

-----------------------------------------------------------------------------
(* The agents.                                                             *)

LEMMA BootStep ==
  ASSUME BarrierInv, NEW a \in Agents, Boot(a)
  PROVE  BarrierInv'
<1> DEFINE r == Reply(-1, "ready", 0)
<1>1. /\ life[a] = "boot" /\ life' = [life EXCEPT ![a] = "up"]
      /\ subscribed' = [subscribed EXCEPT ![a] = TRUE]
      /\ outbox' = [outbox EXCEPT ![a] = Append(@, r)]
      /\ UNCHANGED <<schedVars, nap, inbox, tally, offRecord, straddled>>
  BY DEF Boot, Say
<1>2. AgentInv(a) /\ SetTypes /\ LedgerTypes /\ QueueTypes /\ ClockTypes
  BY DEF BarrierInv
<1>3. r \in Replies /\ r.t = -1 /\ r.action = "ready" /\ r.nap = 0
  BY DEF Reply, Replies
<1> HIDE DEF r
<1>4. /\ outbox[a] = <<>> /\ inbox[a] = <<>> /\ nap[a] = 0 /\ a \in booting /\ a \in coll
      /\ a \notin shutReplied
  BY <1>1, <1>2 DEF AgentInv, NotYetUp, GoneInv, SetTypes, Awake
<1>5. LedgerTypes'
  BY <1>1, <1>2 DEF LedgerTypes, schedVars
<1>6. outbox'[a] = Append(outbox[a], r) /\ life'[a] = "up" /\ nap'[a] = 0 /\ inbox'[a] = <<>>
  BY <1>1, <1>2, <1>4 DEF LedgerTypes, QueueTypes
<1>7. Len(outbox'[a]) = 1 /\ outbox'[a][1] = r
  BY <1>3, <1>4, <1>6
<1>8. QueueTypes'
  BY <1>1, <1>2, <1>3, AppendFacts DEF QueueTypes
<1>9. AgentInv(a)'
  <2>1. UNCHANGED <<time, phase, booting, coll, stash, shutReplied, sleepUntil, responded>> /\ time \in Nat
    BY <1>1, <1>2, ConstantTypes DEF schedVars, ClockTypes
  <2>2. NotYetUp(a)'
    BY <1>6 DEF NotYetUp
  <2>3. SaidInv(a)'
    BY <1>3, <1>4, <1>7, <2>1 DEF SaidInv
  <2>4. HeardInv(a)'
    BY <1>6 DEF HeardInv
  <2>5. GoneInv(a)'
    BY <1>2, <1>4, <2>1 DEF GoneInv, AgentInv
  <2>6. PromiseInv(a)'
    BY <1>6, <2>1 DEF PromiseInv
  <2> QED
    BY <2>2, <2>3, <2>4, <2>5, <2>6 DEF AgentInv
<1>10. \A b \in Agents \ {a} :
         /\ life'[b] = life[b] /\ nap'[b] = nap[b] /\ inbox'[b] = inbox[b] /\ outbox'[b] = outbox[b]
         /\ subscribed'[b] = subscribed[b] /\ (b \in offRecord' <=> b \in offRecord)
  BY <1>1, <1>2 DEF LedgerTypes, QueueTypes
<1> QED
  BY <1>1, <1>5, <1>8, <1>9, <1>10, AgentStep

\* Events, and sleepers that listen again: only the subscription changes.
LEMMA ListenStep ==
  ASSUME BarrierInv, NEW a \in Agents, AppEvent(a) \/ Refresh(a)
  PROVE  BarrierInv'
<1>1. /\ life[a] = "up" /\ UNCHANGED <<schedVars, life, nap, inbox, outbox, tally, offRecord, straddled>>
      /\ DOMAIN subscribed' = DOMAIN subscribed
  BY DEF AppEvent, Refresh
<1>2. AgentInv(a) /\ LedgerTypes /\ QueueTypes
  BY DEF BarrierInv
<1>3. \A b \in Agents \ {a} : subscribed'[b] = subscribed[b]
  BY <1>2 DEF AppEvent, Refresh, LedgerTypes
<1>4. LedgerTypes' /\ QueueTypes'
  BY <1>1, <1>2 DEF LedgerTypes, QueueTypes, schedVars
<1>5. AgentInv(a)'
  <2>1. NotYetUp(a)'
    BY <1>1 DEF NotYetUp
  <2>2. SaidInv(a)' /\ HeardInv(a)' /\ GoneInv(a)' /\ PromiseInv(a)'
    BY <1>1, <1>2 DEF AgentInv, SaidInv, HeardInv, GoneInv, PromiseInv, Announced, Announcing, InStep,
       RunOver, schedVars
  <2> QED
    BY <2>1, <2>2 DEF AgentInv
<1> QED
  BY <1>1, <1>3, <1>4, <1>5, AgentStep

LEMMA OrphanStep ==
  ASSUME BarrierInv, NEW a \in Agents, Orphan(a)
  PROVE  BarrierInv'
<1>1. /\ life' = [life EXCEPT ![a] = "down"] /\ RunOver
      /\ UNCHANGED <<schedVars, nap, subscribed, inbox, outbox, tally, offRecord, straddled>>
  BY DEF Orphan, Abandoned
<1>2. AgentInv(a) /\ LedgerTypes /\ QueueTypes
  BY DEF BarrierInv
<1>3. LedgerTypes' /\ QueueTypes' /\ life'[a] = "down"
  BY <1>1, <1>2 DEF LedgerTypes, QueueTypes, schedVars
<1>4. AgentInv(a)'
  <2>1. NotYetUp(a)' /\ PromiseInv(a)'
    BY <1>3 DEF NotYetUp, PromiseInv
  <2>2. SaidInv(a)'
    BY <1>1, <1>2, <1>3 DEF AgentInv, SaidInv, schedVars
  <2>3. HeardInv(a)'
    BY <1>1, <1>2, <1>3 DEF AgentInv, HeardInv, schedVars
  <2>4. GoneInv(a)'
    BY <1>1, <1>2, <1>3 DEF AgentInv, GoneInv, RunOver, schedVars
  <2> QED
    BY <2>1, <2>2, <2>3, <2>4 DEF AgentInv
<1>5. \A b \in Agents \ {a} : life'[b] = life[b]
  BY <1>1, <1>2 DEF LedgerTypes
<1> QED
  BY <1>1, <1>3, <1>4, <1>5, AgentStep

\* Taking the first broadcast out of a mailbox.
LEMMA TakeKeepsHeard ==
  ASSUME BarrierInv, NEW a \in Agents, inbox[a] # <<>>, Take(a)
  PROVE  /\ inbox' \in [Agents -> Seq(Broadcasts)] /\ Head(inbox[a]) = inbox[a][1]
         /\ inbox[a][1] \in Broadcasts /\ life[a] \in {"up", "down"}
         /\ Len(inbox[a]) \in Nat /\ Len(inbox[a]) >= 1 /\ Len(inbox'[a]) = Len(inbox[a]) - 1
         /\ \A i \in 1 .. Len(inbox'[a]) : inbox'[a][i] = inbox[a][i + 1] /\ inbox'[a][i] \in Broadcasts
         /\ \A b \in Agents \ {a} : inbox'[b] = inbox[b]
<1>1. inbox \in [Agents -> Seq(Broadcasts)] /\ inbox[a] \in Seq(Broadcasts)
  BY DEF BarrierInv, QueueTypes
<1>2. inbox' = [inbox EXCEPT ![a] = Tail(inbox[a])] /\ inbox'[a] = Tail(inbox[a])
  BY <1>1 DEF Take
<1>3. /\ Tail(inbox[a]) \in Seq(Broadcasts) /\ Len(inbox[a]) \in Nat /\ Len(inbox[a]) >= 1
      /\ Len(Tail(inbox[a])) = Len(inbox[a]) - 1
      /\ Head(inbox[a]) = inbox[a][1] /\ inbox[a][1] \in Broadcasts
      /\ \A i \in 1 .. Len(inbox[a]) - 1 : Tail(inbox[a])[i] = inbox[a][i + 1]
  BY <1>1, TailFacts
<1>4. inbox' \in [Agents -> Seq(Broadcasts)] /\ \A b \in Agents \ {a} : inbox'[b] = inbox[b]
  BY <1>1, <1>2, <1>3
<1>5. life[a] \in {"up", "down"}
  BY DEF BarrierInv, AgentInv, NotYetUp, LedgerTypes
<1>6. \A i \in 1 .. Len(inbox'[a]) : inbox'[a][i] \in Broadcasts
  BY <1>2, <1>3
<1> QED
  BY <1>2, <1>3, <1>4, <1>5, <1>6

\* What the order of the mailbox says of what is left after the first broadcast.
LEMMA HeardAfterTake ==
  ASSUME BarrierInv, NEW a \in Agents, inbox[a] # <<>>, Take(a)
  PROVE  /\ inbox[a][1].t \in 0 .. time /\ (phase = "idle" => inbox[a][1].t < time)
         /\ \A i \in 1 .. Len(inbox'[a]) :
              /\ inbox'[a][i].t \in 0 .. time /\ (phase = "idle" => inbox'[a][i].t < time)
              /\ life[a] = "up" /\ inbox[a][1].kind = "step" => inbox[a][1].t < inbox'[a][i].t
              /\ life[a] = "up" => \A k \in 1 .. Len(outbox[a]) : outbox[a][k].t < inbox'[a][i].t
              /\ life[a] = "up" /\ InStep /\ a \in responded => inbox'[a][i].t < time
         /\ life[a] = "up" =>
              \A i, j \in 1 .. Len(inbox'[a]) :
                 i < j /\ inbox'[a][i].kind = "step" => inbox'[a][i].t < inbox'[a][j].t
<1>1. /\ inbox[a][1] \in Broadcasts
      /\ Len(inbox[a]) \in Nat /\ Len(inbox[a]) >= 1 /\ Len(inbox'[a]) = Len(inbox[a]) - 1
      /\ \A i \in 1 .. Len(inbox'[a]) : inbox'[a][i] = inbox[a][i + 1] /\ inbox'[a][i] \in Broadcasts
  BY TakeKeepsHeard
<1>2. HeardInv(a) /\ time \in Nat
  BY ConstantTypes DEF BarrierInv, AgentInv, ClockTypes
<1>3. inbox[a][1].t \in 0 .. time /\ (phase = "idle" => inbox[a][1].t < time)
  BY <1>1, <1>2 DEF HeardInv, Broadcasts
<1>4. ASSUME NEW i \in 1 .. Len(inbox'[a])
      PROVE  i + 1 \in 1 .. Len(inbox[a]) /\ i + 1 > 1 /\ i \in Int
  BY <1>1
<1>5. ASSUME NEW i \in 1 .. Len(inbox'[a])
      PROVE  /\ inbox'[a][i].t \in 0 .. time /\ (phase = "idle" => inbox'[a][i].t < time)
             /\ life[a] = "up" /\ inbox[a][1].kind = "step" => inbox[a][1].t < inbox'[a][i].t
             /\ life[a] = "up" => \A k \in 1 .. Len(outbox[a]) : outbox[a][k].t < inbox'[a][i].t
             /\ life[a] = "up" /\ InStep /\ a \in responded => inbox'[a][i].t < time
  <2>1. PICK k \in 1 .. Len(inbox[a]) : k = i + 1 /\ k > 1
    BY <1>4
  <2>2. inbox'[a][i] = inbox[a][k] /\ inbox[a][k] \in Broadcasts /\ inbox[a][k].t \in Nat
    BY <1>1, <2>1 DEF Broadcasts
  <2>3. inbox[a][k].t <= time /\ (phase = "idle" => inbox[a][k].t < time)
    BY <1>2 DEF HeardInv
  <2>4. life[a] = "up" /\ inbox[a][1].kind = "step" => inbox[a][1].t < inbox[a][k].t
    BY <1>1, <1>2, <2>1 DEF HeardInv
  <2>5. life[a] = "up" => \A l \in 1 .. Len(outbox[a]) : outbox[a][l].t < inbox[a][k].t
    BY <1>2 DEF HeardInv
  <2>6. life[a] = "up" /\ InStep /\ a \in responded => inbox[a][k].t < time
    BY <1>2 DEF HeardInv
  <2> QED
    BY <1>2, <2>2, <2>3, <2>4, <2>5, <2>6
<1>6. ASSUME life[a] = "up", NEW i \in 1 .. Len(inbox'[a]), NEW j \in 1 .. Len(inbox'[a]),
             i < j, inbox'[a][i].kind = "step"
      PROVE  inbox'[a][i].t < inbox'[a][j].t
  <2>1. PICK k \in 1 .. Len(inbox[a]), l \in 1 .. Len(inbox[a]) : k = i + 1 /\ l = j + 1 /\ k < l
    BY <1>4, <1>6
  <2>2. inbox'[a][i] = inbox[a][k] /\ inbox'[a][j] = inbox[a][l]
    BY <1>1, <2>1
  <2> QED
    BY <1>2, <1>6, <2>1, <2>2 DEF HeardInv
<1> QED
  BY <1>3, <1>5, <1>6

LEMMA SwallowStep ==
  ASSUME BarrierInv, NEW a \in Agents, Swallow(a)
  PROVE  BarrierInv'
<1>1. /\ inbox[a] # <<>> /\ Take(a) /\ DOMAIN subscribed' = DOMAIN subscribed
      /\ UNCHANGED <<schedVars, life, nap, outbox, tally, offRecord, straddled>>
  BY DEF Swallow
<1>2. AgentInv(a) /\ LedgerTypes /\ QueueTypes /\ ClockTypes
  BY DEF BarrierInv
<1>3. \A b \in Agents \ {a} : subscribed'[b] = subscribed[b]
  BY <1>2 DEF Swallow, LedgerTypes
<1>4. /\ inbox' \in [Agents -> Seq(Broadcasts)] /\ life[a] \in {"up", "down"}
      /\ Len(inbox[a]) \in Nat /\ Len(inbox[a]) >= 1 /\ Len(inbox'[a]) = Len(inbox[a]) - 1
      /\ \A i \in 1 .. Len(inbox'[a]) : inbox'[a][i] = inbox[a][i + 1]
      /\ \A b \in Agents \ {a} : inbox'[b] = inbox[b]
  BY <1>1, TakeKeepsHeard
<1>5. LedgerTypes' /\ QueueTypes'
  BY <1>1, <1>2, <1>4 DEF LedgerTypes, QueueTypes, schedVars
<1>6. AgentInv(a)'
  <2>1. NotYetUp(a)'
    BY <1>1, <1>4 DEF NotYetUp
  <2>2. SaidInv(a)' /\ GoneInv(a)' /\ PromiseInv(a)'
    BY <1>1, <1>2 DEF AgentInv, SaidInv, GoneInv, PromiseInv, Announced, Announcing, InStep, RunOver, schedVars
  <2>3. HeardInv(a)'
    BY <1>1, HeardAfterTake DEF HeardInv, InStep, schedVars
  <2> QED
    BY <2>1, <2>2, <2>3 DEF AgentInv
<1> QED
  BY <1>1, <1>3, <1>4, <1>5, <1>6, AgentStep

\* Saying something.
LEMMA SayKeepsSaid ==
  ASSUME BarrierInv, NEW a \in Agents, NEW r \in Replies, Say(a, r)
  PROVE  /\ outbox' \in [Agents -> Seq(Replies)]
         /\ Len(outbox[a]) \in Nat /\ Len(outbox'[a]) = Len(outbox[a]) + 1
         /\ outbox'[a][Len(outbox[a]) + 1] = r /\ outbox'[a] # <<>>
         /\ \A i \in 1 .. Len(outbox[a]) : outbox'[a][i] = outbox[a][i] /\ outbox[a][i] \in Replies
         /\ \A b \in Agents \ {a} : outbox'[b] = outbox[b]
<1>1. outbox \in [Agents -> Seq(Replies)] /\ outbox[a] \in Seq(Replies)
  BY DEF BarrierInv, QueueTypes
<1>2. outbox' = [outbox EXCEPT ![a] = Append(outbox[a], r)] /\ outbox'[a] = Append(outbox[a], r)
  BY <1>1 DEF Say
<1>3. /\ Append(outbox[a], r) \in Seq(Replies) /\ Len(outbox[a]) \in Nat
      /\ Len(Append(outbox[a], r)) = Len(outbox[a]) + 1
      /\ Append(outbox[a], r)[Len(outbox[a]) + 1] = r
      /\ \A i \in 1 .. Len(outbox[a]) : Append(outbox[a], r)[i] = outbox[a][i]
      /\ Append(outbox[a], r) # <<>>
  BY <1>1, AppendFacts
<1>4. outbox' \in [Agents -> Seq(Replies)] /\ \A b \in Agents \ {a} : outbox'[b] = outbox[b]
  BY <1>1, <1>2, <1>3
<1>5. \A i \in 1 .. Len(outbox[a]) : outbox[a][i] \in Replies
  BY <1>1
<1> QED
  BY <1>2, <1>3, <1>4, <1>5

\* An agent answers a broadcast it has: with a nap only on completion, with a
\* farewell only when it goes down.
LEMMA SaidMore ==
  ASSUME BarrierInv, NEW a \in Agents, NEW r \in Replies, Say(a, r), UNCHANGED <<time, phase, booting>>,
         r.t \in Nat, r.t <= time, phase = "idle" => r.t < time,
         r.nap # 0 => r.action = "completed",
         r.action = "shutdown" => r.nap = 0 /\ life'[a] = "down",
         life'[a] = life[a] \/ life'[a] = "down", life[a] = "up" \/ r.nap = 0
  PROVE  SaidInv(a)'
<1>1. /\ Len(outbox[a]) \in Nat /\ Len(outbox'[a]) = Len(outbox[a]) + 1
      /\ outbox'[a][Len(outbox[a]) + 1] = r
      /\ \A i \in 1 .. Len(outbox[a]) : outbox'[a][i] = outbox[a][i] /\ outbox[a][i] \in Replies
  BY SayKeepsSaid
<1>2. SaidInv(a) /\ time \in Nat
  BY ConstantTypes DEF BarrierInv, AgentInv, ClockTypes
<1> DEFINE n == Len(outbox[a])
           Fine(i) == /\ outbox'[a][i].t \in -1 .. time'
                      /\ phase' = "idle" => outbox'[a][i].t < time'
                      /\ outbox'[a][i].t = -1 => i = 1 /\ a \in booting'
                      /\ outbox'[a][i].nap # 0 => outbox'[a][i].action = "completed"
                      /\ outbox'[a][i].action = "shutdown" =>
                           life'[a] = "down" /\ \A j \in i .. Len(outbox'[a]) : outbox'[a][j].nap = 0
<1>3. Fine(n + 1)
  BY <1>1, <1>2 DEF Replies
<1>4. ASSUME NEW i \in 1 .. n PROVE Fine(i)
  <2>1. outbox'[a][i] = outbox[a][i] /\ outbox[a][i] \in Replies
    BY <1>1
  <2>2. /\ outbox[a][i].t \in -1 .. time
        /\ phase = "idle" => outbox[a][i].t < time
        /\ outbox[a][i].t = -1 => i = 1 /\ a \in booting
        /\ outbox[a][i].nap # 0 => outbox[a][i].action = "completed"
    BY <1>2 DEF SaidInv
  <2>3. ASSUME outbox[a][i].action = "shutdown"
        PROVE  life'[a] = "down" /\ \A j \in i .. n + 1 : outbox'[a][j].nap = 0
    <3>1. life[a] = "down" /\ \A j \in i .. n : outbox[a][j].nap = 0
      BY <1>2, <2>3 DEF SaidInv
    <3>2. r.nap = 0 /\ life'[a] = "down"
      BY <3>1
    <3>3. ASSUME NEW j \in i .. n + 1 PROVE outbox'[a][j].nap = 0
      <4>1. CASE j = n + 1
        BY <1>1, <3>2, <4>1
      <4>2. CASE j # n + 1
        <5>1. j \in i .. n /\ j \in 1 .. n
          BY <1>1, <4>2
        <5> QED
          BY <1>1, <3>1, <5>1
      <4> QED
        BY <4>1, <4>2
    <3> QED
      BY <3>2, <3>3
  <2> QED
    BY <1>1, <2>1, <2>2, <2>3
<1>5. \A i \in 1 .. Len(outbox'[a]) : Fine(i)
  <2> SUFFICES ASSUME NEW i \in 1 .. Len(outbox'[a]) PROVE Fine(i)
    OBVIOUS
  <2>1. i \in 1 .. n \/ i = n + 1
    BY <1>1
  <2> HIDE DEF Fine, n
  <2> QED
    BY <1>3, <1>4, <2>1
<1> QED
  BY <1>5 DEF SaidInv

LEMMA HearShutdownStep ==
  ASSUME BarrierInv, NEW a \in Agents, HearShutdown(a)
  PROVE  BarrierInv'
<1> DEFINE r == Reply(Head(inbox[a]).t, "shutdown", 0)
<1>1. /\ inbox[a] # <<>> /\ Take(a) /\ Say(a, r) /\ DOMAIN subscribed' = DOMAIN subscribed
      /\ life' = [life EXCEPT ![a] = "down"]
      /\ UNCHANGED <<schedVars, nap, tally, offRecord, straddled>>
  BY DEF HearShutdown
<1>2. AgentInv(a) /\ LedgerTypes /\ QueueTypes /\ ClockTypes
  BY DEF BarrierInv
<1>3. \A b \in Agents \ {a} : subscribed'[b] = subscribed[b]
  BY <1>2 DEF HearShutdown, LedgerTypes
<1>4. /\ inbox' \in [Agents -> Seq(Broadcasts)] /\ Head(inbox[a]) = inbox[a][1] /\ inbox[a][1] \in Broadcasts
      /\ Len(inbox[a]) \in Nat /\ Len(inbox[a]) >= 1 /\ Len(inbox'[a]) = Len(inbox[a]) - 1
      /\ \A i \in 1 .. Len(inbox'[a]) : inbox'[a][i] = inbox[a][i + 1]
      /\ \A b \in Agents \ {a} : inbox'[b] = inbox[b]
  BY <1>1, TakeKeepsHeard
<1>5. /\ r.t = inbox[a][1].t /\ r.action = "shutdown" /\ r.nap = 0 /\ r \in Replies
      /\ inbox[a][1].t \in Nat
  BY <1>4 DEF Reply, Replies, Broadcasts
<1> HIDE DEF r
<1>6. /\ outbox' \in [Agents -> Seq(Replies)]
      /\ Len(outbox[a]) \in Nat /\ Len(outbox'[a]) = Len(outbox[a]) + 1
      /\ outbox'[a][Len(outbox[a]) + 1] = r /\ outbox'[a] # <<>>
      /\ \A i \in 1 .. Len(outbox[a]) : outbox'[a][i] = outbox[a][i] /\ outbox[a][i] \in Replies
      /\ \A b \in Agents \ {a} : outbox'[b] = outbox[b]
  BY <1>1, <1>5, SayKeepsSaid
<1>7. LedgerTypes' /\ life'[a] = "down" /\ \A b \in Agents \ {a} : life'[b] = life[b]
  BY <1>1, <1>2 DEF LedgerTypes, schedVars
<1>8. QueueTypes'
  BY <1>4, <1>6 DEF QueueTypes
<1>9. AgentInv(a)'
  <2>1. UNCHANGED <<time, phase, booting, coll, stash, shutReplied, sleepUntil, responded>> /\ time \in Nat
    BY <1>1, <1>2, ConstantTypes DEF schedVars, ClockTypes
  <2>2. NotYetUp(a)'
    BY <1>7 DEF NotYetUp
  <2>3. inbox[a][1].t <= time /\ (phase = "idle" => inbox[a][1].t < time)
    BY <1>1, HeardAfterTake
  <2>4. SaidInv(a)'
    BY <1>1, <1>5, <1>6, <1>7, <2>1, <2>3, SaidMore
  <2>5. HeardInv(a)'
    BY <1>1, <1>7, <2>1, HeardAfterTake DEF HeardInv
  <2>6. GoneInv(a)'
    <3>1. ASSUME \A i \in 1 .. Len(outbox[a]) : outbox[a][i].nap = 0
          PROVE  \A i \in 1 .. Len(outbox'[a]) : outbox'[a][i].nap = 0
      BY <1>5, <1>6, <3>1
    <3>2. GoneInv(a)
      BY <1>2 DEF AgentInv
    <3> QED
      BY <1>7, <2>1, <3>1, <3>2 DEF GoneInv, RunOver
  <2>7. PromiseInv(a)'
    BY <1>7 DEF PromiseInv
  <2> QED
    BY <2>2, <2>4, <2>5, <2>6, <2>7 DEF AgentInv
<1> QED
  BY <1>1, <1>3, <1>4, <1>6, <1>7, <1>8, <1>9, AgentStep

\* What the three answers of a working agent have in common.
LEMMA AnswerStep ==
  ASSUME BarrierInv, NEW a \in Agents, life[a] = "up", inbox[a] # <<>>, inbox[a][1].kind = "step",
         Take(a), NEW r \in Replies, Say(a, r), r.t = inbox[a][1].t,
         r.nap # 0 => r.action = "completed", r.action = "shutdown" => r.nap = 0 /\ life'[a] = "down",
         NEW v \in Nat, nap' = [nap EXCEPT ![a] = v],
         NEW l \in {"up", "down"}, life' = [life EXCEPT ![a] = l],
         DOMAIN subscribed' = Agents, \A b \in Agents \ {a} : subscribed'[b] = subscribed[b],
         \A b \in Agents \ {a} : b \in offRecord' <=> b \in offRecord,
         UNCHANGED <<schedVars, tally, straddled>>, PromiseInv(a)'
  PROVE  BarrierInv'
<1>1. AgentInv(a) /\ LedgerTypes /\ QueueTypes /\ time \in Nat
  BY ConstantTypes DEF BarrierInv, ClockTypes
<1>2. /\ inbox' \in [Agents -> Seq(Broadcasts)] /\ \A b \in Agents \ {a} : inbox'[b] = inbox[b]
      /\ inbox[a][1] \in Broadcasts
  BY TakeKeepsHeard
<1>3. /\ outbox' \in [Agents -> Seq(Replies)] /\ \A b \in Agents \ {a} : outbox'[b] = outbox[b]
      /\ Len(outbox[a]) \in Nat /\ Len(outbox'[a]) = Len(outbox[a]) + 1
      /\ outbox'[a][Len(outbox[a]) + 1] = r
      /\ \A i \in 1 .. Len(outbox[a]) : outbox'[a][i] = outbox[a][i] /\ outbox[a][i] \in Replies
  BY SayKeepsSaid
<1>4. LedgerTypes' /\ life'[a] = l /\ \A b \in Agents \ {a} : life'[b] = life[b] /\ nap'[b] = nap[b]
  BY <1>1 DEF LedgerTypes, schedVars
<1>5. QueueTypes'
  BY <1>2, <1>3 DEF QueueTypes
<1>6. UNCHANGED <<time, phase, booting, coll, stash, shutReplied, sleepUntil, responded>>
  BY DEF schedVars
<1>7. NotYetUp(a)'
  BY <1>4 DEF NotYetUp
<1>8. SaidInv(a)'
  <2>1. r.t \in 0 .. time /\ (phase = "idle" => r.t < time)
    BY HeardAfterTake
  <2> QED
    BY <1>1, <1>4, <1>6, <2>1, SaidMore
<1>9. HeardInv(a)'
  <2>1. ASSUME NEW i \in 1 .. Len(outbox'[a]), NEW j \in 1 .. Len(inbox'[a])
        PROVE  outbox'[a][i].t < inbox'[a][j].t
    <3>1. r.t < inbox'[a][j].t /\ \A k \in 1 .. Len(outbox[a]) : outbox[a][k].t < inbox'[a][j].t
      BY HeardAfterTake
    <3>2. i \in 1 .. Len(outbox[a]) \/ i = Len(outbox[a]) + 1
      BY <1>3
    <3> QED
      BY <1>3, <3>1, <3>2
  <2>2. \A i \in 1 .. Len(inbox'[a]) :
           /\ inbox'[a][i].t <= time' /\ (phase' = "idle" => inbox'[a][i].t < time')
           /\ InStep' /\ a \in responded' => inbox'[a][i].t < time'
    BY <1>6, HeardAfterTake DEF InStep
  <2>3. \A i, j \in 1 .. Len(inbox'[a]) :
           i < j /\ inbox'[a][i].kind = "step" => inbox'[a][i].t < inbox'[a][j].t
    BY HeardAfterTake
  <2> QED
    BY <2>1, <2>2, <2>3 DEF HeardInv
<1>10. GoneInv(a)'
  <2>1. ~(a \in shutReplied \/ (StashHolds /\ ~RunOver /\ a \notin coll \cup stash))
    BY <1>1 DEF AgentInv, GoneInv
  <2>2. ~(a \in shutReplied \/ (StashHolds /\ ~RunOver /\ a \notin coll \cup stash))'
    BY <1>6, <2>1 DEF RunOver
  <2>3. /\ (StashHolds /\ ~RunOver /\ a \notin coll => sleepUntil[a] = Awake)'
        /\ (a \in booting => a \notin shutReplied /\ sleepUntil[a] = Awake)'
    BY <1>1, <1>6 DEF AgentInv, GoneInv, RunOver, Awake
  <2> QED
    BY <2>2, <2>3 DEF GoneInv
<1>11. AgentInv(a)'
  BY <1>7, <1>8, <1>9, <1>10 DEF AgentInv
<1> QED
  BY <1>2, <1>3, <1>4, <1>5, <1>11, AgentStep

\* The wake step that a hint n given at step t stands for.
WakeStep(t, n) == CASE n < 0 -> Inf [] n > 0 -> t + n [] OTHER -> Awake

LEMMA WakeStepFacts ==
  ASSUME NEW t \in Nat, NEW n \in Int
  PROVE  /\ WakeStep(t, n) \in Nat
         /\ n < 0 => WakeStep(t, n) = Inf
         /\ n > 0 => WakeStep(t, n) = t + n
         /\ n = 0 => WakeStep(t, n) = Awake
BY ConstantTypes DEF WakeStep, Awake

LEMMA ReplyFacts ==
  ASSUME NEW t \in Int, NEW action \in {"ready", "completed", "error", "shutdown"}, NEW n \in Int
  PROVE  \E r \in Replies : /\ r = Reply(t, action, n)
                            /\ r.t = t /\ r.action = action /\ r.nap = n
<1>1. Reply(t, action, n) \in Replies
  BY DEF Reply, Replies
<1>2. /\ Reply(t, action, n).t = t /\ Reply(t, action, n).action = action
      /\ Reply(t, action, n).nap = n
  BY DEF Reply
<1> QED
  BY <1>1, <1>2, Zenon

LEMMA WorkStepStep ==
  ASSUME BarrierInv, NEW a \in Agents, WorkStep(a)
  PROVE  BarrierInv'
<1> DEFINE t == Head(inbox[a]).t
<1>1. /\ life[a] = "up" /\ inbox[a] # <<>> /\ Head(inbox[a]).kind = "step" /\ Take(a)
      /\ UNCHANGED <<schedVars, tally, straddled>>
  BY DEF WorkStep
<1>2. /\ Head(inbox[a]) = inbox[a][1] /\ inbox[a][1] \in Broadcasts /\ t = inbox[a][1].t /\ t \in Nat
      /\ inbox[a][1].kind = "step" /\ Len(inbox[a]) \in Nat /\ 1 \in 1 .. Len(inbox[a])
  BY <1>1, TakeKeepsHeard DEF Broadcasts
<1>3. /\ AgentInv(a) /\ LedgerTypes /\ QueueTypes /\ SetTypes /\ ClockTypes /\ time \in Nat
      /\ DOMAIN subscribed = Agents
  BY ConstantTypes DEF BarrierInv, ClockTypes, LedgerTypes
<1>4. UNCHANGED <<time, phase, expected, responded, booting>>
  BY <1>1 DEF schedVars
<1>5. \/ \E n \in (IF a \in Orders THEN Naps ELSE {0}) :
           /\ Say(a, Reply(t, "completed", n))
           /\ nap' = [nap EXCEPT ![a] = WakeStep(t, n)]
           /\ subscribed' = [subscribed EXCEPT ![a] = n >= 0]
           /\ offRecord' = IF t = time /\ a \in expected THEN offRecord \ {a} ELSE offRecord \cup {a}
           /\ UNCHANGED life
      \/ /\ Say(a, Reply(t, "error", 0)) /\ nap' = [nap EXCEPT ![a] = Awake]
         /\ UNCHANGED <<life, subscribed, offRecord>>
      \/ /\ Say(a, Reply(t, "shutdown", 0)) /\ nap' = [nap EXCEPT ![a] = Awake]
         /\ life' = [life EXCEPT ![a] = "down"]
         /\ UNCHANGED <<subscribed, offRecord>>
  BY Zenon DEF WorkStep, WakeStep
<1> HIDE DEF t
<1>6. ASSUME NEW n \in (IF a \in Orders THEN Naps ELSE {0}),
             Say(a, Reply(t, "completed", n)),
             nap' = [nap EXCEPT ![a] = WakeStep(t, n)],
             subscribed' = [subscribed EXCEPT ![a] = n >= 0],
             offRecord' = IF t = time /\ a \in expected THEN offRecord \ {a} ELSE offRecord \cup {a},
             UNCHANGED life
      PROVE  BarrierInv'
  <2>1. n \in Int
    BY <1>6, ConstantTypes
  <2>2. PICK r \in Replies : /\ r = Reply(t, "completed", n)
                             /\ r.t = t /\ r.action = "completed" /\ r.nap = n
    BY <1>2, <2>1, ReplyFacts
  <2>3. PICK v \in Nat : v = WakeStep(t, n)
    BY <1>2, <2>1, WakeStepFacts
  <2>4. /\ n < 0 => v = Inf
        /\ n > 0 => v = t + n
        /\ n = 0 => v = 0
    BY <1>2, <2>1, <2>3, WakeStepFacts DEF Awake
  <2>5. nap'[a] = v /\ life' = [life EXCEPT ![a] = "up"] /\ nap' = [nap EXCEPT ![a] = v]
    BY <1>1, <1>3, <1>6, <2>3 DEF LedgerTypes
  <2>6. /\ DOMAIN subscribed' = Agents /\ \A b \in Agents \ {a} : subscribed'[b] = subscribed[b]
        /\ \A b \in Agents \ {a} : b \in offRecord' <=> b \in offRecord
    BY <1>3, <1>6
  <2>7. PromiseInv(a)'
    <3> SUFFICES ASSUME ~RunOver', nap'[a] > time', a \notin offRecord'
                 PROVE  Announcing(a)'
      BY DEF PromiseInv
    <3>1. t = time /\ a \in expected
      BY <1>6
    <3>2. n # 0
      BY <1>3, <1>4, <2>4, <2>5
    <3>3. phase # "idle"
      <4>1. phase = "idle" => inbox[a][1].t < time
        BY <1>1, HeardAfterTake
      <4> QED
        BY <1>2, <1>3, <3>1, <4>1
    <3>4. InStep
      BY <1>3, <1>4, <3>3 DEF ClockTypes, RunOver, InStep
    <3>5. a \notin responded
      <4>1. a \in responded => inbox[a][1].t < time
        BY <1>1, <1>2, <1>3, <3>4 DEF AgentInv, HeardInv
      <4> QED
        BY <1>2, <1>3, <3>1, <4>1
    <3>6. /\ Len(outbox[a]) \in Nat /\ Len(outbox'[a]) = Len(outbox[a]) + 1
          /\ outbox'[a][Len(outbox[a]) + 1] = r /\ outbox'[a] # <<>>
          /\ \A i \in 1 .. Len(outbox[a]) : outbox'[a][i] = outbox[a][i]
      BY <1>6, <2>2, SayKeepsSaid
    <3>7. \A i \in 1 .. Len(outbox[a]) : outbox[a][i].t < time /\ outbox[a][i].t # -1
      <4>1. \A i \in 1 .. Len(outbox[a]) : outbox[a][i].t < inbox[a][1].t
        BY <1>1, <1>2, <1>3 DEF AgentInv, HeardInv
      <4>2. a \notin booting
        BY <1>3, <3>1, <3>4 DEF SetTypes
      <4>3. \A i \in 1 .. Len(outbox[a]) : outbox[a][i].t # -1
        BY <1>3, <4>2 DEF AgentInv, SaidInv
      <4> QED
        BY <1>2, <3>1, <4>1, <4>3
    <3>8. outbox'[a][Len(outbox'[a])] = r
      BY <3>6
    <3>9. (r.nap < 0 /\ nap'[a] = Inf) \/ (r.nap > 0 /\ nap'[a] = time' + r.nap)
      BY <1>4, <2>1, <2>2, <2>4, <2>5, <3>1, <3>2
    <3>10. \A i \in 1 .. Len(outbox'[a]) - 1 : outbox'[a][i].t < time' /\ outbox'[a][i].t # -1
      BY <1>4, <3>6, <3>7
    <3>11. InStep' /\ a \in expected' /\ a \notin responded' /\ r.t = time'
      BY <1>4, <2>2, <3>1, <3>4, <3>5 DEF InStep
    <3> QED
      BY <2>2, <3>6, <3>8, <3>9, <3>10, <3>11 DEF Announcing
  <2> QED
    BY <1>1, <1>2, <1>6, <2>2, <2>5, <2>6, <2>7, AnswerStep
<1>7. ASSUME Say(a, Reply(t, "error", 0)), nap' = [nap EXCEPT ![a] = Awake],
             UNCHANGED <<life, subscribed, offRecord>>
      PROVE  BarrierInv'
  <2>1. PICK r \in Replies : /\ r = Reply(t, "error", 0)
                             /\ r.t = t /\ r.action = "error" /\ r.nap = 0
    BY <1>2, ReplyFacts
  <2>2. nap'[a] = 0 /\ life' = [life EXCEPT ![a] = "up"] /\ nap' = [nap EXCEPT ![a] = 0]
    BY <1>1, <1>3, <1>7 DEF LedgerTypes, Awake
  <2>3. PromiseInv(a)'
    BY <1>3, <1>4, <2>2 DEF PromiseInv
  <2> QED
    BY <1>1, <1>2, <1>3, <1>7, <2>1, <2>2, <2>3, AnswerStep
<1>8. ASSUME Say(a, Reply(t, "shutdown", 0)), nap' = [nap EXCEPT ![a] = Awake],
             life' = [life EXCEPT ![a] = "down"], UNCHANGED <<subscribed, offRecord>>
      PROVE  BarrierInv'
  <2>1. PICK r \in Replies : /\ r = Reply(t, "shutdown", 0)
                             /\ r.t = t /\ r.action = "shutdown" /\ r.nap = 0
    BY <1>2, ReplyFacts
  <2>2. nap'[a] = 0 /\ nap' = [nap EXCEPT ![a] = 0] /\ life'[a] = "down"
    BY <1>1, <1>3, <1>8 DEF LedgerTypes, Awake
  <2>3. PromiseInv(a)'
    BY <1>3, <1>4, <2>2 DEF PromiseInv
  <2> QED
    BY <1>1, <1>2, <1>3, <1>8, <2>1, <2>2, <2>3, AnswerStep
<1> QED
  BY <1>5, <1>6, <1>7, <1>8

-----------------------------------------------------------------------------
(* The event loop.                                                         *)

LEMMA AddAgentStep ==
  ASSUME BarrierInv, NEW a \in Agents, AddAgent(a)
  PROVE  BarrierInv'
<1>1. /\ phase = "idle" /\ life[a] = "absent"
      /\ coll' = coll \cup {a} /\ booting' = booting \cup {a}
      /\ life' = [life EXCEPT ![a] = "boot"]
      /\ UNCHANGED <<time, phase, final, expected, responded, outstanding, shutReplied, sleepUntil,
                     wakeTopics, stash, nap, subscribed, inbox, outbox, tally, offRecord, straddled>>
  BY DEF AddAgent
<1>2. /\ ClockTypes /\ SetTypes /\ LedgerTypes /\ QueueTypes /\ CounterInv
      /\ \A b \in Agents : AgentInv(b)
  BY DEF BarrierInv
<1>3. a \notin coll \cup stash /\ inbox[a] = <<>> /\ outbox[a] = <<>> /\ nap[a] = 0 /\ ~subscribed[a]
      /\ sleepUntil[a] = Awake
  BY <1>1, <1>2 DEF AgentInv, NotYetUp, Awake
<1>4. ClockTypes' /\ SetTypes'
  BY <1>1, <1>2, <1>3 DEF ClockTypes, SetTypes, RunOver, InStep
<1>5. LedgerTypes' /\ QueueTypes'
  BY <1>1, <1>2 DEF LedgerTypes, QueueTypes
<1>6. CounterInv'
  BY <1>1, <1>2 DEF CounterInv, Missing
<1>7. ASSUME NEW b \in Agents PROVE AgentInv(b)'
  <2>1. CASE b = a
    <3>1. life'[a] = "boot" /\ time \in Nat
      BY <1>1, <1>2, ConstantTypes DEF LedgerTypes, ClockTypes
    <3>2. NotYetUp(a)'
      BY <1>1, <1>3, <3>1 DEF NotYetUp, Awake
    <3>3. SaidInv(a)' /\ HeardInv(a)'
      BY <1>1, <1>3, <3>1 DEF SaidInv, HeardInv
    <3>4. GoneInv(a)'
      <4>1. a \notin shutReplied
        BY <1>1, <1>2 DEF AgentInv, GoneInv
      <4> QED
        BY <1>1, <1>3, <4>1 DEF GoneInv
    <3>5. PromiseInv(a)'
      BY <3>1 DEF PromiseInv
    <3> QED
      BY <2>1, <3>2, <3>3, <3>4, <3>5 DEF AgentInv
  <2>2. CASE b # a
    <3>1. life'[b] = life[b] /\ (b \in coll' <=> b \in coll) /\ (b \in booting' <=> b \in booting)
      BY <1>1, <1>2, <2>2 DEF LedgerTypes
    <3>2. NotYetUp(b)' /\ SaidInv(b)' /\ HeardInv(b)'
      BY <1>1, <1>2, <3>1 DEF AgentInv, NotYetUp, SaidInv, HeardInv, InStep
    <3>3. GoneInv(b)' /\ PromiseInv(b)'
      BY <1>1, <1>2, <3>1 DEF AgentInv, GoneInv, PromiseInv, Announced, Announcing, InStep, RunOver
    <3> QED
      BY <3>2, <3>3 DEF AgentInv
  <2> QED
    BY <2>1, <2>2
<1> QED
  BY <1>4, <1>5, <1>6, <1>7 DEF BarrierInv

\* The wait ends, whether everybody answered, few enough are missing or the time
\* is up.
LEMMA WaitEndsStep ==
  ASSUME BarrierInv, Resolve \/ SettleExit \/ StepTimeout
  PROVE  BarrierInv'
<1>1. /\ phase = "wait" /\ phase' \in {"reap", "aborted"}
      /\ UNCHANGED <<time, final, coll, booting, expected, responded, outstanding, shutReplied, sleepUntil,
                     wakeTopics, stash, agentVars, tally, offRecord, straddled>>
  BY DEF Resolve, SettleExit, StepTimeout
<1>2. /\ ClockTypes /\ SetTypes /\ LedgerTypes /\ QueueTypes /\ CounterInv
      /\ \A b \in Agents : AgentInv(b)
  BY DEF BarrierInv
<1>3. ClockTypes' /\ SetTypes'
  BY <1>1, <1>2 DEF ClockTypes, SetTypes, RunOver, InStep
<1>4. LedgerTypes' /\ QueueTypes'
  BY <1>1, <1>2 DEF LedgerTypes, QueueTypes, agentVars
<1>5. CounterInv'
  BY <1>1, <1>2 DEF CounterInv, Missing
<1>6. ASSUME NEW b \in Agents PROVE AgentInv(b)'
  <2>1. NotYetUp(b)' /\ SaidInv(b)' /\ HeardInv(b)'
    BY <1>1, <1>2 DEF AgentInv, NotYetUp, SaidInv, HeardInv, InStep, agentVars
  <2>2. GoneInv(b)'
    BY <1>1, <1>2 DEF AgentInv, GoneInv, RunOver, agentVars
  <2>3. PromiseInv(b)'
    BY <1>1, <1>2 DEF AgentInv, PromiseInv, Announced, Announcing, InStep, RunOver, agentVars
  <2> QED
    BY <2>1, <2>2, <2>3 DEF AgentInv
<1> QED
  BY <1>3, <1>4, <1>5, <1>6 DEF BarrierInv

\* How many are missing, counted.
LEMMA MissingIsNat ==
  ASSUME SetTypes
  PROVE  IsFiniteSet(expected) /\ IsFiniteSet(expected \ responded) /\ Missing \in Nat
         /\ Cardinality(expected) \in Nat /\ Missing <= Cardinality(expected)
         /\ Cardinality(expected) <= Cardinality(Agents)
<1>1. IsFiniteSet(expected) /\ Cardinality(expected) <= Cardinality(Agents)
  BY ConstantTypes, FS_Subset DEF SetTypes
<1>2. expected \ responded \subseteq expected
  OBVIOUS
<1>3. IsFiniteSet(expected \ responded) /\ Cardinality(expected \ responded) <= Cardinality(expected)
  BY <1>1, <1>2, FS_Subset
<1> QED
  BY <1>1, <1>3, FS_CardinalityType DEF Missing

LEMMA TallyStep ==
  ASSUME BarrierInv, Tally
  PROVE  BarrierInv'
<1>1. /\ tally # NoTally /\ tally' = NoTally /\ outstanding' = outstanding - 1
      /\ UNCHANGED <<time, phase, final, coll, booting, expected, responded, shutReplied, sleepUntil,
                     wakeTopics, stash, agentVars, offRecord, straddled>>
  BY DEF Tally
<1>2. /\ ClockTypes /\ SetTypes /\ LedgerTypes /\ QueueTypes /\ CounterInv
      /\ \A b \in Agents : AgentInv(b)
  BY DEF BarrierInv
<1>3. ClockTypes' /\ SetTypes'
  BY <1>1, <1>2 DEF ClockTypes, SetTypes, RunOver, InStep
<1>4. LedgerTypes' /\ QueueTypes'
  BY <1>1, <1>2 DEF LedgerTypes, QueueTypes, agentVars
<1>5. CounterInv'
  <2>1. Missing \in Nat /\ Missing' = Missing /\ Cardinality(expected) \in Nat
    BY <1>1, <1>2, MissingIsNat DEF Missing
  <2>2. outstanding \in Int /\ outstanding <= Cardinality(expected)
        /\ (outstanding = Missing \/ outstanding = Missing + 1)
    BY <1>1, <1>2 DEF CounterInv
  <2>3. ~straddled => outstanding = Missing + 1
    BY <1>1, <1>2 DEF CounterInv
  <2>4. outstanding' \in Int /\ outstanding' <= Cardinality(expected)
        /\ (outstanding' = Missing - 1 \/ outstanding' = Missing)
    BY <1>1, <2>1, <2>2
  <2>5. ~straddled => outstanding' = Missing
    BY <1>1, <2>1, <2>3
  <2> QED
    BY <1>1, <2>1, <2>4, <2>5 DEF CounterInv
<1>6. ASSUME NEW b \in Agents PROVE AgentInv(b)'
  BY <1>1, <1>2 DEF AgentInv, NotYetUp, SaidInv, HeardInv, GoneInv, PromiseInv, Announced, Announcing,
     InStep, RunOver, agentVars
<1> QED
  BY <1>3, <1>4, <1>5, <1>6 DEF BarrierInv

LEMMA ConcatFacts ==
  ASSUME NEW S, NEW s \in Seq(S), NEW x \in S
  PROVE  s \o <<x>> = Append(s, x) /\ s \o <<>> = s
<1>1. s \o <<x>> = Append(s, x)
  OBVIOUS
<1>2. s \o <<>> = s
  OBVIOUS
<1> QED
  BY <1>1, <1>2

\* What a mailbox holds after the broadcast of a step: what it held, then only
\* broadcasts of that step, of which one that asks for work is alone and last.
Grown(s, w, m, q) ==
  /\ w \in Seq(Broadcasts) /\ Len(w) \in Nat /\ Len(s) \in Nat /\ Len(w) >= Len(s)
  /\ \A i \in 1 .. Len(s) : w[i] = s[i]
  /\ \A i \in Len(s) + 1 .. Len(w) :
       /\ w[i] \in {m, q}
       /\ w[i].kind = "step" => i = Len(w)

LEMMA MailboxGrows ==
  ASSUME NEW s \in Seq(Broadcasts), NEW m \in Broadcasts, NEW q \in Broadcasts, q.kind # "step",
         NEW w, \/ w = s
                \/ w = Append(s, m)
                \/ w = Append(s, q)
                \/ m.kind # "step" /\ w = Append(Append(s, q), m)
  PROVE  Grown(s, w, m, q)
<1> USE DEF Grown
<1>1. CASE w = s
  BY <1>1
<1>2. ASSUME NEW x \in {m, q}, w = Append(s, x)
      PROVE  /\ w \in Seq(Broadcasts) /\ Len(w) = Len(s) + 1 /\ Len(s) \in Nat
             /\ \A i \in 1 .. Len(s) : w[i] = s[i]
             /\ w[Len(s) + 1] = x
  BY <1>2, AppendFacts
<1>3. CASE m.kind # "step" /\ w = Append(Append(s, q), m)
  <2>1. /\ Append(s, q) \in Seq(Broadcasts) /\ Len(s) \in Nat /\ Len(Append(s, q)) = Len(s) + 1
        /\ Append(s, q)[Len(s) + 1] = q
        /\ \A i \in 1 .. Len(s) : Append(s, q)[i] = s[i]
    BY AppendFacts
  <2>2. /\ w \in Seq(Broadcasts) /\ Len(w) = Len(Append(s, q)) + 1
        /\ w[Len(Append(s, q)) + 1] = m
        /\ \A i \in 1 .. Len(Append(s, q)) : w[i] = Append(s, q)[i]
    BY <1>3, <2>1, AppendFacts
  <2>3. /\ Len(w) = Len(s) + 2 /\ w[Len(s) + 2] = m /\ w[Len(s) + 1] = q
        /\ \A i \in 1 .. Len(s) : w[i] = s[i]
    BY <2>1, <2>2
  <2>4. \A i \in Len(s) + 1 .. Len(w) : i = Len(s) + 1 \/ i = Len(s) + 2
    BY <2>1, <2>3
  <2> QED
    BY <1>3, <2>1, <2>2, <2>3, <2>4
<1>4. ASSUME NEW x \in {m, q}, w = Append(s, x)
      PROVE  \A i \in Len(s) + 1 .. Len(w) : w[i] = x /\ i = Len(w)
  BY <1>2, <1>4
<1> QED
  BY <1>1, <1>2, <1>3, <1>4

LEMMA BeginStepStep ==
  ASSUME BarrierInv, BeginStep
  PROVE  BarrierInv'
<1> DEFINE gone == Expired(sleepUntil)
           ledger == [a \in Agents |-> IF a \in gone THEN Awake ELSE sleepUntil[a]]
           isFinal == time = Horizon - 1
           msg == Broadcast(IF isFinal THEN "shutdown" ELSE "step", time)
           direct == IF isFinal THEN wakeTopics \ gone ELSE {}
           told(a) == a \in direct /\ life[a] = "up"
<1>1. /\ phase = "idle" /\ phase' = "wait" /\ (final' <=> isFinal)
      /\ sleepUntil' = ledger /\ wakeTopics' = wakeTopics \ gone
      /\ expected' = ExpectedFrom(ledger) /\ outstanding' = Cardinality(expected')
      /\ responded' = {} /\ shutReplied' = {}
      /\ UNCHANGED <<time, coll, booting, stash, life, nap, subscribed, outbox, tally, offRecord>>
  BY Zenon DEF BeginStep, BaselineCount
<1>2. inbox' = [a \in Agents |-> (IF told(a) THEN Append(inbox[a], Broadcast("direct", time)) ELSE inbox[a])
                                 \o (IF subscribed[a] THEN <<msg>> ELSE <<>>)]
  BY Zenon DEF BeginStep
<1>3. straddled' <=> (straddled \/ tally # NoTally)
  BY Zenon DEF BeginStep
<1>4. /\ ClockTypes /\ SetTypes /\ LedgerTypes /\ QueueTypes /\ CounterInv
      /\ \A b \in Agents : AgentInv(b)
  BY DEF BarrierInv
<1>5. time \in Nat
  BY <1>4, ConstantTypes DEF ClockTypes
<1>6. /\ sleepUntil' \in [Agents -> Nat]
      /\ \A b \in Agents : sleepUntil'[b] = Awake \/ sleepUntil'[b] = sleepUntil[b]
      /\ \A b \in Agents : sleepUntil[b] > time => sleepUntil'[b] = sleepUntil[b]
      /\ \A b \in expected' : b \in coll \ booting /\ sleepUntil'[b] = Awake
      /\ expected' \subseteq coll \ booting
  BY <1>1, <1>4, <1>5 DEF Expired, ExpectedFrom, LedgerTypes, Awake
<1>7. /\ msg \in Broadcasts /\ Broadcast("direct", time) \in Broadcasts
      /\ msg.t = time /\ Broadcast("direct", time).t = time /\ Broadcast("direct", time).kind = "direct"
      /\ msg.kind = "step" => direct = {}
  BY <1>5 DEF Broadcast, Broadcasts
<1> HIDE DEF gone, ledger, msg, direct
<1>8. ASSUME NEW b \in Agents
      PROVE  /\ inbox'[b] \in Seq(Broadcasts) /\ Len(inbox'[b]) \in Nat /\ Len(inbox[b]) \in Nat
             /\ Len(inbox'[b]) >= Len(inbox[b])
             /\ \A i \in 1 .. Len(inbox[b]) : inbox'[b][i] = inbox[b][i]
             /\ \A i \in Len(inbox[b]) + 1 .. Len(inbox'[b]) :
                  /\ inbox'[b][i].t = time
                  /\ inbox'[b][i].kind = "step" => i = Len(inbox'[b])
             /\ life[b] # "up" /\ ~subscribed[b] => inbox'[b] = inbox[b]
  <2>1. inbox'[b] = (IF told(b) THEN Append(inbox[b], Broadcast("direct", time)) ELSE inbox[b])
                    \o (IF subscribed[b] THEN <<msg>> ELSE <<>>)
    BY <1>2, Zenon
  <2>2. inbox[b] \in Seq(Broadcasts)
    BY <1>4 DEF QueueTypes
  <2>3. msg.kind = "step" => ~told(b)
    BY <1>7
  <2>4. life[b] # "up" => ~told(b)
    OBVIOUS
  <2>5. Broadcast("direct", time).kind # "step"
    BY <1>7
  <2> HIDE DEF told
  <2>6. PICK s \in Seq(Broadcasts), m \in Broadcasts, q \in Broadcasts :
           s = inbox[b] /\ m = msg /\ q = Broadcast("direct", time)
    BY <1>7, <2>2, Zenon
  <2>7. Append(s, q) \in Seq(Broadcasts)
    BY AppendFacts
  <2>8. /\ s \o <<m>> = Append(s, m) /\ s \o <<>> = s
        /\ Append(s, q) \o <<m>> = Append(Append(s, q), m) /\ Append(s, q) \o <<>> = Append(s, q)
    BY <2>7, ConcatFacts
  <2>9. inbox'[b] = (IF told(b) THEN Append(s, q) ELSE s) \o (IF subscribed[b] THEN <<m>> ELSE <<>>)
    BY <2>1, <2>6, Zenon
  <2>10. /\ told(b) /\ subscribed[b] => inbox'[b] = Append(s, q) \o <<m>>
         /\ told(b) /\ ~subscribed[b] => inbox'[b] = Append(s, q) \o <<>>
         /\ ~told(b) /\ subscribed[b] => inbox'[b] = s \o <<m>>
         /\ ~told(b) /\ ~subscribed[b] => inbox'[b] = s \o <<>>
    BY <2>9, Zenon
  <2>11. \/ inbox'[b] = s
         \/ inbox'[b] = Append(s, m)
         \/ inbox'[b] = Append(s, q)
         \/ m.kind # "step" /\ inbox'[b] = Append(Append(s, q), m)
    BY <2>3, <2>6, <2>8, <2>10, Zenon
  <2>12. Grown(s, inbox'[b], m, q)
    <3>1. q.kind # "step"
      BY <2>5, <2>6, Zenon
    <3>2. PICK w : w = inbox'[b]
      OBVIOUS
    <3>3. \/ w = s
          \/ w = Append(s, m)
          \/ w = Append(s, q)
          \/ m.kind # "step" /\ w = Append(Append(s, q), m)
      BY <2>11, <3>2, Zenon
    <3>4. Grown(s, w, m, q)
      BY <3>1, <3>3, MailboxGrows
    <3> QED
      BY <3>2, <3>4, Zenon
  <2>13. m.t = time /\ q.t = time
    BY <1>7, <2>6, Zenon
  <2>14. life[b] # "up" /\ ~subscribed[b] => inbox'[b] = inbox[b]
    BY <2>4, <2>6, <2>8, <2>10, Zenon
  <2> QED
    BY <2>6, <2>12, <2>13, <2>14 DEF Grown
<1>9. ClockTypes'
  BY <1>1, <1>4 DEF ClockTypes, RunOver, InStep
<1>10. SetTypes'
  BY <1>1, <1>4, <1>6 DEF SetTypes, InStep
<1>11. LedgerTypes'
  BY <1>1, <1>4, <1>6 DEF LedgerTypes
<1>12. QueueTypes'
  BY <1>1, <1>2, <1>4, <1>8 DEF QueueTypes
<1>13. CounterInv'
  <2>1. expected' \ responded' = expected'
    BY <1>1
  <2>2. Missing' = Cardinality(expected') /\ Cardinality(expected') \in Nat
    BY <1>10, <2>1, MissingIsNat, ConstantTypes, FS_Subset, FS_CardinalityType DEF Missing, SetTypes
  <2>3. outstanding' = Missing' /\ tally' = tally
    BY <1>1, <2>2
  <2>4. ~straddled' => tally' = NoTally
    BY <1>3, <2>3
  <2> QED
    BY <1>1, <1>4, <2>2, <2>3, <2>4 DEF CounterInv
<1>14. ASSUME NEW b \in Agents PROVE AgentInv(b)'
  <2>1. AgentInv(b) /\ b \notin shutReplied'
    BY <1>1, <1>4
  <2>2. NotYetUp(b)'
    BY <1>1, <1>6, <1>8, <2>1 DEF AgentInv, NotYetUp
  <2>3. SaidInv(b)'
    BY <1>1, <2>1 DEF AgentInv, SaidInv
  <2>4. HeardInv(b)'
    <3>1. ASSUME NEW i \in 1 .. Len(inbox'[b])
          PROVE  \/ i \in 1 .. Len(inbox[b]) /\ inbox'[b][i] = inbox[b][i] /\ inbox[b][i].t < time
                 \/ i \in Len(inbox[b]) + 1 .. Len(inbox'[b]) /\ inbox'[b][i].t = time
      <4>1. CASE i \in 1 .. Len(inbox[b])
        BY <1>1, <1>8, <2>1, <4>1 DEF AgentInv, HeardInv
      <4>2. CASE i \notin 1 .. Len(inbox[b])
        BY <1>8, <4>2
      <4> QED
        BY <4>1, <4>2
    <3>2. \A i \in 1 .. Len(inbox'[b]) : inbox'[b][i].t <= time'
      BY <1>1, <1>5, <1>8, <2>1, <3>1 DEF AgentInv, HeardInv
    <3>3. ASSUME life[b] = "up", NEW i \in 1 .. Len(inbox'[b]), NEW j \in 1 .. Len(inbox'[b]),
                 i < j, inbox'[b][i].kind = "step"
          PROVE  inbox'[b][i].t < inbox'[b][j].t
      <4>1. i \in 1 .. Len(inbox[b]) /\ inbox'[b][i] = inbox[b][i] /\ inbox[b][i].t < time
        BY <1>8, <3>1, <3>3
      <4>2. CASE j \in 1 .. Len(inbox[b])
        BY <1>8, <2>1, <3>3, <4>1, <4>2 DEF AgentInv, HeardInv
      <4>3. CASE j \notin 1 .. Len(inbox[b])
        BY <3>1, <4>1, <4>3
      <4> QED
        BY <4>2, <4>3
    <3>4. ASSUME life[b] = "up", NEW i \in 1 .. Len(outbox[b]), NEW j \in 1 .. Len(inbox'[b])
          PROVE  outbox[b][i].t < inbox'[b][j].t
      <4>1. outbox[b][i].t < time
        BY <1>1, <2>1 DEF AgentInv, SaidInv
      <4>2. CASE j \in 1 .. Len(inbox[b])
        BY <1>8, <2>1, <3>4, <4>2 DEF AgentInv, HeardInv
      <4>3. CASE j \notin 1 .. Len(inbox[b])
        BY <3>1, <4>1, <4>3
      <4> QED
        BY <4>2, <4>3
    <3> QED
      BY <1>1, <3>2, <3>3, <3>4 DEF HeardInv
  <2>5. GoneInv(b)'
    BY <1>1, <1>6, <2>1 DEF AgentInv, GoneInv, RunOver
  <2>6. PromiseInv(b)'
    <3> SUFFICES ASSUME life[b] = "up", nap[b] > time, b \notin offRecord
                 PROVE  Announced(b)'
      BY <1>1 DEF PromiseInv
    <3>1. outbox[b] = <<>> /\ sleepUntil[b] = nap[b]
      BY <1>1, <2>1 DEF AgentInv, PromiseInv, Announced, Announcing, InStep, RunOver
    <3>2. sleepUntil'[b] = nap[b] /\ nap[b] # Awake
      BY <1>4, <1>5, <1>6, <3>1 DEF LedgerTypes, Awake
    <3>3. b \notin expected'
      BY <1>6, <3>2
    <3> QED
      BY <1>1, <3>1, <3>2, <3>3 DEF Announced
  <2> QED
    BY <2>2, <2>3, <2>4, <2>5, <2>6 DEF AgentInv
<1> QED
  BY <1>9, <1>10, <1>11, <1>12, <1>13, <1>14 DEF BarrierInv

-----------------------------------------------------------------------------
(* The MQTT thread.                                                        *)

\* One more of the expected has answered.
LEMMA OneAnswered ==
  ASSUME SetTypes, NEW a \in expected \ responded, expected' = expected, responded' = responded \cup {a}
  PROVE  Missing' = Missing - 1 /\ Missing \in Nat
<1>1. IsFiniteSet(expected \ responded) /\ Missing \in Nat
  BY MissingIsNat
<1>2. expected' \ responded' = (expected \ responded) \ {a}
  OBVIOUS
<1> QED
  BY <1>1, <1>2, FS_RemoveElement DEF Missing

LEMMA HandleReplyStep ==
  ASSUME BarrierInv, NEW a \in Agents, HandleReply(a)
  PROVE  BarrierInv'
<1>1. /\ ClockTypes /\ SetTypes /\ LedgerTypes /\ QueueTypes /\ CounterInv
      /\ \A b \in Agents : AgentInv(b)
  BY DEF BarrierInv
<1>2. outbox[a] # <<>> /\ outbox[a] \in Seq(Replies) /\ ~RunOver /\ tally = NoTally /\ time \in Nat
  BY <1>1, ConstantTypes DEF HandleReply, QueueTypes, ClockTypes
<1>3. PICK r \in Replies : r = Head(outbox[a]) /\ r = outbox[a][1]
  BY <1>2, TailFacts
<1>4. /\ r.t \in -1 .. time /\ r.nap \in Int
      /\ r.nap # 0 => r.action = "completed"
      /\ r.t = -1 => a \in booting
      /\ phase = "idle" => r.t < time
      /\ r.action = "shutdown" => life[a] = "down" /\ \A j \in 1 .. Len(outbox[a]) : outbox[a][j].nap = 0
      /\ Len(outbox[a]) \in Nat /\ 1 \in 1 .. Len(outbox[a])
  <2>1. Len(outbox[a]) \in Nat /\ 1 \in 1 .. Len(outbox[a])
    BY <1>2, TailFacts
  <2>2. SaidInv(a)
    BY <1>1 DEF AgentInv
  <2> QED
    BY <1>3, <2>1, <2>2 DEF SaidInv, Replies
<1>5. PICK t \in Nat : t = IF r.t = -1 THEN time ELSE r.t
  BY <1>2, <1>4
<1>6. PICK back \in BOOLEAN : back <=> Reinstates(a, r.action)
  BY Zenon
<1>7. /\ coll' = IF back THEN coll \cup {a} ELSE coll
      /\ stash' = IF back THEN stash \ {a} ELSE stash
      /\ booting' = booting \ {a}
      /\ sleepUntil' = [sleepUntil EXCEPT ![a] = WakeStep(t, r.nap)]
      /\ shutReplied' = IF t = time /\ r.action = "shutdown" THEN shutReplied \cup {a} ELSE shutReplied
      /\ IF Counts(a, t) THEN responded' = responded \cup {a} /\ tally' = a
                         ELSE UNCHANGED <<responded, tally>>
      /\ outbox' = [outbox EXCEPT ![a] = Tail(outbox[a])]
      /\ UNCHANGED <<time, phase, final, expected, outstanding, life, nap, subscribed, inbox, offRecord,
                     straddled>>
  BY <1>3, <1>5, <1>6, Zenon DEF HandleReply, StashAfter, WakeStep
<1>8. wakeTopics' \subseteq wakeTopics \cup {a}
  BY <1>3, <1>4 DEF HandleReply
<1>9. /\ outbox' \in [Agents -> Seq(Replies)] /\ outbox'[a] = Tail(outbox[a])
      /\ Len(outbox'[a]) = Len(outbox[a]) - 1
      /\ \A i \in 1 .. Len(outbox'[a]) : i + 1 \in 2 .. Len(outbox[a]) /\ outbox'[a][i] = outbox[a][i + 1]
      /\ \A b \in Agents \ {a} : outbox'[b] = outbox[b]
  <2>1. outbox'[a] = Tail(outbox[a])
    BY <1>1, <1>7 DEF QueueTypes
  <2>2. /\ Tail(outbox[a]) \in Seq(Replies) /\ Len(Tail(outbox[a])) = Len(outbox[a]) - 1
        /\ \A i \in 1 .. Len(outbox[a]) - 1 : Tail(outbox[a])[i] = outbox[a][i + 1]
    BY <1>2, TailFacts
  <2>3. outbox' \in [Agents -> Seq(Replies)] /\ \A b \in Agents \ {a} : outbox'[b] = outbox[b]
    BY <1>1, <1>7, <2>2 DEF QueueTypes
  <2> QED
    BY <1>4, <2>1, <2>2, <2>3
<1>10. /\ back <=> (a \notin coll /\ a \in stash /\ r.action \in {"completed", "ready"})
  BY <1>6, Zenon DEF Reinstates
<1>11. /\ a \in coll' <=> (a \in coll \/ back)
       /\ a \in stash' <=> (a \in stash /\ ~back)
       /\ coll \subseteq coll' /\ coll' \subseteq coll \cup {a} /\ stash' \subseteq stash
       /\ \A b \in Agents \ {a} : (b \in coll' <=> b \in coll) /\ (b \in stash' <=> b \in stash)
  <2>1. CASE back
    BY <1>7, <1>10, <2>1
  <2>2. CASE ~back
    BY <1>7, <1>10, <2>2
  <2> QED
    BY <2>1, <2>2
<1>12. /\ WakeStep(t, r.nap) \in Nat
       /\ r.nap < 0 => WakeStep(t, r.nap) = Inf
       /\ r.nap > 0 => WakeStep(t, r.nap) = t + r.nap
       /\ r.nap = 0 => WakeStep(t, r.nap) = Awake
  BY <1>4, WakeStepFacts
<1>13. /\ sleepUntil' \in [Agents -> Nat] /\ sleepUntil'[a] = WakeStep(t, r.nap)
       /\ \A b \in Agents \ {a} : sleepUntil'[b] = sleepUntil[b]
  BY <1>1, <1>7, <1>12 DEF LedgerTypes
<1>14. /\ responded' = IF Counts(a, t) THEN responded \cup {a} ELSE responded
       /\ tally' = IF Counts(a, t) THEN a ELSE NoTally
  BY <1>2, <1>7, Zenon
<1>15. ClockTypes'
  BY <1>1, <1>7 DEF ClockTypes, RunOver, InStep
<1>16. SetTypes'
  <2>1. stash' \cap coll' = {} /\ coll' \subseteq Agents /\ booting' \subseteq coll' /\ stash' \subseteq Agents
    BY <1>1, <1>7, <1>10, <1>11 DEF SetTypes
  <2>2. responded' \subseteq expected' /\ wakeTopics' \subseteq Agents /\ expected' \subseteq Agents
    BY <1>1, <1>7, <1>8, <1>14 DEF SetTypes, Counts
  <2>3. InStep' => expected' \subseteq coll' /\ expected' \cap booting' = {}
    BY <1>1, <1>7, <1>11 DEF SetTypes, InStep
  <2> QED
    BY <2>1, <2>2, <2>3 DEF SetTypes
<1>17. LedgerTypes' /\ QueueTypes'
  BY <1>1, <1>7, <1>9, <1>13 DEF LedgerTypes, QueueTypes
<1>18. CounterInv'
  <2>1. CASE Counts(a, t)
    <3>1. Missing' = Missing - 1 /\ Missing \in Nat /\ tally' = a /\ a # NoTally
      BY <1>1, <1>7, <2>1, OneAnswered, ConstantTypes DEF Counts
    <3>2. /\ outstanding \in Int /\ outstanding <= Cardinality(expected)
          /\ outstanding = Missing \/ outstanding = Missing - 1
          /\ ~straddled => outstanding = Missing
      BY <1>1, <1>2, <3>1 DEF CounterInv
    <3>3. outstanding = Missing' + 1 \/ outstanding = Missing'
      BY <3>1, <3>2
    <3>4. ~straddled => outstanding = Missing' + 1
      BY <3>1, <3>2
    <3> QED
      BY <1>7, <3>1, <3>2, <3>3, <3>4 DEF CounterInv
  <2>2. CASE ~Counts(a, t)
    BY <1>1, <1>7, <2>2 DEF CounterInv, Missing
  <2> QED
    BY <2>1, <2>2
<1>19. ASSUME NEW b \in Agents, b # a PROVE AgentInv(b)'
  <2>1. /\ outbox'[b] = outbox[b] /\ (b \in coll' <=> b \in coll) /\ (b \in stash' <=> b \in stash)
        /\ sleepUntil'[b] = sleepUntil[b] /\ (b \in booting' <=> b \in booting)
        /\ (b \in responded' <=> b \in responded) /\ (b \in shutReplied' <=> b \in shutReplied)
    BY <1>7, <1>9, <1>11, <1>13, <1>14, <1>19
  <2>2. AgentInv(b)
    BY <1>1
  <2>3. NotYetUp(b)' /\ SaidInv(b)'
    BY <1>7, <2>1, <2>2 DEF AgentInv, NotYetUp, SaidInv
  <2>4. HeardInv(b)'
    BY <1>7, <2>1, <2>2 DEF AgentInv, HeardInv, InStep
  <2>5. GoneInv(b)'
    BY <1>7, <2>1, <2>2 DEF AgentInv, GoneInv, RunOver
  <2>6. PromiseInv(b)'
    BY <1>7, <2>1, <2>2 DEF AgentInv, PromiseInv, Announced, Announcing, InStep, RunOver
  <2> QED
    BY <2>3, <2>4, <2>5, <2>6 DEF AgentInv
<1>20. AgentInv(a)'
  <2>1. AgentInv(a)
    BY <1>1
  <2>2. NotYetUp(a)'
    BY <1>1, <1>2, <1>7, <2>1 DEF AgentInv, NotYetUp, LedgerTypes
  <2>3. ASSUME NEW i \in 1 .. Len(outbox'[a])
        PROVE  \E k \in 1 .. Len(outbox[a]) : k = i + 1 /\ k > 1 /\ outbox'[a][i] = outbox[a][k]
    BY <1>4, <1>9
  <2>4. SaidInv(a)'
    <3> SUFFICES ASSUME NEW i \in 1 .. Len(outbox'[a])
                 PROVE  /\ outbox'[a][i].t \in -1 .. time
                        /\ phase = "idle" => outbox'[a][i].t < time
                        /\ outbox'[a][i].t # -1
                        /\ outbox'[a][i].nap # 0 => outbox'[a][i].action = "completed"
                        /\ outbox'[a][i].action = "shutdown" =>
                             life[a] = "down" /\ \A j \in i .. Len(outbox'[a]) : outbox'[a][j].nap = 0
      BY <1>7 DEF SaidInv
    <3>1. PICK k \in 1 .. Len(outbox[a]) : k = i + 1 /\ k > 1 /\ outbox'[a][i] = outbox[a][k]
      BY <2>3
    <3>2. /\ outbox[a][k].t \in -1 .. time
          /\ phase = "idle" => outbox[a][k].t < time
          /\ outbox[a][k].t # -1
          /\ outbox[a][k].nap # 0 => outbox[a][k].action = "completed"
          /\ outbox[a][k].action = "shutdown" =>
               life[a] = "down" /\ \A j \in k .. Len(outbox[a]) : outbox[a][j].nap = 0
      BY <2>1, <3>1 DEF AgentInv, SaidInv
    <3>3. ASSUME outbox'[a][i].action = "shutdown", NEW j \in i .. Len(outbox'[a])
          PROVE  outbox'[a][j].nap = 0
      <4>1. j + 1 \in k .. Len(outbox[a]) /\ j \in 1 .. Len(outbox'[a])
        BY <1>4, <1>9, <3>1
      <4> QED
        BY <1>9, <3>1, <3>2, <3>3, <4>1
    <3> QED
      BY <3>1, <3>2, <3>3
  <2>5. HeardInv(a)'
    <3>1. ASSUME NEW i \in 1 .. Len(outbox'[a]), NEW j \in 1 .. Len(inbox[a]), life[a] = "up"
          PROVE  outbox'[a][i].t < inbox[a][j].t
      BY <2>1, <2>3, <3>1 DEF AgentInv, HeardInv
    <3>2. ASSUME life[a] = "up", InStep, a \in responded', NEW j \in 1 .. Len(inbox[a])
          PROVE  inbox[a][j].t < time
      <4>1. CASE a \in responded
        BY <2>1, <3>2, <4>1 DEF AgentInv, HeardInv
      <4>2. CASE a \notin responded
        <5>1. t = time /\ a \in expected
          BY <1>14, <3>2, <4>2 DEF Counts
        <5>2. a \notin booting
          BY <1>1, <3>2, <5>1 DEF SetTypes
        <5>3. r.t = time
          BY <1>4, <1>5, <5>1, <5>2
        <5>4. r.t < inbox[a][j].t /\ inbox[a][j].t <= time
          BY <1>3, <1>4, <2>1, <3>2 DEF AgentInv, HeardInv
        <5>5. inbox[a][j].t \in Nat
          <6>1. inbox[a] \in Seq(Broadcasts)
            BY <1>1 DEF QueueTypes
          <6>2. inbox[a][j] \in Broadcasts
            BY <6>1
          <6> QED
            BY <6>2 DEF Broadcasts
        <5> QED
          BY <1>2, <5>3, <5>4, <5>5
      <4> QED
        BY <4>1, <4>2
    <3> QED
      BY <1>7, <2>1, <3>1, <3>2 DEF AgentInv, HeardInv, InStep
  <2>6. GoneInv(a)'
    <3>1. ASSUME \A i \in 1 .. Len(outbox[a]) : outbox[a][i].nap = 0
          PROVE  \A i \in 1 .. Len(outbox'[a]) : outbox'[a][i].nap = 0
      BY <2>3, <3>1
    <3>2. a \in shutReplied' => life[a] = "down" /\ \A i \in 1 .. Len(outbox[a]) : outbox[a][i].nap = 0
      BY <1>4, <1>7, <2>1 DEF AgentInv, GoneInv
    <3>3. StashHolds /\ a \notin coll' \cup stash' =>
            life[a] \in {"absent", "down"} /\ \A i \in 1 .. Len(outbox[a]) : outbox[a][i].nap = 0
      BY <1>2, <1>11, <2>1 DEF AgentInv, GoneInv
    <3>4. ASSUME StashHolds, a \notin coll' PROVE sleepUntil'[a] = Awake
      <4>1. a \notin coll /\ ~back
        BY <1>11, <3>4
      <4>2. CASE r.nap = 0
        BY <1>12, <1>13, <4>2
      <4>3. CASE r.nap # 0
        <5>1. r.action = "completed"
          BY <1>4, <4>3
        <5>2. a \notin stash
          BY <1>10, <4>1, <5>1
        <5>3. \A i \in 1 .. Len(outbox[a]) : outbox[a][i].nap = 0
          BY <1>2, <2>1, <3>4, <4>1, <5>2 DEF AgentInv, GoneInv
        <5> QED
          BY <1>3, <1>4, <4>3, <5>3
      <4> QED
        BY <4>2, <4>3
    <3> QED
      BY <1>7, <3>1, <3>2, <3>3, <3>4 DEF GoneInv
  <2>7. PromiseInv(a)'
    <3> SUFFICES ASSUME life[a] = "up", nap[a] > time, a \notin offRecord
                 PROVE  (Announced(a) \/ Announcing(a))'
      BY <1>7 DEF PromiseInv
    <3>1. Announcing(a)
      BY <1>2, <2>1 DEF AgentInv, PromiseInv, Announced
    <3>2. PICK n \in Nat, z \in Replies : n = Len(outbox[a]) /\ z = outbox[a][n] /\ n >= 1
      BY <1>2, <1>4
    <3>3. /\ InStep /\ a \in expected /\ a \notin responded
          /\ z.t = time /\ z.action = "completed"
          /\ (z.nap < 0 /\ nap[a] = Inf) \/ (z.nap > 0 /\ nap[a] = time + z.nap)
          /\ \A i \in 1 .. n - 1 : outbox[a][i].t < time /\ outbox[a][i].t # -1
      BY <3>1, <3>2 DEF Announcing
    <3>4. CASE n = 1
      <4>1. r = z /\ t = time
        BY <1>2, <1>3, <1>5, <3>2, <3>3, <3>4
      <4>2. a \in responded'
        BY <1>14, <3>3, <4>1 DEF Counts
      <4>3. sleepUntil'[a] = nap[a]
        BY <1>12, <1>13, <3>3, <4>1
      <4>4. outbox'[a] = <<>>
        <5>1. outbox'[a] \in Seq(Replies)
          BY <1>9
        <5>2. Len(outbox'[a]) = Len(outbox[a]) - 1 /\ Len(outbox[a]) = 1
          BY <1>9, <3>2, <3>4, Zenon
        <5>3. Len(outbox'[a]) = 0
          BY <5>2
        <5> QED
          BY <5>1, <5>3, EmptyIsZero
      <4>5. Announced(a)'
        BY <1>7, <4>2, <4>3, <4>4 DEF Announced
      <4> QED
        BY <4>5
    <3>5. CASE n > 1
      <4>1. r.t < time /\ r.t # -1
        BY <1>3, <3>3, <3>5
      <4>2. t # time
        BY <1>2, <1>4, <1>5, <4>1
      <4>3. a \notin responded'
        BY <1>14, <3>3, <4>2 DEF Counts
      <4>4. /\ Len(outbox'[a]) = n - 1 /\ n - 1 \in 1 .. Len(outbox'[a])
            /\ outbox'[a][n - 1] = z
        BY <1>9, <3>2, <3>5
      <4>5. outbox'[a] # <<>>
        BY <1>9, <3>5, <4>4
      <4>6. \A i \in 1 .. n - 2 : outbox'[a][i].t < time /\ outbox'[a][i].t # -1
        BY <1>9, <3>2, <3>3, <4>4
      <4>7. Announcing(a)'
        BY <1>7, <3>3, <4>3, <4>4, <4>5, <4>6 DEF Announcing, InStep
      <4> QED
        BY <4>7
    <3>6. n = 1 \/ n > 1
      <4>1. n >= 1
        BY <3>2, Zenon
      <4> QED
        BY <4>1
    <3> QED
      BY <3>4, <3>5, <3>6, Zenon
  <2> QED
    BY <2>2, <2>4, <2>5, <2>6, <2>7 DEF AgentInv
<1> QED
  BY <1>15, <1>16, <1>17, <1>18, <1>19, <1>20 DEF BarrierInv

-----------------------------------------------------------------------------
(* The end of a step.                                                      *)

LEMMA StashKeeps ==
  ASSUME SetTypes, NEW u \in SUBSET Agents, NEW s \in Stashes(u)
  PROVE  s \subseteq u /\ (StashHolds => s = u)
<1>1. s \subseteq u
  BY DEF Stashes
<1>2. ASSUME StashHolds PROVE s = u
  <2>1. Cardinality(u) <= Cardinality(Agents) /\ Cardinality(u) \in Nat
    BY ConstantTypes, FS_Subset, FS_CardinalityType
  <2>2. Cardinality(u) <= StashMax
    BY <1>2, <2>1, ConstantTypes DEF StashHolds
  <2>3. Stashes(u) = {u}
    BY <2>2 DEF Stashes
  <2> QED
    BY <2>3
<1> QED
  BY <1>1, <1>2

LEMMA ReapStep ==
  ASSUME BarrierInv, Reap
  PROVE  BarrierInv'
<1> DEFINE non == expected \ responded
           gone == (shutReplied \cup non) \cap coll
           over == IF final THEN Sleeping \cap coll ELSE {}
           out == gone \cup over
<1>1. /\ ClockTypes /\ SetTypes /\ LedgerTypes /\ QueueTypes /\ CounterInv
      /\ \A b \in Agents : AgentInv(b)
  BY DEF BarrierInv
<1>2. /\ phase = "reap" /\ time' = time + 1 /\ phase' = IF final THEN "ended" ELSE "idle"
      /\ coll' = coll \ out /\ booting' = booting \ out /\ wakeTopics' = wakeTopics \ out
      /\ sleepUntil' = [a \in Agents |-> IF a \in out THEN Awake ELSE sleepUntil[a]]
      /\ offRecord' = offRecord \cup Stashable(non)
      /\ UNCHANGED <<final, expected, responded, outstanding, shutReplied, agentVars, tally, straddled>>
  BY Zenon DEF Reap, RemoveAgents
<1>3. /\ stash' \subseteq stash \cup Stashable(non)
      /\ StashHolds => stash' = stash \cup Stashable(non)
  <2>1. stash \cup Stashable(non) \in SUBSET Agents
    BY <1>1 DEF SetTypes, Stashable
  <2>2. stash' \in Stashes(stash \cup Stashable(non))
    BY Zenon DEF Reap
  <2> QED
    BY <1>1, <2>1, <2>2, StashKeeps
<1>4. Stashable(non) = (non \cap coll) \ shutReplied
  BY DEF Stashable
<1>5. time \in Nat /\ time < Horizon /\ (final <=> time = Horizon - 1) /\ InStep /\ ~RunOver
  BY <1>1, <1>2, ConstantTypes DEF ClockTypes, RunOver, InStep
<1>6. ~InStep' /\ (RunOver' <=> final) /\ (phase' = "idle" <=> ~final) /\ phase' \in {"idle", "ended"}
  BY <1>2 DEF InStep, RunOver
<1>7. ~final => over = {}
  OBVIOUS
<1>8. ClockTypes'
  BY <1>2, <1>5, <1>6, ConstantTypes DEF ClockTypes
<1>9. SetTypes'
  BY <1>1, <1>2, <1>3, <1>4, <1>6 DEF SetTypes
<1> HIDE DEF over
<1>10. LedgerTypes' /\ QueueTypes'
  BY <1>1, <1>2 DEF LedgerTypes, QueueTypes, agentVars, Awake
<1>11. CounterInv'
  BY <1>1, <1>2 DEF CounterInv, Missing
<1>12. ASSUME NEW b \in Agents PROVE AgentInv(b)'
  <2>1. AgentInv(b)
    BY <1>1
  <2>2. /\ life' = life /\ nap' = nap /\ inbox' = inbox /\ outbox' = outbox /\ subscribed' = subscribed
    BY <1>2 DEF agentVars
  <2>3. /\ sleepUntil'[b] = IF b \in out THEN Awake ELSE sleepUntil[b]
    BY <1>2
  <2>4. b \in coll => life[b] # "absent"
    BY <2>1 DEF AgentInv, NotYetUp
  <2>5. b \in booting => b \in booting' /\ b \notin out
    <3>1. ASSUME b \in booting PROVE b \notin out
      <4>1. b \notin shutReplied /\ sleepUntil[b] = Awake
        BY <2>1, <3>1 DEF AgentInv, GoneInv
      <4>2. b \notin expected
        BY <1>1, <1>5, <3>1 DEF SetTypes
      <4> QED
        BY <4>1, <4>2 DEF over, Sleeping
    <3> QED
      BY <1>2, <3>1
  <2>6. NotYetUp(b)'
    BY <1>2, <1>3, <1>4, <2>1, <2>2, <2>5 DEF AgentInv, NotYetUp
  <2>7. SaidInv(b)'
    <3>1. ASSUME NEW i \in 1 .. Len(outbox[b])
          PROVE  outbox[b][i].t \in -1 .. time + 1 /\ outbox[b][i].t < time + 1
      BY <1>5, <2>1 DEF AgentInv, SaidInv
    <3> QED
      BY <1>2, <2>1, <2>2, <2>5, <3>1 DEF AgentInv, SaidInv
  <2>8. HeardInv(b)'
    <3>1. ASSUME NEW i \in 1 .. Len(inbox[b])
          PROVE  inbox[b][i].t <= time + 1 /\ inbox[b][i].t < time + 1
      <4>1. inbox[b][i].t <= time
        BY <2>1 DEF AgentInv, HeardInv
      <4>2. inbox[b] \in Seq(Broadcasts)
        BY <1>1 DEF QueueTypes
      <4>3. inbox[b][i] \in Broadcasts
        BY <4>2
      <4>4. inbox[b][i].t \in Nat
        BY <4>3 DEF Broadcasts
      <4> QED
        BY <1>5, <4>1, <4>4
    <3> QED
      BY <1>2, <1>6, <2>1, <2>2, <3>1 DEF AgentInv, HeardInv
  <2>9. GoneInv(b)'
    <3>1. GoneInv(b)
      BY <2>1 DEF AgentInv
    <3>2. b \in booting' => b \notin shutReplied /\ sleepUntil'[b] = Awake
      BY <1>2, <2>3, <3>1 DEF GoneInv
    <3>3. StashHolds /\ ~final /\ b \notin coll' \cup stash' =>
             b \in shutReplied \/ b \notin coll \cup stash
      BY <1>2, <1>3, <1>4, <1>7
    <3>4. StashHolds /\ ~final /\ b \notin coll' => sleepUntil'[b] = Awake
      BY <1>2, <1>5, <2>3, <3>1 DEF GoneInv
    <3> QED
      BY <1>2, <1>5, <1>6, <2>2, <3>1, <3>2, <3>3, <3>4 DEF GoneInv
  <2>10. PromiseInv(b)'
    <3> SUFFICES ASSUME ~final, life[b] = "up", nap[b] > time + 1, b \notin offRecord, b \notin Stashable(non)
                 PROVE  Announced(b)'
      BY <1>2, <1>6, <2>2 DEF PromiseInv
    <3>1. nap[b] > time
      BY <1>1, <1>5 DEF LedgerTypes
    <3>2. b \notin shutReplied
      BY <2>1 DEF AgentInv, GoneInv
    <3>3. b \notin non
      BY <1>1, <1>4, <1>5, <3>2 DEF SetTypes
    <3>4. outbox[b] = <<>> /\ sleepUntil[b] = nap[b]
      BY <1>5, <2>1, <3>1, <3>3 DEF AgentInv, PromiseInv, Announced, Announcing
    <3>5. sleepUntil'[b] = nap[b]
      BY <1>7, <2>3, <3>2, <3>3, <3>4
    <3> QED
      BY <1>6, <2>2, <3>4, <3>5 DEF Announced
  <2> QED
    BY <2>6, <2>7, <2>8, <2>9, <2>10 DEF AgentInv
<1> QED
  BY <1>8, <1>9, <1>10, <1>11, <1>12 DEF BarrierInv

-----------------------------------------------------------------------------
(* The theorems.                                                           *)

LEMMA BarrierNext ==
  ASSUME BarrierInv, [Next]_vars
  PROVE  BarrierInv'
<1>1. CASE UNCHANGED vars
  <2>1. UNCHANGED <<schedVars, tally, straddled, life, nap, inbox, outbox, subscribed, offRecord>>
    BY <1>1 DEF vars, agentVars
  <2>2. ClockTypes' /\ SetTypes' /\ CounterInv'
    BY <2>1, SchedulerFrame
  <2>3. LedgerTypes' /\ QueueTypes'
    BY <2>1 DEF BarrierInv, LedgerTypes, QueueTypes, schedVars
  <2>4. ASSUME NEW b \in Agents PROVE AgentInv(b)'
    BY <2>1, OtherAgent DEF BarrierInv
  <2> QED
    BY <2>2, <2>3, <2>4 DEF BarrierInv
<1>2. CASE Loop \/ Tally
  BY <1>2, BeginStepStep, WaitEndsStep, ReapStep, TallyStep DEF Loop
<1>3. ASSUME NEW a \in Agents,
             \/ AddAgent(a) \/ Boot(a) \/ AppEvent(a) \/ Refresh(a)
             \/ Agent(a) \/ HandleReply(a) \/ Orphan(a)
      PROVE  BarrierInv'
  BY <1>3, AddAgentStep, BootStep, ListenStep, SwallowStep, WorkStepStep, HearShutdownStep,
     HandleReplyStep, OrphanStep DEF Agent
<1> QED
  BY <1>1, <1>2, <1>3 DEF Next, Rest

LEMMA BarrierInvAlways == Spec => []BarrierInv
<1>1. BarrierInv /\ [Next]_vars => BarrierInv'
  BY BarrierNext
<1> QED
  BY <1>1, InitInv, PTL DEF Spec

LEMMA BarrierInvIsSafe ==
  ASSUME BarrierInv
  PROVE  TypeOK /\ TallyExact /\ StashDisjoint /\ NeverAwaitsSleeper
         /\ (StashHolds => SleepersRegistered)
<1>1. TypeOK
  <2>1. Missing \in Nat /\ Cardinality(expected) \in Nat /\ Cardinality(expected) <= Cardinality(Agents)
    BY MissingIsNat DEF BarrierInv
  <2>2. outstanding \in Int /\ outstanding <= Cardinality(expected) /\ outstanding >= Missing - 1
    <3>1. CASE tally = NoTally
      BY <2>1, <3>1 DEF BarrierInv, CounterInv
    <3>2. CASE tally # NoTally
      BY <2>1, <3>2 DEF BarrierInv, CounterInv
    <3> QED
      BY <3>1, <3>2
  <2>3. outstanding \in -1 .. Cardinality(Agents)
    BY <2>1, <2>2, ConstantTypes
  <2>4. time \in 0 .. Horizon /\ phase \in {"idle", "wait", "reap", "ended", "aborted"}
    BY DEF BarrierInv, ClockTypes
  <2>5. /\ coll \subseteq Agents /\ booting \subseteq coll /\ expected \subseteq Agents
        /\ responded \subseteq expected \cup coll /\ stash \subseteq Agents /\ wakeTopics \subseteq Agents
    BY DEF BarrierInv, SetTypes
  <2>6. sleepUntil \in [Agents -> Ledger] /\ tally \in Agents \cup {NoTally}
    BY DEF BarrierInv, LedgerTypes, CounterInv, Ledger
  <2> QED
    BY <2>3, <2>4, <2>5, <2>6 DEF TypeOK
<1>2. TallyExact
  BY DEF BarrierInv, CounterInv, TallyExact, Missing
<1>3. StashHolds => SleepersRegistered
  BY DEF BarrierInv, AgentInv, GoneInv, SleepersRegistered, Sleeping
<1>4. StashDisjoint
  BY DEF BarrierInv, SetTypes, StashDisjoint
<1>5. NeverAwaitsSleeper
  <2> SUFFICES ASSUME phase = "wait", NEW a \in expected \ responded, SilentByPromise(a)
               PROVE  a \in offRecord
    BY DEF NeverAwaitsSleeper
  <2>1. a \in Agents
    BY DEF BarrierInv, SetTypes
  <2> QED
    BY <2>1 DEF BarrierInv, AgentInv, PromiseInv, Announced, Announcing, SilentByPromise, InStep, RunOver
<1> QED
  BY <1>1, <1>2, <1>3, <1>4, <1>5

\* A reply queue never shortens but by the MQTT thread.
LEMMA OnlyRepliesShorten ==
  ASSUME BarrierInv, [Next]_vars, NEW a \in Agents, outbox[a] # <<>>, outbox'[a] = Tail(outbox[a])
  PROVE  HandleReply(a)
<1>1. outbox[a] \in Seq(Replies) /\ outbox \in [Agents -> Seq(Replies)]
  BY DEF BarrierInv, QueueTypes
<1>2. Len(outbox'[a]) = Len(outbox[a]) - 1 /\ Len(outbox[a]) \in Nat
  BY <1>1, TailFacts
<1>3. outbox'[a] # outbox[a]
  <2>1. SUFFICES ASSUME outbox'[a] = outbox[a] PROVE FALSE
    OBVIOUS
  <2>2. PICK n \in Nat : n = Len(outbox[a])
    BY <1>2
  <2>3. n = n - 1
    BY <1>2, <2>1, <2>2, Zenon
  <2> QED
    BY <2>3
<1>4. ASSUME NEW b \in Agents, NEW x, Say(b, x)
      PROVE  FALSE
  <2>1. outbox' = [outbox EXCEPT ![b] = Append(outbox[b], x)]
    BY <1>4 DEF Say
  <2>2. b = a
    BY <1>1, <1>3, <2>1
  <2>3. outbox'[a] = Append(outbox[a], x)
    BY <1>1, <2>1, <2>2
  <2>4. Len(Append(outbox[a], x)) = Len(outbox[a]) + 1
    BY <1>1
  <2>5. PICK n \in Nat : n = Len(outbox[a])
    BY <1>2
  <2>6. n - 1 = n + 1
    BY <1>2, <2>3, <2>4, <2>5, Zenon
  <2> QED
    BY <2>6
<1>5. ASSUME NEW b \in Agents, HandleReply(b)
      PROVE  HandleReply(a)
  <2>1. b = a
    BY <1>1, <1>3, <1>5 DEF HandleReply
  <2> QED
    BY <1>5, <2>1
<1>6. outbox' # outbox
  BY <1>3
<1>7. ~UNCHANGED vars
  BY <1>6 DEF vars, agentVars
<1>8. ~Loop /\ ~Tally /\ ~Rest
  BY <1>6, <1>7 DEF Loop, BeginStep, Resolve, SettleExit, StepTimeout, Reap, Tally, Rest, agentVars
<1>9. \A b \in Agents : ~AddAgent(b) /\ ~AppEvent(b) /\ ~Refresh(b) /\ ~Swallow(b) /\ ~Orphan(b)
  BY <1>6 DEF AddAgent, AppEvent, Refresh, Swallow, Orphan
<1>10. \A b \in Agents : ~Boot(b) /\ ~WorkStep(b) /\ ~HearShutdown(b)
  BY <1>4 DEF Boot, WorkStep, HearShutdown
<1> QED
  BY <1>5, <1>7, <1>8, <1>9, <1>10 DEF Next, Agent

\* Whatever order broadcasts, replies, timeouts and naps come in: the count is exact,
\* the stash and the collection are disjoint, and the barrier waits for a silent
\* agent only when its promise was given off the record.  The ledger speaks of
\* registered agents when the stash has room for them all: an agent that drops out
\* of a full stash is not reinstated, and its late nap is still entered.
THEOREM BarrierSafeAlways ==
  ASSUME StashHolds
  PROVE  Spec => []BarrierSafe
<1>1. BarrierInv => BarrierSafe
  BY BarrierInvIsSafe DEF BarrierSafe
<1> QED
  BY <1>1, BarrierInvAlways, PTL

\* The same without the condition on the stash, for what does not need it.
THEOREM BarrierWaitsRight == Spec => [](TypeOK /\ TallyExact /\ StashDisjoint /\ NeverAwaitsSleeper)
<1>1. BarrierInv => TypeOK /\ TallyExact /\ StashDisjoint /\ NeverAwaitsSleeper
  BY BarrierInvIsSafe
<1> QED
  BY <1>1, BarrierInvAlways, PTL

\* A late completion of a pruned agent registers it again, in the step that hears it.
THEOREM LateReplyReinstatesAlways == Spec => LateReplyReinstates
<1>1. ASSUME BarrierInv, [Next]_vars
      PROVE  [ \A a \in Agents :
                 (/\ a \in stash /\ outbox[a] # <<>> /\ outbox'[a] = Tail(outbox[a])
                  /\ Head(outbox[a]).action = "completed") => a \in coll' ]_vars
  <2> SUFFICES ASSUME NEW a \in Agents, a \in stash, outbox[a] # <<>>, outbox'[a] = Tail(outbox[a]),
                      Head(outbox[a]).action = "completed"
               PROVE  a \in coll'
    BY Zenon
  <2>1. HandleReply(a)
    BY <1>1, OnlyRepliesShorten
  <2>2. Reinstates(a, Head(outbox[a]).action)
    BY <1>1 DEF BarrierInv, SetTypes, Reinstates
  <2> QED
    BY <2>1, <2>2 DEF HandleReply
<1> QED
  BY <1>1, BarrierInvAlways, PTL DEF Spec, LateReplyReinstates
=================================================================================
