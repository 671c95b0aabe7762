------------------------------ MODULE StepBarrier ------------------------------
(***************************************************************************)
(* The step barrier of apps/simulation/openride_scheduler.py together with *)
(* the agents of apps/container_logistics/openride_agent.py.               *)
(*                                                                         *)
(* Two threads share the scheduler's state: the event loop (BeginStep,     *)
(* Resolve, SettleExit, StepTimeout, Reap) and the MQTT thread, which      *)
(* handles one reply at a time (HandleReply, then Tally when the reply     *)
(* counts).  Between HandleReply and Tally the event loop may run.         *)
(* An agent is a mailbox of broadcasts and a queue of replies; queues keep *)
(* their order, as one MQTT connection does.                               *)
(***************************************************************************)
EXTENDS Integers, FiniteSets, Sequences

CONSTANTS
    Agents,
    Orders,         \* the agents that nap (OrderAgent); the others keep the default hint 0
    Horizon,        \* SIMULATION_LENGTH_IN_STEPS
    TolNum, TolDen, \* STEP_TIMEOUT_TOLERANCE = TolNum / TolDen
    AbortAfter,     \* STEP_TIMEOUT_ABORT_CONSECUTIVE
    StashMax,       \* _PRUNED_STASH_MAX
    Inf,            \* float('inf'), a wake step past every other
    Naps,           \* answers an order's sleep_steps_hint may give: 0, -1 or a number of steps
    MaxEvents,      \* bound: workflow events delivered to agents
    MaxLate         \* bound: steps that end before every expected reply

NoTally == "none"           \* no reply is being counted

ASSUME BarrierAssumption ==
    /\ IsFiniteSet(Agents) /\ NoTally \notin Agents /\ Orders \subseteq Agents /\ Horizon \in Nat \ {0}
    /\ TolNum \in Nat /\ TolDen \in Nat \ {0} /\ TolNum < TolDen
    /\ AbortAfter \in Nat \ {0} /\ StashMax \in Nat
    /\ Naps \subseteq Int /\ Inf \in Nat /\ Inf > Horizon /\ \A n \in Naps : Inf > Horizon + n
    /\ MaxEvents \in Nat /\ MaxLate \in Nat

VARIABLES
    time, phase, final, coll, booting, expected, responded, outstanding, total,
    shutReplied, sleepUntil, wakeTopics, stash, streak,   \* the scheduler
    tally,                                                \* the MQTT thread
    life, nap, subscribed, event, inbox, outbox,          \* the agents
    events, late,                                         \* bounds
    offRecord, straddled                                     \* history

schedVars == <<time, phase, final, coll, booting, expected, responded, outstanding,
               total, shutReplied, sleepUntil, wakeTopics, stash, streak>>
agentVars == <<life, nap, subscribed, event, inbox, outbox>>
vars == <<schedVars, agentVars, tally, events, late, offRecord, straddled>>

Awake == 0                  \* no entry in _sleeping_until; _sleep_until_step is None
Ledger == Nat               \* a wake step

Broadcast(kind, t) == [kind |-> kind, t |-> t]
Reply(t, action, n) == [t |-> t, action |-> action, nap |-> n]
RunOver == phase \in {"ended", "aborted"}

Sleeping == {a \in Agents : sleepUntil[a] # Awake}

Init ==
    /\ time = 0 /\ phase = "idle" /\ final = FALSE
    /\ coll = {} /\ booting = {} /\ expected = {} /\ responded = {}
    /\ outstanding = 0 /\ total = 0 /\ shutReplied = {}
    /\ sleepUntil = [a \in Agents |-> Awake] /\ wakeTopics = {}
    /\ stash = {} /\ streak = 0 /\ tally = NoTally
    /\ life = [a \in Agents |-> "absent"]
    /\ nap = [a \in Agents |-> Awake]
    /\ subscribed = [a \in Agents |-> FALSE]
    /\ event = [a \in Agents |-> FALSE]
    /\ inbox = [a \in Agents |-> <<>>]
    /\ outbox = [a \in Agents |-> <<>>]
    /\ events = 0 /\ late = 0
    /\ offRecord = {} /\ straddled = FALSE

-----------------------------------------------------------------------------
(* The event loop                                                          *)

\* add_agent: the agent is registered before its Celery task runs.
AddAgent(a) ==
    /\ phase = "idle" /\ life[a] = "absent"
    /\ coll' = coll \cup {a}
    /\ booting' = booting \cup {a}
    /\ life' = [life EXCEPT ![a] = "boot"]
    /\ UNCHANGED <<time, phase, final, expected, responded, outstanding, total, shutReplied,
                   sleepUntil, wakeTopics, stash, streak, nap, subscribed, event, inbox,
                   outbox, tally, events, late, offRecord, straddled>>

\* _begin_step_barrier: naps that are over are dropped; whoever is neither
\* booting nor asleep is expected.
Expired(s) == {a \in Agents : s[a] # Awake /\ s[a] <= time}

\* Slip: naps are ignored when the baseline is taken.
ExpectedAwakeOrNot(ledger) == coll \ booting
ExpectedFrom(ledger) == {a \in coll \ booting : ledger[a] = Awake}

BaselineCount(exp) == Cardinality(exp)

\* step() up to the publish: the baseline, the direct notice to the sleepers of
\* the final step, the broadcast.
BeginStep ==
    /\ phase = "idle"
    /\ LET gone  == Expired(sleepUntil)
           ledger == [a \in Agents |-> IF a \in gone THEN Awake ELSE sleepUntil[a]]
           isFinal == time = Horizon - 1
           msg == Broadcast(IF isFinal THEN "shutdown" ELSE "step", time)
           direct == IF isFinal THEN wakeTopics \ gone ELSE {}
       IN /\ sleepUntil' = ledger
          /\ wakeTopics' = wakeTopics \ gone
          /\ final' = isFinal
          /\ expected' = ExpectedFrom(ledger)
          /\ outstanding' = BaselineCount(expected')
          /\ inbox' = [a \in Agents |->
                         (IF a \in direct /\ life[a] = "up"
                            THEN Append(inbox[a], Broadcast("direct", time)) ELSE inbox[a])
                         \o (IF subscribed[a] THEN <<msg>> ELSE <<>>)]
    /\ responded' = {} /\ shutReplied' = {}
    /\ total' = Cardinality(coll)
    /\ phase' = "wait"
    /\ straddled' = (straddled \/ tally # NoTally)
    /\ UNCHANGED <<time, coll, booting, stash, streak, life, nap, subscribed, event,
                   outbox, tally, events, late, offRecord>>

Done == outstanding <= 0

\* confirm_responses returns: nobody is outstanding.
Resolve ==
    /\ phase = "wait" /\ Done
    /\ phase' = "reap" /\ streak' = 0
    /\ UNCHANGED <<time, final, coll, booting, expected, responded, outstanding, total,
                   shutReplied, sleepUntil, wakeTopics, stash, agentVars, tally, events, late,
                   offRecord, straddled>>

Tolerated(n, of) == n * TolDen <= TolNum * of

\* confirm_responses returns early: after STEP_SETTLE_SECONDS few enough are missing.
SettleExit ==
    /\ phase = "wait" /\ outstanding > 0 /\ late < MaxLate
    /\ total > 0 /\ Tolerated(outstanding, total)
    /\ phase' = "reap" /\ streak' = 0 /\ late' = late + 1
    /\ UNCHANGED <<time, final, coll, booting, expected, responded, outstanding, total,
                   shutReplied, sleepUntil, wakeTopics, stash, agentVars, tally, events,
                   offRecord, straddled>>

\* STEP_TIMEOUT expires: step_timeout_handler continues or re-raises. The bound
\* MaxLate counts the timeouts that overtake an answer still on its way.
NobodyWillAnswer ==
    \A a \in expected \ responded : inbox[a] = <<>> /\ outbox[a] = <<>>
StepTimeout ==
    /\ phase = "wait" /\ outstanding > 0
    /\ IF NobodyWillAnswer /\ tally = NoTally THEN UNCHANGED late
                                            ELSE late < MaxLate /\ late' = late + 1
    /\ LET n == Cardinality(coll)
           bad == n > 0 /\ ~Tolerated(outstanding, n)
       IN /\ streak' = IF bad THEN streak + 1 ELSE 0
          /\ phase' = IF bad /\ streak' >= AbortAfter THEN "aborted" ELSE "reap"
    /\ UNCHANGED <<time, final, coll, booting, expected, responded, outstanding, total,
                   shutReplied, sleepUntil, wakeTopics, stash, agentVars, tally, events,
                   offRecord, straddled>>

\* remove_agent: registration and nap go together.
RemoveAgents(gone) ==
    /\ coll' = coll \ gone /\ booting' = booting \ gone
    /\ sleepUntil' = [a \in Agents |-> IF a \in gone THEN Awake ELSE sleepUntil[a]]
    /\ wakeTopics' = wakeTopics \ gone

\* The stash keeps the latest StashMax pruned agents; which of the older ones go
\* first is the order of insertion, left open here.
Stashes(s) == IF Cardinality(s) <= StashMax THEN {s}
              ELSE {t \in SUBSET s : Cardinality(t) = StashMax}

\* step() after the wait: reap, prune into the stash, clear the sleepers of the
\* final step, advance the clock.
Stashable(non) == (non \cap coll) \ shutReplied
Reap ==
    /\ phase = "reap"
    /\ LET non  == expected \ responded
           gone == (shutReplied \cup non) \cap coll
           over == IF final THEN Sleeping \cap coll ELSE {}
       IN /\ \E s \in Stashes(stash \cup Stashable(non)) : stash' = s
          /\ RemoveAgents(gone \cup over)
          /\ offRecord' = offRecord \cup Stashable(non)
    /\ time' = time + 1
    /\ phase' = IF final THEN "ended" ELSE "idle"
    /\ UNCHANGED <<final, expected, responded, outstanding, total, shutReplied, streak,
                   agentVars, tally, events, late, straddled>>

-----------------------------------------------------------------------------
(* The MQTT thread                                                         *)

\* A late reply of a pruned agent puts it back.
\* Slip: only a ready agent is put back.
ReinstatesReadyOnly(a, action) == a \notin coll /\ a \in stash /\ action = "ready"
Reinstates(a, action) == a \notin coll /\ a \in stash /\ action \in {"completed", "ready"}

StashAfter(a, back) == IF back THEN stash \ {a} ELSE stash

Counts(a, t) == t = time /\ a \in expected /\ a \notin responded

\* _handle_reply up to the counters: reinstatement, boot flag, sleep ledger, and
\* the test whether the reply counts for the current step.
HandleReply(a) ==
    /\ ~RunOver /\ tally = NoTally
    /\ outbox[a] # <<>>
    /\ LET r == Head(outbox[a])
           t == IF r.t = -1 THEN time ELSE r.t
           back == Reinstates(a, r.action)
       IN /\ coll' = IF back THEN coll \cup {a} ELSE coll
          /\ stash' = StashAfter(a, back)
          /\ booting' = booting \ {a}
          /\ sleepUntil' = [sleepUntil EXCEPT ![a] =
                CASE r.nap < 0 -> Inf [] r.nap > 0 -> t + r.nap [] OTHER -> Awake]
          /\ wakeTopics' = CASE r.nap < 0 -> wakeTopics \cup {a}
                             [] r.nap > 0 -> wakeTopics
                             [] OTHER     -> wakeTopics \ {a}
          /\ shutReplied' = IF t = time /\ r.action = "shutdown"
                              THEN shutReplied \cup {a} ELSE shutReplied
          /\ IF Counts(a, t)
               THEN responded' = responded \cup {a} /\ tally' = a
               ELSE UNCHANGED <<responded, tally>>
    /\ outbox' = [outbox EXCEPT ![a] = Tail(@)]
    /\ UNCHANGED <<time, phase, final, expected, outstanding, total, streak, life, nap,
                   subscribed, event, inbox, events, late, offRecord, straddled>>

\* The last lines of _handle_reply: the counter, and with it the wake-up.
Tally ==
    /\ ~RunOver /\ tally # NoTally
    /\ outstanding' = outstanding - 1
    /\ tally' = NoTally
    /\ UNCHANGED <<time, phase, final, coll, booting, expected, responded, total, shutReplied,
                   sleepUntil, wakeTopics, stash, streak, agentVars, events, late,
                   offRecord, straddled>>

-----------------------------------------------------------------------------
(* The agents                                                              *)

Say(a, r) == outbox' = [outbox EXCEPT ![a] = Append(@, r)]

\* The Celery task comes up, subscribes and reports ready (orsim, external).
Boot(a) ==
    /\ life[a] = "boot"
    /\ life' = [life EXCEPT ![a] = "up"]
    /\ subscribed' = [subscribed EXCEPT ![a] = TRUE]
    /\ Say(a, Reply(-1, "ready", 0))
    /\ UNCHANGED <<schedVars, nap, event, inbox, tally, events, late, offRecord, straddled>>

\* A workflow event lands on an order's app topic: an unsubscribed sleeper rejoins the
\* broadcast (_wrap_app_topic_handler, _resubscribe_broadcast).
AppEvent(a) ==
    /\ a \in Orders /\ life[a] = "up" /\ ~event[a] /\ events < MaxEvents /\ ~RunOver
    /\ events' = events + 1
    /\ event' = [event EXCEPT ![a] = TRUE]
    /\ subscribed' = [subscribed EXCEPT ![a] = @ \/ nap[a] # Awake]
    /\ UNCHANGED <<schedVars, life, nap, inbox, outbox, tally, late, offRecord, straddled>>

\* handle_heartbeat_failure, halfway to the orphan deadline: listen to one
\* broadcast to learn whether the run still lives.
Refresh(a) ==
    /\ life[a] = "up" /\ nap[a] # Awake /\ ~subscribed[a] /\ ~RunOver
    /\ subscribed' = [subscribed EXCEPT ![a] = TRUE]
    /\ UNCHANGED <<schedVars, life, nap, event, inbox, outbox, tally, events, late,
                   offRecord, straddled>>

Take(a) == inbox' = [inbox EXCEPT ![a] = Tail(@)]

\* handle_orsim_agent_message, zombie gate and sleep gate: the step is swallowed.
\* An indefinite sleeper leaves the broadcast again.
Swallow(a) ==
    /\ inbox[a] # <<>> /\ Head(inbox[a]).kind = "step"
    /\ \/ /\ life[a] = "down"
          /\ UNCHANGED subscribed
       \/ /\ life[a] = "up"
          /\ nap[a] # Awake /\ Head(inbox[a]).t < nap[a] /\ ~event[a]
          /\ subscribed' = [subscribed EXCEPT ![a] = nap[a] # Inf]
    /\ Take(a)
    /\ UNCHANGED <<schedVars, life, nap, event, outbox, tally, events, late, offRecord, straddled>>

\* An awake agent works a step off and answers; the answer may announce a nap or
\* report that processing raised, and the agent may have reached its end.
WorkStep(a) ==
    /\ life[a] = "up"
    /\ inbox[a] # <<>> /\ Head(inbox[a]).kind = "step"
    /\ nap[a] = Awake \/ event[a] \/ Head(inbox[a]).t >= nap[a]
    /\ Take(a)
    /\ event' = [event EXCEPT ![a] = FALSE]
    /\ LET t == Head(inbox[a]).t IN
       \/ \E n \in (IF a \in Orders THEN Naps ELSE {0}) :
             /\ Say(a, Reply(t, "completed", n))
             /\ nap' = [nap EXCEPT ![a] =
                          CASE n < 0 -> Inf [] n > 0 -> t + n [] OTHER -> Awake]
             /\ subscribed' = [subscribed EXCEPT ![a] = n >= 0]
             /\ offRecord' = IF t = time /\ a \in expected THEN offRecord \ {a}
                                                            ELSE offRecord \cup {a}
             /\ UNCHANGED life
       \/ /\ Say(a, Reply(t, "error", 0))
          /\ nap' = [nap EXCEPT ![a] = Awake]
          /\ UNCHANGED <<life, subscribed, offRecord>>
       \/ /\ Say(a, Reply(t, "shutdown", 0))
          /\ nap' = [nap EXCEPT ![a] = Awake]
          /\ life' = [life EXCEPT ![a] = "down"]
          /\ UNCHANGED <<subscribed, offRecord>>
    /\ UNCHANGED <<schedVars, tally, events, late, straddled>>

\* A shutdown is never swallowed, whether it came by broadcast or directly.
HearShutdown(a) ==
    /\ inbox[a] # <<>> /\ Head(inbox[a]).kind # "step"
    /\ Take(a)
    /\ Say(a, Reply(Head(inbox[a]).t, "shutdown", 0))
    /\ life' = [life EXCEPT ![a] = "down"]
    /\ subscribed' = [subscribed EXCEPT ![a] = @ \/ Head(inbox[a]).kind = "direct"]
    /\ UNCHANGED <<schedVars, nap, event, tally, events, late, offRecord, straddled>>

\* handle_heartbeat_failure past ORPHAN_TIMEOUT: the run is gone, no broadcast is
\* on its way.
Abandoned(a) == RunOver /\ inbox[a] = <<>>
Orphan(a) ==
    /\ life[a] = "up" /\ Abandoned(a)
    /\ life' = [life EXCEPT ![a] = "down"]
    /\ UNCHANGED <<schedVars, nap, subscribed, event, inbox, outbox, tally, events, late,
                   offRecord, straddled>>

-----------------------------------------------------------------------------
Agent(a) == Swallow(a) \/ WorkStep(a) \/ HearShutdown(a)
Loop == BeginStep \/ Resolve \/ SettleExit \/ StepTimeout \/ Reap

\* The run is over and every agent that came up has let go of its connection.
Released == RunOver /\ \A a \in Agents : life[a] # "up" /\ inbox[a] = <<>>
Rest == Released /\ UNCHANGED vars

\* Deadlock is checked: whatever was lost, pruned or asleep, the run moves on until
\* it is over and every agent is released.
Next ==
    \/ Loop \/ Tally \/ Rest
    \/ \E a \in Agents :
          \/ AddAgent(a) \/ Boot(a) \/ AppEvent(a) \/ Refresh(a)
          \/ Agent(a) \/ HandleReply(a) \/ Orphan(a)

Spec == Init /\ [][Next]_vars

-----------------------------------------------------------------------------
(* Properties                                                              *)

\* Types and the ranges of the counters of the barrier.
TypeOK ==
    /\ time \in 0..Horizon /\ phase \in {"idle", "wait", "reap", "ended", "aborted"}
    /\ coll \subseteq Agents /\ booting \subseteq coll /\ expected \subseteq Agents
    /\ responded \subseteq expected \cup coll /\ outstanding \in -1..Cardinality(Agents)
    /\ stash \subseteq Agents /\ wakeTopics \subseteq Agents
    /\ sleepUntil \in [Agents -> Ledger]
    /\ tally \in Agents \cup {NoTally}

\* The waiting count is the number of expected agents that have not answered, less
\* the one whose answer is just being counted - as long as no count crossed from
\* one step into the next (lines 243-252).
TallyExact ==
    (phase = "wait" /\ ~straddled) =>
        outstanding = Cardinality(expected \ responded) + (IF tally = NoTally THEN 0 ELSE 1)

\* The nap ledger speaks of registered agents only: HorizonDrainTermination
\* subtracts its size from the size of the collection, so a foreign entry would
\* end the drain early. (After the final step it is no longer read.)
SleepersRegistered == ~RunOver => Sleeping \subseteq coll

\* A pruned agent is out of the collection until it is heard of again: stash and
\* collection never both hold an agent, so a reinstated agent is not counted twice.
StashDisjoint == stash \cap coll = {}

\* The barrier waits for an agent that has promised to be silent only if the
\* promise was given off the record: in answer to a step in which the agent was not
\* expected (it had just booted or had woken by itself) or in one that ended without
\* its answer, so that nobody waited for the announcement before the next baseline.
SilentByPromise(a) ==
    /\ life[a] = "up" /\ nap[a] > time /\ ~event[a]
    /\ inbox[a] = <<>> /\ outbox[a] = <<>> /\ tally # a
NeverAwaitsSleeper ==
    phase = "wait" =>
        \A a \in expected \ responded : SilentByPromise(a) => a \in offRecord

\* A live agent that keeps answering is not lost to the run: whoever was pruned
\* and speaks again is registered again, before anything else is decided on it.
LateReplyReinstates ==
    [][ \A a \in Agents :
          (/\ a \in stash /\ outbox[a] # <<>> /\ outbox'[a] = Tail(outbox[a])
           /\ Head(outbox[a]).action = "completed") => a \in coll' ]_vars

\* What the barrier must keep whoever is late, naps, is pruned or comes back.
BarrierSafe ==
    TypeOK /\ TallyExact /\ SleepersRegistered /\ StashDisjoint /\ NeverAwaitsSleeper
=============================================================================
