---------------------------- MODULE DurableIngest ----------------------------
(***************************************************************************)
(* What the dataplane's ingest promises its operators, with the process    *)
(* left out: records are produced, some are superseded on a compacted      *)
(* topic, rows become durable in any order and any number of times, and    *)
(* the group's offset only ever moves to a point with nothing unwritten    *)
(* below it.  "Every store write in this package is an idempotent upsert", *)
(* so a row is a member of a set.                                          *)
(***************************************************************************)
EXTENDS Integers

CONSTANTS Topics, Poison, Preassigned, MaxOffset

VARIABLES end, gone, stored, group

vars == <<end, gone, stored, group>>

Offsets == 0 .. MaxOffset

Accounted(t, o) == o \in stored[t] \/ <<t, o>> \in Poison \/ o \in gone[t]

Init ==
  /\ end = [t \in Topics |-> 0]
  /\ gone = [t \in Topics |-> {}]
  /\ stored = [t \in Topics |-> {}]
  /\ group = [t \in Topics |-> IF t \in Preassigned THEN 0 ELSE -1]

Append ==
  /\ \E t \in Topics : end' = [end EXCEPT ![t] = @ + 1]
  /\ UNCHANGED <<gone, stored, group>>

\* A record goes only when a newer one exists.
Supersede ==
  /\ \E t \in Topics : \E o \in 0 .. end[t] - 2 : gone' = [gone EXCEPT ![t] = @ \cup {o}]
  /\ UNCHANGED <<end, stored, group>>

\* Rows of produced records become durable and never go away.
Write ==
  /\ \A t \in Topics : /\ stored[t] \subseteq stored'[t]
                       /\ \A o \in stored'[t] \ stored[t] : o < end[t]
  /\ UNCHANGED <<end, gone, group>>

Acknowledge ==
  /\ \A t \in Topics : group'[t] # group[t] =>
       \A o \in Offsets : o < group'[t] => Accounted(t, o)
  /\ UNCHANGED <<end, gone, stored>>

Next == Append \/ Supersede \/ Write \/ Acknowledge

Spec == Init /\ [][Next]_vars
=============================================================================
