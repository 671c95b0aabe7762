-------------------------- MODULE SimulationRunProofs --------------------------
(***************************************************************************)
(* Proofs about the status writes and the end of a simulation process, for *)
(* every horizon, plan of orders and bound on rival writes, faults and     *)
(* signals.  RunInv ties the etags of PATCHes in flight to the record's;   *)
(* SpawnInv ties the orders spawned and waiting to the plan.  The last     *)
(* part is about the live map the run's trips are drawn on.                *)
(***************************************************************************)
EXTENDS SimulationRun, RunReports, WellFoundedInduction, TLAPS

LEMMA ConstantTypes ==
  /\ HorizonSteps \in Nat \ {0} /\ MaxDrain \in Nat
  /\ OrdersDue \in [0..HorizonSteps -> Nat] /\ SpawnCap \in Nat \ {0}
  /\ Attempts \in Nat \ {0} /\ MaxRivals \in Nat /\ MaxFaults \in Nat /\ MaxSignals \in Nat
BY RunAssumption

-----------------------------------------------------------------------------
(* Types.                                                                  *)

Before == {"start", "loop", "step", "status", "patch", "refresh", "nextStep", "terminal"}
Points == Before \cup {"announce", "flush", "exit"}
Writes == [status : {"InProgress", "success"}, etag : Nat]

WorldTypes ==
  /\ step \in 0 .. Cap + 1 /\ backlog \in Nat /\ live \in Nat
  /\ svc \in [Services -> {"boot", "up", "gone"}]

RequestTypes ==
  /\ pc \in Points
  /\ doc \in [status : {"none", "InProgress", "success"}, etag : Nat]
  /\ cached \in Nat /\ etag \in Nat
  /\ attempt \in 0 .. Attempts /\ tries \in 0 .. Attempts
  /\ want \in {"none", "InProgress", "success"}
  /\ stray \subseteq Writes
  /\ rivals \in Nat /\ faults \in Nat /\ signals \in Nat

EndTypes ==
  /\ published \in Seq({"COMPLETED", "FAILED", "CANCELLED"})
  /\ latch \in BOOLEAN

-----------------------------------------------------------------------------
(* The inductive invariant.                                                *)

\* No etag in anybody's hands is newer than the record's.
EtagsBehind ==
  /\ etag <= doc.etag /\ cached <= doc.etag
  /\ \A m \in stray : m.etag <= doc.etag

\* Only the terminal write sets success, and nothing is written after it.
TerminalOnly ==
  /\ pc = "start" => doc.etag = 0 /\ doc.status = "none" /\ want = "none" /\ outcome = "none"
                     /\ stray = {}
  /\ pc \in {"patch", "refresh"} => want # "none" /\ outcome = "none" /\ attempt >= 1
  /\ want = "success" => pc \in {"patch", "refresh", "terminal", "announce", "flush", "exit"}
  /\ pc \in {"terminal", "announce", "flush"} => want = "success"
  /\ doc.status = "success" => want = "success"
  /\ \A m \in stray : m.status = "success" => want = "success"

\* A late PATCH cannot land over a write that is known to have landed, nor one of
\* progress over success.
StraysAreStale ==
  /\ Succeeded(outcome) => doc.status = want /\ \A m \in stray : m.etag < doc.etag
  /\ doc.status = "success" => \A m \in stray : m.status = "success" \/ m.etag < doc.etag

\* Without faults every lost race is a rival's write.
RacesAreRivals ==
  faults = 0 =>
    /\ stray = {}
    /\ cached = doc.etag \/ rivals >= 1
    /\ pc = "patch" => rivals >= attempt - 1 /\ (etag # doc.etag => rivals >= attempt)
    /\ pc = "refresh" => rivals >= attempt - 1
    /\ pc = "terminal" /\ rivals < Attempts => Succeeded(outcome)
    /\ pc \in {"announce", "flush"} /\ rivals < Attempts => doc.status = "success"
    /\ pc = "exit" /\ signals = 0 /\ rivals < Attempts => doc.status = "success"

\* What has been published when, and whether through the latch.
PublishedByPoint ==
  /\ pc \in Before => published = <<>> /\ latch = FALSE
  /\ pc = "announce" => Len(published) = IF latch THEN 1 ELSE 0
  /\ pc = "flush" => Len(published) = IF latch THEN 2 ELSE 1
  /\ pc = "exit" => Len(published) \in {1, 2}

RunInv ==
  /\ WorldTypes /\ RequestTypes /\ EndTypes
  /\ EtagsBehind /\ TerminalOnly /\ StraysAreStale /\ RacesAreRivals /\ PublishedByPoint

LEMMA InitInv == Init => RunInv
<1> SUFFICES ASSUME Init PROVE RunInv
  OBVIOUS
<1>1. WorldTypes
  BY ConstantTypes DEF Init, WorldTypes, Cap
<1>2. RequestTypes
  BY ConstantTypes DEF Init, RequestTypes, Points, Before
<1>3. EndTypes
  <2>1. published \in Seq({"COMPLETED", "FAILED", "CANCELLED"})
    BY DEF Init
  <2>2. latch \in BOOLEAN
    BY Zenon DEF Init
  <2> QED
    BY <2>1, <2>2 DEF EndTypes
<1>4. EtagsBehind /\ TerminalOnly /\ StraysAreStale /\ RacesAreRivals /\ PublishedByPoint
  BY DEF Init, EtagsBehind, TerminalOnly, StraysAreStale, RacesAreRivals, PublishedByPoint, Succeeded
<1> QED
  BY <1>1, <1>2, <1>3, <1>4 DEF RunInv

-----------------------------------------------------------------------------
(* Steps of the loop, which touch neither the record nor a request.        *)

LEMMA WorldTypesStep ==
  ASSUME WorldTypes, SpawnAndStep \/ StepSchedulers \/ NextStep \/ \E s \in Services : ServiceBoots(s)
  PROVE  WorldTypes'
<1> USE ConstantTypes DEF WorldTypes
<1>1. CASE SpawnAndStep
  <2> DEFINE due == backlog + (IF step \in DOMAIN OrdersDue THEN OrdersDue[step] ELSE 0)
  <2>1. due \in Nat
    <3>1. CASE step \in DOMAIN OrdersDue
      BY <3>1
    <3>2. CASE step \notin DOMAIN OrdersDue
      BY <3>2
    <3> QED
      BY <3>1, <3>2
  <2>2. backlog' = Overflow(due) /\ live' = live + (IF due > SpawnCap THEN SpawnCap ELSE due)
        /\ UNCHANGED <<step, svc>>
    BY <1>1, Zenon DEF SpawnAndStep
  <2> HIDE DEF due
  <2>3. backlog' \in Nat /\ live' \in Nat
    BY <2>1, <2>2 DEF Overflow
  <2> QED
    BY <2>2, <2>3
<1>2. CASE StepSchedulers
  BY <1>2 DEF StepSchedulers
<1>3. CASE NextStep
  BY <1>3 DEF NextStep, Cap
<1>4. ASSUME NEW s \in Services, ServiceBoots(s)
      PROVE  WorldTypes'
  BY <1>4 DEF ServiceBoots
<1> QED
  BY <1>1, <1>2, <1>3, <1>4

LEMMA WorldStep ==
  ASSUME RunInv, SpawnAndStep \/ StepSchedulers \/ PastCap \/ NextStep \/ \E s \in Services : ServiceBoots(s)
  PROVE  RunInv'
<1>1. /\ UNCHANGED <<doc, cached, statusVars, stray, endVars, rivals, faults, signals>>
      /\ pc' = pc \/ {pc, pc'} \subseteq {"loop", "step", "status", "nextStep"}
  BY DEF SpawnAndStep, StepSchedulers, PastCap, NextStep, ServiceBoots
<1>2. WorldTypes'
  BY WorldTypesStep DEF RunInv, WorldTypes, PastCap, worldVars
<1>3. RequestTypes' /\ EndTypes'
  BY <1>1 DEF RunInv, RequestTypes, EndTypes, statusVars, endVars, Points, Before
<1>4. EtagsBehind' /\ TerminalOnly' /\ StraysAreStale'
  BY <1>1 DEF RunInv, EtagsBehind, TerminalOnly, StraysAreStale, statusVars
<1>5. RacesAreRivals' /\ PublishedByPoint'
  BY <1>1 DEF RunInv, RacesAreRivals, PublishedByPoint, statusVars, endVars, Before
<1> QED
  BY <1>2, <1>3, <1>4, <1>5 DEF RunInv

-----------------------------------------------------------------------------
(* The run record and its requests.                                        *)

\* The rest of the state: a step of a request leaves it alone.
LEMMA RequestFrame ==
  ASSUME RunInv, UNCHANGED <<worldVars, published, latch>>, {pc, pc'} \subseteq Before
  PROVE  WorldTypes' /\ EndTypes' /\ PublishedByPoint'
BY DEF RunInv, WorldTypes, EndTypes, PublishedByPoint, Before, worldVars

LEMMA StartStep ==
  ASSUME RunInv, Start
  PROVE  RunInv'
<1>1. WorldTypes' /\ EndTypes' /\ PublishedByPoint'
  BY RequestFrame DEF Start, Before, endVars
<1>2. RequestTypes'
  BY DEF RunInv, RequestTypes, Start, Points, Before, statusVars
<1>3. EtagsBehind' /\ TerminalOnly' /\ StraysAreStale'
  BY DEF RunInv, Start, RequestTypes, EtagsBehind, TerminalOnly, StraysAreStale, statusVars, Succeeded
<1>4. RacesAreRivals'
  BY DEF RunInv, Start, RequestTypes, TerminalOnly, RacesAreRivals, statusVars
<1> QED
  BY <1>1, <1>2, <1>3, <1>4 DEF RunInv

\* Before a request is sent: a write begins with the etag that is held.
LEMMA BeginWriteStep ==
  ASSUME RunInv, NEW s \in {"InProgress", "success"}, BeginWrite(s, "patch"),
         pc \in {"loop", "status", "terminal"}, pc = "status" <=> s = "InProgress",
         tries' \in 0 .. Attempts, UNCHANGED <<worldVars, doc, cached, stray, published, latch,
                                             rivals, faults, signals>>
  PROVE  RunInv'
<1>1. WorldTypes' /\ EndTypes' /\ PublishedByPoint'
  BY RequestFrame DEF BeginWrite, Before
<1>2. RequestTypes'
  BY ConstantTypes DEF RunInv, RequestTypes, BeginWrite, Points, Before
<1>3. EtagsBehind' /\ TerminalOnly' /\ StraysAreStale'
  BY DEF RunInv, BeginWrite, EtagsBehind, TerminalOnly, StraysAreStale, Succeeded
<1>4. RacesAreRivals'
  BY DEF RunInv, RequestTypes, BeginWrite, RacesAreRivals
<1> QED
  BY <1>1, <1>2, <1>3, <1>4 DEF RunInv

LEMMA PatchOkStep ==
  ASSUME RunInv, PatchOk
  PROVE  RunInv'
<1>1. /\ pc = "patch" /\ etag = doc.etag
      /\ doc' = [status |-> want, etag |-> doc.etag + 1] /\ cached' = doc.etag + 1
      /\ outcome' = IF attempt = 1 THEN "OK" ELSE "RETRIED_OK"
      /\ pc' = IF want = "success" THEN "terminal" ELSE "nextStep"
      /\ UNCHANGED <<worldVars, etag, attempt, tries, want, stray, published, latch, rivals, faults, signals>>
  BY DEF PatchOk, Lands, Patched, Settle, Succeeded, endVars
<1>2. doc'.status = want /\ doc'.etag = doc.etag + 1 /\ doc.etag \in Nat
  BY <1>1 DEF RunInv, RequestTypes
<1>3. WorldTypes' /\ EndTypes' /\ PublishedByPoint'
  BY <1>1, RequestFrame DEF Before
<1>4. RequestTypes'
  BY <1>1 DEF RunInv, RequestTypes, Points, Before
<1>5. EtagsBehind' /\ StraysAreStale'
  BY <1>1, <1>2 DEF RunInv, RequestTypes, EtagsBehind, StraysAreStale, Writes
<1>6. TerminalOnly'
  BY <1>1, <1>2 DEF RunInv, TerminalOnly
<1>7. RacesAreRivals'
  BY <1>1, <1>2 DEF RunInv, RacesAreRivals, Succeeded
<1> QED
  BY <1>3, <1>4, <1>5, <1>6, <1>7 DEF RunInv

\* The write is given up: lost to rivals, refused or unanswered.
LEMMA GivenUpStep ==
  ASSUME RunInv, pc \in {"patch", "refresh"},
         NEW o \in {"STALE_ETAG_EXHAUSTED", "SERVER_ERROR", "EXCEPTION"}, Settle(o, cached),
         faults' \in Nat, faults' # 0 \/ (faults' = faults /\ rivals >= Attempts),
         stray' = stray \/ (faults' # 0 /\ stray' = stray \cup {[status |-> want, etag |-> etag]}),
         UNCHANGED <<worldVars, doc, etag, attempt, tries, want, published, latch, rivals, signals>>
  PROVE  RunInv'
<1>1. /\ outcome' = o /\ cached' = cached
      /\ pc' = IF want = "success" THEN "terminal" ELSE "nextStep"
  BY DEF Settle, Succeeded
<1>2. WorldTypes' /\ EndTypes' /\ PublishedByPoint'
  BY <1>1, RequestFrame DEF Before
<1>3. want \in {"InProgress", "success"} /\ etag \in Nat /\ etag <= doc.etag
  BY DEF RunInv, RequestTypes, TerminalOnly, EtagsBehind
<1>4. [status |-> want, etag |-> etag] \in Writes
  BY <1>3 DEF Writes
<1>5. RequestTypes'
  BY <1>1, <1>4 DEF RunInv, RequestTypes, Points, Before
<1>6. EtagsBehind' /\ TerminalOnly'
  BY <1>1, <1>3 DEF RunInv, EtagsBehind, TerminalOnly
<1>7. StraysAreStale'
  BY <1>1, <1>3 DEF RunInv, StraysAreStale, TerminalOnly, Succeeded
<1>8. RacesAreRivals'
  BY <1>1, ConstantTypes DEF RunInv, RequestTypes, RacesAreRivals
<1> QED
  BY <1>2, <1>5, <1>6, <1>7, <1>8 DEF RunInv

LEMMA PatchStaleStep ==
  ASSUME RunInv, PatchStale
  PROVE  RunInv'
<1>1. pc = "patch" /\ etag # doc.etag
  BY DEF PatchStale, Lands
<1>2. CASE attempt = Attempts
  <2>1. faults = 0 => rivals >= Attempts
    BY <1>1, <1>2 DEF RunInv, RacesAreRivals
  <2> QED
    BY <1>1, <1>2, <2>1, GivenUpStep DEF PatchStale, RunInv, RequestTypes, endVars
<1>3. CASE attempt # Attempts
  <2>1. /\ attempt' = attempt + 1 /\ pc' = "refresh"
        /\ UNCHANGED <<outcome, cached, worldVars, doc, etag, tries, want, stray, published, latch,
                       rivals, faults, signals>>
    BY <1>3 DEF PatchStale, endVars
  <2>2. WorldTypes' /\ EndTypes' /\ PublishedByPoint'
    BY <1>1, <2>1, RequestFrame DEF Before
  <2>3. RequestTypes'
    BY <1>3, <2>1, ConstantTypes DEF RunInv, RequestTypes, Points, Before
  <2>4. EtagsBehind' /\ TerminalOnly' /\ StraysAreStale'
    BY <1>1, <2>1 DEF RunInv, RequestTypes, EtagsBehind, TerminalOnly, StraysAreStale
  <2>5. RacesAreRivals'
    BY <1>1, <2>1, ConstantTypes DEF RunInv, RequestTypes, RacesAreRivals
  <2> QED
    BY <2>2, <2>3, <2>4, <2>5 DEF RunInv
<1> QED
  BY <1>2, <1>3


LEMMA RefreshStep ==
  ASSUME RunInv, Refresh
  PROVE  RunInv'
<1>1. /\ pc = "refresh" /\ pc' = "patch" /\ etag' = doc.etag
      /\ UNCHANGED <<worldVars, doc, cached, attempt, tries, want, outcome, stray, published, latch,
                     rivals, faults, signals>>
  BY DEF Refresh, RetryEtag, endVars
<1>2. WorldTypes' /\ EndTypes' /\ PublishedByPoint'
  BY <1>1, RequestFrame DEF Before
<1>3. RequestTypes'
  BY <1>1 DEF RunInv, RequestTypes, Points, Before
<1>4. EtagsBehind' /\ TerminalOnly' /\ StraysAreStale'
  BY <1>1 DEF RunInv, RequestTypes, EtagsBehind, TerminalOnly, StraysAreStale
<1>5. RacesAreRivals'
  BY <1>1 DEF RunInv, RequestTypes, RacesAreRivals
<1> QED
  BY <1>2, <1>3, <1>4, <1>5 DEF RunInv

\* A refusal is final here; an unanswered PATCH becomes a stray.
LEMMA FaultyWriteStep ==
  ASSUME RunInv, ServerError \/ PatchTimesOut
  PROVE  RunInv'
<1>1. faults \in Nat
  BY DEF RunInv, RequestTypes
<1>2. CASE ServerError
  <2>1. /\ pc \in {"patch", "refresh"} /\ faults' \in Nat /\ faults' # 0
        /\ Settle("SERVER_ERROR", cached) /\ stray' = stray
        /\ UNCHANGED <<worldVars, doc, etag, attempt, tries, want, published, latch, rivals, signals>>
    BY <1>1, <1>2 DEF ServerError, endVars
  <2> QED
    BY <2>1, GivenUpStep
<1>3. CASE PatchTimesOut
  <2>1. /\ pc \in {"patch", "refresh"} /\ faults' \in Nat /\ faults' # 0
        /\ Settle("EXCEPTION", cached) /\ stray' = stray \cup {[status |-> want, etag |-> etag]}
        /\ UNCHANGED <<worldVars, doc, etag, attempt, tries, want, published, latch, rivals, signals>>
    BY <1>1, <1>3 DEF PatchTimesOut, endVars
  <2> QED
    BY <2>1, GivenUpStep
<1> QED
  BY <1>2, <1>3

\* The steps that only change who holds which record: a late PATCH and a rival.
LEMMA RecordFrame ==
  ASSUME RunInv, UNCHANGED <<pc, worldVars, published, latch>>
  PROVE  WorldTypes' /\ EndTypes' /\ PublishedByPoint'
BY DEF RunInv, WorldTypes, EndTypes, PublishedByPoint, Before, worldVars

LEMMA StrayStep ==
  ASSUME RunInv, StrayArrives
  PROVE  RunInv'
<1>1. PICK m \in stray : /\ stray' = stray \ {m}
                         /\ doc' = IF m.etag = doc.etag
                                     THEN [status |-> m.status, etag |-> doc.etag + 1] ELSE doc
  BY DEF StrayArrives, Lands, Patched
<1>2. UNCHANGED <<pc, worldVars, cached, statusVars, published, latch, rivals, faults, signals>>
  BY DEF StrayArrives, endVars
<1>3. m \in Writes /\ doc.etag \in Nat /\ stray' \subseteq stray
  BY <1>1 DEF RunInv, RequestTypes
<1>4. WorldTypes' /\ EndTypes' /\ PublishedByPoint'
  BY <1>2, RecordFrame
<1>5. CASE m.etag = doc.etag
  <2>1. doc'.status = m.status /\ doc'.etag = doc.etag + 1
    BY <1>1, <1>5
  <2>2. RequestTypes'
    BY <1>1, <1>2, <1>3, <1>5 DEF RunInv, RequestTypes, statusVars, Writes, Points, Before
  <2>3. EtagsBehind'
    BY <1>2, <1>3, <2>1 DEF RunInv, RequestTypes, EtagsBehind, statusVars, Writes
  <2>4. TerminalOnly'
    BY <1>1, <1>2, <1>3, <2>1 DEF RunInv, TerminalOnly, statusVars
  <2>5. StraysAreStale'
    BY <1>1, <1>2, <1>3, <1>5, <2>1 DEF RunInv, RequestTypes, EtagsBehind, StraysAreStale, statusVars, Writes
  <2>6. RacesAreRivals'
    BY <1>1, <1>2, <1>3 DEF RunInv, RacesAreRivals
  <2> QED
    BY <1>4, <2>2, <2>3, <2>4, <2>5, <2>6 DEF RunInv
<1>6. CASE m.etag # doc.etag
  <2>1. doc' = doc
    BY <1>1, <1>6
  <2>2. RequestTypes'
    BY <1>2, <1>3, <2>1 DEF RunInv, RequestTypes, statusVars, Points, Before
  <2>3. EtagsBehind' /\ TerminalOnly' /\ StraysAreStale'
    BY <1>2, <1>3, <2>1 DEF RunInv, EtagsBehind, TerminalOnly, StraysAreStale, statusVars
  <2>4. RacesAreRivals'
    BY <1>1, <1>2, <1>3, <2>1 DEF RunInv, RacesAreRivals, statusVars
  <2> QED
    BY <1>4, <2>2, <2>3, <2>4 DEF RunInv
<1> QED
  BY <1>5, <1>6

LEMMA RivalStep ==
  ASSUME RunInv, RivalWrites
  PROVE  RunInv'
<1>1. /\ doc.etag \in Nat /\ rivals \in Nat /\ rivals' = rivals + 1 /\ pc # "exit"
      /\ doc' = [doc EXCEPT !.etag = @ + 1] /\ doc.etag > 0
      /\ UNCHANGED <<pc, worldVars, cached, statusVars, stray, published, latch, faults, signals>>
  BY DEF RivalWrites, RunInv, RequestTypes, endVars
<1>2. doc'.status = doc.status /\ doc'.etag = doc.etag + 1
  BY <1>1 DEF RunInv, RequestTypes
<1>3. WorldTypes' /\ EndTypes' /\ PublishedByPoint'
  BY <1>1, RecordFrame
<1>4. RequestTypes'
  BY <1>1 DEF RunInv, RequestTypes, statusVars, Points, Before
<1>5. EtagsBehind' /\ TerminalOnly' /\ StraysAreStale'
  BY <1>1, <1>2 DEF RunInv, RequestTypes, EtagsBehind, TerminalOnly, StraysAreStale, statusVars, Writes
<1>6. RacesAreRivals'
  BY <1>1, <1>2, ConstantTypes DEF RunInv, RequestTypes, EtagsBehind, RacesAreRivals, statusVars
<1> QED
  BY <1>3, <1>4, <1>5, <1>6 DEF RunInv


LEMMA WriteBegins ==
  ASSUME RunInv, WriteProgress \/ Finalize
  PROVE  RunInv'
<1>1. CASE WriteProgress
  <2>1. /\ BeginWrite("InProgress", "patch") /\ pc = "status" /\ tries' \in 0 .. Attempts
        /\ UNCHANGED <<worldVars, doc, cached, stray, published, latch, rivals, faults, signals>>
    BY <1>1, ConstantTypes DEF WriteProgress, endVars
  <2> QED
    BY <2>1, BeginWriteStep
<1>2. CASE Finalize
  <2>1. /\ BeginWrite("success", "patch") /\ pc = "loop" /\ tries' \in 0 .. Attempts
        /\ UNCHANGED <<worldVars, doc, cached, stray, published, latch, rivals, faults, signals>>
    BY <1>2, ConstantTypes DEF Finalize
  <2> QED
    BY <2>1, BeginWriteStep
<1> QED
  BY <1>1, <1>2

-----------------------------------------------------------------------------
(* The end of the process.                                                 *)

\* The run record and the requests, when only the point in the process changes
\* and the process does not go back to writing.
LEMMA EndFrame ==
  ASSUME RunInv, pc' \in {"flush", "exit"}, pc = "announce" \/ pc' = "exit",
         UNCHANGED <<worldVars, doc, cached, statusVars, stray, rivals>>,
         \/ UNCHANGED <<faults, signals>> /\ pc \in {"announce", "flush"}
         \/ faults' \in Nat \ {0} /\ signals' = signals
         \/ faults' = faults /\ signals' \in Nat \ {0}
  PROVE  /\ WorldTypes' /\ RequestTypes'
         /\ EtagsBehind' /\ TerminalOnly' /\ StraysAreStale' /\ RacesAreRivals'
<1>1. WorldTypes' /\ RequestTypes'
  BY DEF RunInv, WorldTypes, RequestTypes, worldVars, statusVars, Points, Before
<1>2. EtagsBehind' /\ TerminalOnly' /\ StraysAreStale'
  BY DEF RunInv, EtagsBehind, TerminalOnly, StraysAreStale, statusVars
<1>3. RacesAreRivals'
  BY DEF RunInv, RequestTypes, RacesAreRivals, statusVars
<1> QED
  BY <1>1, <1>2, <1>3

Outcomes == {"COMPLETED", "FAILED", "CANCELLED"}

\* What is published when the process ends on a fault, a signal or its own.
LEMMA PublishedAtExit ==
  ASSUME EndTypes, NEW p \in Outcomes, NEW q \in Outcomes
  PROVE  /\ Append(published, p) \in Seq(Outcomes)
         /\ Len(Append(published, p)) = Len(published) + 1
         /\ Append(published, p) \o <<q>> \in Seq(Outcomes)
         /\ Len(Append(published, p) \o <<q>>) = Len(published) + 2
         /\ Len(published) \in Nat
BY DEF EndTypes, Outcomes

LEMMA StartFailsStep ==
  ASSUME RunInv, StartFails
  PROVE  RunInv'
<1>1. /\ pc = "start" /\ pc' = "exit" /\ faults' \in Nat \ {0} /\ signals' = signals
      /\ UNCHANGED <<worldVars, doc, cached, statusVars, stray, rivals, latch>>
      /\ published' = Append(published, "FAILED")
  BY DEF StartFails, RunInv, RequestTypes
<1>2. /\ WorldTypes' /\ RequestTypes'
      /\ EtagsBehind' /\ TerminalOnly' /\ StraysAreStale' /\ RacesAreRivals'
  BY <1>1, EndFrame
<1>3. Len(published) = 0
  BY <1>1 DEF RunInv, PublishedByPoint, Before
<1>4. published' \in Seq(Outcomes) /\ Len(published') = 1
  BY <1>1, <1>3, PublishedAtExit DEF RunInv, Outcomes
<1>5. EndTypes'
  BY <1>1, <1>4 DEF RunInv, EndTypes, Outcomes
<1>6. PublishedByPoint'
  BY <1>1, <1>4 DEF PublishedByPoint, Before
<1> QED
  BY <1>2, <1>5, <1>6 DEF RunInv

LEMMA StepRaisesStep ==
  ASSUME RunInv, StepRaises
  PROVE  RunInv'
<1>1. /\ pc = "step" /\ pc' = "exit" /\ faults' \in Nat \ {0} /\ signals' = signals
      /\ UNCHANGED <<worldVars, doc, cached, statusVars, stray, rivals>>
  BY DEF StepRaises, Abort, RunInv, RequestTypes
<1>2. /\ WorldTypes' /\ RequestTypes'
      /\ EtagsBehind' /\ TerminalOnly' /\ StraysAreStale' /\ RacesAreRivals'
  BY <1>1, EndFrame
<1>3. Len(published) = 0 /\ latch = FALSE
  BY <1>1 DEF RunInv, PublishedByPoint, Before
<1>4. published' = Append(published, "FAILED") \o <<"FAILED">> /\ latch' = TRUE
  BY <1>3, Zenon DEF StepRaises, Abort
<1>5. published' \in Seq(Outcomes) /\ Len(published') = 2
  BY <1>3, <1>4, PublishedAtExit DEF RunInv, Outcomes
<1>6. EndTypes'
  BY <1>4, <1>5 DEF EndTypes, Outcomes
<1>7. PublishedByPoint'
  BY <1>1, <1>5 DEF PublishedByPoint, Before
<1> QED
  BY <1>2, <1>6, <1>7 DEF RunInv

\* Through the latch at most one status is added.
LEMMA PublishOnceAdds ==
  ASSUME EndTypes, NEW p \in Outcomes, PublishOnce(p)
  PROVE  /\ EndTypes' /\ latch' = TRUE /\ Len(published) \in Nat
         /\ Len(published') = IF latch THEN Len(published) ELSE Len(published) + 1
<1>1. latch' = TRUE /\ published' = IF latch THEN published ELSE Append(published, p)
  BY DEF PublishOnce
<1>2. CASE latch
  <2>1. published' = published
    BY <1>1, <1>2, Zenon
  <2> QED
    BY <1>1, <1>2, <2>1, PublishedAtExit DEF EndTypes, Outcomes
<1>3. CASE ~latch
  <2>1. published' = Append(published, p)
    BY <1>1, <1>3, Zenon
  <2>2. published' \in Seq(Outcomes) /\ Len(published') = Len(published) + 1 /\ Len(published) \in Nat
    BY <2>1, PublishedAtExit
  <2> QED
    BY <1>1, <1>3, <2>2 DEF EndTypes, Outcomes
<1> QED
  BY <1>2, <1>3


LEMMA TerminalStep ==
  ASSUME RunInv, Terminal
  PROVE  RunInv'
<1>1. pc = "terminal" /\ Len(published) = 0 /\ latch = FALSE
  BY DEF Terminal, RunInv, PublishedByPoint, Before
<1>2. CASE ~Succeeded(outcome) /\ ~TriesExhausted
  <2>1. /\ BeginWrite("success", "patch") /\ tries' \in 0 .. Attempts
        /\ UNCHANGED <<worldVars, doc, cached, stray, published, latch, rivals, faults, signals>>
    BY <1>2, ConstantTypes DEF Terminal, RunInv, RequestTypes, TriesExhausted
  <2> QED
    BY <1>1, <2>1, BeginWriteStep
<1>3. CASE Succeeded(outcome) \/ TriesExhausted
  <2>1. /\ pc' = "announce"
        /\ UNCHANGED <<worldVars, doc, cached, statusVars, stray, rivals, faults, signals>>
        /\ (Succeeded(outcome) /\ UNCHANGED <<published, latch>>) \/ PublishOnce("COMPLETED")
    BY <1>3, Zenon DEF Terminal, statusVars
  <2>2. WorldTypes' /\ RequestTypes'
    BY <2>1 DEF RunInv, WorldTypes, RequestTypes, worldVars, statusVars, Points, Before
  <2>3. EtagsBehind' /\ TerminalOnly' /\ StraysAreStale'
    BY <1>1, <2>1 DEF RunInv, EtagsBehind, TerminalOnly, StraysAreStale, statusVars
  <2>4. RacesAreRivals'
    BY <1>1, <2>1 DEF RunInv, RequestTypes, RacesAreRivals, TerminalOnly, StraysAreStale, statusVars
  <2>5. EndTypes' /\ PublishedByPoint'
    <3>1. CASE UNCHANGED <<published, latch>>
      BY <1>1, <2>1, <3>1 DEF RunInv, EndTypes, PublishedByPoint, Before
    <3>2. CASE PublishOnce("COMPLETED")
      <4>1. EndTypes' /\ latch' = TRUE /\ Len(published') = 1
        BY <1>1, <3>2, PublishOnceAdds DEF RunInv, Outcomes
      <4> QED
        BY <2>1, <4>1 DEF PublishedByPoint, Before
    <3> QED
      BY <2>1, <3>1, <3>2
  <2> QED
    BY <2>2, <2>3, <2>4, <2>5 DEF RunInv
<1> QED
  BY <1>2, <1>3

LEMMA AnnounceStep ==
  ASSUME RunInv, Announce
  PROVE  RunInv'
<1>1. /\ pc = "announce" /\ pc' = "flush"
      /\ UNCHANGED <<worldVars, doc, cached, statusVars, stray, rivals, faults, signals, latch>>
      /\ published' = Append(published, "COMPLETED")
  BY DEF Announce
<1>2. /\ WorldTypes' /\ RequestTypes'
      /\ EtagsBehind' /\ TerminalOnly' /\ StraysAreStale' /\ RacesAreRivals'
  BY <1>1, EndFrame
<1>3. Len(published) = IF latch THEN 1 ELSE 0
  BY <1>1 DEF RunInv, PublishedByPoint
<1>4. published' \in Seq(Outcomes) /\ Len(published') = Len(published) + 1
  BY <1>1, PublishedAtExit DEF RunInv, Outcomes
<1>5. EndTypes'
  BY <1>1, <1>4 DEF RunInv, EndTypes, Outcomes
<1>6. Len(published') = IF latch' THEN 2 ELSE 1
  BY <1>1, <1>3, <1>4
<1>7. PublishedByPoint'
  BY <1>1, <1>6 DEF PublishedByPoint, Before
<1> QED
  BY <1>2, <1>5, <1>7 DEF RunInv

LEMMA FlushStep ==
  ASSUME RunInv, Flush
  PROVE  RunInv'
<1>1. /\ pc = "flush" /\ pc' = "exit"
      /\ UNCHANGED <<worldVars, doc, cached, statusVars, stray, rivals, faults, signals, latch, published>>
  BY DEF Flush, endVars
<1>2. /\ WorldTypes' /\ RequestTypes'
      /\ EtagsBehind' /\ TerminalOnly' /\ StraysAreStale' /\ RacesAreRivals'
  BY <1>1, EndFrame
<1>3. Len(published) \in {1, 2}
  BY <1>1 DEF RunInv, PublishedByPoint
<1>4. EndTypes' /\ PublishedByPoint'
  BY <1>1, <1>3 DEF RunInv, EndTypes, PublishedByPoint, Before
<1> QED
  BY <1>2, <1>4 DEF RunInv

LEMMA SignalStep ==
  ASSUME RunInv, Signal
  PROVE  RunInv'
<1>1. /\ pc # "exit" /\ pc' = "exit" /\ signals' \in Nat \ {0} /\ faults' = faults
      /\ UNCHANGED <<worldVars, doc, cached, statusVars, stray, rivals>>
      /\ PublishOnce("CANCELLED")
  BY DEF Signal, RunInv, RequestTypes
<1>2. /\ WorldTypes' /\ RequestTypes'
      /\ EtagsBehind' /\ TerminalOnly' /\ StraysAreStale' /\ RacesAreRivals'
  BY <1>1, EndFrame
<1>3. /\ EndTypes' /\ Len(published) \in Nat
      /\ Len(published') = IF latch THEN Len(published) ELSE Len(published) + 1
  BY <1>1, PublishOnceAdds DEF RunInv, Outcomes
<1>4. \/ latch = FALSE /\ Len(published) = 0
      \/ Len(published) = IF latch THEN 1 ELSE 0
      \/ Len(published) = IF latch THEN 2 ELSE 1
  BY <1>1 DEF RunInv, RequestTypes, PublishedByPoint, Before, Points
<1>5. Len(published') \in {1, 2}
  <2>1. CASE latch
    <3>1. Len(published) \in {1, 2} /\ Len(published') = Len(published)
      BY <1>3, <1>4, <2>1
    <3> QED
      BY <3>1
  <2>2. CASE ~latch
    <3>1. Len(published) \in {0, 1} /\ Len(published') = Len(published) + 1
      BY <1>3, <1>4, <2>2
    <3>2. CASE Len(published) = 0
      BY <3>1, <3>2
    <3>3. CASE Len(published) = 1
      BY <3>1, <3>3
    <3> QED
      BY <3>1, <3>2, <3>3
  <2> QED
    BY <2>1, <2>2
<1>6. PublishedByPoint'
  BY <1>1, <1>5 DEF PublishedByPoint, Before
<1> QED
  BY <1>2, <1>3, <1>6 DEF RunInv

-----------------------------------------------------------------------------
(* The theorems.                                                           *)

LEMMA RunNext ==
  ASSUME RunInv, [Next]_vars
  PROVE  RunInv'
<1>1. CASE Process
  BY <1>1, StartStep, WorldStep, WriteBegins, PatchOkStep, PatchStaleStep, RefreshStep, TerminalStep,
     AnnounceStep, FlushStep DEF Process, Status
<1>2. CASE UNCHANGED vars
  <2>1. /\ WorldTypes' /\ RequestTypes' /\ EndTypes' /\ PublishedByPoint'
    BY <1>2 DEF RunInv, WorldTypes, RequestTypes, EndTypes, PublishedByPoint, vars, worldVars, statusVars,
       endVars
  <2>2. EtagsBehind' /\ TerminalOnly' /\ StraysAreStale' /\ RacesAreRivals'
    BY <1>2 DEF RunInv, EtagsBehind, TerminalOnly, StraysAreStale, RacesAreRivals, vars, statusVars
  <2> QED
    BY <2>1, <2>2 DEF RunInv
<1>3. CASE \E s \in Services : ServiceBoots(s)
  BY <1>3, WorldStep
<1> QED
  BY <1>1, <1>2, <1>3, StartFailsStep, StepRaisesStep, FaultyWriteStep, StrayStep, RivalStep, SignalStep
     DEF Next, Rest

-----------------------------------------------------------------------------
(* The spawning of the planned orders.                                     *)

\* A set of naturals has a least element.
LEMMA LeastElement ==
  ASSUME NEW T \in SUBSET Nat, T # {}
  PROVE  \E x \in T : \A y \in T : x <= y
<1> DEFINE R == OpToRel(<, Nat)
<1>1. IsWellFoundedOn(R, Nat)
  BY NatLessThanWellFounded
<1>2. \A x \in T, y \in T : y < x => <<y, x>> \in R
  BY DEF OpToRel
<1> HIDE DEF R
<1>3. PICK x \in T : \A y \in T : ~ (<<y, x>> \in R)
  BY <1>1, WFMin, Zenon
<1>4. \A y \in T : ~ (y < x)
  BY <1>2, <1>3, Zenon
<1>5. \A y \in T : x \in Int /\ y \in Int
  OBVIOUS
<1> QED
  BY <1>4, <1>5

\* Planned adds up the orders due, step by step.
LEMMA PlannedSteps ==
  /\ Planned[0] = 0
  /\ \A n \in 1 .. HorizonSteps + 1 : Planned[n] = Planned[n - 1] + OrdersDue[n - 1]
  /\ \A n \in 0 .. HorizonSteps + 1 : Planned[n] \in Nat
<1> DEFINE N == HorizonSteps + 1
           Next1(v, n) == v[n - 1] + OrdersDue[n - 1]
           Good(w, m) == w \in [0 .. m -> Nat] /\ w[0] = 0 /\ \A i \in 1 .. m : w[i] = Next1(w, i)
           T == {m \in 0 .. N : ~ \E w : Good(w, m)}
<1>1. N \in Nat /\ \A n \in 1 .. N : OrdersDue[n - 1] \in Nat
  BY ConstantTypes
<1> HIDE DEF N
<1>2. ASSUME T # {} PROVE FALSE
  <2>1. T \in SUBSET Nat
    BY <1>1
  <2>2. PICK n \in T : \A m \in T : n <= m
    <3> HIDE DEF T
    <3> QED BY <1>2, <2>1, LeastElement
  <2>3. n \in 0 .. N /\ ~ \E w : Good(w, n)
    OBVIOUS
  <2>4. CASE n = 0
    <3>1. Good([i \in 0 .. 0 |-> 0], 0)
      OBVIOUS
    <3> QED BY <2>3, <2>4, <3>1
  <2>5. CASE n # 0
    <3>1. n - 1 \in 0 .. N /\ n - 1 \notin T
      <4>1. n - 1 \in 0 .. N /\ ~ (n <= n - 1)
        BY <1>1, <2>3, <2>5
      <4> HIDE DEF T
      <4> QED BY <2>2, <4>1
    <3>2. PICK w : Good(w, n - 1)
      <4> HIDE DEF Good
      <4> QED BY <3>1, Zenon
    <3> DEFINE v == [i \in 0 .. n |-> IF i = n THEN Next1(w, n) ELSE w[i]]
    <3>3. n \in 1 .. N /\ Next1(w, n) \in Nat
      BY <1>1, <2>3, <2>5, <3>2
    <3>4. v \in [0 .. n -> Nat] /\ v[0] = 0
      BY <3>2, <3>3
    <3>5. ASSUME NEW i \in 1 .. n PROVE v[i] = Next1(v, i)
      <4>1. i \in 0 .. n /\ i - 1 \in 0 .. n /\ i - 1 # n /\ (i # n => i \in 1 .. n - 1)
        BY <3>3
      <4>2. v[i - 1] = w[i - 1] /\ v[i] = IF i = n THEN Next1(w, n) ELSE w[i]
        BY <4>1
      <4> HIDE DEF v
      <4> QED BY <3>2, <4>1, <4>2
    <3> HIDE DEF v
    <3>6. Good(v, n)
      BY <3>4, <3>5
    <3> QED BY <2>3, <3>6
  <2> QED BY <2>4, <2>5
<1>3. PICK w : Good(w, N)
  <2>1. N \in 0 .. N
    BY <1>1
  <2> HIDE DEF Good
  <2>2. N \notin T
    <3> HIDE DEF T
    <3> QED BY <1>2, Zenon
  <2> QED BY <2>1, <2>2, Zenon
<1> DEFINE Body(v) == [n \in 0 .. N |-> IF n = 0 THEN 0 ELSE Next1(v, n)]
<1>4. w = Body(w)
  <2>1. \A i \in 0 .. N : w[i] = IF i = 0 THEN 0 ELSE Next1(w, i)
    BY <1>1, <1>3
  <2> QED BY <1>3, <2>1
<1>5. Planned = CHOOSE v : v = Body(v)
  BY Zenon DEF Planned, N
<1> HIDE DEF Body
<1>6. Planned = Body(Planned)
  BY <1>4, <1>5, Zenon
<1>7. /\ Planned[0] = 0 /\ \A n \in 1 .. N : Planned[n] = Next1(Planned, n)
  BY <1>1, <1>6 DEF Body
<1> DEFINE S == {m \in 0 .. N : Planned[m] \notin Nat}
<1>8. ASSUME S # {} PROVE FALSE
  <2>1. S \in SUBSET Nat
    BY <1>1
  <2>2. PICK n \in S : \A m \in S : n <= m
    <3> HIDE DEF S
    <3> QED BY <1>8, <2>1, LeastElement
  <2>3. n \in 1 .. N /\ n - 1 \in 0 .. N /\ n - 1 \notin S
    BY <1>1, <1>7, <2>2
  <2> QED BY <1>1, <1>7, <2>3
<1> QED
  BY <1>7, <1>8 DEF N

\* Every order due at a step that was served is spawned or in the backlog.
UpTo(n) == Planned[IF n <= HorizonSteps + 1 THEN n ELSE HorizonSteps + 1]
Serving == pc \in {"step", "status", "nextStep"} \/ (pc \in {"patch", "refresh"} /\ want = "InProgress")
SpawnInv ==
  /\ spawned \in Nat
  /\ pc \in {"start", "loop"} => spawned + backlog = UpTo(step)
  /\ Serving => spawned + backlog = UpTo(step + 1)
  /\ finalized => want = "success"
  /\ AllOrdersSpawned

\* LastDue is the last step with orders.
LEMMA NothingAfterLastDue ==
  LastDue \in 0 .. HorizonSteps /\ \A m \in LastDue + 1 .. HorizonSteps : OrdersDue[m] = 0
<1> DEFINE Last(n) == (OrdersDue[n] > 0 \/ n = 0) /\ \A m \in n + 1 .. HorizonSteps : OrdersDue[m] = 0
           After == {x \in 0 .. HorizonSteps : \A m \in x + 1 .. HorizonSteps : OrdersDue[m] = 0}
<1>1. HorizonSteps \in Nat /\ \A n \in 0 .. HorizonSteps : OrdersDue[n] \in Nat
  BY ConstantTypes
<1>2. HorizonSteps \in After
  BY <1>1
<1>3. PICK n \in After : \A m \in After : n <= m
  <2>1. After \in SUBSET Nat /\ After # {}
    BY <1>1, <1>2
  <2> HIDE DEF After
  <2> QED BY <2>1, LeastElement
<1>4. Last(n) /\ n \in 0 .. HorizonSteps
  <2>1. ASSUME n # 0, ~(OrdersDue[n] > 0) PROVE FALSE
    <3>1. OrdersDue[n] = 0 /\ n - 1 \in 0 .. HorizonSteps
      BY <1>1, <2>1
    <3>2. \A m \in n .. HorizonSteps : OrdersDue[m] = 0
      BY <1>1, <3>1
    <3>3. n - 1 \in After
      BY <1>1, <3>1, <3>2
    <3> QED BY <1>1, <1>3, <3>3
  <2> QED BY <1>3, <2>1
<1>5. LastDue = CHOOSE x \in 0 .. HorizonSteps : Last(x)
  BY DEF LastDue
<1> HIDE DEF Last
<1>6. LastDue \in 0 .. HorizonSteps /\ Last(LastDue)
  BY <1>4, <1>5
<1> QED BY <1>6 DEF Last

LEMMA SpawnStep == RunInv /\ SpawnInv /\ [Next]_vars => SpawnInv'
<1> SUFFICES ASSUME RunInv, SpawnInv, [Next]_vars PROVE SpawnInv'
  OBVIOUS
<1>1. /\ HorizonSteps \in Nat /\ Cap \in Nat /\ HorizonSteps <= Cap /\ step \in Nat /\ backlog \in Nat
      /\ HorizonSteps >= 1 /\ step <= Cap + 1
  BY ConstantTypes DEF RunInv, WorldTypes, Cap
<1>2. \A n \in Nat : UpTo(n) \in Nat
  BY <1>1, PlannedSteps DEF UpTo
<1>3. CASE SpawnAndStep
  <2> DEFINE now == IF step \in DOMAIN OrdersDue THEN OrdersDue[step] ELSE 0
             due == backlog + now
             launched == IF due > SpawnCap THEN SpawnCap ELSE due
  <2>1. /\ pc = "loop" /\ pc' = "step" /\ backlog' = Overflow(due) /\ spawned' = spawned + launched
        /\ UNCHANGED <<step, want, finalized>>
    BY <1>3, Zenon DEF SpawnAndStep, statusVars, endVars
  <2>2. now \in Nat /\ UpTo(step + 1) = UpTo(step) + now
    <3>1. CASE step <= HorizonSteps
      <4>1. step \in 0 .. HorizonSteps /\ step + 1 \in 1 .. HorizonSteps + 1 /\ step + 1 - 1 = step
        BY <1>1, <3>1
      <4>2. UpTo(step) = Planned[step] /\ UpTo(step + 1) = Planned[step + 1]
        BY <1>1, <3>1 DEF UpTo
      <4>3. Planned[step + 1] = Planned[step] + OrdersDue[step]
        BY <4>1, PlannedSteps
      <4>4. now = OrdersDue[step] /\ OrdersDue[step] \in Nat
        BY <4>1, ConstantTypes
      <4> HIDE DEF now
      <4> QED BY <4>2, <4>3, <4>4
    <3>2. CASE step > HorizonSteps
      <4>1. now = 0
        BY <1>1, <3>2, ConstantTypes
      <4>2. UpTo(step) = UpTo(step + 1)
        <5>1. step = HorizonSteps + 1 \/ step > HorizonSteps + 1
          BY <1>1, <3>2
        <5> QED BY <1>1, <5>1 DEF UpTo
      <4> HIDE DEF now
      <4> QED BY <1>1, <1>2, <4>1, <4>2
    <3> QED BY <1>1, <3>1, <3>2
  <2> HIDE DEF now
  <2>3. due \in Nat /\ launched \in Nat /\ Overflow(due) + launched = due /\ Overflow(due) \in Nat
    BY <1>1, <2>2, ConstantTypes DEF Overflow
  <2> HIDE DEF launched
  <2>4. spawned' + backlog' = UpTo(step + 1) /\ spawned' \in Nat
    BY <1>1, <1>2, <2>1, <2>2, <2>3 DEF SpawnInv
  <2>5. ~finalized
    BY <2>1 DEF SpawnInv, RunInv, TerminalOnly
  <2> QED BY <2>1, <2>4, <2>5 DEF SpawnInv, Serving, AllOrdersSpawned, UpTo
<1>4. CASE NextStep
  <2>1. /\ pc = "nextStep" /\ pc' = "loop" /\ UNCHANGED <<backlog, spawned, want, finalized>>
        /\ step' = IF step <= Cap THEN step + 1 ELSE step
    BY <1>4 DEF NextStep, statusVars, endVars
  <2>2. UpTo(step') = UpTo(step + 1)
    <3>1. CASE step <= Cap
      BY <2>1, <3>1
    <3>2. CASE step > Cap
      BY <1>1, <2>1, <3>2 DEF UpTo
    <3> QED BY <1>1, <3>1, <3>2
  <2>3. ~finalized
    BY <2>1 DEF SpawnInv, RunInv, TerminalOnly
  <2>4. spawned' + backlog' = UpTo(step')
    BY <2>1, <2>2 DEF SpawnInv, Serving
  <2> QED BY <2>1, <2>3, <2>4 DEF SpawnInv, Serving, AllOrdersSpawned, UpTo
<1>5. CASE Finalize
  <2>1. /\ pc = "loop" /\ pc' = "patch" /\ want' = "success" /\ ShouldTerminate
        /\ UNCHANGED <<backlog, spawned, step>>
    BY <1>5 DEF Finalize, BeginWrite, worldVars
  <2>2. ASSUME step < Cap PROVE spawned = Planned[HorizonSteps + 1]
    <3>1. step >= HorizonSteps /\ step - 1 >= LastDue /\ backlog = 0
      BY <1>1, <2>1, <2>2 DEF ShouldTerminate, ReadyForFinalShutdown, CapReached
    <3>2. spawned = UpTo(step)
      BY <2>1, <3>1 DEF SpawnInv
    <3>3. CASE step = HorizonSteps
      <4>1. HorizonSteps \in LastDue + 1 .. HorizonSteps
        BY <1>1, <3>1, <3>3, NothingAfterLastDue
      <4>2. OrdersDue[HorizonSteps] = 0
        BY <4>1, NothingAfterLastDue
      <4>3. HorizonSteps + 1 \in 1 .. HorizonSteps + 1 /\ HorizonSteps + 1 - 1 = HorizonSteps
            /\ HorizonSteps \in 0 .. HorizonSteps + 1
        BY <1>1
      <4>4. Planned[HorizonSteps + 1] = Planned[HorizonSteps] + 0 /\ Planned[HorizonSteps] \in Nat
        BY <4>2, <4>3, PlannedSteps
      <4>5. UpTo(step) = Planned[HorizonSteps]
        BY <1>1, <3>3 DEF UpTo
      <4> QED BY <3>2, <4>4, <4>5
    <3>4. CASE step > HorizonSteps
      <4>1. step = HorizonSteps + 1 \/ step > HorizonSteps + 1
        BY <1>1, <3>4
      <4>2. UpTo(step) = Planned[HorizonSteps + 1]
        BY <1>1, <4>1 DEF UpTo
      <4> QED BY <3>2, <4>2
    <3> QED BY <1>1, <3>1, <3>3, <3>4
  <2> QED BY <2>1, <2>2 DEF SpawnInv, Serving, AllOrdersSpawned
<1>6. ASSUME UNCHANGED <<step, backlog, spawned, finalized>>,
             finalized => want' = "success",
             pc' \in {"start", "loop"} => pc \in {"start", "loop"}, Serving' => Serving
      PROVE  SpawnInv'
  BY <1>6 DEF SpawnInv, AllOrdersSpawned, UpTo
<1>7. CASE Start \/ StepSchedulers \/ PastCap \/ StrayArrives \/ RivalWrites
           \/ \E s \in Services : ServiceBoots(s)
  <2>1. UNCHANGED <<step, backlog, spawned, finalized, want>>
    BY <1>7 DEF Start, StepSchedulers, PastCap, StrayArrives, RivalWrites, ServiceBoots, worldVars,
                statusVars, endVars
  <2>2. (pc' \in {"start", "loop"} => pc \in {"start", "loop"}) /\ (Serving' => Serving)
    BY <1>7, <2>1 DEF Start, StepSchedulers, PastCap, StrayArrives, RivalWrites, ServiceBoots, Serving
  <2> QED BY <1>6, <2>1, <2>2 DEF SpawnInv
<1>8. CASE WriteProgress
  <2>1. /\ pc = "status" /\ pc' = "patch" /\ want' = "InProgress"
        /\ UNCHANGED <<step, backlog, spawned, finalized>>
    BY <1>8 DEF WriteProgress, BeginWrite, worldVars, endVars
  <2>2. ~finalized
    BY <2>1 DEF SpawnInv, RunInv, TerminalOnly
  <2> QED BY <1>6, <2>1, <2>2 DEF Serving
<1>9. CASE PatchOk \/ PatchStale \/ Refresh \/ ServerError \/ PatchTimesOut
  <2>1. /\ pc \in {"patch", "refresh"} /\ UNCHANGED <<step, backlog, spawned, finalized, want>>
        /\ pc' \in {"patch", "refresh", "terminal", "nextStep"}
        /\ pc' \in {"terminal", "nextStep"} => pc' = IF want = "success" THEN "terminal" ELSE "nextStep"
    BY <1>9 DEF PatchOk, PatchStale, Refresh, ServerError, PatchTimesOut, Settle, worldVars, endVars
  <2>2. want \in {"InProgress", "success"}
    BY <2>1 DEF RunInv, TerminalOnly, RequestTypes
  <2>3. Serving' => Serving
    BY <2>1, <2>2 DEF Serving
  <2> QED BY <1>6, <2>1, <2>3 DEF SpawnInv
<1>10. CASE Terminal \/ Announce \/ Flush \/ StartFails \/ StepRaises \/ Signal
  <2>1. /\ UNCHANGED <<step, backlog, spawned, finalized>> /\ (want' = want \/ want' = "success")
        /\ pc' \in {"patch", "announce", "flush", "exit"} /\ (pc' = "patch" => want' = "success")
    BY <1>10 DEF Terminal, Announce, Flush, StartFails, StepRaises, Signal, Abort, BeginWrite, worldVars,
                 statusVars, endVars
  <2> QED BY <1>6, <2>1 DEF SpawnInv, Serving
<1>11. CASE UNCHANGED vars
  <2>1. UNCHANGED <<step, backlog, spawned, finalized, want, pc>>
    BY <1>11 DEF vars, worldVars, statusVars, endVars
  <2> QED BY <1>6, <2>1 DEF SpawnInv, Serving
<1> QED
  BY <1>3, <1>4, <1>5, <1>7, <1>8, <1>9, <1>10, <1>11 DEF Next, Process, Status, Rest

LEMMA InitSpawned == Init => SpawnInv
<1> SUFFICES ASSUME Init PROVE SpawnInv
  OBVIOUS
<1>1. UpTo(0) = 0
  BY ConstantTypes, PlannedSteps DEF UpTo
<1> QED
  BY <1>1 DEF Init, SpawnInv, Serving, AllOrdersSpawned

LEMMA RunInvAlways == Spec => [](RunInv /\ SpawnInv)
<1>1. RunInv /\ SpawnInv /\ [Next]_vars => (RunInv /\ SpawnInv)'
  BY RunNext, SpawnStep
<1>2. Init => RunInv /\ SpawnInv
  BY InitInv, InitSpawned
<1> QED
  BY <1>1, <1>2, PTL DEF Spec

LEMMA RunInvIsSafe == RunInv /\ SpawnInv => RunSafe
<1> SUFFICES ASSUME RunInv, SpawnInv PROVE RunSafe
  OBVIOUS
<1>1. Len(published) <= 2
  <2>1. CASE pc \in Before
    BY <2>1 DEF RunInv, PublishedByPoint
  <2>2. CASE pc \notin Before
    <3>1. pc \in {"announce", "flush", "exit"}
      BY <2>2 DEF RunInv, RequestTypes, Points
    <3>2. pc = "announce" => Len(published) \in {0, 1}
      BY DEF RunInv, PublishedByPoint
    <3>3. pc = "flush" => Len(published) \in {1, 2}
      BY DEF RunInv, PublishedByPoint
    <3>4. pc = "exit" => Len(published) \in {1, 2}
      BY DEF RunInv, PublishedByPoint
    <3>5. Len(published) = 0 \/ Len(published) = 1 \/ Len(published) = 2
      BY <3>1, <3>2, <3>3, <3>4, Zenon
    <3>6. Len(published) = 0 => Len(published) <= 2
      OBVIOUS
    <3>7. Len(published) = 1 => Len(published) <= 2
      OBVIOUS
    <3>8. Len(published) = 2 => Len(published) <= 2
      OBVIOUS
    <3> QED
      BY <3>5, <3>6, <3>7, <3>8, Zenon
  <2> QED
    BY <2>1, <2>2
<1>2. TypeOK
  BY <1>1 DEF RunInv, WorldTypes, RequestTypes, TypeOK, Points, Before
<1>3. OutcomeHonest
  BY DEF RunInv, StraysAreStale, OutcomeHonest
<1>4. NeverLeftRunning
  BY DEF RunInv, PublishedByPoint, NeverLeftRunning
<1>5. RivalsAreSurvived
  BY DEF RunInv, RacesAreRivals, RivalsAreSurvived
<1> QED
  BY <1>2, <1>3, <1>4, <1>5 DEF RunSafe, SpawnInv

\* However rivals, faults, late PATCHes and signals fall, a write reported as landed
\* is in the run record, a process that ended has announced it, and fewer rival
\* writes than attempts cannot keep a faultless run from ending as success; and a run
\* that ends before the drain cap has spawned every planned order.
THEOREM RunSafeAlways == Spec => []RunSafe
BY RunInvAlways, RunInvIsSafe, PTL

\* The run record never leaves success: a PATCH of progress that timed out carries
\* an etag older than the success it would overwrite.
THEOREM SuccessIsFinalAlways == Spec => SuccessIsFinal
<1>1. ASSUME RunInv, [Next]_vars
      PROVE  [doc.status = "success" => doc'.status = "success"]_vars
  <2> SUFFICES ASSUME doc.status = "success", doc' # doc
               PROVE  doc'.status = "success"
    BY Zenon DEF vars
  <2>1. doc.etag \in Nat /\ want = "success" /\ pc # "start"
    BY <1>1 DEF RunInv, RequestTypes, TerminalOnly
  <2>2. PatchOk \/ StrayArrives \/ RivalWrites
    BY <1>1, <2>1 DEF Next, Process, Status, Start, SpawnAndStep, StepSchedulers, WriteProgress,
       PastCap, PatchStale,
       Refresh, NextStep, Finalize, Terminal, Announce, Flush, StartFails, StepRaises, ServerError,
       PatchTimesOut, Signal, Rest, ServiceBoots, vars
  <2>3. CASE PatchOk
    BY <2>1, <2>3 DEF PatchOk, Patched
  <2>4. CASE StrayArrives
    BY <1>1, <2>1, <2>4 DEF StrayArrives, Patched, Lands, RunInv, RequestTypes, StraysAreStale, Writes
  <2>5. CASE RivalWrites
    BY <1>1, <2>5 DEF RivalWrites, RunInv, RequestTypes
  <2> QED
    BY <2>2, <2>3, <2>4, <2>5
<1> QED
  BY <1>1, RunInvAlways, PTL DEF Spec, SuccessIsFinal

-----------------------------------------------------------------------------
(* The live map, for any number of trips, failed reads and outages.  What  *)
(* the publisher remembers is what the viewer sees: MapInv says which legs *)
(* that can be.                                                            *)

\* A map of read trips to the state each was read in.
ReadStates == {"assigned", "repositioning", "loaded"}
ReadTrips == UNION {[T -> ReadStates] : T \in SUBSET Trips}
Reads == [on : BOOLEAN, trips : ReadTrips]
Sketches == [Map!Keys -> {"", "assigned", "repositioning", "loaded"}]

MapTypes ==
  /\ state \in [Trips -> {"assigned", "repositioning", "loaded", "completed"}]
  /\ inflight \in Reads /\ lastRead \in Reads
  /\ last_emit \in Sketches /\ last_active \subseteq Trips

\* The publisher's keys are what the viewer sees, through failed lookups too; and until
\* one failed, it remembers every trip it has drawn.
MapInv ==
  /\ MapTypes /\ onScreen = last_emit
  /\ ~aborted => \A k \in Map!Keys : onScreen[k] # "" => k[1] \in last_active
  /\ lastRead.on /\ ~aborted =>
       \A k \in Map!Keys :
         /\ k[1] \notin DOMAIN lastRead.trips => onScreen[k] = ""
         /\ k[1] \in DOMAIN lastRead.trips /\ k[2] \in Map!legs_for_trip(lastRead.trips[k[1]])
              /\ route[k[1]] = "stored"
              => onScreen[k] = lastRead.trips[k[1]]
  /\ authoritative => (\A k \in Map!Keys : onScreen[k] # "" => route[k[1]] = "stored") /\ ~aborted

LEMMA KeyParts == \A k \in Map!Keys : k[1] \in Trips /\ k[2] \in Map!Legs
BY DEF Map!Keys

LEMMA ReadOf ==
  ASSUME NEW r \in Reads
  PROVE  DOMAIN r.trips \subseteq Trips
           /\ \A t \in DOMAIN r.trips : r.trips[t] \in {"assigned", "repositioning", "loaded"}
BY DEF Reads, ReadTrips, ReadStates

\* What a publish draws are states it read, and of stored routes alone when they rule.
LEMMA Draws ==
  ASSUME MapTypes, NEW K \in SUBSET Map!LegsRead, NEW f \in Sketches
  PROVE  /\ Map!Emitted(f, K) \in Sketches
         /\ \A k \in Map!Keys : Map!Emitted(f, K)[k] = f[k] \/ k \in K
         /\ \A k \in Map!Keys : authoritative /\ Map!Emitted(f, K)[k] # f[k] => route[k[1]] = "stored"
<1>1. inflight \in Reads
  BY DEF MapTypes
<1>2. \A k \in Map!LegsRead : Map!Signature(k) \in {"assigned", "repositioning", "loaded"}
  BY <1>1, ReadOf DEF Map!LegsRead, Map!Signature
<1>3. \A k \in Map!Drawn(K) : k \in K /\ (authoritative => route[k[1]] = "stored")
  BY DEF Map!Drawn, Map!resolve_leg_geometry
<1> QED
  BY <1>2, <1>3 DEF Map!Emitted, Sketches

\* A read that failed, or found nothing.
LEMMA EmptyRead == [t \in {} |-> ""] \in ReadTrips
<1>1. [t \in {} |-> ""] \in [{} -> ReadStates]
  OBVIOUS
<1>2. {} \in SUBSET Trips
  OBVIOUS
<1> QED
  BY <1>1, <1>2 DEF ReadTrips

LEMMA InitMap == Map!Init => MapInv
<1> SUFFICES ASSUME Map!Init PROVE MapInv
  OBVIOUS
<1>1. Map!NoRead \in Reads /\ Map!NoRead.on = FALSE
  BY EmptyRead DEF Map!NoRead, Reads
<1> QED
  BY <1>1 DEF Map!Init, MapInv, MapTypes, Sketches

LEMMA PublishKeeps == ASSUME MapInv, Map!publish_from_haul_trips PROVE MapInv'
<1> DEFINE active == DOMAIN inflight.trips
           ended == last_active \ active
           drawn == Map!Emitted(last_emit, Map!LegsRead)
<1>1. MapTypes /\ last_emit \in Sketches /\ inflight \in Reads /\ onScreen = last_emit
  BY DEF MapInv, MapTypes
<1>2. active \subseteq Trips /\ \A t \in active : inflight.trips[t] \in {"assigned", "repositioning", "loaded"}
  BY <1>1, ReadOf
<1>3. /\ drawn \in Sketches /\ \A k \in Map!Keys : drawn[k] = last_emit[k] \/ k \in Map!LegsRead
      /\ \A k \in Map!Keys : authoritative /\ drawn[k] # last_emit[k] => route[k[1]] = "stored"
  BY <1>1, Draws
<1>4. \A k \in Map!Keys : k \in Map!LegsRead <=> k[1] \in active
        /\ k[2] \in Map!legs_for_trip(inflight.trips[k[1]])
  BY DEF Map!LegsRead
<1>5. /\ last_emit' = [k \in Map!Keys |-> IF k[1] \in ended THEN "" ELSE drawn[k]]
      /\ onScreen' = [k \in Map!Keys |-> IF k[1] \in ended THEN "" ELSE drawn[k]]
      /\ last_active' = active /\ lastRead' = inflight /\ inflight' = Map!NoRead
      /\ UNCHANGED <<state, route, authoritative, osrm, aborted, mapFaults>>
  BY <1>1 DEF Map!publish_from_haul_trips, Map!keys_cleared
<1>6. Map!NoRead \in Reads
  BY EmptyRead DEF Map!NoRead, Reads
<1>7. \A k \in Map!Keys : k \in Map!LegsRead /\ route[k[1]] = "stored" => drawn[k] = inflight.trips[k[1]]
  <2> SUFFICES ASSUME NEW k \in Map!Keys, k \in Map!LegsRead, route[k[1]] = "stored"
      PROVE drawn[k] = inflight.trips[k[1]]
    OBVIOUS
  <2>1. Map!resolve_leg_geometry(k) = "stored"
    <3>1. route[k[1]] # "unavailable"
      OBVIOUS
    <3> QED
      BY <3>1, Zenon DEF Map!resolve_leg_geometry
  <2>2. k \in Map!Drawn(Map!LegsRead) <=> last_emit[k] # Map!Signature(k)
    BY <2>1 DEF Map!Drawn
  <2>3. drawn[k] = IF k \in Map!Drawn(Map!LegsRead) THEN Map!Signature(k) ELSE last_emit[k]
    BY DEF Map!Emitted
  <2> QED
    BY <2>2, <2>3 DEF Map!Signature
<1> HIDE DEF drawn
<1>8. MapTypes'
  BY <1>1, <1>2, <1>3, <1>5, <1>6 DEF MapTypes, Sketches
<1>9. \A k \in Map!Keys : k[1] \notin active => onScreen'[k] = "" \/ aborted
  <2> SUFFICES ASSUME NEW k \in Map!Keys, k[1] \notin active, k[1] \notin ended, ~aborted PROVE drawn[k] = ""
    BY <1>5
  <2>1. drawn[k] = last_emit[k] /\ k[1] \notin last_active
    BY <1>3, <1>4
  <2> QED
    BY <1>1, <2>1 DEF MapInv
<1>10. \A k \in Map!Keys : onScreen'[k] # "" => k[1] \in last_active' \/ aborted
  BY <1>5, <1>9
<1>11. \A k \in Map!Keys : k \in Map!LegsRead /\ route[k[1]] = "stored" => onScreen'[k] = inflight.trips[k[1]]
  BY <1>4, <1>5, <1>7
<1>12. authoritative => (\A k \in Map!Keys : onScreen'[k] # "" => route[k[1]] = "stored") /\ ~aborted
  BY <1>1, <1>3, <1>5 DEF MapInv
<1> QED
  BY <1>4, <1>5, <1>8, <1>9, <1>10, <1>11, <1>12 DEF MapInv

LEMMA RaiseKeeps == ASSUME MapInv, Map!PublishRaises PROVE MapInv'
<1>1. PICK k \in Map!LegsRead, K \in SUBSET Map!LegsRead :
        Map!Raises(k) /\ last_emit' = Map!Emitted(last_emit, K) /\ onScreen' = Map!Emitted(onScreen, K)
  BY DEF Map!PublishRaises
<1>2. /\ aborted' = TRUE /\ lastRead' = inflight /\ inflight' = Map!NoRead
      /\ UNCHANGED <<state, route, authoritative, osrm, last_active, mapFaults>> /\ ~authoritative
  BY <1>1 DEF Map!PublishRaises, Map!Raises, Map!Asks
<1>3. MapTypes /\ onScreen = last_emit /\ inflight \in Reads /\ last_emit \in Sketches
  BY DEF MapInv, MapTypes
<1>4. Map!Emitted(last_emit, K) \in Sketches
  BY <1>3, Draws
<1>5. Map!NoRead \in Reads
  BY EmptyRead DEF Map!NoRead, Reads
<1>6. MapTypes'
  BY <1>1, <1>2, <1>3, <1>4, <1>5 DEF MapTypes
<1> QED
  BY <1>1, <1>2, <1>3, <1>6 DEF MapInv

LEMMA SpawnKeeps ==
  ASSUME MapInv, NEW readable \in BOOLEAN, Map!spawn_trip_geo_publish(readable)
  PROVE  MapInv'
<1> DEFINE r == [on |-> TRUE, trips |-> IF readable THEN [t \in Map!Active |-> state[t]] ELSE [t \in {} |-> ""]]
<1>1. r \in Reads
  <2>1. Map!Active \in SUBSET Trips /\ \A t \in Map!Active : state[t] \in ReadStates
    BY DEF Map!Active, ReadStates, MapInv, MapTypes
  <2>2. [t \in Map!Active |-> state[t]] \in [Map!Active -> ReadStates]
    BY <2>1
  <2>3. r.trips \in ReadTrips
    BY <2>1, <2>2, EmptyRead DEF ReadTrips
  <2> QED
    BY <2>3 DEF Reads
<1>2. inflight' = r /\ UNCHANGED <<state, route, authoritative, last_emit, last_active, onScreen, lastRead, aborted>>
  BY DEF Map!spawn_trip_geo_publish
<1> HIDE DEF r
<1> QED
  BY <1>1, <1>2 DEF MapInv, MapTypes

LEMMA MapStep == ASSUME MapInv, [Map!Next]_(Map!vars) PROVE MapInv'
<1>1. ASSUME NEW t \in Trips, Map!Advance(t) PROVE MapInv'
  <2>1. state' \in [Trips -> {"assigned", "repositioning", "loaded", "completed"}]
    <3>1. Map!Path[state[t]] \in {"repositioning", "loaded", "completed"}
      BY <1>1 DEF Map!Advance, Map!Path
    <3> QED
      BY <1>1, <3>1 DEF Map!Advance, MapInv, MapTypes
  <2>2. UNCHANGED <<route, authoritative, inflight, last_emit, last_active, onScreen, lastRead, aborted>>
    BY <1>1 DEF Map!Advance, Map!publisher
  <2> QED
    BY <2>1, <2>2 DEF MapInv, MapTypes
<1>2. CASE Map!Outage \/ Map!Recover \/ UNCHANGED Map!vars
  <2>1. UNCHANGED <<state, route, authoritative, inflight, last_emit, last_active, onScreen, lastRead, aborted>>
    BY <1>2 DEF Map!Outage, Map!Recover, Map!publisher, Map!vars
  <2> QED
    BY <2>1 DEF MapInv, MapTypes
<1>3. CASE Map!publish_from_haul_trips
  BY <1>3, PublishKeeps
<1>4. CASE Map!PublishRaises
  BY <1>4, RaiseKeeps
<1>5. ASSUME NEW readable \in BOOLEAN, Map!spawn_trip_geo_publish(readable) PROVE MapInv'
  BY <1>5, SpawnKeeps
<1> QED
  BY <1>1, <1>2, <1>3, <1>4, <1>5 DEF Map!Next

\* The live map (trip_geo publisher): as long as no publish raised, it shows the last
\* publish's trips and no other, each leg in the state it was read in, for any number of
\* trips, failed reads and outages.
THEOREM MapIsCurrentAlways == Map!Spec => []MapIsCurrent
<1>1. Map!Init => MapInv
  BY InitMap
<1>2. MapInv /\ [Map!Next]_(Map!vars) => MapInv'
  BY MapStep
<1>3. MapInv => MapIsCurrent
  BY DEF MapInv, MapIsCurrent, Map!MapIsCurrent
<1> QED
  BY <1>1, <1>2, <1>3, PTL DEF Map!Spec

=============================================================================
