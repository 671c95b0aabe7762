------------------------------- MODULE MCCapture -------------------------------
(***************************************************************************)
(* Capturing a run, streaming it live and reading it back, an instance of  *)
(* each in one state space.  Init chooses the part that behaves; the other *)
(* two stay at their Init.                                                 *)
(***************************************************************************)
EXTENDS RunFrames, RunViews, TLC

CONSTANTS r1, r2, s1, s2
VARIABLE part

\* A run with an abandoned sweep thread beside the live one, store faults and a
\* replayed terminal.
Live == [runs |-> {r1}, sweepers |-> {s1, s2}, updates |-> 2, faults |-> 1, crashes |-> 0, replays |-> 1]
\* A hard kill at any point, with a store call refused before or after it.
Restart == [runs |-> {r1}, sweepers |-> {s1}, updates |-> 3, faults |-> 1, crashes |-> 1, replays |-> 0]
\* Two live runs over a hot tier with room for one.
Lru == [runs |-> {r1, r2}, sweepers |-> {s1}, updates |-> 3, faults |-> 0, crashes |-> 0, replays |-> 0]
AllLimits == {Live, Restart, Lru}

\* One restart alone, for the book that is left on disk.
OneRestart == {Restart}

\* Trucks are interchangeable; every property of the run is a safety one.
Interchangeable == Permutations(Trucks)

CaptureInit ==
  /\ part \in {"frames", "stream", "set"}
  /\ part = "frames" \/ limit = Live
  /\ Init /\ Stream!Init /\ Set!Init

FramesStep == part = "frames" /\ Next /\ UNCHANGED <<part, streamVars, setVars>>
StreamStep == part = "stream" /\ Stream!Next /\ UNCHANGED <<part, vars, setVars>>
SetStep == part = "set" /\ Set!Next /\ UNCHANGED <<part, vars, streamVars>>

CaptureSpec == CaptureInit /\ [][FramesStep \/ StreamStep \/ SetStep]_<<part, vars, streamVars, setVars>>
===============================================================================
