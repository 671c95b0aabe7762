----------------------------- MODULE MCStepBarrier -----------------------------
(* Instances of StepBarrier. *)
EXTENDS StepBarrier, TLC
AgentSymmetry == Permutations(Agents)
NapsIndefinite == {0, -1}
=============================================================================
