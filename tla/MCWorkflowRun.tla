----------------------------- MODULE MCWorkflowRun -----------------------------
(* Instances of WorkflowRun for TLC.                                       *)
EXTENDS WorkflowRunInductive, TLC

\* No property names a step.
MCSymmetry == Permutations(Steps)
=============================================================================
