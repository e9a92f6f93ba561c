------------------------- MODULE MCRecoveryWorkflow -------------------------
(***************************************************************************)
(* RecoveryWorkflow for TLC: Resume calls and keys are interchangeable.    *)
(***************************************************************************)
EXTENDS RecoveryWorkflow, TLC

Symmetry == Permutations(Calls) \union Permutations(Keys)
=============================================================================
