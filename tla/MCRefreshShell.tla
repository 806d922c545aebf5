--------------------------- MODULE MCRefreshShell ---------------------------
(* Symmetry of the job slots for the runs of RefreshShell. *)
EXTENDS RefreshShell, TLC

SlotSymmetry == Permutations(Jobs)
=============================================================================
