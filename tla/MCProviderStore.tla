-------------------------- MODULE MCProviderStore --------------------------
(* Symmetry of the interchangeable values of ProviderStore. *)
EXTENDS ProviderStore, TLC

StoreSymmetry ==
  Permutations(Records) \cup Permutations(Refreshers)
=============================================================================
