----------------------------- MODULE RefreshSlot -----------------------------
(***************************************************************************)
(* What refresh_running promises to everyone who refreshes: one slot, taken *)
(* by one job at a time and given back before anyone else can take it.      *)
(***************************************************************************)
CONSTANT Jobs

VARIABLE holders     \* the jobs that own the slot

Init == holders = {}

Acquire == holders = {} /\ \E j \in Jobs : holders' = {j}

Release == holders # {} /\ holders' = {}

Next == Acquire \/ Release

Spec == Init /\ [][Next]_holders
=============================================================================
