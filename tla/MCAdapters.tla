----------------------------- MODULE MCAdapters -----------------------------
(* What the adapters read, component by component: a behaviour is one of    *)
(* one of them, and the others stay in an initial state.                    *)
EXTENDS LocalScan, SessionCounters, QuotaSources, QuotaWindows

VARIABLE part

Init ==
  /\ part \in {"scan", "counters", "sources", "windows"}
  /\ ScanInit /\ CounterInit /\ QuotaInit /\ WindowInit
  /\ part # "scan" => adapter = (CHOOSE a \in LocalAdapters : TRUE)
  /\ part # "counters" => format = "codex"
  /\ part # "sources" => provider = "ollama_local" /\ login = "absent" /\ refreshable = FALSE
  /\ part # "windows" => parser = "ollama" /\ allowance = All

ScanStep ==
  /\ part = "scan" /\ ScanNext
  /\ UNCHANGED <<part, counterVars, quotaVars, windowVars>>
CounterStep ==
  /\ part = "counters" /\ CounterNext
  /\ UNCHANGED <<part, scanVars, quotaVars, windowVars>>
SourceStep ==
  /\ part = "sources" /\ QuotaNext
  /\ UNCHANGED <<part, scanVars, counterVars, windowVars>>
WindowStep ==
  /\ part = "windows" /\ WindowNext
  /\ UNCHANGED <<part, scanVars, counterVars, quotaVars>>
Next == ScanStep \/ CounterStep \/ SourceStep \/ WindowStep

\* A part that does not move is idle, and has nothing to be fair about.
Spec ==
  /\ Init /\ [][Next]_<<part, scanVars, counterVars, quotaVars, windowVars>>
  /\ QuotaFairness

\* Every component keeps to its types and bounds.
AdaptersTypeOK ==
  /\ ScanTypeOK
  /\ CounterTypeOK
  /\ QuotaTypeOK
  /\ WindowTypeOK
=============================================================================
