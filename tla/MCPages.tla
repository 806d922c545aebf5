------------------------------ MODULE MCPages ------------------------------
(* What the main window shows and keeps, component by component: a          *)
(* behaviour is one of one of them, and the others stay in an initial state. *)
EXTENDS UsageViews, QuotaCards, SettingsWindows, PetStore, Alerts, PageLoads

VARIABLE part

Row(p, m, i, o, h, c, s, j) ==
  [provider |-> p, model |-> m, input |-> i, output |-> o, cached |-> h, cost |-> c,
   session |-> s, project |-> j]
\* Of rates: an override, the fallback and the family's; estimates that are rounded
\* down and up, a recorded cost in a group without, the former id, a session in
\* two agents.
SomeRows ==
  {Row("codex", "gpt", 1, 1, 1, 0, "s1", "p1"),
   Row("opencode", "new", 1, 1, 0, 2, "s1", "p1"), Row("opencode", "new", 1, 0, 0, 0, "s2", "p1"),
   Row("opencode_cli", "glm dated", 0, 1, 2, 0, "s1", "")}
SomeOverrides == [pair \in {<<"openai", "gpt">>} |-> [input |-> 1, output |-> 1]]

Init ==
  /\ part \in {"views", "cards", "settings", "pets", "alerts", "loads"}
  /\ ViewsInit /\ CardInit /\ SettingsInit /\ PetInit /\ AlertInit /\ LoadsInit
  /\ part # "cards" => card = "kilo_code"
  /\ part # "pets" => ~marker

ViewsStep ==
  /\ part = "views" /\ ViewsNext
  /\ UNCHANGED <<part, cardVars, settingVars, petVars, alertVars, loadVars>>
CardStep ==
  /\ part = "cards" /\ CardNext
  /\ UNCHANGED <<part, viewVars, settingVars, petVars, alertVars, loadVars>>
SettingsStep ==
  /\ part = "settings" /\ SettingsNext
  /\ UNCHANGED <<part, viewVars, cardVars, petVars, alertVars, loadVars>>
PetStep ==
  /\ part = "pets" /\ PetNext
  /\ UNCHANGED <<part, viewVars, cardVars, settingVars, alertVars, loadVars>>
AlertStep ==
  /\ part = "alerts" /\ AlertNext
  /\ UNCHANGED <<part, viewVars, cardVars, settingVars, petVars, loadVars>>
LoadStep ==
  /\ part = "loads" /\ LoadsNext
  /\ UNCHANGED <<part, viewVars, cardVars, settingVars, petVars, alertVars>>
Next == ViewsStep \/ CardStep \/ SettingsStep \/ PetStep \/ AlertStep \/ LoadStep

Spec ==
  Init /\ [][Next]_<<part, viewVars, cardVars, settingVars, petVars, alertVars, loadVars>>

\* Every component keeps to its types and bounds.
PagesTypeOK ==
  /\ ViewsTypeOK
  /\ CardTypeOK
  /\ SettingsTypeOK
  /\ PetTypeOK
  /\ AlertTypeOK
  /\ LoadsTypeOK
=============================================================================
