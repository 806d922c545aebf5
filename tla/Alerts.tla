------------------------------- MODULE Alerts -------------------------------
(***************************************************************************)
(* The alerts of one provider: application/src/alerts.rs evaluates what the *)
(* tables say into the alerts table (alert_repository.rs).  An evaluation   *)
(* reads three tables and writes one row per statement, outside any         *)
(* transaction, with the storage mutex held; a refresh cycle writes the     *)
(* tables it reads meanwhile, on a connection of its own.  Acknowledgements *)
(* need the storage mutex, so they fall between evaluations.                *)
(***************************************************************************)
CONSTANTS
  Meters,      \* which of the quota window and the budget there are
  UsageModes,  \* collector modes of the usage runs
  Levels,      \* how bad a condition can be
  Codes        \* error codes a run can record

ASSUME KeysAssumption ==
  /\ Meters \subseteq {"quota", "budget"}
  /\ UsageModes \subseteq {"local_scan", "not_detected"} /\ UsageModes # {}
  /\ {"clear", "warning"} \subseteq Levels

VARIABLES
  level,      \* level[m]: how bad the quota window and the budget are
  runs,       \* runs[m]: error of the newest collector run of mode m
  newest,     \* mode of the provider's newest usage run
  alerts,     \* table alerts, by alert_key
  pc,         \* where the evaluation is
  todo,       \* observations not yet recorded: severity by key
  active,     \* active_keys
  quiet,      \* no table was written since the evaluation started (history)
  settled,    \* nor since it ended, after an evaluation that was quiet
  standing    \* acknowledged alerts whose condition has held since (history)

alertVars == <<level, runs, newest, alerts, pc, todo, active, quiet, settled, standing>>

\* The keys: "quota:...", "budget:...", "collector:<provider>:<mode>".
Modes   == UsageModes \cup {"quota_collect"}
AlertKeys    == Meters \cup Modes
NoAlert == [state |-> "none", acked |-> FALSE, severity |-> "clear"]

AlertRows == [state : {"none", "open", "resolved"}, acked : BOOLEAN, severity : Levels]

AlertTypeOK ==
  /\ level \in [Meters -> Levels]
  /\ runs \in [Modes -> Codes \cup {"none"}]
  /\ newest \in UsageModes
  /\ alerts \in [AlertKeys -> AlertRows]
  /\ pc \in {"idle", "quota", "runs", "budgets", "record"}
  /\ todo \in [AlertKeys -> Levels]
  /\ active \subseteq AlertKeys
  /\ {quiet, settled} \subseteq BOOLEAN
  /\ standing \subseteq AlertKeys

Nothing == [k \in AlertKeys |-> "clear"]

AlertInit ==
  /\ level = [m \in Meters |-> "clear"]
  /\ runs = [m \in Modes |-> "none"]
  /\ newest \in UsageModes
  /\ alerts = [k \in AlertKeys |-> NoAlert]
  /\ pc = "idle"
  /\ todo = Nothing
  /\ active = {}
  /\ quiet = FALSE /\ settled = FALSE
  /\ standing = {}

\* A run that raises an alert: any error but the two that are skipped.
Loud(code) == code \notin {"none", "", "NOT_SUPPORTED", "NOT_CONFIGURED"}

\* The severity of condition k as the tables have it.
Condition(k) ==
  IF k \in Meters THEN level[k] ELSE IF Loud(runs[k]) THEN "warning" ELSE "clear"

Open(k) == alerts[k].state = "open"

(* Seeded faults, see the note in RefreshJob. *)

\* Every observation is a new occurrence.
ObservedAnew(alert, severity) == [state |-> "open", severity |-> severity, acked |-> FALSE]

\* A reopened alert keeps its acknowledgement.
ObservedKeeping(alert, severity) == [alert EXCEPT !.state = "open", !.severity = severity]

\* observe(): an insert, or an update that reopens.
Observed(alert, severity) ==
  [state |-> "open", severity |-> severity,
   acked |-> alert.acked /\ alert.state # "resolved"]

\* resolve_missing.
Resolved(alert) == IF alert.state = "open" THEN [alert EXCEPT !.state = "resolved"] ELSE alert

Tables     == <<level, runs, newest>>
Evaluation == <<pc, todo, active>>

-----------------------------------------------------------------------------
(* Seeded faults, see the note in RefreshJob. *)

\* Without observations there is nothing to do.
ResolveUnlessEmpty ==
  /\ pc = "record" /\ todo = Nothing
  /\ alerts' = [k \in AlertKeys |-> IF k \in active \/ active = {} THEN alerts[k]
                               ELSE Resolved(alerts[k])]
  /\ settled' = quiet
  /\ pc' = "idle" /\ active' = {} /\ quiet' = FALSE
  /\ UNCHANGED <<Tables, todo, standing>>

-----------------------------------------------------------------------------
(* What the refresh cycle and the user write *)

\* After any write, what has stopped holding stops standing.
Rewritten ==
  /\ standing' = {k \in standing : Condition(k)' # "clear"}
  /\ quiet' = FALSE /\ settled' = FALSE
  /\ UNCHANGED <<alerts, Evaluation>>

\* A new quota report or new usage; a budget is edited or its period ends.
ChangeLevel(m, severity) ==
  /\ level' = [level EXCEPT ![m] = severity]
  /\ UNCHANGED <<runs, newest>>
  /\ Rewritten

\* record_run: a provider that is not installed is not collected.
RecordUsageRun(mode, code) ==
  /\ code \in IF mode = "not_detected" THEN {"SOURCE_UNAVAILABLE"}
              ELSE {"", "SOURCE_UNAVAILABLE", "NOT_SUPPORTED"}
  /\ runs' = [runs EXCEPT ![mode] = code]
  /\ newest' = mode
  /\ UNCHANGED level
  /\ Rewritten

RecordQuotaRun(code) ==
  /\ runs' = [runs EXCEPT !["quota_collect"] = code]
  /\ UNCHANGED <<level, newest>>
  /\ Rewritten

-----------------------------------------------------------------------------
(* EvaluateAlerts::execute *)

BeginEvaluation ==
  /\ pc = "idle"
  /\ pc' = "quota"
  /\ quiet' = TRUE
  /\ UNCHANGED <<Tables, alerts, todo, active, settled, standing>>

\* One of the three reads; the observations of a read are the conditions it finds.
Read(from, to, keys) ==
  /\ pc = from
  /\ pc' = to
  /\ todo' = [k \in AlertKeys |-> IF k \in keys THEN Condition(k) ELSE todo[k]]
  /\ active' = active \cup {k \in keys : Condition(k) # "clear"}
  /\ UNCHANGED <<Tables, alerts, quiet, settled, standing>>

ReadQuotas  == Read("quota", "runs", Meters \cap {"quota"})
ReadRuns    == Read("runs", "budgets", Modes)
ReadBudgets == Read("budgets", "record", Meters \cap {"budget"})

\* repo.observe(observation) for one of them.
Record(k) ==
  /\ pc = "record"
  /\ todo[k] # "clear"
  /\ alerts' = [alerts EXCEPT ![k] = Observed(@, todo[k])]
  /\ todo' = [todo EXCEPT ![k] = "clear"]
  /\ UNCHANGED <<Tables, pc, active, quiet, settled, standing>>

\* repo.resolve_missing(&active_keys), and the evaluation is over.
Resolve ==
  /\ pc = "record"
  /\ todo = Nothing
  /\ alerts' = [k \in AlertKeys |-> IF k \in active THEN alerts[k] ELSE Resolved(alerts[k])]
  /\ settled' = quiet
  /\ pc' = "idle" /\ active' = {} /\ quiet' = FALSE
  /\ UNCHANGED <<Tables, todo, standing>>

\* A statement fails, or the process is killed: what was recorded stays.
Interrupt ==
  /\ pc # "idle"
  /\ pc' = "idle" /\ todo' = Nothing /\ active' = {} /\ quiet' = FALSE
  /\ UNCHANGED <<Tables, alerts, settled, standing>>

-----------------------------------------------------------------------------
(* The Alerts page *)

Acked(keys) ==
  /\ alerts' = [k \in AlertKeys |-> IF k \in keys THEN [alerts[k] EXCEPT !.acked = TRUE] ELSE alerts[k]]
  /\ standing' = standing \cup {k \in keys : Open(k) /\ Condition(k) # "clear"}
  /\ UNCHANGED <<Tables, Evaluation, quiet, settled>>

\* acknowledge_alert, for any row the page shows, resolved ones included.
Acknowledge(k) ==
  /\ pc = "idle"
  /\ alerts[k].state # "none" /\ ~alerts[k].acked
  /\ Acked({k})

AcknowledgeAll ==
  /\ pc = "idle"
  /\ Acked({k \in AlertKeys : Open(k) /\ ~alerts[k].acked})

-----------------------------------------------------------------------------
Evaluate == BeginEvaluation \/ ReadQuotas \/ ReadRuns \/ ReadBudgets \/ (\E k \in AlertKeys : Record(k)) \/ Resolve

AlertNext ==
  \/ \E m \in Meters, severity \in Levels : ChangeLevel(m, severity)
  \/ \E mode \in UsageModes, code \in Codes : RecordUsageRun(mode, code)
  \/ \E code \in Codes : RecordQuotaRun(code)
  \/ Evaluate \/ Interrupt
  \/ (\E k \in AlertKeys : Acknowledge(k)) \/ AcknowledgeAll

AlertSpec == AlertInit /\ [][AlertNext]_alertVars

-----------------------------------------------------------------------------
(* Properties *)

\* An acknowledged alert stays open and read while its condition holds, through
\* evaluations, interrupted or not, and whatever is written meanwhile.
AckStands ==
  \A k \in standing : Open(k) /\ alerts[k].acked

\* After an evaluation nobody disturbed, exactly the conditions that hold are
\* open, at their severity, and later evaluations do not make them flicker.
EvaluationSettles ==
  settled => \A k \in AlertKeys :
    IF Condition(k) = "clear" THEN ~Open(k) ELSE Open(k) /\ alerts[k].severity = Condition(k)

\* "A previously resolved condition that reappears is [...] a new occurrence":
\* it is unread, even if the resolved row was acknowledged meanwhile.
ReappearedIsUnread ==
  [][\A k \in AlertKeys : alerts[k].state = "resolved" /\ Open(k)' => ~alerts'[k].acked]_alertVars

\* Alerts are open as long as their conditions hold and keep what the user said.
AlertsStand ==
  /\ AckStands
  /\ EvaluationSettles

-----------------------------------------------------------------------------
(* What the code says of itself and does not do: see the README.            *)

\* Alerts are derived from "the last collector run per provider": a usage alert
\* is about the newest usage run.
OnlyLastRun ==
  settled => \A m \in UsageModes : Open(m) => m = newest

\* "SOURCE_REQUIRES_IDE is an expected provider state: it [...] never raises an alert".
ExpectedStateIsSilent ==
  settled /\ runs["quota_collect"] = "SOURCE_REQUIRES_IDE" => ~Open("quota_collect")
=============================================================================
