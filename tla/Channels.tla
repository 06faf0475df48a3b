------------------------------ MODULE Channels ------------------------------
(***************************************************************************)
(* What each place a result is told in makes of it: the summary report,    *)
(* SARIF, the webhook, Telegram and Notion.  The words, colours and emoji  *)
(* of a status are "ok", "warn" and "fail".                                *)
(***************************************************************************)
EXTENDS Findings

Severities(findings) == {SeverityOf[f.rule] : f \in findings}

(* summary_report.py: _status_for of the worst severity. *)
SummaryStatus(findings, failed) ==
  CASE failed # {} \/ Severities(findings) \cap {"high", "critical"} # {} -> "fail"
    [] failed = {} /\ Severities(findings) \subseteq {"info"} -> "ok"
    [] OTHER -> "warn"

(* sarif_report.py: level_for. *)
LevelBySeverity ==
  [critical |-> "error", high |-> "error", medium |-> "warning", low |-> "warning",
   info |-> "note"]

SarifLevels(findings) == {LevelBySeverity[severity] : severity \in Severities(findings)}

StatusOfScore_Lenient(score) ==
  CASE score >= 90 -> "ok" [] 60 <= score /\ score < 90 -> "warn" [] score < 60 -> "fail"

(* notion.py: _status; the emoji of send_telegram. *)
StatusOfScore(score) ==
  CASE score >= 90 -> "ok" [] 70 <= score /\ score < 90 -> "warn" [] score < 70 -> "fail"

(* The colour and the emoji of send_webhook. *)
StatusOn(alert, findings) ==
  IF alert = "webhook" /\ "critical" \in Severities(findings)
  THEN "fail" ELSE StatusOfScore(Score(findings))

(* In the order in which the commands send them; `audit` has no webhook. *)
Alerts == <<"webhook", "telegram", "notion">>
=============================================================================
