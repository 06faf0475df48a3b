------------------------------- MODULE Command -------------------------------
(***************************************************************************)
(* The half that `aegis scan` and `aegis audit` share (cli.py): what a run *)
(* does with its findings once it has them, the files it leaves for later  *)
(* runs, and the exit code CI reads.  ScanCommand and AuditCommand add how *)
(* a run starts and gets its findings.                                     *)
(*                                                                          *)
(* A run is a sequence of stages; in each of them an exception ends it with *)
(* exit code 2 (_guarded), and it may be killed.  Files are truncated and   *)
(* then written, so either leaves a torn one.                               *)
(***************************************************************************)
EXTENDS Channels, FiniteSets

CONSTANT MaxRuns  \* bound on the number of runs, for TLC

ASSUME MaxRunsAssumption == MaxRuns \in Nat

VARIABLES
  run,       \* number of the current or last run
  stage,     \* where it is, "idle" between runs
  opts,      \* its command line
  failed,    \* result.failed_targets
  findings,  \* result.findings
  todo,      \* report formats still to write
  told,      \* per alert that was sent, the status it told, or "lost"
  exit,      \* exit code of the last run, or NotEnded, or Killed
  baseline,  \* the --baseline file
  report,    \* per format, the run whose report the file holds, or 0, or TornReport
  seen,      \* history variable: all the findings the run's checks raised
  recorded   \* history variable: `seen` of the run that wrote the baseline

Formats == <<"json", "sarif", "html", "summary">>

Absent == [state |-> "absent", prints |-> {}]
Torn   == [state |-> "torn", prints |-> {}]
Written(prints) == [state |-> "ok", prints |-> prints]

TornReport == -1

(* _guarded: any exception that reaches the command.  *)
ToolError_AsGateFailure == 1

ToolError  == 2
UsageError == 2
GateFailed == 1

(* What the shell sees of a run that was killed, and what a run that goes on has. *)
Killed   == 137
NotEnded == -1

files == <<baseline, report>>
result == <<failed, findings, seen>>
cmdVars == <<run, stage, opts, result, todo, told, exit, files, recorded>>

(* No option but --format, which defaults to all. *)
Reporting(formats) ==
  [failOn |-> {}, failUnder |-> {}, formats |-> formats, alerts |-> {},
   baseline |-> FALSE, update |-> FALSE]

CmdInit ==
  /\ run = 0 /\ stage = "idle" /\ opts = Reporting({})
  /\ failed = {} /\ findings = {} /\ todo = {} /\ told = <<>> /\ exit = NotEnded
  /\ baseline = Absent
  /\ report = [f \in ToSet(Formats) |-> 0]
  /\ seen = {} /\ recorded = {}

(* typer.Exit(code): everything but the stage and the code stays. *)
Exit(code) == stage' = "idle" /\ exit' = code

Proceed(to) == stage' = to /\ UNCHANGED exit

-----------------------------------------------------------------------------
(* The command line is read; _resolve_formats and what the command itself    *)
(* objects to end the run as usage errors.                                   *)
CmdStart(options, objecting, first) ==
  /\ stage = "idle" /\ run < MaxRuns
  /\ run' = run + 1
  /\ opts' \in options
  /\ todo' = opts'.formats /\ told' = <<>>
  /\ failed' = {} /\ findings' = {} /\ seen' = {}
  /\ IF opts'.formats = {} \/ opts' \in objecting
     THEN Exit(UsageError)
     ELSE stage' = first /\ exit' = NotEnded
  /\ UNCHANGED <<files, recorded>>

(* The command returns: no reports, no history and no gate. *)
AfterUpdate_FallsThrough == Proceed("report")

AfterUpdate == Exit(0)

(* --update-baseline: write the fingerprints of what was found. *)
UpdateBaseline ==
  /\ stage = "baseline" /\ opts.update
  /\ IF opts.baseline
     THEN baseline' = Written(Prints(findings)) /\ recorded' = seen /\ AfterUpdate
     ELSE Exit(UsageError) /\ UNCHANGED <<baseline, recorded>>
  /\ UNCHANGED <<run, opts, result, todo, told, report>>

(* load_baseline: the fingerprints, or BaselineError. *)
Usable_ErrorAsEmpty(file) == TRUE

Usable(file) == file.state = "ok"

UseBaseline ==
  /\ stage = "baseline" /\ ~opts.update
  /\ IF opts.baseline => Usable(baseline)
     THEN /\ findings' = IF opts.baseline THEN NotIn(baseline.prints, findings) ELSE findings
          /\ Proceed("report")
     ELSE Exit(UsageError) /\ UNCHANGED findings
  /\ UNCHANGED <<run, opts, failed, seen, todo, told, files, recorded>>

FirstIn(order, set) == order[SelectInSeq(order, LAMBDA x : x \in set)]

(* _write_reports, one format at a time in the order of the code. *)
NextFormat == FirstIn(Formats, todo)

WriteReport ==
  /\ stage = "report" /\ todo # {}
  /\ report' = [report EXCEPT ![NextFormat] = run]
  /\ todo' = todo \ {NextFormat}
  /\ UNCHANGED <<run, stage, opts, result, told, exit, baseline, recorded>>

(* send_webhook, send_telegram and push_to_notion: one request each, whose   *)
(* errors are swallowed.                                                     *)
Unsent == opts.alerts \ DOMAIN told

SendAlert ==
  /\ stage = "alerts" /\ Unsent # {}
  /\ LET alert == FirstIn(Alerts, Unsent)
     IN  \E status \in {StatusOn(alert, findings), "lost"} :
           told' = [a \in DOMAIN told \cup {alert} |-> IF a = alert THEN status ELSE told[a]]
  /\ UNCHANGED <<run, stage, opts, result, todo, exit, files, recorded>>

(* _apply_gate. *)
Gate ==
  /\ stage = "alerts" /\ Unsent = {}
  /\ Exit(IF GateFails(findings, failed, opts.failOn, opts.failUnder) THEN GateFailed ELSE 0)
  /\ UNCHANGED <<run, opts, result, todo, told, files, recorded>>

-----------------------------------------------------------------------------
(* What a run that stops here leaves of the file it is writing. *)
Interrupted ==
  /\ baseline' \in IF stage = "baseline" /\ opts.update /\ opts.baseline
                   THEN {baseline, Torn} ELSE {baseline}
  /\ report' \in IF stage = "report" /\ todo # {}
                 THEN {report, [report EXCEPT ![NextFormat] = TornReport]}
                 ELSE {report}
  /\ UNCHANGED <<run, opts, result, todo, told, recorded>>

(* A check or a writer that raises, a full disk, a locked database. *)
Raise == stage # "idle" /\ Interrupted /\ Exit(ToolError)

(* The process is killed. *)
Kill == stage # "idle" /\ Interrupted /\ Exit(Killed)

-----------------------------------------------------------------------------
IsCommandLine(options) ==
  /\ options.failOn \subseteq ToSet(SeverityOrder) /\ options.failUnder \subseteq Int
  /\ options.formats \subseteq ToSet(Formats) /\ options.alerts \subseteq ToSet(Alerts)
  /\ options.baseline \in BOOLEAN /\ options.update \in BOOLEAN

CmdTypeOK ==
  /\ run \in 0..MaxRuns
  /\ IsCommandLine(opts)
  /\ findings \subseteq seen
  /\ todo \subseteq opts.formats /\ DOMAIN told \subseteq opts.alerts
  /\ \A alert \in DOMAIN told : told[alert] \in {"ok", "warn", "fail", "lost"}
  /\ exit \in {0, GateFailed, UsageError, ToolError, Killed, NotEnded}
  /\ baseline.state \in {"absent", "torn", "ok"}
  /\ report \in [ToSet(Formats) -> {TornReport} \cup 0..run]

(* The findings of the run are final and are being reported. *)
Reported == stage \in {"report", "alerts"} /\ ~opts.update

(* The run ended with a verdict on what it found. *)
Verdict == stage = "idle" /\ exit \in {0, GateFailed} /\ ~opts.update

Gated == GateIsSet(opts.failOn, opts.failUnder)

(* gating.py:12-14: exit code 1 is the gate's alone, so CI can tell "found a *)
(* leaked key" from "the scanner crashed".                                   *)
ExitOneMeansTripped ==
  stage = "idle" /\ exit = GateFailed =>
    Tripped(findings, opts.failOn, opts.failUnder) \/ (Gated /\ failed # {})

(* With --baseline no verdict rests on a file that is missing or torn.       *)
BrokenBaselineStops == Verdict /\ opts.baseline => baseline.state = "ok"

(* Every report the run was asked for is there, and none of them is an       *)
(* earlier run's or torn.                                                    *)
ReportsAreCurrent == \A f \in opts.formats : report[f] = run

Arrived == {alert \in DOMAIN told : told[alert] # "lost"}

(* A floor of `lowest` or worse, or a threshold of `most` or less, trips. *)
TrippedFrom(lowest, most) ==
  \/ \E floor \in opts.failOn :
       Rank(floor) >= Rank(lowest) /\ AtOrAbove(findings, floor) # {}
  \/ \E least \in opts.failUnder : least <= most /\ Score(findings) < least

(* The severities of the summary and of SARIF, the score behind the alerts   *)
(* and the gate are each judged by a table of their own, which agree so far: *)
(* what is high alarms on every channel, and what the summary calls ok is ok *)
(* everywhere; the summary never calls an incomplete scan ok, nor, like      *)
(* SARIF, what trips a gate other than a floor of info; and no alert says ok *)
(* of what trips a floor of medium or worse or a threshold of 90 or less.    *)
(* Beyond that an alert may say ok although the gate fails, as it sees the   *)
(* score alone: of a low finding, of a higher threshold, of failed targets.  *)
ChannelsAgree ==
  LET status == SummaryStatus(findings, failed)
      levels == SarifLevels(findings)
  IN  Arrived # {} \/ Verdict =>
        /\ AtOrAbove(findings, "high") # {} =>
             status = "fail" /\ "error" \in levels /\ \A alert \in Arrived : told[alert] = "fail"
        /\ failed # {} => status = "fail"
        /\ TrippedFrom("low", 100) => status # "ok" /\ levels \cap {"warning", "error"} # {}
        /\ TrippedFrom("medium", 90) => \A alert \in Arrived : told[alert] # "ok"
        /\ status = "ok" =>
             levels \subseteq {"note"} /\ \A alert \in Arrived : told[alert] = "ok"
=============================================================================
