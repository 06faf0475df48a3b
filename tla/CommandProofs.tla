---------------------------- MODULE CommandProofs ----------------------------
(***************************************************************************)
(* Proofs about what `aegis scan` and `aegis audit` share, for any rules   *)
(* and severities, any command lines and any number of runs: what holds of *)
(* a run from the baseline to its exit code whatever its findings are, and *)
(* is kept by each action of Command.  ScanCommandProofs and               *)
(* AuditCommandProofs add how a run gets its findings.                     *)
(***************************************************************************)
EXTENDS Command, FiniteSetTheorems, WellFoundedInduction, TLAPS

(* The score can be counted and the gate can judge. *)
FindingsRated ==
  IsFiniteSet(findings) /\ \A f \in findings : f.rule \in DOMAIN SeverityOf

(* Before its first report a run has all of them to write; alerts are the    *)
(* last thing before the verdict; no run that updates the baseline gets to   *)
(* either.                                                                   *)
StagesInOrder ==
  /\ stage # "idle" => run # 0
  /\ stage \in {"report", "alerts"} => ~opts.update
  /\ stage \notin {"idle", "report", "alerts"} => todo = opts.formats
  /\ told # <<>> => stage \in {"alerts", "idle"}

(* The reports written so far are this run's, and all are before an alert or *)
(* a verdict.                                                                *)
ReportsInOrder ==
  /\ stage = "report" => \A f \in opts.formats \ todo : report[f] = run
  /\ stage = "alerts" \/ Verdict \/ told # <<>> => ReportsAreCurrent

ToldStatus ==
  \A alert \in DOMAIN told : told[alert] \in {StatusOn(alert, findings), "lost"}

(* What is reported under --baseline is not in a baseline that could be read. *)
BaselineApplied ==
  (Reported \/ Verdict) /\ opts.baseline =>
    baseline.state = "ok" /\ \A f \in findings : Fingerprint(f) \notin baseline.prints

(* The exit code is the gate's verdict. *)
CodeIsVerdict ==
  LET fails == GateFails(findings, failed, opts.failOn, opts.failUnder)
  IN  /\ stage = "idle" /\ exit = GateFailed => fails
      /\ Verdict /\ exit = 0 => ~fails

CmdInv ==
  /\ CmdTypeOK /\ FindingsRated /\ StagesInOrder /\ ReportsInOrder
  /\ ToldStatus /\ BaselineApplied /\ CodeIsVerdict

-----------------------------------------------------------------------------
(* A set of naturals that is not empty has a least element.                 *)
LEMMA Least ==
  ASSUME NEW T \in SUBSET Nat, T # {}
  PROVE  \E m \in T : \A k \in T : m <= k
<1> DEFINE R == {p \in Nat \X Nat : p[1] < p[2]}
<1>1. IsWellFoundedOn(R, Nat)
  BY NatLessThanWellFounded DEF OpToRel
<1> HIDE DEF R
<1>2. PICK m \in T : \A k \in T : <<k, m>> \notin R
  BY <1>1, WFMin
<1>3. \A k \in T : <<k, m>> \notin R => m <= k
  BY DEF R
<1> QED BY <1>2, <1>3

(* The next format or alert is one of those that are left.                  *)
LEMMA FirstInSet ==
  ASSUME NEW order, DOMAIN order = 1..Len(order), NEW set, set \cap ToSet(order) # {}
  PROVE  FirstIn(order, set) \in set \cap ToSet(order)
<1> DEFINE I == {i \in 1..Len(order) : order[i] \in set}
<1>1. I # {} /\ I \subseteq Nat
  BY DEF ToSet
<1>2. PICK m \in I : \A k \in I : m <= k
  BY <1>1, Least
<1>3. Min(I) \in I
  BY <1>2 DEF Min
<1>4. FirstIn(order, set) = order[Min(I)]
  BY <1>1 DEF FirstIn, SelectInSeq
<1> HIDE DEF I
<1>5. Min(I) \in 1..Len(order) /\ order[Min(I)] \in set
  BY <1>3 DEF I
<1> QED BY <1>4, <1>5 DEF ToSet

-----------------------------------------------------------------------------
(* The order of severities.                                                  *)
LEMMA Ranks ==
  /\ Rank("info") = 1 /\ Rank("low") = 2 /\ Rank("medium") = 3
  /\ Rank("high") = 4 /\ Rank("critical") = 5
  /\ ToSet(SeverityOrder) = {"info", "low", "medium", "high", "critical"}
<1>1. DOMAIN SeverityOrder = 1..5
  BY DEF SeverityOrder
<1>2. /\ SeverityOrder[1] = "info" /\ SeverityOrder[2] = "low" /\ SeverityOrder[3] = "medium"
      /\ SeverityOrder[4] = "high" /\ SeverityOrder[5] = "critical"
  BY DEF SeverityOrder
<1>3. \A i \in 1..5 : Rank(SeverityOrder[i]) = i
  BY <1>1, <1>2 DEF Rank
<1>4. ToSet(SeverityOrder) = {SeverityOrder[i] : i \in 1..5}
  BY <1>1 DEF ToSet
<1> QED BY <1>2, <1>3, <1>4

(* A finding costs at least its penalty, and what only has findings that are *)
(* observations costs nothing.                                               *)
LEMMA PenaltyCounts ==
  ASSUME NEW severity, IsFiniteSet(DOMAIN severity)
  PROVE  /\ Lost(severity) \in Nat
         /\ \A f \in DOMAIN severity : severity[f] \in ToSet(SeverityOrder) =>
              Lost(severity) >= Penalty[severity[f]]
         /\ (\A f \in DOMAIN severity : severity[f] = "info") => Lost(severity) = 0
<1> DEFINE With(s) == {f \in DOMAIN severity : severity[f] = s}
           n(s) == Cardinality(With(s))
<1>1. ASSUME NEW s PROVE IsFiniteSet(With(s)) /\ n(s) \in Nat
  BY FS_Subset, FS_CardinalityType
<1>2. ASSUME NEW s, NEW f \in With(s) PROVE n(s) >= 1
  BY <1>1, <1>2, FS_EmptySet
<1>3. ASSUME NEW s, With(s) = {} PROVE n(s) = 0
  BY <1>3, FS_EmptySet
<1>4. Lost(severity) = 100 * n("critical") + 40 * n("high") + 15 * n("medium")
                         + 5 * n("low") + 0 * n("info")
  BY DEF Lost, Penalty
<1>8. /\ n("critical") \in Nat /\ n("high") \in Nat /\ n("medium") \in Nat
      /\ n("low") \in Nat /\ n("info") \in Nat
  BY <1>1
<1> HIDE DEF n
<1>5. Lost(severity) \in Nat
  BY <1>8, <1>4
<1>6. ASSUME NEW f \in DOMAIN severity, severity[f] \in ToSet(SeverityOrder)
      PROVE  Lost(severity) >= Penalty[severity[f]]
  <2>1. n(severity[f]) >= 1
    BY <1>2
  <2>2. severity[f] \in {"info", "low", "medium", "high", "critical"}
    BY <1>6, Ranks
  <2>4. CASE severity[f] = "critical"  BY <2>1, <1>8, <2>4, <1>4 DEF Penalty
  <2>5. CASE severity[f] = "high"  BY <2>1, <1>8, <2>5, <1>4 DEF Penalty
  <2>6. CASE severity[f] = "medium"  BY <2>1, <1>8, <2>6, <1>4 DEF Penalty
  <2>7. CASE severity[f] = "low"  BY <2>1, <1>8, <2>7, <1>4 DEF Penalty
  <2>8. CASE severity[f] = "info"  BY <2>1, <1>8, <2>8, <1>4 DEF Penalty
  <2> QED BY <2>2, <2>4, <2>5, <2>6, <2>7, <2>8
<1>7. ASSUME \A f \in DOMAIN severity : severity[f] = "info" PROVE Lost(severity) = 0
  <2>1. With("critical") = {} /\ With("high") = {} /\ With("medium") = {} /\ With("low") = {}
    BY <1>7
  <2>2. n("critical") = 0 /\ n("high") = 0 /\ n("medium") = 0 /\ n("low") = 0
    BY <2>1, <1>3
  <2> QED BY <2>2, <1>8, <1>4
<1> QED BY <1>5, <1>6, <1>7

(* What the score of findings says of the worst of them.                     *)
LEMMA ScoreOfFindings ==
  ASSUME FindingsRated
  PROVE  /\ Score(findings) \in 0..100
         /\ AtOrAbove(findings, "medium") # {} => Score(findings) <= 85
         /\ AtOrAbove(findings, "high") # {} => Score(findings) <= 60
         /\ Severities(findings) \subseteq {"info"} => Score(findings) = 100
<1> DEFINE severity == [f \in findings |-> SeverityOf[f.rule]]
<1>1. IsFiniteSet(DOMAIN severity)
  BY DEF FindingsRated
<1>2. \A f \in findings : severity[f] \in ToSet(SeverityOrder)
  BY SeverityAssumption DEF FindingsRated
<1>3. Score(findings) = IF Lost(severity) < 100 THEN 100 - Lost(severity) ELSE 0
  BY DEF Score, ScoreOf
<1>4. /\ Lost(severity) \in Nat
      /\ \A f \in findings : Lost(severity) >= Penalty[severity[f]]
      /\ (\A f \in findings : severity[f] = "info") => Lost(severity) = 0
  BY <1>1, <1>2, PenaltyCounts
<1>5. ASSUME NEW f \in findings
      PROVE  /\ Rank(severity[f]) >= Rank("medium") => Penalty[severity[f]] >= 15
             /\ Rank(severity[f]) >= Rank("high") => Penalty[severity[f]] >= 40
  BY <1>2, Ranks DEF Penalty
<1>6. \A f \in findings : severity[f] = SeverityOf[f.rule]
  OBVIOUS
<1>9. \A f \in findings : Penalty[severity[f]] \in Nat
  BY <1>2, Ranks DEF Penalty
<1> HIDE DEF severity
<1>7. ASSUME AtOrAbove(findings, "medium") # {} PROVE Score(findings) <= 85
  BY <1>7, <1>3, <1>4, <1>5, <1>6, <1>9 DEF AtOrAbove
<1>8. ASSUME AtOrAbove(findings, "high") # {} PROVE Score(findings) <= 60
  BY <1>8, <1>3, <1>4, <1>5, <1>6, <1>9 DEF AtOrAbove
<1>10. ASSUME Severities(findings) \subseteq {"info"} PROVE Score(findings) = 100
  BY <1>10, <1>3, <1>4, <1>6 DEF Severities
<1> QED BY <1>3, <1>4, <1>7, <1>8, <1>10

-----------------------------------------------------------------------------
(* The command line is read and nothing is written. *)
LEMMA CmdInitKeeps ==
  ASSUME CmdInit PROVE CmdInv
<1> USE DEF CmdInit, Reporting
<1>1. CmdTypeOK
  BY MaxRunsAssumption, Ranks
     DEF CmdTypeOK, IsCommandLine, Absent, NotEnded, GateFailed, UsageError, ToolError, Killed
<1>2. FindingsRated
  BY FS_EmptySet DEF FindingsRated
<1>3. StagesInOrder /\ ToldStatus /\ ReportsInOrder
  BY DEF StagesInOrder, ToldStatus, ReportsInOrder, Verdict, ReportsAreCurrent, NotEnded, GateFailed
<1>4. BaselineApplied /\ CodeIsVerdict
  BY DEF BaselineApplied, CodeIsVerdict, Reported, Verdict, NotEnded, GateFailed
<1> QED BY <1>1, <1>2, <1>3, <1>4 DEF CmdInv

(* A run starts with no findings and no alerts, and reports nothing yet.     *)
LEMMA CmdStartKeeps ==
  ASSUME CmdInv, NEW options, NEW objecting, NEW first,
         CmdStart(options, objecting, first),
         \A o \in options : IsCommandLine(o), first \notin {"idle", "report", "alerts"}
  PROVE  CmdInv'
<1> USE DEF CmdInv, CmdStart, Exit, files
<1>1. stage' \in {first, "idle"} /\ exit' \in {NotEnded, UsageError} /\ IsCommandLine(opts)'
  BY DEF IsCommandLine
<1>2. CmdTypeOK'
  <2>1. run' \in 0..MaxRuns /\ {TornReport} \cup 0..run \subseteq {TornReport} \cup 0..run'
    BY MaxRunsAssumption DEF CmdTypeOK
  <2>2. report' \in [ToSet(Formats) -> {TornReport} \cup 0..run']
    BY <2>1 DEF CmdTypeOK
  <2> QED BY <1>1, <2>1, <2>2 DEF CmdTypeOK
<1>3. FindingsRated'
  BY FS_EmptySet DEF FindingsRated
<1>4. StagesInOrder' /\ ToldStatus' /\ ReportsInOrder'
  BY <1>1 DEF CmdTypeOK, StagesInOrder, ToldStatus, ReportsInOrder, Verdict, NotEnded, UsageError, GateFailed
<1>5. BaselineApplied' /\ CodeIsVerdict'
  BY <1>1 DEF BaselineApplied, CodeIsVerdict, Reported, Verdict, NotEnded, UsageError, GateFailed
<1> QED BY <1>1, <1>2, <1>3, <1>4, <1>5

(* The steps of a run before it reports: it may find anything that can be    *)
(* rated, or stop at a usage error.                                          *)
LEMMA EarlyKeeps ==
  ASSUME CmdInv, stage \notin {"idle", "report", "alerts"}, stage' \notin {"report", "alerts"},
         exit' = IF stage' = "idle" THEN UsageError ELSE exit,
         IsCommandLine(opts)', opts'.formats = opts.formats, opts'.alerts = opts.alerts,
         FindingsRated', (findings \subseteq seen)',
         UNCHANGED <<run, todo, told, files>>
  PROVE  CmdInv'
<1> USE DEF CmdInv, files
<1>1. CmdTypeOK'
  BY DEF CmdTypeOK, UsageError
<1>2. told = <<>>
  BY DEF StagesInOrder
<1>3. StagesInOrder' /\ ToldStatus' /\ ReportsInOrder'
  BY <1>2 DEF StagesInOrder, ToldStatus, ReportsInOrder, Verdict, UsageError, GateFailed
<1>4. BaselineApplied' /\ CodeIsVerdict'
  BY DEF BaselineApplied, CodeIsVerdict, Reported, Verdict, UsageError, GateFailed
<1> QED BY <1>1, <1>3, <1>4

(* --update-baseline ends the command before any report. *)
LEMMA UpdateBaselineKeeps ==
  ASSUME CmdInv, UpdateBaseline PROVE CmdInv'
<1> USE DEF CmdInv, UpdateBaseline, AfterUpdate, Exit, result
<1>1. stage' = "idle" /\ exit' \in {0, UsageError} /\ told = <<>> /\ opts.update
  BY DEF StagesInOrder
<1>6. baseline'.state \in {"absent", "torn", "ok"}
  BY DEF CmdTypeOK, Written
<1>2. CmdTypeOK'
  BY <1>1, <1>6 DEF CmdTypeOK, IsCommandLine
<1>3. FindingsRated'
  BY DEF FindingsRated
<1>4. StagesInOrder' /\ ToldStatus' /\ ReportsInOrder'
  BY <1>1 DEF StagesInOrder, ToldStatus, ReportsInOrder, Verdict
<1>5. BaselineApplied' /\ CodeIsVerdict'
  BY <1>1 DEF BaselineApplied, CodeIsVerdict, Reported, Verdict, UsageError, GateFailed
<1> QED BY <1>2, <1>3, <1>4, <1>5

(* A baseline that cannot be read ends it with the code for that. *)
LEMMA UseBaselineKeeps ==
  ASSUME CmdInv, UseBaseline PROVE CmdInv'
<1> USE DEF CmdInv, UseBaseline, Exit, Proceed, files
<1>1. findings' \subseteq findings /\ told = <<>>
  BY DEF NotIn, StagesInOrder
<1>2. CmdTypeOK'
  BY <1>1 DEF CmdTypeOK, IsCommandLine
<1>3. FindingsRated'
  BY <1>1, FS_Subset DEF FindingsRated
<1>4. StagesInOrder' /\ ToldStatus'
  BY <1>1 DEF StagesInOrder, ToldStatus
<1>5. CASE opts.baseline => Usable(baseline)
  <2>1. stage' = "report" /\ exit' = exit
    BY <1>5
  <2>2. ReportsInOrder' /\ CodeIsVerdict'
    BY <2>1, <1>1 DEF StagesInOrder, ReportsInOrder, CodeIsVerdict, Verdict
  <2>3. BaselineApplied'
    BY <2>1, <1>5 DEF BaselineApplied, Usable, NotIn
  <2> QED BY <1>2, <1>3, <1>4, <2>2, <2>3
<1>6. CASE ~(opts.baseline => Usable(baseline))
  <2>1. stage' = "idle" /\ exit' = UsageError
    BY <1>6
  <2> QED BY <2>1, <1>1, <1>2, <1>3, <1>4
          DEF ReportsInOrder, CodeIsVerdict, BaselineApplied, Reported, Verdict, UsageError, GateFailed
<1> QED BY <1>5, <1>6

(* What is written next is a format asked for and not yet written. *)
LEMMA NextFormatIsLeft ==
  ASSUME CmdTypeOK, todo # {} PROVE NextFormat \in todo /\ NextFormat \in ToSet(Formats)
<1>1. DOMAIN Formats = 1..Len(Formats)
  BY DEF Formats
<1>2. todo \cap ToSet(Formats) # {}
  BY DEF CmdTypeOK, IsCommandLine
<1> QED BY <1>1, <1>2, FirstInSet DEF NextFormat

(* A report is of this run, or torn, and none is skipped. *)
LEMMA WriteReportKeeps ==
  ASSUME CmdInv, WriteReport PROVE CmdInv'
<1> USE DEF CmdInv, WriteReport, result
<1>1. NextFormat \in todo /\ NextFormat \in ToSet(Formats)
  BY NextFormatIsLeft
<1>2. run \in {TornReport} \cup 0..run
  BY MaxRunsAssumption DEF CmdTypeOK
<1>3. CmdTypeOK'
  BY <1>1, <1>2 DEF CmdTypeOK, IsCommandLine
<1>4. \A f \in opts.formats \ todo' : report'[f] = run
  BY <1>1 DEF CmdTypeOK, IsCommandLine, ReportsInOrder
<1>5. told = <<>>
  BY DEF StagesInOrder
<1>6. ReportsInOrder'
  BY <1>4, <1>5 DEF ReportsInOrder, Verdict
<1>7. FindingsRated' /\ StagesInOrder' /\ ToldStatus'
  BY DEF FindingsRated, StagesInOrder, ToldStatus
<1>8. BaselineApplied' /\ CodeIsVerdict'
  BY DEF BaselineApplied, CodeIsVerdict, Reported, Verdict
<1> QED BY <1>3, <1>6, <1>7, <1>8

(* Once the reports are written: the history of a scan, nothing in an audit. *)
LEMMA ReportsEnd ==
  ASSUME CmdInv, stage = "report", todo = {}, Proceed("alerts"),
         UNCHANGED <<run, opts, result, todo, told, files, recorded>>
  PROVE  CmdInv'
<1> USE DEF CmdInv, Proceed, result, files
<1>1. ReportsAreCurrent'
  BY DEF ReportsInOrder, ReportsAreCurrent
<1>2. CmdTypeOK' /\ FindingsRated' /\ ToldStatus'
  BY DEF CmdTypeOK, IsCommandLine, FindingsRated, ToldStatus
<1>3. StagesInOrder' /\ ReportsInOrder'
  BY <1>1 DEF StagesInOrder, ReportsInOrder
<1>4. BaselineApplied' /\ CodeIsVerdict'
  BY DEF BaselineApplied, CodeIsVerdict, Reported, Verdict
<1> QED BY <1>2, <1>3, <1>4

(* A channel is told of the findings that the reports hold. *)
LEMMA SendAlertKeeps ==
  ASSUME CmdInv, SendAlert PROVE CmdInv'
<1> USE DEF CmdInv, SendAlert, result, files
<1> DEFINE alert == FirstIn(Alerts, Unsent)
<1>1. PICK status \in {StatusOn(alert, findings), "lost"} :
        told' = [a \in DOMAIN told \cup {alert} |-> IF a = alert THEN status ELSE told[a]]
  OBVIOUS
<1>2. alert \in opts.alerts
  <2>1. DOMAIN Alerts = 1..Len(Alerts)
    BY DEF Alerts
  <2>2. Unsent \cap ToSet(Alerts) # {}
    BY DEF CmdTypeOK, IsCommandLine, Unsent
  <2>3. alert \in Unsent
    BY <2>1, <2>2, FirstInSet
  <2> QED BY <2>3 DEF Unsent
<1> HIDE DEF alert
<1>3. DOMAIN told' = DOMAIN told \cup {alert}
      /\ \A a \in DOMAIN told' : told'[a] = IF a = alert THEN status ELSE told[a]
  BY <1>1
<1>4. StatusOn(alert, findings) \in {"ok", "warn", "fail"}
  BY ScoreOfFindings DEF StatusOn, StatusOfScore
<1>5. CmdTypeOK'
  BY <1>1, <1>2, <1>3, <1>4 DEF CmdTypeOK, IsCommandLine
<1>6. ToldStatus'
  BY <1>1, <1>3 DEF ToldStatus
<1>7. FindingsRated' /\ StagesInOrder' /\ ReportsInOrder'
  BY DEF FindingsRated, StagesInOrder, ReportsInOrder, Verdict, ReportsAreCurrent
<1>8. BaselineApplied' /\ CodeIsVerdict'
  BY DEF BaselineApplied, CodeIsVerdict, Reported, Verdict
<1> QED BY <1>5, <1>6, <1>7, <1>8

(* The gate sees the findings that the reports hold. *)
LEMMA GateKeeps ==
  ASSUME CmdInv, Gate PROVE CmdInv'
<1> USE DEF CmdInv, Gate, Exit, result, files
<1>1. stage' = "idle" /\ exit' \in {0, GateFailed} /\ ~opts.update
  BY DEF StagesInOrder
<1>2. CmdTypeOK' /\ FindingsRated' /\ StagesInOrder' /\ ToldStatus'
  BY <1>1 DEF CmdTypeOK, IsCommandLine, FindingsRated, StagesInOrder, ToldStatus
<1>3. ReportsInOrder'
  BY <1>1 DEF ReportsInOrder, ReportsAreCurrent
<1>4. BaselineApplied'
  BY <1>1 DEF BaselineApplied, Reported
<1>5. CodeIsVerdict'
  BY <1>1 DEF CodeIsVerdict, GateFailed
<1> QED BY <1>2, <1>3, <1>4, <1>5

(* A run that stops half-way tears at most the file it was writing, which is *)
(* none once an alert has been sent.                                         *)
LEMMA StopKeeps ==
  ASSUME CmdInv, stage # "idle", Interrupted, Exit(ToolError) \/ Exit(Killed)
  PROVE  CmdInv'
<1> USE DEF CmdInv, Interrupted, Exit, result
<1>1. stage' = "idle" /\ exit' \in {ToolError, Killed}
  OBVIOUS
<1>2. report' \in [ToSet(Formats) -> {TornReport} \cup 0..run]
  BY NextFormatIsLeft DEF CmdTypeOK
<1>3. baseline'.state \in {"absent", "torn", "ok"}
  BY DEF CmdTypeOK, Torn
<1>4. CmdTypeOK'
  BY <1>1, <1>2, <1>3 DEF CmdTypeOK, IsCommandLine
<1>5. FindingsRated' /\ StagesInOrder' /\ ToldStatus'
  BY <1>1 DEF FindingsRated, StagesInOrder, ToldStatus
<1>6. ReportsInOrder'
  BY <1>1 DEF ReportsInOrder, ReportsAreCurrent, StagesInOrder, Verdict, ToolError, Killed, GateFailed
<1>7. BaselineApplied' /\ CodeIsVerdict'
  BY <1>1 DEF BaselineApplied, CodeIsVerdict, Reported, Verdict, ToolError, Killed, GateFailed
<1> QED BY <1>4, <1>5, <1>6, <1>7

(* The actions that the commands share, as their next-state relations have   *)
(* them.                                                                     *)
LEMMA SharedKeeps ==
  ASSUME CmdInv,
         UpdateBaseline \/ UseBaseline \/ WriteReport \/ SendAlert \/ Gate \/ Raise \/ Kill
  PROVE  CmdInv'
BY UpdateBaselineKeeps, UseBaselineKeeps, WriteReportKeeps, SendAlertKeeps, GateKeeps, StopKeeps
   DEF Raise, Kill

(* The invariant is one of the state alone. *)
LEMMA CmdStutterKeeps ==
  ASSUME CmdInv, UNCHANGED cmdVars PROVE CmdInv'
BY DEF CmdInv, cmdVars, result, files, CmdTypeOK, IsCommandLine, FindingsRated, StagesInOrder,
       ReportsInOrder, ToldStatus, BaselineApplied, CodeIsVerdict, Reported, Verdict,
       ReportsAreCurrent

-----------------------------------------------------------------------------
(* Exit code 1 is the gate's.                                                *)
LEMMA CodeOneIsGate == CmdInv => ExitOneMeansTripped
BY DEF CmdInv, CodeIsVerdict, ExitOneMeansTripped, GateFails, Gated

(* A command whose baseline is broken has stopped with the code for it. *)
LEMMA BrokenStops == CmdInv => BrokenBaselineStops
BY DEF CmdInv, BaselineApplied, BrokenBaselineStops

(* The tables agree because a finding at a rank costs at least its penalty,  *)
(* and a score below 100 has a finding that costs something.                 *)
LEMMA ChannelsDo == CmdInv => ChannelsAgree
<1> SUFFICES ASSUME CmdInv PROVE ChannelsAgree
  OBVIOUS
<1> USE DEF CmdInv
<1>1. /\ Score(findings) \in 0..100
      /\ AtOrAbove(findings, "medium") # {} => Score(findings) <= 85
      /\ AtOrAbove(findings, "high") # {} => Score(findings) <= 60
      /\ Severities(findings) \subseteq {"info"} => Score(findings) = 100
  BY ScoreOfFindings
<1>2. \A alert \in Arrived : told[alert] = StatusOn(alert, findings)
  BY DEF Arrived, ToldStatus
<1>3. Severities(findings) \subseteq {"info", "low", "medium", "high", "critical"}
  BY Ranks, SeverityAssumption DEF Severities, FindingsRated
<1>4. ASSUME AtOrAbove(findings, "high") # {}
      PROVE  /\ SummaryStatus(findings, failed) = "fail" /\ "error" \in SarifLevels(findings)
             /\ \A alert \in Arrived : told[alert] = "fail"
  <2>1. Severities(findings) \cap {"high", "critical"} # {}
    BY <1>4, <1>3, Ranks DEF AtOrAbove, Severities
  <2>2. "error" \in SarifLevels(findings)
    BY <2>1 DEF SarifLevels, LevelBySeverity
  <2>3. SummaryStatus(findings, failed) = "fail"
    BY <2>1 DEF SummaryStatus
  <2> QED BY <2>2, <2>3, <1>1, <1>2, <1>4 DEF StatusOn, StatusOfScore
<1>5. ASSUME NEW floor \in opts.failOn, AtOrAbove(findings, floor) # {}
      PROVE  /\ Rank(floor) >= Rank("low") => ~(Severities(findings) \subseteq {"info"})
             /\ Rank(floor) >= Rank("medium") => AtOrAbove(findings, "medium") # {}
  <2>1. floor \in {"info", "low", "medium", "high", "critical"}
    BY <1>5, Ranks DEF CmdTypeOK, IsCommandLine
  <2>2. PICK severity \in Severities(findings) : Rank(severity) >= Rank(floor)
    BY <1>5 DEF AtOrAbove, Severities
  <2>3. severity \in {"info", "low", "medium", "high", "critical"}
    BY <2>2, <1>3
  <2>4. Rank(floor) >= Rank("low") => severity # "info"
    BY <2>1, <2>2, <2>3, Ranks
  <2>5. Rank(floor) >= Rank("medium") => Rank(severity) >= Rank("medium")
    BY <2>1, <2>2, <2>3, Ranks
  <2> QED BY <2>2, <2>4, <2>5 DEF AtOrAbove, Severities
<1>7. ASSUME ~(Severities(findings) \subseteq {"info"})
      PROVE  /\ SummaryStatus(findings, failed) # "ok"
             /\ SarifLevels(findings) \cap {"warning", "error"} # {}
  <2>1. PICK severity \in Severities(findings) : severity # "info"
    BY <1>7
  <2>2. LevelBySeverity[severity] \in {"warning", "error"}
    BY <2>1, <1>3 DEF LevelBySeverity
  <2>3. LevelBySeverity[severity] \in SarifLevels(findings)
    BY DEF SarifLevels
  <2>4. SummaryStatus(findings, failed) # "ok"
    BY <1>7 DEF SummaryStatus
  <2> QED BY <2>2, <2>3, <2>4
<1>8. ASSUME TrippedFrom("low", 100)
      PROVE  ~(Severities(findings) \subseteq {"info"})
  <2>1. \A least \in opts.failUnder : least \in Int
    BY DEF CmdTypeOK, IsCommandLine
  <2> QED BY <1>1, <1>5, <1>8, <2>1 DEF TrippedFrom
<1>9. ASSUME TrippedFrom("medium", 90), NEW alert \in Arrived
      PROVE  told[alert] # "ok"
  <2>1. \A least \in opts.failUnder : least \in Int
    BY DEF CmdTypeOK, IsCommandLine
  <2>2. Score(findings) < 90
    BY <1>1, <1>5, <1>9, <2>1 DEF TrippedFrom
  <2> QED BY <2>2, <1>1, <1>2 DEF StatusOn, StatusOfScore
<1>10. ASSUME failed # {} PROVE SummaryStatus(findings, failed) = "fail"
  BY <1>10 DEF SummaryStatus
<1>6. ASSUME SummaryStatus(findings, failed) = "ok"
      PROVE  /\ SarifLevels(findings) \subseteq {"note"}
             /\ \A alert \in Arrived : told[alert] = "ok"
  <2>1. Severities(findings) \subseteq {"info"}
    BY <1>6 DEF SummaryStatus
  <2>2. SarifLevels(findings) \subseteq {"note"}
    BY <2>1 DEF SarifLevels, LevelBySeverity
  <2> QED BY <2>1, <2>2, <1>1, <1>2 DEF StatusOn, StatusOfScore
<1> QED BY <1>4, <1>6, <1>7, <1>8, <1>9, <1>10 DEF ChannelsAgree
=============================================================================
