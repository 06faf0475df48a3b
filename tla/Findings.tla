------------------------------ MODULE Findings ------------------------------
(***************************************************************************)
(* What both commands make of a set of findings: the pure parts of          *)
(* scoring.py, baseline.py and gating.py.                                   *)
(*                                                                          *)
(* A finding keeps what these decide on: its rule, the URL it was raised    *)
(* at (a path, for `audit`), its description and, for `audit`, its line.    *)
(* Every check raises a rule with one severity (SeverityOf).  A result is   *)
(* the set of its findings: sorting them is presentation.                   *)
(***************************************************************************)
EXTENDS Scoring, SequencesExt

CONSTANT SeverityOf  \* rule -> severity

ASSUME SeverityAssumption ==
  \A rule \in DOMAIN SeverityOf : SeverityOf[rule] \in ToSet(SeverityOrder)

Score(findings) == ScoreOf([f \in findings |-> SeverityOf[f.rule]])

Fingerprint_WithLine(f) == <<f.rule, f.url, f.text, f.line>>

(* The line drifts: it is not part of what baseline.py knows a finding by. *)
Fingerprint(f) == <<f.rule, f.url, f.text>>

Prints(findings) == {Fingerprint(f) : f \in findings}

(* apply_baseline; the score follows from what is left. *)
NotIn(known, findings) == {f \in findings : Fingerprint(f) \notin known}

AtOrAbove_Strict(findings, floor) ==
  {f \in findings : Rank(SeverityOf[f.rule]) > Rank(floor)}

AtOrAbove(findings, floor) ==
  {f \in findings : Rank(SeverityOf[f.rule]) >= Rank(floor)}

(* A gate option is the set of the value it was given, {} when it was not. *)
GateIsSet(failOn, failUnder) == failOn # {} \/ failUnder # {}

Tripped(findings, failOn, failUnder) ==
  \/ \E floor \in failOn : AtOrAbove(findings, floor) # {}
  \/ \E least \in failUnder : Score(findings) < least

(* gate_failure_reason is not None. *)
GateFails_FindingsOnly(findings, failed, failOn, failUnder) ==
  Tripped(findings, failOn, failUnder)

GateFails(findings, failed, failOn, failUnder) ==
  \/ Tripped(findings, failOn, failUnder)
  \/ GateIsSet(failOn, failUnder) /\ failed # {}
=============================================================================
