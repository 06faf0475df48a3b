------------------------------ MODULE Scoring ------------------------------
(***************************************************************************)
(* Severities and what they cost: scoring.py, and the order gating.py puts *)
(* them in.                                                                 *)
(***************************************************************************)
EXTENDS Integers, FiniteSets

SeverityOrder == <<"info", "low", "medium", "high", "critical">>

Rank(severity) == CHOOSE i \in DOMAIN SeverityOrder : SeverityOrder[i] = severity

Penalty == [critical |-> 100, high |-> 40, medium |-> 15, low |-> 5, info |-> 0]

(* The penalties of all findings, from the severity of each. *)
Lost(severity) ==
  LET Cost(s) == Penalty[s] * Cardinality({f \in DOMAIN severity : severity[f] = s})
  IN  Cost("critical") + Cost("high") + Cost("medium") + Cost("low") + Cost("info")

(* calculate_score: one pool of 100 points, never below 0. *)
ScoreOf(severity) == IF Lost(severity) < 100 THEN 100 - Lost(severity) ELSE 0
=============================================================================
