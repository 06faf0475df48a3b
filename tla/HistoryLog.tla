----------------------------- MODULE HistoryLog -----------------------------
(***************************************************************************)
(* What the scan history promises the runs that share it (history.py): a   *)
(* log to which each scan adds itself at most once, whole or not at all,   *)
(* and of which an HTML report shows the newest entries of one moment.     *)
(***************************************************************************)
EXTENDS Integers, Sequences

CONSTANTS
  Runs,       \* runs of the tool, each a process of its own
  Audits,     \* those of them that are audits, which the history leaves out
  TargetsOf,  \* run -> the set of its targets
  Limit       \* get_history(limit)

VARIABLES
  log,     \* the scans recorded, in the order of their ids
  shown,   \* per run, the entries its report shows
  outcome  \* per run: "running", "ok" or "failed"

vars == <<log, shown, outcome>>

Entry(id) == [id |-> id, targets |-> TargetsOf[log[id]]]

Newest == {Entry(id) : id \in {i \in DOMAIN log : i > Len(log) - Limit}}

Recorded(r) == \E id \in DOMAIN log : log[id] = r

Init ==
  /\ log = <<>>
  /\ shown = [r \in Runs |-> {}]
  /\ outcome = [r \in Runs |-> "running"]

Show(r) ==
  /\ outcome[r] = "running" /\ ~Recorded(r)
  /\ shown' = [shown EXCEPT ![r] = Newest]
  /\ UNCHANGED <<log, outcome>>

Record(r) ==
  /\ outcome[r] = "running" /\ ~Recorded(r) /\ r \notin Audits
  /\ log' = Append(log, r)
  /\ UNCHANGED <<shown, outcome>>

Finish(r) ==
  /\ outcome[r] = "running" /\ (Recorded(r) \/ r \in Audits)
  /\ outcome' = [outcome EXCEPT ![r] = "ok"]
  /\ UNCHANGED <<log, shown>>

(* An exception or a kill, at any time: what is recorded stays. *)
Fail(r) ==
  /\ outcome[r] = "running"
  /\ outcome' = [outcome EXCEPT ![r] = "failed"]
  /\ UNCHANGED <<log, shown>>

Next == \E r \in Runs : Show(r) \/ Record(r) \/ Finish(r) \/ Fail(r)

Spec == Init /\ [][Next]_vars
=============================================================================
