---------------------------- MODULE FetchPromise ----------------------------
(***************************************************************************)
(* What run_scan (cli.py) relies on the fetcher for, without the mechanism: *)
(* two batches of requests, the plain fetches and then the Origin probes;  *)
(* every request ends exactly once, with an artifact or with a failure;    *)
(* a failed one never sinks its batch; and all that ever goes out is       *)
(* traffic the scope permits, for a bounded number of requests at a time.  *)
(***************************************************************************)
EXTENDS FiniteSets, Naturals

CONSTANTS Fetches,  \* plain fetches of the scan
          Probes,   \* CORS probes of the scan
          Scope,    \* the requests the configuration permits each of them
          Quiet,    \* no request is out
          Limit     \* how many requests may be out at once

Task == Fetches \cup Probes

VARIABLES outcome,  \* what fetch() returned for the task, "pending" before
          wire,     \* the request the task has out now
          phase     \* the batch being gathered

vars == <<outcome, wire, phase>>

PhaseOf(t) == IF t \in Fetches THEN "fetch" ELSE "probe"

NextPhase == [fetch |-> "probe", probe |-> "closed"]

Out == {t \in Task : wire[t] # Quiet}

Init ==
  /\ outcome = [t \in Task |-> "pending"]
  /\ wire = [t \in Task |-> Quiet]
  /\ phase = "fetch"

Working(t) == outcome[t] = "pending" /\ phase = PhaseOf(t)

(* A permitted request goes out, or the one that is out is answered. *)
Exchange(t) ==
  /\ Working(t)
  /\ \/ /\ wire[t] = Quiet
        /\ \E request \in Scope[t] : wire' = [wire EXCEPT ![t] = request]
        /\ Cardinality(Out') <= Limit
     \/ wire' = [wire EXCEPT ![t] = Quiet]
  /\ UNCHANGED <<outcome, phase>>

(* fetch() returns: an artifact only from a request that was answered. *)
Resolve(t) ==
  /\ Working(t)
  /\ \/ wire[t] # Quiet /\ outcome' = [outcome EXCEPT ![t] = "artifact"]
     \/ outcome' = [outcome EXCEPT ![t] = "failed"]
  /\ wire' = [wire EXCEPT ![t] = Quiet]
  /\ UNCHANGED phase

(* A batch is gathered only when all of it has ended. *)
Advance ==
  /\ phase # "closed"
  /\ \A t \in Task : PhaseOf(t) = phase => outcome[t] # "pending"
  /\ phase' = NextPhase[phase]
  /\ UNCHANGED <<outcome, wire>>

Next == Advance \/ \E t \in Task : Exchange(t) \/ Resolve(t)

(* The task is not for ever on the wire: its responses end, or are given up. *)
Ends(t) == []<>(wire[t] = Quiet)

(* As long as fewer responses are endless than may be out at once, every     *)
(* other request of the batch ends; and a batch that has ended is gathered.  *)
Fairness ==
  /\ WF_vars(Advance)
  /\ \A endless \in SUBSET Task :
       (Cardinality(endless) < Limit /\ \A t \in Task \ endless : Ends(t)) =>
         \A t \in Task \ endless : WF_vars(Resolve(t))

SafeSpec == Init /\ [][Next]_vars

Spec == SafeSpec /\ Fairness
=============================================================================
