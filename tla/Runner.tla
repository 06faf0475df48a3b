------------------------------- MODULE Runner -------------------------------
(***************************************************************************)
(* runner.py: the checks of one scan, one artifact per worker of a thread  *)
(* pool.  All artifacts are submitted at once; a worker runs the check     *)
(* modules of its artifact one after the other; the main thread collects   *)
(* the results in the order of the artifacts, or passes the exception of a *)
(* check on, and leaves the pool only when every worker is done.           *)
(*                                                                          *)
(* Which worker has an artifact makes no difference, so the pool is a bound *)
(* on the artifacts being checked.  One artifact alone is checked by the    *)
(* main thread, which is a pool of one.                                     *)
(***************************************************************************)
EXTENDS Integers, FiniteSets, SequencesExt

CONSTANTS
  Scans,        \* scans: for each artifact, what each of its check modules does
  Results,      \* what a check may do: return a sequence of findings, or Raises
  Raises,       \* a check that ends in an exception
  Limits,       \* values of limits.max_concurrency
  IssueOf(_),   \* finding -> the issue dedupe_findings takes it for
  Before(_, _)  \* the order of _sort_key on findings

ASSUME ScansAssumption ==
  \A scan \in Scans : scan \in Seq(Seq(Results)) /\ scan # <<>>

ASSUME LimitsAssumption == Limits \subseteq Int

Finding == UNION {ToSet(result) : result \in Results \ {Raises}}

ASSUME ResultsAssumption == \A result \in Results \ {Raises} : result \in Seq(Finding)

(* _sort_key is a tuple: findings are ordered but for those with equal keys. *)
ASSUME OrderAssumption ==
  \A f, g, h \in Finding :
    /\ Before(f, g) => ~Before(g, f)
    /\ Before(f, h) => Before(f, g) \/ Before(g, h)

VARIABLES
  modules,         \* the scan
  maxConcurrency,  \* its limits.max_concurrency
  queue,           \* artifacts no worker has taken
  running,         \* artifacts being checked
  place,           \* per artifact, the check module it is at
  gathered,        \* per artifact, its findings so far
  outcome,         \* per artifact, its future: "pending", "finished" or "raised"
  found,           \* all_findings of run_checks
  awaited,         \* the artifact whose result the main thread waits for
  status           \* "collecting", "unwinding", "returned" or "raised"

given == <<modules, maxConcurrency>>
checks == <<running, place, gathered, outcome>>
vars == <<given, queue, checks, found, awaited, status>>

Artifact == DOMAIN modules

WorkerCount_NoFloor ==
  IF maxConcurrency < Len(modules) THEN maxConcurrency ELSE Len(modules)

(* min(max(1, limits.max_concurrency), len(artifacts)) *)
WorkerCount ==
  LET wanted == IF maxConcurrency > 1 THEN maxConcurrency ELSE 1
  IN  IF wanted < Len(modules) THEN wanted ELSE Len(modules)

Init ==
  /\ modules \in Scans /\ maxConcurrency \in Limits
  /\ queue = [i \in Artifact |-> i]
  /\ running = {}
  /\ place = [i \in Artifact |-> 1]
  /\ gathered = [i \in Artifact |-> <<>>]
  /\ outcome = [i \in Artifact |-> "pending"]
  /\ found = <<>> /\ awaited = 1 /\ status = "collecting"

-----------------------------------------------------------------------------
Rest_Peeked == queue

Rest == Tail(queue)

Take ==
  /\ queue # <<>> /\ Cardinality(running) < WorkerCount
  /\ running' = running \cup {Head(queue)}
  /\ queue' = Rest
  /\ UNCHANGED <<given, place, gathered, outcome, found, awaited, status>>

(* _check_artifact: the next of its modules, whose findings it adds. *)
RunCheck(i) ==
  /\ i \in running /\ place[i] <= Len(modules[i])
  /\ modules[i][place[i]] # Raises
  /\ gathered' = [gathered EXCEPT ![i] = @ \o modules[i][place[i]]]
  /\ place' = [place EXCEPT ![i] = @ + 1]
  /\ UNCHANGED <<given, queue, running, outcome, found, awaited, status>>

EndJob(i, state) ==
  /\ outcome' = [outcome EXCEPT ![i] = state]
  /\ running' = running \ {i}
  /\ UNCHANGED <<given, queue, place, gathered, found, awaited, status>>

Finish(i) ==
  /\ i \in running /\ place[i] > Len(modules[i])
  /\ EndJob(i, "finished")

Failure_Swallowed == "finished"

Failure == "raised"

(* A check raises: the rest of its artifact's checks are not run. *)
Fail(i) ==
  /\ i \in running /\ place[i] <= Len(modules[i])
  /\ modules[i][place[i]] = Raises
  /\ EndJob(i, Failure)

-----------------------------------------------------------------------------
AfterFailure_Abandoned == "raised"

AfterFailure == "unwinding"

(* pool.map yields in submission order.  The exception of a check is raised  *)
(* by it, and what no worker has taken is cancelled.                         *)
Collect ==
  /\ status = "collecting" /\ awaited <= Len(modules)
  /\ outcome[awaited] # "pending"
  /\ IF outcome[awaited] = "raised"
     THEN /\ status' = AfterFailure /\ queue' = <<>>
          /\ UNCHANGED <<found, awaited>>
     ELSE /\ found' = found \o gathered[awaited]
          /\ awaited' = awaited + 1
          /\ UNCHANGED <<queue, status>>
  /\ UNCHANGED <<given, checks>>

(* What is at some places of a sequence, from the earliest to the latest. *)
Arranged(findings, places, Earlier(_, _)) ==
  [k \in 1..Cardinality(places) |->
     findings[CHOOSE i \in places : Cardinality({j \in places : Earlier(j, i)}) = k - 1]]

(* dedupe_findings keeps the first finding of an issue. *)
Dedupe(findings) ==
  LET first == {i \in DOMAIN findings :
                  \A j \in 1..(i - 1) : IssueOf(findings[j]) # IssueOf(findings[i])}
  IN  Arranged(findings, first, <)

(* list.sort is stable. *)
Sorted(findings) ==
  LET Earlier(i, j) == \/ Before(findings[i], findings[j])
                       \/ ~Before(findings[j], findings[i]) /\ i < j
  IN  Arranged(findings, DOMAIN findings, Earlier)

Merged_SortedFirst(findings) == Dedupe(Sorted(findings))

Merged(findings) == Sorted(Dedupe(findings))

(* The `with` block is left once the workers are done: shutdown(wait=True). *)
LeavePool ==
  /\ running = {} /\ queue = <<>>
  /\ \/ /\ status = "collecting" /\ awaited > Len(modules)
        /\ found' = Merged(found)
        /\ status' = "returned"
     \/ /\ status = "unwinding"
        /\ status' = "raised" /\ UNCHANGED found
  /\ UNCHANGED <<given, queue, checks, awaited>>

Next ==
  \/ Take \/ Collect \/ LeavePool
  \/ \E i \in Artifact : RunCheck(i) \/ Finish(i) \/ Fail(i)

(* Some thread runs while one can, and a check ends: the sockets of check_tls *)
(* and the resolver of check_dns have timeouts.                               *)
Fairness == WF_vars(Next)

Spec == Init /\ [][Next]_vars /\ Fairness

-----------------------------------------------------------------------------
(* Who is waiting, being checked and over, and where the main thread is.     *)
TypeOK ==
  /\ modules \in Scans /\ maxConcurrency \in Limits
  /\ ToSet(queue) \subseteq Artifact /\ IsInjective(queue)
  /\ running \subseteq Artifact \ ToSet(queue)
  /\ Cardinality(running) <= WorkerCount
  /\ DOMAIN gathered = Artifact
  /\ place \in [Artifact -> Nat]
  /\ \A i \in Artifact : place[i] \in 1..(Len(modules[i]) + 1)
  /\ outcome \in [Artifact -> {"pending", "finished", "raised"}]
  /\ \A i \in running \cup ToSet(queue) : outcome[i] = "pending"
  /\ awaited \in 1..(Len(modules) + 1)
  /\ status \in {"collecting", "unwinding", "returned", "raised"}

RaisingAt(i) == {k \in DOMAIN modules[i] : modules[i][k] = Raises}

(* What a loop over the artifacts would find. *)
Sequentially == FlattenSeq([i \in Artifact |-> FlattenSeq(modules[i])])

(* The result does not depend on how the workers interleave: it is what one  *)
(* artifact at a time gives, each issue once, the finding of the first       *)
(* artifact standing for it, in the order of _sort_key.                      *)
SameAsSequential ==
  status = "returned" =>
    LET all == Sequentially
        first == {i \in DOMAIN all : \A j \in 1..(i - 1) : IssueOf(all[j]) # IssueOf(all[i])}
    IN  /\ Len(found) = Cardinality(first)
        /\ ToSet(found) = {all[i] : i \in first}
        /\ \A k, l \in DOMAIN found : k < l => ~Before(found[l], found[k])

(* A check that raises fails the scan; it is never a page without findings.  *)
NoCheckLost ==
  /\ status = "returned" => \A i \in Artifact : RaisingAt(i) = {}
  /\ status = "raised" => \E i \in Artifact : RaisingAt(i) # {}

(* Once run_checks is over, by return or exception, no check is running and  *)
(* none is going to.                                                         *)
NoneLeftRunning == status \in {"returned", "raised"} => running = {} /\ queue = <<>>

(* run_checks ends, whatever max_concurrency says and whichever check raises. *)
Termination == <>(status \in {"returned", "raised"})
=============================================================================
