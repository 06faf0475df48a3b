---------------------------- MODULE RunnerProofs ----------------------------
(***************************************************************************)
(* Proofs about the runner, for any scan and any max_concurrency: its type *)
(* invariant, that an exception of a check is never lost, that nothing is  *)
(* left running, and that its result is the one of a loop over the         *)
(* artifacts.                                                              *)
(***************************************************************************)
EXTENDS Runner, FiniteSetTheorems, SequenceTheorems, WellFoundedInduction, TLAPS

(* What a worker has behind it did not raise, so an artifact is finished     *)
(* only if none of its checks raises, and has raised only if one does.       *)
Judged ==
  \A i \in Artifact :
    /\ \A k \in RaisingAt(i) : k >= place[i]
    /\ outcome[i] = "finished" => RaisingAt(i) = {}
    /\ outcome[i] = "raised" => RaisingAt(i) # {}

(* The main thread has collected what is before `awaited`, and unwinds only  *)
(* because of a check that raised.                                           *)
Collected ==
  /\ \A i \in Artifact : i < awaited => RaisingAt(i) = {}
  /\ status = "returned" => awaited > Len(modules)
  /\ status \in {"unwinding", "raised"} => \E i \in Artifact : RaisingAt(i) # {}

(* The inductive invariant. *)
IInv == TypeOK /\ queue \in Seq(Artifact) /\ Judged /\ Collected /\ NoneLeftRunning

-----------------------------------------------------------------------------
(* A scan has artifacts, numbered from 1, each with its check modules. *)
LEMMA ScanShape ==
  ASSUME modules \in Scans
  PROVE  /\ Len(modules) \in Nat \ {0} /\ Artifact = 1..Len(modules)
         /\ \A i \in Artifact : Len(modules[i]) \in Nat /\ DOMAIN modules[i] = 1..Len(modules[i])
<1>1. modules \in Seq(Seq(Results)) /\ modules # <<>>
  BY ScansAssumption
<1>2. Len(modules) \in Nat \ {0}
  BY <1>1, EmptySeq
<1>3. DOMAIN modules = 1..Len(modules) /\ \A i \in 1..Len(modules) : modules[i] \in Seq(Results)
  BY <1>1, LenProperties, ElementOfSeq
<1> QED
  BY <1>2, <1>3, LenProperties DEF Artifact

(* The pool has a thread, and never more than there are artifacts. *)
LEMMA PoolSize ==
  ASSUME modules \in Scans, maxConcurrency \in Limits
  PROVE  WorkerCount \in 1..Len(modules)
  BY ScanShape, LimitsAssumption DEF WorkerCount

(* The artifacts being checked can be counted. *)
LEMMA RunningFinite ==
  ASSUME modules \in Scans, NEW busy \in SUBSET Artifact
  PROVE  IsFiniteSet(busy) /\ Cardinality(busy) \in Nat
<1>1. Artifact = 1..Len(modules) /\ Len(modules) \in Nat
  BY ScanShape
<1>2. IsFiniteSet(Artifact)
  BY <1>1, FS_Interval
<1> QED
  BY <1>2, FS_Subset, FS_CardinalityType

(* The head of the queue leaves it for good. *)
LEMMA HeadLeaves ==
  ASSUME queue \in Seq(Artifact), queue # <<>>, IsInjective(queue)
  PROVE  /\ Tail(queue) \in Seq(Artifact) /\ IsInjective(Tail(queue))
         /\ Head(queue) \in ToSet(queue)
         /\ ToSet(Tail(queue)) \subseteq ToSet(queue) \ {Head(queue)}
<1>1. /\ Len(queue) \in Nat \ {0} /\ DOMAIN queue = 1..Len(queue)
      /\ Tail(queue) \in Seq(Artifact) /\ Len(Tail(queue)) = Len(queue) - 1
      /\ DOMAIN Tail(queue) = 1..(Len(queue) - 1)
      /\ Head(queue) = queue[1]
      /\ \A k \in 1..(Len(queue) - 1) : Tail(queue)[k] = queue[k + 1]
  BY EmptySeq, LenProperties, HeadTailProperties
<1>2. \A k \in DOMAIN Tail(queue) : k + 1 \in DOMAIN queue /\ k + 1 # 1
  BY <1>1
<1>3. IsInjective(Tail(queue))
  BY <1>1, <1>2 DEF IsInjective
<1>4. Head(queue) \in ToSet(queue)
  BY <1>1 DEF ToSet
<1>5. \A k \in DOMAIN Tail(queue) : Tail(queue)[k] \in ToSet(queue) \ {Head(queue)}
  BY <1>1, <1>2 DEF ToSet, IsInjective
<1> QED
  BY <1>1, <1>3, <1>4, <1>5 DEF ToSet

-----------------------------------------------------------------------------
LEMMA InitEstablishes == Init => IInv
<1> SUFFICES ASSUME Init PROVE IInv
  OBVIOUS
<1>1. /\ Len(modules) \in Nat \ {0} /\ Artifact = 1..Len(modules)
      /\ \A i \in Artifact : Len(modules[i]) \in Nat /\ DOMAIN modules[i] = 1..Len(modules[i])
  BY ScanShape DEF Init
<1>2. DOMAIN queue = Artifact /\ queue \in Seq(Artifact) /\ \A i \in Artifact : queue[i] = i
  BY <1>1 DEF Init
<1>3. ToSet(queue) \subseteq Artifact /\ IsInjective(queue)
  BY <1>2 DEF ToSet, IsInjective
<1>4. Cardinality(running) <= WorkerCount
  BY <1>1, PoolSize, FS_EmptySet DEF Init
<1>5. TypeOK
  BY <1>1, <1>3, <1>4 DEF Init, TypeOK
<1>6. Judged
  BY <1>1 DEF Init, Judged, RaisingAt
<1>7. Collected /\ NoneLeftRunning
  BY <1>1 DEF Init, Collected, NoneLeftRunning
<1> QED
  BY <1>2, <1>5, <1>6, <1>7 DEF IInv

LEMMA TakeKeeps == ASSUME IInv, Take PROVE IInv'
<1>1. /\ UNCHANGED <<modules, maxConcurrency, place, gathered, outcome, awaited, status>>
      /\ queue # <<>> /\ queue' = Tail(queue) /\ running' = running \cup {Head(queue)}
      /\ Cardinality(running) < WorkerCount
      /\ UNCHANGED <<Artifact, WorkerCount>> /\ \A i \in Artifact : RaisingAt(i)' = RaisingAt(i)
  BY DEF Take, Rest, given, Artifact, WorkerCount, RaisingAt
<1>2. /\ queue' \in Seq(Artifact) /\ IsInjective(queue') /\ Head(queue) \in ToSet(queue)
      /\ ToSet(queue') \subseteq ToSet(queue) \ {Head(queue)}
  BY <1>1, HeadLeaves DEF IInv, TypeOK
<1>3. Cardinality(running') <= WorkerCount
  <2>1. IsFiniteSet(running) /\ Cardinality(running) \in Nat
    BY RunningFinite DEF IInv, TypeOK
  <2>2. Cardinality(running \cup {Head(queue)}) = Cardinality(running) + 1
    <3>1. Head(queue) \notin running
      BY <1>2 DEF IInv, TypeOK
    <3> QED
      BY <2>1, <3>1, FS_AddElement
  <2> QED
    <3>1. WorkerCount \in Nat
      BY PoolSize, ScanShape DEF IInv, TypeOK
    <3>2. IsFiniteSet(running') /\ Cardinality(running') \in Nat
      BY <1>1, <2>1, FS_AddElement, FS_CardinalityType
    <3> QED
      BY <1>1, <2>1, <2>2, <3>1, <3>2
<1>4. running' \subseteq Artifact \ ToSet(queue')
  BY <1>1, <1>2 DEF IInv, TypeOK
<1>5. \A i \in running' \cup ToSet(queue') : outcome[i] = "pending"
  BY <1>1, <1>2 DEF IInv, TypeOK
<1>6. TypeOK'
  BY <1>1, <1>2, <1>3, <1>4, <1>5 DEF IInv, TypeOK
<1>7. Judged' /\ Collected'
  BY <1>1 DEF IInv, Judged, Collected
<1>8. NoneLeftRunning'
  BY <1>1 DEF IInv, NoneLeftRunning
<1> QED
  BY <1>1, <1>2, <1>6, <1>7, <1>8 DEF IInv

LEMMA RunCheckKeeps == ASSUME IInv, NEW i \in Artifact, RunCheck(i) PROVE IInv'
<1>1. /\ UNCHANGED <<modules, maxConcurrency, queue, running, outcome, awaited, status>>
      /\ gathered' = [gathered EXCEPT ![i] = @ \o modules[i][place[i]]]
      /\ place' = [place EXCEPT ![i] = @ + 1]
      /\ place[i] <= Len(modules[i]) /\ modules[i][place[i]] # Raises
      /\ UNCHANGED <<Artifact, WorkerCount>> /\ \A j \in Artifact : RaisingAt(j)' = RaisingAt(j)
  BY DEF RunCheck, given, Artifact, WorkerCount, RaisingAt
<1>2. TypeOK'
  BY <1>1, ScanShape DEF IInv, TypeOK
<1>3. Judged'
  <2>1. \A k \in RaisingAt(i) : k # place[i] /\ k >= place[i] /\ k \in Nat
    BY <1>1, ScanShape DEF IInv, TypeOK, Judged, RaisingAt
  <2> QED
    BY <1>1, <2>1 DEF IInv, TypeOK, Judged
<1>4. Collected' /\ NoneLeftRunning'
  BY <1>1 DEF IInv, Collected, NoneLeftRunning
<1> QED
  BY <1>1, <1>2, <1>3, <1>4 DEF IInv

(* A worker is done with its artifact, and says so truly. *)
LEMMA EndJobKeeps ==
  ASSUME IInv, NEW i \in running, NEW state \in {"finished", "raised"},
         (state = "finished") <=> RaisingAt(i) = {},
         EndJob(i, state)
  PROVE  IInv'
<1>1. /\ UNCHANGED <<modules, maxConcurrency, queue, place, gathered, awaited, status>>
      /\ outcome' = [outcome EXCEPT ![i] = state] /\ running' = running \ {i}
      /\ UNCHANGED <<Artifact, WorkerCount>> /\ \A j \in Artifact : RaisingAt(j)' = RaisingAt(j)
  BY DEF EndJob, given, Artifact, WorkerCount, RaisingAt
<1>2. Cardinality(running') <= WorkerCount
  <2>1. IsFiniteSet(running) /\ Cardinality(running) \in Nat
    BY RunningFinite DEF IInv, TypeOK
  <2>2. Cardinality(running') = Cardinality(running) - 1
    BY <1>1, <2>1, FS_RemoveElement
  <2> QED
    BY <2>1, <2>2, PoolSize DEF IInv, TypeOK
<1>3. TypeOK'
  BY <1>1, <1>2 DEF IInv, TypeOK
<1>4. Judged'
  BY <1>1 DEF IInv, TypeOK, Judged
<1>5. Collected' /\ NoneLeftRunning'
  BY <1>1 DEF IInv, Collected, NoneLeftRunning
<1> QED
  BY <1>1, <1>3, <1>4, <1>5 DEF IInv

LEMMA FinishKeeps == ASSUME IInv, NEW i \in Artifact, Finish(i) PROVE IInv'
<1>1. i \in running /\ place[i] > Len(modules[i]) /\ EndJob(i, "finished")
  BY DEF Finish
<1>2. RaisingAt(i) = {}
  BY <1>1, ScanShape DEF IInv, TypeOK, Judged, RaisingAt
<1> QED
  BY <1>1, <1>2, EndJobKeeps

LEMMA FailKeeps == ASSUME IInv, NEW i \in Artifact, Fail(i) PROVE IInv'
<1>1. /\ i \in running /\ place[i] <= Len(modules[i]) /\ EndJob(i, "raised")
      /\ modules[i][place[i]] = Raises
  BY DEF Fail, Failure
<1>2. place[i] \in RaisingAt(i)
  BY <1>1, ScanShape DEF IInv, TypeOK, RaisingAt
<1> QED
  BY <1>1, <1>2, EndJobKeeps

LEMMA CollectKeeps == ASSUME IInv, Collect PROVE IInv'
<1>1. /\ UNCHANGED <<modules, maxConcurrency, running, place, gathered, outcome>>
      /\ status = "collecting" /\ awaited \in Artifact /\ outcome[awaited] # "pending"
      /\ UNCHANGED <<Artifact, WorkerCount>> /\ \A i \in Artifact : RaisingAt(i)' = RaisingAt(i)
  BY ScanShape DEF Collect, given, checks, Artifact, WorkerCount, RaisingAt, IInv, TypeOK
<1>2. CASE outcome[awaited] = "raised"
  <2>1. status' = "unwinding" /\ queue' = <<>> /\ awaited' = awaited
    BY <1>2 DEF Collect, AfterFailure
  <2>2. queue' \in Seq(Artifact) /\ ToSet(queue') = {} /\ IsInjective(queue')
    BY <2>1 DEF ToSet, IsInjective
  <2>3. TypeOK'
    BY <1>1, <2>1, <2>2 DEF IInv, TypeOK
  <2>4. Judged'
    BY <1>1 DEF IInv, Judged
  <2>5. Collected'
    BY <1>1, <1>2, <2>1 DEF IInv, Judged, Collected
  <2> QED
    BY <1>1, <2>1, <2>2, <2>3, <2>4, <2>5 DEF IInv, NoneLeftRunning
<1>3. CASE outcome[awaited] # "raised"
  <2>1. status' = status /\ queue' = queue /\ awaited' = awaited + 1
    BY <1>3 DEF Collect
  <2>2. outcome[awaited] = "finished" /\ RaisingAt(awaited) = {}
    BY <1>1, <1>3 DEF IInv, TypeOK, Judged
  <2>3. TypeOK'
    BY <1>1, <2>1, ScanShape DEF IInv, TypeOK
  <2>4. Judged'
    BY <1>1 DEF IInv, Judged
  <2>5. Collected'
    <3>1. awaited \in Nat /\ \A i \in Artifact : i \in Nat
      BY ScanShape DEF IInv, TypeOK
    <3>2. \A i \in Artifact : i < awaited + 1 => RaisingAt(i) = {}
      BY <2>2, <3>1 DEF IInv, Collected
    <3> QED
      BY <1>1, <2>1, <3>2 DEF Collected
  <2> QED
    BY <1>1, <2>1, <2>3, <2>4, <2>5 DEF IInv, NoneLeftRunning
<1> QED
  BY <1>2, <1>3

LEMMA LeavePoolKeeps == ASSUME IInv, LeavePool PROVE IInv'
<1>1. /\ UNCHANGED <<modules, maxConcurrency, queue, running, place, gathered, outcome, awaited>>
      /\ running = {} /\ queue = <<>>
      /\ \/ status = "collecting" /\ awaited > Len(modules) /\ status' = "returned"
         \/ status = "unwinding" /\ status' = "raised"
      /\ UNCHANGED <<Artifact, WorkerCount>> /\ \A i \in Artifact : RaisingAt(i)' = RaisingAt(i)
  BY DEF LeavePool, given, checks, Artifact, WorkerCount, RaisingAt
<1>2. TypeOK'
  BY <1>1 DEF IInv, TypeOK
<1>3. Judged'
  BY <1>1 DEF IInv, Judged
<1>4. Collected' /\ NoneLeftRunning'
  BY <1>1 DEF IInv, Collected, NoneLeftRunning
<1> QED
  BY <1>1, <1>2, <1>3, <1>4 DEF IInv

LEMMA StutterKeeps == ASSUME IInv, UNCHANGED vars PROVE IInv'
  BY DEF IInv, TypeOK, Judged, Collected, NoneLeftRunning, RaisingAt, Artifact, WorkerCount,
         vars, given, checks

(* The inductive invariant holds throughout. *)
THEOREM Invariant == Spec => []IInv
<1>1. IInv /\ [Next]_vars => IInv'
  <2> SUFFICES ASSUME IInv, [Next]_vars PROVE IInv'
    OBVIOUS
  <2>1. CASE Take
    BY <2>1, TakeKeeps
  <2>2. CASE Collect
    BY <2>2, CollectKeeps
  <2>3. CASE LeavePool
    BY <2>3, LeavePoolKeeps
  <2>4. CASE \E i \in Artifact : RunCheck(i) \/ Finish(i) \/ Fail(i)
    BY <2>4, RunCheckKeeps, FinishKeeps, FailKeeps
  <2>5. CASE UNCHANGED vars
    BY <2>5, StutterKeeps
  <2> QED
    BY <2>1, <2>2, <2>3, <2>4, <2>5 DEF Next
<1> QED
  BY <1>1, InitEstablishes, PTL DEF Spec

-----------------------------------------------------------------------------
(* Who waits, runs and is over never mixes, and the pool is within its size. *)
THEOREM TypeCorrect == Spec => []TypeOK
<1>1. IInv => TypeOK
  BY DEF IInv
<1> QED
  BY <1>1, Invariant, PTL

(* run_checks returns only if no check raised, and raises only if one did. *)
THEOREM ExceptionsSurface == Spec => []NoCheckLost
<1>1. IInv => NoCheckLost
  <2> SUFFICES ASSUME IInv, status = "returned", NEW i \in Artifact
               PROVE  RaisingAt(i) = {}
    BY DEF IInv, Collected, NoCheckLost
  <2>1. awaited \in Nat /\ Len(modules) \in Nat /\ i \in 1..Len(modules)
    BY ScanShape DEF IInv, TypeOK
  <2> QED
    BY <2>1 DEF IInv, Collected
<1> QED
  BY <1>1, Invariant, PTL

(* Nothing runs once run_checks is over, and nothing will. *)
THEOREM PoolIsLeft == Spec => []NoneLeftRunning
<1>1. IInv => NoneLeftRunning
  BY DEF IInv
<1> QED
  BY <1>1, Invariant, PTL
-----------------------------------------------------------------------------
(* A set of naturals that is not empty has a least element.                 *)
LEMMA Least ==
  ASSUME NEW T \in SUBSET Nat, T # {}
  PROVE  \E m \in T : \A k \in T : m <= k
<1> DEFINE R == {p \in Nat \X Nat : p[1] < p[2]}
<1>1. IsWellFoundedOn(R, Nat)
  BY NatLessThanWellFounded DEF OpToRel
<1> HIDE DEF R
<1>2. PICK m \in T : \A k \in T : <<k, m>> \notin R
  BY <1>1, WFMin
<1>3. \A k \in T : <<k, m>> \notin R => m <= k
  BY DEF R
<1> QED BY <1>2, <1>3

(* What holds of 0, and of n + 1 when it holds of n, holds of all naturals. *)
LEMMA Induction ==
  ASSUME NEW S, 0 \in S, \A n \in Nat : n \in S => n + 1 \in S
  PROVE  Nat \subseteq S
<1> SUFFICES ASSUME Nat \ S # {} PROVE FALSE
  OBVIOUS
<1>1. PICK m \in Nat \ S : \A k \in Nat \ S : m <= k
  BY Least
<1>2. m # 0
  BY <1>1
<1>3. m - 1 \in Nat /\ m - 1 \notin Nat \ S
  BY <1>1, <1>2
<1> QED BY <1>3

(* One more document after those read.                                       *)
LEMMA FlattenAppends ==
  ASSUME NEW S, NEW seqs \in Seq(Seq(S)), NEW last \in Seq(S)
  PROVE  /\ FlattenSeq(seqs) \in Seq(S)
         /\ FlattenSeq(Append(seqs, last)) = FlattenSeq(seqs) \o last
<1> DEFINE n == Len(seqs)
           more == Append(seqs, last)
           Upto(s, m, f) == f = [i \in 1..m |-> IF i = 1 THEN s[i] ELSE f[i - 1] \o s[i]]
           Good == {m \in Nat : \E f : Upto(more, m, f)}
<1>1. 0 \in Good
  <2> DEFINE f == [i \in 1..0 |-> <<>>]
  <2>1. \A i \in 1..0 : FALSE
    OBVIOUS
  <2>2. Upto(more, 0, f)
    BY <2>1
  <2> HIDE DEF Upto, f
  <2> QED BY <2>2
<1>2. ASSUME NEW m \in Nat, m \in Good PROVE m + 1 \in Good
  <2> HIDE DEF more
  <2>1. PICK f : Upto(more, m, f)
    BY <1>2
  <2> DEFINE g == [i \in 1..(m + 1) |->
                     IF i <= m THEN f[i] ELSE IF i = 1 THEN more[i] ELSE f[i - 1] \o more[i]]
  <2>2. ASSUME NEW i \in 1..(m + 1)
        PROVE  g[i] = IF i = 1 THEN more[i] ELSE g[i - 1] \o more[i]
    <3>1. i # 1 => g[i - 1] = f[i - 1]
      OBVIOUS
    <3>2. i <= m => f[i] = IF i = 1 THEN more[i] ELSE f[i - 1] \o more[i]
      <4>1. i <= m => i \in 1..m
        OBVIOUS
      <4> QED BY <2>1, <4>1
    <3> QED BY <3>1, <3>2
  <2>3. Upto(more, m + 1, g)
    BY <2>2
  <2> HIDE DEF Upto, g
  <2> QED BY <2>3
<1>3. /\ n \in Nat /\ Len(more) = n + 1 /\ more[n + 1] = last
      /\ \A i \in 1..n : more[i] = seqs[i] /\ seqs[i] \in Seq(S)
  OBVIOUS
<1> HIDE DEF more
<1>4. PICK f0 : Upto(more, n + 1, f0)
  <2> HIDE DEF Upto, Good
  <2>1. n + 1 \in Good
    BY <1>1, <1>2, <1>3, Induction
  <2> QED BY <2>1 DEF Good
<1>5. PICK h0 : Upto(seqs, n, h0)
  <2> DEFINE h == [i \in 1..n |-> f0[i]]
  <2>1. ASSUME NEW i \in 1..n PROVE h[i] = IF i = 1 THEN seqs[i] ELSE h[i - 1] \o seqs[i]
    <3>1. f0[i] = IF i = 1 THEN more[i] ELSE f0[i - 1] \o more[i]
      <4>1. i \in 1..(n + 1)
        BY <1>3
      <4> QED BY <1>4, <4>1
    <3> QED BY <1>3, <3>1
  <2>2. Upto(seqs, n, h)
    BY <2>1
  <2> HIDE DEF Upto, h
  <2> QED BY <2>2
<1> DEFINE F == CHOOSE f : Upto(more, n + 1, f)
           H == CHOOSE f : Upto(seqs, n, f)
<1>6. Upto(more, n + 1, F) /\ Upto(seqs, n, H)
  BY <1>4, <1>5
<1>7. FlattenSeq(more) = F[n + 1]
  BY <1>3 DEF FlattenSeq
<1>8. FlattenSeq(seqs) = IF n = 0 THEN seqs ELSE H[n]
  BY DEF FlattenSeq
<1> HIDE DEF F, H, Good
<1>9. \A i \in 1..(n + 1) : F[i] = IF i = 1 THEN more[i] ELSE F[i - 1] \o more[i]
  BY <1>6
<1>10. \A i \in 1..n : H[i] = IF i = 1 THEN seqs[i] ELSE H[i - 1] \o seqs[i]
  BY <1>6
<1> HIDE DEF Upto
<1> DEFINE Same == {m \in Nat : m \in 1..n => F[m] = H[m] /\ H[m] \in Seq(S)}
<1>11. 0 \in Same
  OBVIOUS
<1>12. ASSUME NEW m \in Nat, m \in Same PROVE m + 1 \in Same
  <2> SUFFICES ASSUME m + 1 \in 1..n PROVE F[m + 1] = H[m + 1] /\ H[m + 1] \in Seq(S)
    OBVIOUS
  <2>1. m + 1 \in 1..(n + 1) /\ (m + 1) - 1 = m /\ more[m + 1] = seqs[m + 1] /\ seqs[m + 1] \in Seq(S)
    BY <1>3
  <2>2. m # 0 => F[m] = H[m] /\ H[m] \in Seq(S)
    BY <1>12
  <2>3. F[m + 1] = IF m + 1 = 1 THEN seqs[m + 1] ELSE F[m] \o seqs[m + 1]
    BY <1>9, <2>1
  <2>4. H[m + 1] = IF m + 1 = 1 THEN seqs[m + 1] ELSE H[m] \o seqs[m + 1]
    BY <1>10, <2>1
  <2> QED BY <2>1, <2>2, <2>3, <2>4
<1> HIDE DEF Same
<1>13. n \in Same
  BY <1>3, <1>11, <1>12, Induction
<1>14. n # 0 => F[n] = H[n] /\ H[n] \in Seq(S)
  BY <1>3, <1>13 DEF Same
<1>15. F[n + 1] = IF n = 0 THEN last ELSE F[n] \o last
  <2>1. n + 1 \in 1..(n + 1) /\ (n + 1) - 1 = n /\ (n + 1 = 1 <=> n = 0)
    BY <1>3
  <2> QED BY <1>3, <1>9, <2>1
<1>16. n = 0 => seqs = <<>> /\ seqs \o last = last
  OBVIOUS
<1>17. FlattenSeq(more) = FlattenSeq(seqs) \o last
  BY <1>7, <1>8, <1>14, <1>15, <1>16
<1>18. FlattenSeq(seqs) \in Seq(S)
  BY <1>8, <1>14, <1>16, EmptySeq
<1> QED BY <1>17, <1>18 DEF more

(* A strict total order on a finite set ranks its elements 0, 1, 2, ...: a   *)
(* choice of the element of each rank has them all, in that order.           *)
LEMMA Ranked ==
  ASSUME NEW P, IsFiniteSet(P), NEW R,
         \A i \in P : <<i, i>> \notin R,
         \A i, j, h \in P : <<i, j>> \in R /\ <<j, h>> \in R => <<i, h>> \in R,
         \A i, j \in P : i # j => <<i, j>> \in R \/ <<j, i>> \in R
  PROVE  LET rank(i) == Cardinality({j \in P : <<j, i>> \in R})
             N == Cardinality(P)
         IN  /\ N \in Nat
             /\ \A k \in 1..N : \E i \in P : rank(i) = k - 1
             /\ \A at : (\A k \in 1..N : at[k] \in P /\ rank(at[k]) = k - 1)
                         => /\ P = {at[k] : k \in 1..N}
                            /\ \A k, l \in 1..N : k < l => <<at[k], at[l]>> \in R
<1> DEFINE before(i) == {j \in P : <<j, i>> \in R}
           rank(i) == Cardinality(before(i))
           N == Cardinality(P)
<1>1. N \in Nat
  BY FS_CardinalityType
<1>2. ASSUME NEW i \in P PROVE rank(i) \in 0..(N - 1)
  <2>1. before(i) \in SUBSET P /\ before(i) # P
    OBVIOUS
  <2>2. IsFiniteSet(before(i)) /\ rank(i) <= N /\ rank(i) # N
    BY <2>1, FS_Subset
  <2>3. rank(i) \in Nat
    BY <2>2, FS_CardinalityType
  <2> HIDE DEF rank, N
  <2> QED BY <1>1, <2>2, <2>3
<1>3. ASSUME NEW i \in P, NEW j \in P, <<i, j>> \in R PROVE rank(i) < rank(j)
  <2>1. before(i) \in SUBSET before(j) /\ before(i) # before(j)
    <3>1. \A h \in before(i) : h \in before(j)
      BY <1>3
    <3>2. i \in before(j) /\ i \notin before(i)
      BY <1>3
    <3> QED BY <3>1, <3>2
  <2>2. IsFiniteSet(before(j))
    BY FS_Subset
  <2>3. rank(i) <= rank(j) /\ rank(i) # rank(j)
    BY <2>1, <2>2, FS_Subset
  <2>4. rank(i) \in Int /\ rank(j) \in Int
    BY <1>2
  <2> HIDE DEF rank
  <2> QED BY <2>3, <2>4
<1>4. \A i \in P : rank(i) \in 0..(N - 1)
  BY <1>2
<1>5. \A i, j \in P : <<i, j>> \in R => rank(i) < rank(j)
  BY <1>3
<1>6. \A i, j \in P : rank(i) = rank(j) => i = j
  <2> HIDE DEF rank, N
  <2> SUFFICES ASSUME NEW i \in P, NEW j \in P, rank(i) = rank(j), i # j PROVE FALSE
    OBVIOUS
  <2>1. <<i, j>> \in R \/ <<j, i>> \in R
    OBVIOUS
  <2> QED BY <2>1, <1>1, <1>4, <1>5
<1>7. \A k \in 1..N : \E i \in P : rank(i) = k - 1
  <2> HIDE DEF rank, N
  <2> DEFINE f == [i \in P |-> rank(i) + 1]
  <2>1. f \in [P -> 1..N]
    BY <1>1, <1>4
  <2>2. \A i, j \in P : f[i] = f[j] => i = j
    <3> SUFFICES ASSUME NEW i \in P, NEW j \in P, f[i] = f[j] PROVE i = j
      OBVIOUS
    <3>1. rank(i) = rank(j)
      BY <1>1, <1>4
    <3> QED BY <3>1, <1>6
  <2>3. f \in Injection(P, 1..N)
    BY <2>1, <2>2 DEF Injection, IsInjective
  <2>4. IsFiniteSet(1..N) /\ Cardinality(1..N) = N
    BY <1>1, FS_Interval
  <2>5. f \in Surjection(P, 1..N)
    <3> HIDE DEF f
    <3> QED BY <2>3, <2>4, FS_Injection DEF N
  <2>6. ASSUME NEW k \in 1..N PROVE \E i \in P : rank(i) = k - 1
    <3>1. PICK i \in P : f[i] = k
      BY <2>5 DEF Surjection
    <3> QED BY <3>1, <1>1, <1>4
  <2> QED BY <2>6
<1>8. ASSUME NEW at, \A k \in 1..N : at[k] \in P /\ rank(at[k]) = k - 1
      PROVE  /\ P = {at[k] : k \in 1..N}
             /\ \A k, l \in 1..N : k < l => <<at[k], at[l]>> \in R
  <2> HIDE DEF rank, N
  <2>1. ASSUME NEW i \in P PROVE \E k \in 1..N : at[k] = i
    <3>1. rank(i) + 1 \in 1..N /\ rank(i) = (rank(i) + 1) - 1
      BY <1>1, <1>4
    <3>2. at[rank(i) + 1] \in P /\ rank(at[rank(i) + 1]) = rank(i)
      BY <1>8, <3>1
    <3> QED BY <1>6, <3>1, <3>2
  <2>2. ASSUME NEW k \in 1..N, NEW l \in 1..N, k < l PROVE <<at[k], at[l]>> \in R
    <3>1. /\ at[k] \in P /\ rank(at[k]) = k - 1
          /\ at[l] \in P /\ rank(at[l]) = l - 1
      BY <1>8
    <3>2. at[k] # at[l] /\ ~(rank(at[l]) < rank(at[k]))
      BY <2>2, <3>1
    <3>3. <<at[k], at[l]>> \in R \/ <<at[l], at[k]>> \in R
      BY <3>1, <3>2
    <3> QED BY <1>5, <3>1, <3>2, <3>3
  <2> QED BY <1>8, <2>1, <2>2
<1> QED BY <1>1, <1>7, <1>8


-----------------------------------------------------------------------------
(* The places of the findings that stand for their issue.                   *)
Firsts(findings) ==
  {i \in DOMAIN findings : \A j \in 1..(i - 1) : IssueOf(findings[j]) # IssueOf(findings[i])}

(* dedupe_findings keeps those, and nothing else. *)
LEMMA DedupeParts ==
  ASSUME NEW findings \in Seq(Finding)
  PROVE  /\ Dedupe(findings) \in Seq(Finding)
         /\ Len(Dedupe(findings)) = Cardinality(Firsts(findings))
         /\ ToSet(Dedupe(findings)) = {findings[i] : i \in Firsts(findings)}
<1> DEFINE P == Firsts(findings)
           N == Cardinality(P)
           R == {p \in P \X P : p[1] < p[2]}
           at == [k \in 1..N |-> CHOOSE i \in P : Cardinality({j \in P : j < i}) = k - 1]
<1>1. /\ Len(findings) \in Nat /\ DOMAIN findings = 1..Len(findings)
      /\ P \in SUBSET (1..Len(findings)) /\ \A i \in P : findings[i] \in Finding
  BY DEF Firsts
<1>2. IsFiniteSet(P) /\ \A i \in P : i \in Nat
  <2> HIDE DEF P
  <2>1. IsFiniteSet(1..Len(findings))
    BY <1>1, FS_Interval
  <2>2. IsFiniteSet(P)
    BY <1>1, <2>1, FS_Subset
  <2> QED BY <1>1, <2>2
<1>3. \A i \in P : {j \in P : j < i} = {j \in P : <<j, i>> \in R}
  OBVIOUS
<1>4. Dedupe(findings) = [k \in 1..N |-> findings[at[k]]]
  BY DEF Dedupe, Arranged, Firsts
<1>5. /\ \A i \in P : <<i, i>> \notin R
      /\ \A i, j, h \in P : <<i, j>> \in R /\ <<j, h>> \in R => <<i, h>> \in R
      /\ \A i, j \in P : i # j => <<i, j>> \in R \/ <<j, i>> \in R
  <2> HIDE DEF P
  <2> QED BY <1>2
<1> HIDE DEF P, R
<1> DEFINE rank(i) == Cardinality({j \in P : <<j, i>> \in R})
<1>6. /\ N \in Nat
      /\ \A k \in 1..N : \E i \in P : rank(i) = k - 1
      /\ (\A k \in 1..N : at[k] \in P /\ rank(at[k]) = k - 1)
           => P = {at[k] : k \in 1..N} /\ \A k, l \in 1..N : k < l => <<at[k], at[l]>> \in R
  <2> HIDE DEF at
  <2> QED BY <1>2, <1>5, Ranked
<1>7. \A i \in P : Cardinality({j \in P : j < i}) = rank(i)
  BY <1>3
<1>8. ASSUME NEW k \in 1..N PROVE at[k] \in P /\ rank(at[k]) = k - 1
  <2>1. \E i \in P : Cardinality({j \in P : j < i}) = k - 1
    BY <1>6, <1>7
  <2>2. at[k] \in P /\ Cardinality({j \in P : j < at[k]}) = k - 1
    BY <2>1
  <2> QED BY <1>7, <2>2
<1>9. P = {at[k] : k \in 1..N}
  BY <1>6, <1>8
<1> HIDE DEF at, N
<1>10. Dedupe(findings) \in Seq(Finding) /\ Len(Dedupe(findings)) = N
  <2>1. \A k \in 1..N : findings[at[k]] \in Finding
    BY <1>1, <1>8
  <2> QED BY <1>4, <1>6, <2>1
<1>11. ToSet(Dedupe(findings)) = {findings[i] : i \in P}
  BY <1>4, <1>9 DEF ToSet
<1> QED BY <1>10, <1>11 DEF N, P

(* list.sort moves the findings, and no finding is after a larger one. *)
LEMMA SortedParts ==
  ASSUME NEW findings \in Seq(Finding)
  PROVE  /\ Len(Sorted(findings)) = Len(findings)
         /\ ToSet(Sorted(findings)) = ToSet(findings)
         /\ \A k, l \in DOMAIN Sorted(findings) :
              k < l => ~Before(Sorted(findings)[l], Sorted(findings)[k])
<1> DEFINE P == DOMAIN findings
           N == Cardinality(P)
           earlier(i, j) == \/ Before(findings[i], findings[j])
                            \/ ~Before(findings[j], findings[i]) /\ i < j
           R == {p \in P \X P : earlier(p[1], p[2])}
           at == [k \in 1..N |-> CHOOSE i \in P : Cardinality({j \in P : earlier(j, i)}) = k - 1]
<1>1. /\ Len(findings) \in Nat /\ P = 1..Len(findings)
      /\ \A i \in P : i \in Nat /\ findings[i] \in Finding
  OBVIOUS
<1>2. IsFiniteSet(P) /\ N = Len(findings)
  BY <1>1, FS_Interval
<1>3. \A i, j \in P : <<i, j>> \in R <=> earlier(i, j)
  OBVIOUS
<1>4. Sorted(findings) = [k \in 1..N |-> findings[at[k]]]
  BY DEF Sorted, Arranged
<1> HIDE DEF P, R
<1>5. \A i \in P : <<i, i>> \notin R
  BY <1>1, <1>3, OrderAssumption
<1>6. ASSUME NEW i \in P, NEW j \in P, NEW h \in P, earlier(i, j), earlier(j, h)
      PROVE  earlier(i, h)
  <2>1. i \in Nat /\ j \in Nat /\ h \in Nat /\ (i < j /\ j < h => i < h)
    BY <1>1
  <2>2. findings[i] \in Finding /\ findings[j] \in Finding /\ findings[h] \in Finding
    BY <1>1
  <2> QED BY <1>6, <2>1, <2>2, OrderAssumption
<1>7. ASSUME NEW i \in P, NEW j \in P, i # j PROVE earlier(i, j) \/ earlier(j, i)
  <2>1. i < j \/ j < i
    BY <1>1, <1>7
  <2> QED BY <2>1
<1>8. /\ \A i, j, h \in P : <<i, j>> \in R /\ <<j, h>> \in R => <<i, h>> \in R
      /\ \A i, j \in P : i # j => <<i, j>> \in R \/ <<j, i>> \in R
  <2> HIDE DEF earlier
  <2> QED BY <1>3, <1>6, <1>7
<1> DEFINE rank(i) == Cardinality({j \in P : <<j, i>> \in R})
<1>9. /\ N \in Nat
      /\ \A k \in 1..N : \E i \in P : rank(i) = k - 1
      /\ (\A k \in 1..N : at[k] \in P /\ rank(at[k]) = k - 1)
           => P = {at[k] : k \in 1..N} /\ \A k, l \in 1..N : k < l => <<at[k], at[l]>> \in R
  <2> HIDE DEF at
  <2> QED BY <1>2, <1>5, <1>8, Ranked
<1> HIDE DEF earlier
<1>10. \A i \in P : Cardinality({j \in P : earlier(j, i)}) = rank(i)
  <2>1. \A i \in P : {j \in P : earlier(j, i)} = {j \in P : <<j, i>> \in R}
    BY <1>3
  <2> QED BY <2>1
<1>11. ASSUME NEW k \in 1..N PROVE at[k] \in P /\ rank(at[k]) = k - 1
  <2>1. \E i \in P : Cardinality({j \in P : earlier(j, i)}) = k - 1
    BY <1>9, <1>10
  <2>2. at[k] \in P /\ Cardinality({j \in P : earlier(j, at[k])}) = k - 1
    BY <2>1
  <2> QED BY <1>10, <2>2
<1>12. P = {at[k] : k \in 1..N} /\ \A k, l \in 1..N : k < l => <<at[k], at[l]>> \in R
  BY <1>9, <1>11
<1> HIDE DEF at, N
<1>13. Len(Sorted(findings)) = Len(findings) /\ DOMAIN Sorted(findings) = 1..N
  BY <1>1, <1>2, <1>4
<1>14. ToSet(Sorted(findings)) = ToSet(findings)
  BY <1>4, <1>12 DEF ToSet, P
<1>15. ASSUME NEW k \in 1..N, NEW l \in 1..N, k < l
       PROVE  ~Before(Sorted(findings)[l], Sorted(findings)[k])
  <2>1. earlier(at[k], at[l]) /\ at[k] \in P /\ at[l] \in P
    BY <1>3, <1>11, <1>12, <1>15
  <2>2. ~Before(findings[at[l]], findings[at[k]])
    BY <1>1, <2>1, OrderAssumption DEF earlier
  <2> QED BY <1>4, <2>2
<1> QED BY <1>13, <1>14, <1>15


-----------------------------------------------------------------------------
Upto(seq, n) == [k \in 1..n |-> seq[k]]

(* What a worker has gathered is what its checks so far found, in order, and *)
(* all of it once it is finished.                                            *)
Worked ==
  \A i \in Artifact :
    /\ gathered[i] = FlattenSeq(Upto(modules[i], place[i] - 1))
    /\ outcome[i] = "finished" => place[i] = Len(modules[i]) + 1

(* The main thread has what the artifacts before `awaited` found, in order.  *)
Merging ==
  /\ status = "collecting" =>
       found = FlattenSeq(Upto([i \in Artifact |-> FlattenSeq(modules[i])], awaited - 1))
  /\ status = "returned" => found = Merged(Sequentially)

(* A loop over the first n of a sequence of sequences, and its next turn.    *)
LEMMA NextTurn ==
  ASSUME NEW S, NEW n \in Nat, NEW seqs, \A k \in 1..(n + 1) : seqs[k] \in Seq(S)
  PROVE  /\ FlattenSeq(Upto(seqs, n)) \in Seq(S)
         /\ FlattenSeq(Upto(seqs, n + 1)) = FlattenSeq(Upto(seqs, n)) \o seqs[n + 1]
<1>1. Upto(seqs, n) \in Seq(Seq(S)) /\ Len(Upto(seqs, n)) = n
  BY DEF Upto
<1>2. Upto(seqs, n + 1) = Append(Upto(seqs, n), seqs[n + 1])
  BY DEF Upto
<1>3. seqs[n + 1] \in Seq(S)
  OBVIOUS
<1> QED BY <1>1, <1>2, <1>3, FlattenAppends

(* A loop that has not begun has nothing. *)
LEMMA NoTurn == ASSUME NEW seqs PROVE Upto(seqs, 0) = <<>> /\ FlattenSeq(Upto(seqs, 0)) = <<>>
<1>1. Upto(seqs, 0) = <<>>
  BY DEF Upto
<1> QED BY <1>1 DEF FlattenSeq

(* A check module that does not raise returns findings. *)
LEMMA ReturnsFindings ==
  ASSUME modules \in Scans, NEW i \in Artifact, NEW k \in DOMAIN modules[i], k \notin RaisingAt(i)
  PROVE  modules[i][k] \in Seq(Finding)
<1>1. modules[i] \in Seq(Results)
  BY ScansAssumption, ElementOfSeq DEF Artifact
<1> QED BY <1>1, ResultsAssumption DEF RaisingAt

(* The findings of an artifact no check of which raises. *)
LEMMA AllTurns ==
  ASSUME modules \in Scans, NEW i \in Artifact, RaisingAt(i) = {}
  PROVE  /\ Upto(modules[i], Len(modules[i])) = modules[i]
         /\ FlattenSeq(modules[i]) \in Seq(Finding)
<1>1. Len(modules[i]) \in Nat /\ DOMAIN modules[i] = 1..Len(modules[i])
  BY ScanShape
<1>2. modules[i] \in Seq(Results)
  BY ScansAssumption, ElementOfSeq DEF Artifact
<1>3. \A k \in DOMAIN modules[i] : modules[i][k] \in Seq(Finding)
  BY ReturnsFindings
<1>4. modules[i] \in Seq(Seq(Finding))
  BY <1>1, <1>2, <1>3
<1>5. Upto(modules[i], Len(modules[i])) = modules[i]
  BY <1>1, <1>2 DEF Upto
<1>6. FlattenSeq(modules[i]) \in Seq(Finding)
  BY <1>4, EmptySeq, FlattenAppends
<1> QED BY <1>5, <1>6

(* Nothing is gathered and nothing is collected. *)
LEMMA InitWorks == Init => Worked /\ Merging
<1> SUFFICES ASSUME Init PROVE Worked /\ Merging
  OBVIOUS
<1>1. \A i \in Artifact : place[i] - 1 = 0 /\ gathered[i] = <<>> /\ outcome[i] # "finished"
  BY DEF Init
<1>2. awaited - 1 = 0 /\ found = <<>> /\ status = "collecting"
  BY DEF Init
<1> QED BY <1>1, <1>2, NoTurn DEF Worked, Merging


(* A check of an artifact adds its findings to what the artifact gathers.    *)
LEMMA RunCheckWorks ==
  ASSUME IInv, Worked, Merging, NEW i \in Artifact, RunCheck(i)
  PROVE  Worked' /\ Merging'
<1>1. /\ UNCHANGED <<modules, outcome, found, awaited, status, Artifact>>
      /\ gathered' = [gathered EXCEPT ![i] = @ \o modules[i][place[i]]]
      /\ place' = [place EXCEPT ![i] = @ + 1]
      /\ i \in running /\ place[i] <= Len(modules[i]) /\ modules[i][place[i]] # Raises
  BY DEF RunCheck, given, Artifact
<1>2. /\ modules \in Scans /\ place[i] \in Nat \ {0} /\ outcome[i] = "pending"
      /\ DOMAIN modules[i] = 1..Len(modules[i]) /\ Len(modules[i]) \in Nat
  BY <1>1, ScanShape DEF IInv, TypeOK
<1>3. \A k \in 1..place[i] : modules[i][k] \in Seq(Finding)
  <2>1. \A k \in 1..place[i] : k \in DOMAIN modules[i] /\ k \notin RaisingAt(i)
    BY <1>1, <1>2 DEF IInv, Judged, RaisingAt
  <2> QED BY <1>2, <2>1, ReturnsFindings
<1>4. FlattenSeq(Upto(modules[i], place[i])) = gathered[i] \o modules[i][place[i]]
  <2> DEFINE n == place[i] - 1
  <2>1. n \in Nat /\ n + 1 = place[i]
    BY <1>2
  <2> HIDE DEF n
  <2>2. FlattenSeq(Upto(modules[i], n + 1)) = FlattenSeq(Upto(modules[i], n)) \o modules[i][n + 1]
    BY <1>3, <2>1, NextTurn
  <2>3. gathered[i] = FlattenSeq(Upto(modules[i], n))
    BY DEF Worked, n
  <2> QED BY <2>1, <2>2, <2>3
<1>5. /\ gathered'[i] = gathered[i] \o modules[i][place[i]] /\ place'[i] - 1 = place[i]
      /\ \A j \in Artifact \ {i} : gathered'[j] = gathered[j] /\ place'[j] = place[j]
  <2>1. DOMAIN gathered = Artifact /\ place \in [Artifact -> Nat]
    BY DEF IInv, TypeOK
  <2>2. /\ gathered'[i] = gathered[i] \o modules[i][place[i]]
        /\ \A j \in Artifact \ {i} : gathered'[j] = gathered[j]
    BY <1>1, <2>1
  <2>3. place'[i] = place[i] + 1 /\ \A j \in Artifact \ {i} : place'[j] = place[j]
    BY <1>1, <2>1
  <2> QED BY <1>2, <2>2, <2>3
<1>6. Worked'
  <2> SUFFICES ASSUME NEW j \in Artifact
               PROVE  /\ gathered'[j] = FlattenSeq(Upto(modules[j], place'[j] - 1))
                      /\ outcome[j] = "finished" => place'[j] = Len(modules[j]) + 1
    <3>1. UNCHANGED <<modules, outcome, Artifact>>
      BY <1>1
    <3> QED BY <3>1 DEF Worked, Upto
  <2>1. CASE j = i
    BY <1>2, <1>4, <1>5, <2>1
  <2>2. CASE j # i
    BY <1>5, <2>2 DEF Worked
  <2> QED BY <2>1, <2>2
<1> QED BY <1>1, <1>6 DEF Merging, Sequentially, Upto

(* A worker that is through has gathered all. *)
LEMMA FinishWorks ==
  ASSUME IInv, Worked, Merging, NEW i \in Artifact, Finish(i)
  PROVE  Worked' /\ Merging'
<1>1. /\ UNCHANGED <<modules, gathered, place, found, awaited, status, Artifact>>
      /\ outcome' = [outcome EXCEPT ![i] = "finished"] /\ place[i] > Len(modules[i])
  BY DEF Finish, EndJob, given, Artifact
<1>2. place[i] = Len(modules[i]) + 1
  BY <1>1, ScanShape DEF IInv, TypeOK
<1>3. Worked'
  BY <1>1, <1>2 DEF Worked, Upto, IInv, TypeOK
<1> QED BY <1>1, <1>3 DEF Merging, Sequentially, Upto

(* The findings of an artifact that raises are never asked for. *)
LEMMA FailWorks ==
  ASSUME IInv, Worked, Merging, NEW i \in Artifact, Fail(i)
  PROVE  Worked' /\ Merging'
<1>1. /\ UNCHANGED <<modules, gathered, place, found, awaited, status, Artifact>>
      /\ outcome' = [outcome EXCEPT ![i] = "raised"]
  BY DEF Fail, Failure, EndJob, given, Artifact
<1>2. Worked'
  BY <1>1 DEF Worked, Upto, IInv, TypeOK
<1> QED BY <1>1, <1>2 DEF Merging, Sequentially, Upto

(* The artifact the main thread collects is the next of the loop.           *)
LEMMA CollectWorks ==
  ASSUME IInv, Worked, Merging, Collect
  PROVE  Worked' /\ Merging'
<1>1. /\ UNCHANGED <<modules, gathered, place, outcome, Artifact>>
      /\ status = "collecting" /\ awaited <= Len(modules) /\ outcome[awaited] # "pending"
  BY DEF Collect, given, checks, Artifact
<1>2. Worked'
  BY <1>1 DEF Worked, Upto
<1>3. CASE outcome[awaited] = "raised"
  <2>1. status' = "unwinding"
    BY <1>3 DEF Collect, AfterFailure
  <2> QED BY <1>2, <2>1 DEF Merging
<1>4. CASE outcome[awaited] # "raised"
  <2> DEFINE each == [i \in Artifact |-> FlattenSeq(modules[i])]
             n == awaited - 1
  <2>1. found' = found \o gathered[awaited] /\ awaited' = awaited + 1 /\ status' = status
    BY <1>4 DEF Collect
  <2>2. /\ modules \in Scans /\ awaited \in Artifact /\ n \in Nat /\ n + 1 = awaited
        /\ Artifact = 1..Len(modules) /\ Len(modules) \in Nat
    BY <1>1, ScanShape DEF IInv, TypeOK
  <2>3. \A i \in 1..awaited : i \in Artifact /\ RaisingAt(i) = {}
    <3>1. outcome[awaited] = "finished"
      BY <1>1, <1>4, <2>2 DEF IInv, TypeOK
    <3>2. RaisingAt(awaited) = {}
      BY <2>2, <3>1 DEF IInv, Judged
    <3>3. \A i \in 1..awaited : i \in Artifact /\ (i < awaited \/ i = awaited)
      BY <2>2
    <3> QED BY <3>2, <3>3 DEF IInv, Collected
  <2>4. gathered[awaited] = each[awaited]
    <3>1. place[awaited] - 1 = Len(modules[awaited])
      BY <1>1, <1>4, <2>2, ScanShape DEF Worked, IInv, TypeOK
    <3>2. gathered[awaited] = FlattenSeq(Upto(modules[awaited], Len(modules[awaited])))
      BY <2>2, <3>1 DEF Worked
    <3>3. awaited \in 1..awaited
      BY <2>2
    <3> QED BY <2>2, <2>3, <3>2, <3>3, AllTurns
  <2>5. \A i \in 1..awaited : each[i] \in Seq(Finding)
    BY <2>2, <2>3, AllTurns
  <2>6. found = FlattenSeq(Upto(each, n))
    BY <1>1 DEF Merging
  <2>7. awaited' - 1 = n + 1 /\ UNCHANGED each
    BY <1>1, <2>1, <2>2
  <2> HIDE DEF each, n
  <2>8. FlattenSeq(Upto(each, n + 1)) = FlattenSeq(Upto(each, n)) \o each[n + 1]
    BY <2>2, <2>5, NextTurn
  <2>9. found' = FlattenSeq(Upto(each, awaited' - 1))
    BY <2>1, <2>2, <2>4, <2>6, <2>7, <2>8
  <2>10. Merging'
    BY <1>1, <2>1, <2>7, <2>9 DEF Merging, each, Upto
  <2> QED BY <1>2, <2>10
<1> QED BY <1>3, <1>4

(* The last artifact is collected when the merge begins. *)
LEMMA LeavePoolWorks ==
  ASSUME IInv, Worked, Merging, LeavePool
  PROVE  Worked' /\ Merging'
<1>1. UNCHANGED <<modules, gathered, place, outcome, Artifact>>
  BY DEF LeavePool, given, checks, Artifact
<1>2. Worked'
  BY <1>1 DEF Worked, Upto
<1>3. CASE status = "collecting" /\ awaited > Len(modules)
  <2> DEFINE each == [i \in Artifact |-> FlattenSeq(modules[i])]
  <2>1. status' = "returned" /\ found' = Merged(found)
    BY <1>3 DEF LeavePool
  <2>2. awaited - 1 = Len(modules) /\ Len(modules) \in Nat /\ Artifact = 1..Len(modules)
    BY <1>3, ScanShape DEF IInv, TypeOK
  <2>3. Upto(each, awaited - 1) = each
    BY <2>2 DEF Upto
  <2>4. found = Sequentially
    BY <1>3, <2>3 DEF Merging, Sequentially
  <2>5. Sequentially' = Sequentially
    BY <1>1 DEF Sequentially
  <2> QED BY <1>2, <2>1, <2>4, <2>5 DEF Merging
<1>4. CASE ~(status = "collecting" /\ awaited > Len(modules))
  <2>1. status' = "raised"
    BY <1>4 DEF LeavePool
  <2> QED BY <1>2, <2>1 DEF Merging
<1> QED BY <1>3, <1>4

(* The merge follows the loop, whichever worker moves. *)
LEMMA WorkStepKeeps == ASSUME IInv, Worked, Merging, [Next]_vars PROVE Worked' /\ Merging'
<1>1. CASE Take \/ UNCHANGED vars
  <2>1. UNCHANGED <<modules, gathered, place, outcome, found, awaited, status, Artifact>>
    BY <1>1 DEF Take, vars, given, checks, Artifact
  <2> QED BY <2>1 DEF Worked, Merging, Sequentially, Upto
<1>2. CASE Collect
  BY <1>2, CollectWorks
<1>3. CASE LeavePool
  BY <1>3, LeavePoolWorks
<1>4. CASE \E i \in Artifact : RunCheck(i) \/ Finish(i) \/ Fail(i)
  BY <1>4, RunCheckWorks, FinishWorks, FailWorks
<1> QED BY <1>1, <1>2, <1>3, <1>4 DEF Next


(* What is merged is what the loop finds, each issue once, in order.         *)
LEMMA MergedParts ==
  ASSUME NEW all \in Seq(Finding)
  PROVE  /\ Len(Merged(all)) = Cardinality(Firsts(all))
         /\ ToSet(Merged(all)) = {all[i] : i \in Firsts(all)}
         /\ \A k, l \in DOMAIN Merged(all) :
              k < l => ~Before(Merged(all)[l], Merged(all)[k])
<1>1. /\ Dedupe(all) \in Seq(Finding)
      /\ Len(Dedupe(all)) = Cardinality(Firsts(all))
      /\ ToSet(Dedupe(all)) = {all[i] : i \in Firsts(all)}
  BY DedupeParts
<1>2. Merged(all) = Sorted(Dedupe(all))
  BY DEF Merged
<1> QED BY <1>1, <1>2, SortedParts

(* Whatever the order of the workers, the result is that of a loop over the  *)
(* artifacts: each issue once, by its first finding, in the order of         *)
(* _sort_key.                                                                *)
THEOREM OrderOfWorkersIsLost == Spec => []SameAsSequential
<1>1. IInv /\ Worked /\ Merging => SameAsSequential
  <2> SUFFICES ASSUME IInv, Worked, Merging, status = "returned" PROVE SameAsSequential
    BY DEF SameAsSequential
  <2> DEFINE each == [i \in Artifact |-> FlattenSeq(modules[i])]
  <2>1. modules \in Scans /\ Artifact = 1..Len(modules) /\ Len(modules) \in Nat
    BY ScanShape DEF IInv, TypeOK
  <2>2. \A i \in Artifact : RaisingAt(i) = {}
    <3>1. \A i \in Artifact : i < awaited
      BY <2>1 DEF IInv, TypeOK, Collected
    <3> QED BY <3>1 DEF IInv, Collected
  <2>3. each \in Seq(Seq(Finding))
    <3>1. \A i \in Artifact : FlattenSeq(modules[i]) \in Seq(Finding)
      BY <2>1, <2>2, AllTurns
    <3> QED BY <2>1, <3>1
  <2>4. Sequentially \in Seq(Finding)
    BY <2>3, EmptySeq, FlattenAppends DEF Sequentially
  <2>5. found = Merged(Sequentially)
    BY DEF Merging
  <2> HIDE DEF each
  <2> QED BY <2>4, <2>5, MergedParts DEF SameAsSequential, Firsts
<1>2. Init => Worked /\ Merging
  BY InitWorks
<1>3. IInv /\ (Worked /\ Merging) /\ [Next]_vars => (Worked /\ Merging)'
  BY WorkStepKeeps
<1> QED
  BY <1>1, <1>2, <1>3, Invariant, PTL DEF Spec
=============================================================================
