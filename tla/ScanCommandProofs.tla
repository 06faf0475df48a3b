-------------------------- MODULE ScanCommandProofs --------------------------
(***************************************************************************)
(* Proofs about ScanCommand, for any pages, issues, rules, command lines   *)
(* and number of runs.                                                     *)
(***************************************************************************)
EXTENDS ScanCommand, CommandProofs, SequenceTheorems

(* Findings stand for what the checks raised, each issue once.               *)
Represented == \A f \in seen : \E g \in findings : SameIssue(f, g)
Single == \A f, g \in findings : SameIssue(f, g) => f = g

(* From the checks on, up to the baseline and beyond it.                     *)
IssuesKept ==
  /\ stage = "baseline" => Represented /\ Single
  /\ Reported \/ Verdict =>
       Single /\ \A f \in seen : Known(f) \/ \E g \in findings : SameIssue(f, g)

(* The file has nothing that the scan which wrote it had not raised.         *)
BaselineTrue == baseline.prints \subseteq Prints(recorded)

HistoryTrue ==
  stage = "alerts" \/ Verdict \/ told # <<>> => history # <<>> /\ Last(history) = run

IInv == CmdInv /\ TypeOK /\ IssuesKept /\ BaselineTrue /\ HistoryTrue

-----------------------------------------------------------------------------
(* What holds of 0, and of n + 1 when it holds of n, holds of all naturals. *)
LEMMA Induction ==
  ASSUME NEW S, 0 \in S, \A n \in Nat : n \in S => n + 1 \in S
  PROVE  Nat \subseteq S
<1> SUFFICES ASSUME Nat \ S # {} PROVE FALSE
  OBVIOUS
<1>1. PICK m \in Nat \ S : \A k \in Nat \ S : m <= k
  BY Least
<1>2. m # 0
  BY <1>1
<1>3. m - 1 \in Nat /\ m - 1 \notin Nat \ S
  BY <1>1, <1>2
<1> QED BY <1>3

(* A set of places that is not empty has a greatest one. *)
LEMMA MaxIs ==
  ASSUME NEW n \in Nat, NEW s \in SUBSET (1..n), s # {}
  PROVE  Max(s) \in s /\ \A k \in s : k <= Max(s)
<1>1. PICK d \in {n - k : k \in s} : \A e \in {n - k : k \in s} : d <= e
  <2>1. \A k \in s : n - k \in Nat
    OBVIOUS
  <2>2. {n - k : k \in s} \in SUBSET Nat /\ {n - k : k \in s} # {}
    BY <2>1
  <2> QED BY <2>2, Least
<1>2. \E m \in s : \A k \in s : k <= m
  <2>1. PICK m \in s : d = n - m
    BY <1>1
  <2>2. ASSUME NEW k \in s PROVE k <= m
    <3>1. n - m <= n - k
      BY <1>1, <2>1
    <3> QED BY <3>1
  <2> QED BY <2>2
<1> QED BY <1>2 DEF Max

(* The loop of expand_scan_targets, as the fold sees it: `kept` of the places *)
(* in s of a sequence.                                                        *)
Loop(seq, kept) ==
  kept = [s \in SUBSET DOMAIN seq |->
            IF s = {} THEN <<>>
            ELSE LET k == kept[s \ {Max(s)}]
                     e == seq[Max(s)]
                 IN  IF Contains(k, e) THEN k ELSE Append(k, e)]

(* There is such a loop over any sequence. *)
LEMMA LoopExists ==
  ASSUME NEW S, NEW seq \in Seq(S)
  PROVE  \E kept : Loop(seq, kept)
<1> DEFINE Step(k, e) == IF Contains(k, e) THEN k ELSE Append(k, e)
           Upto(n, f) == f = [s \in SUBSET (1..n) |->
                               IF s = {} THEN <<>> ELSE Step(f[s \ {Max(s)}], seq[Max(s)])]
           Good == {n \in Nat : \E f : Upto(n, f)}
<1>1. 0 \in Good
  <2> DEFINE f == [s \in SUBSET (1..0) |-> <<>>]
  <2>1. \A s \in SUBSET (1..0) : s = {}
    OBVIOUS
  <2>2. Upto(0, f)
    BY <2>1
  <2> QED BY <2>2
<1>2. ASSUME NEW n \in Nat, n \in Good PROVE n + 1 \in Good
  <2>1. PICK f : Upto(n, f)
    BY <1>2
  <2> DEFINE g == [s \in SUBSET (1..(n + 1)) |->
                     IF n + 1 \in s THEN Step(f[s \ {n + 1}], seq[n + 1]) ELSE f[s]]
  <2>2. ASSUME NEW s \in SUBSET (1..(n + 1))
        PROVE  g[s] = IF s = {} THEN <<>> ELSE Step(g[s \ {Max(s)}], seq[Max(s)])
    <3>1. CASE n + 1 \in s
      <4>1. Max(s) = n + 1
        <5>1. n + 1 \in Nat /\ s # {}
          BY <3>1
        <5>2. Max(s) \in s /\ \A k \in s : k <= Max(s)
          BY <5>1, MaxIs
        <5>3. Max(s) \in 1..(n + 1) /\ n + 1 <= Max(s)
          BY <3>1, <5>2
        <5> QED BY <5>3
      <4>2. s \ {n + 1} \in SUBSET (1..n)
        OBVIOUS
      <4>3. g[s \ {n + 1}] = f[s \ {n + 1}]
        BY <4>2
      <4> QED BY <3>1, <4>1, <4>3
    <3>2. CASE n + 1 \notin s
      <4>1. s \in SUBSET (1..n) /\ g[s] = f[s]
        BY <3>2
      <4>2. CASE s = {}
        BY <4>1, <4>2, <2>1
      <4>3. CASE s # {}
        <5>1. f[s] = Step(f[s \ {Max(s)}], seq[Max(s)])
          BY <4>1, <4>3, <2>1
        <5>2. s \ {Max(s)} \in SUBSET (1..(n + 1)) /\ n + 1 \notin s \ {Max(s)}
          BY <3>2
        <5>3. g[s \ {Max(s)}] = f[s \ {Max(s)}]
          BY <5>2
        <5> QED BY <4>1, <4>3, <5>1, <5>3
      <4> QED BY <4>2, <4>3
    <3> QED BY <3>1, <3>2
  <2>3. Upto(n + 1, g)
    BY <2>2
  <2> HIDE DEF Upto, g
  <2> QED BY <2>3
<1> HIDE DEF Good
<1>3. Nat \subseteq Good
  BY <1>1, <1>2, Induction
<1>4. PICK f : Upto(Len(seq), f)
  <2> HIDE DEF Upto
  <2>1. Len(seq) \in Good
    BY <1>3
  <2> QED BY <2>1 DEF Good
<1>5. DOMAIN seq = 1..Len(seq)
  OBVIOUS
<1>6. Loop(seq, f)
  BY <1>4, <1>5 DEF Loop
<1> QED BY <1>6

(* The loop over seq keeps each of its elements once.                        *)
LEMMA UniqIsSet ==
  ASSUME NEW S, NEW seq \in Seq(S)
  PROVE  /\ Uniq(seq) \in Seq(S) /\ IsInjective(Uniq(seq))
         /\ ToSet(Uniq(seq)) = ToSet(seq)
<1> DEFINE Step(k, e) == IF Contains(k, e) THEN k ELSE Append(k, e)
<1>1. PICK kept0 : Loop(seq, kept0)
  BY LoopExists
<1> DEFINE kept == CHOOSE f : Loop(seq, f)
<1>2. Loop(seq, kept)
  BY <1>1
<1>3. Uniq(seq) = kept[DOMAIN seq]
  BY DEF Uniq, FoldLeft, MapThenFoldSet, Loop
<1> HIDE DEF kept
<1>4. DOMAIN seq = 1..Len(seq) /\ Len(seq) \in Nat
  OBVIOUS
<1> DEFINE Fine(n) == /\ kept[1..n] \in Seq(S) /\ IsInjective(kept[1..n])
                      /\ ToSet(kept[1..n]) = {seq[i] : i \in 1..n}
           Good == {n \in Nat : n <= Len(seq) => Fine(n)}
<1>5. 0 \in Good
  <2>1. kept[{}] = <<>>
    BY <1>2 DEF Loop
  <2>2. 1..0 = {}
    OBVIOUS
  <2>3. <<>> \in Seq(S) /\ IsInjective(<<>>) /\ ToSet(<<>>) = {}
    BY DEF IsInjective, ToSet
  <2>4. {seq[i] : i \in {}} = {}
    OBVIOUS
  <2>5. Fine(0)
    BY <2>1, <2>2, <2>3, <2>4
  <2> QED BY <2>5
<1>6. ASSUME NEW n \in Nat, n \in Good PROVE n + 1 \in Good
  <2> SUFFICES ASSUME n + 1 <= Len(seq) PROVE Fine(n + 1)
    OBVIOUS
  <2>1. Fine(n)
    BY <1>6
  <2>2. Max(1..(n + 1)) = n + 1
    <3>1. n + 1 \in Nat /\ n + 1 \in 1..(n + 1)
      OBVIOUS
    <3>2. Max(1..(n + 1)) \in 1..(n + 1) /\ \A k \in 1..(n + 1) : k <= Max(1..(n + 1))
      BY <3>1, MaxIs
    <3>3. n + 1 <= Max(1..(n + 1))
      BY <3>2
    <3> QED BY <3>2, <3>3
  <2>3. 1..(n + 1) \in SUBSET DOMAIN seq /\ 1..(n + 1) # {} /\ (1..(n + 1)) \ {n + 1} = 1..n
    <3>1. n + 1 \in 1..(n + 1)
      OBVIOUS
    <3>2. (1..(n + 1)) \ {n + 1} = 1..n
      OBVIOUS
    <3>3. 1..(n + 1) \subseteq 1..Len(seq)
      BY <1>4
    <3> QED BY <3>1, <3>2, <3>3, <1>4
  <2>4. kept[1..(n + 1)] = Step(kept[1..n], seq[n + 1])
    BY <1>2, <2>2, <2>3 DEF Loop
  <2>5. seq[n + 1] \in S
    BY <1>4
  <2> DEFINE k == kept[1..n]
             e == seq[n + 1]
  <2>6. {seq[i] : i \in 1..(n + 1)} = {seq[i] : i \in 1..n} \cup {e}
    <3>1. 1..(n + 1) = 1..n \cup {n + 1}
      OBVIOUS
    <3> QED BY <3>1
  <2> HIDE DEF k, e
  <2>7. k \in Seq(S) /\ IsInjective(k) /\ e \in S /\ ToSet(k) = {seq[i] : i \in 1..n}
    BY <2>1, <2>5 DEF k, e
  <2>8. CASE Contains(k, e)
    <3>1. kept[1..(n + 1)] = k
      BY <2>4, <2>8 DEF k, e
    <3>2. e \in ToSet(k)
      BY <2>7, <2>8 DEF Contains, ToSet
    <3> QED BY <3>1, <3>2, <2>6, <2>7
  <2>9. CASE ~Contains(k, e)
    <3>1. kept[1..(n + 1)] = Append(k, e)
      BY <2>4, <2>9 DEF k, e
    <3>2. Append(k, e) \in Seq(S) /\ Len(Append(k, e)) = Len(k) + 1
          /\ \A i \in 1..(Len(k) + 1) : Append(k, e)[i] = IF i <= Len(k) THEN k[i] ELSE e
      BY <2>7
    <3>3. IsInjective(Append(k, e))
      BY <2>7, <2>9, <3>2 DEF IsInjective, Contains
    <3>4. ToSet(Append(k, e)) = ToSet(k) \cup {e}
      <4>1. DOMAIN k = 1..Len(k) /\ DOMAIN Append(k, e) = 1..(Len(k) + 1) /\ Len(k) \in Nat
        BY <2>7, <3>2
      <4>2. ASSUME NEW i \in 1..(Len(k) + 1) PROVE Append(k, e)[i] \in ToSet(k) \cup {e}
        BY <4>1, <3>2 DEF ToSet
      <4>3. ASSUME NEW i \in 1..Len(k) PROVE k[i] \in ToSet(Append(k, e))
        BY <4>1, <3>2 DEF ToSet
      <4>4. Append(k, e)[Len(k) + 1] = e /\ Len(k) + 1 \in 1..(Len(k) + 1)
        BY <4>1, <3>2
      <4>5. e \in ToSet(Append(k, e))
        BY <4>1, <4>4 DEF ToSet
      <4> QED BY <4>1, <4>2, <4>3, <4>5 DEF ToSet
    <3> QED BY <3>1, <3>2, <3>3, <3>4, <2>6, <2>7
  <2> QED BY <2>8, <2>9
<1> HIDE DEF Good
<1>7. Len(seq) \in Good
  BY <1>4, <1>5, <1>6, Induction
<1>8. Fine(Len(seq))
  BY <1>7, <1>4 DEF Good
<1>9. ToSet(seq) = {seq[i] : i \in 1..Len(seq)}
  BY <1>4 DEF ToSet
<1> QED BY <1>3, <1>4, <1>8, <1>9

(* FlattenSeq puts sequences together: every element comes from one of them. *)
LEMMA FlattenType ==
  ASSUME NEW S, NEW seqs \in Seq(Seq(S))
  PROVE  FlattenSeq(seqs) \in Seq(S)
<1> DEFINE n == Len(seqs)
           Upto(m, f) == f = [i \in 1..m |-> IF i = 1 THEN seqs[i] ELSE f[i - 1] \o seqs[i]]
           Good == {m \in Nat : \E f : Upto(m, f)}
<1>1. 0 \in Good
  <2> DEFINE f == [i \in 1..0 |-> <<>>]
  <2>1. \A i \in 1..0 : FALSE
    OBVIOUS
  <2>2. Upto(0, f)
    BY <2>1
  <2> HIDE DEF Upto, f
  <2> QED BY <2>2
<1>2. ASSUME NEW m \in Nat, m \in Good PROVE m + 1 \in Good
  <2>1. PICK f : Upto(m, f)
    BY <1>2
  <2> DEFINE g == [i \in 1..(m + 1) |->
                     IF i <= m THEN f[i] ELSE IF i = 1 THEN seqs[i] ELSE f[i - 1] \o seqs[i]]
  <2>2. ASSUME NEW i \in 1..(m + 1)
        PROVE  g[i] = IF i = 1 THEN seqs[i] ELSE g[i - 1] \o seqs[i]
    <3>1. i # 1 => g[i - 1] = f[i - 1]
      OBVIOUS
    <3>2. i <= m => f[i] = IF i = 1 THEN seqs[i] ELSE f[i - 1] \o seqs[i]
      <4>1. i <= m => i \in 1..m
        OBVIOUS
      <4> QED BY <2>1, <4>1
    <3> QED BY <3>1, <3>2
  <2>3. Upto(m + 1, g)
    BY <2>2
  <2> HIDE DEF Upto, g
  <2> QED BY <2>3
<1>3. PICK f0 : Upto(n, f0)
  <2> HIDE DEF Upto, Good
  <2>1. n \in Good
    BY <1>1, <1>2, Induction
  <2> QED BY <2>1 DEF Good
<1> DEFINE flatten == CHOOSE f : Upto(n, f)
<1>4. Upto(n, flatten)
  BY <1>3
<1>5. FlattenSeq(seqs) = IF n = 0 THEN seqs ELSE flatten[n]
  BY DEF FlattenSeq
<1> HIDE DEF flatten, Good
<1> DEFINE Fine == {m \in Nat : m \in 1..n => flatten[m] \in Seq(S)}
<1>6. 0 \in Fine
  OBVIOUS
<1>7. ASSUME NEW m \in Nat, m \in Fine PROVE m + 1 \in Fine
  <2> SUFFICES ASSUME m + 1 \in 1..n PROVE flatten[m + 1] \in Seq(S)
    OBVIOUS
  <2>1. seqs[m + 1] \in Seq(S)
    OBVIOUS
  <2>2. flatten[m + 1] = IF m + 1 = 1 THEN seqs[m + 1] ELSE flatten[m] \o seqs[m + 1]
    <3>1. \A i \in 1..n : flatten[i] = IF i = 1 THEN seqs[i] ELSE flatten[i - 1] \o seqs[i]
      BY <1>4
    <3>2. (m + 1) - 1 = m
      OBVIOUS
    <3> QED BY <3>1, <3>2
  <2>3. m # 0 => flatten[m] \in Seq(S)
    BY <1>7
  <2> QED BY <2>1, <2>2, <2>3
<1> HIDE DEF Fine
<1>8. n \in Fine
  BY <1>6, <1>7, Induction
<1>9. n # 0 => flatten[n] \in Seq(S)
  BY <1>8 DEF Fine
<1>10. n = 0 => seqs \in Seq(S)
  BY EmptySeq
<1> QED BY <1>5, <1>9, <1>10

(* A function on the places of a sequence is a sequence.                     *)
LEMMA MappedType ==
  ASSUME NEW S, NEW T, NEW seq \in Seq(S), NEW f, DOMAIN f = DOMAIN seq,
         f = [i \in DOMAIN f |-> f[i]], \A i \in DOMAIN seq : f[i] \in T
  PROVE  f \in Seq(T)
<1>1. DOMAIN seq = 1..Len(seq) /\ Len(seq) \in Nat
  OBVIOUS
<1>2. f \in [1..Len(seq) -> T]
  BY <1>1
<1> QED BY <1>1, <1>2, SeqDef

(* expand_scan_targets lists each of its targets once.                       *)
LEMMA TargetsType ==
  ASSUME NEW named \in Seq(Url), NEW probe \in BOOLEAN
  PROVE  /\ ExpandScanTargets(named, probe) \in Seq(Url)
         /\ IsInjective(ExpandScanTargets(named, probe))
<1> DEFINE Origin == DOMAIN SecurityTxt
           origins == Uniq([i \in DOMAIN named |-> OriginOf[named[i]]])
           Paths(o) == <<SecurityTxt[o]>> \o (IF probe THEN Exposure[o] ELSE <<>>)
           paths == [i \in DOMAIN origins |-> Paths(origins[i])]
<1>1. [i \in DOMAIN named |-> OriginOf[named[i]]] \in Seq(Origin)
  <2>1. \A i \in DOMAIN named : OriginOf[named[i]] \in Origin
    BY WebScanAssumption
  <2> HIDE DEF Origin
  <2> QED BY <2>1, MappedType
<1>2. origins \in Seq(Origin)
  BY <1>1, UniqIsSet
<1>3. ASSUME NEW o \in Origin PROVE Paths(o) \in Seq(Url)
  <2>1. SecurityTxt[o] \in Url /\ Exposure[o] \in Seq(Url)
    BY WebScanAssumption
  <2>2. <<SecurityTxt[o]>> \in Seq(Url) /\ <<>> \in Seq(Url)
    BY <2>1
  <2> QED BY <2>1, <2>2
<1>4. Generated(named, probe) = FlattenSeq(paths)
  BY DEF Generated
<1> HIDE DEF origins, Paths, Origin
<1>5. paths \in Seq(Seq(Url))
  <2>1. \A i \in DOMAIN origins : Paths(origins[i]) \in Seq(Url)
    BY <1>2, <1>3
  <2> QED BY <2>1, <1>2, MappedType
<1>6. Generated(named, probe) \in Seq(Url)
  BY <1>4, <1>5, FlattenType
<1>7. named \o Generated(named, probe) \in Seq(Url)
  BY <1>6
<1> QED BY <1>7, UniqIsSet DEF ExpandScanTargets

-----------------------------------------------------------------------------
(* The key of dedupe_findings tells issues apart as the documentation does.  *)
LEMMA KeyIsIssue == \A f, g : SameIssue(f, g) <=> IssueKey(f) = IssueKey(g)
BY DEF SameIssue, IssueKey

(* The place of a finding is that of its URL among the targets.              *)
PlaceIn(order, u) == SelectInSeq(order, LAMBDA url : url = u)

(* A URL of the targets is found at a place of its own. *)
LEMMA PlaceOf ==
  ASSUME NEW order \in Seq(Url), NEW u
  PROVE  /\ PlaceIn(order, u) \in Nat
         /\ u \in ToSet(order) =>
              PlaceIn(order, u) \in DOMAIN order /\ order[PlaceIn(order, u)] = u
<1> DEFINE I == {i \in 1..Len(order) : order[i] = u}
           place == PlaceIn(order, u)
<1>1. place = IF I # {} THEN Min(I) ELSE 0
  BY DEF SelectInSeq, PlaceIn
<1>2. ASSUME I # {} PROVE Min(I) \in I
  <2>1. I \in SUBSET Nat
    OBVIOUS
  <2>2. PICK m \in I : \A k \in I : m <= k
    BY <2>1, <1>2, Least
  <2> QED BY <2>2 DEF Min
<1>3. u \in ToSet(order) => I # {}
  BY DEF ToSet
<1>4. place \in Nat
  BY <1>1, <1>2
<1>5. u \in ToSet(order) => place \in DOMAIN order /\ order[place] = u
  BY <1>1, <1>2, <1>3
<1> HIDE DEF place
<1> QED BY <1>4, <1>5 DEF place

(* dedupe_findings keeps the first finding of each issue, and one only.      *)
LEMMA DedupeKeeps ==
  ASSUME NEW raised \in SUBSET Finding, NEW order \in Seq(Url),
         \A f \in raised : f.rule \notin CorsRules => f.url \in ToSet(order)
  PROVE  LET kept == DedupeFindings(raised, order)
         IN  /\ kept \subseteq raised
             /\ \A f \in raised : \E g \in kept : SameIssue(f, g)
             /\ \A f, g \in kept : SameIssue(f, g) => f = g
<1> DEFINE Place(f) == PlaceIn(order, f.url)
           kept == DedupeFindings(raised, order)
<1>1. kept = {f \in raised : \A g \in raised : IssueKey(g) = IssueKey(f) => Place(f) <= Place(g)}
  BY DEF DedupeFindings, PlaceIn
<1>2. ASSUME NEW f \in raised PROVE Place(f) \in Nat
  BY PlaceOf
<1>6. ASSUME NEW f \in raised, f.url \in ToSet(order) PROVE order[Place(f)] = f.url
  BY <1>6, PlaceOf
<1>3. \A f, g \in raised : f.url \in ToSet(order) /\ g.url \in ToSet(order) /\ Place(f) = Place(g)
        => f.url = g.url
  <2> HIDE DEF Place
  <2> QED BY <1>6
<1> HIDE DEF Place, kept
<1>4. ASSUME NEW f \in raised PROVE \E g \in kept : SameIssue(f, g)
  <2> DEFINE same == {g \in raised : IssueKey(g) = IssueKey(f)}
             places == {Place(g) : g \in same}
  <2>1. places \in SUBSET Nat /\ places # {}
    BY <1>2
  <2>2. PICK m \in places : \A k \in places : m <= k
    BY <2>1, Least
  <2>3. PICK g \in same : m = Place(g)
    OBVIOUS
  <2>4. \A h \in raised : IssueKey(h) = IssueKey(g) => Place(g) <= Place(h)
    BY <2>2, <2>3
  <2>5. g \in kept
    BY <1>1, <2>4
  <2> QED BY <2>5, KeyIsIssue
<1>5. ASSUME NEW f \in kept, NEW g \in kept, SameIssue(f, g) PROVE f = g
  <2>1. f \in raised /\ g \in raised /\ Place(f) <= Place(g) /\ Place(g) <= Place(f)
    BY <1>1, <1>5, KeyIsIssue
  <2>2. f.rule = g.rule /\ f.text = g.text
    BY <1>5 DEF SameIssue
  <2>3. f.url = g.url
    <3>1. CASE f.rule \in CorsRules
      BY <3>1, <1>5 DEF SameIssue
    <3>2. CASE f.rule \notin CorsRules
      <4>1. Place(f) = Place(g)
        BY <2>1, <1>2
      <4> QED BY <4>1, <3>2, <2>1, <2>2, <1>3
    <3> QED BY <3>1, <3>2
  <2> QED BY <2>1, <2>2, <2>3 DEF Finding
<1> QED BY <1>1, <1>4, <1>5 DEF kept

(* What a set of pages raises is finite, and of their URLs.                  *)
LEMMA RaisedOn ==
  ASSUME NEW site \in Snapshots, NEW urls \in SUBSET Url, IsFiniteSet(urls), NEW rules
  PROVE  /\ Raised(site, urls, rules) \subseteq Finding /\ IsFiniteSet(Raised(site, urls, rules))
         /\ \A f \in Raised(site, urls, rules) : f.rule \in rules /\ f.url \in urls
<1> DEFINE On(u) == {[rule |-> i.rule, text |-> i.text, url |-> u] :
                       i \in {j \in site[u] : j.rule \in rules}}
           pages == {On(u) : u \in urls}
<1>1. ASSUME NEW u \in urls
      PROVE  /\ IsFiniteSet(On(u)) /\ On(u) \subseteq Finding
             /\ \A f \in On(u) : f.rule \in rules /\ f.url \in urls
  <2> DEFINE issues == {j \in site[u] : j.rule \in rules}
             make == [i \in issues |-> [rule |-> i.rule, text |-> i.text, url |-> u]]
  <2>1. IsFiniteSet(issues)
    BY ScanAssumption, FS_Subset
  <2>2. make \in Surjection(issues, On(u))
    BY DEF Surjection
  <2>3. IsFiniteSet(On(u))
    BY <2>1, <2>2, FS_Surjection
  <2>4. On(u) \subseteq Finding
    BY ScanAssumption DEF Finding
  <2> QED BY <2>3, <2>4
<1>2. [u \in urls |-> On(u)] \in Surjection(urls, pages)
  BY DEF Surjection
<1>3. IsFiniteSet(pages)
  <2> HIDE DEF pages
  <2> QED BY <1>2, FS_Surjection
<1>4. IsFiniteSet(UNION pages)
  <2>1. \A page \in pages : IsFiniteSet(page)
    BY <1>1
  <2> HIDE DEF pages
  <2> QED BY <2>1, <1>3, FS_UNION
<1>5. Raised(site, urls, rules) = UNION pages
  BY DEF Raised
<1> QED BY <1>1, <1>4, <1>5

-----------------------------------------------------------------------------
(* The command lines of a scan are those Command speaks of. *)
LEMMA Lines == \A o \in CommandLine : IsCommandLine(o)
BY DEF CommandLine, IsCommandLine

LEMMA InitKeeps == Init => IInv
<1> SUFFICES ASSUME Init PROVE IInv
  OBVIOUS
<1> USE DEF Init
<1>1. CmdInv
  BY CmdInitKeeps
<1> USE DEF CmdInit, Absent
<1>2. TypeOK
  BY <1>1, EmptySeq DEF TypeOK, CmdInv, IsInjective, Prints
<1>3. IssuesKept /\ BaselineTrue /\ HistoryTrue
  BY DEF IssuesKept, BaselineTrue, HistoryTrue, Reported, Verdict, NotEnded, GateFailed
<1> QED BY <1>1, <1>2, <1>3 DEF IInv

LEMMA StartKeeps == ASSUME IInv, Start PROVE IInv'
<1> USE DEF IInv, Start
<1>1. CmdInv'
  <2>1. \A o \in Options : IsCommandLine(o)
    BY ScanAssumption, Lines
  <2> QED BY <2>1, CmdStartKeeps
<1> USE DEF CmdStart, Exit, files
<1>2. stage' \in {"targets", "idle"} /\ exit' \in {NotEnded, UsageError} /\ opts' \in CommandLine
  BY ScanAssumption
<1>3. history \in Seq(1..run')
  <2>1. 1..run \subseteq 1..run'
    BY DEF TypeOK, CmdTypeOK
  <2> QED BY <2>1, SeqMonotonic DEF TypeOK
<1>4. TypeOK'
  BY <1>1, <1>2, <1>3, EmptySeq DEF TypeOK, CmdInv, IsInjective
<1>5. IssuesKept' /\ BaselineTrue' /\ HistoryTrue'
  BY <1>2 DEF IssuesKept, BaselineTrue, HistoryTrue, Reported, Verdict, NotEnded, UsageError, GateFailed
<1> QED BY <1>1, <1>4, <1>5

LEMMA CollectTargetsKeeps == ASSUME IInv, CollectTargets PROVE IInv'
<1> USE DEF IInv, CollectTargets, result
<1>1. PICK listed \in Pages, read \in BOOLEAN :
        LET named == opts.named \o (IF opts.sitemap /\ read THEN listed ELSE <<>>)
        IN  /\ targets' = ExpandScanTargets(named, opts.probe)
            /\ unread' = IF opts.sitemap /\ ~read THEN {"sitemap"} ELSE {}
            /\ opts' = [opts EXCEPT !.named = Uniq(named)]
            /\ IF named = <<>> THEN Exit(UsageError) ELSE Proceed("fetch")
  OBVIOUS
<1> DEFINE named == opts.named \o (IF opts.sitemap /\ read THEN listed ELSE <<>>)
<1>2. opts \in CommandLine
  BY DEF TypeOK
<1>3. named \in Seq(Url)
  <2>1. opts.named \in Seq(Url) /\ listed \in Seq(Url) /\ <<>> \in Seq(Url)
    BY <1>2, ScanAssumption DEF CommandLine
  <2> QED BY <2>1
<1> HIDE DEF named
<1>4. opts' = [opts EXCEPT !.named = Uniq(named)] /\ opts' \in CommandLine
  <2>1. opts' = [opts EXCEPT !.named = Uniq(named)]
    BY <1>1 DEF named
  <2>2. Uniq(named) \in Seq(Url)
    BY <1>3, UniqIsSet
  <2> QED BY <2>1, <2>2, <1>2 DEF CommandLine
<1>5. stage' \in {"fetch", "idle"} /\ exit' = IF stage' = "idle" THEN UsageError ELSE exit
  BY <1>1 DEF Exit, Proceed
<1>6. opts'.formats = opts.formats /\ opts'.alerts = opts.alerts /\ opts'.update = opts.update
  BY <1>2, <1>4 DEF CommandLine
<1>7. CmdInv'
  <2>1. FindingsRated' /\ (findings \subseteq seen)'
    BY DEF CmdInv, FindingsRated, CmdTypeOK
  <2> QED BY <2>1, <1>4, <1>5, <1>6, Lines, EarlyKeeps
<1>8. targets' \in Seq(Url) /\ IsInjective(targets')
  <2>1. opts.probe \in BOOLEAN
    BY <1>2 DEF CommandLine
  <2> QED BY <2>1, <1>1, <1>3, TargetsType DEF named
<1>9. TypeOK'
  BY <1>1, <1>4, <1>5, <1>7, <1>8 DEF TypeOK, CmdInv, files
<1>10. IssuesKept' /\ BaselineTrue' /\ HistoryTrue'
  BY <1>5 DEF IssuesKept, BaselineTrue, HistoryTrue, Reported, Verdict, UsageError, GateFailed,
              CmdInv, StagesInOrder, files
<1> QED BY <1>7, <1>9, <1>10

(* What was fetched is checked, and each issue found keeps one finding.      *)
LEMMA FetchAndCheckKeeps == ASSUME IInv, FetchAndCheck PROVE IInv'
<1>1. PICK site \in Snapshots, got \in SUBSET ToSet(targets), probed \in SUBSET ToSet(opts.named) :
        LET raised == Raised(site, got, DOMAIN SeverityOf \ CorsRules)
                        \cup Raised(site, probed, CorsRules)
        IN  /\ failed' = (ToSet(targets) \ got) \cup
                         {CorsProbe(u) : u \in ToSet(opts.named) \ probed}
            /\ IF got = {}
               THEN Exit(UsageError) /\ UNCHANGED <<findings, seen>>
               ELSE /\ Proceed("baseline")
                    /\ seen' = raised
                    /\ findings' = DedupeFindings(raised, targets)
  BY DEF FetchAndCheck
<1> USE DEF IInv
<1>13. stage = "fetch" /\ UNCHANGED <<run, opts, targets, todo, told, files, recorded, history, unread>>
  BY DEF FetchAndCheck
<1> DEFINE raised == Raised(site, got, DOMAIN SeverityOf \ CorsRules)
                       \cup Raised(site, probed, CorsRules)
<1>2. opts \in CommandLine /\ targets \in Seq(Url) /\ opts.named \in Seq(Url)
  BY <1>13 DEF TypeOK, CommandLine
<1>3. \A seq \in Seq(Url) : IsFiniteSet(ToSet(seq)) /\ ToSet(seq) \subseteq Url
  <2> TAKE seq \in Seq(Url)
  <2>1. DOMAIN seq = 1..Len(seq) /\ Len(seq) \in Nat
    OBVIOUS
  <2>2. IsFiniteSet(DOMAIN seq)
    BY <2>1, FS_Interval
  <2>3. seq \in Surjection(DOMAIN seq, ToSet(seq))
    BY DEF Surjection, ToSet
  <2> QED BY <2>1, <2>2, <2>3, FS_Surjection DEF ToSet
<1>4. /\ got \subseteq Url /\ IsFiniteSet(got)
      /\ probed \subseteq Url /\ IsFiniteSet(probed)
      /\ ToSet(targets) \subseteq Url /\ ToSet(opts.named) \subseteq Url
  BY <1>2, <1>3, FS_Subset
<1>5. /\ raised \subseteq Finding /\ IsFiniteSet(raised)
      /\ \A f \in raised : f.rule \notin CorsRules => f.url \in ToSet(targets)
  <2> DEFINE plain == Raised(site, got, DOMAIN SeverityOf \ CorsRules)
             cross == Raised(site, probed, CorsRules)
  <2>1. plain \subseteq Finding /\ IsFiniteSet(plain) /\ \A f \in plain : f.url \in got
    BY <1>4, RaisedOn
  <2>2. cross \subseteq Finding /\ IsFiniteSet(cross) /\ \A f \in cross : f.rule \in CorsRules
    BY <1>4, RaisedOn
  <2> HIDE DEF plain, cross
  <2>3. raised = plain \cup cross
    BY DEF plain, cross
  <2> HIDE DEF raised
  <2> QED BY <2>1, <2>2, <2>3, FS_Union
<1>6. /\ failed' = (ToSet(targets) \ got) \cup {CorsProbe(u) : u \in ToSet(opts.named) \ probed}
      /\ IF got = {}
         THEN Exit(UsageError) /\ UNCHANGED <<findings, seen>>
         ELSE Proceed("baseline") /\ seen' = raised /\ findings' = DedupeFindings(raised, targets)
  BY <1>1
<1> HIDE DEF raised
<1>7. failed' \subseteq Url \cup {CorsProbe(u) : u \in Url}
  BY <1>4, <1>6
<1>8. stage' \in {"idle", "baseline"} /\ exit' = IF stage' = "idle" THEN UsageError ELSE exit
  BY <1>6 DEF Exit, Proceed
<1>9. /\ findings' \subseteq seen' /\ seen' \subseteq Finding /\ FindingsRated'
      /\ stage' = "baseline" => Represented' /\ Single'
  <2>1. CASE got = {}
    BY <2>1, <1>13, <1>6 DEF TypeOK, CmdInv, CmdTypeOK, FindingsRated, Exit
  <2>2. CASE got # {}
    <3>1. seen' = raised /\ findings' = DedupeFindings(raised, targets)
      BY <2>2, <1>6
    <3> DEFINE kept == DedupeFindings(raised, targets)
    <3>3. /\ kept \subseteq raised
          /\ \A f \in raised : \E g \in kept : SameIssue(f, g)
          /\ \A f, g \in kept : SameIssue(f, g) => f = g
      BY <1>2, <1>5, DedupeKeeps
    <3> HIDE DEF kept
    <3>2. IsFiniteSet(findings') /\ \A f \in findings' : f.rule \in DOMAIN SeverityOf
      BY <3>1, <3>3, <1>5, FS_Subset DEF Finding, kept
    <3> QED BY <3>1, <3>3, <3>2, <1>5 DEF kept, FindingsRated, Represented, Single
  <2> QED BY <2>1, <2>2
<1>10. CmdInv'
  <2>1. IsCommandLine(opts)'
    BY <1>13, <1>2, Lines
  <2> QED BY <1>13, <2>1, <1>8, <1>9, EarlyKeeps
<1>11. TypeOK'
  BY <1>13, <1>2, <1>7, <1>8, <1>9, <1>10 DEF TypeOK, CmdInv, files
<1>12. IssuesKept' /\ BaselineTrue' /\ HistoryTrue'
  BY <1>13, <1>8, <1>9 DEF IssuesKept, BaselineTrue, HistoryTrue, Reported, Verdict, UsageError, GateFailed,
                    CmdInv, StagesInOrder, files
<1> QED BY <1>10, <1>11, <1>12

(* The types of what a step in the second half of a run touches.             *)
LEMMA TypeStays ==
  ASSUME TypeOK, CmdInv', stage' \in {"idle", "report", "alerts"},
         UNCHANGED <<run, opts, failed, seen, targets, history, unread>>,
         recorded' \subseteq Finding, baseline'.prints \subseteq Prints(Finding), stage # "idle"
  PROVE  TypeOK'
BY DEF TypeOK, CmdInv

LEMMA UpdateBaselineStep ==
  ASSUME IInv, UpdateBaseline, UNCHANGED <<targets, history, unread>> PROVE IInv'
<1> USE DEF IInv, UpdateBaseline, result
<1>1. CmdInv'
  BY SharedKeeps
<1>2. stage' = "idle" /\ opts'.update
  BY DEF AfterUpdate, Exit
<1>3. findings \subseteq seen /\ seen \subseteq Finding
  BY DEF TypeOK, CmdTypeOK
<1>4. recorded' \subseteq Finding /\ baseline'.prints \subseteq Prints(Finding)
  BY <1>3 DEF TypeOK, Written, Prints
<1>5. TypeOK'
  BY <1>1, <1>2, <1>4, TypeStays
<1>6. BaselineTrue'
  BY <1>3 DEF BaselineTrue, Written, Prints
<1>7. IssuesKept' /\ HistoryTrue'
  BY <1>2 DEF IssuesKept, HistoryTrue, Reported, Verdict, CmdInv, StagesInOrder
<1> QED BY <1>1, <1>5, <1>6, <1>7

(* What the baseline takes away it had from the scan that wrote it.          *)
LEMMA UseBaselineStep ==
  ASSUME IInv, UseBaseline, UNCHANGED <<targets, history, unread>> PROVE IInv'
<1> USE DEF IInv, UseBaseline, files
<1>1. CmdInv'
  BY SharedKeeps
<1>2. stage' \in {"report", "idle"} /\ (stage' = "idle" => exit' = UsageError)
  BY DEF Exit, Proceed
<1>3. TypeOK'
  BY <1>1, <1>2, TypeStays DEF TypeOK
<1>4. BaselineTrue'
  BY DEF BaselineTrue
<1>5. HistoryTrue'
  BY <1>2 DEF HistoryTrue, Verdict, CmdInv, StagesInOrder, UsageError, GateFailed
<1>6. ASSUME stage' = "report"
      PROVE  Single' /\ \A f \in seen : Known(f) \/ \E g \in findings' : SameIssue(f, g)
  <2>1. findings' = IF opts.baseline THEN NotIn(baseline.prints, findings) ELSE findings
    BY <1>6 DEF Exit
  <2>2. findings' \subseteq findings
    BY <2>1 DEF NotIn
  <2>3. Single'
    BY <2>2 DEF IssuesKept, Single
  <2>4. ASSUME NEW f \in seen, ~\E g \in findings' : SameIssue(f, g) PROVE Known(f)
    <3>1. PICK g \in findings : SameIssue(f, g)
      BY DEF IssuesKept, Represented
    <3>2. opts.baseline /\ Fingerprint(g) \in baseline.prints
      BY <2>1, <2>4, <3>1 DEF NotIn
    <3>3. PICK h \in recorded : Fingerprint(h) = Fingerprint(g)
      BY <3>2 DEF BaselineTrue, Prints
    <3>4. SameIssue(f, h)
      BY <3>1, <3>3 DEF SameIssue, Fingerprint
    <3> QED BY <3>2, <3>4 DEF Known
  <2> QED BY <2>3, <2>4
<1>7. IssuesKept'
  BY <1>2, <1>6 DEF IssuesKept, Reported, Verdict, Known, UsageError, GateFailed
<1> QED BY <1>1, <1>3, <1>4, <1>5, <1>7

(* Nothing is found or dropped after that.                                   *)
LEMMA WriteReportStep ==
  ASSUME IInv, WriteReport, UNCHANGED <<targets, history, unread>> PROVE IInv'
<1> USE DEF IInv, WriteReport, result
<1>1. CmdInv'
  BY SharedKeeps
<1>2. TypeOK'
  BY <1>1, TypeStays DEF TypeOK
<1>3. IssuesKept' /\ BaselineTrue' /\ HistoryTrue'
  BY DEF IssuesKept, BaselineTrue, HistoryTrue, Reported, Verdict, Single, Known
<1> QED BY <1>1, <1>2, <1>3

LEMMA RecordScanStep == ASSUME IInv, RecordScan PROVE IInv'
<1> USE DEF IInv, RecordScan, Proceed, SaveHistory, result
<1>1. CmdInv'
  BY ReportsEnd
<1>2. history \in Seq(1..run) /\ run \in 1..run
  <2>1. run \in 0..MaxRuns /\ history \in Seq(1..run)
    BY DEF TypeOK, CmdTypeOK
  <2>2. run # 0
    BY DEF CmdInv, StagesInOrder
  <2> QED BY <2>1, <2>2, MaxRunsAssumption
<1>3. history' \in Seq(1..run) /\ history' # <<>> /\ Last(history') = run
  BY <1>2 DEF Last
<1>4. TypeOK'
  BY <1>1, <1>3 DEF TypeOK, CmdInv, files
<1>5. IssuesKept' /\ BaselineTrue' /\ HistoryTrue'
  BY <1>3 DEF IssuesKept, BaselineTrue, HistoryTrue, Reported, Verdict, Single, Known, files
<1> QED BY <1>1, <1>4, <1>5

LEMMA SendAlertStep ==
  ASSUME IInv, SendAlert, UNCHANGED <<targets, history, unread>> PROVE IInv'
<1> USE DEF IInv, SendAlert, result, files
<1>1. CmdInv'
  BY SharedKeeps
<1>2. TypeOK'
  BY <1>1, TypeStays DEF TypeOK
<1>3. IssuesKept' /\ BaselineTrue' /\ HistoryTrue'
  BY DEF IssuesKept, BaselineTrue, HistoryTrue, Reported, Verdict, Single, Known
<1> QED BY <1>1, <1>2, <1>3

LEMMA GateStep ==
  ASSUME IInv, Gate, UNCHANGED <<targets, history, unread>> PROVE IInv'
<1> USE DEF IInv, Gate, Exit, result, files
<1>1. CmdInv'
  BY SharedKeeps
<1>2. TypeOK'
  BY <1>1, TypeStays DEF TypeOK
<1>3. Reported
  BY DEF Reported, CmdInv, StagesInOrder
<1>4. IssuesKept' /\ BaselineTrue' /\ HistoryTrue'
  BY <1>3 DEF IssuesKept, BaselineTrue, HistoryTrue, Single, Known
<1> QED BY <1>1, <1>2, <1>4

LEMMA StopStep ==
  ASSUME IInv, Raise \/ Kill, UNCHANGED <<targets, history, unread>> PROVE IInv'
<1> USE DEF IInv, Raise, Kill, Exit, Interrupted, result
<1>1. CmdInv'
  BY SharedKeeps
<1>2. stage' = "idle" /\ exit' \in {ToolError, Killed}
  OBVIOUS
<1>3. baseline'.prints \subseteq baseline.prints
  BY DEF Torn
<1>4. TypeOK'
  BY <1>1, <1>2, <1>3, TypeStays DEF TypeOK
<1>5. IssuesKept' /\ BaselineTrue' /\ HistoryTrue'
  BY <1>2, <1>3 DEF IssuesKept, BaselineTrue, HistoryTrue, Reported, Verdict,
                    ToolError, Killed, GateFailed
<1> QED BY <1>1, <1>4, <1>5

LEMMA StutterStep == ASSUME IInv, UNCHANGED vars PROVE IInv'
<1> USE DEF IInv, vars
<1>1. CmdInv'
  BY CmdStutterKeeps
<1> USE DEF cmdVars, result, files
<1>2. TypeOK'
  BY <1>1 DEF TypeOK, CmdInv
<1>3. IssuesKept' /\ BaselineTrue' /\ HistoryTrue'
  BY DEF IssuesKept, BaselineTrue, HistoryTrue, Reported, Verdict, Represented, Single, Known
<1> QED BY <1>1, <1>2, <1>3

LEMMA StepKeeps == IInv /\ [Next]_vars => IInv'
BY StartKeeps, CollectTargetsKeeps, FetchAndCheckKeeps, UpdateBaselineStep, UseBaselineStep,
   WriteReportStep, RecordScanStep, SendAlertStep, GateStep, StopStep, StutterStep DEF Next

LEMMA Invariance == Spec => []IInv
<1>1. Init => IInv
  BY InitKeeps
<1>2. IInv /\ [Next]_vars => IInv'
  BY StepKeeps
<1> QED BY <1>1, <1>2, PTL DEF Spec

-----------------------------------------------------------------------------
(* Every state is typed: among others the targets of a run are URLs, each    *)
(* once, and the history holds runs that have started.                       *)
THEOREM ScanTyped == Spec => []TypeOK
<1>1. IInv => TypeOK
  BY DEF IInv
<1> QED BY <1>1, Invariance, PTL

(* dedupe_findings and the baseline lose no issue a check raised.            *)
THEOREM IssuesReported == Spec => []NothingLost
<1>1. IInv => NothingLost
  BY DEF IInv, IssuesKept, NothingLost
<1> QED BY <1>1, Invariance, PTL

(* dedupe_findings leaves one finding of each issue.                         *)
THEOREM IssuesCountOnce == Spec => []CountedOnce
<1>1. IInv => CountedOnce
  BY DEF IInv, IssuesKept, Single, CountedOnce
<1> QED BY <1>1, Invariance, PTL

(* A gated scan that exits 0 had no failed target, and its checks raised     *)
(* nothing at the floor of --fail-on that the baseline does not know.        *)
THEOREM PassMeansClean == Spec => []GatePassIsClean
<1>1. ASSUME IInv, Verdict, exit = 0, Gated
      PROVE  /\ failed = {}
             /\ \A f \in seen, floor \in opts.failOn :
                  Rank(SeverityOf[f.rule]) >= Rank(floor) => Known(f)
  <2>1. ~GateFails(findings, failed, opts.failOn, opts.failUnder)
    BY <1>1 DEF IInv, CmdInv, CodeIsVerdict
  <2>2. failed = {} /\ \A floor \in opts.failOn : AtOrAbove(findings, floor) = {}
    BY <1>1, <2>1 DEF GateFails, Tripped, Gated
  <2>3. ASSUME NEW f \in seen, NEW floor \in opts.failOn,
               Rank(SeverityOf[f.rule]) >= Rank(floor), ~Known(f)
        PROVE  FALSE
    <3>1. PICK g \in findings : SameIssue(f, g)
      BY <1>1, <2>3 DEF IInv, IssuesKept
    <3>2. g \in AtOrAbove(findings, floor)
      BY <2>3, <3>1 DEF SameIssue, AtOrAbove
    <3> QED BY <2>2, <3>2
  <2> QED BY <2>2, <2>3
<1>2. IInv => GatePassIsClean
  BY <1>1 DEF GatePassIsClean
<1> QED BY <1>2, Invariance, PTL

(* A scan exits 1 when its gate trips, and for no other reason.              *)
THEOREM OneMeansTripped == Spec => []ExitOneMeansTripped
<1>1. IInv => ExitOneMeansTripped
  BY CodeOneIsGate DEF IInv
<1> QED BY <1>1, Invariance, PTL

(* Before any alert or verdict, run_scan has written every report asked for  *)
(* and put the run into the history.                                         *)
THEOREM VerdictRecorded == Spec => []VerdictIsOnRecord
<1>1. IInv => VerdictIsOnRecord
  BY DEF IInv, CmdInv, ReportsInOrder, HistoryTrue, VerdictIsOnRecord
<1> QED BY <1>1, Invariance, PTL

(* A verdict against a baseline is one against a baseline that could be      *)
(* read: otherwise load_baseline stops the scan.                             *)
THEOREM NoVerdictOnBrokenBaseline == Spec => []BrokenBaselineStops
<1>1. IInv => BrokenBaselineStops
  BY BrokenStops DEF IInv
<1> QED BY <1>1, Invariance, PTL

(* As far as ChannelsAgree goes, the summary, SARIF and the alerts do not    *)
(* contradict the gate, whose rank and score are other tables: the summary   *)
(* for every gate but a floor of info and a threshold above 100, the alerts  *)
(* for a floor of medium or worse and a threshold of 90 or less, and not for *)
(* failed targets.                                                           *)
THEOREM ChannelsConsistent == Spec => []ChannelsAgree
<1>1. IInv => ChannelsAgree
  BY ChannelsDo DEF IInv
<1> QED BY <1>1, Invariance, PTL

(* No step of a scan that updates the baseline touches a report or the       *)
(* history, or sends an alert.                                               *)
THEOREM UpdatesAreQuiet == Spec => UpdateIsQuiet
<1> DEFINE Quiet == stage # "idle" /\ opts.update => UNCHANGED <<report, history, told>>
<1>1. ASSUME IInv, [Next]_vars, stage # "idle", opts.update
      PROVE  UNCHANGED <<report, history, told>>
  <2>1. stage \notin {"idle", "report", "alerts"}
    BY <1>1 DEF IInv, CmdInv, StagesInOrder
  <2>2. CASE Start
    BY <2>1, <2>2 DEF Start, CmdStart
  <2>3. CASE CollectTargets \/ FetchAndCheck
    BY <2>3 DEF CollectTargets, FetchAndCheck, files
  <2>4. CASE RecordScan \/ WriteReport \/ SendAlert \/ Gate
    BY <2>1, <2>4 DEF RecordScan, WriteReport, SendAlert, Gate
  <2>5. CASE (UpdateBaseline \/ UseBaseline) /\ UNCHANGED <<targets, history, unread>>
    BY <2>5 DEF UpdateBaseline, UseBaseline, files
  <2>6. CASE (Raise \/ Kill) /\ UNCHANGED <<targets, history, unread>>
    BY <2>1, <2>6 DEF Raise, Kill, Interrupted
  <2>7. CASE UNCHANGED vars
    BY <2>7 DEF vars, cmdVars, files
  <2> QED BY <1>1, <2>2, <2>3, <2>4, <2>5, <2>6, <2>7 DEF Next
<1>2. IInv /\ [Next]_vars => [Quiet]_vars
  BY <1>1
<1> QED BY <1>2, Invariance, PTL DEF Spec, UpdateIsQuiet
=============================================================================
