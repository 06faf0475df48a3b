-------------------------- MODULE AuditCommandProofs --------------------------
(***************************************************************************)
(* Proofs about AuditCommand, for any tree, any edits, any rules of the    *)
(* scanners and of .aegisignore, and any number of runs.                   *)
(***************************************************************************)
EXTENDS AuditCommand, CommandProofs

(* What a walk finds in a file is in one that .aegisignore lets it read.     *)
ReadIsScanned ==
  /\ \A path \in left \cup at : path \in File /\ Scanned(rules, path)
  /\ \A f \in seen : InFile(f) => f.url \in File /\ Scanned(rules, f.url)
  /\ stage = "dependencies" => at = {}

(* Files have finitely many sites, and there are no results before the walk  *)
(* ends.                                                                     *)
Finite ==
  /\ \A path \in File : IsFiniteSet(tree[path].sites)
  /\ IsFiniteSet(seen)
  /\ stage \in {"dependencies", "walk"} => findings = {}

(* From the end of the walk on, up to the baseline and beyond it.            *)
PlacesKept ==
  /\ stage = "baseline" => findings \in Deduped(seen)
  /\ Reported \/ Verdict => \A f \in seen : Known(f) \/ \E g \in findings : SamePlace(f, g)

(* The file has one finding of each place of the audit that wrote it.        *)
BaselineTrue ==
  /\ baseline.prints \subseteq Prints(recorded)
  /\ baseline.state = "ok" => \E kept \in Deduped(recorded) : baseline.prints = Prints(kept)

IInv == CmdInv /\ TypeOK /\ ReadIsScanned /\ Finite /\ PlacesKept /\ BaselineTrue

-----------------------------------------------------------------------------
(* The command lines of an audit are those Command speaks of. *)
LEMMA Lines == \A o \in CommandLine : IsCommandLine(o)
BY DEF CommandLine, IsCommandLine

(* In a file the rule decides the text of a finding.                         *)
LEMMA FindingParts ==
  ASSUME NEW f \in Finding
  PROVE  f.rule \in DOMAIN SeverityOf /\ (InFile(f) => f.text = TextOf[f.rule])
<1>1. CASE \E path \in File, rule \in DOMAIN TextOf, line \in Line :
             f = FindingAt(path, [rule |-> rule, line |-> line])
  BY <1>1, AuditAssumption DEF FindingAt
<1>2. CASE \E advisories \in Advisories : f \in DependencyFindings(advisories)
  BY <1>2, AuditAssumption DEF DependencyFindings, InFile
<1> QED BY <1>1, <1>2 DEF Finding

(* What one file yields.                                                     *)
LEMMA FileFindings ==
  ASSUME NEW path \in File, NEW content \in Content, IsFiniteSet(content.sites),
         NEW found \in {SecretFindings(path, content), CodeFindings(path, content)}
  PROVE  /\ IsFiniteSet(found) /\ found \subseteq Finding
         /\ \A f \in found : f.url = path
<1> DEFINE all == {FindingAt(path, s) : s \in content.sites}
<1>1. found \subseteq all
  BY DEF SecretFindings, CodeFindings
<1>2. [s \in content.sites |-> FindingAt(path, s)] \in Surjection(content.sites, all)
  BY DEF Surjection
<1>3. IsFiniteSet(all)
  <2> HIDE DEF all
  <2> QED BY <1>2, FS_Surjection
<1>4. ASSUME NEW s \in content.sites PROVE FindingAt(path, s) \in Finding
  <2>1. s.rule \in DOMAIN TextOf /\ s.line \in Line
    BY DEF Content
  <2>2. FindingAt(path, s) = FindingAt(path, [rule |-> s.rule, line |-> s.line])
    BY DEF FindingAt
  <2> QED BY <2>1, <2>2 DEF Finding
<1>5. \A f \in all : f \in Finding /\ f.url = path
  BY <1>4 DEF FindingAt
<1> HIDE DEF all
<1> QED BY <1>1, <1>3, <1>5, FS_Subset

(* What the dependency scanners yield.                                       *)
LEMMA AdvisoryFindings ==
  ASSUME NEW advisories \in Advisories
  PROVE  LET found == DependencyFindings(advisories)
         IN  IsFiniteSet(found) /\ found \subseteq Finding /\ \A f \in found : ~InFile(f)
<1> DEFINE make == [a \in advisories |->
                      [rule |-> a.rule, url |-> a.manifest, text |-> a.text, line |-> 0]]
           found == DependencyFindings(advisories)
<1>1. make \in Surjection(advisories, found)
  BY DEF Surjection, DependencyFindings
<1>2. IsFiniteSet(found)
  <2> HIDE DEF found, make
  <2> QED BY <1>1, AuditAssumption, FS_Surjection
<1>3. found \subseteq Finding
  BY DEF Finding
<1>4. \A f \in found : ~InFile(f)
  BY AuditAssumption DEF DependencyFindings, InFile
<1> QED BY <1>2, <1>3, <1>4

(* A saved file.                                                             *)
LEMMA EditedContent ==
  ASSUME NEW old \in Content, IsFiniteSet(old.sites), NEW content \in Contents \cup {Moved(old)},
         \A s \in content.sites : s.line \in Line
  PROVE  content \in Content /\ IsFiniteSet(content.sites)
<1>1. CASE content \in Contents
  BY <1>1, AuditAssumption
<1>2. CASE content = Moved(old)
  <2> DEFINE sites == {[s EXCEPT !.line = @ + 1] : s \in old.sites}
  <2>1. content = [old EXCEPT !.sites = sites]
    BY <1>2 DEF Moved
  <2>2. content.sites = sites /\ content.state = old.state
    BY <2>1 DEF Content
  <2>3. [s \in old.sites |-> [s EXCEPT !.line = @ + 1]] \in Surjection(old.sites, sites)
    BY DEF Surjection
  <2>4. IsFiniteSet(sites)
    <3> HIDE DEF sites
    <3> QED BY <2>3, FS_Surjection
  <2>5. ASSUME NEW t \in sites PROVE t \in [rule : DOMAIN TextOf, line : Line]
    <3>1. PICK s \in old.sites : t = [s EXCEPT !.line = @ + 1]
      OBVIOUS
    <3>2. s \in [rule : DOMAIN TextOf, line : Line] /\ t.line \in Line
      BY <2>2 DEF Content
    <3> QED BY <3>1, <3>2
  <2> HIDE DEF sites
  <2> QED BY <2>1, <2>2, <2>4, <2>5 DEF Content
<1> QED BY <1>1, <1>2

(* What .aegisignore documents, it does.                                     *)
LEMMA DocumentedIsIgnored ==
  ASSUME NEW path \in File, NEW pattern \in [names : Seq(STRING), slash : BOOLEAN],
         Documented(pattern, path)
  PROVE  Suppresses(pattern, path)
<1> DEFINE names == pattern.names
<1>1. path \in Seq(STRING) /\ names \in Seq(STRING)
  BY AuditAssumption
<1>2. CASE IsPrefix(names, path) /\ names # path
  BY <1>2 DEF Suppresses, IsStrictPrefix
<1>3. CASE names = path
  <2>1. PathMatches(path, names)
    BY <1>1, <1>3 DEF PathMatches, NameMatches
  <2>2. IsPrefix(names, path)
    BY <1>1, <1>3 DEF IsPrefix
  <2> QED BY <2>1, <2>2 DEF Suppresses
<1>4. CASE ~pattern.slash /\ SameNames(names, path)
  <2>1. Len(path) - Len(names) = 0 /\ DOMAIN names = DOMAIN path
    BY <1>1, <1>4 DEF SameNames
  <2>2. \A i \in DOMAIN names : 0 + i = i
    BY <1>1
  <2>3. PathMatches(path, names)
    BY <1>4, <2>1, <2>2 DEF PathMatches, SameNames
  <2> QED BY <1>4, <2>3 DEF Suppresses
<1> QED BY <1>2, <1>3, <1>4 DEF Documented

(* A match from the right is a match of what is below some directory.        *)
LEMMA IgnoredMayBe ==
  ASSUME NEW path \in File, NEW pattern \in [names : Seq(STRING), slash : BOOLEAN],
         Suppresses(pattern, path)
  PROVE  MayCover(pattern, path)
<1> DEFINE names == pattern.names
           above == Len(path) - Len(names)
           rest == SubSeq(path, above + 1, Len(path))
<1>1. path \in Seq(STRING) /\ names \in Seq(STRING)
  BY AuditAssumption
<1>2. CASE IsPrefix(names, path)
  BY <1>2 DEF MayCover, Documented
<1>3. CASE ~pattern.slash /\ PathMatches(path, names)
  <2>1. above \in Nat /\ above + 1 \in 1..(Len(path) + 1)
    BY <1>1, <1>3 DEF PathMatches
  <2>2. Len(rest) = Len(names) /\ \A i \in DOMAIN names : rest[i] = path[above + i]
    BY <1>1, <2>1
  <2>3. SameNames(names, rest)
    BY <1>3, <2>2 DEF SameNames, PathMatches
  <2> QED BY <1>3, <2>1, <2>3 DEF MayCover
<1> QED BY <1>2, <1>3 DEF Suppresses, IsStrictPrefix

(* The choices of Deduped.                                                   *)
LEMMA DedupedParts ==
  ASSUME NEW found, IsFiniteSet(found), NEW kept \in Deduped(found)
  PROVE  /\ kept \subseteq found /\ IsFiniteSet(kept)
         /\ \A f \in found : \E g \in kept : SamePlace(f, g)
<1>1. kept \subseteq found /\ \A f \in found : \E g \in kept : DedupeKey(g) = DedupeKey(f)
  BY DEF Deduped
<1>2. \A f, g : DedupeKey(g) = DedupeKey(f) => SamePlace(f, g)
  BY DEF DedupeKey, SamePlace
<1> QED BY <1>1, <1>2, FS_Subset

-----------------------------------------------------------------------------
(* Nothing has been read and nothing is reported before the first run.       *)
LEMMA InitKeeps == ASSUME Init PROVE IInv
<1> USE DEF Init, CmdInit, Reporting, Absent
<1>1. CmdInv
  BY CmdInitKeeps
<1>2. tree \in [File -> Content] /\ \A path \in File : IsFiniteSet(tree[path].sites)
  BY AuditAssumption
<1>3. opts \in CommandLine
  BY DEF CommandLine
<1>4. TypeOK
  BY <1>1, <1>2, <1>3 DEF CmdInv, TypeOK, Prints
<1>5. ReadIsScanned /\ Finite
  BY <1>2, FS_EmptySet DEF ReadIsScanned, Finite
<1>6. PlacesKept /\ BaselineTrue
  BY DEF PlacesKept, BaselineTrue, Prints, Reported, Verdict, NotEnded, GateFailed
<1> QED BY <1>1, <1>4, <1>5, <1>6 DEF IInv

(* A run starts with nothing read.                                           *)
LEMMA StartKeeps == ASSUME IInv, Start PROVE IInv'
<1> USE DEF IInv, Start
<1>1. /\ opts' \in CommandLine /\ findings' = {} /\ seen' = {} /\ failed' = {}
      /\ UNCHANGED <<baseline, report, recorded>>
  BY AuditAssumption DEF CmdStart, files
<1>2. stage' \in {"dependencies", "idle"} /\ exit' \in {NotEnded, UsageError}
  BY DEF CmdStart, Exit
<1>3. CmdInv'
  BY AuditAssumption, Lines, CmdStartKeeps
<1>4. TypeOK'
  BY <1>1, <1>2, <1>3 DEF TypeOK, CmdInv
<1>5. ReadIsScanned' /\ Finite'
  BY <1>1, FS_EmptySet DEF ReadIsScanned, Finite
<1>6. PlacesKept' /\ BaselineTrue'
  BY <1>1, <1>2 DEF PlacesKept, BaselineTrue, Reported, Verdict, NotEnded, UsageError, GateFailed
<1> QED BY <1>3, <1>4, <1>5, <1>6

(* What the first half of a run does is kept within CmdInv.                  *)
LEMMA WalkKeeps ==
  ASSUME IInv, stage \in {"dependencies", "walk"}, stage' \in {"walk", "baseline"},
         IsFiniteSet(seen'), seen' \subseteq Finding,
         findings' \subseteq seen', UNCHANGED <<run, opts, exit, todo, told, files>>
  PROVE  CmdInv'
<1> USE DEF IInv
<1>1. \A f \in findings' : f.rule \in DOMAIN SeverityOf
  BY FindingParts
<1>2. FindingsRated'
  BY <1>1, FS_Subset DEF FindingsRated
<1>3. IsCommandLine(opts)'
  BY Lines DEF TypeOK
<1>4. stage' # "idle" /\ (findings \subseteq seen)'
  OBVIOUS
<1> QED BY <1>2, <1>3, <1>4, EarlyKeeps DEF files

(* The dependency scanners come first and speak of no file of the walk.      *)
LEMMA CheckDependenciesKeeps == ASSUME IInv, CheckDependencies PROVE IInv'
<1> USE DEF IInv, CheckDependencies, Proceed, files
<1>1. PICK advisories \in Advisories : seen' = DependencyFindings(advisories)
  OBVIOUS
<1>2. IsFiniteSet(seen') /\ seen' \subseteq Finding /\ \A f \in seen' : ~InFile(f)
  BY <1>1, AdvisoryFindings
<1>3. findings' = {} /\ at' = {}
  BY DEF Finite, ReadIsScanned
<1>4. CmdInv'
  BY <1>2, <1>3, WalkKeeps
<1>5. TypeOK'
  BY <1>2, <1>3, <1>4 DEF TypeOK, CmdInv
<1>6. ReadIsScanned'
  BY <1>2, <1>3 DEF ReadIsScanned, InFile
<1>7. Finite'
  BY <1>2, <1>3 DEF Finite
<1>8. PlacesKept' /\ BaselineTrue'
  BY DEF PlacesKept, BaselineTrue, Reported, Verdict
<1> QED BY <1>4, <1>5, <1>6, <1>7, <1>8

(* What the secret scanner finds is in the file it reads.                    *)
LEMMA ReadSecretsKeeps == ASSUME IInv, ReadSecrets PROVE IInv'
<1> USE DEF IInv, ReadSecrets, files
<1>1. PICK path \in left : /\ left' = left \ {path}
                            /\ seen' = seen \cup SecretFindings(path, tree[path])
                            /\ at' = IF AlsoCode(path) THEN {path} ELSE {}
  OBVIOUS
<1> DEFINE found == SecretFindings(path, tree[path])
<1>2. path \in File /\ Scanned(rules, path)
  BY DEF ReadIsScanned
<1>3. IsFiniteSet(found) /\ found \subseteq Finding /\ \A f \in found : f.url = path
  BY <1>2, FileFindings DEF TypeOK, Finite
<1> HIDE DEF found
<1>4. seen' = seen \cup found
  BY <1>1 DEF found
<1>5. IsFiniteSet(seen') /\ seen' \subseteq Finding /\ findings' = {}
  BY <1>3, <1>4, FS_Union DEF Finite, TypeOK
<1>6. CmdInv'
  BY <1>5, WalkKeeps
<1>7. left' \subseteq File /\ at' \subseteq Python \ left'
  BY <1>1 DEF AlsoCode, TypeOK
<1>8. TypeOK'
  BY <1>5, <1>6, <1>7 DEF TypeOK, CmdInv
<1>9. ReadIsScanned'
  BY <1>1, <1>2, <1>3, <1>4 DEF ReadIsScanned, InFile
<1>10. Finite' /\ PlacesKept' /\ BaselineTrue'
  BY <1>5 DEF Finite, PlacesKept, BaselineTrue, Reported, Verdict
<1> QED BY <1>6, <1>8, <1>9, <1>10

(* And so it is with the code scanner.                                       *)
LEMMA ReadCodeKeeps == ASSUME IInv, ReadCode PROVE IInv'
<1> USE DEF IInv, ReadCode, files
<1>1. PICK path \in at : seen' = seen \cup CodeFindings(path, tree[path])
  OBVIOUS
<1> DEFINE found == CodeFindings(path, tree[path])
<1>2. path \in File /\ Scanned(rules, path)
  BY DEF ReadIsScanned
<1>3. IsFiniteSet(found) /\ found \subseteq Finding /\ \A f \in found : f.url = path
  BY <1>2, FileFindings DEF TypeOK, Finite
<1> HIDE DEF found
<1>4. seen' = seen \cup found
  BY <1>1 DEF found
<1>5. IsFiniteSet(seen') /\ seen' \subseteq Finding /\ findings' = {}
  BY <1>3, <1>4, FS_Union DEF Finite, TypeOK
<1>6. CmdInv'
  BY <1>5, WalkKeeps
<1>8. TypeOK'
  BY <1>5, <1>6 DEF TypeOK, CmdInv
<1>9. ReadIsScanned'
  BY <1>2, <1>3, <1>4 DEF ReadIsScanned, InFile
<1>10. Finite' /\ PlacesKept' /\ BaselineTrue'
  BY <1>5 DEF Finite, PlacesKept, BaselineTrue, Reported, Verdict
<1> QED BY <1>6, <1>8, <1>9, <1>10

(* Deduplication leaves a finding of every place. *)
LEMMA EndWalkKeeps == ASSUME IInv, EndWalk PROVE IInv'
<1> USE DEF IInv, EndWalk, Proceed, files, walk
<1>1. findings' \subseteq seen' /\ IsFiniteSet(seen') /\ seen' \subseteq Finding
  BY DedupedParts DEF Finite, TypeOK
<1>2. CmdInv'
  BY <1>1, WalkKeeps
<1>3. TypeOK'
  BY <1>2 DEF TypeOK, CmdInv
<1>4. ReadIsScanned' /\ Finite' /\ BaselineTrue'
  BY DEF ReadIsScanned, Finite, BaselineTrue
<1>5. PlacesKept'
  BY DEF PlacesKept, Reported, Verdict
<1> QED BY <1>2, <1>3, <1>4, <1>5

(* The tree may change at any time: nothing else does.                       *)
LEMMA EditKeeps == ASSUME IInv, Edit PROVE IInv'
<1> USE DEF IInv, Edit, walk
<1>1. UNCHANGED cmdVars
  OBVIOUS
<1>2. CmdInv'
  BY <1>1, CmdStutterKeeps
<1>9. PICK path \in File :
        \E content \in Contents \cup {Moved(tree[path])} :
          /\ \A s \in content.sites : s.line \in Line
          /\ tree' = [tree EXCEPT ![path] = content]
  OBVIOUS
<1>3. PICK content \in Contents \cup {Moved(tree[path])} :
        /\ \A s \in content.sites : s.line \in Line
        /\ tree' = [tree EXCEPT ![path] = content]
  BY <1>9
<1>4. content \in Content /\ IsFiniteSet(content.sites)
  BY <1>3, EditedContent DEF TypeOK, Finite
<1>5. tree' \in [File -> Content] /\ \A p \in File : IsFiniteSet(tree'[p].sites)
  BY <1>3, <1>4 DEF TypeOK, Finite
<1> USE DEF cmdVars, result, files
<1>6. TypeOK'
  BY <1>1, <1>2, <1>5 DEF TypeOK, CmdInv
<1>7. ReadIsScanned' /\ Finite'
  BY <1>5 DEF ReadIsScanned, Finite
<1>8. PlacesKept' /\ BaselineTrue'
  BY DEF PlacesKept, BaselineTrue, Reported, Verdict, Known, InBaseline
<1> QED BY <1>2, <1>6, <1>7, <1>8

-----------------------------------------------------------------------------
(* What a step in the second half of a run leaves alone.                     *)
LEMMA LateKeeps ==
  ASSUME IInv, CmdInv', stage \notin {"idle", "dependencies", "walk"},
         stage' \in {"idle", "report", "alerts"},
         UNCHANGED <<run, opts, failed, seen, tree, walk, edits>>,
         recorded' \subseteq Finding, baseline'.prints \subseteq Prints(Finding)
  PROVE  TypeOK' /\ ReadIsScanned' /\ Finite'
<1> USE DEF IInv, walk
<1>1. TypeOK'
  BY DEF TypeOK, CmdInv
<1>2. ReadIsScanned' /\ Finite'
  BY DEF ReadIsScanned, Finite
<1> QED BY <1>1, <1>2

(* A baseline has one finding of each place of the audit that writes it.     *)
LEMMA UpdateBaselineStep ==
  ASSUME IInv, UpdateBaseline, UNCHANGED <<tree, walk, edits>> PROVE IInv'
<1> USE DEF IInv, UpdateBaseline, result
<1>1. CmdInv'
  BY SharedKeeps
<1>2. stage' = "idle" /\ opts'.update
  BY DEF AfterUpdate, Exit
<1>3. findings \subseteq seen /\ seen \subseteq Finding /\ findings \in Deduped(seen)
  BY DEF TypeOK, CmdTypeOK, PlacesKept
<1>4. recorded' \subseteq Finding /\ baseline'.prints \subseteq Prints(Finding)
  BY <1>3 DEF TypeOK, Written, Prints
<1>5. TypeOK' /\ ReadIsScanned' /\ Finite'
  BY <1>1, <1>2, <1>4, LateKeeps
<1>6. BaselineTrue'
  <2>1. CASE opts.baseline
    <3>1. baseline' = Written(Prints(findings)) /\ recorded' = seen
      BY <2>1
    <3>2. baseline'.prints = Prints(findings) /\ Prints(findings) \subseteq Prints(seen)
      BY <3>1, <1>3 DEF Written, Prints
    <3> QED BY <3>1, <3>2, <1>3 DEF BaselineTrue
  <2>2. CASE ~opts.baseline
    BY <2>2 DEF BaselineTrue
  <2> QED BY <2>1, <2>2
<1>7. PlacesKept'
  BY <1>2 DEF PlacesKept, Reported, Verdict
<1> QED BY <1>1, <1>5, <1>6, <1>7

(* What the baseline takes away it had from the audit that wrote it.         *)
LEMMA UseBaselineStep ==
  ASSUME IInv, UseBaseline, UNCHANGED <<tree, walk, edits>> PROVE IInv'
<1> USE DEF IInv, UseBaseline, files
<1>1. CmdInv'
  BY SharedKeeps
<1>2. stage' \in {"report", "idle"} /\ (stage' = "idle" => exit' = UsageError)
  BY DEF Exit, Proceed
<1>3. TypeOK' /\ ReadIsScanned' /\ Finite'
  BY <1>1, <1>2, LateKeeps DEF TypeOK
<1>4. BaselineTrue'
  BY DEF BaselineTrue
<1>5. ASSUME stage' = "report", NEW f \in seen, ~\E g \in findings' : SamePlace(f, g)
      PROVE  Known(f)
  <2>1. findings' = IF opts.baseline THEN NotIn(baseline.prints, findings) ELSE findings
    BY <1>5 DEF Exit
  <2>2. PICK g \in findings : SamePlace(f, g) /\ g \in seen
    BY DedupedParts DEF PlacesKept, Finite
  <2>3. opts.baseline /\ Fingerprint(g) \in baseline.prints
    BY <2>1, <1>5, <2>2 DEF NotIn
  <2>4. PICK h \in recorded : Fingerprint(h) = Fingerprint(g)
    BY <2>3 DEF BaselineTrue, Prints
  <2>5. InBaseline(g)
    BY <2>3, <2>4 DEF Fingerprint, InBaseline
  <2> QED BY <2>2, <2>5 DEF Known
<1>6. PlacesKept'
  BY <1>2, <1>5 DEF PlacesKept, Reported, Verdict, Known, InBaseline, UsageError, GateFailed
<1> QED BY <1>1, <1>3, <1>4, <1>6

(* Nothing is found or dropped after that.                                   *)
LEMMA ReportStep ==
  ASSUME IInv, WriteReport \/ EndReports \/ SendAlert \/ Gate, UNCHANGED <<tree, walk, edits>>
  PROVE  IInv'
<1> USE DEF IInv, WriteReport, EndReports, SendAlert, Gate, Exit, Proceed, result, files
<1>1. CmdInv'
  BY SharedKeeps, ReportsEnd
<1>2. /\ stage \in {"report", "alerts"} /\ stage' \in {"idle", "report", "alerts"}
      /\ UNCHANGED <<run, opts, failed, findings, seen, recorded, baseline>>
  OBVIOUS
<1>3. TypeOK' /\ ReadIsScanned' /\ Finite'
  BY <1>1, <1>2, LateKeeps DEF TypeOK
<1>4. Reported
  BY <1>2 DEF Reported, CmdInv, StagesInOrder
<1>5. PlacesKept' /\ BaselineTrue'
  BY <1>2, <1>4 DEF PlacesKept, BaselineTrue, Known, InBaseline
<1> QED BY <1>1, <1>3, <1>5

LEMMA StopStep ==
  ASSUME IInv, Raise \/ Kill, UNCHANGED <<tree, walk, edits>> PROVE IInv'
<1> USE DEF IInv, Raise, Kill, Exit, Interrupted, result
<1>1. CmdInv'
  BY SharedKeeps
<1>2. stage' = "idle" /\ exit' \in {ToolError, Killed}
  OBVIOUS
<1>3. baseline' = baseline \/ baseline' = Torn
  OBVIOUS
<1>4. baseline'.prints \subseteq baseline.prints
  BY <1>3 DEF Torn
<1>5. TypeOK'
  BY <1>1, <1>2, <1>4 DEF TypeOK, CmdInv, walk
<1>6. ReadIsScanned' /\ Finite'
  BY <1>2 DEF ReadIsScanned, Finite, walk
<1>7. PlacesKept'
  BY <1>2 DEF PlacesKept, Reported, Verdict, ToolError, Killed, GateFailed
<1>8. BaselineTrue'
  BY <1>3, <1>4 DEF BaselineTrue, Torn
<1> QED BY <1>1, <1>5, <1>6, <1>7, <1>8

LEMMA StutterStep == ASSUME IInv, UNCHANGED vars PROVE IInv'
<1> USE DEF IInv, vars
<1>1. CmdInv'
  BY CmdStutterKeeps
<1> USE DEF cmdVars, result, files
<1>2. TypeOK' /\ ReadIsScanned' /\ Finite'
  BY <1>1 DEF TypeOK, CmdInv, ReadIsScanned, Finite
<1>3. PlacesKept' /\ BaselineTrue'
  BY DEF PlacesKept, BaselineTrue, Reported, Verdict, Known, InBaseline
<1> QED BY <1>1, <1>2, <1>3

LEMMA StepKeeps == IInv /\ [Next]_vars => IInv'
BY StartKeeps, CheckDependenciesKeeps, ReadSecretsKeeps, ReadCodeKeeps, EndWalkKeeps, EditKeeps,
   UpdateBaselineStep, UseBaselineStep, ReportStep, StopStep, StutterStep DEF Next

LEMMA Invariance == Spec => []IInv
<1>1. Init => IInv
  BY InitKeeps
<1>2. IInv /\ [Next]_vars => IInv'
  BY StepKeeps
<1> QED BY <1>1, <1>2, PTL DEF Spec

-----------------------------------------------------------------------------
(* Every state is typed: among others no audit has a failed target, and the  *)
(* walk has left what it is reading the code of.                             *)
THEOREM AuditTyped == Spec => []TypeOK
<1>1. IInv => TypeOK
  BY DEF IInv
<1> QED BY <1>1, Invariance, PTL

(* The deduplication of an audit and its baseline lose no place.             *)
THEOREM PlacesReported == Spec => []EachPlaceReported
<1>1. IInv => EachPlaceReported
  BY DEF IInv, PlacesKept, EachPlaceReported
<1> QED BY <1>1, Invariance, PTL

(* The line is no part of what the baseline knows a finding by, and the text *)
(* of a finding in a file is its rule's.                                     *)
THEOREM MovedStaysOut == Spec => []MovedIsNotNew
<1>1. ASSUME IInv, Reported, opts.baseline, NEW f \in findings, InFile(f),
             NEW g \in recorded, g.rule = f.rule, g.url = f.url, g.text = f.text
      PROVE  FALSE
  <2> USE DEF IInv
  <2>1. baseline.state = "ok" /\ Fingerprint(f) \notin baseline.prints
    BY <1>1 DEF CmdInv, BaselineApplied
  <2>2. PICK kept \in Deduped(recorded) : baseline.prints = Prints(kept)
    BY <1>1, <2>1 DEF BaselineTrue
  <2>3. PICK k \in kept : DedupeKey(k) = DedupeKey(g) /\ k \in recorded
    BY <2>2 DEF Deduped
  <2>4. k.rule = f.rule /\ k.url = f.url /\ k \in Finding /\ f \in Finding
    BY <1>1, <2>3 DEF DedupeKey, TypeOK, CmdTypeOK
  <2>5. k.text = f.text
    BY <1>1, <2>4, FindingParts DEF InFile
  <2>6. Fingerprint(k) = Fingerprint(f)
    BY <2>4, <2>5 DEF Fingerprint
  <2> QED BY <2>1, <2>2, <2>3, <2>6 DEF Prints
<1>2. IInv => MovedIsNotNew
  BY <1>1 DEF MovedIsNotNew
<1> QED BY <1>2, Invariance, PTL

(* An audit that exits 0 found nothing at the floor of --fail-on that the    *)
(* baseline does not know.                                                   *)
THEOREM AuditPassMeansClean == Spec => []AuditPassIsClean
<1>1. ASSUME IInv, Verdict, exit = 0, NEW f \in seen, NEW floor \in opts.failOn,
             Rank(SeverityOf[f.rule]) >= Rank(floor), ~Known(f)
      PROVE  FALSE
  <2>1. ~GateFails(findings, failed, opts.failOn, opts.failUnder)
    BY <1>1 DEF IInv, CmdInv, CodeIsVerdict
  <2>2. AtOrAbove(findings, floor) = {}
    BY <1>1, <2>1 DEF GateFails, Tripped
  <2>3. PICK g \in findings : SamePlace(f, g)
    BY <1>1 DEF IInv, PlacesKept
  <2>4. g \in AtOrAbove(findings, floor)
    BY <1>1, <2>3 DEF SamePlace, AtOrAbove
  <2> QED BY <2>2, <2>4
<1>2. IInv => AuditPassIsClean
  BY <1>1 DEF AuditPassIsClean
<1> QED BY <1>2, Invariance, PTL

(* As long as nobody edits, what the walk has behind it has yielded all that *)
(* is in it.                                                                 *)
WalkedRead ==
  /\ edits \in Nat
  /\ \A p, q \in at : p = q
  /\ WalkEnded => left = {} /\ at = {}
  /\ edits = 0 /\ (stage = "walk" \/ WalkEnded) =>
       \A path \in File : Scanned(rules, path) /\ path \notin left =>
         /\ SecretFindings(path, tree[path]) \subseteq seen
         /\ path \in Python /\ path \notin at => CodeFindings(path, tree[path]) \subseteq seen

LEMMA WalkStarts == ASSUME Init PROVE WalkedRead
BY DEF Init, CmdInit, WalkedRead, WalkEnded

(* A file leaves `left` with its secrets, and `at` with its code.            *)
LEMMA WalkReads == ASSUME IInv, WalkedRead, [Next]_vars PROVE WalkedRead'
<1> USE DEF WalkedRead, WalkEnded
<1>1. CASE Start
  BY <1>1 DEF Start, CmdStart, Exit
<1>2. CASE CheckDependencies
  BY <1>2 DEF CheckDependencies, Proceed
<1>3. CASE ReadSecrets
  <2>1. PICK path \in left : /\ left' = left \ {path}
                             /\ seen' = seen \cup SecretFindings(path, tree[path])
                             /\ at' = IF AlsoCode(path) THEN {path} ELSE {}
    BY <1>3 DEF ReadSecrets
  <2>2. stage = "walk" /\ at = {} /\ UNCHANGED <<stage, tree, rules, edits>>
    BY <1>3 DEF ReadSecrets
  <2>3. path \in Python /\ path \notin at' => CodeFindings(path, tree[path]) = {}
    BY <2>1 DEF AlsoCode, CodeFindings, Skipped
  <2> HIDE DEF WalkEnded
  <2>4. ~WalkEnded' /\ edits' \in Nat
    BY <2>2 DEF WalkEnded
  <2> QED BY <2>1, <2>2, <2>3, <2>4
<1>4. CASE ReadCode
  <2>1. PICK path \in at : seen' = seen \cup CodeFindings(path, tree[path])
    BY <1>4 DEF ReadCode
  <2>2. stage = "walk" /\ at' = {} /\ UNCHANGED <<stage, tree, rules, left, edits>>
    BY <1>4 DEF ReadCode
  <2>3. at \subseteq {path}
    BY <2>1
  <2> HIDE DEF WalkEnded
  <2>4. ~WalkEnded' /\ edits' \in Nat
    BY <2>2 DEF WalkEnded
  <2> QED BY <2>1, <2>2, <2>3, <2>4
<1>5. CASE EndWalk
  BY <1>5 DEF EndWalk, Proceed, walk
<1>6. CASE Edit
  BY <1>6 DEF Edit, walk, cmdVars
<1>7. CASE /\ UpdateBaseline \/ UseBaseline \/ WriteReport \/ EndReports \/ SendAlert \/ Gate
           /\ UNCHANGED <<tree, walk, edits>>
  <2>1. /\ stage \in {"baseline", "report", "alerts"} /\ seen' = seen
        /\ stage' \in {"idle", "report", "alerts"}
    BY <1>7 DEF UpdateBaseline, UseBaseline, WriteReport, EndReports, SendAlert, Gate, Exit,
                AfterUpdate, Proceed, result
  <2> QED BY <1>7, <2>1 DEF walk
<1>8. CASE (Raise \/ Kill) /\ UNCHANGED <<tree, walk, edits>>
  BY <1>8 DEF Raise, Kill, Exit, walk
<1>9. CASE UNCHANGED vars
  BY <1>9 DEF vars, cmdVars, walk, result
<1> QED BY <1>1, <1>2, <1>3, <1>4, <1>5, <1>6, <1>7, <1>8, <1>9 DEF Next

(* The walk never reads what a pattern documents, and reads the rest whole   *)
(* but for what a pattern matches below some directory.                      *)
THEOREM RulesAreKept == Spec => []OnlyIgnoredIsSilent
<1>1. ASSUME IInv, NEW f \in seen, NEW pattern \in rules, InFile(f), Documented(pattern, f.url)
      PROVE  FALSE
  <2>1. f.url \in File /\ Scanned(rules, f.url)
    BY <1>1 DEF IInv, ReadIsScanned
  <2>2. pattern \in [names : Seq(STRING), slash : BOOLEAN]
    BY <1>1, AuditAssumption DEF IInv, TypeOK
  <2>3. Suppresses(pattern, f.url)
    BY <1>1, <2>1, <2>2, DocumentedIsIgnored
  <2> QED BY <2>1, <2>3 DEF Scanned, Ignored
<1>2. ASSUME IInv, WalkedRead, WalkEnded, edits = 0, NEW path \in File,
             Reached(path), path # <<IgnoreFilename>>,
             \A pattern \in rules : ~MayCover(pattern, path)
      PROVE  FoundIn(path) \subseteq seen
  <2>1. \A pattern \in rules : pattern \in [names : Seq(STRING), slash : BOOLEAN]
    BY <1>2, AuditAssumption DEF IInv, TypeOK
  <2>2. Scanned(rules, path)
    BY <1>2, <2>1, IgnoredMayBe DEF Scanned, Ignored
  <2> QED BY <1>2, <2>2 DEF WalkedRead, FoundIn
<1>3. IInv /\ WalkedRead => OnlyIgnoredIsSilent
  BY <1>1, <1>2 DEF OnlyIgnoredIsSilent
<1>4. Init => WalkedRead
  BY WalkStarts
<1>5. IInv /\ WalkedRead /\ [Next]_vars => WalkedRead'
  BY WalkReads
<1> QED BY <1>3, <1>4, <1>5, Invariance, PTL DEF Spec
=============================================================================
