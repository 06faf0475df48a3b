---------------------------- MODULE AuditCommand ----------------------------
(***************************************************************************)
(* Successive runs of `aegis audit` (cli.py: audit; sast/scanner.py) over  *)
(* a tree that is edited between them, and under them: the dependency      *)
(* scanners run first, then each file is read for secrets and, a Python    *)
(* file, once more for its syntax tree.                                    *)
(*                                                                          *)
(* The content of a file is the set of its sites, each a rule and a line,  *)
(* or one of the ways in which it is skipped.                              *)
(***************************************************************************)
EXTENDS Command, IgnoreRules

CONSTANTS
  Options,      \* the command lines used
  Rules,        \* what .aegisignore may hold: sets of patterns
  File,         \* paths of the tree
  Python,       \* the ones that end in .py
  SecretRules,  \* rules of sast/secrets.py; the others are about code
  Contents,     \* what a file may hold
  Advisories,   \* what the dependency scanners may report: sets of advisories
  TextOf,       \* rule -> the description of a finding in a file
  Line,         \* line numbers
  MaxEdits      \* bound on edits, for TLC

CommandLine ==
  [failOn : SUBSET ToSet(SeverityOrder), failUnder : SUBSET Int,
   formats : SUBSET ToSet(Formats), alerts : SUBSET ToSet(Alerts),
   baseline : BOOLEAN, update : BOOLEAN]

Content == [state : {"text", "broken", "skipped"}, sites : SUBSET [rule : DOMAIN TextOf, line : Line]]

(* Rules of advisories, "vuln-pypi-..." and "vuln-npm-...", are no rules of  *)
(* the scanners of files.                                                    *)
ASSUME AuditAssumption ==
  /\ Options \subseteq CommandLine
  /\ File \subseteq Seq(STRING)
  /\ Rules \subseteq SUBSET [names : Seq(STRING), slash : BOOLEAN]
  /\ DOMAIN TextOf \subseteq DOMAIN SeverityOf
  /\ Contents \subseteq Content /\ \A content \in Contents : IsFiniteSet(content.sites)
  /\ \A advisories \in Advisories :
       /\ IsFiniteSet(advisories)
       /\ \A a \in advisories : a.rule \in DOMAIN SeverityOf \ DOMAIN TextOf

VARIABLES
  tree,   \* path -> content
  rules,  \* the patterns of .aegisignore in this run
  left,   \* files the walk has not come to
  at,     \* the Python file whose secrets have been read, if any
  edits   \* edits so far

vars == <<cmdVars, tree, rules, left, at, edits>>

walk == <<rules, left, at>>

(* No file at the path, or one over MAX_FILE_BYTES: it is not read at all. *)
Skipped == [state |-> "skipped", sites |-> {}]
(* Python that does not parse: its secrets are found, its code is not.  A    *)
(* file that is not UTF-8 is one without sites.                              *)
Unparsable(sites) == [state |-> "broken", sites |-> sites]
Text(sites) == [state |-> "text", sites |-> sites]

Init ==
  /\ CmdInit
  /\ tree \in [File -> Contents]
  /\ rules = {} /\ left = {} /\ at = {} /\ edits = 0

FindingAt(path, site) ==
  [rule |-> site.rule, url |-> path, text |-> TextOf[site.rule], line |-> site.line]

(* scan_file_for_secrets: the first match of each rule. *)
SecretFindings(path, content) ==
  LET secrets == {s \in content.sites : s.rule \in SecretRules}
  IN  {FindingAt(path, s) : s \in {s \in secrets :
         \A other \in secrets : other.rule = s.rule => s.line <= other.line}}

(* scan_python_ast. *)
CodeFindings(path, content) ==
  {FindingAt(path, s) : s \in {s \in content.sites :
     content.state = "text" /\ s.rule \notin SecretRules}}

(* check_python_dependencies and check_node_dependencies.  A scanner that is  *)
(* absent, crashes, times out or prints no JSON reports the empty set.        *)
DependencyFindings(advisories) ==
  {[rule |-> a.rule, url |-> a.manifest, text |-> a.text, line |-> 0] : a \in advisories}

DedupeKey_NoLine(f) == <<f.rule, f.url>>

DedupeKey(f) == <<f.rule, f.url, f.line>>

(* One finding of each key.  Only advisories of one name and manifest, one   *)
(* for each range of versions, differ in more: which of them comes first is  *)
(* up to the tool.                                                           *)
Deduped(found) ==
  {kept \in SUBSET found :
     /\ \A f \in found : \E g \in kept : DedupeKey(g) = DedupeKey(f)
     /\ \A f, g \in kept : DedupeKey(f) = DedupeKey(g) => f = g}

-----------------------------------------------------------------------------
(* --update-baseline without --baseline is noticed after the scan. *)
Start ==
  /\ CmdStart(Options, {}, "dependencies")
  /\ rules' = {} /\ left' = {} /\ at' = {}
  /\ UNCHANGED <<tree, edits>>

(* .aegisignore is read, then the dependency scanners run, and the walk may  *)
(* begin.                                                                    *)
CheckDependencies ==
  /\ stage = "dependencies"
  /\ rules' \in Rules
  /\ \E advisories \in Advisories : seen' = DependencyFindings(advisories)
  /\ left' = {path \in File : Scanned(rules', path)}
  /\ Proceed("walk")
  /\ UNCHANGED <<run, opts, failed, findings, todo, told, files, recorded, tree, at, edits>>

(* The suffix decides which files are read a second time. *)
AlsoCode(path) == path \in Python /\ tree[path] # Skipped

ReadSecrets ==
  /\ stage = "walk" /\ at = {}
  /\ \E path \in left :
       /\ left' = left \ {path}
       /\ seen' = seen \cup SecretFindings(path, tree[path])
       /\ at' = IF AlsoCode(path) THEN {path} ELSE {}
  /\ UNCHANGED <<run, stage, opts, failed, findings, todo, told, exit, files, recorded,
                 tree, rules, edits>>

ReadCode ==
  /\ stage = "walk"
  /\ \E path \in at : seen' = seen \cup CodeFindings(path, tree[path])
  /\ at' = {}
  /\ UNCHANGED <<run, stage, opts, failed, findings, todo, told, exit, files, recorded,
                 tree, rules, left, edits>>

EndWalk ==
  /\ stage = "walk" /\ left = {} /\ at = {}
  /\ findings' \in Deduped(seen)
  /\ Proceed("baseline")
  /\ UNCHANGED <<run, opts, failed, seen, todo, told, files, recorded, tree, walk, edits>>

(* Somebody saves a file: another content, or the same one further down. *)
Moved(content) == [content EXCEPT !.sites = {[s EXCEPT !.line = @ + 1] : s \in @}]

Edit ==
  /\ edits < MaxEdits
  /\ edits' = edits + 1
  /\ \E path \in File :
       \E content \in Contents \cup {Moved(tree[path])} :
         /\ \A s \in content.sites : s.line \in Line
         /\ tree' = [tree EXCEPT ![path] = content]
  /\ UNCHANGED <<cmdVars, walk>>

(* An audit has no history. *)
EndReports ==
  /\ stage = "report" /\ todo = {}
  /\ Proceed("alerts")
  /\ UNCHANGED <<run, opts, result, todo, told, files, recorded>>

Next ==
  \/ Start \/ CheckDependencies \/ ReadSecrets \/ ReadCode \/ EndWalk \/ Edit
  \/ /\ \/ UpdateBaseline \/ UseBaseline \/ WriteReport \/ EndReports \/ SendAlert \/ Gate
        \/ Raise \/ Kill
     /\ UNCHANGED <<tree, walk, edits>>

Spec == Init /\ [][Next]_vars

-----------------------------------------------------------------------------
Finding ==
  {FindingAt(path, [rule |-> rule, line |-> line]) :
     path \in File, rule \in DOMAIN TextOf, line \in Line}
    \cup UNION {DependencyFindings(advisories) : advisories \in Advisories}

TypeOK ==
  /\ CmdTypeOK
  /\ stage \in {"idle", "dependencies", "walk", "baseline", "report", "alerts"}
  /\ opts \in CommandLine
  /\ seen \subseteq Finding /\ recorded \subseteq Finding
  /\ baseline.prints \subseteq Prints(Finding)
  /\ failed = {}
  /\ tree \in [File -> Content]
  /\ rules \in Rules \cup {{}} /\ left \subseteq File /\ at \subseteq Python \ left

InFile(f) == f.rule \in DOMAIN TextOf

SamePlace(f, g) == f.rule = g.rule /\ f.url = g.url /\ f.line = g.line

InBaseline(f) ==
  opts.baseline /\ \E g \in recorded : g.rule = f.rule /\ g.url = f.url /\ g.text = f.text

(* In a file the rule decides the text, so that g is f. *)
Known(f) == \E g \in seen : SamePlace(f, g) /\ InBaseline(g)

(* scanner.py:65-68: "two eval() calls on different lines of the same file   *)
(* are two real findings".  However the tree changed under the walk, what    *)
(* was found is reported place by place, but for the issues of the baseline. *)
EachPlaceReported ==
  Reported => \A f \in seen : Known(f) \/ \E g \in findings : SamePlace(f, g)

(* README.md:124: "inserting unrelated code above a finding does not make it *)
(* look new": what the baseline has of a file stays out of the report        *)
(* wherever it moves to.                                                     *)
MovedIsNotNew ==
  Reported /\ opts.baseline =>
    \A f \in findings : InFile(f) =>
      ~\E g \in recorded : g.rule = f.rule /\ g.url = f.url /\ g.text = f.text

(* Exit code 0 under --fail-on: no scanner and no file had anything at or    *)
(* above the floor but what the baseline already had.                        *)
AuditPassIsClean ==
  Verdict /\ exit = 0 =>
    \A f \in seen, floor \in opts.failOn :
      Rank(SeverityOf[f.rule]) >= Rank(floor) => Known(f)

SameNames(globs, names) ==
  Len(globs) = Len(names) /\ \A i \in DOMAIN globs : NameMatches(globs[i], names[i])

(* What .aegisignore documents a pattern to leave out (ignore.py:8-11): what *)
(* it names from the scan root, and all below a directory it names.          *)
Documented(pattern, path) ==
  \/ IsPrefix(pattern.names, path)
  \/ ~pattern.slash /\ SameNames(pattern.names, path)

(* What it may leave out besides, as a glob is matched from the right: the   *)
(* same names below any directory.  A "*" stands for one of them and crosses *)
(* no "/" (ignore.py:82-85).                                                 *)
MayCover(pattern, path) ==
  \/ Documented(pattern, path)
  \/ ~pattern.slash /\ \E i \in 1..(Len(path) + 1) :
                         SameNames(pattern.names, SubSeq(path, i, Len(path)))

WalkEnded == stage \in {"baseline", "report", "alerts"}

(* All there is to find in a file as it is now. *)
FoundIn(path) ==
  SecretFindings(path, tree[path])
    \cup (IF path \in Python THEN CodeFindings(path, tree[path]) ELSE {})

(* .aegisignore leaves out what it documents, and no more: nothing is found  *)
(* in a file that a pattern documents; and in a tree that nobody edits, all  *)
(* there is to find is found in each other file, unless a pattern matches it *)
(* name by name below some directory or the walk never descends to it.       *)
(* The dependency scanners, which read manifests on their own, ignore it.    *)
OnlyIgnoredIsSilent ==
  /\ \A f \in seen, pattern \in rules : InFile(f) => ~Documented(pattern, f.url)
  /\ WalkEnded /\ edits = 0 =>
       \A path \in File :
         (/\ Reached(path) /\ path # <<IgnoreFilename>>
          /\ \A pattern \in rules : ~MayCover(pattern, path)) => FoundIn(path) \subseteq seen
=============================================================================
