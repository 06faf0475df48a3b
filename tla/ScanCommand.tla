----------------------------- MODULE ScanCommand -----------------------------
(***************************************************************************)
(* Successive runs of `aegis scan` (cli.py: scan and run_scan) against a   *)
(* changing site, in one working directory, with the history database they *)
(* share.  The fetcher is what FetchPromise says of it: each request ends  *)
(* with an artifact or fails; the checks are what Runner says: the result  *)
(* of a loop over the artifacts.                                           *)
(***************************************************************************)
EXTENDS Command, WebScan

CONSTANTS
  Options,   \* the command lines used
  Pages,     \* sequences of pages a sitemap may list
  Snapshots  \* what the site may look like in a run: [URL -> set of issues]

CommandLine ==
  [failOn : SUBSET ToSet(SeverityOrder), failUnder : SUBSET Int,
   formats : SUBSET ToSet(Formats), alerts : SUBSET ToSet(Alerts),
   baseline : BOOLEAN, update : BOOLEAN,
   named : Seq(Url), sitemap : BOOLEAN, probe : BOOLEAN]

ASSUME ScanAssumption ==
  /\ Options \subseteq CommandLine /\ Pages \subseteq Seq(Url)
  /\ \A site \in Snapshots, u \in Url :
       IsFiniteSet(site[u]) /\ \A i \in site[u] : i.rule \in DOMAIN SeverityOf

VARIABLES
  targets,   \* the URLs it fetches
  history,   \* the runs recorded in history.db, in the order of their ids
  unread     \* history variable: what the run was asked to scan and never read

vars == <<cmdVars, targets, history, unread>>

Scan(named, formats) ==
  Reporting(formats) @@ [named |-> named, sitemap |-> FALSE, probe |-> FALSE]

Init ==
  /\ CmdInit
  /\ targets = <<>> /\ history = <<>> /\ unread = {}

-----------------------------------------------------------------------------
UpdateWithoutBaseline == {o \in Options : o.update /\ ~o.baseline}

Start ==
  /\ CmdStart(Options, UpdateWithoutBaseline, "targets")
  /\ targets' = <<>> /\ unread' = {}
  /\ UNCHANGED history

(* --url, --file and --sitemap are put together and expanded.  A sitemap     *)
(* that could not be fetched lists nothing.                                  *)
CollectTargets ==
  /\ stage = "targets"
  /\ \E listed \in Pages, read \in BOOLEAN :
       LET named == opts.named \o (IF opts.sitemap /\ read THEN listed ELSE <<>>)
       IN  /\ targets' = ExpandScanTargets(named, opts.probe)
           /\ unread' = IF opts.sitemap /\ ~read THEN {"sitemap"} ELSE {}
           /\ opts' = [opts EXCEPT !.named = Uniq(named)]
           /\ IF named = <<>> THEN Exit(UsageError) ELSE Proceed("fetch")
  /\ UNCHANGED <<run, result, todo, told, files, recorded, history>>

CorsProbe(url) == <<url, "(CORS probe)">>

(* What checks with these rules raise at these URLs. *)
Raised(site, urls, rules) ==
  UNION {{[rule |-> i.rule, text |-> i.text, url |-> u] :
            i \in {j \in site[u] : j.rule \in rules}} : u \in urls}

(* fetch_many and probe_cors, and the checks on what they brought: plain     *)
(* pages through CHECK_MODULES, probes through check_cors.  With nothing     *)
(* fetched there is no result.                                               *)
FetchAndCheck ==
  /\ stage = "fetch"
  /\ \E site \in Snapshots, got \in SUBSET ToSet(targets), probed \in SUBSET ToSet(opts.named) :
       LET raised == Raised(site, got, DOMAIN SeverityOf \ CorsRules)
                       \cup Raised(site, probed, CorsRules)
       IN  /\ failed' = (ToSet(targets) \ got) \cup
                        {CorsProbe(u) : u \in ToSet(opts.named) \ probed}
           /\ IF got = {}
              THEN Exit(UsageError) /\ UNCHANGED <<findings, seen>>
              ELSE /\ Proceed("baseline")
                   /\ seen' = raised
                   /\ findings' = DedupeFindings(raised, targets)
  /\ UNCHANGED <<run, opts, targets, todo, told, files, recorded, history, unread>>

SaveHistory_OnlyForHtml == IF "html" \in opts.formats THEN Append(history, run) ELSE history

SaveHistory == Append(history, run)

(* ScanHistory().add_scan, once the reports are written: one transaction. *)
RecordScan ==
  /\ stage = "report" /\ todo = {}
  /\ history' = SaveHistory
  /\ Proceed("alerts")
  /\ UNCHANGED <<run, opts, targets, result, todo, told, files, recorded, unread>>

Next ==
  \/ Start \/ CollectTargets \/ FetchAndCheck \/ RecordScan
  \/ /\ \/ UpdateBaseline \/ UseBaseline \/ WriteReport \/ SendAlert \/ Gate
        \/ Raise \/ Kill
     /\ UNCHANGED <<targets, history, unread>>

Spec == Init /\ [][Next]_vars

-----------------------------------------------------------------------------
Finding == [rule : DOMAIN SeverityOf, url : Url, text : {i.text : i \in UNION
              {site[u] : site \in Snapshots, u \in Url}}]

TypeOK ==
  /\ CmdTypeOK
  /\ stage \in {"idle", "targets", "fetch", "baseline", "report", "alerts"}
  /\ stage # "idle" => opts \in CommandLine
  /\ seen \subseteq Finding /\ recorded \subseteq Finding
  /\ baseline.prints \subseteq Prints(Finding)
  /\ targets \in Seq(Url) /\ IsInjective(targets)
  /\ failed \subseteq Url \cup {CorsProbe(u) : u \in Url}
  /\ history \in Seq(1..run)
  /\ unread \subseteq {"sitemap"}

(* What README.md and the comments call the same issue, spelled out. *)
SameIssue(f, g) ==
  /\ f.rule = g.rule /\ f.text = g.text
  /\ HostOf[f.url] = HostOf[g.url]
  /\ f.rule \in CorsRules => f.url = g.url

Known(f) == opts.baseline /\ \E g \in recorded : SameIssue(f, g)

(* Deduplication and the baseline together lose nothing: each issue a check  *)
(* raised is reported, or the scan that wrote the baseline had raised it.    *)
NothingLost ==
  Reported => \A f \in seen : Known(f) \/ \E g \in findings : SameIssue(f, g)

(* Nor is an issue of a host counted, and charged to the score, once per URL *)
(* it was seen at, of which --probe makes several.                           *)
CountedOnce ==
  Reported => \A f, g \in findings : SameIssue(f, g) => f = g

(* Exit code 0 under a gate: every request was answered, and no new issue at *)
(* or above the floor was raised on any page.                                *)
GatePassIsClean ==
  Verdict /\ exit = 0 /\ Gated =>
    /\ failed = {}
    /\ \A f \in seen, floor \in opts.failOn :
         Rank(SeverityOf[f.rule]) >= Rank(floor) => Known(f)

(* Whoever gets a verdict or an alert finds what it is about: all the        *)
(* reports the run was asked for and its entry in the history.  An exception *)
(* or a kill on the way ends the run before either.                          *)
VerdictIsOnRecord ==
  Verdict \/ told # <<>> =>
    ReportsAreCurrent /\ history # <<>> /\ Last(history) = run

(* --update-baseline never touches the reports or the history, nor alerts.   *)
UpdateIsQuiet ==
  [][stage # "idle" /\ opts.update => UNCHANGED <<report, history, told>>]_vars

-----------------------------------------------------------------------------
(* README.md:108-110: "a later run reports and gates only on what is new".   *)
OnlyNewReported == Reported /\ opts.baseline => findings \cap recorded = {}

(* cli.py:302-303: "Record what never got assessed so an incomplete scan     *)
(* can't read as a clean one in the report or the gate."                     *)
GatePassAssessedAll ==
  Verdict /\ exit = 0 /\ Gated => unread = {}
=============================================================================
