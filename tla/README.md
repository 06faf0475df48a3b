# A verification of AegisAudit in TLA+

AegisAudit (`src/aegisaudit/`) is a command line tool with two commands. `aegis
scan` fetches web pages, runs passive checks on the responses and reports the
findings; `aegis audit` does the same for a source tree. Both put their findings
through a baseline, write reports, and end with an exit code that CI gates on.
This directory holds TLA+ modules for the parts of it that are hard to test,
the configurations TLC checks them with, and proofs for TLAPS.

## The system

| part | source | state | operations | hard |
|---|---|---|---|---|
| SSRF guard | `ssrf.py` | none | judge a URL, judge the addresses of a host, connect to one of them | the host is looked up twice, and again for every redirect |
| Fetcher | `fetcher.py` | semaphore, rate lock, connection pool, cookie jar | `fetch_many`, `probe_cors`, `get_text`, `close` | tasks interleave at every await; every exit path must release; one failure must not sink a batch |
| Sitemap discovery | `sitemap.py` | URLs so far | `discover_sitemap_urls` | documents that fail, do not parse, nest or repeat; two caps that meet |
| Check runner | `runner.py` | thread pool, findings | `run_checks` | checks run in any order and may raise |
| Checks | `checks/` | none | one decision each on a response, a certificate or DNS answers | what directives of a CSP mean together; remedies that raise other findings; time zones; lookups that fail |
| Scan command | `cli.py` | targets, result | `scan`, `run_scan` | any step may fail, raise or be killed |
| Audit command | `cli.py`, `sast/` | result | `audit`, `SASTScanner.scan` | the tree changes under the walk |
| Ignore rules | `sast/ignore.py` | patterns | `matches` | glob semantics |
| Scoring, gating | `scoring.py`, `gating.py` | none | score, verdict | boundaries; incomplete scans; the thresholds of the other channels |
| Baseline | `baseline.py` | the baseline file | write, load, apply | torn files; what makes two findings the same |
| History | `history.py` | `scan_history.db` | `add_scan`, `get_history` | runs that share it, statement by statement; a run that dies with the write lock |
| Reporters | `reporters/` | the report files | one writer per format | a run that dies between two of them |
| Notifications, Notion | `notifications.py`, `integrations/` | none | one request each | errors are swallowed |
| Configuration | `config.py`, `policy.py`, `models.py` | none | load | none |

`scan` calls the sitemap discovery, which fetches through a fetcher of its own;
then `run_scan` has a second fetcher fetch all targets and send the Origin probes,
closes it, hands the artifacts to the runner, and gives the result to the back half
that `audit` shares: baseline, reports, (history,) alerts, gate. The HTML report reads the
history before the scan adds itself to it. Apart from the fetcher's
tasks and the runner's threads all of it is sequential; what makes it hard is that
each run reads files an earlier one may have left half written, and that the exit
code must never say more than the run found out.

What makes each part correct:

- guard and fetcher: nothing goes out but what the scope permits; limits hold; a
  probe is anonymous; every request ends with an artifact or a failure, unless endless
  responses have every slot; `close()` comes last;
- rate limiter: a scan is never ahead of its rate;
- runner: the outcome is that of a loop, and an exception is never lost;
- sitemap: the list is what the documents say, cut once; requests are bounded;
- checks: what they say of a CSP is what a browser makes of the directives they read; a certificate is
  reported in time; a remedy that is followed pays; a lookup that fails is blamed
  on nobody;
- commands: no issue is lost between a check and the report, exit code 0 and 1
  mean what `gating.py` says they mean, in spite of crashes, and what is high alarms on
  every channel, and what the summary calls ok is ok on all of them;
- history: each scan is recorded once and whole, whoever else writes, and no run
  waits for ever.

## The modules

| module | models | built on |
|---|---|---|
| `SsrfGuard` | verdicts of `ssrf.py` (pure) | |
| `Fetcher` | `fetcher.py` over the pinned transport | `SsrfGuard` |
| `FetchPromise` | what `run_scan` relies on the fetcher for (abstract) | |
| `FetchPacing` | limiter, slots and redirects in time | |
| `Sitemap` | `discover_sitemap_urls` | |
| `Runner` | `run_checks` and its thread pool | |
| `Scoring` | severities and what they cost (pure) | |
| `Findings` | gating and baseline decisions (pure) | `Scoring` |
| `Channels` | what summary, SARIF and alerts make of a result (pure) | `Findings` |
| `WebScan` | target expansion and deduplication of a scan (pure) | |
| `Command` | the half both commands share: files, stages, alerts, exit codes | `Channels` |
| `ScanCommand` | successive runs of `aegis scan` | `Command`, `WebScan` |
| `IgnoreRules` | `.aegisignore` and the walk's exclusions (pure) | |
| `AuditCommand` | successive runs of `aegis audit` and edits of the tree | `Command`, `IgnoreRules` |
| `History` | `scan_history.db` under runs that share it | |
| `HistoryLog` | what the history promises (abstract) | |
| `HeaderChecks`, `PageChecks`, `HostChecks` | the decisions of `checks/` (pure) | |
| `Remedies` | what the remediation texts tell an operator to do (pure) | `PageChecks`, `HostChecks` |
| `Posture` | a site scanned over time: remedies, ageing, failing lookups | `Remedies`, `Scoring` |
| `FetcherProofs` | proofs about the fetcher and its pace | `Fetcher`, `FetchPacing` |
| `RunnerProofs` | proofs | `Runner` |
| `SitemapProofs` | proofs | `Sitemap` |
| `CommandProofs` | proofs about what both commands share | `Command` |
| `ScanCommandProofs` | proofs | `ScanCommand`, `CommandProofs` |
| `AuditCommandProofs` | proofs | `AuditCommand`, `CommandProofs` |
| `HistoryProofs` | proofs | `History` |
| `PostureProofs` | proofs about the checks, the remedies and the posture | `Posture` |
| `MC*` | instances for TLC | |

A definition `X_Slip` beside a definition `X` is what `X` would be after a
plausible slip (a dropped guard, an off-by-one). Nothing uses it: it is there to
put in the place of `X`, which makes the property that watches over `X` fail.

### Fetcher, SsrfGuard, FetchPromise

`pc[t]` is where task `t` is in `fetch()`: `rate` and `sleep` (the rate limiter),
`slot` (waiting for the semaphore), `send` (validated, request built), `connect`
(`connect_tcp` has its list of addresses), `wire` (request out), `artifact` or
`failed`. One action is the code between two awaits. Guards and updates come from
the code; the network is nondeterministic: every lookup answers anew (`Answers`),
a peer refuses, times out, redirects anywhere in `Url`, sets a cookie or drops the
connection. The pool (`idle`, `PoolSize`) and the jar are external: they
are modelled from how `fetcher.py` configures httpx. An address is a
class (public, private, loopback, ...), an optional IPv4-mapped class, and a number
to tell addresses apart; how Python's `ipaddress` computes the class is left out.

`FetchPromise` knows three variables: the outcome of each task, the request it has
out, and the batch. The refinement mapping in `Fetcher` (`Outcome`, `Wire`)
hides the limiter, the semaphore, the pool, the lookups and the redirects:
`ImplementsPromise` says that each step of the fetcher is a step of the promise or
none, and that its fairness gives the promise's: as long as fewer responses are endless than
there are slots, every other request of the batch ends. With three fetches on two
slots TLC confirms that this bound is tight: two endless responses stop the third fetch.

### FetchPacing

The same tasks, here the calls of `fetch`, with a clock and without the network, since spacing is a
property of time: `passes` and `starts` record when the limiter let a call through and when
requests went out. With `Prompt`, time passes only when no call can run.

### Runner

Artifacts are numbers in submission order, a check is the sequence of findings it
returns or `Raises`. Which thread has an artifact cannot be observed, so the pool
is a bound on `running`.

### Sitemap

A document is what a request brought: nothing, text that does not parse, a urlset
or an index. `read` records all of them, so that the result can be compared with
what they say. `--max-urls` has no lower bound, so `Caps` includes -1, which Python's slice
counts from the end.

### Command, ScanCommand, AuditCommand and their pure modules

`stage` is how far a run has come; between runs it is `idle`, and the files
(`baseline`, `report`, `history`) stay. `Raise` (an exception reaches `_guarded`)
and `Kill` may strike at every stage and leave the file that is being written as it
was or torn. `seen`, `recorded` and `unread` are history variables: what the checks
raised, what they had raised when the baseline was written, and what a run was asked
to scan and never read.

In `ScanCommand` the site is a snapshot, chosen anew in each run, of the issues of
each URL; any request and any probe may fail. The fetcher stands in it as what
`FetchPromise` says, the runner as what `SameAsSequential` says. In
`AuditCommand` a file is the set of its sites (rule and line); `Edit` changes a
file between any two steps, also between the read for secrets and the read for code.
npm names one advisory once per range of versions it affects, and the walk drops all but
the first; which is first is up to the tool, so that `Deduped` is a set of outcomes.
`Findings` takes SHA-256 to be injective and a fingerprint to be what it hashes.

`told` holds the status each alert told, or that its request was lost:
`send_webhook`, `send_telegram` and `push_to_notion` swallow every error and send once,
in this order, after the reports and before the gate. A colour, an emoji or a word is
the status it stands for (`ok`, `warn`, `fail`).

### History, HistoryLog

`pc[r]` is the statement run `r` is at and `task[r]` what it opened the database for: the
HTML report (`get_history`) or `add_scan`. `db` is what every connection reads, `tx`
what the one write transaction sees, `writer` who has it. SQLite is external, and is modelled from how
`history.py` uses Python's `sqlite3`: a transaction is opened by the first INSERT and
not by CREATE TABLE or SELECT, statements are atomic, one connection writes at a
time, and a commit, a rollback or the death of the process gives up the lock. So
the two CREATE TABLEs are committed one by one, and the queries of `get_history` are
no transaction. `Raise` may strike at any statement, which includes a lock not had
within the 5 seconds `sqlite3` waits.

`HistoryLog` knows a log, what each report shows and how each run ended. In the mapping the
log is the rows of `scans`; a report shows what it has read and what the rows it has still to read will
bring, so that the abstract report is made at one moment, that of the first query.

### The checks, Remedies, Posture

A header is absent or its parsed value; a CSP is a sequence of directives, each with a set
of sources, and sources that no check tells apart are one. Which of the patterns
match a body, and which tags load what, are inputs. Time is counted in half days: the
tool compares `notAfter`, which is GMT, with local time, which is at most half a day behind
it and less than a whole one ahead (UTC+14), and `timedelta.days` rounds down. The checks of
exposed files and of `security.txt` ask how the URL ends; one path stands for those that end
alike.

In `Posture` the state is a page, its host and its DNS, and a scan is a function of it,
since scanning changes nothing. The actions are what happens between two scans: the operator
does what the `remediation` of one finding says (`Remedies`; a text that offers a choice
is a set of outcomes), half a day goes by, a lookup fails. `RemedyPays` has two exceptions, both in the code:
a handshake that is looked at for the first time (of a page that was asked for over plain HTTP), or that
verifies at last, shows what nobody saw before (`Uncovered`), and a first CSP that
consists of `frame-ancestors` alone, as the remediation for clickjacking asks, is charged for
what it leaves out (`FirstCsp`). The first of them was too narrow until its proof was tried: it was made for
rejected certificates only, and TLC confirmed that moving a page to HTTPS, as the remediation
of `cookies-over-http` asks, may lower the score when the certificate is about to run out.
The types (`Page`, `Host`, `Dns`, `Policy`) say what a scan may meet at all, of any size; `Starts` is
what TLC starts from. `Word` is `STRING`, with the literals named that the prover cannot tell are strings. What a browser makes of a CSP (`InlineRuns` and its
neighbours, the reference of `CspJudgedRight`) is written from the first directive of each name
and its fallback, without `_parse_csp` and the rest. It knows `script-src-elem` and `script-src-attr`,
which `headers.py` does not; of a CSP with one of these, `CspJudgedRight` says nothing about
inline and arbitrary scripts.

## The runs

Bounds are in the configurations, with a comment each.

| run | question | bounds, and why they are enough |
|---|---|---|
| `fetcher_guard` | limits, address policy, anonymity, closing, and the refinement | 2 fetches and 1 probe on 2 slots and 2 connections, 3 URLs, 2 redirects; every pair of roles meets (two in a batch, one across), slots and connections run out, and the pool evicts |
| `fetcher_scoped` | an allowlisted internal host; termination if no response is endless | `max_concurrency` 0, a pool of one, rate limit on |
| `pacing_limiter` | are passes spaced under any schedule | 3 tasks, 2 slots, interval 2, horizon 7: all three get through, late or on time |
| `pacing_starts` | are request starts spaced | *violated*: one slot and a response slower than the interval |
| `runner` | sequential outcome, exceptions, termination | 1 and 4 artifacts, limits 0, 2 and 9, two checks that raise |
| `sitemap_bounds` | is the list what the documents say, is the caller told of pages that were cut off | 3 children of which 2 are considered, 3 pages, pages repeated in the root and in children, caps -1 to 4: below, at and above what there is |
| `scan_gate` | is no issue lost, what do exit codes mean, are reports current, how far do the channels agree | 2 runs, one to write a baseline and one to use it; seven command lines, with floors of high, medium and low, thresholds of 80 and 100, and alerts with each; 2 pages; five rules, of four severities, one of them per URL |
| `scan_reordered` | does a baseline leave only what is new | *violated*: the pages named in another order |
| `scan_sitemap` | does what was not assessed keep the gate from passing | *violated*: a sitemap that was not fetched |
| `audit_baseline` | the same for audits, under edits; are the ignored files ignored, and no others | 2 runs and 1 edit at any time, 2 files of 5 contents, one of them two directories deep, 4 rule files (a name, subtrees, globs that match and globs that must not), one advisory |
| `history_log` | is the database the log of `HistoryLog`, is what a report shows whole, does every run end | 3 scans and an audit, so that a writer, a waiter, a reader and a run that died meet; a scan and the audit report; a report of 2 entries, fewer than there may be; overlapping targets |
| `posture` | is a CSP judged right, is a certificate reported in time, do remedies pay, are lookups not blamed | each aspect of a site varied from a sound one: CSPs of up to two directives with up to two of five sources (one of them `script-src-elem`), headers under two policies, cookies, tags, exposed files, probes; certificates from 32 days before their end to 2 after it half a day west, at and a day east of GMT; every combination of DNS answers; then any sequence of remedies |

`CHECK_DEADLOCK FALSE` is set everywhere, because each system may stop: the
fetcher when closed, the runner when returned, the commands after `MaxRuns`.

The three violated runs each check one sentence of the documentation or a comment
that the code does not keep; `PROJECT.json` quotes them. None of them is a crash.
They matter to users of a baseline (`scan_reordered`), to
whoever relies on the gate (`scan_sitemap`) or on the exact limit of a rate
(`pacing_starts`).

Smaller disagreements met on the way, without a run of their own:

- `sitemap.py:66-70` says the flag tells that URLs were dropped; when the cap is met
  exactly, with a child sitemap unread, the flag stays down (`sitemap.py:93`). `FlagMeansDropped` takes no
  side there: it wants the flag up for every page that was read and cut off, and down when there is
  neither such a page nor an unread child.
- `sast/ignore.py:8` calls patterns relative to the root; `src/*` also ignores `vendor/src/app.py`, and
  `*` every file, as `PurePosixPath.match` compares from the right. `OnlyIgnoredIsSilent` demands silence of
  what the documentation leaves out, allows it of what a pattern matches name by name below some
  directory (`MayCover`), and forbids it of every other file.
- `models.py:86-88` wants a failed target never mistaken for a healthy one; the
  summary and the gate see to it, the alerts look at the score alone. So an alert may say `ok` while the
  gate fails: of a failed target, of a finding at a floor of `low` or `info`, of a `--fail-under` above 90.
  `ChannelsAgree` states where the tables do agree, and its comment where they do not.
- `checks/headers.py` does not read `script-src-elem` and `script-src-attr`, which browsers consult before
  `script-src`: `default-src 'none'; script-src-elem *` lets any script run and is not reported.
- `docs/06-config-policy.md:14` gives a timeout for requests; `fetcher.py:38` makes it httpx's, which bounds
  each operation. A response that keeps coming is read for ever (`fetcher.py:132`, `135`).
- `checks/headers.py:3` says that presence checks are driven by `config.policy`; those
  of HSTS, X-Content-Type-Options, clickjacking and COOP are not.
- `scoring.py:79` has an exposed `.git` as critical; `git-repo-exposed` is high.
- A root sitemap is not deduplicated, its children are.
- The description of an expiring certificate counts days and is part of its fingerprint.

### Fairness

`Fetcher`: weak fairness of the gathers and of each task's steps but those on the wire. The event loop
runs what is ready, looking up a host and connecting to it end (the resolver and httpx's connect timeout bound them),
but nothing bounds a response: httpx's timeout is per read, and the body is read whole. So `Termination` says that the scan
ends if every task leaves the wire again and again, and the fairness of `FetchPromise` that endless responses
hold up nobody else while there are fewer of them than slots. The redirects need no such assumption: each
hop leaves the wire, and their number is bounded by the code. The semaphore needs no strong fairness: a task
that has a slot leaves it for good, or never. `Sitemap` states weak fairness of its next step, on which no checked
property rests (its `get_text` has the limit just named). `Runner`: weak fairness of the
next step, since the checks' sockets and resolvers have timeouts.
`History`: weak fairness of each run's own statements: a process that can go on does.
That a statement fails or a process dies is not relied on, so that `EveryRunEnds`
rests on the lock being given up: by `history.py` when a statement raises, by SQLite and the operating system when
the process dies. The commands and `Posture` claim no liveness.

## The proofs

`FetcherProofs` shows for any finite sets of fetches and probes, any URLs, any
answers, any scope and any limits (the `ASSUME`s of `Fetcher`: finite sets of tasks
and addresses, integer limits, a pool of at least one):

| theorem | property |
|---|---|
| `TypeCorrect` | `TypeOK` |
| `PermitsAddUp` | `PermitsConserved` |
| `InFlightStaysBounded` | `InFlightBounded` |
| `TrafficGuarded` | `OnlyPermittedTraffic` |
| `ProbesStayAnonymous` | `ProbesAnonymous` |
| `ClosedIsQuiet` | `QuietOnceClosed` |
| `PromiseKept` | the safety part of `ImplementsPromise` |

The inductive invariant `IInv` is `TypeOK /\ PermitsConserved /\ HasPeer /\ Guarded
/\ ProbesAnonymous /\ Gathered`. `OnlyPermittedTraffic` speaks of tasks on the wire
alone and is not inductive: `Guarded` adds that whoever is inside the semaphore block was
let in by name, and that every address in a task's list and every
connection in the pool was let in by address, which is what reuse of a connection
rests on. `HasPeer` says that such a list is not empty, `Gathered` that behind the
batch being gathered everything has ended; with it, `QuietOnceClosed` follows. The
bound on connections needs the pool's own count and has an invariant of its own.
Each action has a lemma; the exits from the block share `LeaveKeeps`, the steps that
move a permit share `CounterStep`. The refinement maps each action under `IInv`.

`RunnerProofs` shows for any scan and any value of `max_concurrency` (`ScansAssumption`,
`LimitsAssumption`; `ResultsAssumption`: a check returns a sequence or raises;
`OrderAssumption`: `_sort_key` orders findings up to equal keys, as tuples do):

| theorem | property |
|---|---|
| `TypeCorrect` | `TypeOK` |
| `ExceptionsSurface` | `NoCheckLost` |
| `PoolIsLeft` | `NoneLeftRunning` |
| `OrderOfWorkersIsLost` | `SameAsSequential` |

The first three follow from `IInv` (`Judged`: what a worker has behind it did not raise;
`Collected`: nor did what the main thread has collected). `SameAsSequential` speaks of the
end alone. `Worked` and `Merging` say how far the loop it is compared with has come, in each
worker and in the main thread; `RunCheckWorks` and `CollectWorks` each take that loop one turn
on. That deduplication and sorting then do what they say is about the two operators: `Ranked`
shows that a strict total order on a finite set ranks its elements without gaps,
and `DedupeParts` and `SortedParts` apply it.

`FetcherProofs` also shows `PassesSpaced` (`LimiterSpaces`) and `NeverAheadOfRate`
(`RateIsKept`) of `FetchPacing`, for any number of calls, slots and redirects, any interval, and any
lateness of timers and servers. Neither is inductive: both need that one call
sleeps at a time (`OneSleeper`, the lock) and that its wake time is an interval after
every pass and after the pace so far (`WakesInPace`).

`HistoryProofs` shows for any runs, audits, targets and length of the report's
history (`HistoryAssumption`):

| theorem | property |
|---|---|
| `HistoryTyped` | `TypeOK` |
| `NoTornEntry` | `EntriesWhole` |
| `SchemaComesFirst` | `TablesReady` |
| `DatabaseIsLog` | `ImplementsLog` |

`EntriesWhole` is about what a report has read and is not inductive. The invariant
adds what the readers rest on: in the database as others see it the rows of each scan are exactly
its targets (`RowsWhole`), the ids still to be read are there (`UnreadThere`), a run is between
its first INSERT and the commit exactly when it has the lock (`OneWriter`), and the transaction
differs from the database by one scan, at the end, and rows of it (`Transaction`).
`CommitAppends` is the heart of it: when nothing is left to insert, a commit makes the log longer
by a scan that is whole and changes none of the others. For the refinement `Progress` ties how far a run
is to what it has recorded, and `EntryStays` says that the rows of a recorded scan never change,
which is why an entry read late is the one the first query would have had.

`SitemapProofs` shows for any documents at any URLs, any bound on children and any cap,
negative ones included (`CapsAssumption`, `DocumentsAssumption`):

| theorem | property |
|---|---|
| `DiscoveryTyped` | `TypeOK` |
| `SliceReturned` | `ResultIsSlice` |
| `ChildrenAsked` | `NoChildMissed` |
| `SiteIsBounded` | `Bounded` |
| `DropsAreTold` | `FlagMeansDropped` |

`IInv` adds what discovery has requested (`Requested`: the root, then its first children in order)
and that what it has gathered is all the documents list so far (`Gathered`). The code keeps
a list and a set and adds to both page by page; `Listed` orders all pages by where they first occur. That
the two agree is `ListIsUnique`: a sequence that has each of some pages once, in the order of
their first places, is determined by them. `ListMore` says that a document added at the end only adds at the end.

`CommandProofs` holds what both commands rest on, for any rules and severities, command lines and number of runs
(`SeverityAssumption`: every rule has one of the five severities; `MaxRunsAssumption`). Its invariant `CmdInv` ties the
stage of a run to its options, its files and its alerts (`StagesInOrder`, `ReportsInOrder`, `ToldStatus`), the findings
to the baseline file (`BaselineApplied`) and the exit code to the gate (`CodeIsVerdict`). There is a lemma for each action of
`Command`, `EarlyKeeps` for the steps before the baseline, which are the two commands' own, and
`PenaltyCounts` and `ScoreOfFindings` about the score: it is the tables of `scoring.py` and `notifications.py` together that keep an alert from
saying `ok` of what trips a floor of `medium` or worse, or a threshold of 90 or less.

`ScanCommandProofs`, for any pages, snapshots of the site and rules (`WebScanAssumption`, `ScanAssumption`:
a page has finitely many issues):

| theorem | property |
|---|---|
| `ScanTyped` | `TypeOK` |
| `IssuesReported` | `NothingLost` |
| `IssuesCountOnce` | `CountedOnce` |
| `PassMeansClean` | `GatePassIsClean` |
| `OneMeansTripped` | `ExitOneMeansTripped` |
| `VerdictRecorded` | `VerdictIsOnRecord` |
| `NoVerdictOnBrokenBaseline` | `BrokenBaselineStops` |
| `ChannelsConsistent` | `ChannelsAgree` |
| `UpdatesAreQuiet` | `UpdateIsQuiet`, an action property |

None of the properties is inductive. `IInv` adds to `CmdInv` that findings stand for what was raised, each issue once
(`IssuesKept`, from the end of the checks), that the baseline file has nothing its scan had not raised
(`BaselineTrue`), and that the run is in the history before anything is told (`HistoryTrue`). `DedupeKeeps` is the lemma about
`dedupe_findings`: of the findings of an issue the one whose URL comes first stays, and there is one because the
targets are each once in their list.

`AuditCommandProofs`, for any tree, edits, advisories, scanner rules and ignore rules (`AuditAssumption`: a file
has finitely many sites, an advisory is one of the dependency scanners'):

| theorem | property |
|---|---|
| `AuditTyped` | `TypeOK` |
| `PlacesReported` | `EachPlaceReported` |
| `MovedStaysOut` | `MovedIsNotNew` |
| `AuditPassMeansClean` | `AuditPassIsClean` |
| `RulesAreKept` | `OnlyIgnoredIsSilent` |

Here `IInv` says that what is left to read and what was found is in files the rules let the walk read
(`ReadIsScanned`), that deduplication leaves a finding of each place (`PlacesKept`), and that a
baseline file that is whole has the fingerprints of all its audit reported (`BaselineTrue`), which is
what keeps moved code out of the next one. `RulesAreKept` adds `WalkedRead`: in a tree without edits, what the walk is past
has been found, file by file, by the walk's own order.

`PostureProofs` shows for any site (`StartsAssumption`: a CSP is a sequence of any directives with any
sources, a Strict-Transport-Security header one of any parts, a page has any finite number of cookies, tags and
matches, a host any validity, a lookup any records, and the policy is any):

| theorem | property |
|---|---|
| `PostureTyped` | `TypeOK` |
| `CspJudged` | `CspJudgedRight` |
| `ExpiryTold` | `ExpiryToldInTime` |
| `FailuresBlameNobody` | `LookupsNotBlamed` |
| `RemediesPay` | `RemedyPays` |

The first four are about one state or one lookup. `CspJudged` is as far-reaching as `CspJudgedRight`: about eval and
objects for every CSP, about other scripts for those without `script-src-elem` and `script-src-attr`. `JudgedRight` compares two readings of a CSP: `Parsed` says what
`_parse_csp` makes of repeated directives, `ScriptsGoverned` that without a finer directive all scripts are
`script-src`'s, `GoverningIs` that the fallback of the code and of
the browser agree unless a directive is empty, and the rest is the algebra of what a nonce and `'strict-dynamic'` take
away. That a host whose validity is over is rejected is part of its type and inductive, and is why no time
zone makes an expired certificate silent.

`RemediesPay` is about every finding of every check. One lemma for each check says which findings it has
(`InHsts`, `InCookies`, `InTls`, ...), one for each remedy what it leaves behind: most bring nothing new; the others
(`Trades`) bring at most one finding, of no greater penalty, as a first header without
`includeSubDomains` does. What a directive or a record that is put does to the one that counts is `DirectiveSet`, `AgeSet`
and `RecordPut`, each with the uniqueness of a first (or last) element. No two groups of checks share a rule
(`RulesApart`, `GroupsApart`), so a finding that is gone from its group is gone from the report. The score follows by
counting: what is found is finite (`FoundRated`), `NumberTraded` bounds the number of findings of each severity, and
`ScoreNoLower` adds their penalties up. `TypeOK` is the inductive invariant: `PagePays`, `HostPays` and `DnsPays` also say
that what a remedy leaves is a page, a host or DNS that the checks can be asked about again.

TLC checked each of these inductive invariants as an invariant of the runs' instances before it was
proved.

Folds and `FlattenSeq` are recursive. The proofs reach them through induction over sets: `Least`
(a set of naturals has a least element, from the well-foundedness of `<`) gives `Induction` for a set `S` in place of a
predicate, and with it that the function a fold picks exists (`LoopExists`) and what it is from one turn to the next
(`Loop`, `FlattenAppends`). Modules that need these lemmas state them each for their own constants.

Only model-checked: liveness under fairness (`Termination`, `EveryRunEnds`, the fairness of
`ImplementsPromise`), which the prover does not handle, and, by nature, what the three violated runs show.

## Not modelled

- The regular expressions of the content checks and secret scanners, the AST patterns and the
  JSON of the dependency scanners: what they match is an input of the models.
- The TLS handshake and the resolver: which certificate, protocol or records they bring is
  an input. A check that cannot connect raises nothing, by design, and so do the models.
- How httpx joins two headers of one name (a hazard in the list), and how bodies are decoded.
- Reading YAML into the configuration; the limits and the scope are CONSTANTS, the header policy
  is part of what `Posture` starts from.
- The layout and wording of reports, tables and messages, and the categories and subscores they show
  (`resolve_category`); that an unmapped tag raises is one of the exceptions of `Raise`.
- The allowlist of webhook hosts, other than as a way in which a request is lost.

## Plan

Done: fetcher and guard, its abstraction and their proofs; pacing and runner with theirs; sitemap; both
commands over a shared back half, with their alerts; the checks and what their remedies lead to;
the history database, its abstraction and its proofs; the proofs of sitemap, runner, scan, audit and posture.

All invariants and action properties that the passing runs check are proved. Next: what
`run_checks` and `discover_sitemap_urls` promise as abstract specifications, with the proofs that `Runner` and
`Sitemap` implement them, as `FetchPromise` and `HistoryLog` have; and the progress measures behind
`Termination` as action properties. What could still be modelled is `resolve_category` with its two tables and
the exception for an unmapped tag.
