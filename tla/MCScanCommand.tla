---------------------------- MODULE MCScanCommand ----------------------------
(* Small instances of ScanCommand for TLC: one site with two pages.          *)
EXTENDS ScanCommand

CONSTANTS a, b,  \* two pages of the site
          txt,   \* its /.well-known/security.txt
          env, git

Urls == {a, b, txt, env, git}

MCSeverityOf ==
  [hsts |-> "high", cors |-> "high", sri |-> "medium", xcto |-> "low", coop |-> "info"]
MCCorsRules == {"cors"}
MCHostOf == [u \in Urls |-> "host"]
MCOriginOf == [u \in Urls |-> "origin"]
MCSecurityTxt == [o \in {"origin"} |-> txt]
MCExposure == [o \in {"origin"} |-> <<env, git>>]

Issue(rule, text) == [rule |-> rule, text |-> text]

(* A site: the same issues on every page unless said otherwise. *)
Site(onA, onB) == [u \in Urls |-> CASE u = a -> onA [] u = b -> onB [] OTHER -> {}]

hsts == Issue("hsts", "missing")
cors == Issue("cors", "reflected")
scriptX == Issue("sri", "x.js")
scriptY == Issue("sri", "y.js")

Clean == Site({}, {})
Before == Site({hsts, scriptX}, {hsts, scriptX, cors})
After == Site({hsts, cors, scriptY}, {hsts, scriptX, cors})

Minor == Site({Issue("coop", "missing")}, {Issue("xcto", "missing")})

MCSnapshots == {Clean, Minor, Before, After}
SteadySnapshots == {Before}

MCPages == {<<b, txt, b>>, <<>>}

Gating(named, failOn, failUnder) ==
  [Scan(named, {"json", "html"}) EXCEPT !.failOn = failOn, !.failUnder = failUnder]

Update(named) == [Scan(named, {"json"}) EXCEPT !.baseline = TRUE, !.update = TRUE]
Against(named) ==
  [Gating(named, {"high"}, {}) EXCEPT !.baseline = TRUE, !.alerts = {"webhook", "telegram"}]

MCOptions ==
  {Update(<<a, b>>), Against(<<a, b>>),
   [Gating(<<b, a>>, {"high"}, {80}) EXCEPT !.alerts = {"telegram"}],
   [Gating(<<b>>, {"low"}, {100}) EXCEPT !.alerts = {"notion"}],
   Scan(<<a>>, {"summary"}), [Scan(<<a>>, {"json"}) EXCEPT !.update = TRUE],
   [Gating(<<>>, {"medium"}, {}) EXCEPT !.sitemap = TRUE, !.alerts = {"notion"}]}

ReorderedOptions == {Update(<<a, b>>), Against(<<b, a>>)}
SitemapOptions == {[Gating(<<a>>, {"high"}, {}) EXCEPT !.sitemap = TRUE, !.probe = TRUE]}
=============================================================================
