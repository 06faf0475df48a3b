------------------------------- MODULE WebScan -------------------------------
(***************************************************************************)
(* What only `aegis scan` does with its targets and findings: the target   *)
(* list of cli.py, the deduplication of runner.py.                         *)
(***************************************************************************)
EXTENDS Integers, SequencesExt

CONSTANTS
  CorsRules,   \* the rules tagged "cors": raised by Origin probes, about one URL
  HostOf,      \* URL -> netloc
  OriginOf,    \* URL -> scheme and netloc
  SecurityTxt, \* origin -> its /.well-known/security.txt
  Exposure     \* origin -> its /.env and /.git/HEAD, in this order

Url == DOMAIN HostOf

ASSUME WebScanAssumption ==
  /\ OriginOf \in [Url -> DOMAIN SecurityTxt]
  /\ SecurityTxt \in [DOMAIN SecurityTxt -> Url]
  /\ Exposure \in [DOMAIN SecurityTxt -> Seq(Url)]

Uniq(seq) ==
  FoldLeft(LAMBDA kept, e : IF Contains(kept, e) THEN kept ELSE Append(kept, e), <<>>, seq)

Generated(named, probe) ==
  LET origins == Uniq([i \in DOMAIN named |-> OriginOf[named[i]]])
  IN  FlattenSeq([i \in DOMAIN origins |->
        <<SecurityTxt[origins[i]]>> \o (IF probe THEN Exposure[origins[i]] ELSE <<>>)])

(* expand_scan_targets: the named targets first, then the generated paths of *)
(* each of their origins.                                                    *)
ExpandScanTargets(named, probe) == Uniq(named \o Generated(named, probe))

(* dedupe_findings: what makes two findings the same issue... *)
IssueKey_UrlBlind(f) == <<f.rule, HostOf[f.url], f.text>>

IssueKey_PerUrl(f) == <<f.rule, f.url, f.text>>

IssueKey(f) == <<f.rule, IF f.rule \in CorsRules THEN f.url ELSE HostOf[f.url], f.text>>

(* ... and which of them stays: the one of the first artifact, in the order *)
(* the artifacts are checked in.                                            *)
DedupeFindings(raised, order) ==
  LET Place(f) == SelectInSeq(order, LAMBDA url : url = f.url)
  IN  {f \in raised :
         \A g \in raised : IssueKey(g) = IssueKey(f) => Place(f) <= Place(g)}
=============================================================================
