------------------------------- MODULE Posture -------------------------------
(***************************************************************************)
(* What the checks say of one page and its host over the time the tool is  *)
(* run against them: its operator follows remedies, its certificate ages,  *)
(* lookups fail.  Scanning changes nothing, so that the report of a scan   *)
(* is a function of the state.                                             *)
(***************************************************************************)
EXTENDS Remedies, Scoring

CONSTANTS
  Starts,    \* what the first scan may meet: records of a page, a host and its DNS,
             \* with the policy and the zone of the tool
  Horizon    \* half days of validity from which on ageing is of interest, for TLC

(* STRING, with the words that remedies and time bring: the prover does not  *)
(* know of a literal that it is a string.                                    *)
Word ==
  STRING \cup
    {"default-src", "script-src", "object-src", "base-uri", "frame-ancestors", "'none'",
     "'self'", "'nonce-'", "'strict-dynamic'", "host", "includesubdomains", "no-referrer",
     "unsafe-url", "no-referrer-when-downgrade", "()", "deny", "same-origin", "nosniff",
     "lax", "https", "Contact:", "Expires:", "an allowed one", "TLSv1.3", "expired",
     "failed", "spf", "-all", "dmarc", "reject", "caa"}

(* A header has at most one value, and a response finitely many of anything. *)
Header(Values) == {h \in SUBSET Values : \A v, w \in h : v = w}
Finite(Things) == {things \in SUBSET Things : IsFiniteSet(things)}

Csp == Seq([name : Word, sources : SUBSET Word])

Hsts == Seq([name : Word \ {"max-age"}] \cup [name : {"max-age"}, value : SUBSET Int])

Headers ==
  [csp : Header(Csp), xfo : Header(Word), hsts : Header(Hsts), referrer : Header(Word),
   permissions : Header(Word), coop : Header(Word), xcto : Header(Word),
   disclosing : Finite(Word)]

Cookie ==
  [name : Word, secure : BOOLEAN, httponly : BOOLEAN, samesite : Header(Word)]

Tag ==
  [kind : Word, src : Word, external : BOOLEAN, integrity : BOOLEAN, plain : BOOLEAN]

Page ==
  [url : [scheme : Word, path : Word], final : [scheme : Word], headers : Headers,
   status : Nat, html : BOOLEAN, tags : Finite(Tag), body : Finite(Word),
   libraries : Finite(Word), cookies : Finite(Cookie), jar : SUBSET Word,
   probe : BOOLEAN, allowOrigin : Word, credentials : BOOLEAN]

(* OpenSSL rejects a certificate that has run out. *)
Host ==
  {h \in [left : Int, rejected : SUBSET Word, reachable : BOOLEAN, protocol : Word] :
     h.left < 0 => h.rejected # {}}

Lookup(Records) == [state : Word, records : Seq(Records)]

Dns ==
  [txt : Lookup([kind : Word \ {"spf"}] \cup [kind : {"spf"}, terms : SUBSET Word]),
   dmarc : Lookup([kind : Word \ {"dmarc"}] \cup [kind : {"dmarc"}, policy : Word]),
   caa : Lookup([kind : Word])]

Policy ==
  [required : SUBSET Word, minMaxAge : Int, includeSubdomains : BOOLEAN,
   banned : SUBSET Word]

ASSUME StartsAssumption ==
  Starts \subseteq [page : Page, host : Host, dns : Dns, policy : Policy, zone : -1..2]

VARIABLES
  page,    \* the response
  host,    \* certificate and protocol
  dns,     \* what the three lookups bring
  policy,  \* config.policy, which stays
  zone     \* the offset of the local time from GMT, in half days, which stays

vars == <<page, host, dns, policy, zone>>

Init ==
  \E start \in Starts :
    /\ page = start.page /\ host = start.host /\ dns = start.dns
    /\ policy = start.policy /\ zone = start.zone

TypeOK ==
  page \in Page /\ host \in Host /\ dns \in Dns /\ policy \in Policy /\ zone \in -1..2

OfPage == PageFindings(page, policy)
OfHost == IF page.probe THEN {} ELSE TlsFindings(page.url, host, zone)
OfDns == IF page.probe THEN {} ELSE DnsFindings(dns)

(* Runner._check_artifact. *)
Report == OfPage \cup OfHost \cup OfDns

Score == ScoreOf([f \in Report |-> f.severity])

-----------------------------------------------------------------------------
(* The operator does what a finding says. *)
Remedy(f) ==
  /\ \/ f \in OfPage /\ page' \in PageRemedies(f, page, policy) /\ UNCHANGED <<host, dns>>
     \/ f \in OfHost /\ host' \in TlsRemedies(f, host) /\ UNCHANGED <<page, dns>>
     \/ f \in OfDns /\ dns' \in DnsRemedies(f, dns) /\ UNCHANGED <<page, host>>
  /\ UNCHANGED <<policy, zone>>

(* Half a day goes by.  A certificate that has run out is rejected. *)
LongExpired == -4

Tick ==
  /\ LongExpired < host.left /\ host.left <= Horizon
  /\ host' = [host EXCEPT !.left = @ - 1,
                         !.rejected = IF @ = {} /\ host.left = 0 THEN {"expired"} ELSE @]
  /\ UNCHANGED <<page, dns, policy, zone>>

LookupFails(lookup) ==
  /\ Answered(dns[lookup])
  /\ dns' = [dns EXCEPT ![lookup] = [state |-> "failed", records |-> <<>>]]
  /\ UNCHANGED <<page, host, policy, zone>>

Next ==
  \/ \E f \in Report : Remedy(f)
  \/ Tick
  \/ \E lookup \in DOMAIN dns : LookupFails(lookup)

Spec == Init /\ [][Next]_vars

-----------------------------------------------------------------------------
(* A CSP as a browser reads it: the sources of the first directive of a      *)
(* name, of default-src where there is none, and everything else allowed.    *)
FirstNamed(csp, name) ==
  {csp[i].sources : i \in {i \in DOMAIN csp : /\ csp[i].name = name
                                            /\ \A j \in 1..(i - 1) : csp[j].name # name}}

Fallback(csp, name, otherwise) ==
  IF FirstNamed(csp, name) # {} THEN FirstNamed(csp, name) ELSE otherwise

Governing(csp, name) == Fallback(csp, name, FirstNamed(csp, "default-src"))

(* Script elements and event handlers have a directive each, which a browser *)
(* consults before script-src.  The checks do not know of them.              *)
FinerDirectives == {"script-src-elem", "script-src-attr"}

GoverningScripts(csp, finer) == Fallback(csp, finer, Governing(csp, "script-src"))

NamesFiner(csp) == \E chunk \in ToSet(csp) : chunk.name \in FinerDirectives

Runs(governing, Allows(_)) == \A sources \in governing : Allows(sources)

InlineRuns(csp) ==
  \E finer \in FinerDirectives :
    Runs(GoverningScripts(csp, finer), LAMBDA sources :
      /\ "'unsafe-inline'" \in sources
      /\ sources \cap (HashOrNonce \cup {"'strict-dynamic'"}) = {})
EvalRuns(csp) ==
  Runs(Governing(csp, "script-src"), LAMBDA sources : "'unsafe-eval'" \in sources)
AnyScriptRuns(csp) ==
  Runs(GoverningScripts(csp, "script-src-elem"), LAMBDA sources :
    sources \cap BroadSources # {} /\ "'strict-dynamic'" \notin sources)
AnyObjectRuns(csp) ==
  Runs(Governing(csp, "object-src"), LAMBDA sources : sources \cap BroadSources # {})

Wellformed(csp) ==
  \A chunk \in ToSet(csp) :
    /\ chunk.sources # {}
    /\ "'strict-dynamic'" \in chunk.sources => chunk.sources \cap HashOrNonce # {}

(* A CSP that lets eval, any object, inline scripts or any script run is     *)
(* reported, whatever directives repeat, are empty or fall back; and of one  *)
(* whose directives all have sources, 'strict-dynamic' with a nonce only,    *)
(* nothing is reported that it does not allow.  Of inline and other scripts  *)
(* this holds only for a CSP without FinerDirectives, which headers.py never *)
(* reads: "default-src 'none'; script-src-elem *" lets any script run and is *)
(* not reported for it.                                                      *)
CspJudgedRight ==
  \A csp \in page.headers.csp :
    LET found == {f.rule : f \in CspQualityFindings(csp)}
        broad == "csp-broad-script-src" \in found
    IN  /\ EvalRuns(csp) => "csp-unsafe-eval" \in found \/ broad
        /\ AnyObjectRuns(csp) => "csp-broad-object-src" \in found
        /\ Wellformed(csp) =>
             /\ "csp-unsafe-eval" \in found => EvalRuns(csp)
             /\ "csp-broad-object-src" \in found => AnyObjectRuns(csp)
        /\ ~NamesFiner(csp) =>
             /\ InlineRuns(csp) => "csp-unsafe-inline" \in found \/ broad
             /\ AnyScriptRuns(csp) => broad
             /\ Wellformed(csp) =>
                  /\ "csp-unsafe-inline" \in found => InlineRuns(csp)
                  /\ broad => AnyScriptRuns(csp)

(* Whoever does what a finding says is rid of it, and is not charged more    *)
(* for the result.  Two exceptions: a handshake that is looked at for the    *)
(* first time, or is not rejected any more, shows what nobody saw before,    *)
(* and a first CSP that only says frame-ancestors is charged for all it      *)
(* leaves out.                                                               *)
Uncovered == OfHost' \ OfHost # {}

FirstCsp == Absent(page.headers.csp) /\ ~Absent(page.headers.csp)'

RemedyPays ==
  [][\A f \in Report : Remedy(f) =>
       /\ f \notin Report'
       /\ \/ Score' >= Score
          \/ Uncovered
          \/ FirstCsp /\ f.rule \in {"missing-clickjacking-protection", "invalid-xfo"}]_vars

(* In whatever time zone the tool runs, a certificate is reported while it   *)
(* runs out and after, never silent in between, and not long before.         *)
ExpiryToldInTime ==
  page.url.scheme = "https" /\ ~page.probe /\ host.reachable =>
    LET severities == {f.severity : f \in {f \in OfHost : f.rule # "deprecated-tls"}}
    IN  /\ host.left < 0 => severities = {"high"}
        /\ host.left < HalfDays * (ExpiringSoon - 1) => severities # {}
        /\ host.rejected = {} /\ host.left > HalfDays * (ExpiringSoon + 1) => severities = {}

(* A lookup that fails is blamed on nobody, and hides nothing that the       *)
(* others say.                                                               *)
LookupOf(rule) ==
  CASE rule \in {"missing-spf", "spf-allow-all"} -> "txt"
    [] rule \in {"missing-dmarc", "dmarc-policy-none"} -> "dmarc"
    [] rule = "missing-caa" -> "caa"

LookupsNotBlamed ==
  [][\A lookup \in DOMAIN dns : LookupFails(lookup) =>
       OfDns' = {f \in OfDns : LookupOf(f.rule) # lookup}]_vars
=============================================================================
