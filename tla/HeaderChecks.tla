---------------------------- MODULE HeaderChecks ----------------------------
(***************************************************************************)
(* The header checks (checks/headers.py): which findings a response has,   *)
(* given its headers and config.policy.                                    *)
(*                                                                          *)
(* A header is {} when it is absent, else the set of its one value.  A CSP *)
(* is a sequence of chunks, each a directive with the set of its sources;  *)
(* the sources of a kind that no check tells apart are one source.         *)
(***************************************************************************)
EXTENDS Integers, SequencesExt

(* A finding of one check: of no matter which URL, said of `about`. *)
Finding(rule, severity, about) == [rule |-> rule, severity |-> severity, about |-> about]

When(condition, rule, severity) ==
  IF condition THEN {Finding(rule, severity, "")} ELSE {}

Absent(header) == header = {}

-----------------------------------------------------------------------------
BroadSources == {"*", "https:"}
HashOrNonce == {"'nonce-'", "'sha256-'"}

ParseCsp_LastWins(csp) ==
  [name \in {chunk.name : chunk \in ToSet(csp)} |->
     csp[SelectLastInSeq(csp, LAMBDA chunk : chunk.name = name)].sources]

(* _parse_csp: of two directives with one name the first counts. *)
FirstChunk(csp, name) == SelectInSeq(csp, LAMBDA chunk : chunk.name = name)

ParseCsp(csp) ==
  [name \in {chunk.name : chunk \in ToSet(csp)} |-> csp[FirstChunk(csp, name)].sources]

(* csp.get(directive) or csp.get("default-src") or []: a directive without   *)
(* sources is as good as none.                                               *)
SourcesOr(csp, directive) ==
  LET Get(name) == IF name \in DOMAIN csp THEN csp[name] ELSE {}
  IN  IF Get(directive) # {} THEN Get(directive) ELSE Get("default-src")

Inline_IgnoringNonces(sources) == {}

(* What a nonce or hash makes the browser ignore... *)
Inline(sources) == IF sources \cap HashOrNonce # {} THEN {"'unsafe-inline'"} ELSE {}

(* ... and 'strict-dynamic' with it: the allowlist, "wss:" and its like too. *)
Listed(sources) ==
  IF sources \cap HashOrNonce # {} /\ "'strict-dynamic'" \in sources
  THEN BroadSources \cup {"'self'", "'unsafe-inline'", "wss:"} ELSE {}

EffectiveScriptSrc(csp) ==
  LET sources == SourcesOr(csp, "script-src")
  IN  sources \ (Inline(sources) \cup Listed(sources))

EffectiveObjectSrc(csp) == SourcesOr(csp, "object-src")

TooBroad(sources) == sources = {} \/ sources \cap BroadSources # {}

(* _csp_quality_findings.  The second look at script-src and default-src for *)
(* 'unsafe-eval' finds nothing more: no exception ever drops it.             *)
CspQualityFindings(header) ==
  LET csp == ParseCsp(header)
      scriptSrc == EffectiveScriptSrc(csp)
  IN  When("'unsafe-inline'" \in scriptSrc, "csp-unsafe-inline", "medium")
      \cup When("'unsafe-eval'" \in SourcesOr(csp, "script-src"), "csp-unsafe-eval", "medium")
      \cup When(TooBroad(scriptSrc), "csp-broad-script-src", "medium")
      \cup When(TooBroad(EffectiveObjectSrc(csp)), "csp-broad-object-src", "low")
      \cup When("base-uri" \notin DOMAIN csp, "csp-missing-base-uri", "low")

ValidXfo == {"deny", "sameorigin"}

(* _clickjacking_findings: X-Frame-Options or frame-ancestors will do. *)
ClickjackingFindings(headers) ==
  LET covered == \E csp \in headers.csp : "frame-ancestors" \in DOMAIN ParseCsp(csp)
  IN  When(~covered /\ Absent(headers.xfo), "missing-clickjacking-protection", "medium")
      \cup When(~covered /\ ~Absent(headers.xfo) /\ headers.xfo \cap ValidXfo = {},
                "invalid-xfo", "low")

-----------------------------------------------------------------------------
(* The parts of a Strict-Transport-Security header are ages, the set of the  *)
(* number or {} where int() refuses, and other words.  The last age counts.  *)
LastAge(parts) == SelectLastInSeq(parts, LAMBDA part : part.name = "max-age")

MaxAge(parts) ==
  LET last == LastAge(parts)
  IN  IF last = 0 \/ parts[last].value = {} THEN 0
      ELSE CHOOSE age \in parts[last].value : TRUE

HstsFindings(headers, policy) ==
  When(Absent(headers.hsts), "missing-hsts", "high")
  \cup UNION {When(MaxAge(parts) < policy.minMaxAge, "weak-hsts-max-age", "medium")
              \cup When(policy.includeSubdomains /\
                          \A part \in ToSet(parts) : part.name # "includesubdomains",
                        "hsts-no-subdomains", "low") : parts \in headers.hsts}

WeakReferrer == {"unsafe-url", "no-referrer-when-downgrade"}

ReferrerFindings(headers, policy) ==
  When("referrer-policy" \in policy.required /\ Absent(headers.referrer),
       "missing-referrer-policy", "low")
  \cup When(headers.referrer \cap WeakReferrer # {}, "weak-referrer-policy", "low")

CspFindings(headers, policy) ==
  When(Absent(headers.csp) /\ "content-security-policy" \in policy.required,
       "missing-csp", "medium")
  \cup UNION {CspQualityFindings(csp) : csp \in headers.csp}

(* check_headers.  What the policy has no say in is checked all the same. *)
HeaderFindings(headers, policy) ==
  HstsFindings(headers, policy)
  \cup ReferrerFindings(headers, policy)
  \cup When("permissions-policy" \in policy.required /\ Absent(headers.permissions),
            "missing-permissions-policy", "low")
  \cup CspFindings(headers, policy)
  \cup ClickjackingFindings(headers)
  \cup When(Absent(headers.coop), "missing-coop", "info")
  \cup When(Absent(headers.xcto), "missing-xcto", "low")
  \cup When(~Absent(headers.xcto) /\ "nosniff" \notin headers.xcto, "bad-xcto", "low")
  \cup {Finding("leaked", "info", banned) : banned \in headers.disclosing \cap policy.banned}
=============================================================================
