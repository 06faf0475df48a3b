------------------------------ MODULE Remedies ------------------------------
(***************************************************************************)
(* What the `remediation` of each finding tells the operator to do, as the *)
(* responses, certificates and records that do it.  A remedy that offers a *)
(* choice is the set of its outcomes.                                      *)
(***************************************************************************)
EXTENDS PageChecks, HostChecks

Chunk(name, sources) == [name |-> name, sources |-> sources]

(* The directive that counts is given the sources; nobody leaves it empty. *)
WithDirective(csp, name, sources) ==
  LET chunk == Chunk(name, IF sources = {} THEN {"'none'"} ELSE sources)
      at == FirstChunk(csp, name)
  IN  IF at = 0 THEN Append(csp, chunk) ELSE [csp EXCEPT ![at] = chunk]

(* The one script-src falls back to, if it does. *)
ScriptDirective(csp) ==
  LET parsed == ParseCsp(csp)
  IN  IF "script-src" \in DOMAIN parsed /\ parsed["script-src"] # {}
      THEN "script-src" ELSE "default-src"

CspRemedies(rule, csp) ==
  LET sources == SourcesOr(ParseCsp(csp), "script-src")
      Rewrite(to) == WithDirective(csp, ScriptDirective(csp), to)
  IN  CASE rule = "csp-unsafe-inline" ->
             {Rewrite(sources \ {"'unsafe-inline'"}), Rewrite(sources \cup {"'nonce-'"})}
        [] rule = "csp-unsafe-eval" -> {Rewrite(sources \ {"'unsafe-eval'"})}
        [] rule = "csp-broad-script-src" ->
             {WithDirective(csp, "script-src", {"'self'", "host"}),
              WithDirective(csp, "script-src", sources \cup {"'nonce-'", "'strict-dynamic'"})}
        [] rule = "csp-broad-object-src" -> {WithDirective(csp, "object-src", {"'none'"})}
        [] rule = "csp-missing-base-uri" -> {WithDirective(csp, "base-uri", {"'self'"})}

FrameAncestors(h) ==
  {<<Chunk("frame-ancestors", {"'none'"})>> : none \in {n \in {1} : Absent(h.csp)}}
  \cup {WithDirective(csp, "frame-ancestors", {"'none'"}) : csp \in h.csp}

(* So is the age that counts. *)
WithAge(parts, age) ==
  LET at == LastAge(parts)
  IN  IF at = 0 THEN Append(parts, age) ELSE [parts EXCEPT ![at] = age]

(* headers.py.  A header is set where there was none, and rewritten.  *)
HeaderRemedies(f, h, policy) ==
  LET age == [name |-> "max-age", value |-> {policy.minMaxAge}]
      Csp(csps) == {[h EXCEPT !.csp = {csp}] : csp \in csps}
  IN  CASE f.rule = "missing-hsts" -> {[h EXCEPT !.hsts = {<<age>>}]}
        [] f.rule = "weak-hsts-max-age" ->
             {[h EXCEPT !.hsts = {WithAge(parts, age)}] : parts \in h.hsts}
        [] f.rule = "hsts-no-subdomains" ->
             {[h EXCEPT !.hsts = {Append(parts, [name |-> "includesubdomains"])}] :
                parts \in h.hsts}
        [] f.rule = "missing-referrer-policy" ->
             {[h EXCEPT !.referrer = {value}] : value \in {"no-referrer"} \cup WeakReferrer}
        [] f.rule = "weak-referrer-policy" -> {[h EXCEPT !.referrer = {"no-referrer"}]}
        [] f.rule = "missing-permissions-policy" -> {[h EXCEPT !.permissions = {"()"}]}
        [] f.rule = "missing-csp" -> Csp({<<Chunk("default-src", {"'self'"})>>})
        [] f.rule \in {"missing-clickjacking-protection", "invalid-xfo"} ->
             Csp(FrameAncestors(h)) \cup {[h EXCEPT !.xfo = {"deny"}]}
        [] f.rule = "missing-coop" -> {[h EXCEPT !.coop = {"same-origin"}]}
        [] f.rule \in {"missing-xcto", "bad-xcto"} -> {[h EXCEPT !.xcto = {"nosniff"}]}
        [] f.rule = "leaked" -> {[h EXCEPT !.disclosing = @ \ {f.about}]}
        [] OTHER -> Csp(UNION {CspRemedies(f.rule, csp) : csp \in h.csp})

(* cookies.py: attributes of the cookie it is about. *)
CookieRemedies(f, cookies) ==
  LET Set(Changed(_)) == {IF c.name = f.about THEN Changed(c) ELSE c : c \in cookies}
      Secured(c) == [c EXCEPT !.secure = TRUE]
      HttpOnly(c) == [c EXCEPT !.httponly = TRUE]
      Lax(c) == [c EXCEPT !.samesite = {"lax"}]
  IN  CASE f.rule = "cookie-missing-secure" -> {Set(Secured)}
        [] f.rule = "cookie-missing-httponly" -> {Set(HttpOnly)}
        [] f.rule = "cookie-missing-samesite" -> {Set(Lax)}
        [] f.rule = "cookie-samesite-none-without-secure" -> {Set(Secured), Set(Lax)}

CookieRules == {"cookie-missing-secure", "cookie-missing-httponly", "cookie-missing-samesite",
                "cookie-samesite-none-without-secure"}

(* The other checks on a page.  A wildcard in a CORS answer has no remedy. *)
BodyRemedies(f, page) ==
  LET Lacks(found) == {[page EXCEPT !.body = @ \ {found}]}
      Says(words) == {[page EXCEPT !.body = @ \cup words, !.status = 200]}
      Tags(Changed(_)) == {[page EXCEPT !.tags = {Changed(tag) : tag \in @}]}
      Encrypted(tag) == [tag EXCEPT !.plain = FALSE]
      Pinned(tag) == IF tag.src = f.about THEN [tag EXCEPT !.integrity = TRUE] ELSE tag
  IN  CASE f.rule = "not-https" -> {[page EXCEPT !.final.scheme = "https"]}
        [] f.rule = "cookies-over-http" ->
             {[page EXCEPT !.url.scheme = "https", !.final.scheme = "https",
                           !.cookies = {[c EXCEPT !.secure = TRUE] : c \in @}]}
        [] f.rule = "mixed-content" -> Tags(Encrypted)
        [] f.rule = "missing-sri" -> Tags(Pinned)
        [] f.rule \in {"conf-env-exposed", "git-repo-exposed"} -> {[page EXCEPT !.status = 403]}
        [] f.rule = "sectxt-missing" -> Says({"Contact:", "Expires:"})
        [] f.rule = "sectxt-no-contact" -> Says({"Contact:"})
        [] f.rule = "sectxt-no-expires" -> Says({"Expires:"})
        [] f.rule = "leak" -> Lacks(f.about)
        [] f.rule = "sourcemap-exposed" -> Lacks("sourceMappingURL=")
        [] f.rule = "vuln-js" -> {[page EXCEPT !.libraries = @ \ {f.about}]}
        [] f.rule = "cors-wildcard-with-credentials" ->
             {[page EXCEPT !.credentials = FALSE], [page EXCEPT !.allowOrigin = "an allowed one"]}
        [] f.rule = "cors-wildcard" -> {}
        [] OTHER -> {[page EXCEPT !.allowOrigin = "an allowed one"]}

BodyRules ==
  {"not-https", "cookies-over-http", "mixed-content", "missing-sri", "conf-env-exposed",
   "git-repo-exposed", "sectxt-missing", "sectxt-no-contact", "sectxt-no-expires", "leak",
   "sourcemap-exposed", "vuln-js", "cors-wildcard-with-credentials", "cors-wildcard",
   "cors-reflected-origin", "cors-reflected-origin-credentials"}

PageRemedies(f, page, policy) ==
  IF f.rule \in CookieRules
  THEN {[page EXCEPT !.cookies = cookies] : cookies \in CookieRemedies(f, page.cookies)}
  ELSE IF f.rule \in BodyRules THEN BodyRemedies(f, page)
  ELSE {[page EXCEPT !.headers = h] : h \in HeaderRemedies(f, page.headers, policy)}

-----------------------------------------------------------------------------
(* tls.py: a new certificate, or another protocol. *)
Validity == 180

TlsRemedies(f, host) ==
  IF f.rule = "deprecated-tls" THEN {[host EXCEPT !.protocol = "TLSv1.3"]}
  ELSE {[host EXCEPT !.rejected = {}, !.left = Validity]}

(* dns.py: a record where there was none of its kind, or a stricter one. *)
Spf == [kind |-> "spf", terms |-> {"-all"}]
Dmarc == [kind |-> "dmarc", policy |-> "reject"]
Caa == [kind |-> "caa"]

DnsRemedies(f, dns) ==
  LET Put(records, kind, record) ==
        LET at == FirstOf(kind, records)
        IN  IF at = 0 THEN Append(records, record) ELSE [records EXCEPT ![at] = record]
  IN  CASE f.rule \in {"missing-spf", "spf-allow-all"} ->
             {[dns EXCEPT !.txt.records = Put(@, "spf", Spf)]}
        [] f.rule \in {"missing-dmarc", "dmarc-policy-none"} ->
             {[dns EXCEPT !.dmarc.records = Put(@, "dmarc", Dmarc)]}
        [] f.rule = "missing-caa" -> {[dns EXCEPT !.caa.records = <<Caa>>]}
=============================================================================
