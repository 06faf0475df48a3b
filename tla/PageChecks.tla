----------------------------- MODULE PageChecks -----------------------------
(***************************************************************************)
(* The checks on what one request brought (checks/cookies.py, cors.py,     *)
(* https.py, exposure.py, security_txt.py, sri.py, javascript.py and       *)
(* secrets.py).                                                            *)
(*                                                                          *)
(* What the regular expressions find in a body is an input: the names of   *)
(* the patterns that match (body) and the tags that load something (tags). *)
(***************************************************************************)
EXTENDS HeaderChecks

(* check_cookies: one Set-Cookie line, and a jar that what is set over plain *)
(* HTTP is in.  The scheme is that of the URL asked for.                     *)
CookieFindings(page) ==
  LET Of(cookie) ==
        {<<"cookie-missing-secure", "medium", page.url.scheme = "https" /\ ~cookie.secure>>,
         <<"cookie-missing-httponly", "low", ~cookie.httponly>>,
         <<"cookie-missing-samesite", "low", cookie.samesite = {}>>,
         <<"cookie-samesite-none-without-secure", "medium",
           cookie.samesite = {"none"} /\ ~cookie.secure>>}
  IN  When(page.url.scheme = "http" /\ page.jar # {}, "cookies-over-http", "high")
      \cup UNION {{Finding(f[1], f[2], cookie.name) : f \in {f \in Of(cookie) : f[3]}} :
                    cookie \in {c \in page.cookies : c.name # ""}}

(* check_cors, on the answer to an Origin probe. *)
CorsFindings(page) ==
  LET echoed == page.allowOrigin = "the probe's"
      any == page.allowOrigin = "*"
  IN  When(echoed /\ page.credentials, "cors-reflected-origin-credentials", "high")
      \cup When(echoed /\ ~page.credentials, "cors-reflected-origin", "medium")
      \cup When(any /\ page.credentials, "cors-wildcard-with-credentials", "low")
      \cup When(any /\ ~page.credentials, "cors-wildcard", "info")

(* check_https: the final URL, and what a page loads. *)
HttpsFindings(page) ==
  When(page.final.scheme # "https", "not-https", "high")
  \cup When(page.html /\ \E tag \in page.tags : tag.plain, "mixed-content", "medium")

(* check_exposure: a file that was served and looks like what it is.  The    *)
(* code asks how the URL ends; of the URLs that end alike one stands for     *)
(* all, here and in check_security_txt.                                      *)
ExposureFindings(page) ==
  LET Served(path, looks) ==
        page.status = 200 /\ page.url.path = path /\ looks \in page.body
  IN  When(Served("/.env", "key=value"), "conf-env-exposed", "high")
      \cup When(Served("/.git/HEAD", "ref: refs/"), "git-repo-exposed", "high")

(* check_security_txt: a file that is not served is missing and no more. *)
SecurityTxtFindings(page) ==
  LET Has(condition, rule, severity) ==
        When(page.url.path = "/.well-known/security.txt" /\ condition, rule, severity)
      served == page.status < 400
  IN  Has(~served, "sectxt-missing", "low")
      \cup Has(served /\ "Contact:" \notin page.body, "sectxt-no-contact", "high")
      \cup Has(served /\ "Expires:" \notin page.body, "sectxt-no-expires", "medium")

(* check_sri: scripts and stylesheets of other hosts. *)
SriFindings(page) ==
  {Finding("missing-sri", "medium", tag.src) : tag \in {tag \in page.tags :
     /\ page.html /\ tag.kind \in {"script", "stylesheet"}
     /\ tag.external /\ ~tag.integrity}}

(* check_secrets: a finding per pattern that matches. *)
LeakSeverity ==
  [aws |-> "high", google |-> "medium", email |-> "info", ip |-> "low"]

LeakFindings(page) ==
  {Finding("leak", LeakSeverity[name], name) : name \in DOMAIN LeakSeverity \cap page.body}

(* check_javascript: a finding per version below the floor of its library. *)
JavascriptFindings(page) ==
  {Finding("vuln-js", "medium", lib) : lib \in {l \in page.libraries : page.html}}
  \cup When(page.html /\ "sourceMappingURL=" \in page.body, "sourcemap-exposed", "info")

ContentFindings(page) == LeakFindings(page) \cup JavascriptFindings(page)

(* Runner._check_artifact, but for the checks on the host: an Origin probe is *)
(* no page.                                                                   *)
PageFindings(page, policy) ==
  IF page.probe THEN CorsFindings(page)
  ELSE HeaderFindings(page.headers, policy) \cup CookieFindings(page)
       \cup HttpsFindings(page) \cup ExposureFindings(page)
       \cup SecurityTxtFindings(page) \cup SriFindings(page) \cup ContentFindings(page)
=============================================================================
