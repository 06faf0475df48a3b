------------------------------ MODULE MCPosture ------------------------------
(* Starts of Posture for TLC: a sound site, with one thing or a few about it *)
(* varied at a time.                                                         *)
EXTENDS Posture

Age(value) == [name |-> "max-age", value |-> value]
Subdomains == [name |-> "includesubdomains"]

SoundHeaders ==
  [csp |-> {<<Chunk("default-src", {"'self'"}), Chunk("base-uri", {"'none'"})>>},
   xfo |-> {"deny"}, hsts |-> {<<Age({3}), Subdomains>>}, referrer |-> {"no-referrer"},
   permissions |-> {"()"}, coop |-> {"same-origin"}, xcto |-> {"nosniff"},
   disclosing |-> {}]

SoundPage ==
  [url |-> [scheme |-> "https", path |-> "/"], final |-> [scheme |-> "https"],
   headers |-> SoundHeaders, status |-> 200, html |-> TRUE, tags |-> {}, body |-> {},
   libraries |-> {}, cookies |-> {}, jar |-> {},
   probe |-> FALSE, allowOrigin |-> "none", credentials |-> FALSE]

SoundHost == [left |-> Validity, rejected |-> {}, reachable |-> TRUE, protocol |-> "TLSv1.3"]

Answer(records) == [state |-> "answered", records |-> records]
Failed == [state |-> "failed", records |-> <<>>]
NoDns == [txt |-> Failed, dmarc |-> Failed, caa |-> Failed]

(* Two directives, of one name or two, with up to two of these sources.      *)
Sources ==
  {s \in SUBSET {"'unsafe-inline'", "'unsafe-eval'", "*", "'nonce-'", "'strict-dynamic'"} :
     Cardinality(s) <= 2}
Script == {Chunk(name, sources) : name \in {"default-src", "script-src"}, sources \in Sources}
Other == {Chunk("object-src", {}), Chunk("object-src", {"https:"}),
          Chunk("base-uri", {"'none'"}), Chunk("frame-ancestors", {"'self'"}),
          Chunk("script-src-elem", {"*"})}

Csps ==
  {<<c, d>> : c \in Script \cup Other, d \in Script \cup Other}

HstsValues ==
  {{}, {<<>>}} \cup {{<<Age(a), Age(b)>>} : a \in {{}, {1}, {2}}, b \in {{}, {1}, {3}}}
  \cup {{<<Age(a), Subdomains>>} : a \in {{}, {0}, {2}}} \cup {{<<Subdomains>>}}

HeaderVariations ==
  {[SoundHeaders EXCEPT !.csp = {csp}] : csp \in Csps}
  \cup {[SoundHeaders EXCEPT !.csp = csp, !.xfo = xfo] :
     csp \in {{}, {<<>>}} \cup {{<<c>>} : c \in Script \cup Other},
     xfo \in {{}, {"deny"}, {"allow-from"}}}

PolicyVariations ==
  {[SoundHeaders EXCEPT !.hsts = hsts, !.xcto = xcto] :
     hsts \in HstsValues, xcto \in {{}, {"nosniff"}, {"none"}}}
  \cup {[SoundHeaders EXCEPT !.referrer = referrer, !.permissions = {}, !.coop = {},
                             !.csp = {}, !.disclosing = {"server", "via"}] :
     referrer \in {{}, {"unsafe-url"}, {"no-referrer"}}}

Cookies == [name : {"", "id"}, secure : BOOLEAN, httponly : BOOLEAN,
            samesite : {{}, {"lax"}, {"none"}}]

Script_(src, external, integrity, plain) ==
  [kind |-> "script", src |-> src, external |-> external, integrity |-> integrity,
   plain |-> plain]

PageVariations ==
  {[SoundPage EXCEPT !.headers = headers] : headers \in HeaderVariations}
  \cup {[SoundPage EXCEPT !.cookies = {cookie}, !.jar = jar, !.url.scheme = scheme] :
          cookie \in Cookies, jar \in {{}, {"id"}}, scheme \in {"http", "https"}}
  \cup {[SoundPage EXCEPT !.cookies = {[c EXCEPT !.name = "other"], d}] :
          c \in Cookies, d \in {d \in Cookies : d.samesite = {"none"}}}
  \cup {[SoundPage EXCEPT !.url.scheme = "http", !.final.scheme = "http", !.jar = jar] :
          jar \in {{}, {"id"}}}
  \cup {[SoundPage EXCEPT !.url.path = path, !.status = status, !.html = html, !.body = body] :
          path \in {"/", "/.env", "/.git/HEAD", "/.well-known/security.txt"},
          status \in {200, 404}, html \in BOOLEAN,
          body \in {{}, {"key=value", "aws"}, {"ref: refs/"}, {"Contact:", "email"},
                    {"Expires:", "sourceMappingURL="}}}
  \cup {[SoundPage EXCEPT !.html = html, !.libraries = {"jquery"},
           !.tags = {Script_("x.js", TRUE, FALSE, TRUE), Script_("y.js", TRUE, i, FALSE),
                     Script_("z.js", FALSE, FALSE, p)}] :
          html \in BOOLEAN, i \in BOOLEAN, p \in BOOLEAN}
  \cup {[SoundPage EXCEPT !.probe = TRUE, !.allowOrigin = allowed, !.credentials = credentials] :
          allowed \in {"none", "*", "the probe's"}, credentials \in BOOLEAN}

(* "hostname mismatch" comes with the name, which may hold any word. *)
Rejections == {{}, {"expired"}, {"hostname mismatch", "not valid for", "expired"},
               {"self-signed", "self-signed certificate in certificate chain"},
               {"self-signed"}, {"unable to get", "issuer"}, {"unsuitable purpose"}}

HostVariations ==
  {[left |-> Horizon, rejected |-> rejected, reachable |-> reachable, protocol |-> protocol] :
     rejected \in Rejections \ {{"expired"}}, reachable \in BOOLEAN,
     protocol \in {"TLSv1.1", "TLSv1.3"}}

Text == [kind |-> "text"]
SpfAll == [kind |-> "spf", terms |-> {"+all"}]
DmarcNone == [kind |-> "dmarc", policy |-> "none"]
DmarcBare == [kind |-> "dmarc", policy |-> ""]

DnsVariations ==
  [txt : {Failed} \cup {Answer(r) : r \in {<<>>, <<Text>>, <<Text, SpfAll>>, <<Spf, SpfAll>>}},
   dmarc : {Failed} \cup {Answer(r) : r \in {<<>>, <<Text>>, <<DmarcNone, Dmarc>>, <<DmarcBare>>}},
   caa : {Failed, Answer(<<>>), Answer(<<Caa>>)}]

DefaultPolicy ==
  [required |-> {"content-security-policy", "referrer-policy", "permissions-policy"},
   minMaxAge |-> 2, includeSubdomains |-> TRUE, banned |-> {"server"}]

LaxPolicy == [required |-> {}, minMaxAge |-> 1, includeSubdomains |-> FALSE, banned |-> {}]

Start(p, h, d) ==
  [page |-> p, host |-> h, dns |-> d, policy |-> DefaultPolicy, zone |-> 0]

MCStarts ==
  {Start(p, SoundHost, NoDns) : p \in PageVariations}
  \cup {[Start([SoundPage EXCEPT !.headers = h], SoundHost, NoDns) EXCEPT !.policy = config] :
          h \in PolicyVariations, config \in {DefaultPolicy, LaxPolicy}}
  \cup {[Start(p, h, NoDns) EXCEPT !.zone = offset] :
          p \in {SoundPage, [SoundPage EXCEPT !.url.scheme = "http"]},
          h \in HostVariations, offset \in {-1, 0, 2}}
  \cup {Start(SoundPage, SoundHost, d) : d \in DnsVariations}
  \cup {Start([SoundPage EXCEPT !.url.scheme = "http", !.jar = {"id"}],
               [SoundHost EXCEPT !.left = Horizon, !.protocol = "TLSv1.1"], NoDns)}
=============================================================================
