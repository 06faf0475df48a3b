----------------------------- MODULE HostChecks -----------------------------
(***************************************************************************)
(* The checks on the host behind a page: its certificate and protocol      *)
(* (checks/tls.py) and its DNS records (checks/dns.py).                    *)
(*                                                                          *)
(* Time is counted in half days.  Time zones are off by half a day west of *)
(* GMT and by less than two of them east of it (UTC+14).                   *)
(***************************************************************************)
EXTENDS HeaderChecks

HalfDays == 2

ExpiringSoon == 30

(* classify_cert_error: the first phrase of this list that OpenSSL's message *)
(* contains.                                                                 *)
ClassifyCertError(phrases) ==
  CASE "expired" \in phrases -> "cert-expired"
    [] phrases \cap {"hostname mismatch", "not valid for"} # {} -> "cert-hostname-mismatch"
    [] "self-signed certificate in certificate chain" \in phrases -> "cert-untrusted-chain"
    [] "self-signed" \in phrases -> "cert-self-signed"
    [] {"unable to get", "issuer"} \subseteq phrases -> "cert-untrusted-chain"
    [] OTHER -> "cert-invalid"

VerificationFailed_Unreported(phrases) == {}

(* SSLCertVerificationError. *)
VerificationFailed(phrases) == When(TRUE, ClassifyCertError(phrases), "high")

(* (notAfter - datetime.now()).days, rounded down: notAfter is GMT, now() is *)
(* the time of the zone the tool runs in.                                    *)
DaysLeft(host, zone) == (host.left - zone) \div HalfDays

ExpiryFindings(host, zone) ==
  LET days == DaysLeft(host, zone)
  IN  When(days < 0, "cert-expired", "high")
      \cup When(0 <= days /\ days < ExpiringSoon, "cert-expiring-soon", "medium")

(* check_tls, for a URL that was given as https.  Nothing is said of a host  *)
(* that could not be connected to.                                           *)
TlsFindings(url, host, zone) ==
  IF url.scheme # "https" \/ ~host.reachable THEN {}
  ELSE IF host.rejected # {} THEN VerificationFailed(host.rejected)
  ELSE ExpiryFindings(host, zone)
       \cup When(host.protocol \in {"TLSv1", "TLSv1.1"}, "deprecated-tls", "high")

-----------------------------------------------------------------------------
(* A lookup brings records, or the answer that there are none, or fails.     *)
Answered(lookup) == lookup.state # "failed"

LookupComplete_Always(lookup) == TRUE

(* spf_lookup_complete. *)
LookupComplete(lookup) == Answered(lookup)

FirstOf(kind, records) == SelectInSeq(records, LAMBDA record : record.kind = kind)

(* The first record that is one of SPF counts. *)
SpfFindings(lookup) ==
  LET spf == FirstOf("spf", lookup.records)
  IN  When(spf # 0 /\ "+all" \in lookup.records[spf].terms, "spf-allow-all", "high")
      \cup When(spf = 0 /\ LookupComplete(lookup), "missing-spf", "medium")

(* And so does the first record of DMARC, and the first policy in it; one    *)
(* without a policy passes.                                                  *)
DmarcFindings(lookup) ==
  LET dmarc == FirstOf("dmarc", lookup.records)
  IN  When(Answered(lookup) /\ dmarc = 0, "missing-dmarc", "medium")
      \cup When(dmarc # 0 /\ lookup.records[dmarc].policy = "none",
                "dmarc-policy-none", "medium")

CaaFindings(lookup) ==
  When(Answered(lookup) /\ lookup.records = <<>>, "missing-caa", "low")

(* check_dns. *)
DnsFindings(dns) == SpfFindings(dns.txt) \cup DmarcFindings(dns.dmarc) \cup CaaFindings(dns.caa)
=============================================================================
