------------------------------ MODULE SsrfGuard ------------------------------
(***************************************************************************)
(* The destination guard of aegisaudit/ssrf.py as pure operators.          *)
(*                                                                         *)
(* A host is the sequence of its labels, in the spelling the code compares *)
(* (lower case, no trailing dot); NoHost is a URL without one.  A URL keeps *)
(* its scheme and host, an address the class the ipaddress library gives   *)
(* it and, for ::ffff:a.b.c.d, the class of the embedded IPv4 address.  A  *)
(* DNS answer is the set of addresses one lookup returned, {} being the    *)
(* lookup that failed (socket.gaierror).                                   *)
(***************************************************************************)
EXTENDS SequencesExt

CONSTANTS Allow,        \* scope.allow: label sequences, "*." prefix removed
          AllowPrivate  \* scope.allow_private

NoHost == <<>>

AllowedSchemes == {"http", "https"}

BlockedHostnames == {<<"metadata", "google", "internal">>, <<"metadata">>}

BlockedClasses ==
  {"private", "loopback", "link_local", "reserved", "multicast", "unspecified"}

(* A v6 address that wraps a v4 one is judged by the v4 address. *)
EffectiveClass(ip) == IF ip.mapped # "none" THEN ip.mapped ELSE ip.class

IpIsBlocked(ip) == EffectiveClass(ip) \in BlockedClasses

(* ip_address() rejects the text: the loop skips it. *)
Unparsed(ip) == ip.class = "unparsed"

HostMatchesAllowlist(host) == \E entry \in Allow : IsSuffix(entry, host)

(* resolve_public: one blocked address rejects the whole answer. *)
ResolvesPublic(answer) == answer # {} /\ \A ip \in answer : ~IpIsBlocked(ip)

UsableAddresses(answer) == {ip \in answer : ~Unparsed(ip)}

(* The addresses connect_tcp may try; with none it fails.  Under allow_private *)
(* the name is handed to the inner backend, which looks it up unchecked.       *)
ConnectAddresses_Unpinned(answer) == UsableAddresses(answer)

ConnectAddresses(answer) ==
  IF AllowPrivate \/ ResolvesPublic(answer) THEN UsableAddresses(answer) ELSE {}

(* The checks of validate_url that need no lookup. *)
NameAllowed(url) ==
  /\ url.scheme \in AllowedSchemes
  /\ url.host # NoHost
  /\ url.host \notin BlockedHostnames
  /\ Allow # {} => HostMatchesAllowlist(url.host)

(* validate_url returned without raising, given what the lookup answered. *)
ValidateUrl(url, answer) ==
  NameAllowed(url) /\ (AllowPrivate \/ ResolvesPublic(answer))
=============================================================================
