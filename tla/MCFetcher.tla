------------------------------ MODULE MCFetcher ------------------------------
(* Instances of the fetcher for TLC. *)
EXTENDS Fetcher

Site == [scheme |-> "https", host |-> <<"site", "example">>]
Www  == [scheme |-> "http", host |-> <<"www", "site", "example">>]
Meta == [scheme |-> "http", host |-> <<"metadata">>]
Ftp  == [scheme |-> "ftp", host |-> <<"site", "example">>]

Pub1 == [class |-> "public", mapped |-> "none", n |-> 1]
Pub2 == [class |-> "public", mapped |-> "none", n |-> 2]
Loop == [class |-> "loopback", mapped |-> "none", n |-> 1]
(* ::ffff:10.0.0.1: the outer address alone is no reason to block. *)
Wrapped == [class |-> "public", mapped |-> "private", n |-> 1]
Odd == [class |-> "unparsed", mapped |-> "none", n |-> 1]

MCUrl == {Site, Www, Meta}
MCUrlSmall == {Site, Meta}
MCUrlScoped == {Site, Www, Ftp}

MCAnswers == {{Pub1}, {Pub1, Loop}, {Wrapped}, {}}
MCAnswersTwo == {{Pub1}, {Pub1, Pub2}, {Odd}, {Loop}}
MCAnswersSmall == {{Pub1, Pub2}, {Loop}}

MCAllow == {<<"www", "site", "example">>}

MCTargetOf == [t \in Task |-> Site]
MCTargetOfScoped == [t \in Task |-> Www]
=============================================================================
