------------------------------ MODULE MCRunner ------------------------------
(* Small instances of Runner for TLC: three pages of one host and a probe,    *)
(* with and without checks that raise.                                        *)
EXTENDS Runner

FindingOn(url, rank, issue) == [url |-> url, rank |-> rank, issue |-> issue]

MCIssueOf(f) == f.issue
MCBefore(f, g) == f.url < g.url \/ (f.url = g.url /\ f.rank < g.rank)

Hsts(url) == <<FindingOn(url, 2, <<"hsts">>)>>
Sri(url, script) == <<FindingOn(url, 1, <<"sri", script>>)>>
Cors(url) == <<FindingOn(url, 1, <<"cors">>)>>

MCScans ==
  { << <<Hsts(3), Sri(3, "x")>>, <<Hsts(1), Sri(1, "x") \o Sri(1, "y")>>,
       <<Sri(2, "y"), <<>>, Hsts(2)>>, <<Cors(3)>> >>,
    << <<Hsts(3), <<>>>>, <<Sri(1, "x"), Raises, Hsts(1)>>, <<Raises>>, <<<<>>>> >>,
    << <<Sri(1, "x") \o Hsts(1)>> >> }

MCResults == UNION {ToSet(page) : page \in UNION {ToSet(scan) : scan \in MCScans}}

MCLimits == {0, 2, 9}
=============================================================================
