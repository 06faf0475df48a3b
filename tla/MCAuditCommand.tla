--------------------------- MODULE MCAuditCommand ---------------------------
(* Small instances of AuditCommand for TLC.                                   *)
EXTENDS AuditCommand

app == <<"src", "app.py">>
fixture == <<"tests", "deep", "keys.txt">>

MCFile == {app, fixture}
MCPython == {app}

MCSeverityOf ==
  [eval |-> "high", aws |-> "high", excpt |-> "low", vuln |-> "medium"]
MCTextOf == [eval |-> "pattern", aws |-> "key", excpt |-> "pattern"]
MCSecretRules == {"aws"}
MCLine == 1..4

Site(rule, line) == [rule |-> rule, line |-> line]

MCContents ==
  {Text({Site("eval", 1)}), Text({Site("eval", 1), Site("eval", 3), Site("aws", 2)}),
   Unparsable({Site("aws", 1), Site("eval", 2)}), Unparsable({}), Skipped}

MCAdvisories ==
  LET Vulnerable(range) == [rule |-> "vuln", manifest |-> <<"package.json">>, text |-> range]
  IN  {{}, {Vulnerable("<2")}, {Vulnerable("<2"), Vulnerable("3.x")}}

(* "tests/*" takes no file from tests/deep, "app.py" takes src/app.py. *)
MCRules ==
  {{}, {Pattern(<<"tests">>), Pattern(<<"src", "*">>)},
   {Subtree(<<"src">>), Pattern(<<"tests", "*">>)}, {Pattern(<<"app.py">>)}}

Audit(formats) == Reporting(formats)
Update == [Audit({"json"}) EXCEPT !.baseline = TRUE, !.update = TRUE]
Against(floor) ==
  [Audit({"json", "sarif"}) EXCEPT !.baseline = TRUE, !.failOn = {floor}, !.alerts = {"notion"}]

MCOptions ==
  {Update, Against("high"), [Audit({"json"}) EXCEPT !.failOn = {"medium"}],
   [Audit({"json"}) EXCEPT !.update = TRUE], Audit({})}
=============================================================================
