\* Two audits of a Python file and a text file with one edit anywhere in between
\* or under them, against the baseline the first may write.
SPECIFICATION Spec
CONSTANTS
  SeverityOf <- MCSeverityOf
  TextOf <- MCTextOf
  SecretRules <- MCSecretRules
  Line <- MCLine
  File <- MCFile
  Python <- MCPython
  Contents <- MCContents
  Advisories <- MCAdvisories
  Rules <- MCRules
  Options <- MCOptions
  MaxRuns = 2
  MaxEdits = 1
INVARIANTS EachPlaceReported MovedIsNotNew AuditPassIsClean OnlyIgnoredIsSilent
CHECK_DEADLOCK FALSE
