\* Three scans and an audit that share a history database; the audit and a scan write
\* an HTML report, which shows fewer entries than there may be.
SPECIFICATION FairSpec
CONSTANTS
  first = first
  second = second
  third = third
  audit = audit
  a = a
  b = b
  Runs = {first, second, third, audit}
  Audits = {audit}
  Html = {first, audit}
  TargetsOf <- MCTargetsOf
  Limit = 2
INVARIANTS
  EntriesWhole
  TablesReady
PROPERTIES
  ImplementsLog
  EveryRunEnds
CHECK_DEADLOCK FALSE
