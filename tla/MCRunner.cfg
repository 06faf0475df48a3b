\* One artifact alone, or three pages of a host and a probe, of which two checks
\* may raise; a limit of none, of fewer workers than artifacts and of more.
SPECIFICATION Spec
CONSTANTS
  Raises = Raises
  Scans <- MCScans
  Results <- MCResults
  Limits <- MCLimits
  IssueOf <- MCIssueOf
  Before <- MCBefore
INVARIANTS
  TypeOK
  SameAsSequential
  NoCheckLost
  NoneLeftRunning
PROPERTY
  Termination
CHECK_DEADLOCK FALSE
