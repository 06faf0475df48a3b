\* Two runs with any of seven command lines on a site that changes, with requests
\* that fail, exceptions and kills.
SPECIFICATION Spec
CONSTANTS
  a = a
  b = b
  txt = txt
  env = env
  git = git
  SeverityOf <- MCSeverityOf
  CorsRules <- MCCorsRules
  HostOf <- MCHostOf
  OriginOf <- MCOriginOf
  SecurityTxt <- MCSecurityTxt
  Exposure <- MCExposure
  Options <- MCOptions
  Snapshots <- MCSnapshots
  Pages <- MCPages
  MaxRuns = 2
INVARIANTS NothingLost CountedOnce GatePassIsClean ExitOneMeansTripped VerdictIsOnRecord BrokenBaselineStops ChannelsAgree
PROPERTY UpdateIsQuiet
CHECK_DEADLOCK FALSE
