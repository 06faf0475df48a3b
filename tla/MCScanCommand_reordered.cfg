\* The same two pages of an unchanging site, named in either order.
SPECIFICATION Spec
CONSTANTS
  a = a
  b = b
  txt = txt
  env = env
  git = git
  SeverityOf <- MCSeverityOf
  CorsRules <- MCCorsRules
  HostOf <- MCHostOf
  OriginOf <- MCOriginOf
  SecurityTxt <- MCSecurityTxt
  Exposure <- MCExposure
  Options <- ReorderedOptions
  Snapshots <- SteadySnapshots
  Pages <- MCPages
  MaxRuns = 2
INVARIANT OnlyNewReported
CHECK_DEADLOCK FALSE
