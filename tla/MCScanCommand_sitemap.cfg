\* One page named, and a sitemap that may not be fetched.
SPECIFICATION Spec
CONSTANTS
  a = a
  b = b
  txt = txt
  env = env
  git = git
  SeverityOf <- MCSeverityOf
  CorsRules <- MCCorsRules
  HostOf <- MCHostOf
  OriginOf <- MCOriginOf
  SecurityTxt <- MCSecurityTxt
  Exposure <- MCExposure
  Options <- SitemapOptions
  Snapshots <- MCSnapshots
  Pages <- MCPages
  MaxRuns = 1
INVARIANT GatePassAssessedAll
CHECK_DEADLOCK FALSE
