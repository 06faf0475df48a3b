\* A scan of an internal host: scope.allow names it and scope.allow_private is
\* set; one slot although max_concurrency is 0, a rate limit, a pool of one.
SPECIFICATION Spec
CONSTANTS
  Fetches = {f1, f2}
  Probes = {p1}
  TargetOf <- MCTargetOfScoped
  Url <- MCUrlScoped
  Answers <- MCAnswersTwo
  Allow <- MCAllow
  AllowPrivate = TRUE
  MaxConcurrency = 0
  MaxRedirects = 1
  RateLimited = TRUE
  PoolSize = 1
INVARIANTS
  OnlyPermittedTraffic
PROPERTIES
  Termination
CHECK_DEADLOCK FALSE
