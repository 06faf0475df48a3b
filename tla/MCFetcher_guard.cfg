\* Two fetches and a probe over the public network, with two slots: the lookup
\* of the guard and the one of the connection answer independently.
SPECIFICATION Spec
CONSTANTS
  Fetches = {f1, f2}
  Probes = {p1}
  TargetOf <- MCTargetOf
  Url <- MCUrl
  Answers <- MCAnswers
  Allow = {}
  AllowPrivate = FALSE
  MaxConcurrency = 2
  MaxRedirects = 2
  RateLimited = FALSE
  PoolSize = 2
INVARIANTS
  TypeOK
  PermitsConserved
  InFlightBounded
  OnlyPermittedTraffic
  ProbesAnonymous
  QuietOnceClosed
PROPERTIES
  ImplementsPromise
CHECK_DEADLOCK FALSE
