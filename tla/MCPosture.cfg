\* CSPs of up to two directives, each with up to two of five sources, and every other aspect of a page, a
\* certificate and DNS varied from a sound site; 32 days to live, a zone on each side.
SPECIFICATION Spec
CONSTANTS
  Starts <- MCStarts
  Horizon = 64
INVARIANTS
  CspJudgedRight
  ExpiryToldInTime
PROPERTIES
  RemedyPays
  LookupsNotBlamed
CHECK_DEADLOCK FALSE
