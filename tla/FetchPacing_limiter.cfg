\* Three requests, two slots and redirects, under any schedule: time may pass
\* at any point, up to the horizon.
SPECIFICATION PacingSpec
CONSTANTS
  Call = {t1, t2, t3}
  SlotCount = 2
  Interval = 2
  HopLimit = 1
  Prompt = FALSE
  Horizon = 7
INVARIANTS
  PassesSpaced
  NeverAheadOfRate
CHECK_DEADLOCK FALSE
