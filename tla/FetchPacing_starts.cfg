\* Three requests and one slot, no redirects and a prompt event loop: what is
\* ready runs before time passes.
SPECIFICATION PacingSpec
CONSTANTS
  Call = {t1, t2, t3}
  SlotCount = 1
  Interval = 2
  HopLimit = 0
  Prompt = TRUE
  Horizon = 8
INVARIANTS
  StartsSpaced
CHECK_DEADLOCK FALSE
