\* An index of up to three children, of which two are considered; every document
\* may fail, be malformed or repeat pages; caps from -1 up.
SPECIFICATION Spec
CONSTANTS
  root = root
  a = a
  b = b
  c = c
  first = first
  second = second
  third = third
  Root = root
  DocumentsAt <- MCDocumentsAt
  Caps <- MCCaps
  MaxChildSitemaps = 2
INVARIANTS  NoChildMissed Bounded FlagMeansDropped
CHECK_DEADLOCK FALSE
