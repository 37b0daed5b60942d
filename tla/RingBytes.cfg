CONSTANTS
  HEADER_SIZE = 5
  Base = 3
  NextWidth = 3
  MetaWidth = 1
  PayWidth = 2
  Totals = {9, 10, 11, 12, 13, 17}
  MetaLens = {0, 1, 2}
  PayLens = {0, 1, 3, 5}
SPECIFICATION Spec
INVARIANTS RoundTrip StaysInSlot SameFormat
