CONSTANTS
  p1 = p1
  p2 = p2
  c1 = c1
  c2 = c2
  Producers = {p1, p2}
  Consumers = {c1, c2}
  AutoUnlink = {c1}
  Totals = {1, 2}
  MaxConstructed = 2
  MaxAttached = 2
SPECIFICATION OrderlySpec
INVARIANTS TypeOK OneLockPerSegment HeaderWritten ProducersCounted
PROPERTIES UnlinkOnlyWhenUnused ConstructorReturns
CHECK_DEADLOCK FALSE
