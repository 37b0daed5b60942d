CONSTANTS
  p1 = p1
  p2 = p2
  c1 = c1
  c2 = c2
  Producers = {p1}
  Consumers = {c1}
  AutoUnlink = {c1}
  Totals = {1}
  MaxConstructed = 1
  MaxAttached = 1
SPECIFICATION Spec
INVARIANT ConsumersCounted
CHECK_DEADLOCK FALSE
