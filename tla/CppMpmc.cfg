CONSTANTS
  p1 = p1
  p2 = p2
  c1 = c1
  c2 = c2
  NoMsg = NoMsg
  Producers = {p1, p2}
  Consumers = {c1, c2}
  Msg = {1, 2, 3}
  Metadata <- MetadataOf
  Payload <- EvenPayloadOf
  Blocking = {p1, p2, c1, c2}
  AutoUnlink = {c1, c2}
  Timeouts = {"infinite"}
  MAX_METADATA_SIZE = 1
  MAX_SLOT_SIZE = 11
  SEM_VALUE_MAX = 7
  HEADER_SIZE = 2
  total_data_bytes = 15
SPECIFICATION Spec
SYMMETRY HandleSymmetry
INVARIANTS TypeOK MutualExclusion CountersMatchHandles BacklogIntact SpaceAccounting SuccessTruthful
PROPERTY EosOnlyWhenDrained
CHECK_DEADLOCK FALSE
