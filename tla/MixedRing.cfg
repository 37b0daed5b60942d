CONSTANTS
  p1 = p1
  p2 = p2
  c1 = c1
  c2 = c2
  NoMsg = NoMsg
  Producers = {p1, p2}
  Consumers = {c1, c2}
  Python = {p2, c2}
  Msg = {1, 2, 4}
  Metadata <- MetadataOf
  Payload <- PayloadOf
  Blocking = {p1, p2, c2}
  AutoUnlink = {c2}
  Timeouts = {"infinite"}
  NOTIFY_POSTS = 1
  MAX_METADATA_SIZE = 1
  MAX_SLOT_SIZE = 11
  SEM_VALUE_MAX = 40
  HEADER_SIZE = 2
  total_data_bytes = 15
SPECIFICATION MixedDrainSpec
INVARIANTS MixedTypeOK CopiesIntact UncopiedIntact BacklogIntact PushReportTruthful
CHECK_DEADLOCK FALSE
