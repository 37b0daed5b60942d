CONSTANTS
  p1 = p1
  p2 = p2
  c1 = c1
  c2 = c2
  NoMsg = NoMsg
  Producers = {p1}
  Consumers = {c1, c2}
  Msg = {1, 2}
  Metadata <- MetadataOf
  Payload <- PayloadOf
  Blocking = {p1, c1, c2}
  AutoUnlink = {c1, c2}
  Timeouts = {"finite", "infinite"}
  MAX_METADATA_SIZE = 1
  MAX_SLOT_SIZE = 11
  SEM_VALUE_MAX = 20
  HEADER_SIZE = 2
  total_data_bytes = 10
SPECIFICATION DrainSpec
PROPERTIES EveryoneFinishes PublishedIsRead
CHECK_DEADLOCK FALSE
