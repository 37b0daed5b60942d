CONSTANTS
  p1 = p1
  p2 = p2
  c1 = c1
  c2 = c2
  NoMsg = NoMsg
  Producers = {p1}
  Consumers = {c1}
  Msg = {1, 2, 3, 5}
  Metadata <- OddMetadataOf
  Payload <- OddPayloadOf
  Blocking = {p1, c1}
  AutoUnlink = {c1}
  Timeouts = {"zero", "finite"}
  MAX_METADATA_SIZE = 1
  MAX_SLOT_SIZE = 10
  SEM_VALUE_MAX = 20
  HEADER_SIZE = 2
  total_data_bytes = 13
SPECIFICATION FairSpec
INVARIANTS PushReportTruthful FifoIntact
PROPERTIES TimedPopReturns ImplementsQueue
CHECK_DEADLOCK FALSE
