CONSTANTS
  MAX_ITEMS = 2
  MAX_DEPTH = 2
  MAX_METADATA_SIZE = 20
  SlashNames = {"/tensor"}
  Objects <- AllObjects
  RawMessages <- RawOnes
  Registrations <- TensorOnly
  Messages <- AllMessages
  Empty <- NoBytes
  MetadataSize <- SizeOf
  PayloadSize <- PayloadSizeOf
  MaxPushed = 2
SPECIFICATION Spec
INVARIANTS TypeOK ObjectsArrive PayloadsIntact ReceivedInOrder EosIsHonest ViewsAgree
PROPERTY ReaderFinishes
CHECK_DEADLOCK FALSE
