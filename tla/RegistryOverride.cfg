CONSTANTS
  MAX_ITEMS = 2
  MAX_DEPTH = 2
  MAX_METADATA_SIZE = 20
  SlashNames = {"/tensor"}
  Objects <- Leaf
  RawMessages <- NoMessages
  Registrations <- OverrideText
  Messages <- LeafMessages
  Empty <- NoBytes
  MetadataSize <- SizeOf
  PayloadSize <- PayloadSizeOf
  MaxPushed = 1
SPECIFICATION Spec
PROPERTY SeedingKeepsOverrides
CHECK_DEADLOCK FALSE
