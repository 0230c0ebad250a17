CONSTANTS
  BlockHeights <- MCShortHeights
  EndSeq <- MCShortEndSeq
  SequenceOffset = 0
  KeyBase = 256
  StartHeight = 1
  BlockUpdateSize = 1
  MessageSize = 2
  MaxQueueSize = 2
  MaxTx = 3
  Faults = {"lose", "other", "sendfail", "revert", "reorder"}
  TxSizeLimit = 10
  Preemptive = TRUE
  MaxRms = 3
  MaxCrashes = 2
SPECIFICATION Spec
CHECK_DEADLOCK FALSE
INVARIANT FinalizedIsDelivered
INVARIANT IInv
PROPERTY RefinesDelivery
