CONSTANTS
  BlockHeights <- MCLongHeights
  EndSeq <- MCLongEndSeq
  SequenceOffset = 0
  KeyBase = 256
  StartHeight = 3
  BlockUpdateSize = 1
  MessageSize = 2
  MaxQueueSize = 2
  MaxTx = 4
  Faults = {}
  TxSizeLimit = 10
  Preemptive = FALSE
  MaxRms = 5
  MaxCrashes = 0
SPECIFICATION FairSpec
CHECK_DEADLOCK FALSE
INVARIANT NothingFails
INVARIANT RestartCovers
INVARIANT PendingHasWakeup
PROPERTY AllDelivered
