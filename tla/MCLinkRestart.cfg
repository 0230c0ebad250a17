CONSTANTS
  BlockHeights <- MCLongHeights
  EndSeq <- MCFullEndSeq
  SequenceOffset = 0
  KeyBase = 256
  StartHeight = 3
  BlockUpdateSize = 1
  MessageSize = 2
  MaxQueueSize = 2
  MaxTx = 4
  Faults = {}
  TxSizeLimit = 4
  Preemptive = FALSE
  MaxRms = 5
  MaxCrashes = 2
SPECIFICATION FairSpec
CHECK_DEADLOCK FALSE
INVARIANT TypeOK
INVARIANT BlocksRetained
INVARIANT SizeBounded
INVARIANT MessagesChained
PROPERTY PendingEnds
