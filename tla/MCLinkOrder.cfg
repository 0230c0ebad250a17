CONSTANTS
  BlockHeights <- MCBlockHeights
  EndSeq <- MCEndSeq
  SequenceOffset = 0
  KeyBase = 256
  StartHeight = 1
  BlockUpdateSize = 1
  MessageSize = 2
  MaxQueueSize = 2
  MaxTx = 3
  Faults = {"reorder", "other"}
  TxSizeLimit = 10
  Preemptive = FALSE
  MaxRms = 4
  MaxCrashes = 0
SPECIFICATION Spec
CHECK_DEADLOCK FALSE
INVARIANT StatusesKept
INVARIANT NoSpin
INVARIANT DeliveredWhole
