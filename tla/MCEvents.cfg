SPECIFICATION FairSpec
CONSTANTS
  EthEnvs <- MCEthEnvs
  BridgeEnvs <- MCBridgeEnvs
  OtherSeq = 2
  StoreInterval = 2
  StartHeight = 1
  PointerSize = 8
  MessageSize = 300
  TxSizeLimit = 2000
  MarginForLimit = 0
  MaxQueueSize = 2
INVARIANTS ProofsWhole EventsKept FailureExplained
PROPERTIES SkipExplained AllDelivered
CHECK_DEADLOCK FALSE
