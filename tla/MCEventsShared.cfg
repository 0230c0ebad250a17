SPECIFICATION Spec
CONSTANTS
  EthEnvs <- SharedEnvs
  BridgeEnvs <- NoEnvs
  OtherSeq = 2
  StoreInterval = 2
  StartHeight = 1
  PointerSize = 8
  MessageSize = 300
  TxSizeLimit = 2000
  MarginForLimit = 0
  MaxQueueSize = 2
INVARIANTS ProofCovers
CHECK_DEADLOCK FALSE
