SPECIFICATION Spec
CONSTANTS
  txSizeLimit = 2
  MaxQueueSize = 2
  TransactionResultRetryLimit = 1
  Sizes = {1, 3, 4}
  MaxMessages = 2
  MaxSigns = 2
  Messages = 4
  MaxTxs = 3
  Heavy = {3}
  Odd = {4}
  IconFaults = {{}, {"fail"}, {"duplicate", "slow"}, {"duplicate", "slow", "lose"}}
  EthFaults = {{}, {"other", "contract"}, {"contract", "fail"}, {"other", "contract", "drop", "fail", "refuse"}}
INVARIANTS WholeMessages ResultIsRight
PROPERTIES PanicExplained Answered
CHECK_DEADLOCK FALSE
