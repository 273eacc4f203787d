SPECIFICATION Spec
CONSTANTS
  sender = sender
  contract = contract
  precompile = precompile
  fresh = fresh
  Addr <- MCAddr
  Precompile = {precompile}
  New = {fresh}
  CallStackLimit = 2
  MaxNonce = 2
  Amount = {0, 1}
  Asked = {1, 3}
  OpCost = 1
  CallCost = 1
  TransferCost = 3
  Stipend = 2
  CreateCost = 2
  DepositCost = 2
  Reduction = 4
  Sender = sender
  GasLimit = 7
  Start <- MCStart
  Frontier = TRUE
  DBErrors = {}
PROPERTIES
  FailureUndone
  DepositBuysCode
CHECK_DEADLOCK FALSE
