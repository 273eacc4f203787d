SPECIFICATION Spec
CONSTANTS
  sender = sender
  contract = contract
  precompile = precompile
  fresh = fresh
  Addr <- MCAddr
  Precompile = {precompile}
  New = {fresh}
  CallStackLimit = 1
  MaxNonce = 2
  Amount = {0, 1}
  Asked = {1}
  OpCost = 1
  CallCost = 1
  TransferCost = 3
  Stipend = 2
  CreateCost = 2
  DepositCost = 1
  Reduction = 4
  Sender = sender
  GasLimit = 3
  Start <- MCStart
  Frontier = FALSE
  DBErrors = {"Transfer"}
PROPERTY ValueDelivered
CHECK_DEADLOCK FALSE
