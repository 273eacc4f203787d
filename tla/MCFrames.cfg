SPECIFICATION Spec
CONSTANTS
  sender = sender
  contract = contract
  precompile = precompile
  fresh = fresh
  Addr <- MCAddr
  Precompile = {precompile}
  New = {fresh}
  CallStackLimit = 2
  MaxNonce = 2
  Amount = {0, 1}
  Asked = {9}
  OpCost = 1
  CallCost = 1
  TransferCost = 3
  Stipend = 2
  CreateCost = 2
  DepositCost = 1
  Reduction = 4
  Sender = sender
  GasLimit = 6
  Start <- MCStart
  Frontier = FALSE
  DBErrors = {"Touch", "Code", "Caller", "Created", "Beneficiary"}
INVARIANTS TypeOK FramesPaired StaticNeverWrites RefundMatchesClears OutputIsFresh
PROPERTIES GasNeverCreated FailureUndone ValueDelivered Terminates
CHECK_DEADLOCK FALSE
