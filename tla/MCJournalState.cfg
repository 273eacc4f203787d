SPECIFICATION StateSpec
CONSTANTS
  caller = caller
  contract = contract
  unused = unused
  fresh = fresh
  code = code
  NoCode = NoCode
  None = None
  Addr = {caller, contract, unused}
  Key = {k1}
  Value = {0, 1, 2}
  Code = {NoCode, code}
  MaxBalance = 9
  MaxNonce = 2
  Amount = {1}
  DBInfo <- MCDBInfo
  DBStorage <- MCDBStorage
  Precompiles = {unused}
  Precompile3 = unused
  AccessLists <- MCAccessLists
  SpuriousDragon = TRUE
  Cancun = TRUE
  MaxEntries = 3
  MaxLogs = 1
  MaxDepth = 2
  MaxTx = 1
CHECK_DEADLOCK FALSE
INVARIANTS TypeOK CheckpointsNested OriginalIsTxStart
PROPERTY MappedImplementsWorld RipemdTouchSurvives
