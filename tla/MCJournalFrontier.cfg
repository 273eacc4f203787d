SPECIFICATION MappedLifecycleSpec
CONSTANTS
  caller = caller
  contract = contract
  unused = unused
  fresh = fresh
  code = code
  NoCode = NoCode
  None = None
  Addr = {caller, fresh}
  Key = {k1}
  Value = {0, 1}
  Code = {NoCode, code}
  MaxBalance = 9
  MaxNonce = 2
  Amount = {0}
  DBInfo <- MCDBInfo
  DBStorage <- MCDBStorage
  Precompiles = {}
  Precompile3 = None
  AccessLists <- MCAccessLists
  SpuriousDragon = FALSE
  Cancun = FALSE
  MaxEntries = 4
  MaxLogs = 0
  MaxDepth = 2
  MaxTx = 1
CHECK_DEADLOCK FALSE
PROPERTY MappedImplementsWorld RevertReversesAll
