SPECIFICATION BalanceSpec
CONSTANTS
  caller = caller
  contract = contract
  unused = unused
  fresh = fresh
  code = code
  NoCode = NoCode
  None = None
  Addr = {caller, unused}
  Key = {k1}
  Value = {0, 1}
  Code = {NoCode, code}
  MaxBalance = 2
  MaxNonce = 2
  Amount = {1}
  DBInfo <- MCDBInfo
  DBStorage <- MCDBStorage
  Precompiles = {unused}
  Precompile3 = unused
  AccessLists <- MCAccessLists
  SpuriousDragon = TRUE
  Cancun = TRUE
  MaxEntries = 3
  MaxLogs = 0
  MaxDepth = 2
  MaxTx = 1
CHECK_DEADLOCK FALSE

PROPERTY RevertReversesAll
