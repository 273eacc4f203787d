SPECIFICATION Spec
CONSTANTS
  eoa = eoa
  contract = contract
  miner = miner
  fresh = fresh
  Funds = 90000
  Addr = {eoa, contract, miner, fresh}
  New = {fresh}
  Value = {0, 1, 2}
  Word = 100000
  GasWord = 1073741824
  MaxNonce = 100
  Envs <- MCEnvs
  Txs <- MCTxs
  Start <- MCStart
  SystemGas = 50000
  Spends = {30000}
  DBErrors = {"Caller", "CallerCode", "Authority", "Beneficiary"}
  MaxOps = 3
  MaxTx = 1
CHECK_DEADLOCK FALSE
INVARIANT SolventCaller
