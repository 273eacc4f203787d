SPECIFICATION Spec
CONSTANTS
  eoa = eoa
  contract = contract
  miner = miner
  fresh = fresh
  Funds = 420000
  Addr = {eoa, contract, miner, fresh}
  New = {fresh}
  Value = {0, 1, 2}
  Word = 100000000
  GasWord = 1073741824
  MaxNonce = 100
  Envs <- MCEnvs
  Txs <- MCTxs
  Start <- MCStart
  SystemGas = 50000
  Spends = {30000}
  DBErrors = {"Caller", "CallerCode", "Authority", "Beneficiary"}
  MaxOps = 3
  MaxTx = 2
CHECK_DEADLOCK FALSE
INVARIANTS TypeOK EtherAccounted RejectedUnchanged NoncesUsedOnce StorageCostIsNet RefundEarned UsedWithinBounds ValueAffordable
