----------------------------- MODULE StorageGas -----------------------------
(***************************************************************************)
(* The forks (src/spec/spec.go) and what SSTORE costs and refunds in each   *)
(* (src/spec/gas_params.go).  A fork is its ForkID; fork.IsEnabledIn(x) is  *)
(* fork >= x.                                                               *)
(***************************************************************************)
EXTENDS Integers

Homestead == 2
SpuriousDragon == 5
Istanbul == 9
Berlin == 11
London == 12
Shanghai == 16
Cancun == 17
Prague == 18
Osaka == 19
\* The forks that have a gas table.
ForkID == 0 .. Osaka

\* The table of newGasParams.
SstoreStaticGas(fork) == CASE fork < Istanbul -> 5000 [] fork \in Istanbul .. Berlin - 1 -> 800
                           [] fork >= Berlin -> 100
SstoreSetCost(fork) == 20000 - SstoreStaticGas(fork)
SstoreResetCost(fork) == CASE fork < Istanbul -> 0
                           [] fork \in Istanbul .. Berlin - 1 -> 5000 - 800
                           [] fork >= Berlin -> 2900 - 100
ColdStorageCost(fork) == IF fork >= Berlin THEN 2100 ELSE 0
ClearingSlotRefund(fork) == IF fork >= London THEN 2900 + 1900 ELSE 15000
CallStipend == 2300

\* A slot had value original when the transaction began and has value present.
SstoreDynamicGas(fork, original, present, new, cold) ==
  IF fork < Istanbul
    THEN IF present = 0 /\ new # 0 THEN SstoreSetCost(fork) ELSE SstoreResetCost(fork)
    ELSE (IF cold THEN ColdStorageCost(fork) ELSE 0)
         + (IF new = present \/ original # present THEN 0
              ELSE IF original = 0 THEN SstoreSetCost(fork) ELSE SstoreResetCost(fork))

\* Mutant: a slot that is filled again keeps the refund for clearing it.
SstoreRefundKept(fork, original, present, new) ==
  LET clear    == ClearingSlotRefund(fork)
      cleared  == IF original # 0 /\ present # 0 /\ new = 0 THEN clear ELSE 0
      restored == IF original # new THEN 0
                    ELSE IF original = 0 THEN SstoreSetCost(fork) ELSE SstoreResetCost(fork)
  IN  IF fork < Istanbul THEN (IF present # 0 /\ new = 0 THEN clear ELSE 0)
        ELSE IF new = present THEN 0
        ELSE IF original = present /\ new = 0 THEN clear
        ELSE cleared + restored

\* Clearing a slot earns a refund, filling it again takes that back, and going back to
\* the original value gives back what the first write cost.
SstoreRefund(fork, original, present, new) ==
  LET clear    == ClearingSlotRefund(fork)
      cleared  == IF original = 0 THEN 0
                    ELSE IF present = 0 THEN -clear ELSE IF new = 0 THEN clear ELSE 0
      restored == IF original # new THEN 0
                    ELSE IF original = 0 THEN SstoreSetCost(fork) ELSE SstoreResetCost(fork)
  IN  IF fork < Istanbul THEN (IF present # 0 /\ new = 0 THEN clear ELSE 0)
        ELSE IF new = present THEN 0
        ELSE IF original = present /\ new = 0 THEN clear
        ELSE cleared + restored
=============================================================================
