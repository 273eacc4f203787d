---------------------------- MODULE Transaction ----------------------------
(***************************************************************************)
(* host.Evm.transact (src/host/evm.go), SystemCall (src/host/system_call.go) *)
(* and the end of a transaction: validation, gas purchase, EIP-7702         *)
(* authorisations, execution, refund, reward.                               *)
(*                                                                          *)
(* The state is world, the accounts as the journal holds them.  Execution    *)
(* is one frame at depth 0 that writes one slot of its account; sub-frames   *)
(* are the subject of Frames, undo entries that of Journal.  Arithmetic on   *)
(* 256-bit words wraps at Word.  A database access that fails is named by    *)
(* bad.                                                                      *)
(***************************************************************************)
EXTENDS FiniteSetsExt, Sequences, GasMeter, StorageGas

CONSTANTS
  Addr, New,       \* New: what CreateAddress may yield
  Value,           \* storage values
  Word,            \* 2^256
  MaxNonce,        \* 2^64 - 1
  Envs,            \* block environments with the fork and the chain's limits
  Txs,             \* the transactions that may be submitted
  Start,           \* the world before the first transaction
  SystemGas,       \* the gas limit of a system call
  Spends,          \* gas that instructions other than SSTORE may cost
  DBErrors,        \* the accesses that may fail
  MaxOps, MaxTx    \* bounds: instructions per frame, transactions

Access == {"Caller", "CallerCode", "Authority", "Beneficiary"}
Code == {"None", "Contract", "Delegation"}
World == [bal : [Addr -> 0 .. Word - 1], nonce : [Addr -> 0 .. MaxNonce],
          code : [Addr -> Code], slot : [Addr -> Value]]
Env == [fork : ForkID, baseFee : Nat, blobPrice : Nat, gasLimit : Nat, coinbase : Addr]
Authorization == [authority : Addr, nonce : 0 .. MaxNonce, chain : BOOLEAN, signed : BOOLEAN,
                  clears : BOOLEAN]
Tx == [type : {"Legacy", "EIP2930", "EIP1559", "EIP4844", "EIP7702"}, create : BOOLEAN,
       caller : Addr, to : Addr, nonce : 0 .. MaxNonce, gasLimit : Nat, gasPrice : Nat,
       maxFee : Nat, maxPriority : Nat, value : Nat, zeros : Nat, nonZeros : Nat,
       listed : BOOLEAN, blobs : Nat, versioned : BOOLEAN, maxBlobFee : Nat,
       auths : Seq(Authorization)]

ASSUME TransactionOK ==
  /\ IsFiniteSet(Addr) /\ Addr # {} /\ New \subseteq Addr /\ 0 \in Value
  /\ Word \in Nat \ {0} /\ MaxNonce \in Nat \ {0} /\ SystemGas \in Nat
  /\ Envs \subseteq Env /\ Txs \subseteq Tx /\ Txs # {} /\ Start \in World
  /\ Spends \subseteq Nat /\ DBErrors \subseteq Access
  /\ MaxOps \in Nat /\ MaxTx \in Nat

VARIABLES
  env,       \* Evm.Block and Evm.ForkID
  phase,     \* where transact stands
  tx,        \* the transaction
  world,     \* the accounts
  before,    \* history: the world when the transaction began
  authI,     \* authorisations processed
  authRefund,
  frame,     \* the frame at depth 0
  result,    \* ExecutionResult; paid says that the beneficiary got its tip
  used,      \* history: what was consumed, as <<address, nonce>>
  count      \* bound: transactions begun

vars == <<env, phase, tx, world, before, authI, authRefund, frame, result, used, count>>

\* Whether it is a system call; self; gas, with the refund counter; instructions run; whether
\* self's slot is warm, and was from the start; history: dynamic gas of SSTORE; the world at
\* the checkpoint; how the frame ended.
Frame == [system : BOOLEAN, self : Addr, gas : Meter, ops : Nat, warm : BOOLEAN,
          listed : BOOLEAN, stored : Nat, saved : World,
          end : {"None", "Ok", "Revert", "Failure"}]

Result == [kind : {"None", "Success", "Revert", "Halt"}, invalid : BOOLEAN,
           gasUsed : Nat, gasRefund : Int, paid : BOOLEAN]
NoResult == [kind |-> "None", invalid |-> FALSE, gasUsed |-> 0, gasRefund |-> 0, paid |-> TRUE]

Mul(x, y) == (x * y) % Word
Add(x, y) == (x + y) % Word
Sub(x, y) == (x - y) % Word

Enabled(fork) == env.fork >= fork
Bad(accesses) == (DBErrors \cap accesses) \cup {"None"}

-----------------------------------------------------------------------------
(***************************************************************************)
(* Phase 1: validation of the transaction alone.                           *)
(***************************************************************************)
TypeEnabled(t) ==
  CASE t.type = "Legacy"  -> TRUE
    [] t.type = "EIP2930" -> Enabled(Berlin)
    [] t.type = "EIP1559" -> Enabled(London)
    [] t.type = "EIP4844" -> Enabled(Cancun)
    [] t.type = "EIP7702" -> Enabled(Prague) /\ t.auths # <<>> /\ ~t.create

FeeMarket(t) == t.type \notin {"Legacy", "EIP2930"}

\* Mutant: the price is not capped by the maximum fee.
EffectivePriceUncapped(t) ==
  IF FeeMarket(t) THEN Add(env.baseFee, t.maxPriority) ELSE t.gasPrice

EffectivePrice(t) ==
  LET price == Add(env.baseFee, t.maxPriority)
  IN  IF ~FeeMarket(t) THEN t.gasPrice ELSE IF price > t.maxFee THEN t.maxFee ELSE price

PriceOK(t) ==
  /\ FeeMarket(t) => t.maxPriority <= t.maxFee
  /\ FeeMarket(t) \/ Enabled(London) => EffectivePrice(t) >= env.baseFee

BlobsOK(t) ==
  t.type = "EIP4844" =>
    /\ env.blobPrice <= t.maxBlobFee
    /\ t.blobs \in 1 .. IF Enabled(Prague) THEN 9 ELSE 6
    /\ t.versioned /\ ~t.create

\* calcIntrinsicGas
Tokens(t) == t.zeros + t.nonZeros * IF Enabled(Istanbul) THEN 4 ELSE 17
InitialGas(t) ==
  21000 + 4 * Tokens(t)
  + (IF t.create /\ Enabled(Homestead) THEN 32000 ELSE 0)
  + (IF t.create /\ Enabled(Shanghai) THEN 2 * ((t.zeros + t.nonZeros + 31) \div 32) ELSE 0)
  + (IF t.listed THEN 2400 + 1900 ELSE 0)
  + 25000 * Len(t.auths)
FloorGas(t) == IF Enabled(Prague) THEN 10 * Tokens(t) + 21000 ELSE 0

TxGasLimitCap == 16777216
MaxInitCodeSize == 2 * 24576

GasOK(t) ==
  /\ Enabled(Osaka) => t.gasLimit <= TxGasLimitCap
  /\ t.gasLimit <= env.gasLimit
  /\ Enabled(Shanghai) /\ t.create => t.zeros + t.nonZeros <= MaxInitCodeSize
  /\ InitialGas(t) <= t.gasLimit /\ FloorGas(t) <= t.gasLimit

Valid(t) == TypeEnabled(t) /\ PriceOK(t) /\ BlobsOK(t) /\ GasOK(t)

(***************************************************************************)
(* Phase 2: the caller is loaded, checked and charged.                     *)
(***************************************************************************)
BlobGas(t) == IF t.type = "EIP4844" THEN t.blobs * 131072 ELSE 0
MaxPrice(t) == IF FeeMarket(t) THEN t.maxFee ELSE t.gasPrice

\* The code tests each product and sum for overflow by comparing it with one operand.
Affordable(w, t) ==
  LET gas   == Mul(MaxPrice(t), t.gasLimit)
      blobs == Mul(t.maxBlobFee, BlobGas(t))
      fees  == Add(gas, blobs)
      total == Add(fees, t.value)
  IN  /\ t.gasLimit > 0 => gas >= MaxPrice(t)
      /\ BlobGas(t) > 0 => fees >= blobs
      /\ total >= fees
      /\ w.bal[t.caller] >= total

\* The gas deduction and the nonce of a call are written without undo entries.
Charged(w, t) ==
  LET cost == Add(Mul(EffectivePrice(t), t.gasLimit), Mul(env.blobPrice, BlobGas(t)))
  IN  [w EXCEPT !.bal[t.caller] = Sub(@, cost),
                !.nonce[t.caller] = IF t.create THEN @ ELSE (@ + 1) % (MaxNonce + 1)]

SenderOK(w, t, bad) ==
  Enabled(Shanghai) /\ w.code[t.caller] # "None" =>
    bad # "CallerCode" /\ w.code[t.caller] = "Delegation"

\* Mutant: the caller is charged before its funds are compared.
PreExecutedEarly(w, t, bad) ==
  IF bad = "Caller" \/ ~SenderOK(w, t, bad) \/ w.nonce[t.caller] # t.nonce
    THEN [ok |-> FALSE, world |-> w]
    ELSE [ok |-> Affordable(w, t), world |-> Charged(w, t)]

PreExecuted(w, t, bad) ==
  IF bad = "Caller" \/ ~SenderOK(w, t, bad) \/ w.nonce[t.caller] # t.nonce \/ ~Affordable(w, t)
    THEN [ok |-> FALSE, world |-> w]
    ELSE [ok |-> TRUE, world |-> Charged(w, t)]

\* haltResult
HaltResult(t) == [NoResult EXCEPT !.kind = "Halt", !.invalid = TRUE, !.gasUsed = t.gasLimit]

Begin ==
  /\ phase = "idle" /\ count < MaxTx
  /\ \E t \in Txs, bad \in Bad({"Caller", "CallerCode"}) :
       LET made == PreExecuted(world, t, bad)
       IN  /\ tx' = t
           /\ IF Valid(t) /\ made.ok
                THEN /\ phase' = "authorise" /\ world' = made.world /\ result' = NoResult
                     /\ used' = IF t.create THEN used ELSE Append(used, <<t.caller, t.nonce>>)
                ELSE /\ phase' = "done" /\ result' = HaltResult(t)
                     /\ world' = IF Valid(t) THEN made.world ELSE world
                     /\ UNCHANGED used
  /\ before' = world /\ authI' = 0 /\ authRefund' = 0 /\ count' = count + 1
  /\ UNCHANGED <<env, frame>>

-----------------------------------------------------------------------------
(***************************************************************************)
(* applyEIP7702AuthList: one authorisation.                                *)
(***************************************************************************)
IsEmpty(w, a) == w.bal[a] = 0 /\ w.nonce[a] = 0 /\ w.code[a] = "None"

Authorized(w, auth, bad) ==
  /\ auth.chain /\ auth.nonce # MaxNonce /\ auth.signed
  /\ bad # "Authority" /\ w.code[auth.authority] # "Contract"
  /\ w.nonce[auth.authority] = auth.nonce

Delegated(w, auth) ==
  [w EXCEPT !.code[auth.authority] = IF auth.clears THEN "None" ELSE "Delegation",
            !.nonce[auth.authority] = @ + 1]

AuthsOf(t) == IF t.type = "EIP7702" THEN t.auths ELSE <<>>

Authorise ==
  /\ phase = "authorise" /\ authI < Len(AuthsOf(tx))
  /\ LET auth == tx.auths[authI + 1]
         a    == auth.authority
     IN  \E bad \in Bad({"Authority"}) :
           IF Authorized(world, auth, bad)
             THEN /\ world' = Delegated(world, auth)
                  /\ authRefund' = authRefund + IF IsEmpty(world, a) THEN 0 ELSE 25000 - 12500
                  /\ used' = Append(used, <<a, auth.nonce>>)
             ELSE UNCHANGED <<world, authRefund, used>>
  /\ authI' = authI + 1
  /\ UNCHANGED <<env, phase, tx, before, frame, result, count>>

-----------------------------------------------------------------------------
(***************************************************************************)
(* Phase 3: executeCall and executeCreate at depth 0, and the frame.       *)
(***************************************************************************)
NewFrame(self, gas, listed, saved) ==
  [system |-> FALSE, self |-> self, gas |-> NewGas(gas), ops |-> 0, warm |-> listed,
   listed |-> listed, stored |-> 0, saved |-> saved, end |-> "None"]

Moved(w, from, to, v) ==
  LET paid == [w.bal EXCEPT ![from] = @ - v]
  IN  [w EXCEPT !.bal = [paid EXCEPT ![to] = @ + v]]

\* The frame f begins in w, or ends with w.
Runs(f, w) == phase' = "run" /\ world' = w /\ frame' = f
Ends(f, w, end) == phase' = "settle" /\ world' = w /\ frame' = [f EXCEPT !.end = end]

AuthsDone == phase = "authorise" /\ authI = Len(AuthsOf(tx))
GasAvailable == tx.gasLimit - InitialGas(tx)

Overflows(w, to) == tx.caller # to /\ tx.value > 0 /\ w.bal[to] + tx.value >= Word

\* A receiver that overflows costs the sender the value (Journal).  Code that is empty ends
\* the call at once.
Call ==
  /\ AuthsDone /\ ~tx.create
  /\ LET f == NewFrame(tx.to, GasAvailable, tx.listed, world)
         w == Moved(world, tx.caller, tx.to, tx.value)
     IN  IF tx.value > world.bal[tx.caller] THEN Ends(f, world, "Revert")
           ELSE IF Overflows(world, tx.to)
             THEN Ends(f, [world EXCEPT !.bal[tx.caller] = @ - tx.value], "Failure")
           ELSE IF world.code[tx.to] = "None" THEN Ends(f, w, "Ok")
           ELSE Runs(f, w)
  /\ UNCHANGED <<env, tx, before, authI, authRefund, result, used, count>>

Bumped(w, a) == [w EXCEPT !.nonce[a] = @ + 1]

\* Mutant: the checkpoint is taken before the nonce is bumped.
CreateSavedEarly(w, a) == w

\* What a revert of the creation goes back to.
CreateSaved(w, a) == Bumped(w, a)

\* CreateAccountCheckpoint: the new account gets nonce 1 and the value.
Made(w, new) ==
  LET moved == Moved(w, tx.caller, new, tx.value)
  IN  IF Enabled(SpuriousDragon) THEN [moved EXCEPT !.nonce[new] = 1] ELSE moved

Collides(w, a) == w.code[a] # "None" \/ w.nonce[a] # 0 \/ w.slot[a] # 0

Create ==
  /\ AuthsDone /\ tx.create
  /\ \E new \in New :
       LET w == Bumped(world, tx.caller)
           f == NewFrame(new, GasAvailable, tx.listed, world)
           g == NewFrame(new, GasAvailable, tx.listed, CreateSaved(world, tx.caller))
       IN  IF tx.value > world.bal[tx.caller] THEN Ends(f, world, "Revert") /\ UNCHANGED used
             ELSE IF world.nonce[tx.caller] = MaxNonce
               THEN Ends(f, world, "Ok") /\ UNCHANGED used
             ELSE /\ used' = Append(used, <<tx.caller, tx.nonce>>)
                  /\ IF Collides(w, new) \/ Overflows(w, new) THEN Ends(g, w, "Failure")
                       ELSE IF tx.zeros + tx.nonZeros = 0 THEN Ends(g, Made(w, new), "Ok")
                       ELSE Runs(g, Made(w, new))
  /\ UNCHANGED <<env, tx, before, authI, authRefund, result, count>>

\* A system call: no validation, no fee, no value.
SystemCall ==
  /\ phase = "idle" /\ count < MaxTx
  /\ \E to \in Addr :
       LET f == [NewFrame(to, SystemGas, FALSE, world) EXCEPT !.system = TRUE]
       IN  IF world.code[to] = "None" THEN Ends(f, world, "Ok") ELSE Runs(f, world)
  /\ before' = world /\ count' = count + 1 /\ result' = NoResult
  /\ UNCHANGED <<env, tx, authI, authRefund, used>>

-----------------------------------------------------------------------------
(***************************************************************************)
(* The instructions of the frame.                                          *)
(***************************************************************************)
\* The interpreter halts; the frame is committed or reverted.
Close(f, w, end) == Ends(f, IF end = "Ok" THEN w ELSE f.saved, end)

SetSlot(w, a, v) == [w EXCEPT !.slot[a] = v]

\* opSstore
Store(v) ==
  LET f        == frame
      original == before.slot[f.self]
      present  == world.slot[f.self]
      dynamic  == SstoreDynamicGas(env.fork, original, present, v, ~f.warm)
      refund   == SstoreRefund(env.fork, original, present, v)
      cost     == SstoreStaticGas(env.fork) + dynamic
      paid     == RecordRefund(RecordCost(f.gas, cost), refund)
  IN  IF (Enabled(Istanbul) /\ f.gas.remaining <= CallStipend) \/ ~CanRecord(f.gas, cost)
        THEN Close(f, world, "Failure")
        ELSE Runs([f EXCEPT !.gas = paid, !.ops = @ + 1, !.warm = TRUE,
                            !.stored = @ + dynamic], SetSlot(world, f.self, v))

\* Mutant: RecordCostUnsafe, whose result is not looked at.
SpendUnsafe(cost) ==
  Runs([frame EXCEPT !.gas = RecordCost(@, cost), !.ops = @ + 1], world)

\* Any other instruction.
Spend(cost) ==
  IF ~CanRecord(frame.gas, cost) THEN Close(frame, world, "Failure")
    ELSE Runs([frame EXCEPT !.gas = RecordCost(@, cost), !.ops = @ + 1], world)

Step ==
  /\ phase = "run" /\ frame.ops < MaxOps
  /\ (\E v \in Value : Store(v)) \/ (\E cost \in Spends : Spend(cost))
  /\ UNCHANGED <<env, tx, before, authI, authRefund, result, used, count>>

\* The output of a creation becomes code; its deposit counts as spent before.
Halt ==
  /\ phase = "run"
  /\ \E end \in {"Ok", "Revert", "Failure"}, code \in {"None", "Contract"} :
       IF ~frame.system /\ tx.create
         THEN Close(frame, [world EXCEPT !.code[frame.self] = code], end)
         ELSE Close(frame, world, end)
  /\ UNCHANGED <<env, tx, before, authI, authRefund, result, used, count>>

-----------------------------------------------------------------------------
(***************************************************************************)
(* Phase 4: gas left, refunds, the floor, and who gets what.               *)
(***************************************************************************)
\* Mutant: the refund of a frame that failed counts.
GasAfterAnyRefund(f, t) ==
  LET left == IF f.end = "Failure" THEN 0 ELSE f.gas.remaining
      gas  == RecordRefund(RecordRefund(EraseCost(NewGasSpent(t.gasLimit), left), f.gas.refunded),
                           authRefund)
  IN  SetFinalRefund(gas, Enabled(London))

\* The gas of the transaction after execution, with the final refund.
GasAfter(f, t) ==
  LET left   == IF f.end = "Failure" THEN 0 ELSE f.gas.remaining
      earned == IF f.end = "Ok" THEN f.gas.refunded ELSE 0
      gas    == RecordRefund(RecordRefund(EraseCost(NewGasSpent(t.gasLimit), left), earned),
                             authRefund)
  IN  SetFinalRefund(gas, Enabled(London))

\* Mutant: the refund is paid on top of the floor.
WithFloorRefunded(gas, floor) ==
  IF floor > 0 /\ SpentSubRefunded(gas) < floor THEN SetSpent(gas, floor) ELSE gas

\* EIP-7623
WithFloor(gas, floor) ==
  IF floor > 0 /\ SpentSubRefunded(gas) < floor THEN SetRefund(SetSpent(gas, floor), 0) ELSE gas

Credit(w, a, v) == [w EXCEPT !.bal[a] = Add(@, v)]

\* Mutant: the beneficiary gets the base fee too.
RewardWithBaseFee(price, gasUsed) == Mul(price, gasUsed)

\* rewardBeneficiary: from LONDON on the base fee is burnt.
Reward(price, gasUsed) ==
  LET tip == IF ~Enabled(London) THEN price
               ELSE IF price > env.baseFee THEN price - env.baseFee ELSE 0
  IN  Mul(tip, gasUsed)

ResultKind(end) == CASE end = "Ok" -> "Success" [] end = "Revert" -> "Revert" [] OTHER -> "Halt"

\* A beneficiary that cannot be loaded gets nothing, and nobody learns of it.
Settle ==
  /\ phase = "settle" /\ ~frame.system
  /\ LET gas     == WithFloor(GasAfter(frame, tx), FloorGas(tx))
         price   == EffectivePrice(tx)
         back    == gas.remaining + IF gas.refunded > 0 THEN gas.refunded ELSE 0
         repaid  == Credit(world, tx.caller, Mul(price, back))
     IN  \E bad \in Bad({"Beneficiary"}) :
           /\ world' = IF bad = "None"
                         THEN Credit(repaid, env.coinbase, Reward(price, Used(gas))) ELSE repaid
           /\ result' = [kind |-> ResultKind(frame.end), invalid |-> FALSE,
                         gasUsed |-> Used(gas), gasRefund |-> gas.refunded,
                         paid |-> bad = "None"]
  /\ phase' = "done"
  /\ UNCHANGED <<env, tx, before, authI, authRefund, frame, used, count>>

\* The result of a system call; nothing is settled.
SystemDone ==
  /\ phase = "settle" /\ frame.system
  /\ result' = [kind |-> ResultKind(frame.end), invalid |-> FALSE,
                gasUsed |-> Used(frame.gas), gasRefund |-> 0, paid |-> TRUE]
  /\ phase' = "done"
  /\ UNCHANGED <<env, tx, world, before, authI, authRefund, frame, used, count>>

NoTx == CHOOSE t \in Txs : TRUE
NoFrame == NewFrame(CHOOSE a \in Addr : TRUE, 0, FALSE, Start)

\* CommitTx, or DiscardTx after a rejection: loads are all there is to revert.
NextTx ==
  /\ phase = "done" /\ count < MaxTx
  /\ phase' = "idle" /\ frame' = NoFrame /\ result' = NoResult
  /\ UNCHANGED <<env, tx, world, before, authI, authRefund, used, count>>

Init ==
  /\ env \in Envs /\ tx = NoTx
  /\ phase = "idle" /\ world = Start /\ before = Start
  /\ authI = 0 /\ authRefund = 0 /\ used = <<>> /\ count = 0
  /\ frame = NoFrame /\ result = NoResult

Next ==
  \/ Begin \/ SystemCall \/ Authorise \/ Call \/ Create \/ Step \/ Halt
  \/ Settle \/ SystemDone \/ NextTx

Spec == Init /\ [][Next]_vars

-----------------------------------------------------------------------------
(***************************************************************************)
(* What must hold.                                                         *)
(***************************************************************************)
Accepted == phase = "done" /\ ~result.invalid /\ ~frame.system

\* The type invariant: balances and nonces keep their width, the gas a frame has is never
\* negative, and the final refund is not (evm.go transact, gas.go).
TypeOK ==
  /\ env \in Env /\ tx \in Tx
  /\ phase \in {"idle", "authorise", "run", "settle", "done"}
  /\ world \in World /\ before \in World
  /\ authI \in Nat /\ authRefund \in Nat /\ count \in Nat
  /\ frame \in Frame /\ result \in Result
  /\ result.gasRefund >= 0
  /\ used \in Seq(Addr \X (0 .. MaxNonce))

Total(w) == MapThenSumSet(LAMBDA a : w.bal[a], Addr)

\* Ether is neither made nor lost: when a transaction ends, what is missing from the sum
\* of all balances is the base fee of the gas used (from LONDON on), the blob fee, and the
\* tip of a beneficiary that the database could not load (evm.go:575-589, 740-768).  A
\* system call and a rejected transaction move none.
EtherAccounted ==
  LET burnt == (IF Enabled(London) THEN env.baseFee * result.gasUsed ELSE 0)
               + env.blobPrice * BlobGas(tx)
      tip   == Reward(EffectivePrice(tx), result.gasUsed)
  IN  phase = "done" =>
        Total(before) - Total(world) =
          IF ~Accepted THEN 0 ELSE burnt + IF result.paid THEN 0 ELSE tip

\* A transaction rejected by a check leaves the accounts as they were: DiscardTx has no
\* undo entry for the gas deduction and the nonce (evm.go:427-432).
RejectedUnchanged == phase = "done" /\ result.invalid => world = before

\* No transaction and no authorisation takes effect twice, whatever fails or is reverted
\* after it: the nonce it carries is consumed for good (evm.go:430-432, 809-833; handler.go:340-354).
NoncesUsedOnce == \A i, j \in DOMAIN used : i # j => used[i] # used[j]

\* What the writes to a slot cost, less what they refund, depends only on the value the
\* transaction found and the value it leaves, from ISTANBUL on (gas_params.go:275-335).
Owed(fork, original, present) ==
  IF present = original THEN 0
    ELSE IF original = 0 THEN SstoreSetCost(fork)
    ELSE SstoreResetCost(fork) - IF present = 0 THEN ClearingSlotRefund(fork) ELSE 0

StorageCostIsNet ==
  phase = "run" /\ Enabled(Istanbul) =>
    frame.stored - frame.gas.refunded =
      (IF frame.warm /\ ~frame.listed THEN ColdStorageCost(env.fork) ELSE 0)
      + Owed(env.fork, before.slot[frame.self], world.slot[frame.self])

\* The refund that is paid was earned: by authorisations, or by a frame that succeeded.
\* The cast of a negative counter to uint64 would pay the largest refund (gas.go:164-175).
RefundEarned ==
  Accepted => result.gasRefund <= authRefund + IF frame.end = "Ok" THEN frame.gas.refunded ELSE 0

\* The gas that is paid for is at least the calldata floor (EIP-7623), at least four
\* fifths of what was spent (EIP-3529; a half before LONDON), and at most the limit; unless
\* the floor decides, what was spent includes the intrinsic gas (evm.go:523-573).
UsedWithinBounds ==
  Accepted =>
    LET spent == result.gasUsed + result.gasRefund
    IN  /\ result.gasUsed \in FloorGas(tx) .. tx.gasLimit
        /\ result.gasRefund * (IF Enabled(London) THEN 5 ELSE 2) <= spent
        /\ result.gasUsed = FloorGas(tx) \/ spent >= InitialGas(tx)

\* An accepted transaction has a caller that can pay the gas limit at the maximum price and
\* the value (evm.go:377: "caller must have balance >= max_gas_cost + value").
SolventCaller ==
  phase = "authorise" =>
    before.bal[tx.caller] >= MaxPrice(tx) * tx.gasLimit + tx.maxBlobFee * BlobGas(tx) + tx.value

\* The value of a transaction that succeeds has left the caller (evm.go:404-427;
\* handler.go:76-96): funds that were compared before the gas was bought still suffice.
ValueAffordable == phase = "authorise" => world.bal[tx.caller] >= tx.value
=============================================================================
