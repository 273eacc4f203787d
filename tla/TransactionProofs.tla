------------------------- MODULE TransactionProofs -------------------------
(***************************************************************************)
(* Proofs about a transaction, for every value of the constants.  Inv is   *)
(* inductive: besides the properties it says where the frame's gas comes   *)
(* from (GasInv) and that the refund counter covers what the slots that are*)
(* still clear may have taken back (RefundInv), so that it is never        *)
(* negative.  The funds of the caller and the nonces have arguments of     *)
(* their own on top of Inv.                                                *)
(***************************************************************************)
EXTENDS Transaction, SumProofs, TLAPS

-----------------------------------------------------------------------------
(***************************************************************************)
(* The gas table of SSTORE.                                                *)
(***************************************************************************)
\* What filling the slot again would take back from the refund counter.
Due(fork, original, present) ==
  IF original # 0 /\ present = 0 THEN ClearingSlotRefund(fork) ELSE 0

\* Costs are natural numbers, in every fork that has a gas table.
LEMMA StorageGasTypes ==
  ASSUME NEW fork \in ForkID, NEW original, NEW present, NEW new, NEW cold \in BOOLEAN
  PROVE  /\ SstoreStaticGas(fork) \in Nat
         /\ SstoreDynamicGas(fork, original, present, new, cold) \in Nat
         /\ SstoreRefund(fork, original, present, new) \in Int
         /\ ClearingSlotRefund(fork) \in Nat
         /\ ColdStorageCost(fork) \in Nat
BY DEF ForkID, SstoreStaticGas, SstoreDynamicGas, SstoreRefund, ClearingSlotRefund,
       SstoreSetCost, SstoreResetCost, ColdStorageCost, Istanbul, Berlin, London, Osaka

\* A refund that takes something back takes no more than was paid for clearing the slot.
LEMMA RefundCoversDue ==
  ASSUME NEW fork \in ForkID, NEW original, NEW present, NEW new
  PROVE  SstoreRefund(fork, original, present, new)
           >= Due(fork, original, new) - Due(fork, original, present)
BY DEF Due, ForkID, SstoreStaticGas, SstoreDynamicGas, SstoreRefund, ClearingSlotRefund,
       SstoreSetCost, SstoreResetCost, ColdStorageCost, Istanbul, Berlin, London, Osaka

\* One write costs, net, the change of what the slot owes (gas_params.go:275-335).
LEMMA NetCost ==
  ASSUME NEW fork \in ForkID, fork >= Istanbul,
         NEW original, NEW present, NEW new, NEW cold \in BOOLEAN
  PROVE  SstoreDynamicGas(fork, original, present, new, cold)
           - SstoreRefund(fork, original, present, new)
           = (IF cold THEN ColdStorageCost(fork) ELSE 0)
             + Owed(fork, original, new) - Owed(fork, original, present)
BY DEF Owed, ForkID, SstoreStaticGas, SstoreDynamicGas, SstoreRefund, ClearingSlotRefund,
       SstoreSetCost, SstoreResetCost, ColdStorageCost, Istanbul, Berlin, London, Osaka

-----------------------------------------------------------------------------
(***************************************************************************)
(* Types of the operators.                                                 *)
(***************************************************************************)
\* What is computed from a transaction alone.
LEMMA GasTypes ==
  ASSUME NEW t \in Tx, env \in Env
  PROVE  /\ InitialGas(t) \in Nat /\ FloorGas(t) \in Nat /\ AuthsOf(t) \in Seq(Authorization)
         /\ BlobGas(t) \in Nat /\ MaxPrice(t) \in Nat
<1>1. /\ t.zeros \in Nat /\ t.nonZeros \in Nat /\ t.blobs \in Nat /\ t.maxFee \in Nat
      /\ t.gasPrice \in Nat /\ t.auths \in Seq(Authorization)
  BY DEF Tx
<1>2. Len(t.auths) \in Nat BY <1>1
<1>3. Tokens(t) \in Nat BY <1>1 DEF Tokens
<1>4. (t.zeros + t.nonZeros + 31) \div 32 \in Nat BY <1>1, SMTT(30)
<1>5. InitialGas(t) \in Nat
  <2> DEFINE creation == IF t.create /\ Enabled(Homestead) THEN 32000 ELSE 0
             initcode == IF t.create /\ Enabled(Shanghai)
                           THEN 2 * ((t.zeros + t.nonZeros + 31) \div 32) ELSE 0
             list == IF t.listed THEN 2400 + 1900 ELSE 0
  <2>1. creation \in Nat /\ list \in Nat OBVIOUS
  <2>2. initcode \in Nat
    <3> HIDE DEF creation, list
    <3> QED BY <1>4
  <2>3. InitialGas(t) = 21000 + 4 * Tokens(t) + creation + initcode + list + 25000 * Len(t.auths)
    BY DEF InitialGas
  <2> HIDE DEF creation, initcode, list
  <2> QED BY <1>2, <1>3, <2>1, <2>2, <2>3, SMTT(30)
<1>6. FloorGas(t) \in Nat BY <1>3 DEF FloorGas
<1>7. AuthsOf(t) \in Seq(Authorization) BY <1>1 DEF AuthsOf
<1>8. BlobGas(t) \in Nat /\ MaxPrice(t) \in Nat BY <1>1 DEF BlobGas, MaxPrice
<1> QED BY <1>5, <1>6, <1>7, <1>8

\* 256-bit sums and differences stay in range.
LEMMA WordArithmetic ==
  ASSUME NEW x \in Int, NEW y \in Int
  PROVE  /\ Add(x, y) \in 0 .. Word - 1 /\ Sub(x, y) \in 0 .. Word - 1
         /\ Add(x, y) \in Nat /\ Sub(x, y) \in Nat
BY TransactionOK DEF Add, Sub

\* 256-bit products stay in range.
LEMMA WordProduct ==
  ASSUME NEW x \in Int, NEW y \in Int
  PROVE  Mul(x, y) \in 0 .. Word - 1 /\ Mul(x, y) \in Nat
<1>1. x * y \in Int OBVIOUS
<1> QED BY <1>1, TransactionOK DEF Mul

\* A transfer that was checked keeps balances in range.
LEMMA MovedType ==
  ASSUME NEW w \in World, NEW from \in Addr, NEW to \in Addr, NEW v \in Nat,
         v <= w.bal[from], from = to \/ w.bal[to] + v < Word
  PROVE  Moved(w, from, to, v) \in World
BY TransactionOK DEF Moved, World

\* Charging the caller keeps the types and the slots.
LEMMA ChargedType ==
  ASSUME NEW w \in World, NEW t \in Tx, env \in Env
  PROVE  Charged(w, t) \in World /\ Charged(w, t).slot = w.slot
<1> DEFINE cost == Add(Mul(EffectivePrice(t), t.gasLimit), Mul(env.blobPrice, BlobGas(t)))
           nonce == IF t.create THEN w.nonce[t.caller] ELSE (w.nonce[t.caller] + 1) % (MaxNonce + 1)
<1>1. t.caller \in Addr /\ w.bal[t.caller] \in 0 .. Word - 1 /\ w.nonce[t.caller] \in 0 .. MaxNonce
  BY DEF Tx, World
<1>2. nonce \in 0 .. MaxNonce BY <1>1, TransactionOK
<1>3. EffectivePrice(t) \in Int /\ t.gasLimit \in Int /\ env.blobPrice \in Int /\ BlobGas(t) \in Int
  <2>1. Add(env.baseFee, t.maxPriority) \in Int BY WordArithmetic, TransactionOK DEF Tx, Env
  <2> QED BY <2>1, GasTypes DEF EffectivePrice, Tx, Env
<1>4. cost \in Int
  <2> DEFINE gas == Mul(EffectivePrice(t), t.gasLimit)
             blobs == Mul(env.blobPrice, BlobGas(t))
  <2>0. gas \in Nat /\ blobs \in Nat BY <1>3, WordProduct, Zenon
  <2> HIDE DEF gas, blobs
  <2>1. gas \in Int /\ blobs \in Int BY <2>0
  <2>2. Add(gas, blobs) \in Int BY <2>1, WordArithmetic
  <2> QED BY <2>2 DEF gas, blobs
<1>5. Sub(w.bal[t.caller], cost) \in 0 .. Word - 1
  <2>1. w.bal[t.caller] \in Int BY <1>1, TransactionOK
  <2> QED BY <2>1, <1>4, WordArithmetic, Zenon
<1>6. Charged(w, t) = [w EXCEPT !.bal[t.caller] = Sub(w.bal[t.caller], cost),
                                !.nonce[t.caller] = nonce]
  BY DEF Charged
<1> DEFINE b == Sub(w.bal[t.caller], cost)
<1> HIDE DEF cost, nonce
<1>7. b \in 0 .. Word - 1 BY <1>5
<1>8. Charged(w, t) = [w EXCEPT !.bal[t.caller] = b, !.nonce[t.caller] = nonce] BY <1>6
<1> HIDE DEF b
<1>9. Charged(w, t) = [w EXCEPT !.bal = [w.bal EXCEPT ![t.caller] = b],
                                !.nonce = [w.nonce EXCEPT ![t.caller] = nonce]]
  BY <1>8 DEF World
<1>10. /\ w.bal \in [Addr -> 0 .. Word - 1] /\ w.nonce \in [Addr -> 0 .. MaxNonce] BY DEF World
<1> DEFINE bal == [w.bal EXCEPT ![t.caller] = b]
           nonces == [w.nonce EXCEPT ![t.caller] = nonce]
<1>11. bal \in [Addr -> 0 .. Word - 1] /\ nonces \in [Addr -> 0 .. MaxNonce]
  BY <1>1, <1>2, <1>7, <1>10
<1> HIDE DEF bal, nonces
<1> QED BY <1>9, <1>11, Zenon DEF World, bal, nonces

\* A rejected transaction leaves the accounts alone.
LEMMA PreExecutedType ==
  ASSUME NEW t \in Tx, NEW bad, env \in Env, world \in World
  PROVE  /\ PreExecuted(world, t, bad).ok \in BOOLEAN
         /\ PreExecuted(world, t, bad).world \in World
         /\ PreExecuted(world, t, bad).world.slot = world.slot
         /\ ~PreExecuted(world, t, bad).ok => PreExecuted(world, t, bad).world = world
<1> DEFINE refused == \/ bad = "Caller" \/ ~SenderOK(world, t, bad)
                      \/ world.nonce[t.caller] # t.nonce \/ ~Affordable(world, t)
<1>1. PreExecuted(world, t, bad) = IF refused THEN [ok |-> FALSE, world |-> world]
                                     ELSE [ok |-> TRUE, world |-> Charged(world, t)]
  BY DEF PreExecuted
<1> HIDE DEF refused
<1> QED BY <1>1, ChargedType

\* An authorisation keeps the types and the slots.
LEMMA DelegatedType ==
  ASSUME NEW w \in World, NEW auth \in Authorization, NEW bad, Authorized(w, auth, bad)
  PROVE  Delegated(w, auth) \in World /\ Delegated(w, auth).slot = w.slot
<1> DEFINE a == auth.authority
           c == IF auth.clears THEN "None" ELSE "Delegation"
<1>1. a \in Addr /\ w.nonce[a] + 1 \in 0 .. MaxNonce /\ c \in Code
  BY TransactionOK DEF Authorized, Authorization, World, Code
<1>2. Delegated(w, auth) = [w EXCEPT !.code[a] = c, !.nonce[a] = w.nonce[a] + 1]
  BY DEF Delegated
<1> HIDE DEF a, c
<1> DEFINE codes == [w.code EXCEPT ![a] = c]
           nonces == [w.nonce EXCEPT ![a] = w.nonce[a] + 1]
<1>3. Delegated(w, auth) = [w EXCEPT !.code = codes, !.nonce = nonces] BY <1>2 DEF World
<1>4. codes \in [Addr -> Code] /\ nonces \in [Addr -> 0 .. MaxNonce] BY <1>1 DEF World
<1> HIDE DEF codes, nonces
<1> QED BY <1>3, <1>4, Zenon DEF World

\* The nonce of a creator stays in range.
LEMMA BumpedType ==
  ASSUME NEW w \in World, NEW a \in Addr, w.nonce[a] # MaxNonce
  PROVE  Bumped(w, a) \in World /\ Bumped(w, a).slot = w.slot /\ Bumped(w, a).bal = w.bal
BY TransactionOK, SMTT(30) DEF Bumped, World

\* A new contract gets its value and its nonce.
LEMMA MadeType ==
  ASSUME NEW w \in World, NEW new \in Addr, tx \in Tx, tx.value <= w.bal[tx.caller],
         ~Overflows(w, new)
  PROVE  Made(w, new) \in World /\ Made(w, new).slot = w.slot
<1> DEFINE m == Moved(w, tx.caller, new, tx.value)
<1>1. tx.value \in Nat /\ tx.caller \in Addr /\ w.bal[new] \in 0 .. Word - 1 BY DEF Tx, World
<1>2. tx.caller = new \/ w.bal[new] + tx.value < Word BY <1>1, TransactionOK DEF Overflows
<1>3. m \in World BY <1>1, <1>2, MovedType
<1>4. m.slot = w.slot BY DEF Moved, World
<1>5. 1 \in 0 .. MaxNonce BY TransactionOK
<1>6. Made(w, new) = IF Enabled(SpuriousDragon) THEN [m EXCEPT !.nonce[new] = 1] ELSE m
  BY DEF Made
<1> HIDE DEF m
<1> QED BY <1>3, <1>4, <1>5, <1>6 DEF World

\* Credits wrap.
LEMMA CreditType ==
  ASSUME NEW w \in World, NEW a \in Addr, NEW v \in Int
  PROVE  Credit(w, a, v) \in World
<1> DEFINE b == Add(w.bal[a], v)
<1>1. w.bal[a] \in Int BY TransactionOK DEF World
<1>2. b \in 0 .. Word - 1 BY <1>1, WordArithmetic, Zenon
<1>3. Credit(w, a, v) = [w EXCEPT !.bal[a] = b] BY DEF Credit
<1> HIDE DEF b
<1> QED BY <1>2, <1>3 DEF World

-----------------------------------------------------------------------------
(***************************************************************************)
(* The gas meter.                                                          *)
(***************************************************************************)
\* The meter after a cost, field by field.
LEMMA RecordCostValue ==
  ASSUME NEW g \in Meter, NEW n \in Nat
  PROVE  RecordCost(g, n) =
           [limit |-> g.limit, remaining |-> g.remaining - n, refunded |-> g.refunded]
BY DEF Meter, RecordCost

\* The meter after a refund, field by field.
LEMMA RecordRefundValue ==
  ASSUME NEW g \in Meter, NEW r \in Int
  PROVE  RecordRefund(g, r) =
           [limit |-> g.limit, remaining |-> g.remaining, refunded |-> g.refunded + r]
BY DEF Meter, RecordRefund

\* The meter when the floor decides.
LEMMA FloorSpentValue ==
  ASSUME NEW g \in Meter, NEW n \in Nat, n <= g.limit
  PROVE  SetRefund(SetSpent(g, n), 0) =
           [limit |-> g.limit, remaining |-> g.limit - n, refunded |-> 0]
<1>1. ~(n > g.limit) BY DEF Meter
<1>2. SetSpent(g, n) = [g EXCEPT !.remaining = g.limit - n] BY <1>1 DEF SetSpent
<1> DEFINE h == [g EXCEPT !.remaining = g.limit - n]
<1>3. h = [limit |-> g.limit, remaining |-> g.limit - n, refunded |-> g.refunded] BY DEF Meter
<1> HIDE DEF h
<1>4. [h EXCEPT !.refunded = 0] = [limit |-> g.limit, remaining |-> g.limit - n, refunded |-> 0]
  BY <1>3
<1> QED BY <1>2, <1>4 DEF SetRefund, h

\* A new frame has the type and its gas.
LEMMA NewFrameType ==
  ASSUME NEW self \in Addr, NEW gas \in Nat, NEW listed \in BOOLEAN, NEW saved \in World
  PROVE  /\ NewFrame(self, gas, listed, saved) \in Frame
         /\ NewFrame(self, gas, listed, saved).gas = NewGas(gas)
BY DEF NewFrame, Frame, NewGas, Meter

\* A counter that is not negative does not grow by the cast.
LEMMA UnsignedBelow ==
  ASSUME NEW x \in Nat
  PROVE  Unsigned(x) \in Nat /\ Unsigned(x) <= x
<1>1. CASE x < GasWord BY <1>1, GasWordOK DEF Unsigned
<1>2. CASE x >= GasWord
  <2>1. x % GasWord \in 0 .. GasWord - 1 BY GasWordOK
  <2> QED BY <1>2, <2>1, GasWordOK DEF Unsigned
<1> QED BY <1>1, <1>2, GasWordOK

\* The final refund is at most the counter and at most a fifth (a half) of the gas spent.
LEMMA FinalRefund ==
  ASSUME NEW g \in Meter, g.remaining <= g.limit, g.refunded >= 0, NEW london \in BOOLEAN
  PROVE  LET f == SetFinalRefund(g, london)
         IN  /\ f \in Meter /\ f.limit = g.limit /\ f.remaining = g.remaining
             /\ f.refunded \in Nat /\ f.refunded <= g.refunded
             /\ f.refunded * (IF london THEN 5 ELSE 2) <= g.limit - g.remaining
<1> DEFINE cap == Spent(g) \div (IF london THEN 5 ELSE 2)
           made == Unsigned(g.refunded)
           paid == IF made > cap THEN cap ELSE made
<1>1. Spent(g) = g.limit - g.remaining /\ Spent(g) \in Nat /\ g.refunded \in Nat
  BY DEF Spent, Meter
<1>2. made \in Nat /\ made <= g.refunded BY <1>1, UnsignedBelow
<1>3. cap \in Nat /\ cap * (IF london THEN 5 ELSE 2) <= Spent(g)
  <2> HIDE DEF made
  <2>1. CASE london BY <1>1, <2>1
  <2>2. CASE ~london BY <1>1, <2>2
  <2> QED BY <2>1, <2>2
<1>4. SetFinalRefund(g, london) = [g EXCEPT !.refunded = paid] BY DEF SetFinalRefund
<1> HIDE DEF made, cap
<1>5. paid \in Nat /\ paid <= g.refunded /\ paid * (IF london THEN 5 ELSE 2) <= Spent(g)
  BY <1>1, <1>2, <1>3
<1> HIDE DEF paid
<1> QED BY <1>1, <1>4, <1>5 DEF Meter

\* The refund that authorisations and the frame earned.
Earned(f) == authRefund + IF f.end = "Ok" THEN f.gas.refunded ELSE 0

\* The meter of the transaction after the frame's gas and refund were added.
LEMMA GasAfterBounds ==
  ASSUME tx \in Tx, env \in Env, frame \in Frame, authRefund \in Nat,
         frame.gas.remaining <= frame.gas.limit, frame.gas.limit <= tx.gasLimit,
         frame.gas.refunded >= 0
  PROVE  LET g == GasAfter(frame, tx)
         IN  /\ g \in Meter /\ g.limit = tx.gasLimit /\ g.remaining <= frame.gas.limit
             /\ g.refunded \in Nat /\ g.refunded <= Earned(frame)
             /\ g.refunded * (IF Enabled(London) THEN 5 ELSE 2) <= g.limit - g.remaining
<1> DEFINE left == IF frame.end = "Failure" THEN 0 ELSE frame.gas.remaining
           earned == IF frame.end = "Ok" THEN frame.gas.refunded ELSE 0
           spent == EraseCost(NewGasSpent(tx.gasLimit), left)
           all == RecordRefund(RecordRefund(spent, earned), authRefund)
<1>1. frame.gas \in Meter /\ tx.gasLimit \in Nat BY DEF Frame, Tx
<1>2. /\ left \in Nat /\ left <= frame.gas.limit /\ left <= tx.gasLimit
      /\ earned \in Nat /\ Earned(frame) = authRefund + earned
  BY <1>1 DEF Meter, Earned
<1> HIDE DEF left, earned
<1>3. all \in Meter /\ all.limit = tx.gasLimit /\ all.remaining = left
      /\ all.refunded = earned + authRefund
  <2>1. spent = [limit |-> tx.gasLimit, remaining |-> left, refunded |-> 0]
    BY <1>2 DEF NewGasSpent, EraseCost
  <2> HIDE DEF spent
  <2> DEFINE more == RecordRefund(spent, earned)
  <2>2. more = [limit |-> tx.gasLimit, remaining |-> left, refunded |-> earned]
    <3>1. spent \in Meter BY <1>1, <1>2, <2>1 DEF Meter
    <3>2. more = [limit |-> spent.limit, remaining |-> spent.remaining,
                  refunded |-> spent.refunded + earned]
      BY <1>2, <3>1, RecordRefundValue
    <3> HIDE DEF more
    <3> QED BY <1>2, <2>1, <3>2
  <2> HIDE DEF more
  <2>3. more \in Meter /\ authRefund \in Int BY <1>1, <1>2, <2>2 DEF Meter
  <2>4. all = RecordRefund(more, authRefund) BY DEF more
  <2>5. all = [limit |-> more.limit, remaining |-> more.remaining,
               refunded |-> more.refunded + authRefund]
    BY <2>3, <2>4, RecordRefundValue
  <2> HIDE DEF all
  <2> QED BY <1>1, <1>2, <2>2, <2>5 DEF Meter
<1>4. GasAfter(frame, tx) = SetFinalRefund(all, Enabled(London))
  BY DEF GasAfter, left, earned
<1>5. Enabled(London) \in BOOLEAN BY DEF Enabled
<1> HIDE DEF all
<1> DEFINE g == SetFinalRefund(all, Enabled(London))
<1>6. /\ g \in Meter /\ g.limit = all.limit /\ g.remaining = all.remaining
      /\ g.refunded \in Nat /\ g.refunded <= all.refunded
      /\ g.refunded * (IF Enabled(London) THEN 5 ELSE 2) <= all.limit - all.remaining
  <2>1. all.remaining <= all.limit /\ all.refunded >= 0 BY <1>2, <1>3
  <2> QED BY <1>3, <1>5, <2>1, FinalRefund
<1> QED BY <1>2, <1>3, <1>4, <1>6

\* What holds of the meter when the fees are computed.
Settled(g) ==
  /\ g \in Meter /\ g.refunded \in Nat /\ g.refunded <= Earned(frame)
  /\ Used(g) \in FloorGas(tx) .. tx.gasLimit
  /\ g.refunded * (IF Enabled(London) THEN 5 ELSE 2) <= Used(g) + g.refunded
  /\ Used(g) = FloorGas(tx) \/ Used(g) + g.refunded >= InitialGas(tx)
  /\ Used(g) + g.remaining + g.refunded = tx.gasLimit

\* The floor included, the meter is within its bounds.
LEMMA SettledGas ==
  ASSUME tx \in Tx, env \in Env, frame \in Frame, authRefund \in Nat,
         frame.gas.remaining <= frame.gas.limit,
         InitialGas(tx) <= tx.gasLimit, FloorGas(tx) <= tx.gasLimit,
         frame.gas.limit = tx.gasLimit - InitialGas(tx), frame.gas.refunded >= 0
  PROVE  Settled(WithFloor(GasAfter(frame, tx), FloorGas(tx)))
<1> DEFINE g == GasAfter(frame, tx)
           floor == FloorGas(tx)
           q == IF Enabled(London) THEN 5 ELSE 2
<1>. SUFFICES Settled(WithFloor(g, floor)) OBVIOUS
<1>1. floor \in Nat /\ InitialGas(tx) \in Nat /\ tx.gasLimit \in Nat /\ floor <= tx.gasLimit
  BY GasTypes DEF Tx
<1>2. frame.gas.limit <= tx.gasLimit BY <1>1
<1>3. /\ g \in Meter /\ g.limit = tx.gasLimit /\ g.remaining <= tx.gasLimit - InitialGas(tx)
      /\ g.refunded \in Nat /\ g.refunded <= Earned(frame)
      /\ g.refunded * q <= g.limit - g.remaining
  BY <1>2, GasAfterBounds
<1>4. q \in {2, 5} OBVIOUS
<1> HIDE DEF g, floor, q
<1>5. g.remaining \in Nat BY <1>3 DEF Meter
<1>6. Spent(g) = tx.gasLimit - g.remaining /\ Spent(g) \in Nat /\ Spent(g) >= InitialGas(tx)
      /\ Spent(g) <= tx.gasLimit /\ g.refunded <= Spent(g)
  BY <1>1, <1>3, <1>4, <1>5 DEF Spent
<1>7. Used(g) = Spent(g) - g.refunded /\ SpentSubRefunded(g) = Used(g)
  BY <1>3, <1>6 DEF Used, SpentSubRefunded
<1>8. Earned(frame) \in Nat
  BY DEF Earned, Frame, Meter
<1>9. CASE floor > 0 /\ Used(g) < floor
  <2> DEFINE h == SetRefund(SetSpent(g, floor), 0)
  <2>1. WithFloor(g, floor) = h BY <1>7, <1>9 DEF WithFloor
  <2>2. h \in Meter /\ h.refunded = 0 /\ Spent(h) = floor
    <3>1. h = [limit |-> g.limit, remaining |-> g.limit - floor, refunded |-> 0]
      BY <1>1, <1>3, FloorSpentValue
    <3> HIDE DEF h
    <3> QED BY <1>1, <1>3, <3>1 DEF Meter, Spent
  <2>3. Used(h) = floor BY <1>1, <2>2 DEF Used
  <2>4. h.remaining = tx.gasLimit - floor
    <3>1. h = [limit |-> g.limit, remaining |-> g.limit - floor, refunded |-> 0]
      BY <1>1, <1>3, FloorSpentValue
    <3> HIDE DEF h
    <3> QED BY <1>3, <3>1
  <2> HIDE DEF h
  <2>5. Used(h) + h.remaining + h.refunded = tx.gasLimit BY <1>1, <2>2, <2>3, <2>4
  <2> QED BY <1>1, <1>4, <1>8, <2>1, <2>2, <2>3, <2>5 DEF Settled, floor, q
<1>10. CASE ~(floor > 0 /\ Used(g) < floor)
  <2>1. WithFloor(g, floor) = g BY <1>7, <1>10 DEF WithFloor
  <2>2. Used(g) \in floor .. tx.gasLimit BY <1>1, <1>3, <1>6, <1>7, <1>10
  <2>3. Used(g) + g.refunded = Spent(g) BY <1>3, <1>6, <1>7
  <2>4. Used(g) + g.remaining + g.refunded = tx.gasLimit BY <1>1, <1>3, <1>5, <1>6, <1>7
  <2> QED BY <1>1, <1>3, <1>6, <2>1, <2>2, <2>3, <2>4 DEF Settled, Spent, floor, q
<1> QED BY <1>9, <1>10

-----------------------------------------------------------------------------
(***************************************************************************)
(* The invariant.                                                          *)
(***************************************************************************)
\* The frame's gas is the limit less the intrinsic gas, and the limit covers both minima.
GasInv ==
  /\ frame.gas.remaining <= frame.gas.limit
  /\ phase \in {"idle", "authorise"} => ~frame.system
  /\ phase \in {"authorise", "run", "settle"} /\ ~frame.system =>
       InitialGas(tx) <= tx.gasLimit /\ FloorGas(tx) <= tx.gasLimit
  /\ phase \in {"run", "settle"} /\ ~frame.system =>
       frame.gas.limit = tx.gasLimit - InitialGas(tx)

\* The counter covers what is due for the slot, so it is never negative.
RefundInv ==
  /\ frame.listed => frame.warm
  /\ frame.gas.refunded >= 0
  /\ phase = "authorise" => world.slot = before.slot
  /\ phase = "run" =>
       frame.gas.refunded >= Due(env.fork, before.slot[frame.self], world.slot[frame.self])

\* The inductive invariant.
Inv ==
  /\ TypeOK /\ GasInv /\ RefundInv
  /\ StorageCostIsNet /\ RejectedUnchanged /\ RefundEarned /\ UsedWithinBounds

\* Three properties are about the end of a transaction.
LEMMA NotDone ==
  ASSUME phase' # "done"
  PROVE  RejectedUnchanged' /\ RefundEarned' /\ UsedWithinBounds'
BY DEF RejectedUnchanged, RefundEarned, UsedWithinBounds, Accepted

\* One property is about the frame.
LEMMA NotRunning ==
  ASSUME phase' # "run"
  PROVE  StorageCostIsNet'
BY DEF StorageCostIsNet

\* A rejection that left the accounts alone.
LEMMA Rejected ==
  ASSUME result'.invalid, world' = before'
  PROVE  RejectedUnchanged' /\ RefundEarned' /\ UsedWithinBounds'
BY DEF RejectedUnchanged, RefundEarned, UsedWithinBounds, Accepted

\* The thresholds of a transaction do not change while it runs.
LEMMA SameTx ==
  ASSUME env' = env, tx' = tx
  PROVE  /\ InitialGas(tx)' = InitialGas(tx) /\ FloorGas(tx)' = FloorGas(tx)
         /\ Enabled(London)' = Enabled(London) /\ Enabled(Istanbul)' = Enabled(Istanbul)
BY DEF InitialGas, FloorGas, Tokens, Enabled

\* The thresholds of the next transaction.
LEMMA NextTransaction ==
  ASSUME env' = env, NEW t, tx' = t
  PROVE  InitialGas(tx)' = InitialGas(t) /\ FloorGas(tx)' = FloorGas(t)
BY DEF InitialGas, FloorGas, Tokens, Enabled

\* A frame that has written nothing owes nothing.
LEMMA Starting ==
  ASSUME NEW f \in Frame, frame' = f, f.warm = f.listed, f.stored = 0, f.gas.refunded = 0,
         before \in World, before' = before \/ before' = world,
         phase' \in {"authorise", "run"} => world'.slot = before'.slot
  PROVE  RefundInv' /\ StorageCostIsNet'
<1>1. RefundInv' BY DEF RefundInv, Due, Frame
<1>2. StorageCostIsNet' BY DEF StorageCostIsNet, Owed, Frame
<1> QED BY <1>1, <1>2

\* The frame between two transactions.
LEMMA NoFrameType ==
  /\ NoFrame \in Frame /\ ~NoFrame.system /\ NoFrame.warm = NoFrame.listed
  /\ NoFrame.stored = 0 /\ NoFrame.gas = NewGas(0)
<1> DEFINE a == CHOOSE x \in Addr : TRUE
<1>1. a \in Addr /\ Start \in World BY TransactionOK
<1>2. NoFrame = NewFrame(a, 0, FALSE, Start) BY DEF NoFrame
<1> HIDE DEF a
<1>3. NoFrame \in Frame /\ NoFrame.gas = NewGas(0) BY <1>1, <1>2, NewFrameType, Zenon
<1>4. ~NoFrame.system /\ NoFrame.warm = NoFrame.listed /\ NoFrame.stored = 0
  BY <1>2 DEF NewFrame
<1> QED BY <1>3, <1>4

\* The initial states.
LEMMA InitInv == Init => Inv
<1> SUFFICES ASSUME Init PROVE Inv OBVIOUS
<1>1. NoTx \in Tx /\ env \in Env /\ Start \in World BY TransactionOK DEF Init, NoTx
<1>2. NoResult \in Result /\ NoResult.gasRefund >= 0 BY DEF NoResult, Result
<1>3. TypeOK BY <1>1, <1>2, NoFrameType DEF Init, TypeOK
<1>4. GasInv BY NoFrameType DEF Init, GasInv, NewGas
<1>5. RefundInv BY NoFrameType DEF Init, RefundInv, NewGas
<1>6. StorageCostIsNet /\ RejectedUnchanged /\ RefundEarned /\ UsedWithinBounds
  BY DEF Init, StorageCostIsNet, RejectedUnchanged, RefundEarned, UsedWithinBounds, Accepted
<1> QED BY <1>3, <1>4, <1>5, <1>6 DEF Inv

\* Validation and gas purchase.
LEMMA BeginStep ==
  ASSUME Inv, Begin
  PROVE  Inv'
<1> USE DEF Inv
<1>1. PICK t \in Txs, bad \in Bad({"Caller", "CallerCode"}) :
        LET made == PreExecuted(world, t, bad)
        IN  /\ tx' = t
            /\ IF Valid(t) /\ made.ok
                 THEN /\ phase' = "authorise" /\ world' = made.world /\ result' = NoResult
                      /\ used' = IF t.create THEN used ELSE Append(used, <<t.caller, t.nonce>>)
                 ELSE /\ phase' = "done" /\ result' = HaltResult(t)
                      /\ world' = IF Valid(t) THEN made.world ELSE world
                      /\ UNCHANGED used
  BY DEF Begin
<1>2. /\ before' = world /\ authI' = 0 /\ authRefund' = 0 /\ count' = count + 1
      /\ env' = env /\ frame' = frame /\ phase = "idle"
  BY DEF Begin
<1>3. t \in Tx /\ world \in World /\ env \in Env BY TransactionOK DEF TypeOK
<1> DEFINE made == PreExecuted(world, t, bad)
<1>4. /\ made.ok \in BOOLEAN /\ made.world \in World /\ made.world.slot = world.slot
      /\ ~made.ok => made.world = world
  BY <1>3, PreExecutedType
<1>5. /\ tx' = t
      /\ \/ /\ Valid(t) /\ phase' = "authorise" /\ world' = made.world /\ result' = NoResult
            /\ used' = IF t.create THEN used ELSE Append(used, <<t.caller, t.nonce>>)
         \/ phase' = "done" /\ result' = HaltResult(t) /\ world' = world /\ used' = used
  BY <1>1, <1>4
<1> HIDE DEF made
<1>6. used' \in Seq(Addr \X (0 .. MaxNonce))
  <2>1. <<t.caller, t.nonce>> \in Addr \X (0 .. MaxNonce) BY <1>3 DEF Tx
  <2>2. used \in Seq(Addr \X (0 .. MaxNonce)) BY DEF TypeOK
  <2>3. Append(used, <<t.caller, t.nonce>>) \in Seq(Addr \X (0 .. MaxNonce)) BY <2>1, <2>2
  <2>4. used' = used \/ used' = Append(used, <<t.caller, t.nonce>>) BY <1>5
  <2> QED BY <2>2, <2>3, <2>4, Zenon
<1>7. result' \in Result /\ result'.gasRefund >= 0
  <2>1. NoResult \in Result /\ NoResult.gasRefund = 0 BY DEF NoResult, Result
  <2>2. HaltResult(t) \in Result /\ HaltResult(t).gasRefund = 0
    <3> DEFINE r == NoResult
    <3>1. HaltResult(t) = [r EXCEPT !.kind = "Halt", !.invalid = TRUE, !.gasUsed = t.gasLimit]
      BY DEF HaltResult
    <3>2. t.gasLimit \in Nat BY <1>3 DEF Tx
    <3>3. r \in Result /\ r.gasRefund = 0 BY <2>1
    <3> HIDE DEF r
    <3> QED BY <3>1, <3>2, <3>3, Zenon DEF Result
  <2> QED BY <1>5, <2>1, <2>2
<1>8. TypeOK' BY <1>2, <1>3, <1>4, <1>5, <1>6, <1>7 DEF TypeOK
<1>9. GasInv'
  <2>1. phase' = "authorise" => InitialGas(t) <= t.gasLimit /\ FloorGas(t) <= t.gasLimit
    BY <1>5 DEF Valid, GasOK
  <2>2. InitialGas(tx)' = InitialGas(t) /\ FloorGas(tx)' = FloorGas(t)
    BY <1>2, <1>5, NextTransaction
  <2> QED BY <1>2, <1>5, <2>1, <2>2 DEF GasInv
<1>10. RefundInv' BY <1>2, <1>4, <1>5 DEF RefundInv
<1>11. StorageCostIsNet' BY <1>5, NotRunning
<1>12. RejectedUnchanged' /\ RefundEarned' /\ UsedWithinBounds'
  BY <1>2, <1>5, NotDone, Rejected, Zenon DEF HaltResult, NoResult
<1> QED BY <1>8, <1>9, <1>10, <1>11, <1>12

\* Ending a frame changes nothing else of it.
LEMMA EndedFrame ==
  ASSUME NEW f \in Frame, NEW end \in {"Ok", "Revert", "Failure"}
  PROVE  LET g == [f EXCEPT !.end = end]
         IN  /\ g \in Frame /\ g.gas = f.gas /\ g.system = f.system /\ g.warm = f.warm
             /\ g.listed = f.listed /\ g.stored = f.stored /\ g.self = f.self
             /\ g.saved = f.saved
BY DEF Frame

\* A frame that has done nothing.
Fresh(f, gas) ==
  /\ f \in Frame /\ ~f.system /\ f.warm = f.listed /\ f.stored = 0
  /\ f.gas.limit = gas /\ f.gas.remaining = gas /\ f.gas.refunded = 0

\* NewFrame makes one.
LEMMA FreshFrame ==
  ASSUME NEW self \in Addr, NEW gas \in Nat, NEW listed \in BOOLEAN, NEW saved \in World
  PROVE  Fresh(NewFrame(self, gas, listed, saved), gas)
<1>1. NewFrame(self, gas, listed, saved) \in Frame /\
      NewFrame(self, gas, listed, saved).gas = NewGas(gas)
  BY NewFrameType
<1> QED BY <1>1 DEF NewFrame, NewGas, Fresh

\* One authorisation.
LEMMA AuthoriseStep ==
  ASSUME Inv, Authorise
  PROVE  Inv'
<1> USE DEF Inv
<1> DEFINE auth == tx.auths[authI + 1]
<1>1. /\ phase = "authorise" /\ phase' = "authorise" /\ authI' = authI + 1
      /\ authI < Len(AuthsOf(tx))
      /\ env' = env /\ tx' = tx /\ before' = before /\ frame' = frame /\ result' = result
      /\ count' = count
  BY DEF Authorise
<1>2. PICK bad \in Bad({"Authority"}) :
        IF Authorized(world, auth, bad)
          THEN /\ world' = Delegated(world, auth)
               /\ authRefund' = authRefund
                    + IF IsEmpty(world, auth.authority) THEN 0 ELSE 25000 - 12500
               /\ used' = Append(used, <<auth.authority, auth.nonce>>)
          ELSE UNCHANGED <<world, authRefund, used>>
  BY DEF Authorise
<1>3. tx \in Tx /\ world \in World /\ env \in Env /\ authI \in Nat /\ authRefund \in Nat
      /\ used \in Seq(Addr \X (0 .. MaxNonce))
  BY DEF TypeOK
<1>4. auth \in Authorization
  <2>1. AuthsOf(tx) = tx.auths /\ tx.auths \in Seq(Authorization)
    BY <1>1, <1>3 DEF AuthsOf, Tx
  <2>2. authI + 1 \in 1 .. Len(tx.auths) BY <1>1, <1>3, <2>1
  <2> QED BY <2>1, <2>2
<1> HIDE DEF auth
<1>5. world' \in World /\ world'.slot = world.slot BY <1>2, <1>3, <1>4, DelegatedType
<1>6. authRefund' \in Nat
  <2> DEFINE more == IF IsEmpty(world, auth.authority) THEN 0 ELSE 25000 - 12500
  <2>1. more \in Nat OBVIOUS
  <2>2. authRefund' = authRefund + more \/ authRefund' = authRefund BY <1>2
  <2> HIDE DEF more
  <2> QED BY <1>3, <2>1, <2>2
<1>7. used' \in Seq(Addr \X (0 .. MaxNonce))
  <2>1. <<auth.authority, auth.nonce>> \in Addr \X (0 .. MaxNonce)
    BY <1>4 DEF Authorization
  <2>2. Append(used, <<auth.authority, auth.nonce>>) \in Seq(Addr \X (0 .. MaxNonce))
    BY <1>3, <2>1
  <2>3. used' = used \/ used' = Append(used, <<auth.authority, auth.nonce>>) BY <1>2
  <2> QED BY <1>3, <2>2, <2>3, Zenon
<1>8. TypeOK' BY <1>1, <1>3, <1>5, <1>6, <1>7 DEF TypeOK
<1>9. GasInv' BY <1>1, SameTx DEF GasInv
<1>10. RefundInv' BY <1>1, <1>5 DEF RefundInv
<1>11. StorageCostIsNet' BY <1>1, NotRunning
<1>12. RejectedUnchanged' /\ RefundEarned' /\ UsedWithinBounds' BY <1>1, NotDone
<1> QED BY <1>8, <1>9, <1>10, <1>11, <1>12

\* A system call.
LEMMA SystemCallStep ==
  ASSUME Inv, SystemCall
  PROVE  Inv'
<1> USE DEF Inv
<1>1. PICK to \in Addr :
        LET f == [NewFrame(to, SystemGas, FALSE, world) EXCEPT !.system = TRUE]
        IN  IF world.code[to] = "None" THEN Ends(f, world, "Ok") ELSE Runs(f, world)
  BY Zenon DEF SystemCall
<1>2. /\ before' = world /\ count' = count + 1 /\ result' = NoResult
      /\ env' = env /\ tx' = tx /\ authI' = authI /\ authRefund' = authRefund /\ used' = used
  BY DEF SystemCall
<1>3. world \in World /\ SystemGas \in Nat /\ before \in World BY TransactionOK DEF TypeOK
<1> DEFINE n == NewFrame(to, SystemGas, FALSE, world)
           f == [n EXCEPT !.system = TRUE]
           e == [f EXCEPT !.end = "Ok"]
<1>4. world' = world /\ \/ phase' = "settle" /\ frame' = e
                        \/ phase' = "run" /\ frame' = f
  BY <1>1, Zenon DEF Ends, Runs
<1>5. /\ n \in Frame /\ n.warm = n.listed /\ n.stored = 0
      /\ n.gas.remaining = n.gas.limit /\ n.gas.refunded = 0
  <2>1. Fresh(n, SystemGas) BY <1>3, FreshFrame, Zenon
  <2> QED BY <2>1, Zenon DEF Fresh
<1> HIDE DEF n
<1>6. /\ f \in Frame /\ f.warm = f.listed /\ f.stored = 0 /\ f.system
      /\ f.gas.remaining = f.gas.limit /\ f.gas.refunded = 0
  BY <1>5, Zenon DEF Frame
<1> HIDE DEF f
<1>7. /\ e \in Frame /\ e.warm = e.listed /\ e.stored = 0 /\ e.system
      /\ e.gas.remaining = e.gas.limit /\ e.gas.refunded = 0
  BY <1>6, EndedFrame, ZenonT(60)
<1> HIDE DEF e
<1>8. PICK h \in Frame : /\ frame' = h /\ h.warm = h.listed /\ h.stored = 0 /\ h.system
                         /\ h.gas.remaining = h.gas.limit /\ h.gas.refunded = 0
  BY <1>4, <1>6, <1>7
<1>9. h.gas \in Meter /\ phase' \in {"run", "settle"} BY <1>4 DEF Frame
<1>10. NoResult \in Result /\ NoResult.gasRefund >= 0 BY DEF NoResult, Result
<1>11. TypeOK' BY <1>2, <1>3, <1>4, <1>8, <1>10 DEF TypeOK
<1>12. GasInv' BY <1>8, <1>9 DEF GasInv, Meter
<1>13. RefundInv' /\ StorageCostIsNet' BY <1>2, <1>3, <1>4, <1>8, Starting
<1>14. RejectedUnchanged' /\ RefundEarned' /\ UsedWithinBounds' BY <1>9, NotDone
<1> QED BY <1>11, <1>12, <1>13, <1>14

\* The frame at depth 0 is opened, or ended before it begins.
LEMMA Opened ==
  ASSUME Inv, phase = "authorise",
         NEW f, Fresh(f, GasAvailable),
         \/ phase' = "run" /\ frame' = f
         \/ \E end \in {"Ok", "Revert", "Failure"} :
              phase' = "settle" /\ frame' = [f EXCEPT !.end = end],
         world' \in World, world'.slot = world.slot,
         used' \in Seq(Addr \X (0 .. MaxNonce)),
         UNCHANGED <<env, tx, before, authI, authRefund, result, count>>
  PROVE  Inv'
<1> USE DEF Inv
<1>1. PICK h \in Frame : frame' = h /\ Fresh(h, GasAvailable)
  <2>1. f \in Frame BY DEF Fresh
  <2>2. CASE frame' = f BY <2>1, <2>2
  <2>3. CASE frame' # f
    <3>1. PICK end \in {"Ok", "Revert", "Failure"} : frame' = [f EXCEPT !.end = end] BY <2>3
    <3> DEFINE g == [f EXCEPT !.end = end]
    <3>2. /\ g \in Frame /\ g.gas = f.gas /\ g.system = f.system /\ g.warm = f.warm
          /\ g.listed = f.listed /\ g.stored = f.stored
      BY <2>1, EndedFrame, Zenon
    <3> HIDE DEF g
    <3>3. frame' = g BY <3>1 DEF g
    <3> QED BY <3>2, <3>3 DEF Fresh
  <2> QED BY <2>2, <2>3
<1>2. phase' \in {"run", "settle"} OBVIOUS
<1>3. TypeOK' BY <1>1, <1>2 DEF TypeOK
<1>4. GasInv'
  <2>1. InitialGas(tx) <= tx.gasLimit /\ FloorGas(tx) <= tx.gasLimit BY DEF GasInv
  <2>2. InitialGas(tx)' = InitialGas(tx) /\ FloorGas(tx)' = FloorGas(tx) BY SameTx
  <2>3. /\ h.gas.limit = tx.gasLimit - InitialGas(tx) /\ h.gas.remaining = h.gas.limit
        /\ ~h.system
    BY <1>1 DEF Fresh, GasAvailable
  <2>4. h.gas.limit \in Nat BY DEF Frame, Meter
  <2> QED BY <1>1, <1>2, <2>1, <2>2, <2>3, <2>4 DEF GasInv
<1>5. RefundInv' /\ StorageCostIsNet'
  <2>1. before \in World /\ world'.slot = before.slot /\ before' = before
    BY DEF RefundInv, TypeOK
  <2> QED BY <1>1, <2>1, Starting DEF Fresh
<1>6. RejectedUnchanged' /\ RefundEarned' /\ UsedWithinBounds' BY <1>2, NotDone
<1> QED BY <1>3, <1>4, <1>5, <1>6

\* The gas limit covers the intrinsic gas.
LEMMA Available ==
  ASSUME Inv, phase = "authorise"
  PROVE  GasAvailable \in Nat
<1>1. InitialGas(tx) \in Nat /\ tx.gasLimit \in Nat BY GasTypes, Zenon DEF Inv, TypeOK, Tx
<1>2. InitialGas(tx) <= tx.gasLimit BY DEF Inv, GasInv
<1> QED BY <1>1, <1>2 DEF GasAvailable

\* A call.
LEMMA CallStep ==
  ASSUME Inv, Call
  PROVE  Inv'
<1> USE DEF Inv
<1> DEFINE f == NewFrame(tx.to, GasAvailable, tx.listed, world)
           w == Moved(world, tx.caller, tx.to, tx.value)
           burnt == [world EXCEPT !.bal[tx.caller] = @ - tx.value]
<1>1. /\ phase = "authorise"
      /\ UNCHANGED <<env, tx, before, authI, authRefund, result, used, count>>
  BY DEF Call, AuthsDone
<1>2. /\ tx \in Tx /\ world \in World /\ used' \in Seq(Addr \X (0 .. MaxNonce))
      /\ tx.to \in Addr /\ tx.caller \in Addr /\ tx.value \in Nat /\ tx.listed \in BOOLEAN
      /\ world.bal \in [Addr -> 0 .. Word - 1]
  BY <1>1, Zenon DEF TypeOK, Tx, World
<1>3. Fresh(f, GasAvailable) BY <1>1, <1>2, Available, FreshFrame, Zenon
<1>4. CASE tx.value > world.bal[tx.caller]
  <2>1. phase' = "settle" /\ frame' = [f EXCEPT !.end = "Revert"] /\ world' = world
    BY <1>4 DEF Call, Ends
  <2> HIDE DEF f
  <2> QED BY <1>1, <1>2, <1>3, <2>1, Opened, Zenon
<1>5. CASE ~(tx.value > world.bal[tx.caller]) /\ Overflows(world, tx.to)
  <2>1. phase' = "settle" /\ frame' = [f EXCEPT !.end = "Failure"] /\ world' = burnt
    BY <1>5 DEF Call, Ends
  <2>2. world.bal[tx.caller] - tx.value \in 0 .. Word - 1 BY <1>2, <1>5, TransactionOK, SMTT(30)
  <2>3. burnt \in World /\ burnt.slot = world.slot BY <1>2, <2>2, Zenon DEF World
  <2> HIDE DEF f, burnt
  <2> QED BY <1>1, <1>2, <1>3, <2>1, <2>3, Opened, Zenon
<1>6. CASE ~(tx.value > world.bal[tx.caller]) /\ ~Overflows(world, tx.to)
  <2>1. /\ world' = w
        /\ \/ phase' = "settle" /\ frame' = [f EXCEPT !.end = "Ok"]
           \/ phase' = "run" /\ frame' = f
    BY <1>6 DEF Call, Ends, Runs
  <2>2. tx.caller = tx.to \/ world.bal[tx.to] + tx.value < Word
    BY <1>2, <1>6, TransactionOK DEF Overflows
  <2>3. tx.value <= world.bal[tx.caller] BY <1>2, <1>6, TransactionOK
  <2>4. w \in World BY <1>2, <2>2, <2>3, MovedType
  <2>5. w.slot = world.slot BY <1>2 DEF Moved, World
  <2> HIDE DEF f, w
  <2> QED BY <1>1, <1>2, <1>3, <2>1, <2>4, <2>5, Opened
<1> QED BY <1>4, <1>5, <1>6

\* A creation.
LEMMA CreateStep ==
  ASSUME Inv, Create
  PROVE  Inv'
<1> USE DEF Inv
<1> DEFINE w == Bumped(world, tx.caller)
           saved == CreateSaved(world, tx.caller)
           more == Append(used, <<tx.caller, tx.nonce>>)
<1>1. /\ phase = "authorise"
      /\ UNCHANGED <<env, tx, before, authI, authRefund, result, count>>
  BY DEF Create, AuthsDone
<1>2. PICK new \in New :
        LET f == NewFrame(new, GasAvailable, tx.listed, world)
            g == NewFrame(new, GasAvailable, tx.listed, saved)
        IN  IF tx.value > world.bal[tx.caller]
              THEN Ends(f, world, "Revert") /\ UNCHANGED used
            ELSE IF world.nonce[tx.caller] = MaxNonce
              THEN Ends(f, world, "Ok") /\ UNCHANGED used
            ELSE /\ used' = more
                 /\ IF Collides(w, new) \/ Overflows(w, new) THEN Ends(g, w, "Failure")
                      ELSE IF tx.zeros + tx.nonZeros = 0 THEN Ends(g, Made(w, new), "Ok")
                      ELSE Runs(g, Made(w, new))
  BY DEF Create
<1> DEFINE f == NewFrame(new, GasAvailable, tx.listed, world)
           g == NewFrame(new, GasAvailable, tx.listed, saved)
           made == Made(w, new)
<1>3. /\ tx \in Tx /\ world \in World /\ used \in Seq(Addr \X (0 .. MaxNonce))
      /\ new \in Addr /\ tx.caller \in Addr /\ tx.value \in Nat /\ tx.listed \in BOOLEAN
      /\ tx.nonce \in 0 .. MaxNonce /\ world.bal \in [Addr -> 0 .. Word - 1]
  BY <1>1, TransactionOK, Zenon DEF TypeOK, Tx, World
<1>4. used' \in Seq(Addr \X (0 .. MaxNonce))
  <2>1. <<tx.caller, tx.nonce>> \in Addr \X (0 .. MaxNonce) BY <1>3
  <2>2. more \in Seq(Addr \X (0 .. MaxNonce)) BY <1>3, <2>1
  <2>3. used' = used \/ used' = more BY <1>2
  <2> QED BY <1>3, <2>2, <2>3, Zenon
<1>5. w = saved BY DEF CreateSaved
<1>6. GasAvailable \in Nat BY <1>1, Available
<1>7. CASE tx.value > world.bal[tx.caller] \/ world.nonce[tx.caller] = MaxNonce
  <2>1. /\ phase' = "settle" /\ world' = world
        /\ frame' = [f EXCEPT !.end = "Revert"] \/ frame' = [f EXCEPT !.end = "Ok"]
    BY <1>2, <1>7 DEF Ends
  <2>2. Fresh(f, GasAvailable) BY <1>3, <1>6, FreshFrame, Zenon
  <2> HIDE DEF f
  <2>3. \E end \in {"Ok", "Revert", "Failure"} :
          phase' = "settle" /\ frame' = [f EXCEPT !.end = end]
    BY <2>1
  <2> QED BY <1>1, <1>3, <1>4, <2>1, <2>2, <2>3, Opened, Zenon
<1>8. CASE ~(tx.value > world.bal[tx.caller]) /\ world.nonce[tx.caller] # MaxNonce
  <2>1. w \in World /\ w.slot = world.slot /\ w.bal = world.bal BY <1>3, <1>8, BumpedType
  <2>2. tx.value <= w.bal[tx.caller] BY <1>3, <1>8, <2>1, TransactionOK
  <2>3. Fresh(g, GasAvailable) BY <1>3, <1>5, <1>6, <2>1, FreshFrame
  <2>4. /\ world' = w \/ (~Overflows(w, new) /\ world' = made)
        /\ \/ phase' = "settle" /\ frame' = [g EXCEPT !.end = "Failure"]
           \/ phase' = "settle" /\ frame' = [g EXCEPT !.end = "Ok"]
           \/ phase' = "run" /\ frame' = g
    BY <1>2, <1>8 DEF Ends, Runs
  <2>5. ~Overflows(w, new) => made \in World /\ made.slot = w.slot
    BY <1>3, <2>1, <2>2, MadeType
  <2> HIDE DEF w, g, made
  <2>6. world' \in World /\ world'.slot = world.slot BY <2>1, <2>4, <2>5
  <2>7. \/ phase' = "run" /\ frame' = g
        \/ \E end \in {"Ok", "Revert", "Failure"} :
             phase' = "settle" /\ frame' = [g EXCEPT !.end = end]
    BY <2>4
  <2> QED BY <1>1, <1>4, <2>3, <2>6, <2>7, Opened
<1> QED BY <1>7, <1>8

\* The frame ends.
LEMMA Closed ==
  ASSUME Inv, phase = "run", NEW end \in {"Ok", "Revert", "Failure"}, NEW w \in World,
         Close(frame, w, end),
         UNCHANGED <<env, tx, before, authI, authRefund, result, used, count>>
  PROVE  Inv'
<1> USE DEF Inv
<1> DEFINE g == [frame EXCEPT !.end = end]
<1>1. frame \in Frame /\ frame.saved \in World BY DEF TypeOK, Frame
<1>2. phase' = "settle" /\ frame' = g /\ world' \in World BY <1>1 DEF Close, Ends
<1>3. /\ g \in Frame /\ g.gas = frame.gas /\ g.system = frame.system /\ g.warm = frame.warm
      /\ g.listed = frame.listed /\ g.stored = frame.stored /\ g.self = frame.self
  BY <1>1, EndedFrame, Zenon
<1> HIDE DEF g
<1>4. TypeOK' BY <1>2, <1>3 DEF TypeOK
<1>5. GasInv' BY <1>2, <1>3, SameTx DEF GasInv
<1>6. RefundInv' BY <1>2, <1>3 DEF RefundInv
<1>7. StorageCostIsNet' BY <1>2, NotRunning
<1>8. RejectedUnchanged' /\ RefundEarned' /\ UsedWithinBounds' BY <1>2, NotDone
<1> QED BY <1>4, <1>5, <1>6, <1>7, <1>8

\* An instruction that writes nothing.
LEMMA SpendStep ==
  ASSUME Inv, phase = "run", NEW cost \in Nat, Spend(cost),
         UNCHANGED <<env, tx, before, authI, authRefund, result, used, count>>
  PROVE  Inv'
<1> USE DEF Inv
<1>1. frame \in Frame /\ world \in World /\ frame.gas \in Meter BY DEF TypeOK, Frame
<1>2. CASE ~CanRecord(frame.gas, cost)
  <2>1. Close(frame, world, "Failure") BY <1>2 DEF Spend
  <2> QED BY <1>1, <2>1, Closed
<1>3. CASE CanRecord(frame.gas, cost)
  <2> DEFINE paid == RecordCost(frame.gas, cost)
             g == [frame EXCEPT !.gas = paid, !.ops = @ + 1]
  <2>1. phase' = "run" /\ world' = world /\ frame' = g BY <1>3 DEF Spend, Runs
  <2>2. paid = [limit |-> frame.gas.limit, remaining |-> frame.gas.remaining - cost,
                refunded |-> frame.gas.refunded]
    BY <1>1, RecordCostValue
  <2>3. /\ paid \in Meter /\ paid.limit = frame.gas.limit
        /\ paid.remaining <= frame.gas.remaining /\ paid.refunded = frame.gas.refunded
    BY <1>1, <1>3, <2>2 DEF CanRecord, Meter
  <2> HIDE DEF paid
  <2>4. /\ g \in Frame /\ g.gas = paid /\ g.system = frame.system /\ g.warm = frame.warm
        /\ g.listed = frame.listed /\ g.stored = frame.stored /\ g.self = frame.self
    <3>1. frame.ops + 1 \in Nat BY <1>1 DEF Frame
    <3>2. g = [frame EXCEPT !.gas = paid, !.ops = frame.ops + 1] OBVIOUS
    <3> HIDE DEF g
    <3> QED BY <1>1, <2>3, <3>1, <3>2, Zenon DEF Frame
  <2> HIDE DEF g
  <2>5. TypeOK' BY <2>1, <2>4 DEF TypeOK
  <2>6. frame.gas.remaining <= frame.gas.limit BY DEF GasInv
  <2>7. g.gas.remaining <= g.gas.limit BY <1>1, <2>3, <2>4, <2>6 DEF Meter
  <2>8. GasInv' BY <2>1, <2>3, <2>4, <2>7, SameTx DEF GasInv
  <2>9. RefundInv' BY <2>1, <2>3, <2>4 DEF RefundInv
  <2>10. StorageCostIsNet' BY <2>1, <2>3, <2>4, SameTx, Zenon DEF StorageCostIsNet
  <2>11. RejectedUnchanged' /\ RefundEarned' /\ UsedWithinBounds' BY <2>1, NotDone
  <2> QED BY <2>5, <2>8, <2>9, <2>10, <2>11
<1> QED BY <1>2, <1>3

\* SSTORE.
LEMMA StoreStep ==
  ASSUME Inv, phase = "run", NEW v \in Value, Store(v),
         UNCHANGED <<env, tx, before, authI, authRefund, result, used, count>>
  PROVE  Inv'
<1> USE DEF Inv
<1> DEFINE original == before.slot[frame.self]
           present == world.slot[frame.self]
           cold == ~frame.warm
           dynamic == SstoreDynamicGas(env.fork, original, present, v, cold)
           refund == SstoreRefund(env.fork, original, present, v)
           cost == SstoreStaticGas(env.fork) + dynamic
           paid == RecordRefund(RecordCost(frame.gas, cost), refund)
           w == SetSlot(world, frame.self, v)
           g == [frame EXCEPT !.gas = paid, !.ops = @ + 1, !.warm = TRUE,
                              !.stored = @ + dynamic]
           short == \/ Enabled(Istanbul) /\ frame.gas.remaining <= CallStipend
                    \/ ~CanRecord(frame.gas, cost)
<1>1. /\ frame \in Frame /\ world \in World /\ before \in World /\ env \in Env
      /\ env.fork \in ForkID /\ frame.gas \in Meter /\ frame.self \in Addr
      /\ frame.warm \in BOOLEAN /\ frame.stored \in Nat
  BY DEF TypeOK, Frame, Env
<1>2. CASE short
  <2>1. Close(frame, world, "Failure") BY <1>2 DEF Store
  <2> QED BY <1>1, <2>1, Closed
<1>3. CASE ~short
  <2>1. phase' = "run" /\ world' = w /\ frame' = g BY <1>3 DEF Store, Runs
  <2>2. w \in World /\ w.slot[frame.self] = v BY <1>1 DEF SetSlot, World
  <2>3. dynamic \in Nat /\ refund \in Int /\ SstoreStaticGas(env.fork) \in Nat
    <3>1. (~frame.warm) \in BOOLEAN BY <1>1
    <3> QED BY <1>1, <3>1, StorageGasTypes, Zenon
  <2>4. frame.gas.remaining >= cost BY <1>3 DEF CanRecord
  <2>5. refund >= Due(env.fork, original, v) - Due(env.fork, original, present)
    BY <1>1, RefundCoversDue
  <2>6. env.fork >= Istanbul =>
          dynamic - refund = (IF frame.warm THEN 0 ELSE ColdStorageCost(env.fork))
                             + Owed(env.fork, original, v) - Owed(env.fork, original, present)
    <3>1. cold \in BOOLEAN BY <1>1
    <3> HIDE DEF cold, original, present
    <3>2. env.fork >= Istanbul =>
            dynamic - refund = (IF cold THEN ColdStorageCost(env.fork) ELSE 0)
              + Owed(env.fork, original, v) - Owed(env.fork, original, present)
      BY <1>1, <3>1, NetCost
    <3>3. (IF cold THEN ColdStorageCost(env.fork) ELSE 0)
            = (IF frame.warm THEN 0 ELSE ColdStorageCost(env.fork))
      BY DEF cold
    <3> HIDE DEF dynamic, refund
    <3> QED BY <3>2, <3>3
  <2> HIDE DEF short, w, dynamic, refund
  <2>7. /\ paid \in Meter /\ paid.limit = frame.gas.limit
        /\ paid.remaining <= frame.gas.remaining /\ paid.refunded = frame.gas.refunded + refund
    <3> DEFINE mid == RecordCost(frame.gas, cost)
    <3>1. cost \in Nat BY <2>3
    <3>2. mid = [limit |-> frame.gas.limit, remaining |-> frame.gas.remaining - cost,
                 refunded |-> frame.gas.refunded]
      BY <1>1, <3>1, RecordCostValue
    <3> HIDE DEF cost
    <3>3. mid \in Meter BY <1>1, <2>4, <3>1, <3>2 DEF Meter
    <3>4. paid = RecordRefund(mid, refund) OBVIOUS
    <3> HIDE DEF mid, paid
    <3>5. paid = [limit |-> mid.limit, remaining |-> mid.remaining,
                  refunded |-> mid.refunded + refund]
      BY <2>3, <3>3, <3>4, RecordRefundValue
    <3> QED BY <1>1, <2>3, <3>1, <3>2, <3>3, <3>5 DEF Meter
  <2> HIDE DEF cost, paid
  <2>8. /\ g \in Frame /\ g.gas = paid /\ g.system = frame.system /\ g.warm
        /\ g.listed = frame.listed /\ g.stored = frame.stored + dynamic
        /\ g.self = frame.self
    <3> DEFINE stored == frame.stored + dynamic
               ops == frame.ops + 1
    <3>1. ops \in Nat /\ stored \in Nat BY <1>1, <2>3 DEF Frame
    <3>2. g = [frame EXCEPT !.gas = paid, !.ops = ops, !.warm = TRUE, !.stored = stored]
      OBVIOUS
    <3> HIDE DEF g, ops, stored
    <3>3. /\ g \in Frame /\ g.gas = paid /\ g.system = frame.system /\ g.warm
          /\ g.listed = frame.listed /\ g.stored = stored /\ g.self = frame.self
      BY <1>1, <2>7, <3>1, <3>2, Zenon DEF Frame
    <3> QED BY <3>3 DEF stored
  <2> HIDE DEF g
  <2>9. TypeOK' BY <2>1, <2>2, <2>8 DEF TypeOK
  <2>10. frame.gas.remaining <= frame.gas.limit BY DEF GasInv
  <2>11. g.gas.remaining <= g.gas.limit BY <1>1, <2>7, <2>8, <2>10 DEF Meter
  <2>12. GasInv' BY <2>1, <2>7, <2>8, <2>11, SameTx DEF GasInv
  <2>13. /\ Due(env.fork, original, v) \in Nat
         /\ frame.gas.refunded >= Due(env.fork, original, present)
         /\ Due(env.fork, original, present) \in Nat
    BY <1>1, StorageGasTypes DEF Due, RefundInv
  <2>14. paid.refunded >= Due(env.fork, original, v) /\ paid.refunded >= 0
    BY <1>1, <2>3, <2>5, <2>7, <2>13 DEF Meter
  <2>15. RefundInv' BY <2>1, <2>2, <2>7, <2>8, <2>14 DEF RefundInv
  <2>16. StorageCostIsNet'
    <3>1. /\ Owed(env.fork, original, v) \in Int
          /\ Owed(env.fork, original, present) \in Int
          /\ ColdStorageCost(env.fork) \in Nat
      BY <1>1 DEF Owed, ForkID, ClearingSlotRefund, SstoreSetCost, SstoreResetCost,
                  SstoreStaticGas, ColdStorageCost, Istanbul, Berlin, London, Osaka
    <3>2. frame.listed => frame.warm BY DEF RefundInv
    <3>3. CASE env.fork >= Istanbul
      <4>1. frame.stored - frame.gas.refunded =
              (IF frame.warm /\ ~frame.listed THEN ColdStorageCost(env.fork) ELSE 0)
              + Owed(env.fork, original, present)
        BY <3>3 DEF StorageCostIsNet, Enabled
      <4>2. frame.stored + dynamic - (frame.gas.refunded + refund) =
              (IF ~frame.listed THEN ColdStorageCost(env.fork) ELSE 0)
              + Owed(env.fork, original, v)
        <5> DEFINE s == frame.stored
                   r == frame.gas.refunded
                   c == ColdStorageCost(env.fork)
                   o == Owed(env.fork, original, v)
                   p == Owed(env.fork, original, present)
                   warm == frame.warm
                   listed == frame.listed
        <5>1. /\ s \in Nat /\ r \in Int /\ c \in Nat /\ o \in Int /\ p \in Int
              /\ dynamic \in Nat /\ refund \in Int
          BY <1>1, <2>3, <3>1 DEF Meter
        <5>2. s - r = (IF warm /\ ~listed THEN c ELSE 0) + p BY <4>1
        <5>3. dynamic - refund = (IF warm THEN 0 ELSE c) + o - p BY <2>6, <3>3
        <5>4. listed => warm BY <3>2
        <5> HIDE DEF s, r, c, o, p, warm, listed
        <5>5. s + dynamic - (r + refund) = (IF ~listed THEN c ELSE 0) + o
          <6>1. CASE warm BY <5>1, <5>2, <5>3, <5>4, <6>1
          <6>2. CASE ~warm BY <5>1, <5>2, <5>3, <5>4, <6>2
          <6> QED BY <6>1, <6>2
        <5> QED BY <5>5 DEF s, r, c, o, listed
      <4>3. g.gas.refunded = frame.gas.refunded + refund BY <2>7, <2>8
      <4>4. frame'.warm /\ (frame'.listed <=> frame.listed) BY <2>1, <2>8
      <4>5. frame'.stored - frame'.gas.refunded =
              (IF frame'.warm /\ ~frame'.listed THEN ColdStorageCost(env.fork) ELSE 0)
              + Owed(env.fork, original, v)
        <5>1. (IF frame'.warm /\ ~frame'.listed THEN ColdStorageCost(env.fork) ELSE 0)
                = (IF ~frame.listed THEN ColdStorageCost(env.fork) ELSE 0)
          BY <4>4
        <5>2. frame'.stored = frame.stored + dynamic
              /\ frame'.gas.refunded = frame.gas.refunded + refund
          BY <2>1, <2>8, <4>3
        <5> DEFINE s == frame'.stored
                   r == frame'.gas.refunded
                   more == IF frame'.warm /\ ~frame'.listed THEN ColdStorageCost(env.fork) ELSE 0
        <5>3. s = frame.stored + dynamic /\ r = frame.gas.refunded + refund BY <5>2
        <5>4. more = IF ~frame.listed THEN ColdStorageCost(env.fork) ELSE 0 BY <5>1
        <5> HIDE DEF s, r, more
        <5>5. s - r = more + Owed(env.fork, original, v)
          BY <1>1, <2>3, <3>1, <4>2, <5>3, <5>4 DEF Meter
        <5> QED BY <5>5 DEF s, r, more
      <4>6. before'.slot[frame'.self] = original /\ world'.slot[frame'.self] = v
        BY <2>1, <2>2, <2>8
      <4> QED BY <4>5, <4>6 DEF StorageCostIsNet
    <3>4. CASE ~(env.fork >= Istanbul) BY <3>4 DEF StorageCostIsNet, Enabled
    <3> QED BY <3>3, <3>4
  <2>17. RejectedUnchanged' /\ RefundEarned' /\ UsedWithinBounds' BY <2>1, NotDone
  <2> QED BY <2>9, <2>12, <2>15, <2>16, <2>17
<1> QED BY <1>2, <1>3

\* The interpreter halts.
LEMMA HaltStep ==
  ASSUME Inv, Halt
  PROVE  Inv'
<1> USE DEF Inv
<1>1. PICK end \in {"Ok", "Revert", "Failure"}, code \in {"None", "Contract"} :
        IF ~frame.system /\ tx.create
          THEN Close(frame, [world EXCEPT !.code[frame.self] = code], end)
          ELSE Close(frame, world, end)
  BY DEF Halt
<1>2. phase = "run" /\ UNCHANGED <<env, tx, before, authI, authRefund, result, used, count>>
  BY DEF Halt
<1>3. frame.self \in Addr /\ world \in World /\ code \in Code BY DEF TypeOK, Frame, Code
<1> DEFINE deployed == [world EXCEPT !.code[frame.self] = code]
<1>4. deployed \in World BY <1>3 DEF World
<1>5. Close(frame, deployed, end) \/ Close(frame, world, end) BY <1>1
<1> HIDE DEF deployed
<1> QED BY <1>2, <1>3, <1>4, <1>5, Closed

\* Prices and tips are natural numbers.
LEMMA PriceTypes ==
  ASSUME env \in Env, NEW t \in Tx, NEW n \in Nat
  PROVE  /\ EffectivePrice(t) \in Nat
         /\ Reward(EffectivePrice(t), n) \in Nat
<1>1. Add(env.baseFee, t.maxPriority) \in Nat
  <2>1. env.baseFee \in Int /\ t.maxPriority \in Int BY DEF Env, Tx
  <2> QED BY <2>1, WordArithmetic, Zenon
<1>2. EffectivePrice(t) \in Nat BY <1>1 DEF EffectivePrice, Tx
<1> DEFINE price == EffectivePrice(t)
           tip == IF ~Enabled(London) THEN price
                    ELSE IF price > env.baseFee THEN price - env.baseFee ELSE 0
<1> HIDE DEF price
<1>3. tip \in Int
  <2>1. price \in Int /\ env.baseFee \in Int BY <1>2 DEF Env, price
  <2> QED BY <2>1
<1>4. Reward(price, n) = Mul(tip, n) BY DEF Reward
<1> HIDE DEF tip
<1>5. Mul(tip, n) \in Nat
  <2>1. n \in Int OBVIOUS
  <2> QED BY <1>3, <2>1, WordProduct, Zenon
<1> QED BY <1>2, <1>4, <1>5 DEF price

\* Refund, floor, reward.
LEMMA SettleStep ==
  ASSUME Inv, Settle
  PROVE  Inv'
<1> USE DEF Inv
<1> DEFINE gas == WithFloor(GasAfter(frame, tx), FloorGas(tx))
           price == EffectivePrice(tx)
           back == gas.remaining + IF gas.refunded > 0 THEN gas.refunded ELSE 0
           repaid == Credit(world, tx.caller, Mul(price, back))
           tip == Reward(price, Used(gas))
<1>1. PICK bad \in Bad({"Beneficiary"}) :
        /\ world' = IF bad = "None" THEN Credit(repaid, env.coinbase, tip) ELSE repaid
        /\ result' = [kind |-> ResultKind(frame.end), invalid |-> FALSE,
                      gasUsed |-> Used(gas), gasRefund |-> gas.refunded,
                      paid |-> bad = "None"]
  BY Zenon DEF Settle
<1>2. /\ phase = "settle" /\ ~frame.system /\ phase' = "done"
      /\ UNCHANGED <<env, tx, before, authI, authRefund, frame, used, count>>
  BY DEF Settle
<1>3. /\ tx \in Tx /\ env \in Env /\ frame \in Frame /\ world \in World
      /\ authRefund \in Nat /\ tx.caller \in Addr /\ env.coinbase \in Addr
      /\ tx.gasLimit \in Nat
  BY DEF TypeOK, Tx, Env
<1>4. FloorGas(tx) \in Nat BY <1>3, GasTypes
<1>5. Settled(gas)
  <2>1. /\ frame.gas.remaining <= frame.gas.limit
        /\ InitialGas(tx) <= tx.gasLimit /\ FloorGas(tx) <= tx.gasLimit
        /\ frame.gas.limit = tx.gasLimit - InitialGas(tx)
    BY <1>2 DEF GasInv
  <2>2. frame.gas.refunded >= 0 BY DEF RefundInv
  <2> QED BY <1>3, <2>1, <2>2, SettledGas
<1> HIDE DEF gas
<1>6. /\ gas \in Meter /\ gas.remaining \in Nat /\ gas.refunded \in Nat
      /\ gas.refunded <= Earned(frame)
      /\ Used(gas) \in FloorGas(tx) .. tx.gasLimit /\ Used(gas) \in Nat
      /\ gas.refunded * (IF Enabled(London) THEN 5 ELSE 2) <= Used(gas) + gas.refunded
      /\ Used(gas) = FloorGas(tx) \/ Used(gas) + gas.refunded >= InitialGas(tx)
  BY <1>3, <1>4, <1>5 DEF Settled, Meter
<1>7. price \in Int /\ tip \in Int /\ back \in Int
  <2>1. price \in Nat /\ tip \in Nat BY <1>3, <1>6, PriceTypes
  <2>2. back \in Int BY <1>6
  <2> HIDE DEF price, tip, back
  <2> QED BY <2>1, <2>2
<1> HIDE DEF price, tip, back
<1>8. world' \in World
  <2>1. Mul(price, back) \in Int
    <3>1. Mul(price, back) \in Nat BY <1>7, WordProduct, Zenon
    <3> QED BY <3>1
  <2>2. repaid \in World BY <1>3, <2>1, CreditType, Zenon
  <2> HIDE DEF repaid
  <2>3. Credit(repaid, env.coinbase, tip) \in World BY <1>3, <1>7, <2>2, CreditType, Zenon
  <2> QED BY <1>1, <2>2, <2>3
<1> HIDE DEF repaid
<1>9. result' \in Result /\ result'.gasRefund >= 0
  <2> DEFINE paid == bad = "None"
             kind == ResultKind(frame.end)
  <2>1. paid \in BOOLEAN OBVIOUS
  <2>2. kind \in {"None", "Success", "Revert", "Halt"} BY DEF ResultKind
  <2>3. result' = [kind |-> kind, invalid |-> FALSE, gasUsed |-> Used(gas),
                   gasRefund |-> gas.refunded, paid |-> paid]
    BY <1>1
  <2> HIDE DEF paid, kind
  <2> QED BY <1>6, <2>1, <2>2, <2>3 DEF Result
<1>10. /\ ~result'.invalid /\ result'.gasUsed = Used(gas)
       /\ result'.gasRefund = gas.refunded
  BY <1>1
<1>11. TypeOK' BY <1>2, <1>8, <1>9 DEF TypeOK
<1>12. GasInv' BY <1>2 DEF GasInv
<1>13. RefundInv' BY <1>2 DEF RefundInv
<1>14. StorageCostIsNet' BY <1>2, NotRunning
<1>15. RejectedUnchanged' BY <1>10 DEF RejectedUnchanged
<1>16. RefundEarned' BY <1>2, <1>6, <1>10 DEF RefundEarned, Earned
<1>17. UsedWithinBounds' BY <1>2, <1>6, <1>10, SameTx DEF UsedWithinBounds
<1> QED BY <1>11, <1>12, <1>13, <1>14, <1>15, <1>16, <1>17

\* The end of a system call.
LEMMA SystemDoneStep ==
  ASSUME Inv, SystemDone
  PROVE  Inv'
<1> USE DEF Inv
<1>1. /\ phase' = "done" /\ frame.system
      /\ result' = [kind |-> ResultKind(frame.end), invalid |-> FALSE,
                    gasUsed |-> Used(frame.gas), gasRefund |-> 0, paid |-> TRUE]
      /\ UNCHANGED <<env, tx, world, before, authI, authRefund, frame, used, count>>
  BY DEF SystemDone
<1>2. Used(frame.gas) \in Nat
  <2>1. frame.gas \in Meter BY DEF TypeOK, Frame
  <2>2. frame.gas.remaining <= frame.gas.limit /\ frame.gas.refunded >= 0
    BY DEF GasInv, RefundInv
  <2> QED BY <2>1, <2>2 DEF Meter, Used, Spent
<1>3. result' \in Result /\ result'.gasRefund >= 0
  <2>1. ResultKind(frame.end) \in {"None", "Success", "Revert", "Halt"} BY DEF ResultKind
  <2> QED BY <1>1, <1>2, <2>1 DEF Result
<1>4. TypeOK' BY <1>1, <1>3 DEF TypeOK
<1>5. GasInv' BY <1>1 DEF GasInv
<1>6. RefundInv' BY <1>1 DEF RefundInv
<1>7. StorageCostIsNet' BY <1>1, NotRunning
<1>8. RejectedUnchanged' /\ RefundEarned' /\ UsedWithinBounds'
  BY <1>1 DEF RejectedUnchanged, RefundEarned, UsedWithinBounds, Accepted
<1> QED BY <1>4, <1>5, <1>6, <1>7, <1>8

\* The next transaction.
LEMMA NextTxStep ==
  ASSUME Inv, NextTx
  PROVE  Inv'
<1> USE DEF Inv
<1>1. /\ phase' = "idle" /\ frame' = NoFrame /\ result' = NoResult
      /\ UNCHANGED <<env, tx, world, before, authI, authRefund, used, count>>
  BY DEF NextTx
<1>2. NoResult \in Result /\ NoResult.gasRefund >= 0 BY DEF NoResult, Result
<1>3. TypeOK' BY <1>1, <1>2, NoFrameType DEF TypeOK
<1>4. GasInv' BY <1>1, NoFrameType DEF GasInv, NewGas
<1>5. RefundInv' BY <1>1, NoFrameType DEF RefundInv, NewGas
<1>6. StorageCostIsNet' BY <1>1, NotRunning
<1>7. RejectedUnchanged' /\ RefundEarned' /\ UsedWithinBounds' BY <1>1, NotDone
<1> QED BY <1>3, <1>4, <1>5, <1>6, <1>7

\* Every step keeps the invariant.
LEMMA NextInv == Inv /\ [Next]_vars => Inv'
<1> SUFFICES ASSUME Inv, [Next]_vars PROVE Inv' OBVIOUS
<1>1. CASE Begin BY <1>1, BeginStep
<1>2. CASE SystemCall BY <1>2, SystemCallStep
<1>3. CASE Authorise BY <1>3, AuthoriseStep
<1>4. CASE Call BY <1>4, CallStep
<1>5. CASE Create BY <1>5, CreateStep
<1>6. CASE Step
  <2>1. /\ phase = "run"
        /\ UNCHANGED <<env, tx, before, authI, authRefund, result, used, count>>
    BY <1>6 DEF Step
  <2>2. CASE \E v \in Value : Store(v) BY <2>1, <2>2, StoreStep
  <2>3. CASE \E cost \in Spends : Spend(cost)
    <3>1. PICK cost \in Spends : Spend(cost) BY <2>3
    <3>2. cost \in Nat BY TransactionOK
    <3> QED BY <2>1, <3>1, <3>2, SpendStep
  <2> QED BY <1>6, <2>2, <2>3 DEF Step
<1>7. CASE Halt BY <1>7, HaltStep
<1>8. CASE Settle BY <1>8, SettleStep
<1>9. CASE SystemDone BY <1>9, SystemDoneStep
<1>10. CASE NextTx BY <1>10, NextTxStep
<1>11. CASE UNCHANGED vars
  BY <1>11 DEF Inv, vars, TypeOK, GasInv, RefundInv, StorageCostIsNet, RejectedUnchanged,
     RefundEarned, UsedWithinBounds, Accepted, Enabled, InitialGas, FloorGas, Tokens
<1> QED BY <1>1, <1>2, <1>3, <1>4, <1>5, <1>6, <1>7, <1>8, <1>9, <1>10, <1>11 DEF Next

-----------------------------------------------------------------------------
(***************************************************************************)
(* The theorems that follow from Inv.                                      *)
(***************************************************************************)
\* The invariant holds in every reachable state of transact (evm.go:215-650) and SystemCall (system_call.go).
THEOREM Invariance == Spec => []Inv
BY InitInv, NextInv, PTL DEF Spec

\* Balances and nonces keep their width, and neither a frame's gas nor the final refund is
\* ever negative (evm.go transact, gas.go).
THEOREM TypeCorrect == Spec => []TypeOK
<1>1. Inv => TypeOK BY DEF Inv
<1> QED BY <1>1, Invariance, PTL

\* A rejected transaction leaves every account as it was, although the gas deduction and the
\* nonce have no undo entry (evm.go:427-432).
THEOREM RejectionLeavesNoTrace == Spec => []RejectedUnchanged
<1>1. Inv => RejectedUnchanged BY DEF Inv
<1> QED BY <1>1, Invariance, PTL

\* In every fork with net metering, however often a slot is written, what was charged less
\* what was refunded depends on its first and last value only (gas_params.go:275-335).
THEOREM StorageIsPaidNet == Spec => []StorageCostIsNet
<1>1. Inv => StorageCostIsNet BY DEF Inv
<1> QED BY <1>1, Invariance, PTL

\* The refund that is paid is at most what authorisations and a frame that succeeded earned:
\* the cast of the counter in SetFinalRefund never meets a negative number (gas.go:164-175).
THEOREM RefundIsEarned == Spec => []RefundEarned
<1>1. Inv => RefundEarned BY DEF Inv
<1> QED BY <1>1, Invariance, PTL

\* The gas a transaction pays for lies between the calldata floor and its limit, and its
\* refund is at most a fifth (before LONDON a half) of what was spent (evm.go:523-573).
THEOREM UsedStaysWithinBounds == Spec => []UsedWithinBounds
<1>1. Inv => UsedWithinBounds BY DEF Inv
<1> QED BY <1>1, Invariance, PTL

-----------------------------------------------------------------------------
(***************************************************************************)
(* The funds of the caller.                                                *)
(***************************************************************************)
\* What transact computes before it compares it with the balance stays below 2^256.
Small(t) == MaxPrice(t) * t.gasLimit + t.maxBlobFee * BlobGas(t) + t.value < Word

\* What an accepted transaction is charged before it runs.
Fee(t) == EffectivePrice(t) * t.gasLimit + env.blobPrice * BlobGas(t)

\* Products of natural numbers.
LEMMA ProductNat ==
  ASSUME NEW x \in Nat, NEW y \in Nat
  PROVE  x * y \in Nat
OBVIOUS

\* A product grows with its factor.
LEMMA ProductMonotone ==
  ASSUME NEW x \in Nat, NEW y \in Nat, NEW n \in Nat, x <= y
  PROVE  x * n <= y * n
<1>1. PICK d \in Nat : y = x + d
  <2>1. y - x \in Nat /\ y = x + (y - x) OBVIOUS
  <2> QED BY <2>1
<1>2. y * n = x * n + d * n BY <1>1
<1>3. d * n \in Nat /\ x * n \in Nat BY ProductNat
<1> QED BY <1>2, <1>3

\* A number below 2^256 does not wrap.
LEMMA Exact ==
  ASSUME NEW x \in Nat, x < Word
  PROVE  x % Word = x
BY TransactionOK

\* If nothing wraps, the comparison with the balance is right, and the actual price is
\* covered by the maximum price.
LEMMA PaysFor ==
  ASSUME NEW w \in World, NEW t \in Tx, env \in Env, Valid(t), Affordable(w, t), Small(t)
  PROVE  /\ w.bal[t.caller] >= MaxPrice(t) * t.gasLimit + t.maxBlobFee * BlobGas(t) + t.value
         /\ Charged(w, t).bal[t.caller] >= t.value
         /\ Fee(t) \in Nat /\ Fee(t) <= w.bal[t.caller]
         /\ Charged(w, t).bal[t.caller] = w.bal[t.caller] - Fee(t)
<1> DEFINE gas == MaxPrice(t) * t.gasLimit
           blobs == t.maxBlobFee * BlobGas(t)
           price == EffectivePrice(t) * t.gasLimit
           data == env.blobPrice * BlobGas(t)
<1>1. /\ MaxPrice(t) \in Nat /\ BlobGas(t) \in Nat /\ EffectivePrice(t) \in Nat
      /\ t.gasLimit \in Nat /\ t.maxBlobFee \in Nat /\ env.blobPrice \in Nat
      /\ t.value \in Nat /\ t.caller \in Addr /\ w.bal[t.caller] \in 0 .. Word - 1
  <2>1. 0 \in Nat OBVIOUS
  <2>2. EffectivePrice(t) \in Nat BY <2>1, PriceTypes
  <2> QED BY <2>2, GasTypes, Zenon DEF Tx, Env, World
<1>2. gas \in Nat /\ blobs \in Nat /\ price \in Nat /\ data \in Nat BY <1>1, ProductNat
<1>3. price <= gas
  <2>1. EffectivePrice(t) <= MaxPrice(t)
    <3>1. t.maxFee \in Nat /\ t.gasPrice \in Nat BY DEF Tx
    <3>2. Add(env.baseFee, t.maxPriority) \in Nat
      <4>1. env.baseFee \in Int /\ t.maxPriority \in Int BY DEF Env, Tx
      <4> QED BY <4>1, WordArithmetic, Zenon
    <3> QED BY <3>1, <3>2 DEF EffectivePrice, MaxPrice
  <2> QED BY <1>1, <2>1, ProductMonotone, Zenon
<1>4. data <= blobs
  <2>1. CASE t.type = "EIP4844"
    <3>1. env.blobPrice <= t.maxBlobFee BY <2>1 DEF Valid, BlobsOK
    <3> QED BY <1>1, <3>1, ProductMonotone
  <2>2. CASE t.type # "EIP4844"
    <3>1. BlobGas(t) = 0 BY <2>2 DEF BlobGas
    <3> QED BY <1>1, <3>1
  <2> QED BY <2>1, <2>2
<1>5. gas + blobs + t.value < Word BY DEF Small
<1>6. w.bal[t.caller] >=
        Add(Add(Mul(MaxPrice(t), t.gasLimit), Mul(t.maxBlobFee, BlobGas(t))), t.value)
  BY DEF Affordable
<1>7. Charged(w, t).bal[t.caller] =
        Sub(w.bal[t.caller],
            Add(Mul(EffectivePrice(t), t.gasLimit), Mul(env.blobPrice, BlobGas(t))))
  BY <1>1 DEF Charged, World
<1>8. /\ Mul(MaxPrice(t), t.gasLimit) = gas % Word
      /\ Mul(t.maxBlobFee, BlobGas(t)) = blobs % Word
      /\ Mul(EffectivePrice(t), t.gasLimit) = price % Word
      /\ Mul(env.blobPrice, BlobGas(t)) = data % Word
  BY DEF Mul
<1> HIDE DEF gas, blobs, price, data
<1>9. gas % Word = gas /\ blobs % Word = blobs /\ price % Word = price /\ data % Word = data
  <2>1. gas < Word /\ blobs < Word /\ price < Word /\ data < Word
    BY <1>1, <1>2, <1>3, <1>4, <1>5, TransactionOK
  <2> QED BY <1>2, <2>1, Exact, Zenon
<1>10. w.bal[t.caller] >= gas + blobs + t.value
  <2>1. gas + blobs \in Nat /\ gas + blobs < Word BY <1>1, <1>2, <1>5, TransactionOK
  <2>2. Add(gas, blobs) = gas + blobs BY <2>1, Exact, Zenon DEF Add
  <2>3. Add(gas + blobs, t.value) = gas + blobs + t.value BY <1>1, <2>1, <1>5, Exact DEF Add
  <2> QED BY <1>6, <1>8, <1>9, <2>2, <2>3
<1>11. Charged(w, t).bal[t.caller] = w.bal[t.caller] - (price + data)
  <2>1. Add(price, data) = price + data
    <3>1. price + data \in Nat /\ price + data < Word
      BY <1>1, <1>2, <1>3, <1>4, <1>5, TransactionOK
    <3> QED BY <3>1, Exact, Zenon DEF Add
  <2> DEFINE left == w.bal[t.caller] - (price + data)
  <2>2. left \in Nat /\ left < Word
    BY <1>1, <1>2, <1>3, <1>4, <1>10, TransactionOK
  <2>3. Sub(w.bal[t.caller], price + data) = left % Word BY DEF Sub
  <2> HIDE DEF left
  <2>4. left % Word = left BY <2>2, Exact
  <2> QED BY <1>7, <1>8, <1>9, <2>1, <2>3, <2>4 DEF left
<1>12. Charged(w, t).bal[t.caller] >= t.value
  BY <1>1, <1>2, <1>3, <1>4, <1>10, <1>11, TransactionOK
<1>13. Fee(t) = price + data BY DEF Fee, price, data
<1>14. price + data \in Nat /\ price + data <= w.bal[t.caller]
  BY <1>1, <1>2, <1>3, <1>4, <1>10, TransactionOK
<1>15. gas + blobs + t.value = MaxPrice(t) * t.gasLimit + t.maxBlobFee * BlobGas(t) + t.value
  BY DEF gas, blobs
<1> QED BY <1>10, <1>11, <1>12, <1>13, <1>14, <1>15

\* Initially no transaction is under way.
LEMMA FundsInit == Init => SolventCaller /\ ValueAffordable
BY DEF Init, SolventCaller, ValueAffordable

\* Only Begin enters the phase, and authorisations move no ether.
LEMMA FundsStep ==
  ASSUME \A t \in Txs : Small(t), Inv, SolventCaller, ValueAffordable, [Next]_vars
  PROVE  SolventCaller' /\ ValueAffordable'
<1>1. CASE Begin
  <2>1. PICK t \in Txs, bad \in Bad({"Caller", "CallerCode"}) :
          LET made == PreExecuted(world, t, bad)
          IN  /\ tx' = t
              /\ IF Valid(t) /\ made.ok THEN phase' = "authorise" /\ world' = made.world
                   ELSE phase' = "done"
    BY <1>1 DEF Begin
  <2>2. before' = world BY <1>1 DEF Begin
  <2>3. CASE phase' # "authorise" BY <2>3 DEF SolventCaller, ValueAffordable
  <2>4. CASE phase' = "authorise"
    <3>1. /\ Valid(t) /\ tx' = t /\ PreExecuted(world, t, bad).ok
          /\ world' = PreExecuted(world, t, bad).world
      BY <2>1, <2>4
    <3>2. Affordable(world, t) /\ world' = Charged(world, t) BY <3>1 DEF PreExecuted
    <3>3. t \in Tx /\ world \in World /\ env \in Env BY TransactionOK DEF Inv, TypeOK
    <3>4. /\ world.bal[t.caller] >= MaxPrice(t) * t.gasLimit + t.maxBlobFee * BlobGas(t) + t.value
          /\ Charged(world, t).bal[t.caller] >= t.value
      BY <3>1, <3>2, <3>3, PaysFor
    <3>5. MaxPrice(tx)' = MaxPrice(t) /\ BlobGas(tx)' = BlobGas(t)
      BY <3>1 DEF MaxPrice, BlobGas, FeeMarket
    <3> QED BY <2>2, <3>1, <3>2, <3>4, <3>5 DEF SolventCaller, ValueAffordable
  <2> QED BY <2>3, <2>4
<1>2. CASE Authorise
  <2>1. phase = "authorise" /\ UNCHANGED <<env, tx, before>> BY <1>2 DEF Authorise
  <2>2. world'.bal = world.bal
    <3>1. \E auth : world' = Delegated(world, auth) \/ world' = world BY <1>2 DEF Authorise
    <3>2. world \in World BY DEF Inv, TypeOK
    <3> QED BY <3>1, <3>2, Zenon DEF Delegated, World
  <2>3. MaxPrice(tx)' = MaxPrice(tx) /\ BlobGas(tx)' = BlobGas(tx)
    BY <2>1 DEF MaxPrice, BlobGas, FeeMarket
  <2> QED BY <2>1, <2>2, <2>3 DEF SolventCaller, ValueAffordable
<1>3. CASE SystemCall \/ Call \/ Create \/ Step \/ Halt \/ Settle \/ SystemDone \/ NextTx
  <2>1. phase' # "authorise"
    BY <1>3, Zenon DEF SystemCall, Call, Create, Step, Store, Spend, Halt, Settle, SystemDone, NextTx,
                Runs, Ends, Close
  <2> QED BY <2>1 DEF SolventCaller, ValueAffordable
<1>4. CASE UNCHANGED vars
  BY <1>4 DEF vars, SolventCaller, ValueAffordable, MaxPrice, BlobGas, FeeMarket
<1> QED BY <1>1, <1>2, <1>3, <1>4 DEF Next

\* If maxFee * gasLimit + maxBlobFee * blobGas + value fits into 256 bits, an accepted
\* caller can pay it all, and has the value left when the gas is bought (evm.go:377-427); the
\* run price_overflow shows what happens when it does not.
THEOREM FundsSuffice ==
  ASSUME \A t \in Txs : Small(t)
  PROVE  Spec => [](SolventCaller /\ ValueAffordable)
<1>1. Inv /\ SolventCaller /\ ValueAffordable /\ [Next]_vars
        => (SolventCaller /\ ValueAffordable)'
  BY FundsStep
<1> QED BY <1>1, FundsInit, Invariance, PTL DEF Spec

-----------------------------------------------------------------------------
(***************************************************************************)
(* The nonces.                                                             *)
(***************************************************************************)
\* No element occurs twice.
Distinct(u) == \A i, j \in DOMAIN u : i # j => u[i] # u[j]

\* Every consumed nonce is below the account's nonce.
Behind(u, w) == \A i \in DOMAIN u : u[i][2] < w.nonce[u[i][1]]

\* Sequences of addresses and nonces.
Consumed == Seq(Addr \X (0 .. MaxNonce))

\* Nonces that grow keep that.
LEMMA BehindLater ==
  ASSUME NEW u \in Consumed, NEW w \in World, NEW z \in World, Behind(u, w),
         \A b \in Addr : w.nonce[b] <= z.nonce[b]
  PROVE  Behind(u, z)
<1> SUFFICES ASSUME NEW i \in DOMAIN u PROVE u[i][2] < z.nonce[u[i][1]] BY DEF Behind
<1>1. u[i] \in Addr \X (0 .. MaxNonce) BY DEF Consumed
<1>2. u[i][1] \in Addr /\ u[i][2] \in 0 .. MaxNonce BY <1>1
<1>3. u[i][2] < w.nonce[u[i][1]] BY DEF Behind
<1>4. w.nonce[u[i][1]] \in 0 .. MaxNonce /\ z.nonce[u[i][1]] \in 0 .. MaxNonce
  BY <1>2 DEF World
<1> QED BY <1>2, <1>3, <1>4, TransactionOK

\* Consuming the current nonce of an account is consuming a new one.
LEMMA Appending ==
  ASSUME NEW u \in Consumed, NEW w \in World, NEW z \in World, NEW a \in Addr,
         Distinct(u), Behind(u, w),
         \A b \in Addr : w.nonce[b] <= z.nonce[b], w.nonce[a] < z.nonce[a]
  PROVE  /\ Distinct(Append(u, <<a, w.nonce[a]>>))
         /\ Behind(Append(u, <<a, w.nonce[a]>>), z)
<1> DEFINE n == w.nonce[a]
           v == Append(u, <<a, n>>)
<1>1. n \in 0 .. MaxNonce /\ z.nonce[a] \in 0 .. MaxNonce BY DEF World
<1>2. /\ DOMAIN v = 1 .. Len(u) + 1 /\ DOMAIN u = 1 .. Len(u) /\ Len(u) \in Nat
      /\ \A i \in 1 .. Len(u) : v[i] = u[i]
      /\ v[Len(u) + 1] = <<a, n>>
  BY DEF Consumed
<1>3. \A i \in 1 .. Len(u) : v[i] # <<a, n>>
  <2> TAKE i \in 1 .. Len(u)
  <2>1. u[i][2] < w.nonce[u[i][1]] BY <1>2 DEF Behind
  <2>2. u[i] = <<a, n>> => u[i][1] = a /\ u[i][2] = n OBVIOUS
  <2>3. ~(n < n) BY <1>1
  <2> QED BY <1>2, <2>1, <2>2, <2>3
<1>4. Distinct(v)
  <2> SUFFICES ASSUME NEW i \in DOMAIN v, NEW j \in DOMAIN v, i # j PROVE v[i] # v[j]
    BY DEF Distinct
  <2> HIDE DEF v, n
  <2>1. CASE i = Len(u) + 1
    <3>1. j \in 1 .. Len(u) BY <1>2, <2>1
    <3> QED BY <1>2, <1>3, <2>1, <3>1
  <2>2. CASE j = Len(u) + 1
    <3>1. i \in 1 .. Len(u) BY <1>2, <2>2
    <3> QED BY <1>2, <1>3, <2>2, <3>1
  <2>3. CASE i \in 1 .. Len(u) /\ j \in 1 .. Len(u)
    <3>1. u[i] # u[j] BY <1>2, <2>3 DEF Distinct
    <3> QED BY <1>2, <2>3, <3>1
  <2> QED BY <1>2, <2>1, <2>2, <2>3
<1>5. Behind(v, z)
  <2>1. Behind(u, z) BY BehindLater
  <2> SUFFICES ASSUME NEW i \in DOMAIN v PROVE v[i][2] < z.nonce[v[i][1]] BY DEF Behind
  <2> HIDE DEF v
  <2>2. CASE i = Len(u) + 1
    <3>1. v[i] = <<a, n>> BY <1>2, <2>2
    <3> QED BY <3>1
  <2>3. CASE i \in 1 .. Len(u)
    <3>1. u[i][2] < z.nonce[u[i][1]] BY <1>2, <2>1, <2>3 DEF Behind
    <3> QED BY <1>2, <2>3, <3>1
  <2> QED BY <1>2, <2>2, <2>3
<1> QED BY <1>4, <1>5

\* Also of the world a frame may go back to; and a creation has its nonce yet to consume.
NonceInv ==
  /\ Distinct(used) /\ Behind(used, world)
  /\ phase = "run" => Behind(used, frame.saved)
  /\ phase = "authorise" /\ tx.create =>
       world.nonce[tx.caller] = tx.nonce /\ tx.type # "EIP7702"

\* Nothing has been consumed.
LEMMA NonceInit == Init => NonceInv
BY DEF Init, NonceInv, Distinct, Behind

\* Steps that leave nonces alone.
LEMMA NoncesStay ==
  ASSUME Inv, NonceInv, world' \in World, used' = used, phase' # "authorise",
         world'.nonce = world.nonce,
         phase' = "run" => frame'.saved = world
  PROVE  NonceInv'
<1>1. used \in Consumed /\ world \in World BY DEF Inv, TypeOK, Consumed
<1>2. Behind(used, world') BY <1>1 DEF NonceInv, Behind
<1> QED BY <1>1, <1>2 DEF NonceInv

\* The end of a frame goes back to a world with the same or later nonces.
LEMMA NoncesRevert ==
  ASSUME Inv, NonceInv, phase = "run", used' = used, phase' = "settle",
         world' = frame.saved \/ world'.nonce = world.nonce
  PROVE  NonceInv'
BY DEF NonceInv, Behind

\* A call consumes the nonce when it is charged.
LEMMA NonceBegin ==
  ASSUME \A t \in Txs : t.nonce < MaxNonce, Inv, NonceInv, Begin
  PROVE  NonceInv'
<1>1. PICK t \in Txs, bad \in Bad({"Caller", "CallerCode"}) :
        LET made == PreExecuted(world, t, bad)
        IN  /\ tx' = t
            /\ IF Valid(t) /\ made.ok
                 THEN /\ phase' = "authorise" /\ world' = made.world
                      /\ used' = IF t.create THEN used ELSE Append(used, <<t.caller, t.nonce>>)
                 ELSE /\ phase' = "done" /\ used' = used
                      /\ world' = IF Valid(t) THEN made.world ELSE world
  BY DEF Begin
<1>2. t \in Tx /\ world \in World /\ env \in Env /\ used \in Consumed
  BY TransactionOK DEF Inv, TypeOK, Consumed
<1>3. CASE ~(Valid(t) /\ PreExecuted(world, t, bad).ok)
  <2>1. world' = world /\ used' = used /\ phase' = "done" BY <1>1, <1>2, <1>3, PreExecutedType
  <2> QED BY <2>1 DEF NonceInv
<1>4. CASE Valid(t) /\ PreExecuted(world, t, bad).ok
  <2>1. /\ tx' = t /\ phase' = "authorise" /\ world' = Charged(world, t)
        /\ world.nonce[t.caller] = t.nonce
        /\ used' = IF t.create THEN used ELSE Append(used, <<t.caller, t.nonce>>)
    BY <1>1, <1>4 DEF PreExecuted
  <2>2. world' \in World BY <1>2, <2>1, ChargedType
  <2>3. /\ t.caller \in Addr /\ t.nonce \in 0 .. MaxNonce /\ t.nonce < MaxNonce
        /\ world.nonce \in [Addr -> 0 .. MaxNonce]
    BY <1>2, Zenon DEF Tx, World
  <2>4. CASE t.create
    <3>1. t.type # "EIP7702" BY <1>4, <2>4, Zenon DEF Valid, TypeEnabled
    <3>2. world'.nonce = world.nonce BY <2>1, <2>3, <2>4 DEF Charged, World
    <3> QED BY <2>1, <2>4, <3>1, <3>2 DEF NonceInv, Behind
  <2>5. CASE ~t.create
    <3>1. (t.nonce + 1) % (MaxNonce + 1) = t.nonce + 1 BY <2>3, TransactionOK
    <3>2. world'.nonce = [world.nonce EXCEPT ![t.caller] = (t.nonce + 1) % (MaxNonce + 1)]
      BY <2>1, <2>3, <2>5 DEF Charged, World
    <3>3. world'.nonce = [world.nonce EXCEPT ![t.caller] = t.nonce + 1]
      BY <3>1, <3>2
    <3>4. /\ \A b \in Addr : world.nonce[b] <= world'.nonce[b]
          /\ world.nonce[t.caller] < world'.nonce[t.caller]
      BY <2>1, <2>3, <3>3
    <3>5. Distinct(used) /\ Behind(used, world) BY DEF NonceInv
    <3>6. /\ Distinct(Append(used, <<t.caller, world.nonce[t.caller]>>))
          /\ Behind(Append(used, <<t.caller, world.nonce[t.caller]>>), world')
      BY <1>2, <2>2, <2>3, <3>4, <3>5, Appending
    <3>7. used' = Append(used, <<t.caller, world.nonce[t.caller]>>) BY <2>1, <2>5
    <3> QED BY <2>1, <2>5, <3>6, <3>7 DEF NonceInv
  <2> QED BY <2>4, <2>5
<1> QED BY <1>3, <1>4

\* An authorisation consumes the nonce of its authority.
LEMMA NonceAuthorise ==
  ASSUME Inv, NonceInv, Authorise
  PROVE  NonceInv'
<1> DEFINE auth == tx.auths[authI + 1]
<1>1. /\ phase = "authorise" /\ phase' = "authorise" /\ tx' = tx
      /\ authI < Len(AuthsOf(tx))
  BY DEF Authorise
<1>2. PICK bad \in Bad({"Authority"}) :
        IF Authorized(world, auth, bad)
          THEN world' = Delegated(world, auth)
               /\ used' = Append(used, <<auth.authority, auth.nonce>>)
          ELSE UNCHANGED <<world, used>>
  BY DEF Authorise
<1>3. tx \in Tx /\ world \in World /\ authI \in Nat /\ used \in Consumed
  BY DEF Inv, TypeOK, Consumed
<1>4. tx.type = "EIP7702"
  <2>1. CASE tx.type # "EIP7702"
    <3>1. Len(AuthsOf(tx)) = 0 BY <2>1 DEF AuthsOf
    <3> QED BY <1>1, <1>3, <3>1
  <2> QED BY <2>1
<1>5. ~tx.create BY <1>1, <1>4 DEF NonceInv
<1>6. auth \in Authorization
  <2>1. AuthsOf(tx) = tx.auths /\ tx.auths \in Seq(Authorization)
    BY <1>3, <1>4 DEF AuthsOf, Tx
  <2>2. authI + 1 \in 1 .. Len(tx.auths) BY <1>1, <1>3, <2>1
  <2> QED BY <2>1, <2>2
<1> HIDE DEF auth
<1>7. CASE ~Authorized(world, auth, bad)
  <2>1. world' = world /\ used' = used BY <1>2, <1>7
  <2> QED BY <1>1, <1>5, <2>1 DEF NonceInv
<1>8. CASE Authorized(world, auth, bad)
  <2> DEFINE a == auth.authority
  <2>1. a \in Addr /\ world.nonce[a] = auth.nonce /\ auth.nonce \in 0 .. MaxNonce
    BY <1>6, <1>8 DEF Authorized, Authorization
  <2>2. world' \in World BY <1>2, <1>3, <1>6, <1>8, DelegatedType
  <2>3. world'.nonce = [world.nonce EXCEPT ![a] = world.nonce[a] + 1]
    BY <1>2, <1>3, <1>8, Zenon DEF Delegated, World
  <2>4. world.nonce \in [Addr -> 0 .. MaxNonce] BY <1>3 DEF World
  <2>5. used' = Append(used, <<a, world.nonce[a]>>) BY <1>2, <1>8, <2>1
  <2> HIDE DEF a
  <2>6. /\ \A b \in Addr : world.nonce[b] <= world'.nonce[b]
        /\ world.nonce[a] < world'.nonce[a]
    BY <2>1, <2>3, <2>4, TransactionOK
  <2>7. Distinct(used) /\ Behind(used, world) BY DEF NonceInv
  <2>8. Distinct(used') /\ Behind(used', world')
    BY <1>3, <2>1, <2>2, <2>5, <2>6, <2>7, Appending
  <2> QED BY <1>1, <1>5, <2>8 DEF NonceInv
<1> QED BY <1>7, <1>8

\* A call moves ether only.
LEMMA NonceCall ==
  ASSUME Inv, NonceInv, Call
  PROVE  NonceInv'
<1> DEFINE f == NewFrame(tx.to, GasAvailable, tx.listed, world)
<1>1. world \in World BY DEF Inv, TypeOK
<1>2. used' = used /\ Inv' BY CallStep DEF Call
<1>3. phase' \in {"run", "settle"} /\ world'.nonce = world.nonce
  BY <1>1 DEF Call, Ends, Runs, Moved, World
<1>4. phase' = "run" => frame' = f BY DEF Call, Ends, Runs
<1>5. f.saved = world BY DEF NewFrame
<1> HIDE DEF f
<1>6. world' \in World BY <1>2 DEF Inv, TypeOK
<1> QED BY <1>2, <1>3, <1>4, <1>5, <1>6, NoncesStay

\* A creation consumes the nonce before the checkpoint is taken.
LEMMA NonceCreate ==
  ASSUME Inv, NonceInv, Create
  PROVE  NonceInv'
<1> DEFINE w == Bumped(world, tx.caller)
           more == Append(used, <<tx.caller, tx.nonce>>)
<1>1. /\ phase = "authorise" /\ tx.create /\ world.nonce[tx.caller] = tx.nonce
      /\ Distinct(used) /\ Behind(used, world)
  BY DEF Create, AuthsDone, NonceInv
<1>2. /\ tx \in Tx /\ world \in World /\ used \in Consumed /\ tx.caller \in Addr
      /\ world.nonce \in [Addr -> 0 .. MaxNonce]
  BY Zenon DEF Inv, TypeOK, Consumed, Tx, World
<1>3. PICK new \in New :
        LET f == NewFrame(new, GasAvailable, tx.listed, world)
            g == NewFrame(new, GasAvailable, tx.listed, w)
        IN  \/ phase' = "settle" /\ world' = world /\ used' = used
            \/ /\ world.nonce[tx.caller] # MaxNonce /\ used' = more
               /\ \/ phase' = "settle" /\ world' = w
                  \/ /\ ~Collides(w, new) /\ world' = Made(w, new)
                     /\ phase' = "settle" \/ (phase' = "run" /\ frame' = g)
  BY DEF Create, Ends, Runs, CreateSaved
<1> DEFINE g == NewFrame(new, GasAvailable, tx.listed, w)
<1>4. CASE phase' = "settle" /\ world' = world /\ used' = used
  BY <1>1, <1>4 DEF NonceInv
<1>5. CASE /\ world.nonce[tx.caller] # MaxNonce /\ used' = more
           /\ \/ phase' = "settle" /\ world' = w
              \/ /\ ~Collides(w, new) /\ world' = Made(w, new)
                 /\ phase' = "settle" \/ (phase' = "run" /\ frame' = g)
  <2>1. w \in World BY <1>2, <1>5, BumpedType
  <2>2. w.nonce = [world.nonce EXCEPT ![tx.caller] = world.nonce[tx.caller] + 1]
    BY <1>2 DEF Bumped, World
  <2>3. g.saved = w BY DEF NewFrame
  <2>4. new \in Addr BY TransactionOK
  <2>5. ~Collides(w, new) => \/ Made(w, new).nonce = w.nonce
                             \/ w.nonce[new] = 0 /\ Made(w, new).nonce = [w.nonce EXCEPT ![new] = 1]
    BY <1>2, <2>1, <2>4 DEF Made, Moved, World, Collides
  <2> HIDE DEF w, g
  <2>6. /\ \A b \in Addr : world.nonce[b] <= w.nonce[b]
        /\ world.nonce[tx.caller] < w.nonce[tx.caller]
    BY <1>2, <2>2, TransactionOK
  <2>7. Distinct(more) /\ Behind(more, w) BY <1>1, <1>2, <2>1, <2>6, Appending
  <2>8. more \in Consumed
    <3>1. <<tx.caller, tx.nonce>> \in Addr \X (0 .. MaxNonce) BY <1>2 DEF Tx
    <3> QED BY <1>2, <3>1 DEF Consumed
  <2>9. world' \in World
    <3>1. Inv' BY CreateStep
    <3> QED BY <3>1 DEF Inv, TypeOK
  <2>10. Behind(more, world')
    <3>1. w.nonce \in [Addr -> 0 .. MaxNonce] BY <2>1 DEF World
    <3>2. \A b \in Addr : w.nonce[b] <= world'.nonce[b]
      BY <1>5, <2>4, <2>5, <3>1, TransactionOK
    <3> HIDE DEF more
    <3> QED BY <2>1, <2>7, <2>8, <2>9, <3>2, BehindLater
  <2> HIDE DEF more
  <2> QED BY <1>5, <2>3, <2>7, <2>10 DEF NonceInv
<1> QED BY <1>3, <1>4, <1>5

\* A system call consumes nothing.
LEMMA NonceSystemCall ==
  ASSUME Inv, NonceInv, SystemCall
  PROVE  NonceInv'
<1>1. PICK to \in Addr :
        LET f == [NewFrame(to, SystemGas, FALSE, world) EXCEPT !.system = TRUE]
        IN  IF world.code[to] = "None" THEN Ends(f, world, "Ok") ELSE Runs(f, world)
  BY Zenon DEF SystemCall
<1>2. used' = used BY DEF SystemCall
<1> DEFINE f == [NewFrame(to, SystemGas, FALSE, world) EXCEPT !.system = TRUE]
<1>3. /\ world' = world /\ phase' \in {"run", "settle"}
      /\ phase' = "run" => frame' = f
  BY <1>1, Zenon DEF Ends, Runs
<1>4. f.saved = world BY DEF NewFrame
<1> HIDE DEF f
<1> QED BY <1>2, <1>3, <1>4 DEF NonceInv

\* Instructions leave nonces alone.
LEMMA NonceStep ==
  ASSUME Inv, NonceInv, Step
  PROVE  NonceInv'
<1>1. phase = "run" /\ used' = used /\ world \in World /\ frame \in Frame
  BY DEF Step, Inv, TypeOK
<1>2. \/ \E v \in Value : Store(v)
      \/ \E cost \in Spends : Spend(cost)
  BY DEF Step
<1>3. \/ phase' = "settle" /\ world' = frame.saved
      \/ phase' = "run" /\ world'.nonce = world.nonce /\ frame'.saved = frame.saved
  <2>1. CASE \E v \in Value : Store(v)
    <3>1. PICK v \in Value : Store(v) BY <2>1
    <3>2. \/ Close(frame, world, "Failure")
          \/ \E m, d : Runs([frame EXCEPT !.gas = m, !.ops = @ + 1, !.warm = TRUE,
                                           !.stored = @ + d],
                            SetSlot(world, frame.self, v))
      BY <3>1, Zenon DEF Store
    <3>3. CASE Close(frame, world, "Failure") BY <3>3 DEF Close, Ends
    <3>4. CASE ~Close(frame, world, "Failure")
      <4>1. phase' = "run" /\ world' = SetSlot(world, frame.self, v) BY <3>2, <3>4, Zenon DEF Runs
      <4>2. frame'.saved = frame.saved BY <1>1, <3>2, <3>4, Zenon DEF Runs, Frame
      <4>3. world'.nonce = world.nonce BY <1>1, <4>1 DEF SetSlot, World
      <4> QED BY <4>1, <4>2, <4>3
    <3> QED BY <3>3, <3>4
  <2>2. CASE \E cost \in Spends : Spend(cost)
    BY <1>1, <2>2, Zenon DEF Spend, Close, Ends, Runs, World, Frame
  <2> QED BY <1>2, <2>1, <2>2
<1> QED BY <1>1, <1>3 DEF NonceInv, Behind

\* So does the end of the frame.
LEMMA NonceHalt ==
  ASSUME Inv, NonceInv, Halt
  PROVE  NonceInv'
<1>1. world \in World /\ phase = "run" /\ used' = used BY DEF Inv, TypeOK, Halt
<1>2. phase' = "settle" /\ (world' = frame.saved \/ world'.nonce = world.nonce)
  BY <1>1 DEF Halt, Close, Ends, World
<1> QED BY <1>1, <1>2, NoncesRevert

\* Every step keeps it.
LEMMA NonceStepInv ==
  ASSUME \A t \in Txs : t.nonce < MaxNonce, Inv, NonceInv, [Next]_vars
  PROVE  NonceInv'
<1>1. CASE Begin BY <1>1, NonceBegin
<1>2. CASE Authorise BY <1>2, NonceAuthorise
<1>3. CASE Call BY <1>3, NonceCall
<1>4. CASE Create BY <1>4, NonceCreate
<1>5. CASE SystemCall BY <1>5, NonceSystemCall
<1>6. CASE Step BY <1>6, NonceStep
<1>7. CASE Halt BY <1>7, NonceHalt
<1>8. CASE Settle
  <2>1. world'.nonce = world.nonce /\ used' = used /\ phase' = "done"
    <3>1. world \in World BY DEF Inv, TypeOK
    <3> QED BY <1>8, <3>1 DEF Settle, Credit, World
  <2> QED BY <2>1 DEF NonceInv, Behind
<1>9. CASE SystemDone \/ NextTx
  <2>1. world' = world /\ used' = used /\ phase' \in {"done", "idle"}
    BY <1>9 DEF SystemDone, NextTx
  <2> QED BY <2>1 DEF NonceInv
<1>10. CASE UNCHANGED vars BY <1>10 DEF vars, NonceInv
<1> QED BY <1>1, <1>2, <1>3, <1>4, <1>5, <1>6, <1>7, <1>8, <1>9, <1>10 DEF Next

\* If no transaction carries the largest nonce (EIP-2681), no nonce is consumed twice by
\* transactions and authorisations, whatever is reverted (evm.go:430-432, 809-833;
\* handler.go:340-354).
THEOREM NoncesAreUsedOnce ==
  ASSUME \A t \in Txs : t.nonce < MaxNonce
  PROVE  Spec => []NoncesUsedOnce
<1>1. Inv /\ NonceInv /\ [Next]_vars => NonceInv' BY NonceStepInv
<1>2. NonceInv => NoncesUsedOnce BY DEF NonceInv, Distinct, NoncesUsedOnce
<1> QED BY <1>1, <1>2, NonceInit, Invariance, PTL DEF Spec

-----------------------------------------------------------------------------
(***************************************************************************)
(* The ether.                                                              *)
(***************************************************************************)
\* What MapThenSumSet adds up is the sum of the balances.
LEMMA TotalIsSum ==
  ASSUME NEW w \in World
  PROVE  Total(w) = SumOver(w.bal, Addr)
<1> DEFINE total == CHOOSE g : g = [s \in SUBSET Addr |-> IF s = {} THEN 0
                      ELSE w.bal[CHOOSE x \in s : TRUE] + g[s \ {CHOOSE x \in s : TRUE}]]
<1>1. Total(w) = total[Addr]
  BY DEF Total, MapThenSumSet, MapThenFoldSet
<1>2. IsFiniteSet(Addr)
  BY TransactionOK
<1>3. \E g : Summing(g, w.bal, Addr)
  BY <1>2, SummingExists
<1>4. Summing(total, w.bal, Addr)
  BY <1>3, Zenon DEF Summing, Pick
<1> HIDE DEF total
<1> QED
  BY <1>1, <1>2, <1>4, SumIsFold

\* A balance, and two of them, are part of the sum.
LEMMA TotalFacts ==
  ASSUME NEW w \in World
  PROVE  /\ Total(w) \in Nat
         /\ \A a \in Addr : w.bal[a] <= Total(w)
         /\ \A a, b \in Addr : a # b => w.bal[a] + w.bal[b] <= Total(w)
<1>1. IsFiniteSet(Addr) /\ \A a \in Addr : w.bal[a] \in Nat
  BY TransactionOK DEF World
<1>2. \A a \in Addr : w.bal[a] \in Int
  BY <1>1
<1>3. Total(w) \in Nat
  BY <1>1, TotalIsSum, SumNat
<1>4. ASSUME NEW a \in Addr
      PROVE  /\ Total(w) = w.bal[a] + SumOver(w.bal, Addr \ {a})
             /\ SumOver(w.bal, Addr \ {a}) \in Nat /\ IsFiniteSet(Addr \ {a})
  <2>1. IsFiniteSet(Addr \ {a})
    BY <1>1, FS_RemoveElement
  <2>2. SumOver(w.bal, Addr \ {a}) \in Nat
    BY <1>1, <2>1, SumNat
  <2>3. SumOver(w.bal, Addr) = w.bal[a] + SumOver(w.bal, Addr \ {a})
    BY <1>1, <1>2, SumRemove
  <2> QED
    BY <2>1, <2>2, <2>3, TotalIsSum
<1>5. ASSUME NEW a \in Addr PROVE w.bal[a] <= Total(w)
  <2> DEFINE rest == SumOver(w.bal, Addr \ {a})
             own == w.bal[a]
  <2>1. Total(w) = own + rest /\ rest \in Nat /\ own \in Nat
    BY <1>1, <1>4
  <2> HIDE DEF rest, own
  <2>2. own <= Total(w)
    BY <2>1
  <2> QED
    BY <2>2 DEF own
<1>6. ASSUME NEW a \in Addr, NEW b \in Addr, a # b PROVE w.bal[a] + w.bal[b] <= Total(w)
  <2> DEFINE S == Addr \ {a}
  <2>1. b \in S /\ IsFiniteSet(S) /\ \A x \in S : w.bal[x] \in Int
    BY <1>2, <1>4, <1>6
  <2>2. IsFiniteSet(S \ {b}) /\ \A x \in S \ {b} : w.bal[x] \in Nat
    BY <1>1, <2>1, FS_RemoveElement, Zenon
  <2>3. Total(w) = w.bal[a] + SumOver(w.bal, S)
    BY <1>4, Zenon
  <2> HIDE DEF S
  <2>4. SumOver(w.bal, S) = w.bal[b] + SumOver(w.bal, S \ {b})
    BY <2>1, SumRemove
  <2>5. SumOver(w.bal, S \ {b}) \in Nat
    BY <2>2, SumNat
  <2>6. w.bal[a] \in Nat /\ w.bal[b] \in Nat
    BY <1>1
  <2> QED
    BY <2>3, <2>4, <2>5, <2>6
<1> QED
  BY <1>3, <1>5, <1>6

\* The sum depends on the balances only.
LEMMA TotalSame ==
  ASSUME NEW w \in World, NEW v \in World, v.bal = w.bal
  PROVE  Total(v) = Total(w)
BY TotalIsSum

\* One balance changes.
LEMMA TotalReplaced ==
  ASSUME NEW w \in World, NEW v \in World, NEW a \in Addr, NEW n \in Nat,
         v.bal = [w.bal EXCEPT ![a] = n]
  PROVE  Total(v) = Total(w) - w.bal[a] + n
<1>1. IsFiniteSet(Addr) /\ w.bal \in [Addr -> Nat]
  BY TransactionOK DEF World
<1> DEFINE h == w.bal
           k == v.bal
<1>2. k[a] = n /\ \A y \in Addr \ {a} : k[y] = h[y]
  BY <1>1
<1>3. (\A y \in Addr : h[y] \in Int) /\ k[a] \in Int
  BY <1>1, <1>2
<1> HIDE DEF h, k
<1>4. SumOver(k, Addr) = SumOver(h, Addr) - h[a] + k[a]
  BY <1>1, <1>2, <1>3, SumReplace
<1>5. Total(v) = SumOver(k, Addr) /\ Total(w) = SumOver(h, Addr)
  BY TotalIsSum DEF h, k
<1> QED
  BY <1>2, <1>4, <1>5 DEF h

\* A transfer that does not overflow moves no ether in or out.
LEMMA TotalMoved ==
  ASSUME NEW w \in World, NEW from \in Addr, NEW to \in Addr, NEW v \in Nat,
         v <= w.bal[from], from = to \/ w.bal[to] + v < Word
  PROVE  Total(Moved(w, from, to, v)) = Total(w)
<1> DEFINE less == [w.bal EXCEPT ![from] = @ - v]
           more == [less EXCEPT ![to] = @ + v]
           mid == [w EXCEPT !.bal = less]
           end == Moved(w, from, to, v)
<1>1. w.bal \in [Addr -> 0 .. Word - 1] /\ w.bal[from] \in Nat /\ w.bal[from] < Word
  BY TransactionOK DEF World
<1>2. w.bal[from] - v \in Nat /\ w.bal[from] - v \in 0 .. Word - 1
  BY <1>1, TransactionOK
<1>3. less \in [Addr -> 0 .. Word - 1] /\ less = [w.bal EXCEPT ![from] = w.bal[from] - v]
  BY <1>1, <1>2
<1>4. end \in World
  BY MovedType
<1>5. end.bal = more
  BY DEF World, Moved
<1>6. less[to] + v \in Nat /\ less[from] = w.bal[from] - v
  BY <1>1, <1>3, TransactionOK
<1>7. more = [less EXCEPT ![to] = less[to] + v]
  OBVIOUS
<1> HIDE DEF less, more, end
<1>8. mid \in World /\ mid.bal = less
  BY <1>3 DEF World
<1> HIDE DEF mid
<1>9. Total(mid) = Total(w) - w.bal[from] + (w.bal[from] - v)
  BY <1>2, <1>3, <1>8, TotalReplaced
<1>10. Total(end) = Total(mid) - mid.bal[to] + (less[to] + v)
  <2> DEFINE n == less[to] + v
  <2>1. end.bal = [mid.bal EXCEPT ![to] = n] /\ n \in Nat
    BY <1>5, <1>6, <1>7, <1>8
  <2> HIDE DEF n
  <2>2. Total(end) = Total(mid) - mid.bal[to] + n
    BY <1>4, <1>8, <2>1, TotalReplaced
  <2> QED
    BY <2>2 DEF n
<1>11. less[to] \in Nat
  BY <1>3, TransactionOK
<1> DEFINE a == Total(w)
           b == Total(mid)
           c == w.bal[from]
           d == less[to]
<1>12. a \in Nat /\ b \in Nat /\ c \in Nat /\ d \in Nat
  BY <1>1, <1>8, <1>11, TotalFacts
<1>13. b = a - c + (c - v) /\ Total(end) = b - d + (d + v)
  BY <1>8, <1>9, <1>10
<1> HIDE DEF a, b, c, d
<1>14. Total(end) = a
  BY <1>12, <1>13
<1> QED
  BY <1>14 DEF a, end

\* A credit that does not wrap adds to the sum.
LEMMA TotalCredited ==
  ASSUME NEW w \in World, NEW a \in Addr, NEW v \in Nat, Total(w) + v < Word
  PROVE  Credit(w, a, v) \in World /\ Total(Credit(w, a, v)) = Total(w) + v
<1> DEFINE b == w.bal[a]
           c == Credit(w, a, v)
<1>1. b \in Nat /\ b <= Total(w) /\ Total(w) \in Nat
  BY TotalFacts, TransactionOK DEF World
<1>2. c \in World
  BY CreditType
<1>3. c.bal = [w.bal EXCEPT ![a] = Add(b, v)]
  BY DEF Credit, World
<1> HIDE DEF b, c
<1>4. b + v \in Nat /\ b + v < Word
  BY <1>1, TransactionOK
<1>5. Add(b, v) = b + v
  BY <1>4, Exact DEF Add
<1>6. Total(c) = Total(w) - w.bal[a] + (b + v)
  BY <1>2, <1>3, <1>4, <1>5, TotalReplaced
<1>7. Total(c) = Total(w) - b + (b + v)
  BY <1>6 DEF b
<1>8. Total(c) = Total(w) + v
  BY <1>1, <1>7
<1> QED
  BY <1>2, <1>8 DEF c

\* The gas purchase takes the fee out of the sum.
LEMMA TotalCharged ==
  ASSUME NEW w \in World, NEW t \in Tx, env \in Env, Valid(t), Affordable(w, t), Small(t)
  PROVE  /\ Charged(w, t) \in World /\ Fee(t) \in Nat
         /\ Total(w) = Total(Charged(w, t)) + Fee(t)
<1> DEFINE c == Charged(w, t)
           b == w.bal[t.caller]
<1>1. t.caller \in Addr /\ b \in Nat
  BY TransactionOK DEF Tx, World
<1>2. c \in World
  BY ChargedType
<1>3. Fee(t) \in Nat /\ Fee(t) <= b /\ c.bal[t.caller] = b - Fee(t)
  BY PaysFor
<1>4. c.bal = [w.bal EXCEPT ![t.caller] = c.bal[t.caller]]
  BY <1>1 DEF Charged, World
<1> HIDE DEF c
<1>5. b - Fee(t) \in Nat
  <2> HIDE DEF b
  <2> QED
    BY <1>1, <1>3
<1>6. Total(c) = Total(w) - w.bal[t.caller] + (b - Fee(t))
  BY <1>1, <1>2, <1>3, <1>4, <1>5, TotalReplaced
<1>7. Total(w) \in Nat
  BY TotalFacts
<1>8. Total(c) = Total(w) - b + (b - Fee(t))
  BY <1>6
<1> HIDE DEF b
<1>9. Total(w) = Total(c) + Fee(t)
  BY <1>1, <1>3, <1>7, <1>8
<1> QED
  BY <1>2, <1>3, <1>9 DEF c

\* The ether of a transaction that was accepted and is not settled: the fee is out, the rest is
\* where it was, in the world and in the world that a failing frame goes back to.
EtherInv ==
  /\ Total(before) < Word /\ Total(world) < Word
  /\ phase \in {"authorise", "run", "settle"} /\ ~frame.system =>
       /\ tx \in Txs /\ PriceOK(tx)
       /\ Total(before) = Total(world) + Fee(tx)
  /\ phase \in {"run", "settle"} /\ frame.system => Total(before) = Total(world)
  /\ phase = "run" => Total(frame.saved) = Total(world)
  /\ EtherAccounted

\* The first transaction has not begun.
LEMMA EtherInit ==
  ASSUME Total(Start) < Word, Init
  PROVE  EtherInv
BY DEF Init, EtherInv, EtherAccounted

\* Nothing to account for until the end.
LEMMA EtherOpen ==
  ASSUME phase' # "done"
  PROVE  EtherAccounted'
BY DEF EtherAccounted

\* The fee of a transaction does not change while it runs.
LEMMA SameFee ==
  ASSUME env' = env, tx' = tx
  PROVE  /\ Fee(tx)' = Fee(tx) /\ PriceOK(tx)' = PriceOK(tx) /\ BlobGas(tx)' = BlobGas(tx)
         /\ EffectivePrice(tx)' = EffectivePrice(tx)
BY DEF Fee, PriceOK, EffectivePrice, BlobGas, FeeMarket, Enabled

\* Validation and gas purchase.
LEMMA EtherBegin ==
  ASSUME \A t \in Txs : Small(t), Inv, EtherInv, Begin
  PROVE  EtherInv'
<1>1. PICK t \in Txs, bad \in Bad({"Caller", "CallerCode"}) :
        LET made == PreExecuted(world, t, bad)
        IN  /\ tx' = t
            /\ IF Valid(t) /\ made.ok
                 THEN /\ phase' = "authorise" /\ world' = made.world /\ result' = NoResult
                 ELSE /\ phase' = "done" /\ result' = HaltResult(t)
                      /\ world' = IF Valid(t) THEN made.world ELSE world
  BY DEF Begin
<1>2. /\ before' = world /\ env' = env /\ frame' = frame /\ ~frame.system
  BY DEF Begin, Inv, GasInv
<1>3. t \in Tx /\ world \in World /\ env \in Env /\ Small(t)
  BY TransactionOK DEF Inv, TypeOK
<1>4. Total(world) < Word /\ Total(before)' = Total(world)
  BY <1>2 DEF EtherInv
<1> DEFINE made == PreExecuted(world, t, bad)
<1>5. ~made.ok => made.world = world
  BY <1>3, PreExecutedType
<1>6. CASE Valid(t) /\ made.ok
  <2>1. Affordable(world, t) /\ made.world = Charged(world, t)
    BY <1>6 DEF PreExecuted
  <2>2. phase' = "authorise" /\ world' = Charged(world, t) /\ tx' = t
    BY <1>1, <1>6, <2>1
  <2> DEFINE c == Charged(world, t)
  <2>3. /\ c \in World /\ Fee(t) \in Nat /\ Total(world) = Total(c) + Fee(t)
    BY <1>3, <1>6, <2>1, TotalCharged
  <2>4. Total(world)' = Total(c)
    BY <2>2
  <2> HIDE DEF c, made
  <2>5. Total(c) \in Nat /\ Total(world) \in Nat
    BY <1>3, <2>3, TotalFacts
  <2>6. Total(c) < Word
    BY <1>4, <2>3, <2>5, TransactionOK
  <2>7. Fee(tx)' = Fee(t) /\ (PriceOK(tx)' <=> PriceOK(t))
    BY <1>2, <2>2
    DEF Fee, PriceOK, EffectivePrice, BlobGas, FeeMarket, Enabled
  <2>8. PriceOK(t)
    BY <1>6 DEF Valid
  <2>9. EtherAccounted'
    BY <2>2, EtherOpen
  <2> QED
    BY <1>4, <2>2, <2>3, <2>4, <2>6, <2>7, <2>8, <2>9 DEF EtherInv
<1>7. CASE ~(Valid(t) /\ made.ok)
  <2>1. phase' = "done" /\ result' = HaltResult(t) /\ world' = world
    BY <1>1, <1>5, <1>7
  <2>2. result'.invalid
    <3> DEFINE r == NoResult
    <3>1. r \in Result
      BY DEF NoResult, Result
    <3>2. result' = [r EXCEPT !.kind = "Halt", !.invalid = TRUE, !.gasUsed = t.gasLimit]
      BY <2>1 DEF HaltResult
    <3> HIDE DEF r
    <3> QED
      BY <3>1, <3>2 DEF Result
  <2>3. Total(world)' = Total(world)
    BY <2>1
  <2>4. Total(world) \in Nat
    BY <1>3, TotalFacts
  <2>5. EtherAccounted'
    BY <1>4, <2>2, <2>3, <2>4 DEF EtherAccounted, Accepted
  <2> QED
    BY <1>4, <2>1, <2>3, <2>5 DEF EtherInv
<1> QED
  BY <1>6, <1>7

\* An authorisation moves no ether.
LEMMA EtherAuthorise ==
  ASSUME Inv, EtherInv, Authorise
  PROVE  EtherInv'
<1>1. phase = "authorise" /\ phase' = phase /\ UNCHANGED <<env, tx, before, frame>>
  BY DEF Authorise
<1>2. world'.bal = world.bal
  <2>1. \E auth : world' = Delegated(world, auth) \/ world' = world
    BY DEF Authorise
  <2>2. world \in World
    BY DEF Inv, TypeOK
  <2> QED
    BY <2>1, <2>2, Zenon DEF Delegated, World
<1>3. world \in World /\ world' \in World
  <2>1. Inv'
    BY AuthoriseStep
  <2> QED
    BY <2>1 DEF Inv, TypeOK
<1>4. Total(world') = Total(world)
  BY <1>2, <1>3, TotalSame
<1>5. Total(world)' = Total(world')
  OBVIOUS
<1>6. Total(world)' = Total(world)
  BY <1>4, <1>5
<1>7. Total(before)' = Total(before)
  BY <1>1
<1>8. EtherAccounted'
  BY <1>1, EtherOpen
<1> QED
  BY <1>1, <1>6, <1>7, <1>8, SameFee DEF EtherInv

\* The transaction goes on, with the same sum in the world and in the saved one.
LEMMA EtherGoesOn ==
  ASSUME EtherInv, phase \in {"authorise", "run"}, phase' \in {"run", "settle"},
         UNCHANGED <<env, tx, before>>, phase = "authorise" => ~frame.system,
         frame'.system <=> frame.system,
         Total(world)' = Total(world),
         phase' = "run" => Total(frame.saved)' = Total(world)
  PROVE  EtherInv'
<1>1. Total(before)' = Total(before)
  OBVIOUS
<1>2. EtherAccounted'
  BY EtherOpen
<1> QED
  BY <1>1, <1>2, SameFee DEF EtherInv

\* A call moves its value.
LEMMA EtherCall ==
  ASSUME Inv, EtherInv, Call
  PROVE  EtherInv'
<1> DEFINE f == NewFrame(tx.to, GasAvailable, tx.listed, world)
           w == Moved(world, tx.caller, tx.to, tx.value)
<1>1. /\ phase = "authorise" /\ UNCHANGED <<env, tx, before>> /\ ~frame.system
  BY DEF Call, AuthsDone, Inv, GasInv
<1>2. /\ tx \in Tx /\ world \in World /\ tx.to \in Addr /\ tx.caller \in Addr
      /\ tx.value \in Nat /\ world.bal \in [Addr -> 0 .. Word - 1]
  BY Zenon DEF Inv, TypeOK, Tx, World
<1>3. Total(world) < Word /\ Total(world) \in Nat
  BY <1>2, TotalFacts DEF EtherInv
<1>4. f \in Frame /\ f.saved = world /\ f.system = FALSE
  <2>1. f \in Frame
    BY <1>1, <1>2, Available, NewFrameType, Zenon DEF Tx
  <2> QED
    BY <2>1 DEF NewFrame
<1>5. CASE tx.value > world.bal[tx.caller]
  <2>1. phase' = "settle" /\ frame' = [f EXCEPT !.end = "Revert"] /\ world' = world
    BY <1>5 DEF Call, Ends
  <2> HIDE DEF f
  <2>2. frame'.system = f.system
    BY <1>4, <2>1, EndedFrame
  <2>3. Total(world)' = Total(world)
    BY <2>1
  <2> QED
    BY <1>1, <1>4, <2>1, <2>2, <2>3, EtherGoesOn
<1>6. CASE ~(tx.value > world.bal[tx.caller])
  <2>1. tx.value <= world.bal[tx.caller]
    BY <1>2, <1>6, TransactionOK
  <2>2. tx.caller = tx.to \/ world.bal[tx.to] + tx.value < Word
    <3>1. CASE tx.caller # tx.to
      <4> DEFINE a == world.bal[tx.caller]
                 b == world.bal[tx.to]
      <4>1. a + b <= Total(world)
        BY <1>2, <3>1, TotalFacts
      <4>2. a \in Nat /\ b \in Nat /\ tx.value <= a
        BY <1>2, <2>1, TransactionOK
      <4> HIDE DEF a, b
      <4>3. b + tx.value < Word
        BY <1>2, <1>3, <4>1, <4>2, TransactionOK
      <4> QED
        BY <4>3 DEF b
    <3> QED
      BY <3>1
  <2>3. ~Overflows(world, tx.to)
    BY <1>2, <2>2, TransactionOK DEF Overflows
  <2>4. w \in World /\ Total(w) = Total(world)
    BY <1>2, <2>1, <2>2, MovedType, TotalMoved
  <2>5. /\ world' = w
        /\ \/ phase' = "settle" /\ frame' = [f EXCEPT !.end = "Ok"]
           \/ phase' = "run" /\ frame' = f
    BY <1>6, <2>3 DEF Call, Ends, Runs
  <2> HIDE DEF f, w
  <2>6. frame'.system = f.system /\ frame'.saved = f.saved
    BY <1>4, <2>5, EndedFrame, ZenonT(60)
  <2>7. Total(world)' = Total(world)
    BY <2>4, <2>5
  <2>8. Total(frame.saved)' = Total(world)
    BY <1>4, <2>6
  <2> QED
    BY <1>1, <1>4, <2>5, <2>6, <2>7, <2>8, EtherGoesOn
<1> QED
  BY <1>5, <1>6

\* A creation moves its value.
LEMMA EtherCreate ==
  ASSUME Inv, EtherInv, Create
  PROVE  EtherInv'
<1> DEFINE w == Bumped(world, tx.caller)
<1>1. /\ phase = "authorise" /\ UNCHANGED <<env, tx, before>> /\ ~frame.system
  BY DEF Create, AuthsDone, Inv, GasInv
<1>2. PICK new \in New :
        LET f == NewFrame(new, GasAvailable, tx.listed, world)
            g == NewFrame(new, GasAvailable, tx.listed, CreateSaved(world, tx.caller))
        IN  IF tx.value > world.bal[tx.caller] THEN Ends(f, world, "Revert")
            ELSE IF world.nonce[tx.caller] = MaxNonce THEN Ends(f, world, "Ok")
            ELSE IF Collides(w, new) \/ Overflows(w, new) THEN Ends(g, w, "Failure")
            ELSE IF tx.zeros + tx.nonZeros = 0 THEN Ends(g, Made(w, new), "Ok")
            ELSE Runs(g, Made(w, new))
  BY DEF Create
<1> DEFINE f == NewFrame(new, GasAvailable, tx.listed, world)
           g == NewFrame(new, GasAvailable, tx.listed, w)
           made == Made(w, new)
<1>3. /\ tx \in Tx /\ world \in World /\ new \in Addr /\ tx.caller \in Addr
      /\ tx.value \in Nat /\ world.bal \in [Addr -> 0 .. Word - 1]
  BY TransactionOK, Zenon DEF Inv, TypeOK, Tx, World
<1>4. /\ f.system = FALSE /\ g.system = FALSE /\ g.saved = w
      /\ CreateSaved(world, tx.caller) = w
  BY DEF NewFrame, CreateSaved
<1>5. GasAvailable \in Nat /\ tx.listed \in BOOLEAN
  BY <1>1, <1>3, Available DEF Tx
<1>6. CASE tx.value > world.bal[tx.caller] \/ world.nonce[tx.caller] = MaxNonce
  <2>1. /\ phase' = "settle" /\ world' = world
        /\ frame' = [f EXCEPT !.end = "Revert"] \/ frame' = [f EXCEPT !.end = "Ok"]
    BY <1>2, <1>6 DEF Ends
  <2>2. f \in Frame
    BY <1>3, <1>5, NewFrameType
  <2> HIDE DEF f
  <2>3. frame'.system = f.system
    BY <2>1, <2>2, EndedFrame, ZenonT(60)
  <2>4. Total(world)' = Total(world)
    BY <2>1
  <2> QED
    BY <1>1, <1>4, <2>1, <2>3, <2>4, EtherGoesOn
<1>7. CASE ~(tx.value > world.bal[tx.caller]) /\ world.nonce[tx.caller] # MaxNonce
  <2>1. w \in World /\ w.bal = world.bal
    BY <1>3, <1>7, BumpedType
  <2>2. Total(w) = Total(world)
    BY <1>3, <2>1, TotalSame
  <2>3. tx.value <= w.bal[tx.caller]
    BY <1>3, <1>7, <2>1, TransactionOK
  <2>4. \/ phase' = "settle" /\ world' = w /\ frame' = [g EXCEPT !.end = "Failure"]
        \/ /\ ~Overflows(w, new) /\ world' = made
           /\ \/ phase' = "settle" /\ frame' = [g EXCEPT !.end = "Ok"]
              \/ phase' = "run" /\ frame' = g
    BY <1>2, <1>4, <1>7 DEF Ends, Runs
  <2>5. frame'.system = g.system /\ frame'.saved = g.saved
    <3>1. g \in Frame
      BY <1>3, <1>5, <2>1, NewFrameType
    <3> HIDE DEF g, made, w
    <3> QED
      BY <2>4, <3>1, EndedFrame, ZenonT(60)
  <2>6. ASSUME ~Overflows(w, new) PROVE Total(made) = Total(w)
    <3> DEFINE m == Moved(w, tx.caller, new, tx.value)
    <3> HIDE DEF w
    <3>1. w.bal[new] \in Nat /\ w.bal[new] < Word
      BY <1>3, <2>1, TransactionOK DEF World
    <3>2. tx.caller = new \/ w.bal[new] + tx.value < Word
      BY <1>3, <2>6, <3>1, TransactionOK DEF Overflows
    <3>3. m \in World /\ Total(m) = Total(w)
      BY <1>3, <2>1, <2>3, <3>2, MovedType, TotalMoved
    <3>4. made \in World
      BY <1>3, <2>1, <2>3, <2>6, MadeType
    <3>5. made.bal = m.bal
      <4>1. made = IF Enabled(SpuriousDragon) THEN [m EXCEPT !.nonce[new] = 1] ELSE m
        BY DEF Made
      <4> HIDE DEF made, m
      <4> QED
        BY <3>3, <4>1 DEF World
    <3> HIDE DEF m, made
    <3> QED
      BY <3>3, <3>4, <3>5, TotalSame
  <2> HIDE DEF w, f, g, made
  <2>7. Total(world)' = Total(world')
    OBVIOUS
  <2>8. Total(world') = Total(world)
    BY <2>2, <2>4, <2>6
  <2>9. Total(frame.saved)' = Total(world)
    BY <1>4, <2>2, <2>5
  <2>10. phase' \in {"run", "settle"}
    BY <2>4
  <2>11. Total(world)' = Total(world)
    BY <2>7, <2>8
  <2> QED
    BY <1>1, <1>4, <2>5, <2>9, <2>10, <2>11, EtherGoesOn
<1> QED
  BY <1>6, <1>7

\* A system call pays nothing.
LEMMA EtherSystemCall ==
  ASSUME Inv, EtherInv, SystemCall
  PROVE  EtherInv'
<1>1. PICK to \in Addr :
        LET f == [NewFrame(to, SystemGas, FALSE, world) EXCEPT !.system = TRUE]
        IN  IF world.code[to] = "None" THEN Ends(f, world, "Ok") ELSE Runs(f, world)
  BY Zenon DEF SystemCall
<1> DEFINE n == NewFrame(to, SystemGas, FALSE, world)
           f == [n EXCEPT !.system = TRUE]
<1>2. /\ world' = world /\ before' = world
      /\ \/ phase' = "settle" /\ frame' = [f EXCEPT !.end = "Ok"]
         \/ phase' = "run" /\ frame' = f
  BY <1>1, Zenon DEF SystemCall, Ends, Runs
<1>3. frame'.system /\ frame'.saved = world
  <2>1. world \in World /\ SystemGas \in Nat
    BY TransactionOK DEF Inv, TypeOK
  <2>2. n \in Frame /\ n.saved = world
    BY <2>1, NewFrameType, Zenon DEF NewFrame
  <2> HIDE DEF n
  <2>3. f \in Frame /\ f.saved = world /\ f.system
    BY <2>2, Zenon DEF Frame
  <2> HIDE DEF f
  <2> QED
    BY <1>2, <2>3, EndedFrame, ZenonT(60)
<1>4. /\ Total(world)' = Total(world) /\ Total(before)' = Total(world)
      /\ Total(frame.saved)' = Total(world)
  BY <1>2, <1>3
<1>5. EtherAccounted'
  BY <1>2, EtherOpen, Zenon
<1> HIDE DEF f
<1> QED
  BY <1>2, <1>3, <1>4, <1>5 DEF EtherInv

\* The frame ends in the world w, or goes back to the saved one.
LEMMA EtherClose ==
  ASSUME Inv, EtherInv, phase = "run", NEW w \in World, NEW end, w.bal = world.bal,
         Close(frame, w, end), UNCHANGED <<env, tx, before>>
  PROVE  EtherInv'
<1>1. frame \in Frame /\ world \in World
  BY DEF Inv, TypeOK
<1>2. /\ phase' = "settle" /\ frame' = [frame EXCEPT !.end = end]
      /\ world' = w \/ world' = frame.saved
  BY DEF Close, Ends
<1>3. frame'.system = frame.system
  BY <1>1, <1>2 DEF Frame
<1>4. Total(w) = Total(world)
  BY <1>1, TotalSame
<1>5. Total(frame.saved) = Total(world)
  BY DEF EtherInv
<1>6. Total(world)' = Total(world')
  OBVIOUS
<1>7. Total(world)' = Total(world)
  BY <1>2, <1>4, <1>5, <1>6
<1> QED
  BY <1>2, <1>3, <1>7, EtherGoesOn

\* An instruction moves no ether.
LEMMA EtherRuns ==
  ASSUME Inv, EtherInv, phase = "run", NEW w \in World, w.bal = world.bal, NEW f,
         f.system = frame.system, f.saved = frame.saved, Runs(f, w),
         UNCHANGED <<env, tx, before>>
  PROVE  EtherInv'
<1>1. world \in World
  BY DEF Inv, TypeOK
<1>2. phase' = "run" /\ frame' = f /\ world' = w
  BY DEF Runs
<1>3. Total(w) = Total(world) /\ Total(frame.saved) = Total(world)
  BY <1>1, TotalSame DEF EtherInv
<1>4. Total(world)' = Total(world') /\ Total(frame.saved)' = Total(frame'.saved)
  OBVIOUS
<1>5. Total(world)' = Total(world) /\ Total(frame.saved)' = Total(world)
  BY <1>2, <1>3, <1>4
<1> QED
  BY <1>2, <1>5, EtherGoesOn

\* The instructions and the end of the frame.
LEMMA EtherRun ==
  ASSUME Inv, EtherInv, Step \/ Halt
  PROVE  EtherInv'
<1>1. phase = "run" /\ UNCHANGED <<env, tx, before>>
  BY DEF Step, Halt
<1>2. frame \in Frame /\ world \in World /\ frame.self \in Addr
  BY DEF Inv, TypeOK, Frame
<1>3. CASE Halt
  <2>1. PICK end \in {"Ok", "Revert", "Failure"}, code \in {"None", "Contract"} :
          \/ Close(frame, [world EXCEPT !.code[frame.self] = code], end)
          \/ Close(frame, world, end)
    BY <1>3 DEF Halt
  <2> DEFINE w == [world EXCEPT !.code[frame.self] = code]
  <2>2. w \in World /\ w.bal = world.bal
    BY <1>2 DEF World, Code
  <2> HIDE DEF w
  <2>3. Close(frame, w, end) \/ Close(frame, world, end)
    BY <2>1 DEF w
  <2> QED
    BY <1>1, <1>2, <2>2, <2>3, EtherClose
<1>4. ASSUME NEW v \in Value, Store(v) PROVE EtherInv'
  <2> DEFINE w == SetSlot(world, frame.self, v)
  <2>1. w \in World /\ w.bal = world.bal
    BY <1>2 DEF SetSlot, World
  <2>2. \/ Close(frame, world, "Failure")
        \/ \E gas, stored : Runs([frame EXCEPT !.gas = gas, !.ops = @ + 1, !.warm = TRUE,
                                               !.stored = stored], w)
    BY <1>4, Zenon DEF Store
  <2>3. CASE Close(frame, world, "Failure")
    BY <1>1, <1>2, <2>3, EtherClose
  <2>4. CASE ~Close(frame, world, "Failure")
    <3>1. PICK gas, stored : Runs([frame EXCEPT !.gas = gas, !.ops = @ + 1, !.warm = TRUE,
                                                !.stored = stored], w)
      BY <2>2, <2>4, Zenon
    <3> DEFINE f == [frame EXCEPT !.gas = gas, !.ops = @ + 1, !.warm = TRUE, !.stored = stored]
    <3>2. f.system = frame.system /\ f.saved = frame.saved
      BY <1>2 DEF Frame
    <3> HIDE DEF f, w
    <3>3. Runs(f, w)
      BY <3>1 DEF f
    <3> QED
      BY <1>1, <2>1, <3>2, <3>3, EtherRuns
  <2> QED
    BY <2>3, <2>4
<1>5. ASSUME NEW cost \in Spends, Spend(cost) PROVE EtherInv'
  <2> DEFINE f == [frame EXCEPT !.gas = RecordCost(@, cost), !.ops = @ + 1]
  <2>1. f.system = frame.system /\ f.saved = frame.saved
    BY <1>2 DEF Frame
  <2>2. Close(frame, world, "Failure") \/ Runs(f, world)
    BY <1>5 DEF Spend
  <2> HIDE DEF f
  <2>3. CASE Close(frame, world, "Failure")
    BY <1>1, <1>2, <2>3, EtherClose
  <2>4. CASE Runs(f, world)
    BY <1>1, <1>2, <2>1, <2>4, EtherRuns
  <2> QED
    BY <2>2, <2>3, <2>4
<1> QED
  BY <1>3, <1>4, <1>5 DEF Step

\* The price is the tip and, from LONDON on, the base fee.
Tip == IF ~Enabled(London) THEN EffectivePrice(tx)
         ELSE IF EffectivePrice(tx) > env.baseFee THEN EffectivePrice(tx) - env.baseFee ELSE 0
Burn == IF Enabled(London) THEN env.baseFee ELSE 0

\* A price that covers the base fee is their sum.
LEMMA PriceSplit ==
  ASSUME tx \in Tx, env \in Env, PriceOK(tx)
  PROVE  /\ Tip \in Nat /\ Burn \in Nat /\ EffectivePrice(tx) = Tip + Burn
<1> DEFINE price == EffectivePrice(tx)
<1>1. price \in Nat
  <2>1. 0 \in Nat
    OBVIOUS
  <2> QED
    BY <2>1, PriceTypes
<1>2. env.baseFee \in Nat
  BY DEF Env
<1>3. Enabled(London) => price >= env.baseFee
  BY DEF PriceOK
<1> HIDE DEF price
<1>4. CASE Enabled(London)
  <2>1. Burn = env.baseFee /\ Tip = IF price > env.baseFee THEN price - env.baseFee ELSE 0
    BY <1>4 DEF Tip, Burn, price
  <2>2. Tip \in Nat /\ price = Tip + Burn
    BY <1>1, <1>2, <1>3, <1>4, <2>1
  <2> QED
    BY <1>2, <2>1, <2>2 DEF price
<1>5. CASE ~Enabled(London)
  <2>1. Burn = 0 /\ Tip = price
    BY <1>5 DEF Tip, Burn, price
  <2> QED
    BY <1>1, <2>1 DEF price
<1> QED
  BY <1>4, <1>5

\* Gas left, gas used and what each costs.
LEMMA Shares ==
  ASSUME NEW tip \in Nat, NEW burn \in Nat, NEW back \in Nat, NEW gas \in Nat
  PROVE  /\ tip * gas \in Nat /\ burn * gas \in Nat /\ (tip + burn) * back \in Nat
         /\ (tip + burn) * (gas + back) = (tip + burn) * back + tip * gas + burn * gas
<1>1. tip + burn \in Nat
  OBVIOUS
<1>2. tip * gas \in Nat /\ burn * gas \in Nat /\ (tip + burn) * back \in Nat
  BY <1>1, ProductNat
<1>3. (tip + burn) * (gas + back) = (tip + burn) * gas + (tip + burn) * back
  OBVIOUS
<1>4. (tip + burn) * gas = tip * gas + burn * gas
  OBVIOUS
<1> DEFINE a == (tip + burn) * (gas + back)
           b == (tip + burn) * gas
           c == (tip + burn) * back
           d == tip * gas
           e == burn * gas
<1>5. a = b + c /\ b = d + e /\ c \in Nat /\ d \in Nat /\ e \in Nat
  BY <1>2, <1>3, <1>4
<1> HIDE DEF a, b, c, d, e
<1>6. a = c + d + e
  BY <1>5
<1> QED
  BY <1>2, <1>6 DEF a, c, d, e

\* The transaction is settled: gas left and refunds go back to the caller, the tip to the
\* beneficiary, and neither credit wraps.
LEMMA EtherSettle ==
  ASSUME \A t \in Txs : Small(t), Inv, EtherInv, Settle
  PROVE  EtherInv'
<1> DEFINE gas == WithFloor(GasAfter(frame, tx), FloorGas(tx))
           price == EffectivePrice(tx)
           back == gas.remaining + IF gas.refunded > 0 THEN gas.refunded ELSE 0
           used1 == Used(gas)
           refund == Mul(price, back)
           reward == Reward(price, used1)
           data == env.blobPrice * BlobGas(tx)
           repaid == Credit(world, tx.caller, refund)
<1>1. PICK bad \in Bad({"Beneficiary"}) :
        /\ world' = IF bad = "None" THEN Credit(repaid, env.coinbase, reward) ELSE repaid
        /\ result' = [kind |-> ResultKind(frame.end), invalid |-> FALSE,
                      gasUsed |-> used1, gasRefund |-> gas.refunded,
                      paid |-> bad = "None"]
  BY Zenon DEF Settle
<1>2. /\ phase = "settle" /\ ~frame.system /\ phase' = "done"
      /\ UNCHANGED <<env, tx, before, frame>>
  BY DEF Settle
<1>3. /\ tx \in Tx /\ env \in Env /\ frame \in Frame /\ world \in World /\ before \in World
      /\ authRefund \in Nat /\ tx.caller \in Addr /\ env.coinbase \in Addr
      /\ tx.gasLimit \in Nat /\ env.blobPrice \in Nat
  BY DEF Inv, TypeOK, Tx, Env
<1>4. Settled(gas)
  <2>1. /\ frame.gas.remaining <= frame.gas.limit
        /\ InitialGas(tx) <= tx.gasLimit /\ FloorGas(tx) <= tx.gasLimit
        /\ frame.gas.limit = tx.gasLimit - InitialGas(tx)
    BY <1>2 DEF Inv, GasInv
  <2>2. frame.gas.refunded >= 0
    BY DEF Inv, RefundInv
  <2> QED
    BY <1>3, <2>1, <2>2, SettledGas
<1>5. /\ used1 \in Nat /\ back \in Nat /\ used1 + back = tx.gasLimit
  <2> HIDE DEF gas
  <2>1. FloorGas(tx) \in Nat
    BY <1>3, GasTypes
  <2>2. /\ gas.remaining \in Nat /\ gas.refunded \in Nat
        /\ Used(gas) \in FloorGas(tx) .. tx.gasLimit
        /\ Used(gas) + gas.remaining + gas.refunded = tx.gasLimit
    BY <1>4 DEF Settled, Meter
  <2>3. Used(gas) \in Nat
    BY <1>3, <2>1, <2>2
  <2>4. back = gas.remaining + gas.refunded
    BY <2>2
  <2> HIDE DEF back
  <2> QED
    BY <2>2, <2>3, <2>4
<1> HIDE DEF gas, back, used1
<1>6. PriceOK(tx) /\ Small(tx) /\ Total(before) = Total(world) + Fee(tx) /\ Total(before) < Word
  BY <1>2 DEF EtherInv
<1>7. Tip \in Nat /\ Burn \in Nat /\ price = Tip + Burn
  BY <1>3, <1>6, PriceSplit
<1>8. data \in Nat
  BY <1>3, GasTypes, ProductNat
<1>9. Total(world) \in Nat /\ Total(before) \in Nat
  BY <1>3, TotalFacts
<1> DEFINE c == price * back
           d == Tip * used1
           e == Burn * used1
<1>10. c \in Nat /\ d \in Nat /\ e \in Nat /\ price * tx.gasLimit = c + d + e
  <2>1. (Tip + Burn) * (used1 + back) = (Tip + Burn) * back + Tip * used1 + Burn * used1
    BY <1>5, <1>7, Shares
  <2>2. Tip * used1 \in Nat /\ Burn * used1 \in Nat /\ (Tip + Burn) * back \in Nat
    BY <1>5, <1>7, Shares
  <2> QED
    BY <1>5, <1>7, <2>1, <2>2
<1>11. Fee(tx) = c + d + e + data
  BY <1>10 DEF Fee
<1>12. refund = c % Word
  BY DEF Mul
<1>13. reward = d % Word
  BY DEF Reward, Mul, Tip
<1>14. env.baseFee * used1 = e \/ ~Enabled(London)
  BY DEF Burn
<1>15. ~Enabled(London) => e = 0
  BY <1>5 DEF Burn
<1> HIDE DEF c, d, e, data, refund, reward, price
<1>16. Total(world) + c + d + e + data = Total(before)
  BY <1>6, <1>8, <1>9, <1>10, <1>11
<1>17. c < Word /\ d < Word
  BY <1>6, <1>8, <1>9, <1>10, <1>16, TransactionOK
<1>18. refund = c /\ reward = d
  BY <1>10, <1>12, <1>13, <1>17, Exact
<1>19. Total(world) + c < Word /\ Total(world) + c + d < Word
  BY <1>6, <1>8, <1>9, <1>10, <1>16, TransactionOK
<1>20. repaid \in World /\ Total(repaid) = Total(world) + c
  BY <1>3, <1>10, <1>18, <1>19, TotalCredited
<1> HIDE DEF repaid
<1>21. Total(repaid) + d < Word
  BY <1>19, <1>20
<1> DEFINE rewarded == Credit(repaid, env.coinbase, reward)
<1>22. rewarded \in World /\ Total(rewarded) = Total(repaid) + d
  BY <1>3, <1>10, <1>18, <1>20, <1>21, TotalCredited
<1>23. world' = IF bad = "None" THEN rewarded ELSE repaid
  BY <1>1
<1> HIDE DEF rewarded
<1> DEFINE last == IF bad = "None" THEN Total(world) + c + d ELSE Total(world) + c
<1>24. Total(world') = last
  BY <1>20, <1>22, <1>23
<1>25. Total(world)' = last /\ Total(before)' = Total(before)
  BY <1>2, <1>24
<1>26. /\ result'.gasUsed = used1 /\ result'.paid = (bad = "None") /\ ~result'.invalid
  BY <1>1
<1>27. /\ EffectivePrice(tx)' = price /\ BlobGas(tx)' = BlobGas(tx)
       /\ (Enabled(London)' <=> Enabled(London)) /\ env' = env
  BY <1>2 DEF EffectivePrice, BlobGas, FeeMarket, Enabled, price
<1>28. Reward(EffectivePrice(tx), result.gasUsed)' = reward
  BY <1>26, <1>27 DEF Reward, reward
<1>29. Accepted'
  BY <1>2, <1>26 DEF Accepted
<1>30. Total(before) - last = e + data + IF bad = "None" THEN 0 ELSE d
  BY <1>8, <1>9, <1>10, <1>16
<1>31. last < Word
  BY <1>19
<1> HIDE DEF last
<1>32. EtherAccounted'
  <2> DEFINE burnt == IF Enabled(London) THEN env.baseFee * used1 ELSE 0
  <2>1. burnt = e
    BY <1>14, <1>15
  <2>2. (IF Enabled(London) THEN env.baseFee * result.gasUsed ELSE 0)' = burnt
    BY <1>26, <1>27
  <2>3. (env.blobPrice * BlobGas(tx))' = data
    BY <1>27 DEF data
  <2>4. (IF result.paid THEN 0 ELSE Reward(EffectivePrice(tx), result.gasUsed))'
          = IF bad = "None" THEN 0 ELSE d
    BY <1>18, <1>26, <1>28, Zenon
  <2> HIDE DEF burnt
  <2>5. (Total(before) - Total(world))' = e + data + IF bad = "None" THEN 0 ELSE d
    BY <1>25, <1>30
  <2> QED
    BY <1>29, <2>1, <2>2, <2>3, <2>4, <2>5 DEF EtherAccounted
<1> QED
  BY <1>2, <1>6, <1>25, <1>31, <1>32 DEF EtherInv

\* The end of a system call, and of the accounting.
LEMMA EtherDone ==
  ASSUME Inv, EtherInv, SystemDone \/ NextTx
  PROVE  EtherInv'
<1>1. UNCHANGED <<world, before>>
  BY DEF SystemDone, NextTx
<1>2. Total(world)' = Total(world) /\ Total(before)' = Total(before)
  BY <1>1
<1>3. Total(world) \in Nat /\ Total(before) \in Nat
  <2>1. world \in World /\ before \in World
    BY DEF Inv, TypeOK
  <2> QED
    BY <2>1, TotalFacts
<1>4. CASE SystemDone
  <2>1. phase' = "done" /\ frame' = frame /\ frame.system /\ phase = "settle"
    BY <1>4 DEF SystemDone
  <2>2. Total(before) = Total(world) /\ ~Accepted'
    BY <2>1 DEF EtherInv, Accepted
  <2>3. EtherAccounted'
    BY <1>2, <1>3, <2>2 DEF EtherAccounted
  <2> QED
    BY <1>2, <2>1, <2>3 DEF EtherInv
<1>5. CASE NextTx
  <2>1. phase' = "idle"
    BY <1>5 DEF NextTx
  <2>2. EtherAccounted'
    BY <2>1, EtherOpen
  <2> QED
    BY <1>2, <2>1, <2>2 DEF EtherInv
<1> QED
  BY <1>4, <1>5

\* Every step keeps the accounts of the ether.
LEMMA EtherStep ==
  ASSUME \A t \in Txs : Small(t), Inv, EtherInv, [Next]_vars
  PROVE  EtherInv'
<1>1. CASE Begin
  BY <1>1, EtherBegin
<1>2. CASE SystemCall
  BY <1>2, EtherSystemCall
<1>3. CASE Authorise
  BY <1>3, EtherAuthorise
<1>4. CASE Call
  BY <1>4, EtherCall
<1>5. CASE Create
  BY <1>5, EtherCreate
<1>6. CASE Step \/ Halt
  BY <1>6, EtherRun
<1>7. CASE Settle
  BY <1>7, EtherSettle
<1>8. CASE SystemDone \/ NextTx
  BY <1>8, EtherDone
<1>9. CASE UNCHANGED vars
  <2>1. /\ Total(before)' = Total(before) /\ Total(world)' = Total(world)
        /\ Total(frame.saved)' = Total(frame.saved)
    BY <1>9 DEF vars
  <2>2. Fee(tx)' = Fee(tx) /\ PriceOK(tx)' = PriceOK(tx)
    BY <1>9, SameFee DEF vars
  <2>3. EtherAccounted'
    <3>1. EtherAccounted
      BY DEF EtherInv
    <3>2. /\ Reward(EffectivePrice(tx), result.gasUsed)'
               = Reward(EffectivePrice(tx), result.gasUsed)
          /\ BlobGas(tx)' = BlobGas(tx)
      BY <1>9 DEF vars, Reward, EffectivePrice, BlobGas, FeeMarket, Enabled
    <3> QED
      BY <1>9, <2>1, <3>1, <3>2 DEF vars, EtherAccounted, Accepted, Enabled
  <2> QED
    BY <1>9, <2>1, <2>2, <2>3 DEF vars, EtherInv
<1> QED
  BY <1>1, <1>2, <1>3, <1>4, <1>5, <1>6, <1>7, <1>8, <1>9 DEF Next

\* If all the ether there is fits into 256 bits, and so does what a transaction may cost, then
\* no credit wraps and what leaves the accounts is the base fee, the blob fee and the tip of
\* a beneficiary that could not be loaded (evm.go:404-432, 575-589, 740-768).
THEOREM EtherIsAccounted ==
  ASSUME \A t \in Txs : Small(t), Total(Start) < Word
  PROVE  Spec => []EtherAccounted
<1>1. Inv /\ EtherInv /\ [Next]_vars => EtherInv'
  BY EtherStep
<1>2. Init => EtherInv
  BY EtherInit
<1>3. EtherInv => EtherAccounted
  BY DEF EtherInv
<1> QED
  BY <1>1, <1>2, <1>3, Invariance, PTL DEF Spec
=============================================================================
