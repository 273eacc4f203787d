------------------------------ MODULE GasMeter ------------------------------
(***************************************************************************)
(* vm.Gas (src/vm/gas.go): a gas meter is a record [limit, remaining,       *)
(* refunded].  The refund is signed, the rest is unsigned.                  *)
(***************************************************************************)
EXTENDS Integers

CONSTANT GasWord   \* 2^64 in the code

ASSUME GasWordOK == GasWord \in Nat \ {0}

Meter == [limit : Nat, remaining : Nat, refunded : Int]

NewGas(limit) == [limit |-> limit, remaining |-> limit, refunded |-> 0]
NewGasSpent(limit) == [limit |-> limit, remaining |-> 0, refunded |-> 0]

Spent(g) == g.limit - g.remaining
CanRecord(g, cost) == g.remaining >= cost
RecordCost(g, cost) == [g EXCEPT !.remaining = @ - cost]
EraseCost(g, returned) == [g EXCEPT !.remaining = @ + returned]
RecordRefund(g, refund) == [g EXCEPT !.refunded = @ + refund]
SetRefund(g, refund) == [g EXCEPT !.refunded = refund]
SetSpent(g, spent) == [g EXCEPT !.remaining = IF spent > g.limit THEN 0 ELSE g.limit - spent]

\* uint64(x) of a signed number
Unsigned(x) == x % GasWord

\* EIP-3529: at most a fifth of the gas spent is refunded, before LONDON a half.
SetFinalRefund(g, london) ==
  LET cap  == Spent(g) \div (IF london THEN 5 ELSE 2)
      made == Unsigned(g.refunded)
  IN  [g EXCEPT !.refunded = IF made > cap THEN cap ELSE made]

Used(g) ==
  IF g.refunded < 0 THEN Spent(g)
    ELSE IF g.refunded > Spent(g) THEN 0 ELSE Spent(g) - g.refunded

SpentSubRefunded(g) ==
  IF g.refunded < 0 \/ g.refunded > Spent(g) THEN Spent(g) ELSE Spent(g) - g.refunded
=============================================================================
