----------------------------- MODULE WorldState -----------------------------
(***************************************************************************)
(* What the state journal promises to the EVM, without an undo log: a      *)
(* world of accounts, and a stack of whole-world snapshots.  A frame that   *)
(* is entered pushes the world, a frame that succeeds drops its snapshot,   *)
(* a frame that reverts restores it.  The bottom snapshot is the world the  *)
(* transaction started from.  Journal.tla implements this specification     *)
(* (JournalRefinement.tla gives the mapping).                               *)
(*                                                                          *)
(* The world says what code can observe of an account (balance, nonce,      *)
(* code, storage, transient storage), what is warm in this transaction,     *)
(* which accounts were touched (EIP-161), created in this transaction,      *)
(* doomed (to be deleted at its end) or gone (deleted by an earlier one and *)
(* not touched since), and the logs emitted.                                *)
(***************************************************************************)
EXTENDS Integers, Sequences

CONSTANTS Addr, Key, Value, Code, NoCode, MaxBalance, MaxNonce, Amount,
          AlwaysWarm,      \* the precompiles
          Sticky,          \* addresses whose touch survives a revert: not tracked
          AccessLists, SpuriousDragon, Cancun

VARIABLES world, stack

vars == <<world, stack>>

Plus(x, y) == IF x + y > MaxBalance THEN x + y - MaxBalance - 1 ELSE x + y

Access(w, a) == [w EXCEPT !.warm = @ \cup {a}]
TouchAcc(w, a) == [w EXCEPT !.touched = @ \cup ({a} \ Sticky), !.gone = @ \ {a}]
Pay(w, a, v) == [w EXCEPT !.bal[a] = Plus(@, v)]

Keep(w) == world' = w /\ UNCHANGED stack

LoadAccount(a) == Keep(Access(world, a))

Touch(a) == Keep(TouchAcc(world, a))

SLoad(a, k) == Keep([Access(world, a) EXCEPT !.warmSlots = @ \cup {<<a, k>>}])

\* A store also loads the slot, and touches the account that runs.
SStore(a, k, v) ==
  Keep([TouchAcc(world, a) EXCEPT !.warmSlots = @ \cup {<<a, k>>},
                                  !.storage[a][k] = v])

TStore(a, k, v) == Keep([world EXCEPT !.transient[a][k] = v])

AppendLog(a) == Keep([world EXCEPT !.logs = Append(@, a)])

\* Without the funds only the sender is touched; ether is never made or lost.
Transfer(from, to, v) ==
  LET w == Access(Access(world, from), to)
  IN  Keep(IF from = to THEN w
             ELSE IF v > w.bal[from] THEN TouchAcc(w, from)
             ELSE [TouchAcc(TouchAcc(w, from), to)
                     EXCEPT !.bal[from] = @ - v, !.bal[to] = @ + v])

BalanceIncr(a, v) == Keep(Pay(TouchAcc(Access(world, a), a), a, v))

\* The balance goes to the target.  The account is doomed only if EIP-6780 allows it,
\* and then a balance sent to itself is burnt.
Selfdestruct(a, target) ==
  LET w     == Access(world, target)
      paid  == IF a = target THEN w ELSE Pay(TouchAcc(w, target), target, w.bal[a])
      dooms == a \in world.created \/ ~Cancun
  IN  Keep(IF dooms THEN [paid EXCEPT !.bal[a] = 0, !.doomed = @ \cup {a}]
             ELSE IF a = target THEN paid ELSE [paid EXCEPT !.bal[a] = 0])

BumpNonce(a) ==
  /\ world.nonce[a] < MaxNonce
  /\ Keep([world EXCEPT !.nonce[a] = @ + 1])

\* The value moves with the creation, and only an empty address can be created
\* (EIP-684, EIP-7610); the snapshot is the world before the creation.
Create(caller, a, v) ==
  /\ caller # a
  /\ world.code[a] = NoCode /\ world.nonce[a] = 0
  /\ \A k \in Key : world.storage[a][k] = 0
  /\ v <= world.bal[caller]
  /\ stack' = Append(stack, world)
  /\ world' = [TouchAcc(world, a) EXCEPT
                 !.nonce[a] = IF SpuriousDragon THEN 1 ELSE 0,
                 !.bal[a] = @ + v, !.bal[caller] = @ - v,
                 !.created = @ \cup {a}]

Pop == SubSeq(stack, 1, Len(stack) - 1)

Enter == stack' = Append(stack, world) /\ UNCHANGED world

Commit == Len(stack) > 1 /\ stack' = Pop /\ UNCHANGED world

\* A creation that ends well is no longer doomed, unless SELFDESTRUCT ended it.
FinishCreate(a, c, byOpcode) ==
  /\ Len(stack) > 1
  /\ a \in world.created
  /\ LET w == IF byOpcode THEN world
                ELSE [world EXCEPT !.doomed = @ \ {a}, !.gone = @ \ {a}]
     IN  world' = IF c = NoCode THEN w ELSE [TouchAcc(w, a) EXCEPT !.code[a] = c]
  /\ stack' = Pop

Revert == Len(stack) > 1 /\ world' = stack[Len(stack)] /\ stack' = Pop

\* The world the next transaction starts from: the doomed accounts are deleted.
Settled(w) ==
  LET Reset(f, z) == [a \in Addr |-> IF a \in w.doomed THEN z ELSE f[a]]
      zeros == [k \in Key |-> 0]
  IN  [w EXCEPT !.bal = Reset(@, 0), !.nonce = Reset(@, 0), !.code = Reset(@, NoCode),
                !.storage = Reset(@, zeros), !.transient = [a \in Addr |-> zeros],
                !.warm = AlwaysWarm, !.warmSlots = {}, !.created = {},
                !.gone = @ \cup w.doomed, !.doomed = {}, !.logs = <<>>]

EndTx(w) == world' = Settled(w) /\ stack' = <<Settled(w)>>

CommitTx == Len(stack) = 1 /\ EndTx(world)

DiscardTx == Len(stack) = 1 /\ EndTx(stack[1])

WarmAccessList(l) ==
  LET Warm(w) == [w EXCEPT !.warm = @ \cup l.addrs, !.warmSlots = @ \cup l.slots]
  IN  /\ Len(stack) = 1
      /\ world' = Warm(world)
      /\ stack' = <<Warm(stack[1])>>

Next ==
  \/ \E a \in Addr : LoadAccount(a) \/ Touch(a) \/ AppendLog(a) \/ BumpNonce(a)
  \/ \E a \in Addr, k \in Key : SLoad(a, k)
  \/ \E a \in Addr, k \in Key, v \in Value : SStore(a, k, v) \/ TStore(a, k, v)
  \/ \E a, b \in Addr, v \in Amount : Transfer(a, b, v) \/ Create(a, b, v)
  \/ \E a \in Addr, v \in Amount : BalanceIncr(a, v)
  \/ \E a, b \in Addr : Selfdestruct(a, b)
  \/ \E a \in Addr, c \in Code, b \in BOOLEAN : FinishCreate(a, c, b)
  \/ \E l \in AccessLists : WarmAccessList(l)
  \/ Enter \/ Commit \/ Revert \/ CommitTx \/ DiscardTx

\* The world every account of which is as the database has it.
Init ==
  /\ stack = <<world>>
  /\ world.warm = AlwaysWarm
  /\ world.created = {} /\ world.doomed = {} /\ world.gone = {}
  /\ world.touched = {} /\ world.warmSlots = {} /\ world.logs = <<>>

Spec == Init /\ [][Next]_vars
=============================================================================
