------------------------------ MODULE Journal ------------------------------
(***************************************************************************)
(* The state journal of gevm (src/state): the in-memory account and        *)
(* storage state a transaction executes on, and the undo log that lets a   *)
(* call frame be reverted.                                                  *)
(*                                                                          *)
(* Every method of state.Journal that changes state is an operator on a   *)
(* journal record [acct, slot, transient, entries], so that a method that  *)
(* calls another is written as the composition the code performs; an       *)
(* action applies one exported method to the variable `journal`.           *)
(* `checkpoints` holds the JournalCheckpoint values that live in the Go     *)
(* frames of host.Handler (innermost last).                                 *)
(*                                                                          *)
(* Abstractions.  The DB never changes during a block, so an account that   *)
(* is not in Journal.State (loaded = FALSE) holds what DB.Basic would       *)
(* return for it.  Code and its hash are one value of Code.  256-bit        *)
(* balances wrap at MaxBalance + 1.  A DB read that fails leaves the        *)
(* journal as the reads before it left it, which is a LoadAccount step.     *)
(***************************************************************************)
EXTENDS Integers, Sequences, FiniteSets

CONSTANTS
  Addr, Key, Value, Code, NoCode,   \* NoCode: KeccakEmpty / no code
  MaxBalance, MaxNonce,             \* 2^256 - 1 and 2^64 - 1 in the code
  Amount,                           \* the transfer amounts tried
  DBInfo, DBStorage,                \* the database: account infos and storage
  Precompiles, Precompile3,         \* warm precompiles; RIPEMD160 (address 3)
  AccessLists,                      \* access lists (with coinbase) a tx may carry
  SpuriousDragon, Cancun,           \* forks enabled
  None,                             \* "no address"
  MaxEntries, MaxLogs, MaxDepth, MaxTx  \* bounds of the model

Balance == 0 .. MaxBalance
Nonce == 0 .. MaxNonce
Flag == {"Created", "CreatedLocal", "SelfDestructed", "SelfDestructLocal",
         "Touched", "LoadedAsNotExist", "Cold", "StorageCleared"}
Info == [exists : BOOLEAN, bal : Balance, nonce : Nonce, code : Code]
AccessList == [addrs : SUBSET Addr, slots : SUBSET (Addr \X Key)]

ASSUME ConstantsOK ==
  /\ 0 \in Value
  /\ NoCode \in Code
  /\ MaxBalance \in Nat
  /\ MaxNonce \in Nat \ {0}
  /\ Amount \subseteq Balance
  /\ DBInfo \in [Addr -> Info]
  /\ \A a \in Addr : ~DBInfo[a].exists =>
       DBInfo[a].bal = 0 /\ DBInfo[a].nonce = 0 /\ DBInfo[a].code = NoCode
  /\ DBStorage \in [Addr -> [Key -> Value]]
  /\ Precompiles \subseteq Addr
  /\ AccessLists \subseteq AccessList
  /\ SpuriousDragon \in BOOLEAN
  /\ Cancun \in BOOLEAN
  /\ Cancun => SpuriousDragon
  /\ None \notin Addr
  /\ MaxEntries \in Nat /\ MaxLogs \in Nat /\ MaxDepth \in Nat /\ MaxTx \in Nat

VARIABLES
  journal,      \* [acct, slot, transient, entries]: State, TransientStorage, Entries
  txid,         \* TransactionID
  warmList,     \* WarmAddresses without the precompiles: coinbase and access list
  logs,         \* Logs, as the addresses that emitted them
  doomed,       \* SelfdestructedAddresses
  depth,        \* Depth
  checkpoints   \* the checkpoints the open frames hold

vars == <<journal, txid, warmList, logs, doomed, depth, checkpoints>>

Account == [loaded : BOOLEAN, bal : Balance, nonce : Nonce, code : Code,
            tx : Nat, status : SUBSET Flag]
Slot == [loaded : BOOLEAN, present : Value, orig : Value, tx : Nat, cold : BOOLEAN]

NoSlot == [loaded |-> FALSE, present |-> 0, orig |-> 0, tx |-> 0, cold |-> FALSE]
NoStorage == [k \in Key |-> NoSlot]

RevertStatus == {"Global", "Local", "Repeated"}

Entry ==
  [kind : {"AccountWarmed", "AccountTouched", "SelfdestructCleared"}, addr : Addr]
  \cup [kind : {"AccountDestroyed"}, addr : Addr, target : Addr,
        status : RevertStatus, bal : Balance]
  \cup [kind : {"BalanceChange"}, addr : Addr, bal : Balance]
  \cup [kind : {"BalanceTransfer"}, addr : Addr, target : Addr, bal : Balance]
  \cup [kind : {"NonceChange"}, addr : Addr, nonce : Nonce]
  \cup [kind : {"AccountCreated"}, addr : Addr, global : BOOLEAN]
  \cup [kind : {"StorageWarmed"}, addr : Addr, key : Key]
  \cup [kind : {"StorageChanged", "TransientChange"}, addr : Addr, key : Key,
        had : Value]
  \cup [kind : {"CodeChange"}, addr : Addr, code : Code]

JournalRec == [acct : [Addr -> Account], slot : [Addr -> [Key -> Slot]],
               transient : [Addr -> [Key -> Value]], entries : Seq(Entry)]

Checkpoint == [logI : Nat, journalI : Nat, doomedI : Nat, created : Addr \cup {None}]

(***************************************************************************)
(* Primitive updates of a journal record.  uint256 Add and Sub wrap.       *)
(***************************************************************************)
Plus(x, y) == IF x + y > MaxBalance THEN x + y - MaxBalance - 1 ELSE x + y
Minus(x, y) == IF y > x THEN x - y + MaxBalance + 1 ELSE x - y

Mark(j, a, F) == [j EXCEPT !.acct[a].status = @ \cup F]
Unmark(j, a, F) == [j EXCEPT !.acct[a].status = @ \ F]
SetBalance(j, a, v) == [j EXCEPT !.acct[a].bal = v]
Credit(j, a, v) == [j EXCEPT !.acct[a].bal = Plus(@, v)]
Debit(j, a, v) == [j EXCEPT !.acct[a].bal = Minus(@, v)]
SetNonce(j, a, n) == [j EXCEPT !.acct[a].nonce = n]
SetCode(j, a, c) == [j EXCEPT !.acct[a].code = c]
Record(j, e) == [j EXCEPT !.entries = Append(@, e)]

Has(j, a, f) == f \in j.acct[a].status

\* Account.Selfdestruct: fresh storage, default info, StorageCleared.
Emptied(x) ==
  [x EXCEPT !.bal = 0, !.nonce = 0, !.code = NoCode, !.status = @ \cup {"StorageCleared"}]

Wipe(j, a) == [j EXCEPT !.slot[a] = NoStorage, !.acct[a] = Emptied(@)]

(***************************************************************************)
(* JournalEntry.Revert, and the loop that reverts the entries above n.  A   *)
(* zero transient value is an absent key.                                  *)
(***************************************************************************)
\* Mutant: the first SELFDESTRUCT of an account is reverted but for the local flag.
UndoDestroyedKeepsLocal(j, e) ==
  LET flags == IF e.status = "Global" THEN {"SelfDestructed"} ELSE {}
      back == Credit(Unmark(j, e.addr, flags), e.addr, e.bal)
  IN  IF e.addr # e.target THEN Debit(back, e.target, e.bal) ELSE back

UndoDestroyed(j, e) ==
  LET flags == CASE e.status = "Global"   -> {"SelfDestructed", "SelfDestructLocal"}
                 [] e.status = "Local"    -> {"SelfDestructLocal"}
                 [] e.status = "Repeated" -> {}
      back == Credit(Unmark(j, e.addr, flags), e.addr, e.bal)
  IN  IF e.addr # e.target THEN Debit(back, e.target, e.bal) ELSE back

UndoCreated(j, e) ==
  SetNonce(Unmark(j, e.addr, {"CreatedLocal"} \cup
                             (IF e.global THEN {"Created"} ELSE {})), e.addr, 0)

\* Mutant: no exception for address 3.
UndoTouchAlways(j, e) == Unmark(j, e.addr, {"Touched"})

UndoTouch(j, e) ==
  IF SpuriousDragon /\ e.addr = Precompile3 THEN j ELSE Unmark(j, e.addr, {"Touched"})

Undo(j, e) ==
  CASE e.kind = "AccountWarmed"    -> Mark(j, e.addr, {"Cold"})
    [] e.kind = "AccountTouched"   -> UndoTouch(j, e)
    [] e.kind = "AccountDestroyed" -> UndoDestroyed(j, e)
    [] e.kind = "BalanceChange"    -> SetBalance(j, e.addr, e.bal)
    [] e.kind = "BalanceTransfer"  -> Debit(Credit(j, e.addr, e.bal), e.target, e.bal)
    [] e.kind = "NonceChange"      -> SetNonce(j, e.addr, e.nonce)
    [] e.kind = "AccountCreated"   -> UndoCreated(j, e)
    [] e.kind = "StorageWarmed"    -> [j EXCEPT !.slot[e.addr][e.key].cold = TRUE]
    [] e.kind = "StorageChanged"   -> [j EXCEPT !.slot[e.addr][e.key].present = e.had]
    [] e.kind = "TransientChange"  -> [j EXCEPT !.transient[e.addr][e.key] = e.had]
    [] e.kind = "CodeChange"       -> SetCode(j, e.addr, e.code)
    [] e.kind = "SelfdestructCleared" -> Mark(j, e.addr, {"SelfDestructed"})

\* The journal after its last i entries have been reverted, newest first.
Unwound(j) ==
  LET back[i \in 0 .. Len(j.entries)] ==
        IF i = 0 THEN j ELSE Undo(back[i-1], j.entries[Len(j.entries) - i + 1])
  IN  back

RevertTo(j, n) ==
  [Unwound(j)[Len(j.entries) - n] EXCEPT !.entries = SubSeq(@, 1, n)]

(***************************************************************************)
(* Accounts: warm/cold tracking, touching, loading.                        *)
(***************************************************************************)
IsWarm(a) == a \in warmList.addrs \/ a \in Precompiles
IsStorageWarm(a, k) == <<a, k>> \in warmList.slots

ColdInTx(j, a) == j.acct[a].tx # txid \/ Has(j, a, "Cold")

AccountWarmed(a) == [kind |-> "AccountWarmed", addr |-> a]

\* Mutant: the cleared flag is not journaled.
ReviveUnjournaled(j, a) ==
  IF Has(j, a, "SelfDestructLocal") THEN j ELSE Unmark(j, a, {"SelfDestructed"})

Revive(j, a) ==
  IF Has(j, a, "SelfDestructed") /\ ~Has(j, a, "SelfDestructLocal")
    THEN Unmark(Record(j, [kind |-> "SelfdestructCleared", addr |-> a]),
                a, {"SelfDestructed"})
    ELSE j

MarkTouched(j, a) ==
  IF Has(j, a, "Touched") THEN j
    ELSE Mark(Record(j, [kind |-> "AccountTouched", addr |-> a]), a, {"Touched"})

\* Mutant: an account deleted by an earlier transaction is not revived.
TouchAccountOnly(j, a) == MarkTouched(j, a)

TouchAccount(j, a) == MarkTouched(Revive(j, a), a)

\* loadAccountMutInternal, account not in State: insert what the DB returned.
Insert(j, a) ==
  LET acc == [j.acct[a] EXCEPT !.loaded = TRUE, !.tx = txid,
                !.status = IF DBInfo[a].exists THEN {} ELSE {"LoadedAsNotExist"}]
      in  == [j EXCEPT !.acct[a] = acc]
  IN  IF IsWarm(a) THEN in ELSE Record(in, AccountWarmed(a))

\* loadAccountMutInternal, first load in this transaction of an account in State.
Rewarm(j, a) ==
  LET clean == IF Has(j, a, "SelfDestructLocal") THEN Wipe(j, a) ELSE j
      acc   == [clean.acct[a] EXCEPT
                  !.tx = txid,
                  !.status = @ \ {"Cold", "SelfDestructLocal", "CreatedLocal"}]
  IN  Record([clean EXCEPT !.acct[a] = acc], AccountWarmed(a))

Load(j, a) ==
  IF ~j.acct[a].loaded THEN Insert(j, a)
    ELSE IF ColdInTx(j, a) THEN Rewarm(j, a) ELSE j

LoadIfAbsent(j, a) == IF j.acct[a].loaded THEN j ELSE Load(j, a)

(***************************************************************************)
(* Storage.                                                                *)
(***************************************************************************)
ShouldLoadFromDB(j, a) ==
  /\ ~Has(j, a, "Created")
  /\ ~Has(j, a, "StorageCleared")
  /\ Has(j, a, "SelfDestructed") => Has(j, a, "SelfDestructLocal")

\* The value a slot that is not in Account.Storage is created with.
InitialValue(j, a, k) == IF ShouldLoadFromDB(j, a) THEN DBStorage[a][k] ELSE 0

SlotColdInTx(j, a, k) == j.slot[a][k].tx # txid \/ j.slot[a][k].cold

\* Mutant: the original value of a slot is that of the first transaction to load it.
WarmSlotKeepsOriginal(j, a, k) ==
  LET s    == j.slot[a][k]
      v    == InitialValue(j, a, k)
      warm == IF ~s.loaded
                THEN [loaded |-> TRUE, present |-> v, orig |-> v,
                      tx |-> txid, cold |-> FALSE]
                ELSE [s EXCEPT !.tx = txid, !.cold = FALSE]
      put  == [j EXCEPT !.slot[a][k] = warm]
  IN  IF (~s.loaded \/ SlotColdInTx(j, a, k)) /\ ~IsStorageWarm(a, k)
        THEN Record(put, [kind |-> "StorageWarmed", addr |-> a, key |-> k])
        ELSE put

WarmSlot(j, a, k) ==
  LET s    == j.slot[a][k]
      v    == InitialValue(j, a, k)
      warm == IF ~s.loaded
                THEN [loaded |-> TRUE, present |-> v, orig |-> v,
                      tx |-> txid, cold |-> FALSE]
                ELSE [s EXCEPT !.orig = IF SlotColdInTx(j, a, k) THEN s.present ELSE @,
                               !.tx = txid, !.cold = FALSE]
      put  == [j EXCEPT !.slot[a][k] = warm]
  IN  IF (~s.loaded \/ SlotColdInTx(j, a, k)) /\ ~IsStorageWarm(a, k)
        THEN Record(put, [kind |-> "StorageWarmed", addr |-> a, key |-> k])
        ELSE put

SLoadSlot(j, a, k) == WarmSlot(LoadIfAbsent(j, a), a, k)

\* Mutant: the old value is read before the account is touched and the slot warmed.
SStoreSlotStaleOld(j, a, k, v) ==
  LET w   == WarmSlot(MarkTouched(LoadIfAbsent(j, a), a), a, k)
      old == j.slot[a][k].present
  IN  IF old = v THEN w
        ELSE Record([w EXCEPT !.slot[a][k].present = v],
                    [kind |-> "StorageChanged", addr |-> a, key |-> k, had |-> old])

SStoreSlot(j, a, k, v) ==
  LET w   == WarmSlot(MarkTouched(LoadIfAbsent(j, a), a), a, k)
      old == w.slot[a][k].present
  IN  IF old = v THEN w
        ELSE Record([w EXCEPT !.slot[a][k].present = v],
                    [kind |-> "StorageChanged", addr |-> a, key |-> k, had |-> old])

TStoreSlot(j, a, k, v) ==
  LET old == j.transient[a][k]
  IN  IF old = v THEN j
        ELSE Record([j EXCEPT !.transient[a][k] = v],
                    [kind |-> "TransientChange", addr |-> a, key |-> k, had |-> old])

(***************************************************************************)
(* Balances.                                                               *)
(***************************************************************************)
BalanceTransfer(a, b, v) ==
  [kind |-> "BalanceTransfer", addr |-> a, target |-> b, bal |-> v]

\* The sender is debited before the receiver's overflow check.
TransferLoaded(j, from, to, v) ==
  LET sender == TouchAccount(j, from)
      debited == TouchAccount(Debit(sender, from, v), to)
  IN  IF from = to THEN j
        ELSE IF v = 0 THEN TouchAccount(j, to)
        ELSE IF v > sender.acct[from].bal THEN sender
        ELSE IF debited.acct[to].bal + v > MaxBalance THEN debited
        ELSE Record(Credit(debited, to, v), BalanceTransfer(from, to, v))

TransferBalance(j, from, to, v) ==
  TransferLoaded(Load(Load(j, from), to), from, to, v)

IncrBalance(j, a, v) ==
  LET t   == TouchAccount(Load(j, a), a)
      old == t.acct[a].bal
      new == Credit(t, a, v)
  IN  IF new.acct[a].bal = old THEN new
        ELSE Record(new, [kind |-> "BalanceChange", addr |-> a, bal |-> old])

(***************************************************************************)
(* SELFDESTRUCT and CREATE.                                                *)
(***************************************************************************)
DestroyStatus(j, a) ==
  IF ~Has(j, a, "SelfDestructed") THEN "Global"
    ELSE IF ~Has(j, a, "SelfDestructLocal") THEN "Local" ELSE "Repeated"

\* Mutant: any transaction may have created it.
MayDestroyIfEverCreated(j, a) == Has(j, a, "Created") \/ ~Cancun

\* EIP-6780: from Cancun on, only an account created in this transaction goes.
MayDestroy(j, a) == Has(j, a, "CreatedLocal") \/ ~Cancun

\* Selfdestruct up to the balance move: load the beneficiary and credit it.
PayBeneficiary(j, a, target) ==
  LET l == Load(j, target)
  IN  IF a = target THEN l
        ELSE Credit(TouchAccount(l, target), target, l.acct[a].bal)

Destroy(j, a, target) ==
  LET p   == PayBeneficiary(j, a, target)
      bal == p.acct[a].bal
  IN  IF MayDestroy(p, a)
        THEN Record(SetBalance(Mark(p, a, {"SelfDestructed", "SelfDestructLocal"}), a, 0),
                    [kind |-> "AccountDestroyed", addr |-> a, target |-> target,
                     status |-> DestroyStatus(p, a), bal |-> bal])
        ELSE IF a # target
        THEN Record(SetBalance(p, a, 0), BalanceTransfer(a, target, bal))
        ELSE p

HasStorage(j, a) ==
  /\ ~Has(j, a, "SelfDestructed")
  /\ ~Has(j, a, "StorageCleared")
  /\ \E k \in Key : (j.slot[a][k].loaded /\ j.slot[a][k].present # 0) \/ DBStorage[a][k] # 0

Collides(j, a) ==
  j.acct[a].code # NoCode \/ j.acct[a].nonce # 0 \/ HasStorage(j, a)

\* CreateAccountCheckpoint after the collision check, up to the value transfer.
NewAccount(j, a) ==
  LET made == Mark(Record(j, [kind |-> "AccountCreated", addr |-> a,
                              global |-> ~Has(j, a, "Created")]),
                   a, {"Created", "CreatedLocal"})
  IN  TouchAccount(IF SpuriousDragon THEN SetNonce(made, a, 1) ELSE made, a)

Endow(j, caller, a, v) ==
  IF v = 0 THEN j
    ELSE Record(Debit(Credit(j, a, v), caller, v), BalanceTransfer(caller, a, v))

DeployCode(j, a, c) ==
  LET t == TouchAccount(j, a)
  IN  SetCode(Record(t, [kind |-> "CodeChange", addr |-> a, code |-> t.acct[a].code]),
              a, c)

-----------------------------------------------------------------------------
(***************************************************************************)
(* Actions: one per exported method, under the conditions its callers in   *)
(* host establish.                                                          *)
(***************************************************************************)
NoWarmList == [addrs |-> {}, slots |-> {}]

Init ==
  /\ journal = [acct |-> [a \in Addr |->
                   [loaded |-> FALSE, bal |-> DBInfo[a].bal, nonce |-> DBInfo[a].nonce,
                    code |-> DBInfo[a].code, tx |-> 0, status |-> {}]],
                slot |-> [a \in Addr |-> NoStorage],
                transient |-> [a \in Addr |-> [k \in Key |-> 0]],
                entries |-> <<>>]
  /\ txid = 0
  /\ warmList = NoWarmList
  /\ logs = <<>>
  /\ doomed = <<>>
  /\ depth = 0
  /\ checkpoints = <<>>

\* Bound: entries that change a value.  Warmings are bounded by Addr and Key.
Room == Cardinality({i \in DOMAIN journal.entries : journal.entries[i].kind \notin
                       {"AccountWarmed", "StorageWarmed"}}) < MaxEntries
FrameOpen == checkpoints # <<>>
Top == checkpoints[Len(checkpoints)]
Pop == SubSeq(checkpoints, 1, Len(checkpoints) - 1)

Loaded(a) == journal.acct[a].loaded /\ ~ColdInTx(journal, a)

\* A frame runs code as address a: a was loaded for the call, and has code or is
\* running its initcode.
Running(a) ==
  /\ FrameOpen
  /\ Loaded(a)
  /\ journal.acct[a].code # NoCode \/ Has(journal, a, "CreatedLocal")

\* Deleted by an earlier transaction, and not touched since.
Gone(a) == Has(journal, a, "SelfDestructed") /\ ~Has(journal, a, "SelfDestructLocal")

OnlyJournal == UNCHANGED <<txid, warmList, logs, doomed, depth, checkpoints>>

\* transact, pre-execution: coinbase and access list, after the sender was loaded.
WarmAccessList(l) ==
  /\ warmList = NoWarmList
  /\ ~FrameOpen
  /\ Len(journal.entries) <= 1
  /\ \A i \in DOMAIN journal.entries : journal.entries[i].kind = "AccountWarmed"
  /\ warmList' = l
  /\ UNCHANGED <<journal, txid, logs, doomed, depth, checkpoints>>

LoadAccount(a) ==
  /\ Room
  /\ journal' = Load(journal, a)
  /\ OnlyJournal

\* The account is running, or is not in State yet (a direct use of the method).
SLoad(a, k) ==
  /\ Room
  /\ FrameOpen
  /\ journal.acct[a].loaded => ~ColdInTx(journal, a)
  /\ journal' = SLoadSlot(journal, a, k)
  /\ OnlyJournal

SStore(a, k, v) ==
  /\ Room
  /\ Running(a)
  /\ journal' = SStoreSlot(journal, a, k, v)
  /\ OnlyJournal

TStore(a, k, v) ==
  /\ Room
  /\ Running(a)
  /\ journal' = TStoreSlot(journal, a, k, v)
  /\ OnlyJournal

AppendLog(a) ==
  /\ Len(logs) < MaxLogs
  /\ Running(a)
  /\ logs' = Append(logs, a)
  /\ UNCHANGED <<journal, txid, warmList, doomed, depth, checkpoints>>

Touch(a) ==
  /\ Room
  /\ FrameOpen
  /\ journal.acct[a].loaded
  /\ journal' = TouchAccount(journal, a)
  /\ OnlyJournal

\* executeCall moves only a non-zero value.
Transfer(from, to, v) ==
  /\ Room
  /\ FrameOpen
  /\ v # 0
  /\ journal' = TransferBalance(journal, from, to, v)
  /\ OnlyJournal

BalanceIncr(a, v) ==
  /\ Room
  /\ journal' = IncrBalance(journal, a, v)
  /\ OnlyJournal

Selfdestruct(a, target) ==
  /\ Room
  /\ Running(a)
  /\ LET p == PayBeneficiary(journal, a, target)
     IN  doomed' = IF MayDestroy(p, a) /\ DestroyStatus(p, a) = "Global"
                     THEN Append(doomed, a) ELSE doomed
  /\ journal' = Destroy(journal, a, target)
  /\ UNCHANGED <<txid, warmList, logs, depth, checkpoints>>

\* Mutant: no check that the nonce can be incremented.
BumpNonceUnchecked(a) ==
  /\ Room
  /\ Loaded(a) /\ ~Gone(a)
  /\ LET n == journal.acct[a].nonce
     IN  journal' = Record(SetNonce(journal, a, n + 1),
                           [kind |-> "NonceChange", addr |-> a, nonce |-> n])
  /\ OnlyJournal

\* executeCreate increments the creator's nonce before the new checkpoint.  The creator is
\* the sender or runs: nobody has the key of an address that was a contract.
BumpNonce(a) ==
  /\ Room
  /\ Loaded(a) /\ ~Gone(a)
  /\ journal.acct[a].nonce < MaxNonce
  /\ LET n == journal.acct[a].nonce
     IN  journal' = Record(SetNonce(journal, a, n + 1),
                           [kind |-> "NonceChange", addr |-> a, nonce |-> n])
  /\ OnlyJournal

Enter(created) ==
  /\ checkpoints' = Append(checkpoints,
        [logI |-> Len(logs), journalI |-> Len(journal.entries),
         doomedI |-> Len(doomed), created |-> created])
  /\ depth' = depth + 1

\* Before SPURIOUS_DRAGON there is no CREATE2, and no caller derives an address twice.
\* A collision leaves the journal as it was, and so does an overflow, but for
\* the touch of Precompile3 that Undo skips.
CreateAccountCheckpoint(caller, a, v) ==
  /\ Room
  /\ Len(checkpoints) < MaxDepth
  /\ caller # a /\ Loaded(caller) /\ Loaded(a)
  /\ v <= journal.acct[caller].bal
  /\ SpuriousDragon \/ ~Has(journal, a, "Created")
  /\ ~Collides(journal, a)
  /\ LET made == NewAccount(journal, a)
     IN  IF made.acct[a].bal + v > MaxBalance
           THEN /\ journal' = RevertTo(made, Len(journal.entries))
                /\ UNCHANGED <<depth, checkpoints>>
           ELSE /\ journal' = Endow(made, caller, a, v)
                /\ Enter(a)
  /\ UNCHANGED <<txid, warmList, logs, doomed>>

Checkpt ==
  /\ Len(checkpoints) < MaxDepth
  /\ Enter(None)
  /\ UNCHANGED <<journal, txid, warmList, logs, doomed>>

\* Mutant: the depth is not counted down.
LeaveDepth ==
  /\ checkpoints' = Pop
  /\ UNCHANGED depth

Leave ==
  /\ checkpoints' = Pop
  /\ depth' = IF depth > 0 THEN depth - 1 ELSE depth

CheckpointCommit ==
  /\ FrameOpen
  /\ Top.created = None
  /\ Leave
  /\ UNCHANGED <<journal, txid, warmList, logs, doomed>>

\* returnCreate on success: commit, clear the selfdestruct flags unless the initcode
\* itself halted with SELFDESTRUCT (byOpcode), store the code it returned.
FinishCreate(c, byOpcode) ==
  /\ FrameOpen
  /\ Top.created # None
  /\ byOpcode => c = NoCode /\ Has(journal, Top.created, "SelfDestructLocal")
  /\ LET a    == Top.created
         kept == IF byOpcode THEN journal
                   ELSE Unmark(journal, a, {"SelfDestructed", "SelfDestructLocal"})
     IN  journal' = IF c = NoCode THEN kept ELSE DeployCode(kept, a, c)
  /\ Leave
  /\ UNCHANGED <<txid, warmList, logs, doomed>>

\* Mutant: the local flag does not decide, the list does.
FinalizedByList(j) ==
  LET gone == {a \in Addr : \E i \in DOMAIN doomed : doomed[i] = a}
  IN  [j EXCEPT !.acct = [a \in Addr |->
                  IF a \in gone THEN Unmark(Wipe(j, a), a, {"SelfDestructLocal"}).acct[a]
                                ELSE j.acct[a]],
                !.slot = [a \in Addr |-> IF a \in gone THEN NoStorage ELSE j.slot[a]]]

CheckpointRevert ==
  /\ FrameOpen
  /\ journal' = RevertTo(journal, Top.journalI)
  /\ logs' = SubSeq(logs, 1, Top.logI)
  /\ doomed' = SubSeq(doomed, 1, Top.doomedI)
  /\ Leave
  /\ UNCHANGED <<txid, warmList>>

\* What CommitTx and DiscardTx both end with.
NextTx ==
  /\ ~FrameOpen
  /\ txid < MaxTx
  /\ txid' = txid + 1
  /\ warmList' = NoWarmList
  /\ logs' = <<>>
  /\ doomed' = <<>>
  /\ depth' = 0
  /\ UNCHANGED checkpoints

\* Mutant: the entries of the last transaction are kept.
NoTransientKeepsEntries(j) ==
  [j EXCEPT !.transient = [a \in Addr |-> [k \in Key |-> 0]]]

NoTransient(j) ==
  [j EXCEPT !.transient = [a \in Addr |-> [k \in Key |-> 0]], !.entries = <<>>]

\* Mutant: the flag that says "in this transaction" is not cleared.
FinalizedKeepsLocal(j) ==
  LET gone == {a \in Addr : /\ Has(j, a, "SelfDestructLocal")
                            /\ \E i \in DOMAIN doomed : doomed[i] = a}
  IN  [j EXCEPT !.acct = [a \in Addr |-> IF a \in gone THEN Wipe(j, a).acct[a]
                                                       ELSE j.acct[a]],
                !.slot = [a \in Addr |-> IF a \in gone THEN NoStorage ELSE j.slot[a]]]

Finalized(j) ==
  LET gone == {a \in Addr : /\ Has(j, a, "SelfDestructLocal")
                            /\ \E i \in DOMAIN doomed : doomed[i] = a}
  IN  [j EXCEPT !.acct = [a \in Addr |->
                  IF a \in gone THEN Unmark(Wipe(j, a), a, {"SelfDestructLocal"}).acct[a]
                                ELSE j.acct[a]],
                !.slot = [a \in Addr |-> IF a \in gone THEN NoStorage ELSE j.slot[a]]]

CommitTx ==
  /\ NextTx
  /\ journal' = NoTransient(Finalized(journal))

DiscardTx ==
  /\ NextTx
  /\ journal' = NoTransient(RevertTo(journal, 0))

FrameSteps == Checkpt \/ CheckpointCommit \/ CheckpointRevert

TxSteps ==
  \/ \E l \in AccessLists : WarmAccessList(l)
  \/ CommitTx
  \/ DiscardTx

AccountSteps ==
  \E a \in Addr : LoadAccount(a) \/ Touch(a) \/ AppendLog(a) \/ BumpNonce(a)

StorageSteps ==
  \E a \in Addr, k \in Key :
    \/ SLoad(a, k)
    \/ \E v \in Value : SStore(a, k, v) \/ TStore(a, k, v)

BalanceSteps ==
  \E a \in Addr, v \in Amount :
    \/ BalanceIncr(a, v)
    \/ \E b \in Addr : Transfer(a, b, v)

LifecycleSteps ==
  \/ \E a, b \in Addr : Selfdestruct(a, b)
  \/ \E a, b \in Addr, v \in Amount : CreateAccountCheckpoint(a, b, v)
  \/ \E c \in Code, byOpcode \in BOOLEAN : FinishCreate(c, byOpcode)

Next ==
  \/ FrameSteps \/ TxSteps
  \/ AccountSteps \/ StorageSteps \/ BalanceSteps \/ LifecycleSteps

Spec == Init /\ [][Next]_vars
=============================================================================
