----------------------------- MODULE MCJournal -----------------------------
(***************************************************************************)
(* Small instances of the journal for TLC, one per group of operations.    *)
(***************************************************************************)
EXTENDS JournalRefinement

CONSTANTS caller, contract, unused, fresh, code

VARIABLES
  world, stack,   \* Now and Snapshots, computed once per step
  scenario        \* the group of operations a behaviour uses

\* An externally owned sender, a contract with code and storage, an address that
\* was never used, an address that was sent ether before its contract is created.
MCDBInfo ==
  [a \in Addr |->
     [exists |-> a # unused, bal |-> IF a = unused THEN 0 ELSE 1,
      nonce |-> IF a \in {unused, fresh} THEN 0 ELSE 1,
      code |-> IF a = contract THEN code ELSE NoCode]]

MCDBStorage == [a \in Addr |-> [k \in Key |-> IF a = contract THEN 1 ELSE 0]]

Listed == {contract, unused} \cap Addr

MCAccessLists == {[addrs |-> Listed, slots |-> Listed \X {CHOOSE k \in Key : TRUE}]}

MCInit(scenarios) ==
  Init /\ world = Now /\ stack = Snapshots /\ scenario \in scenarios
Mapped == world' = Now' /\ stack' = Snapshots' /\ UNCHANGED scenario
mcvars == <<vars, world, stack, scenario>>

\* Storage and transient storage of a contract over two transactions.
StorageNext ==
  /\ scenario = "storage"
  /\ \/ FrameSteps \/ TxSteps
     \/ \E k \in Key :
          \/ SLoad(contract, k)
          \/ \E v \in Value : SStore(contract, k, v) \/ TStore(contract, k, v)
     \/ LoadAccount(contract) \/ AppendLog(contract)
  /\ Mapped

\* Value transfers and touches between accounts without code; one entry less
\* than MaxEntries, because a transfer touches both of its accounts.
Plain == Addr \ {contract}
LowRoom ==
  Cardinality({i \in DOMAIN journal.entries :
                 journal.entries[i].kind \notin
                   {"AccountWarmed", "StorageWarmed"}}) + 1 < MaxEntries
BalanceNext ==
  /\ scenario = "balance"
  /\ \/ FrameSteps \/ TxSteps
     \/ LowRoom /\ \E a \in Plain : LoadAccount(a) \/ Touch(a) \/ BumpNonce(a)
     \/ LowRoom /\ \E a \in Plain, v \in Amount :
          BalanceIncr(a, v) \/ \E b \in Plain : Transfer(a, b, v)
  /\ Mapped

StateSpec ==
  MCInit({"storage", "balance"}) /\ [][StorageNext \/ BalanceNext]_mcvars
BalanceSpec == MCInit({"balance"}) /\ [][BalanceNext]_mcvars

\* Creation and destruction of one address, with its storage.
LifecycleNext ==
  \/ FrameSteps \/ LifecycleSteps
  \/ \E k \in Key, v \in Value : SStore(fresh, k, v)
  \/ \E a \in Addr : LoadAccount(a)
  \/ Touch(fresh)
  \/ CommitTx \/ DiscardTx
LifecycleSpec ==
  MCInit({"lifecycle"}) /\ [][LifecycleNext /\ UNCHANGED <<world, stack, scenario>>]_mcvars
MappedLifecycleSpec == MCInit({"lifecycle"}) /\ [][LifecycleNext /\ Mapped]_mcvars

\* ImplementsWorld (JournalRefinement), of the variables that hold the mapped state.
Shadow == INSTANCE WorldState WITH AlwaysWarm <- Precompiles

MappedImplementsWorld == Shadow!Spec
=============================================================================
