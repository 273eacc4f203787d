# A verification project for gevm

gevm is an Ethereum Virtual Machine in Go: given a block environment, a
transaction and a database it computes the new state, the logs, the gas and the
refund. This directory holds TLA+ modules translated from its source, TLC
configurations that check them on small instances, and TLAPS proofs of what
matters most for every value of the constants. `PROJECT.json` maps every
definition to the source lines it stands for and lists runs, mutants, hazards,
findings and theorems.

## The system

gevm is one goroutine per `Evm`. Nothing waits, nothing is sent: what makes it
hard is not concurrency but *undo* and *deferral*. A transaction is a tree of
frames, each of which can fail at any point and must leave no trace except the
gas it used; flags, caches, pools and lists that summarise the state must follow
every undo; and costs are charged late, or in another order than they are
defined, for speed.

| component | state | operations | calls |
|---|---|---|---|
| `state.Journal` | accounts with status flags, slots with original and present value, transient storage, logs, undo entries, warm sets, list of destroyed addresses, depth, transaction id | load, touch, transfer, credit, nonce, code, SLOAD, SSTORE, TLOAD, TSTORE, log, create, selfdestruct; checkpoint, commit, revert; end and discard of a transaction | `Database` |
| `vm` runners and instructions | program counter, stack, memory, gas, halt result, pending action; a local gas counter | one case per opcode, `Halt`, `SetAction` | `Host`, `Journal` |
| `host.Handler` | hooks, precompiles; one Go stack frame per EVM frame | `ExecuteFrame`, call, create, precompile, return to the parent | runner, journal |
| `host.Evm` | block, transaction, journal, pools | validation, gas purchase, access list, EIP-7702 list, execution, refund, reward | handler, journal |
| `vm.Memory` | one buffer, a checkpoint per context | child context, free, resize | gas |
| `vm.Gas` | limit, remaining, refund, memory words | charge, give back, refund, final refund | |
| `vm.Bytecode`, jump table cache | padded code, jump bitmap, shared cache by code hash | reset, borrow a table, analyse | |
| pools, return data arena | recycled interpreters, memories, buffers | acquire, release, reset | |
| `spec` | gas table per fork | SSTORE cost and refund, memory cost, intrinsic gas | |

How they interact: `Evm.transact` warms addresses, buys gas and calls
`Handler.ExecuteFrame`, which takes a journal checkpoint, moves the value, runs
the interpreter and commits or reverts. The runner loop returns with a result or
with a *pending action*; `runInterpreterLoop` then executes the sub-frame
recursively and runs the same interpreter again. Instructions change the state
only through the journal. At the end `CommitTx` applies the destructions and
starts the next transaction.

What makes each part correct:

* **Journal** - reverting a frame restores everything the frame did, in any
  nesting of commits and reverts; what is cold, original, created or doomed "in this
  transaction" means just that.
* **Runner** - paying gas late is invisible.
* **Handler** - one open checkpoint per running frame on every path; static
  frames never write; gas is never created; a failed creation leaves only the
  creator's nonce; return data is that of the last sub-frame; hooks are paired.
* **Evm** - ether is neither made nor lost; gas bought is used, refunded or given
  back, never more; a rejected transaction changes nothing; no nonce is used twice.
* **Memory** - contexts are disjoint, and a child gives back what it took.
* **Bytecode** - a borrowed jump table is that of the code that runs.
* **Pools and caches** - what is recycled or cached never shows what its last user
  left there.
* **Gas** - no wrap-around; the final refund is capped and was earned.
* **spec** - what a slot costs in the end depends on its first and last value only.

## Modules

| module | what it is |
|---|---|
| `Journal` | the undo log of `state.Journal` and what handler and EVM do with it around a frame; one action per method |
| `WorldState` | what the journal promises: a stack of snapshots, no entries |
| `JournalRefinement` | the mapping from `Journal` to `WorldState`, and the safety properties |
| `JournalProofs` | proofs about `Journal`, in three parts: types and nesting of the checkpoints; how the undo log reverts (`Keeps`, `Reverts`); each method may be reverted and keeps the journal sound (`Sound`, `Leads`), the inductive invariant `Good`, and the safety theorems |
| `JournalWorldProofs` | the journal implements `WorldState`, step by step |
| `MCJournal` | addresses and a database for TLC; shadow variables for the mapping |
| `Opcodes` | what the instructions do to gas, program counter and stack height |
| `Metered` | what the loop promises: every instruction pays before it acts; this is `TracingRunner.Run` |
| `Runner` | `DefaultRunner.Run` with its gas counter, and the mapping to `Metered` |
| `Tracer` | `TracingRunner.Run` with its `OnFault` hook |
| `RunnerProofs` | proofs about `Runner` |
| `MCOpcodes`, `MCRunner`, `MCTracer` | costs and programs for TLC |
| `Frames` | `host.Handler` and the instructions that open and close frames: a transaction as a stack of frames over an abstract journal |
| `FramesProofs` | proofs about `Frames` |
| `SumProofs` | sums over finite sets, and how they change with one element |
| `MCFrames` | four addresses and a world for TLC |
| `GasMeter` | `vm.Gas`: limit, remaining, signed refund; the final refund |
| `StorageGas` | the forks, and what SSTORE costs and refunds in each |
| `Transaction` | `Evm.transact` and `SystemCall`, from validation to reward; extends the two above |
| `TransactionProofs` | proofs about `Transaction` |
| `MCTransaction` | families of transactions, forks and a world for TLC |
| `Memory` | `vm.Memory`: slices of arrays made explicit |
| `Bytecode` | `vm.Bytecode`: a recycled object and its jump table |
| `Resources` | frames that borrow memory contexts, bytecode objects, jump tables and buffers; extends the two above |
| `ResourcesProofs` | proofs about `Resources`, `Memory` and `Bytecode` |
| `JournalCache` | where the journal's accounts and slots live: arenas, account cache, slot cache |
| `JournalCacheProofs` | proofs about `JournalCache` |
| `MCResources` | four scenarios for TLC, three of `Resources` and one of `JournalCache`, which it extends |

### Journal

The variable `journal` is what an undo changes of the Go struct: `acct` (balance, nonce, code,
status flags, transaction id), `slot` (present, original, transaction id), transient storage and
entries; `logs`, `warmList`, the destroyed list `doomed`, `depth` and `txid` are its other fields,
and `checkpoints` is the stack of checkpoints the handler holds in its Go frames. An account or a
slot that the maps do not hold has `loaded = FALSE`; numbers are bounded by `MaxBalance` and
`MaxNonce`, where the code's overflow checks bite.

An action is a whole call of the handler or of an instruction: `Transfer` loads both
accounts, checks funds and overflow, writes both balances and appends the entry;
`Checkpt`, `CheckpointCommit` and `CheckpointRevert` open and close a frame; creation is the
sequence of `executeCreate` and `returnCreate` - `BumpNonce`, load, `CreateAccountCheckpoint`
(flags, touch, value), then `FinishCreate` with the code deposit or a revert. The undo is the loop
over the entries from the last to the checkpoint, with one operator per entry kind. `CommitTx`
includes `finalizeTxSelfdestructs`; `DiscardTx` undoes the transaction. `BumpNonce` is not for an
account that an earlier transaction deleted: who creates is the sender or runs, and both were
touched, or paid for gas, before.

`WorldState` keeps the state as the yellow paper sees it - balances, nonces, codes,
storage with the value at the start of the transaction, warm sets, logs, who was
created and who is doomed - and a stack of copies of it. Leaving a frame drops the
top copy, aborting goes back to it. `JournalRefinement!ImplementsWorld` says that the
journal, seen through the mapping `Now`, `Snapshots`, is that machine: not only that a
revert restores the state, but that flags such as `CreatedLocal`, `SelfDestructedLocal`
and the transaction ids encode it exactly at every step. The mapping computes a
world per open frame, by reverting to its checkpoint. Where TLC would take too long to do
so for each action it tries, the shadow variables `world` and `stack` of `MCJournal` hold the
mapped state, and the run checks `MappedImplementsWorld`, the same property of these variables.

### Runner

`frame` is the interpreter (program counter, gas, stack height, status, and three
observations: the gas the program last read, the host calls that changed the
journal, the gas lent to a sub-frame), `gasCounter` the local of `Run`. Which opcodes
accumulate and which flush is the table of `vm/gen/main.go`; one instruction stands
for each family. `Accumulate` is a case of `modeAccumulate`: add, run the body, and on a
halt flush first. `FlushAndRun` is a case of `modeFlush`. `Resume` is
`runInterpreterLoop` after the sub-frame, whose remaining gas is any amount up to what
was lent. Stack values, and so jump targets and dynamic costs, are arbitrary.

`Settled` maps the fast loop to the exact one: the frame with the counter paid, out of
gas if it cannot be. DESIGN.md says the two loops "stay in sync from a single
source of truth"; `ImplementsMetering` is that claim. Between two flushes the fast
loop may go on with gas that is not there, so one step of it may be no step of
the exact loop: that is why the refinement has stutters and why only harmless
instructions may accumulate.

### Frames

`frames` is the Go recursion of `executeCall`, `executeCreate` and `runInterpreterLoop` made
explicit: depth `d` of the code is `frames[d + 1]`. A frame keeps what its instructions and
its way back use: kind, address, caller, value, static flag, gas, refund, the return data
buffer and what the last sub-frame pushed. `world` and `checkpoints` are the journal as
`WorldState` has it - a state and a stack of copies - reduced to balances, nonces, one slot per account and who has code.
`hooks` holds the depths whose `OnEnter` has no `OnExit` yet; `outcome` is what `transact`
receives.

The handler's functions call each other, so they are operators from a state (the record
`Machine`) to the set of states they may end in, in the order of the code; an action
applies one to the current state. `ExecuteCall` and `ExecuteCreate` either open a
frame or `Deliver` an outcome to the parent at once (too deep, no funds, nonce at its limit, collision,
precompile, no code, database error). `Finish` is what follows a halt:
`InterpreterResultFromHalt`, commit or revert, `returnCreate`, `OnExit`, and the way back. What a program does is
arbitrary: any frame may call, create, store, destroy itself, return, revert or fail
at any time. An output is not bytes but where it comes from: the frame itself
("Own"), its last sub-frame ("Child"), or further away ("Older", which must not happen).
`DBErrors` names the accesses to the database that may fail.

`Frontier` chooses between the two ends of the fork list, so that the fork gates of
creation, gas and SSTORE are all on or all off. The refund kept is that for clearing a slot; the others
belong to `StorageGas`.

### Transaction

`phase` says where `transact` stands. `Begin` is everything up to the purchase of gas: the
checks of the transaction alone, the load of the caller, its code, nonce and funds, and the
charge; a failure goes to `done` with `haltResult`. `Authorise` is one turn of
`applyEIP7702AuthList`, `Call` and `Create` open the frame at depth 0 or end it at once,
`Step` is an instruction (SSTORE with the gas table of the fork, or any other), `Halt` ends
the frame, `Settle` is the last part: refund, calldata floor, reimbursement, reward. `SystemCall`
and `SystemDone` are the other entry point. `NextTx` is what a block processor does in between.

`world` is the accounts as the journal holds them, one slot each. Execution is a
single frame, since what sub-frames do is the subject of `Frames` and what an undo does that of
`Journal`; the frame keeps the world it would go back to. 256-bit arithmetic wraps at `Word`,
and each comparison is made where the code makes it, before or after the wrap. The gas table
is that of the source, number by number, so the amounts in the configuration are real amounts.
`before`, `used` and the frame's `stored` are history: the world at the start, the
nonces consumed, and what the writes to storage have cost.

### Memory, Bytecode, Resources

Go shares memory without saying so: a slice survives the growth of the buffer it was cut
from, a recycled buffer keeps old bytes, a jump table belongs to whoever was given it.
`Memory` makes the arrays explicit: `heap` holds every array ever allocated, the buffer is the
first `len` cells of one of them, and a slice keeps reading its own. `Bytecode` does the
same for jump tables, and remembers of which code each was computed. `Resources` runs frames on
them: calls open a context and take a bytecode object from the pool, return and log data go
to recycled buffers, the caches hand out tables, `ReleaseEvm` begins the next
transaction with everything as it was left. Beside each slice that someone holds stands what it
ought to contain, and the invariants compare the two. A cell is a word, a program is any
sequence of operations.

### JournalCache

Accounts are numbers, their storage maps are numbers, slots are numbers in the order of the slot
arena; 0 is nil. `state`, `storage` and `maps` are the Go maps, `slab` and `idx` the account arena,
`cachedAcc` and `slotCache` the pointers that bypass the maps. An arena that grows copies its
accounts to a new slab and leaves the old ones to those who point to them. What nothing points
to is forgotten and its number may come again, as a collected address may. A method that allocates
takes any numbers that nothing points to (`FreeObjects`, `FreeMaps`); `CacheOK`, an assumption on
the constants, says that there are enough of them. The conditions under which an account is
revived or deleted are those of `Journal`, reduced to the list of destroyed addresses and their
flag.

## What the runs check

| run | shows | bounds |
|---|---|---|
| `state` | types; checkpoints nest; the original value of a slot is the one at the start of the transaction; the touch of address 3 survives reverts; the journal is `WorldState`, for SSTORE, TSTORE, SLOAD, logs and warm slots in one scenario, for transfers, credits, touches and nonces in the other | one contract with one slot, values 0-2, or a sender and precompile 3; two nested frames, two transactions, 3 entries besides warmings |
| `lifecycle_cancun` | a cold account is clean; doomed accounts are listed; deleted accounts are empty; only accounts created in the transaction are doomed (EIP-6780); no entry refers to a missing account; refinement | sender and a funded fresh address, 4 entries, two transactions |
| `lifecycle_frontier` | refinement, and no step changes what enclosing frames would revert to, with the rules before SPURIOUS_DRAGON and CANCUN | as above |
| `transfer_overflow` | (violated, see Findings) | balances up to 2 |
| `runner` | types; the fast loop is the exact loop; every program halts | every program of 4 instructions out of 13, gas 2-8, stack limit 2 |
| `tracer_fault` | (violated, see Findings) | programs of 3 instructions |
| `frames` | types; checkpoints and hooks are paired; nothing below a STATICCALL writes; refunds match cleared slots; return data is fresh; gas is never created; a failure leaves no trace; who runs with a value has received it; transactions end | three nested frames, sender, contract with one nonce left, precompile, address to create; gas 6; five kinds of database failure |
| `frames_frontier` | with the rules of FRONTIER: a failure leaves no trace; a creation that succeeds has paid its deposit exactly if it has code | as above, gas 7, a deposit of 2 so that an unpaid one leaves gas behind, no database failure |
| `frames_transfer` | (violated, see Findings) | the database may fail in `Transfer` |
| `transaction` | types; ether is accounted for to the last wei; a rejected transaction changes nothing; no nonce is consumed twice; storage is paid net; the refund was earned; gas used is within its bounds; the value can be paid | calls, creations, blobs, EIP-7702 lists and calldata (27 transactions) in seven forks from HOMESTEAD to OSAKA, two in a row, three instructions each, four kinds of database failure |
| `price_overflow` | (violated, see Findings) | a word of 100000 |
| `resources` | memory of frames is private and zero where not written; an input reads the same as long as the callee runs; the jump table is that of the running code; return data, logs and results keep their contents; the journal's caches point where its maps point | three frames, two words, two transactions, two codes of different length, five arrays; for the caches two addresses, three keys, five account objects and six maps that are used again and again, one destruction per transaction, three slots in use, any number of transactions and of users of the journal |

`MaxEntries` counts the entries that are not warmings; those are bounded by the
addresses and keys. The bounds were raised until the mutants that need most -
entries kept after a commit, a revival without an entry, storage wiped twice -
were reachable: a transaction that creates, writes, destroys and commits, followed by
a second one that uses the address again. Passing runs keep `MaxBalance` above
what can be minted in the bound, and overflow has its own run. Addresses play
different roles, so there is no symmetry to use but in `resources`, where the keys of slots are
interchangeable: those that nothing remembers come in order (`KeysInOrder`). The runs may stop (counters at their bound, all transactions done), and a
halted program stops: hence `CHECK_DEADLOCK FALSE`.

In `runner`, costs are 0, 1 and 2 and the stack holds two values, so every program
meets underflow, overflow and out-of-gas at every point; loops need three
instructions.

In `frames`, `CallStackLimit` is 2: the transaction, a static call and a call that must
inherit the flag are three frames, and a fourth is refused. Gas 6 lets the third frame
still pass the SSTORE sentry; costs keep the order that matters (the stipend is
more than a call costs and less than a transfer). Values are 0 and 1, the smallest for which a
balance may not suffice. The reduction is 1/4 in place of 1/64.

In `transaction`, the families are chosen so that every check of the code fails for one of them
and passes for another: a nonce that is not next, a tip that the fee cap cuts,
calldata whose floor exceeds what was spent, one blob and two, a creation that
collides or has no code, authorisations that are repeated, foreign, forged, or by the caller
itself. The beneficiary is the sender or somebody else. Three instructions are enough to write a
slot, write it back and run out of gas. Since the amounts are real, `Word` is just
large enough for the fees. In `price_overflow` it is not.

In `resources`, three frames are a caller, a callee and a callee of that: an array that is
recycled one level too early is seen by the third. Two transactions meet what the first
one left in the pools. The caches see every order of loads, writes, destructions, reverts and
commits; three keys are one more than the slot cache holds, and a slab of one
account must grow at the second.

**Fairness.** The journal has no liveness: it is driven by its caller. `Runner` has
weak fairness of `Next`, because `Run` is a sequential loop that never waits, and a
sub-frame ends for the same reason, one level down, with less gas. `Terminates` then rests on two facts of
the code: every jump flushes, and `Stipend < TransferCost`, so a call never returns
more than it took. `Frames` has weak fairness of `Next` for the same reason; there,
`Terminates` rests on gas: every step that opens or keeps a frame costs some.

Each property has a mutant in `PROJECT.json`: a plausible bug in a mapped definition
that TLC must catch with that property under the same configuration. The mutated
operators stand in the modules before the definitions they replace, marked
"Mutant".

## What is proved

`JournalProofs` (any addresses, keys, balances, number of frames, transactions
and entries, from `ConstantsOK`):

* `TypeCorrect`: `Spec => []TypeOK`.
* `CheckpointsAlwaysNested`: `Spec => []CheckpointsNested`: the indexes held by the
  open frames are increasing and within the entries, the logs and the destroyed list,
  and `Depth` counts the frames.

The invariant `TypeOK /\ CheckpointsNested` is inductive; neither half is alone,
since a revert reads entries up to an index (types need nesting) and
nesting needs the entries to be a sequence. The undo loop is a fold: `UnwoundType`
shows by induction over its length that it preserves types, from the well-foundedness
of `<` on the naturals. Every other method is shown to add entries at the end only
(`Grown`), which is all nesting needs.

The other two parts of `JournalProofs` (the same constants):

* `EntriesAlwaysRevertible`, `ColdAlwaysClean`, `OnlyCreatedAlwaysDoomed`, `DoomedAlwaysListed`,
  `OriginalAlwaysTxStart`: `Spec => []P` for the invariants the runs check.
* `RipemdTouchAlwaysSurvives`: `Spec => RipemdTouchSurvives`.
* `GoneAlwaysEmpty`: `Spec /\ []SupplyFits => []GoneIsEmpty`.
* `AlwaysReversesAll`: `Spec /\ []SupplyFits => RevertReversesAll`: inside a frame, no step changes
  the world that reverting an enclosing frame would restore.

Undoing the log is not an inverse: an account that was loaded stays in the map, cold, and keeps
flags nobody reads; the touch of address 3 stays. `Keeps(B, j, k)` says what is the same in two
journals: everything the EVM observes, with `k` perhaps holding more in its maps. Undoing the same
entry in two such journals leaves two such journals (`KeepsUndo`), so `Keeps` passes through any
number of reverts (`KeepsRevert`). `Reverts(B, j, k)` - the log of `k` extends that of `j`, and
undoing it to any point of `j` gives what `j` would have given - then composes, and each method
needs one of two reasons: what it changed is not observable (`StepUnrecorded`), or undoing the entry
it made gives back the journal it started from (`StepRecorded`).

The invariant `Good(B)` says of the journal, of the journal each open frame would revert to,
and of the one at the start of the transaction, that it is `Sound`: flags agree with each other and
with the transaction id, deleted accounts are empty, what a frame creates is created in this
transaction, whoever is doomed is listed. None of the safety properties is inductive alone, nor
would all of them be without the states the frames would revert to: a revert must land in
a state known to be sound. A method preserves all of these at once, since `Reverts` says that
they stay what they were. One case is special: a creation that succeeds drops the marks of
self-destruction without an entry, so its journal no longer reverts to what it did at every point;
but the first destruction happened in the frame itself, and undoing that entry makes the difference
vanish (`AlikeRevert`), which `FramesGood` keeps track of.

`B` says whether balances count. With `B = FALSE` the invariant holds of every behaviour. With
`B = TRUE` it needs `SupplyFits`: no two balances add up to more than 2^256 - 1. That is an
assumption about the chain, not about the code: all ether there is, counted in wei, is below
2^97. The run `transfer_overflow` shows what happens without it, and the theorem that nothing else
can.

`JournalWorldProofs` (the same constants):

* `JournalImplementsWorld`: `Spec /\ []SupplyFits => ImplementsWorld`: the undo log implements the
  stack of snapshots.

A journal and a world are compared by one predicate, `Shows(w, j, l)`, account by account and slot
by slot; exactly one world shows a journal with its logs (`WorldShows`, `ShownIsWorld`). The lemmas
`Shows...` say how the world changes when one account, one slot or one mark of the journal does,
and those of `JournalProofs` say which of them each method replaces: so each method has a lemma
`World...` with the world that shows its result. The snapshots exist in the mapping only,
as what the open frames would be reverted to. That they stay is `AlwaysReversesAll`, for
the bottom one too (`StageKept`); that a frame entered adds the present world is `Reverts` for the
step that enters it (`StageNew`). The overflow branch of `CreateAccountCheckpoint` is not
taken under `SupplyFits`: `WorldState` has no step for it either.

`RunnerProofs` (any program, gas table, limit, stack size, stipend and set of dynamic
costs, from `OpcodesOK` and `InputsOK`):

* `RunnerTypeCorrect`: `Spec => []TypeOK`: gas and counter never go below zero, and the
  counter is empty whenever `Run` has returned.
* `RunnerImplementsMetering`: `Spec => ImplementsMetering`. The heart is
  `AccumulatedCommutes`: an accumulating instruction does the same before and after
  a payment. Each action then has two cases: the gas has already run out (a
  stutter) or it has not (a turn of `TracingRunner`).

`FramesProofs` (any addresses, costs, call-stack limit, nonce limit, gas, start world and set
of failing accesses, both fork families, every program; from `FramesOK`):

* `FramesTypeCorrect`: `Spec => []TypeOK`: no nonce passes its limit, no balance and no gas goes
  below zero.
* `FramesAlwaysPaired`: `Spec => []FramesPaired`.
* `StaticFramesNeverWrite`: `Spec => []StaticNeverWrites`.
* `FramesOutputFresh`: `Spec => []OutputIsFresh`.
* `GasIsNeverCreated`: `Spec => GasNeverCreated`: no step makes the gas in the open frames grow.
* `FailuresAreUndone`: `Spec => FailureUndone`.
* `RefundsMatchClears`: after LONDON, `Spec => []RefundMatchesClears`. (FRONTIER refunds a slot
  each time it is cleared, so the property is not one of that fork.)
* `ValueIsDelivered`: if no `Journal.Transfer` fails, `Spec => ValueDelivered`. So the database
  error of `frames_transfer` is the only way to run with a value nobody paid.
* `DepositsBuyCode`: `Spec => DepositBuysCode`: a code deposit leaves the gas exactly if the account
  gets its code, in FRONTIER and after it.

The first four follow from one inductive invariant, `Sound`. It strengthens the properties by what
the code relies on without saying so: whatever runs above a static frame is static,
a creation never is, and only RETURN and REVERT, which have just set it, hand up the buffer
of a frame. The operators of `Frames` are functions on machines, so the proof follows the calls of the
handler: a checkpoint makes a sound machine `Opened`, a transfer between two accounts
keeps it so where nothing is static, and commit, revert, or a new frame make it sound
again; each `Op` has one lemma, each path of `executeCall` and `executeCreate` one case.

The other five are about what a step does, and share a second reading of the same functions.
Whatever path `executeCall` or `executeCreate` takes, the call is `Answered` at once or `Opens` a
frame; whatever a frame stops with, it `Ends`. What each of the three does to the gas of all frames, to
their refunds and to the world is one lemma, and each instruction then says what it pays
(`...Keeps`). That the stipend creates no gas rests on one assumption on the constants,
`Stipend < TransferCost` (2300 and 9000). The sum of refunds is no invariant by itself: a frame that fails
takes its refund with it and brings back the slots of its checkpoint. `Balanced` therefore says for each
checkpoint that the frames below it count what was clear then. The sums are those of
`SumProofs`, where the folds of the community modules are shown to exist and not to depend on
the order in which they take the elements.

`TransactionProofs` (any addresses, transactions, block environments with any fork that has a gas
table, word sizes, start world and failing accesses; from `TransactionOK` and `GasWordOK`):

* `TypeCorrect`, `RejectionLeavesNoTrace`, `StorageIsPaidNet`, `RefundIsEarned`,
  `UsedStaysWithinBounds`: `Spec => []P` for the invariants that the run checks.
* `FundsSuffice`: if maximum fees and value fit into a word, `SolventCaller` and
  `ValueAffordable` hold. So the wrap that `price_overflow` shows is the only way to be
  accepted without the funds.
* `NoncesAreUsedOnce`: if no transaction carries the largest nonce, no nonce is
  consumed twice.
* `EtherIsAccounted`: if all the ether of the start world fits into a word, and the maximum fees
  and value of each transaction do, `Spec => []EtherAccounted`. The wrapping
  arithmetic of the code then never wraps.

The first five follow from one inductive invariant, `Inv`. Its two additional parts are what
the code relies on: `GasInv` (the frame's gas is the limit less the intrinsic gas, and validation
made sure that the limit covers that and the floor) and `RefundInv` (the refund counter covers
what filling a cleared slot again would take back). The second is why `SetFinalRefund` may
cast the counter to an unsigned number. Two lemmas about the gas table carry it: `RefundCoversDue` and
`NetCost`, both proved for all forks and values. `NoncesAreUsedOnce` needs that each nonce
consumed is below the account's nonce in the world and in the world that a
failing frame goes back to. `EtherIsAccounted` has the same shape (`EtherInv`): while a transaction runs,
both worlds hold what there was before it, less the fee that was charged
(`Fee`), which the settlement splits into gas handed back, tip and what is burnt (`Shares`). That
a transfer moves and does not make ether is a sum with two terms replaced (`TotalMoved`), by
the lemmas of `SumProofs`.

`ResourcesProofs` (any codes and table lengths, any cells, initial capacity of the buffer and number
of words, frames, transactions and arrays; from `MemoryAssumption`, `BytecodeAssumption` and
`BoundsAssumption`):

* `MemoryIsPrivate`: `Spec => []ContextsPrivate`.
* `InputsAreStable`: `Spec => []InputStable`.
* `HeldDataIsStable`: `Spec => []HeldStable`.
* `TablesAreOfCode`: `Spec => []TableIsOfCode`.

The four follow from one inductive invariant, `ResourcesInv`, in two halves that share only the
frames. `MemoryInv`: the contexts follow one another in the buffer and a parent knows where its
child begins; a frame has paid for exactly the words it has; a buffer that is free is neither
memory nor the arena, and a slice that may still be read (`Lasting`) lies in neither. The four properties
alone do not say who may be handed an array next, and that is what the next step depends on.
`Changed` says what an operator of `Memory` may do to the others: nothing below the context's
checkpoint, nothing outside of the free buffers, and when the buffer moves, it moves to a new array
and leaves the old one to those who still read it. `Changed` composes, so each instruction is a chain of
such steps. `TableInv`: an object that may overwrite its table (`OwnTable`) shares it with no
object and no cache, every cached table is that of its hash, and no two frames run on one
object. `Keeps` says what an operator of `Bytecode` leaves alone, `Known` which tables the caches may come
to hold.

`JournalCacheProofs` (any addresses and keys, sizes of the first slab, numbers of accounts, slots and
destructions, and any identities that suffice; from `CacheOK`):

* `CachesAreValid`: `CacheSpec => []PointersValid`.

The invariant, `CacheInv`, says more of who owns what. `PointersValid` speaks of the accounts in the
map; the next load takes its object from the part of the slab that is not in use, with the map that an
earlier user of the journal left there. So `Owned` and `MapsOwned` say that this part is nobody's: no account
has its objects, none has their maps, and those maps are empty. `SlotsOwned` numbers the slots as the
arena hands them out: no map has one that is still to come. The caches then follow: a method
changes what is at an address only after it has cached it, but for `FinalizeTx` and
`ReleaseJournal`, which drop both. What nothing points to is empty (`CleanObjects`, `CleanMaps`), so
that a number that comes again brings nothing with it; that there is always one is a
count of what is reached (`ObjectsAreFree`, `MapsAreFree`).

Only model-checked: `Terminates` of `Runner` and of `Frames`, which is liveness and so out of the
prover's reach.

## Findings

* `transfer_overflow`: `TransferLoaded` debits the sender before it checks the receiver for
  overflow and returns without an entry, so the `CheckpointRevert` that follows does
  not restore the balance (`journal.go:898`), against the comment of
  `CheckpointRevert` (`journal.go:289`). It needs balances that add up to 2^256.
* `tracer_fault`: when the static gas of an instruction is missing, `TracingRunner.Run`
  returns before the check that calls `OnFault`, against the comment in the generator
  (`gen/main.go:647`).
* `frames_transfer`: `Transfer` returns a nil `TransferError` when the database fails, and
  `executeCall` drops the error next to it (`handler.go:79`): the callee runs with a
  CALLVALUE nobody paid, against the comment of `Transfer` (`journal.go:860`). One failed
  load is enough; the next load of the same account may succeed.
* `price_overflow`: `transact` tests `gasPrice * gasLimit` for overflow by comparing the wrapped
  product with the price (`evm.go:390`). A product that wraps to something larger passes, and
  the balance is compared with the wrapped cost, against the comment at `evm.go:377`. It takes a
  price near 2^192 and more.

Seen while reading and not filed:

* `NewGasParams` has no table for Amsterdam, a fork that `ForkIDFromString` accepts
  (`gas_params.go:67`, `spec.go:30`).
* A call that carries nonce 2^64-1 wraps the nonce to 0; a creation does not.
* DESIGN.md says that the slot cache keeps the two most recent slots; `cacheSlot` always evicts the
  second entry.
* `PutAccount` does not drop the slot cache; nothing calls it.
* `opSload` drops the database's error; a failed load of code is empty code.
* `opJump` converts its target to a Go `int`.
* `ClearSelfdestruct` after a successful creation also spares a contract whose own initcode
  destroyed it.
* BLOCKHASH accumulates, so the fast loop can ask the database for a hash it has no gas for
  (a read, without trace).

See "hazards" in `PROJECT.json`.

## What is not modelled, and the plan

Within the modelled parts: the hooks of a transaction and the recovery of signatures
(`evm.go`), the warm addresses as part of `Transaction` (`Journal` has them), more than
one slot and sub-frames under the gas table (`Frames` has the sub-frames, with the refund for
clearing only), the stack and the arithmetic instructions, the read-only operations of the state and
their readers (`inst_environment.go`), offsets of memory near 2^64 and the widths of Go integers
other than the signed refund.

What would come next: the precompiles' gas formulas and their input checks against the EIPs, as pure
functions; the stack of `vm.Stack` and its pool; a composition of `Transaction` with `Frames`, so that the
refund of a tree of frames meets the final refund.

Left out for good: cryptographic precompiles and arithmetic instructions (functions of
their operands, tested against the official vectors), the debug gas table, the
command line tools, and the test runners except for the calls only they make
(`DiscardTx`, block rewards), which are in `Journal`.
