------------------------------- MODULE Frames -------------------------------
(***************************************************************************)
(* host.Handler (src/host/handler.go) and the instructions that open and   *)
(* close frames (src/vm/inst_contract.go, inst_control.go): one transaction *)
(* as a tree of calls and creations, with gas, return data, refunds, hooks  *)
(* and database errors.                                                     *)
(*                                                                          *)
(* The Go stack of executeCall, executeCreate and runInterpreterLoop is the *)
(* sequence frames; depth d is frames[d + 1].  What the programs do is       *)
(* arbitrary.  The journal is what Journal.tla is shown to implement: a      *)
(* world and a stack of copies of it, one per open checkpoint.  Balances     *)
(* never add up to 2^256 here, and warmth and touches are left to Journal.   *)
(* An access to the database that fails is named by bad.                    *)
(***************************************************************************)
EXTENDS Integers, FiniteSets, SequencesExt

CONSTANTS
  Addr, Precompile,
  New,            \* what CreateAddress and Create2Address may yield
  CallStackLimit, \* 1024
  MaxNonce,       \* 2^64 - 1
  Amount,         \* the values a call may carry
  Asked,          \* the gas limits a call may ask for
  OpCost, CallCost, TransferCost, Stipend, CreateCost, DepositCost,
  Reduction,      \* 64
  Sender, GasLimit, Start, \* the transaction, and the world before it
  Frontier,       \* BOOLEAN: the fork is FRONTIER; if not, LONDON or later
  DBErrors        \* the accesses that may fail

Access == {"Transfer", "Touch", "Code", "Caller", "Created", "Beneficiary"}

VARIABLES
  world,        \* balances, nonces, a slot per account, who has code
  checkpoints,  \* Journal: the world at each open checkpoint
  frames,       \* the frames that run, innermost last
  hooks,        \* depths of OnEnter calls whose OnExit has not come
  outcome       \* the FrameResult transact gets; result "None" before

vars == <<world, checkpoints, frames, hooks, outcome>>

World == [bal : [Addr -> Nat], nonce : [Addr -> 0 .. MaxNonce], slot : [Addr -> {0, 1}],
          code : [Addr -> BOOLEAN]]

ASSUME FramesOK ==
  /\ IsFiniteSet(Addr) /\ Precompile \subseteq Addr /\ New \subseteq Addr
  /\ Sender \in Addr \ New /\ Start \in World
  /\ CallStackLimit \in Nat /\ MaxNonce \in Nat \ {0} /\ GasLimit \in Nat
  /\ Amount \subseteq Nat /\ Asked \subseteq Nat
  /\ OpCost \in Nat \ {0} /\ CallCost \in Nat \ {0} /\ CreateCost \in Nat \ {0}
  /\ DepositCost \in Nat /\ Stipend \in Nat /\ TransferCost \in Nat /\ Stipend < TransferCost
  /\ Reduction \in Nat \ {0} /\ Frontier \in BOOLEAN /\ DBErrors \subseteq Access

OkResult == {"Stop", "Return", "SelfDestruct"}
RevertResult == {"Revert", "CallTooDeep", "OutOfFunds"}
Failure == {"Error", "OutOfGas", "StaticViolation", "PrecompileError", "CreateCollision",
            "CodeRefused", "FatalExternalError"}
Result == OkResult \cup RevertResult \cup Failure

\* Where a piece of return data comes from, seen from the frame that holds it.
Data == {"None", "Own", "Child", "Older"}

Frame == [kind : {"Call", "Create"}, self : Addr, caller : Addr, value : Nat,
          static : BOOLEAN, gas : Nat, refund : Int, data : Data, ok : BOOLEAN]

\* CallOutcome and CreateOutcome; made is a non-nil address.
Outcome == [kind : {"Call", "Create"}, result : Result \cup {"None"}, gas : Nat,
            refund : Int, data : Data, made : BOOLEAN]

\* All of it as one value, for the functions of the handler that call each other.
Machine == [world |-> world, checkpoints |-> checkpoints, frames |-> frames,
            hooks |-> hooks, outcome |-> outcome]

Become(m) ==
  /\ world' = m.world /\ checkpoints' = m.checkpoints /\ frames' = m.frames
  /\ hooks' = m.hooks /\ outcome' = m.outcome

-----------------------------------------------------------------------------
(***************************************************************************)
(* The journal and the hooks.                                              *)
(***************************************************************************)
Checkpoint(m) == [m EXCEPT !.checkpoints = Append(@, m.world)]
CheckpointCommit(m) == [m EXCEPT !.checkpoints = Front(@)]
CheckpointRevert(m) ==
  [m EXCEPT !.world = Last(m.checkpoints), !.checkpoints = Front(@)]

\* Mutant: a REVERT keeps what it reverts.
CloseKeepsReverted(m, result) ==
  IF result \in OkResult \cup RevertResult THEN CheckpointCommit(m) ELSE CheckpointRevert(m)

Close(m, result) == IF result \in OkResult THEN CheckpointCommit(m) ELSE CheckpointRevert(m)

OnEnter(m) == [m EXCEPT !.hooks = Append(@, Len(m.frames))]
OnExit(m) == [m EXCEPT !.hooks = Front(@)]

Moved(w, from, to, v) ==
  LET paid == [w.bal EXCEPT ![from] = @ - v]
  IN  [w EXCEPT !.bal = [paid EXCEPT ![to] = @ + v]]

Top(m) == Last(m.frames)
SetTop(m, f) == [m EXCEPT !.frames[Len(m.frames)] = f]

-----------------------------------------------------------------------------
(***************************************************************************)
(* The way back: handleCallReturn, handleCreateReturn, or transact.        *)
(***************************************************************************)
Refused(kind, result, gas) ==
  [kind |-> kind, result |-> result, gas |-> gas, refund |-> 0, data |-> "None", made |-> FALSE]

\* Output of a sub-frame as the parent sees it.
Received(data) == CASE data = "None" -> "None" [] data = "Own" -> "Child" [] OTHER -> "Older"

\* A creation leaves its output only if it reverted.
ReturnData(o) ==
  IF o.kind = "Call" \/ o.result \in RevertResult THEN Received(o.data) ELSE "None"

\* Mutant: a sub-frame that failed gives its refund all the same.
ReturnedRefundsAll(f, o) ==
  [f EXCEPT !.data = ReturnData(o),
            !.ok = o.result \in OkResult /\ (o.kind = "Create" => o.made),
            !.gas = IF o.result \in OkResult \cup RevertResult THEN @ + o.gas ELSE @,
            !.refund = @ + o.refund]

\* The gas of a sub-frame comes back unless it failed, its refund only if it succeeded.
Returned(f, o) ==
  [f EXCEPT !.data = ReturnData(o),
            !.ok = o.result \in OkResult /\ (o.kind = "Create" => o.made),
            !.gas = IF o.result \in OkResult \cup RevertResult THEN @ + o.gas ELSE @,
            !.refund = IF o.result \in OkResult THEN @ + o.refund ELSE @]

Deliver(m, o) ==
  IF m.frames = <<>> THEN [m EXCEPT !.outcome = o] ELSE SetTop(m, Returned(Top(m), o))

-----------------------------------------------------------------------------
(***************************************************************************)
(* executeCall.  in: self, code address, caller, value, whether the value   *)
(* moves, static, gas.                                                      *)
(***************************************************************************)
NewFrame(kind, in, static) ==
  [kind |-> kind, self |-> in.self, caller |-> in.caller, value |-> in.value, static |-> static,
   gas |-> in.gas, refund |-> 0, data |-> "None", ok |-> FALSE]

\* Mutant: a precompile that fails leaves its checkpoint open.
PrecompileRunUnreverted(m, in) ==
  {<<m, Refused("Call", "PrecompileError", in.gas)>>}
  \cup {<<CheckpointCommit(m), Refused("Call", "Return", in.gas)>>}

\* executePrecompile: an error keeps its gas, but handleCallReturn does not pass it on.
\* Only precompiles a user supplies set Reverted.
PrecompileRun(m, in) ==
  {<<CheckpointRevert(m), Refused("Call", "PrecompileError", in.gas)>>}
  \cup {<<Close(m, result),
          [Refused("Call", result, in.gas - OpCost) EXCEPT !.data = "Own"]>> :
          result \in IF in.gas < OpCost THEN {} ELSE {"Return", "Revert"}}

\* tryHandlePrecompileCall, which has no value to move, and this part of executeCall.
PrecompileCall(m, in, bad) ==
  IF bad = "Touch"
    THEN {Deliver(CheckpointRevert(m), Refused("Call", "FatalExternalError", in.gas))}
    ELSE {Deliver(OnExit(end[1]), end[2]) : end \in PrecompileRun(OnEnter(m), in)}

\* Code that cannot be loaded is empty code.
Entered(m, in, bad) ==
  IF in.code \in Precompile THEN PrecompileCall(m, in, bad)
    ELSE IF ~m.world.code[in.code] \/ bad = "Code"
      THEN {Deliver(OnExit(CheckpointCommit(OnEnter(m))), Refused("Call", "Stop", in.gas))}
    ELSE {[OnEnter(m) EXCEPT !.frames = Append(@, NewFrame("Call", in, in.static))]}

\* Journal.Transfer, whose database error is dropped: nothing moves.
Transferred(m, in, bad) ==
  IF ~in.moves \/ bad = "Transfer" THEN m
    ELSE [m EXCEPT !.world = Moved(@, in.caller, in.self, in.value)]

\* Mutant: the checkpoint is taken after the value has moved.
ExecuteCallLateCheckpoint(m, in, bad) ==
  IF Len(m.frames) > CallStackLimit
    THEN {Deliver(m, Refused("Call", "CallTooDeep", in.gas))}
    ELSE IF in.moves /\ in.value > m.world.bal[in.caller] /\ bad # "Transfer"
      THEN {Deliver(m, Refused("Call", "OutOfFunds", in.gas))}
    ELSE Entered(Checkpoint(Transferred(m, in, bad)), in, bad)

ExecuteCall(m, in, bad) ==
  IF Len(m.frames) > CallStackLimit
    THEN {Deliver(m, Refused("Call", "CallTooDeep", in.gas))}
    ELSE IF in.moves /\ in.value > m.world.bal[in.caller] /\ bad # "Transfer"
      THEN {Deliver(CheckpointRevert(Checkpoint(m)), Refused("Call", "OutOfFunds", in.gas))}
    ELSE Entered(Transferred(Checkpoint(m), in, bad), in, bad)

(***************************************************************************)
(* executeCreate.  in: self (the created address), caller, value, gas;      *)
(* empty says that there is no init code.                                   *)
(***************************************************************************)
BumpNonce(m, a) == [m EXCEPT !.world.nonce[a] = @ + 1]

\* Journal.CreateAccountCheckpoint finds code, a nonce or storage.
Collides(w, a) == w.code[a] \/ w.nonce[a] # 0 \/ w.slot[a] # 0

\* Journal.CreateAccountCheckpoint where nothing collides.
CreateAccountCheckpoint(m, in) ==
  LET c == Checkpoint(m)
      w == Moved(m.world, in.caller, in.self, in.value)
  IN  [c EXCEPT !.world = IF Frontier THEN w ELSE [w EXCEPT !.nonce[in.self] = 1]]

Created(m, in, empty) ==
  IF empty
    THEN {Deliver(OnExit(CheckpointCommit(OnEnter(m))),
                  [Refused("Create", "Stop", in.gas) EXCEPT !.made = TRUE])}
    ELSE {[OnEnter(m) EXCEPT !.frames = Append(@, NewFrame("Create", in, FALSE))]}

\* Mutant: the nonce is not compared with 2^64 - 1.
ExecuteCreateNonceUnchecked(m, in, empty, bad) ==
  LET refuse(n, result) == {Deliver(n, Refused("Create", result, in.gas))}
      bumped == BumpNonce(m, in.caller)
  IN  IF Len(m.frames) > CallStackLimit THEN refuse(m, "CallTooDeep")
        ELSE IF bad = "Caller" THEN refuse(m, "FatalExternalError")
        ELSE IF in.value > m.world.bal[in.caller] THEN refuse(m, "OutOfFunds")
        ELSE IF bad = "Created" THEN refuse(bumped, "FatalExternalError")
        ELSE IF Collides(bumped.world, in.self) THEN refuse(bumped, "CreateCollision")
        ELSE Created(CreateAccountCheckpoint(bumped, in), in, empty)

ExecuteCreate(m, in, empty, bad) ==
  LET refuse(n, result) == {Deliver(n, Refused("Create", result, in.gas))}
      bumped == BumpNonce(m, in.caller)
  IN  IF Len(m.frames) > CallStackLimit THEN refuse(m, "CallTooDeep")
        ELSE IF bad = "Caller" THEN refuse(m, "FatalExternalError")
        ELSE IF in.value > m.world.bal[in.caller] THEN refuse(m, "OutOfFunds")
        ELSE IF m.world.nonce[in.caller] = MaxNonce THEN refuse(m, "Return")
        ELSE IF bad = "Created" THEN refuse(bumped, "FatalExternalError")
        ELSE IF Collides(bumped.world, in.self) THEN refuse(bumped, "CreateCollision")
        ELSE Created(CreateAccountCheckpoint(bumped, in), in, empty)

(***************************************************************************)
(* The end of a frame: InterpreterResultFromHalt, the checkpoint, the hook  *)
(* and the way back.                                                        *)
(***************************************************************************)
Popped(m) == [m EXCEPT !.frames = Front(@)]

\* Mutant: every halt returns the return data buffer.
ResultFromHaltStale(f, result) ==
  [kind |-> f.kind, result |-> result, gas |-> f.gas, refund |-> f.refund, data |-> f.data,
   made |-> FALSE]

\* Only RETURN and REVERT produce output.
ResultFromHalt(f, result) ==
  [kind |-> f.kind, result |-> result, gas |-> f.gas, refund |-> f.refund,
   data |-> IF result \in {"Return", "Revert"} THEN f.data ELSE "None", made |-> FALSE]

\* Mutant: code that FRONTIER leaves out takes the gas that is left.
ReturnCreateChargesUnpaid(m, o, self, output) ==
  LET fail(result) == Deliver(CheckpointRevert(m), [o EXCEPT !.result = result])
      paid == output = "Empty" \/ o.gas >= DepositCost
      stored == output # "Empty" /\ paid
      left == IF stored THEN o.gas - DepositCost ELSE IF paid THEN o.gas ELSE 0
      done == CheckpointCommit(m)
      with == IF stored THEN [done EXCEPT !.world.code[self] = TRUE] ELSE done
  IN  IF o.result \notin OkResult THEN fail(o.result)
        ELSE IF output = "Bad" /\ ~Frontier THEN fail("CodeRefused")
        ELSE IF ~paid /\ ~Frontier THEN fail("OutOfGas")
        ELSE Deliver(with, [o EXCEPT !.result = "Return", !.gas = left, !.data = "None",
                                     !.made = TRUE])

\* Mutant: a creation that failed is committed.
ReturnCreateCommits(m, o, self, output) ==
  LET fail(result) == Deliver(CheckpointCommit(m), [o EXCEPT !.result = result])
      paid == output = "Empty" \/ o.gas >= DepositCost
      stored == output # "Empty" /\ paid
      left == IF stored THEN o.gas - DepositCost ELSE o.gas
      done == CheckpointCommit(m)
      with == IF stored THEN [done EXCEPT !.world.code[self] = TRUE] ELSE done
  IN  IF o.result \notin OkResult THEN fail(o.result)
        ELSE IF output = "Bad" /\ ~Frontier THEN fail("CodeRefused")
        ELSE IF ~paid /\ ~Frontier THEN fail("OutOfGas")
        ELSE Deliver(with, [o EXCEPT !.result = "Return", !.gas = left, !.data = "None",
                                     !.made = TRUE])

\* returnCreate: the output becomes code.  Output refused by EIP-3541 or EIP-170 reverts,
\* and so does code that cannot be paid, except in FRONTIER, where it is left out.
ReturnCreate(m, o, self, output) ==
  LET fail(result) == Deliver(CheckpointRevert(m), [o EXCEPT !.result = result])
      paid == output = "Empty" \/ o.gas >= DepositCost
      stored == output # "Empty" /\ paid
      left == IF stored THEN o.gas - DepositCost ELSE o.gas
      done == CheckpointCommit(m)
      with == IF stored THEN [done EXCEPT !.world.code[self] = TRUE] ELSE done
  IN  IF o.result \notin OkResult THEN fail(o.result)
        ELSE IF output = "Bad" /\ ~Frontier THEN fail("CodeRefused")
        ELSE IF ~paid /\ ~Frontier THEN fail("OutOfGas")
        ELSE Deliver(with, [o EXCEPT !.result = "Return", !.gas = left, !.data = "None",
                                     !.made = TRUE])

\* What RETURN may leave in a creation; other halts leave nothing.
Output(result) == IF result = "Return" THEN {"Empty", "Code", "Bad"} ELSE {"Empty"}

Finish(m, result) ==
  LET f == Top(m)
      o == ResultFromHalt(f, result)
      p == OnExit(Popped(m))
  IN  IF f.kind = "Call" THEN {Deliver(Close(p, result), o)}
        ELSE {ReturnCreate(p, o, f.self, output) : output \in Output(result)}

-----------------------------------------------------------------------------
(***************************************************************************)
(* The instructions that matter here.                                      *)
(***************************************************************************)
CanPay(m, cost) == Top(m).gas >= cost
Pay(m, cost) == SetTop(m, [Top(m) EXCEPT !.gas = @ - cost])

\* CallStipendReduction: all but one part in Reduction (EIP-150).
Lendable(gas) == IF Frontier THEN gas ELSE gas - gas \div Reduction

\* SstoreRefund, the part for clearing a slot.
ClearRefund(original, present, new) ==
  IF Frontier THEN (IF present # 0 /\ new = 0 THEN 1 ELSE 0)
    ELSE IF present = new THEN 0
    ELSE IF original = present /\ new = 0 THEN 1
    ELSE IF original # 0 /\ present = 0 THEN -1
    ELSE IF original # 0 /\ new = 0 THEN 1
    ELSE 0

\* Mutant: the dynamic gas is not charged.
OpSstoreUncharged(m, v) ==
  LET f       == Top(m)
      written == [m EXCEPT !.world.slot[f.self] = v]
      refund  == ClearRefund(Start.slot[f.self], m.world.slot[f.self], v)
  IN  IF f.static THEN Finish(m, "StaticViolation")
        ELSE IF ~Frontier /\ f.gas <= Stipend THEN Finish(m, "OutOfGas")
        ELSE {SetTop(written, [f EXCEPT !.refund = @ + refund])}

\* opSstore: the slot is written before the dynamic gas is charged.
OpSstore(m, v) ==
  LET f       == Top(m)
      written == [m EXCEPT !.world.slot[f.self] = v]
      refund  == ClearRefund(Start.slot[f.self], m.world.slot[f.self], v)
  IN  IF f.static THEN Finish(m, "StaticViolation")
        ELSE IF ~Frontier /\ f.gas <= Stipend THEN Finish(m, "OutOfGas")
        ELSE IF ~CanPay(m, OpCost) THEN Finish(written, "OutOfGas")
        ELSE {SetTop(written, [f EXCEPT !.gas = @ - OpCost, !.refund = @ + refund])}

\* opSelfdestruct: likewise.  Whether an account that names itself loses its balance
\* (burnt) depends on the fork and on its creation: Journal.
OpSelfdestruct(m, to, burnt, bad) ==
  LET f     == Top(m)
      moved == Moved(m.world, f.self, to, m.world.bal[f.self])
      gone  == IF bad = "Beneficiary" THEN m
                 ELSE [m EXCEPT !.world = IF burnt THEN [moved EXCEPT !.bal[to] = 0] ELSE moved]
  IN  IF f.static THEN Finish(m, "StaticViolation")
        ELSE IF ~CanPay(m, OpCost) THEN Finish(gone, "OutOfGas")
        ELSE Finish(Pay(gone, OpCost), "SelfDestruct")

\* Mutant: only STATICCALL opens a static frame.
CallInputsNotInherited(f, scheme, to, value, gas) ==
  [self   |-> IF scheme \in {"Call", "Static"} THEN to ELSE f.self,
   code   |-> to,
   caller |-> IF scheme = "Delegate" THEN f.caller ELSE f.self,
   value  |-> IF scheme = "Delegate" THEN f.value ELSE value,
   moves  |-> scheme # "Delegate",
   static |-> scheme = "Static",
   gas    |-> IF value > 0 THEN gas + Stipend ELSE gas]

\* Mutant: a value that is only apparent brings the stipend too.
CallInputsApparentStipend(f, scheme, to, value, gas) ==
  LET apparent == IF scheme = "Delegate" THEN f.value ELSE value
  IN  [self   |-> IF scheme \in {"Call", "Static"} THEN to ELSE f.self,
       code   |-> to,
       caller |-> IF scheme = "Delegate" THEN f.caller ELSE f.self,
       value  |-> apparent,
       moves  |-> scheme # "Delegate",
       static |-> f.static \/ scheme = "Static",
       gas    |-> IF apparent > 0 THEN gas + Stipend ELSE gas]

\* opCall, opCallcode, opDelegatecall, opStaticcall: what they hand to executeCall.
CallInputs(f, scheme, to, value, gas) ==
  [self   |-> IF scheme \in {"Call", "Static"} THEN to ELSE f.self,
   code   |-> to,
   caller |-> IF scheme = "Delegate" THEN f.caller ELSE f.self,
   value  |-> IF scheme = "Delegate" THEN f.value ELSE value,
   moves  |-> scheme # "Delegate",
   static |-> f.static \/ scheme = "Static",
   gas    |-> IF value > 0 THEN gas + Stipend ELSE gas]

\* loadAccountAndCalcGas: FRONTIER lends what was asked or fails.
OpCall(m, scheme, to, value, asked, bad) ==
  LET f    == Top(m)
      cost == IF value > 0 THEN CallCost + TransferCost ELSE CallCost
      cap  == Lendable(f.gas - cost)
      gas  == IF asked < cap \/ Frontier THEN asked ELSE cap
  IN  IF f.static /\ value > 0 /\ scheme = "Call" THEN Finish(m, "StaticViolation")
        ELSE IF ~CanPay(m, cost) \/ ~CanPay(m, cost + gas) THEN Finish(m, "OutOfGas")
        ELSE ExecuteCall(Pay(m, cost + gas), CallInputs(f, scheme, to, value, gas), bad)

OpCreate(m, new, value, empty, bad) ==
  LET f   == Top(m)
      gas == Lendable(f.gas - CreateCost)
      in  == [self |-> new, caller |-> f.self, value |-> value, gas |-> gas]
  IN  IF f.static THEN Finish(m, "StaticViolation")
        ELSE IF ~CanPay(m, CreateCost) THEN Finish(m, "OutOfGas")
        ELSE ExecuteCreate(Pay(m, CreateCost + gas), in, empty, bad)

\* opReturn and opRevert, with or without output.
OpReturn(m, result, data) == Finish(SetTop(m, [Top(m) EXCEPT !.data = data]), result)

-----------------------------------------------------------------------------
Running == frames # <<>>

\* At most one of the accesses that an action makes fails.
Bad(accesses) == (DBErrors \cap accesses) \cup {"None"}

CallAccess(to) == {"Transfer", IF to \in Precompile THEN "Touch" ELSE "Code"}
CreateAccess == {"Caller", "Created"}

\* Phase 3 of transact.
Transact ==
  /\ ~Running /\ outcome.result = "None"
  /\ \E value \in Amount :
       \/ \E to \in Addr : \E bad \in Bad(CallAccess(to)) :
            LET in == [self |-> to, code |-> to, caller |-> Sender, value |-> value,
                       moves |-> TRUE, static |-> FALSE, gas |-> GasLimit]
            IN  \E m \in ExecuteCall(Machine, in, bad) : Become(m)
       \/ \E new \in New, empty \in BOOLEAN, bad \in Bad(CreateAccess) :
            LET in == [self |-> new, caller |-> Sender, value |-> value, gas |-> GasLimit]
            IN  \E m \in ExecuteCreate(Machine, in, empty, bad) : Become(m)

Sstore == Running /\ \E v \in {0, 1} : \E m \in OpSstore(Machine, v) : Become(m)

Selfdestruct ==
  /\ Running
  /\ \E to \in Addr, bad \in Bad({"Beneficiary"}) :
       \E burnt \in IF to = Last(frames).self THEN BOOLEAN ELSE {FALSE} :
         \E m \in OpSelfdestruct(Machine, to, burnt, bad) : Become(m)

Schemes == IF Frontier THEN {"Call", "CallCode"} ELSE {"Call", "CallCode", "Delegate", "Static"}

Call ==
  /\ Running
  /\ \E scheme \in Schemes, to \in Addr, value \in Amount, asked \in Asked :
      \E bad \in Bad(CallAccess(to)) :
       /\ scheme \in {"Delegate", "Static"} => value = 0
       /\ \E m \in OpCall(Machine, scheme, to, value, asked, bad) : Become(m)

Create ==
  /\ Running
  /\ \E new \in New, value \in Amount, empty \in BOOLEAN, bad \in Bad(CreateAccess) :
       \E m \in OpCreate(Machine, new, value, empty, bad) : Become(m)

Return ==
  /\ Running
  /\ \E result \in IF Frontier THEN {"Return"} ELSE {"Return", "Revert"}, data \in {"None", "Own"} :
       \E m \in OpReturn(Machine, result, data) : Become(m)

\* STOP, and every other failure of an instruction.
Halt == Running /\ \E result \in {"Stop", "Error"} : \E m \in Finish(Machine, result) : Become(m)

Init ==
  /\ world = Start /\ checkpoints = <<>> /\ frames = <<>> /\ hooks = <<>>
  /\ outcome = Refused("Call", "None", 0)

Next == Transact \/ Sstore \/ Selfdestruct \/ Call \/ Create \/ Return \/ Halt

\* The handler is sequential and never waits.
Spec == Init /\ [][Next]_vars /\ WF_vars(Next)

-----------------------------------------------------------------------------
\* Every nonce stays below 2^64 (executeCreate, EIP-2681), no gas goes below zero, and
\* results and frames are those of vm/action.go.
TypeOK ==
  /\ world \in World
  /\ checkpoints \in Seq(World)
  /\ frames \in Seq(Frame)
  /\ hooks \in Seq(Nat)
  /\ outcome \in Outcome

\* On every path of executeCall, executeCreate and tryHandlePrecompileCall each frame that
\* runs has one checkpoint and one OnEnter to close, in the order of their depths.
FramesPaired ==
  /\ Len(checkpoints) = Len(frames)
  /\ hooks = [i \in 1 .. Len(frames) |-> i - 1]

\* Nothing that a static frame starts, however deep and by whatever scheme, changes the
\* world (IsStatic in opCall, createInner, opSstore, opSelfdestruct; EIP-214).
StaticNeverWrites == \A i \in DOMAIN frames : frames[i].static => world = checkpoints[i]

\* What the open frames hold, or what the sender gets back at the end.
TotalGas ==
  IF Running THEN FoldSeq(LAMBDA f, n : f.gas + n, 0, frames)
    ELSE IF outcome.result \in OkResult \cup RevertResult THEN outcome.gas ELSE 0

\* No instruction, and no way back from a sub-frame, gives more gas than was lent or paid
\* for, stipends included (loadAccountAndCalcGas, handleCallReturn, handleCreateReturn).
GasNeverCreated == [][Running => TotalGas' <= TotalGas]_vars

TotalRefund ==
  IF Running THEN FoldSeq(LAMBDA f, n : f.refund + n, 0, frames)
    ELSE IF outcome.result \in OkResult THEN outcome.refund ELSE 0

\* The refunds that will count are those of the slots that are clear and were not, through
\* any nesting of failures (SstoreRefund, RecordRefund in handleCallReturn).
RefundMatchesClears ==
  TotalRefund = Cardinality({a \in Addr : Start.slot[a] # 0 /\ world.slot[a] = 0})

\* A frame sees the output of the sub-frame it called last, and hands up only its own: the
\* comment of InterpreterResultFromHalt on "stale sub-call return data".
OutputIsFresh ==
  /\ \A i \in DOMAIN frames : frames[i].data # "Older"
  /\ outcome.data \in {"None", "Own"}

Bumped(w) == {[w EXCEPT !.nonce[a] = @ + 1] : a \in {x \in Addr : w.nonce[x] < MaxNonce}}

\* A call that failed leaves no trace, and a creation that failed only the nonce of its
\* creator, whatever ran inside (executeCall, executePrecompile, executeCreate, returnCreate).
\* A step within a frame may be SSTORE, hence the exception for slots.
FailureUndone ==
  [][Running /\ Running' /\ ~Last(frames').ok =>
       CASE Len(frames') < Len(frames) -> world' = Last(checkpoints)
         [] Len(frames') = Len(frames) ->
              [world' EXCEPT !.slot = world.slot] \in {world} \cup Bumped(world)
         [] OTHER -> TRUE]_vars

\* The frame that ended last succeeded, as its caller or transact sees it.
Succeeded ==
  IF Running THEN Last(frames).ok ELSE outcome.result \in OkResult /\ outcome.made

\* Code costs its deposit, once, and only if it is there: when init code returns and the
\* creation succeeds, the gas of the transaction has fallen by DepositCost if the account now
\* has code, and by nothing if not, whether the output was empty or could not be paid.  In
\* FRONTIER no output makes a creation fail (returnCreate, handleCreateReturn, transact).
\* Left aside: New yields an address twice, and the inner creation has given it code already.
DepositBuysCode ==
  [][Return /\ Last(frames).kind = "Create" /\ ~world.code[Last(frames).self] =>
       LET stored == world'.code[Last(frames).self]
       IN  /\ Succeeded' => TotalGas - TotalGas' = IF stored THEN DepositCost ELSE 0
           /\ Frontier => Succeeded']_vars

\* Who starts to run with the value of another account has received it; CALLCODE and
\* DELEGATECALL run as the account that calls (executeCall, CreateAccountCheckpoint).
ValueDelivered ==
  [][Len(frames') > Len(frames) =>
       LET f == Last(frames')
           before == Last(checkpoints').bal
       IN  \/ f.self = f.caller
           \/ Running /\ f.self = Last(frames).self
           \/ /\ world'.bal[f.self] = before[f.self] + f.value
              /\ world'.bal[f.caller] = before[f.caller] - f.value]_vars

\* Every transaction ends: each instruction that matters costs gas or closes a frame.
Terminates == <>(outcome.result # "None")
=============================================================================
