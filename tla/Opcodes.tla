------------------------------ MODULE Opcodes ------------------------------
(***************************************************************************)
(* The instructions of gevm's interpreter (src/vm), as far as gas is       *)
(* concerned: which are charged at once and which are accumulated, what     *)
(* they ask of the stack, which read the remaining gas or call the host.    *)
(* The two runners of table_gen.go inline the same bodies; Metered.tla is   *)
(* TracingRunner.Run and Runner.tla is DefaultRunner.Run.                   *)
(*                                                                          *)
(* A frame is one record: the program counter, the gas left, the height of  *)
(* the stack (its values are arbitrary), the halt status, the last gas      *)
(* value the program read, the effects it had (the host calls that change   *)
(* the journal) and the gas lent to the sub-frame that runs.  One           *)
(* instruction stands for each family: ADD for arithmetic, PUSH1 for the    *)
(* pushes and the environment (BLOCKHASH and SELFBALANCE read the host and  *)
(* change nothing), DUP1 for dups and swaps, JUMP for both jumps, MSTORE    *)
(* for the memory, CALL for what opens a frame.  The frame is not static    *)
(* and the fork is ISTANBUL or later.                                       *)
(***************************************************************************)
EXTENDS Integers, Sequences

CONSTANTS
  Cost,         \* static gas of each instruction (ForkGas, spec.Gas...)
  Needs, Gives, \* operands popped and pushed
  Inactive,     \* instructions the active fork does not have
  StackLimit,
  Stipend,      \* GasCallStipend: lent with a value; SSTORE needs more
  TransferCost, \* GasCallValue
  SstoreStatic, \* SstoreStaticGas
  Dynamic,      \* the dynamic gas tried: cold access, memory growth, SSTORE
  Reduction     \* 64: a sub-frame gets all but one part in 64

Accumulated == {"ADD", "PUSH1", "PUSH0", "DUP1", "POP"}
Immediate == {"STOP", "RETURN", "INVALID", "JUMP", "JUMPDEST", "GAS", "MSTORE",
              "SLOAD", "SSTORE", "CALL"}
Op == Accumulated \cup Immediate
Uncharged == {"STOP", "RETURN", "INVALID", "SSTORE"}

Fault == {"OutOfGas", "MemoryOOG", "ReentrancySentryOOG", "StackUnderflow",
          "StackOverflow", "InvalidJump", "InvalidFEOpcode", "NotActivated"}
Status == {"Running", "Action", "Stop", "Return"} \cup Fault

ASSUME OpcodesOK ==
  /\ Cost \in [Op -> Nat]
  /\ \A op \in Uncharged : Cost[op] = 0
  /\ \A op \in Op \ Uncharged : Cost[op] > 0
  /\ Needs \in [Op -> Nat] /\ Gives \in [Op -> Nat]
  /\ Inactive \subseteq Op
  /\ StackLimit \in Nat /\ SstoreStatic \in Nat
  /\ Stipend \in Nat /\ TransferCost \in Nat /\ Stipend < TransferCost
  /\ Dynamic \subseteq Nat
  /\ Reduction \in Nat \ {0}

Frame == [pc : Nat, gas : Nat, top : Nat, status : Status, seen : Nat, effects : Nat,
          lent : Nat]

NewFrame(limit) ==
  [pc |-> 0, gas |-> limit, top |-> 0, status |-> "Running", seen |-> 0, effects |-> 0,
   lent |-> 0]

\* Bytecode is padded with STOP.
Fetch(code, f) == IF f.pc < Len(code) THEN code[f.pc + 1] ELSE "STOP"
Advance(f) == [f EXCEPT !.pc = @ + 1]

Halt(f, r) == [f EXCEPT !.status = r]
Spend(f, c) == [f EXCEPT !.gas = @ - c]

\* SpendAll, then Halt.  What is left of the program counter and the stack of a
\* frame that is out of gas is never looked at.
HaltOOG(f) == [f EXCEPT !.status = "OutOfGas", !.gas = 0, !.pc = 0, !.top = 0]

\* Gas.RecordCost: the frame after it has paid c, or r if it cannot.
Charged(f, c, r) == IF f.gas < c THEN r ELSE Spend(f, c)

Underflow(op, f) == f.top < Needs[op]
Overflow(op, f) == f.top - Needs[op] + Gives[op] > StackLimit
Operate(op, f) == [f EXCEPT !.top = @ - Needs[op] + Gives[op]]

Effect(f) == [f EXCEPT !.effects = @ + 1]

-----------------------------------------------------------------------------
(***************************************************************************)
(* The bodies: the frames an instruction may leave, its operands popped.   *)
(***************************************************************************)
\* opJump: a target that is not a JUMPDEST is refused.
Jumped(f, code) ==
  {Halt(f, "InvalidJump")}
  \cup {[f EXCEPT !.pc = d - 1] : d \in {i \in DOMAIN code : code[i] = "JUMPDEST"}}

\* ResizeMemory: the halt does not spend the gas left.  It also stands for the halt
\* of an offset that is not an int.
Resized(f) == {Charged(f, c, Halt(f, "MemoryOOG")) : c \in Dynamic}

\* The host loads a slot or an account before the access is charged.
Accessed(f, c) == Charged(Effect(f), c, HaltOOG(Effect(f)))

\* opSload.
SLoaded(f) == {Accessed(f, c) : c \in Dynamic}

\* opSstore: sentry, static gas, host, dynamic gas.
SStored(f) ==
  IF f.gas <= Stipend THEN {Halt(f, "ReentrancySentryOOG")}
    ELSE IF f.gas < SstoreStatic THEN {HaltOOG(f)}
    ELSE SLoaded(Spend(f, SstoreStatic))

\* All but one part in Reduction may be lent; the stipend comes on top.
Lent(f, stipend) ==
  {[Spend(f, g) EXCEPT !.lent = g + stipend, !.status = "Action"] :
     g \in {x \in 0 .. f.gas : x <= f.gas - f.gas \div Reduction}}

\* loadAccountAndCalcGas, after the transfer cost.
Opened(f, stipend) ==
  UNION {IF x.status = "OutOfGas" THEN {x} ELSE Lent(x, stipend) : x \in SLoaded(f)}

\* opCall, without and with a value.  The result is pushed here, not by handleCallReturn.
Called(f) ==
  Opened(f, 0) \cup (IF f.gas < TransferCost THEN {HaltOOG(f)}
                       ELSE Opened(Spend(f, TransferCost), Stipend))

Body(op, f, code) ==
  CASE op \in Accumulated \cup {"JUMPDEST"} -> {f}
    [] op = "STOP"    -> {Halt(f, "Stop")}
    [] op = "RETURN"  -> {IF x.status = "Running" THEN Halt(x, "Return") ELSE x :
                            x \in Resized(f)}
    [] op = "INVALID" -> {Halt(f, "InvalidFEOpcode")}
    [] op = "JUMP"    -> Jumped(f, code)
    [] op = "GAS"     -> {[f EXCEPT !.seen = f.gas]}
    [] op = "MSTORE"  -> Resized(f)
    [] op = "SLOAD"   -> SLoaded(f)
    [] op = "SSTORE"  -> SStored(f)
    [] op = "CALL"    -> Called(f)

\* The fork gate and the stack checks come before the body.  A DUP or a SWAP that
\* lacks operands is reported as an overflow.
Execute(op, f, code) ==
  IF op \in Inactive THEN {Halt(f, "NotActivated")}
    ELSE IF Underflow(op, f)
      THEN {Halt(f, IF op = "DUP1" THEN "StackOverflow" ELSE "StackUnderflow")}
    ELSE IF Overflow(op, f) THEN {Halt(f, "StackOverflow")}
    ELSE Body(op, Operate(op, f), code)

\* runInterpreterLoop: the sub-frame gives back what it has left; Resume.
Resumed(f) ==
  {[f EXCEPT !.gas = @ + g, !.lent = 0, !.status = "Running"] : g \in 0 .. f.lent}
=============================================================================
