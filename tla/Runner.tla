------------------------------- MODULE Runner -------------------------------
(***************************************************************************)
(* DefaultRunner.Run (src/vm/table_gen.go): the fast loop.  Static gas is  *)
(* added to a local gasCounter, and paid when an instruction is reached    *)
(* that could tell the difference: one that reads the gas, charges more,   *)
(* calls the host, jumps, halts or opens a sub-frame.  The counter is a     *)
(* local of Run: what it holds when Run returns is lost.                    *)
(***************************************************************************)
EXTENDS Opcodes

CONSTANTS Programs, GasLimits

VARIABLES
  code,        \* Bytecode.code
  frame,       \* the Interpreter
  gasCounter   \* the local of Run

vars == <<code, frame, gasCounter>>

ASSUME InputsOK == Programs \subseteq Seq(Op) /\ GasLimits \subseteq Nat

Init ==
  /\ code \in Programs
  /\ frame \in {NewFrame(g) : g \in GasLimits}
  /\ gasCounter = 0

\* Mutant: the unchecked subtraction of RecordCostUnsafe.
FlushUnchecked(f, k) == Spend(f, k)

\* emitFlush and emitFlushOnError: pay the counter k.
Flush(f, k) == IF f.gas < k THEN HaltOOG(f) ELSE Spend(f, k)

\* Mutant: the halt of an accumulated instruction does not pay the counter.
AccumulateUnflushed ==
  LET op == Fetch(code, frame)
  IN  /\ frame.status = "Running"
      /\ op \in Accumulated
      /\ \E f \in Execute(op, Advance(frame), code) :
           /\ frame' = f
           /\ gasCounter' = IF f.status = "Running" THEN gasCounter + Cost[op] ELSE 0
      /\ UNCHANGED code

\* modeAccumulate: run the body now, pay later; a halt pays first.
Accumulate ==
  LET op == Fetch(code, frame)
      k  == gasCounter + Cost[op]
  IN  /\ frame.status = "Running"
      /\ op \in Accumulated
      /\ \E f \in Execute(op, Advance(frame), code) :
           IF f.status = "Running"
             THEN frame' = f /\ gasCounter' = k
             ELSE frame' = Flush(f, k) /\ gasCounter' = 0
      /\ UNCHANGED code

\* Mutant: a jump resets the counter without paying it.
FlushAndRunFreeJumps ==
  LET op   == Fetch(code, frame)
      paid == IF op \in {"JUMP", "JUMPDEST"} THEN Advance(frame)
                ELSE Flush(Advance(frame), gasCounter + Cost[op])
  IN  /\ frame.status = "Running"
      /\ op \in Immediate
      /\ frame' \in IF paid.status = "OutOfGas" THEN {paid} ELSE Execute(op, paid, code)
      /\ gasCounter' = 0
      /\ UNCHANGED code

\* modeFlush: pay, then the fork gate and the body.
FlushAndRun ==
  LET op   == Fetch(code, frame)
      paid == Flush(Advance(frame), gasCounter + Cost[op])
  IN  /\ frame.status = "Running"
      /\ op \in Immediate
      /\ frame' \in IF paid.status = "OutOfGas" THEN {paid} ELSE Execute(op, paid, code)
      /\ gasCounter' = 0
      /\ UNCHANGED code

\* runInterpreterLoop calls Run again after the sub-frame: a new gasCounter.
Resume ==
  /\ frame.status = "Action"
  /\ frame' \in Resumed(frame)
  /\ gasCounter' = 0
  /\ UNCHANGED code

Next == Accumulate \/ FlushAndRun \/ Resume

\* The loop of Run is sequential and never waits.
Spec == Init /\ [][Next]_vars /\ WF_vars(Next)

-----------------------------------------------------------------------------
Halted == frame.status \notin {"Running", "Action"}

TypeOK ==
  /\ code \in Seq(Op)
  /\ frame \in Frame
  /\ gasCounter \in Nat
  /\ frame.status # "Running" => gasCounter = 0

\* The frame as the tracer would see it: the counter paid.
Settled == IF frame.status = "Running" THEN Flush(frame, gasCounter) ELSE frame

Exact == INSTANCE Metered WITH frame <- Settled

\* DefaultRunner is TracingRunner as far as anything outside the loop can tell: same
\* gas at every read, host call, sub-frame and halt, same kind of halt.
ImplementsMetering == Exact!Spec

\* Every program halts, loops included: its gas runs out although the loop does not
\* look at the gas between two flushes.
Terminates == <>Halted
=============================================================================
