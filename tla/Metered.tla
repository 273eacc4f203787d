------------------------------ MODULE Metered ------------------------------
(***************************************************************************)
(* Gas as Ethereum defines it: every instruction pays its static gas        *)
(* before it does anything.  TracingRunner.Run (src/vm/table_gen.go) works  *)
(* this way so that a tracer sees exact values; it is what DefaultRunner.Run *)
(* must be indistinguishable from (Runner.tla).                             *)
(***************************************************************************)
EXTENDS Opcodes

CONSTANTS Programs, GasLimits   \* the programs, and the gas they start with

VARIABLES code, frame

vars == <<code, frame>>

Init ==
  /\ code \in Programs
  /\ frame \in {NewFrame(g) : g \in GasLimits}

\* One turn of the loop of Run.
Step ==
  /\ frame.status = "Running"
  /\ LET op   == Fetch(code, frame)
         next == Advance(frame)
     IN  IF next.gas < Cost[op] THEN frame' = HaltOOG(next)
           ELSE frame' \in Execute(op, Spend(next, Cost[op]), code)
  /\ UNCHANGED code

\* The handler runs the sub-frame and resumes this one.
Resume ==
  /\ frame.status = "Action"
  /\ frame' \in Resumed(frame)
  /\ UNCHANGED code

Next == Step \/ Resume

Spec == Init /\ [][Next]_vars
=============================================================================
