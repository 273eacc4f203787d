------------------------------- MODULE Tracer -------------------------------
(***************************************************************************)
(* TracingRunner.Run and the OnFault hook.  The charge of static gas        *)
(* returns from Run at once, the check that calls the hook is at the end of *)
(* a turn of the loop.                                                      *)
(***************************************************************************)
EXTENDS Metered

VARIABLE reported   \* the calls of OnFault

tracerVars == <<vars, reported>>

CanPay == frame.gas >= Cost[Fetch(code, frame)]

TracedStep ==
  /\ Step
  /\ reported' = IF CanPay /\ frame'.status \in Fault THEN reported + 1 ELSE reported

TracerNext == TracedStep \/ (Resume /\ UNCHANGED reported)

TracerSpec == Init /\ reported = 0 /\ [][TracerNext]_tracerVars

\* The generator says of the hook: "if interpreter halted with an error, call OnFault".
FaultReported == frame.status \in Fault => reported = 1
=============================================================================
