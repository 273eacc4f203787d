------------------------------ MODULE MCTracer ------------------------------
(***************************************************************************)
(* TracingRunner on every short program and a little gas.                  *)
(***************************************************************************)
EXTENDS Tracer, MCOpcodes
=============================================================================
