------------------------------ MODULE MCRunner ------------------------------
(***************************************************************************)
(* DefaultRunner on every short program and a little gas.                  *)
(***************************************************************************)
EXTENDS Runner, MCOpcodes
=============================================================================
