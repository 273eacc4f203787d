----------------------------- MODULE MCOpcodes -----------------------------
(***************************************************************************)
(* Costs and stack effects for TLC, and every program of a few             *)
(* instructions.                                                            *)
(***************************************************************************)
EXTENDS Opcodes

CONSTANTS Instructions, MaxLength

MCCost == [op \in Op |-> CASE op \in Uncharged -> 0 [] op = "CALL" -> 2 [] OTHER -> 1]

MCNeeds == [op \in Op |-> CASE op = "ADD" -> 2
                            [] op \in {"POP", "DUP1", "JUMP", "SLOAD", "SSTORE", "CALL"} -> 1
                            [] OTHER -> 0]
MCGives == [op \in Op |-> CASE op = "DUP1" -> 2
                            [] op \in {"ADD", "PUSH1", "PUSH0", "GAS", "SLOAD", "CALL"} -> 1
                            [] OTHER -> 0]

MCPrograms == [1 .. MaxLength -> Instructions]
=============================================================================
