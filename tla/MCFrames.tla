------------------------------ MODULE MCFrames ------------------------------
(***************************************************************************)
(* A sender, a contract with a stored value that has one nonce left, a      *)
(* precompile and an address for creations.                                *)
(***************************************************************************)
EXTENDS Frames

CONSTANTS sender, contract, precompile, fresh

MCAddr == {sender, contract, precompile, fresh}

MCStart ==
  [bal   |-> [a \in MCAddr |-> IF a \in {sender, contract} THEN 1 ELSE 0],
   nonce |-> [a \in MCAddr |-> IF a = contract THEN MaxNonce - 1 ELSE 0],
   slot  |-> [a \in MCAddr |-> IF a = contract THEN 1 ELSE 0],
   code  |-> [a \in MCAddr |-> a = contract]]
=============================================================================
