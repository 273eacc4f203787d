SPECIFICATION Spec
CONSTANTS
  Cost <- MCCost
  Needs <- MCNeeds
  Gives <- MCGives
  Inactive = {"PUSH0"}
  StackLimit = 2
  Stipend = 1
  TransferCost = 2
  SstoreStatic = 1
  Dynamic = {0, 1}
  Reduction = 4
  Instructions = {"ADD", "PUSH1", "PUSH0", "DUP1", "POP", "JUMP", "JUMPDEST", "GAS", "MSTORE", "SLOAD", "SSTORE", "CALL", "RETURN"}
  MaxLength = 4
  Programs <- MCPrograms
  GasLimits = {2, 4, 6, 8}
INVARIANT TypeOK
PROPERTIES ImplementsMetering Terminates
CHECK_DEADLOCK FALSE
