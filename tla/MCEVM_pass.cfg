SPECIFICATION Spec
CONSTANTS
 StackLimit = 10
 WordBytes = 32
 Width = 24
 MaxMemory = 131040
 Price <- MCPrice
 Sessions <- MCSessions
 Programs <- MCPrograms
 Accounts <- MCAccounts
 Precompiles = {1}
 PrecompileCosts = {15}
 CreateAddresses = {4, 6}
 InitPrograms = {2, 10}
 Deployed = 10
 CallCreateDepth = 2
 Operands <- MCOperands
 NoOperands <- Zeros
 Overrides = {1}
 TargetOpCodes <- MCTargets
 CheckpointItems = 3
 MaxCalls = 3
CHECK_DEADLOCK FALSE
INVARIANTS TableFits JumpsExact MemoryPaid NoFault
PROPERTIES GasFalls StaticWritesNothing ImplementsNestedTx
