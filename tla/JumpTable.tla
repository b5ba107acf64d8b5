----------------------------- MODULE JumpTable -----------------------------
(* The instruction set of every fork: for each opcode the function that    *)
(* executes it, its constant and dynamic gas, the stack heights it accepts *)
(* and the function that says how much memory it needs.  Functions and gas *)
(* constants are named; GasRules and Instructions say what they do.        *)
EXTENDS OpCodes, Integers, FiniteSets

CONSTANT StackLimit   \* params.StackLimit

ASSUME StackLimitAssumption == StackLimit \in Nat \ {0}

----------------------------------------------------------------------------
(* An operation                                                            *)

minStack(pops, push) == pops
maxStack(pops, push) == StackLimit + pops - push

\* An operation whose gas does not depend on its operands.  "n" is the
\* argument of the makers: the bytes of a push, the depth of a dup or a swap,
\* the topics of a log.
Op(execute, constantGas, pops, push) ==
    [execute |-> execute, n |-> 0, constantGas |-> constantGas, dynamicGas |-> "none",
     minStack |-> minStack(pops, push), maxStack |-> maxStack(pops, push),
     memorySize |-> "none"]

Metered(op, dynamicGas) == [op EXCEPT !.dynamicGas = dynamicGas]

InMemory(op, dynamicGas, memorySize) ==
    [op EXCEPT !.dynamicGas = dynamicGas, !.memorySize = memorySize]

Undefined == [Op("opUndefined", "Free", 0, 0) EXCEPT !.maxStack = maxStack(0, 0)]

\* The operation an instruction set has for a mnemonic.
Entry(set, name) == IF name \in DOMAIN set THEN set[name] ELSE Undefined

Repriced(set, name, gas) == [set EXCEPT ![name].constantGas = gas]

----------------------------------------------------------------------------
(* Frontier                                                                *)

FrontierArithmetic ==
    [STOP       |-> Op("opStop", "Free", 0, 0),
     ADD        |-> Op("opAdd", "GasFastestStep", 2, 1),
     MUL        |-> Op("opMul", "GasFastStep", 2, 1),
     SUB        |-> Op("opSub", "GasFastestStep", 2, 1),
     DIV        |-> Op("opDiv", "GasFastStep", 2, 1),
     SDIV       |-> Op("opSdiv", "GasFastStep", 2, 1),
     MOD        |-> Op("opMod", "GasFastStep", 2, 1),
     SMOD       |-> Op("opSmod", "GasFastStep", 2, 1),
     ADDMOD     |-> Op("opAddmod", "GasMidStep", 3, 1),
     MULMOD     |-> Op("opMulmod", "GasMidStep", 3, 1),
     EXP        |-> Metered(Op("opExp", "Free", 2, 1), "gasExpFrontier"),
     SIGNEXTEND |-> Op("opSignExtend", "GasFastStep", 2, 1)]

FrontierComparison ==
    [LT     |-> Op("opLt", "GasFastestStep", 2, 1),
     GT     |-> Op("opGt", "GasFastestStep", 2, 1),
     SLT    |-> Op("opSlt", "GasFastestStep", 2, 1),
     SGT    |-> Op("opSgt", "GasFastestStep", 2, 1),
     EQ     |-> Op("opEq", "GasFastestStep", 2, 1),
     ISZERO |-> Op("opIszero", "GasFastestStep", 1, 1),
     AND    |-> Op("opAnd", "GasFastestStep", 2, 1),
     XOR    |-> Op("opXor", "GasFastestStep", 2, 1),
     OR     |-> Op("opOr", "GasFastestStep", 2, 1),
     NOT    |-> Op("opNot", "GasFastestStep", 1, 1),
     BYTE   |-> Op("opByte", "GasFastestStep", 2, 1),
     KECCAK256 |-> InMemory(Op("opKeccak256", "Keccak256Gas", 2, 1),
                            "gasKeccak256", "memoryKeccak256")]

FrontierClosure ==
    [ADDRESS      |-> Op("opAddress", "GasQuickStep", 0, 1),
     BALANCE      |-> Op("opBalance", "BalanceGasFrontier", 1, 1),
     ORIGIN       |-> Op("opOrigin", "GasQuickStep", 0, 1),
     CALLER       |-> Op("opCaller", "GasQuickStep", 0, 1),
     CALLVALUE    |-> Op("opCallValue", "GasQuickStep", 0, 1),
     CALLDATALOAD |-> Op("opCallDataLoad", "GasFastestStep", 1, 1),
     CALLDATASIZE |-> Op("opCallDataSize", "GasQuickStep", 0, 1),
     CALLDATACOPY |-> InMemory(Op("opCallDataCopy", "GasFastestStep", 3, 0),
                               "gasCallDataCopy", "memoryCallDataCopy"),
     CODESIZE     |-> Op("opCodeSize", "GasQuickStep", 0, 1),
     CODECOPY     |-> InMemory(Op("opCodeCopy", "GasFastestStep", 3, 0),
                               "gasCodeCopy", "memoryCodeCopy"),
     GASPRICE     |-> Op("opGasprice", "GasQuickStep", 0, 1),
     EXTCODESIZE  |-> Op("opExtCodeSize", "ExtcodeSizeGasFrontier", 1, 1),
     EXTCODECOPY  |-> InMemory(Op("opExtCodeCopy", "ExtcodeCopyBaseFrontier", 4, 0),
                               "gasExtCodeCopy", "memoryExtCodeCopy")]

FrontierBlock ==
    [BLOCKHASH  |-> Op("opBlockhash", "GasExtStep", 1, 1),
     COINBASE   |-> Op("opCoinbase", "GasQuickStep", 0, 1),
     TIMESTAMP  |-> Op("opTimestamp", "GasQuickStep", 0, 1),
     NUMBER     |-> Op("opNumber", "GasQuickStep", 0, 1),
     PREVRANDAO |-> Op("opDifficulty", "GasQuickStep", 0, 1),
     GASLIMIT   |-> Op("opGasLimit", "GasQuickStep", 0, 1)]

FrontierStorage ==
    [POP      |-> Op("opPop", "GasQuickStep", 1, 0),
     MLOAD    |-> InMemory(Op("opMload", "GasFastestStep", 1, 1), "gasMLoad", "memoryMLoad"),
     MSTORE   |-> InMemory(Op("opMstore", "GasFastestStep", 2, 0), "gasMStore", "memoryMStore"),
     MSTORE8  |-> InMemory(Op("opMstore8", "GasFastestStep", 2, 0), "gasMStore8", "memoryMStore8"),
     SLOAD    |-> Op("opSload", "SloadGasFrontier", 1, 1),
     SSTORE   |-> Metered(Op("opSstore", "Free", 2, 0), "gasSStore"),
     JUMP     |-> Op("opJump", "GasMidStep", 1, 0),
     JUMPI    |-> Op("opJumpi", "GasSlowStep", 2, 0),
     PC       |-> Op("opPc", "GasQuickStep", 0, 1),
     MSIZE    |-> Op("opMsize", "GasQuickStep", 0, 1),
     GAS      |-> Op("opGas", "GasQuickStep", 0, 1),
     JUMPDEST |-> Op("opJumpdest", "JumpdestGas", 0, 0)]

\* What a family of opcodes has at each of its members.
Members(codes, first, OpOf(_)) ==
    [name \in DOMAIN codes |-> OpOf(codes[name] - codes[first])]

FrontierPush ==
    Members(PushCodes, "PUSH1",
        LAMBDA i : [Op(IF i = 0 THEN "opPush1" ELSE "makePush", "GasFastestStep", 0, 1)
                        EXCEPT !.n = i + 1])

minDupStack(n) == minStack(n, n + 1)
maxDupStack(n) == maxStack(n, n + 1)
minSwapStack(n) == minStack(n, n)
maxSwapStack(n) == maxStack(n, n)

FrontierDup ==
    Members(DupCodes, "DUP1",
        LAMBDA i : [Op("makeDup", "GasFastestStep", 0, 1) EXCEPT !.n = i + 1,
                        !.minStack = minDupStack(i + 1), !.maxStack = maxDupStack(i + 1)])

FrontierSwap ==
    Members(SwapCodes, "SWAP1",
        LAMBDA i : [Op("makeSwap", "GasFastestStep", 0, 0) EXCEPT !.n = i + 1,
                        !.minStack = minSwapStack(i + 2), !.maxStack = maxSwapStack(i + 2)])

FrontierLog ==
    Members(LogCodes, "LOG0",
        LAMBDA i : [InMemory(Op("makeLog", "Free", 2 + i, 0), "makeGasLog", "memoryLog")
                        EXCEPT !.n = i])

FrontierCalls ==
    [CREATE   |-> InMemory(Op("opCreate", "CreateGas", 3, 1), "gasCreate", "memoryCreate"),
     CALL     |-> InMemory(Op("opCall", "CallGasFrontier", 7, 1), "gasCall", "memoryCall"),
     CALLCODE |-> InMemory(Op("opCallCode", "CallGasFrontier", 7, 1), "gasCallCode", "memoryCall"),
     RETURN   |-> InMemory(Op("opReturn", "Free", 2, 0), "gasReturn", "memoryReturn"),
     SELFDESTRUCT |-> Metered(Op("opSelfdestruct", "Free", 1, 0), "gasSelfdestruct")]

newFrontierInstructionSet ==
    Joined({FrontierArithmetic, FrontierComparison, FrontierClosure, FrontierBlock, FrontierStorage,
            FrontierPush, FrontierDup, FrontierSwap, FrontierLog, FrontierCalls})

----------------------------------------------------------------------------
(* The improvement proposals.  Some change entries that a set may lack:    *)
(* an entry that is missing is the undefined operation, with the new gas.  *)

enable1884(set) ==
    With(Repriced(Repriced(set, "SLOAD", "SloadGasEIP1884"), "BALANCE", "BalanceGasEIP1884"),
         [SELFBALANCE |-> Op("opSelfBalance", "GasFastStep", 0, 1),
          EXTCODEHASH |-> [Entry(set, "EXTCODEHASH") EXCEPT !.constantGas = "ExtcodeHashGasEIP1884"]])

enable1344(set) == With(set, [CHAINID |-> Op("opChainID", "GasQuickStep", 0, 1)])

enable2200(set) ==
    [Repriced(set, "SLOAD", "SloadGasEIP2200") EXCEPT !["SSTORE"].dynamicGas = "gasSStoreEIP2200"]

\* The dynamic gas that replaces the one of an opcode whose constant gas is
\* now that of a warm access.
WarmGas == [EXTCODECOPY  |-> "gasExtCodeCopyEIP2929",
            EXTCODESIZE  |-> "gasEip2929AccountCheck",
            EXTCODEHASH  |-> "gasEip2929AccountCheck",
            BALANCE      |-> "gasEip2929AccountCheck",
            CALL         |-> "gasCallEIP2929",
            CALLCODE     |-> "gasCallCodeEIP2929",
            STATICCALL   |-> "gasStaticCallEIP2929",
            DELEGATECALL |-> "gasDelegateCallEIP2929"]

enable2929(set) ==
    LET ofStorage == [set EXCEPT
            !["SSTORE"].dynamicGas = "gasSStoreEIP2929",
            !["SLOAD"].dynamicGas = "gasSLoadEIP2929",
            !["SLOAD"].constantGas = "Free",
            !["SELFDESTRUCT"].constantGas = "SelfdestructGasEIP150",
            !["SELFDESTRUCT"].dynamicGas = "gasSelfdestructEIP2929"]
    IN  With(ofStorage,
             [name \in DOMAIN WarmGas |->
                [Entry(set, name) EXCEPT !.constantGas = "WarmStorageReadCostEIP2929",
                                         !.dynamicGas = WarmGas[name]]])

enable3529(set) ==
    [set EXCEPT !["SSTORE"].dynamicGas = "gasSStoreEIP3529",
                !["SELFDESTRUCT"].dynamicGas = "gasSelfdestructEIP3529"]

enable3198(set) == With(set, [BASEFEE |-> Op("opBaseFee", "GasQuickStep", 0, 1)])

enable1153(set) ==
    With(set, [TLOAD  |-> Op("opTload", "WarmStorageReadCostEIP2929", 1, 1),
               TSTORE |-> Op("opTstore", "WarmStorageReadCostEIP2929", 2, 0)])

enable3855(set) == With(set, [PUSH0 |-> Op("opPush0", "GasQuickStep", 0, 1)])

enable3860(set) ==
    With([set EXCEPT !["CREATE"].dynamicGas = "gasCreateEip3860"],
         [CREATE2 |-> Metered(Entry(set, "CREATE2"), "gasCreate2Eip3860")])

\* Slips a change to the code could make, each in the place of the definition
\* it is named after: only the destination of the copy is provided for.
enable5656_OneSide(set) ==
    With(set, [MCOPY |-> InMemory(Op("opMcopy", "GasFastestStep", 3, 0), "gasMcopy", "memoryCallDataCopy")])

enable5656(set) ==
    With(set, [MCOPY |-> InMemory(Op("opMcopy", "GasFastestStep", 3, 0), "gasMcopy", "memoryMcopy")])

enable4844(set) == With(set, [BLOBHASH |-> Op("opBlobHash", "GasFastestStep", 1, 1)])

enable7516(set) == With(set, [BLOBBASEFEE |-> Op("opBlobBaseFee", "GasQuickStep", 0, 1)])

enable6780(set) ==
    With(set, [SELFDESTRUCT |-> Metered(Op("opSelfdestruct6780", "SelfdestructGasEIP150", 1, 0),
                                        "gasSelfdestructEIP3529")])

----------------------------------------------------------------------------
(* The forks                                                               *)

newHomesteadInstructionSet ==
    With(newFrontierInstructionSet,
         [DELEGATECALL |-> InMemory(Op("opDelegateCall", "CallGasFrontier", 6, 1),
                                    "gasDelegateCall", "memoryDelegateCall")])

EIP150Gas == [BALANCE |-> "BalanceGasEIP150", EXTCODESIZE |-> "ExtcodeSizeGasEIP150",
              SLOAD |-> "SloadGasEIP150", EXTCODECOPY |-> "ExtcodeCopyBaseEIP150",
              CALL |-> "CallGasEIP150", CALLCODE |-> "CallGasEIP150",
              DELEGATECALL |-> "CallGasEIP150"]

newTangerineWhistleInstructionSet ==
    [name \in DOMAIN newHomesteadInstructionSet |->
        IF name \in DOMAIN EIP150Gas
        THEN [newHomesteadInstructionSet[name] EXCEPT !.constantGas = EIP150Gas[name]]
        ELSE newHomesteadInstructionSet[name]]

newSpuriousDragonInstructionSet ==
    [newTangerineWhistleInstructionSet EXCEPT !["EXP"].dynamicGas = "gasExpEIP158"]

newByzantiumInstructionSet ==
    With(newSpuriousDragonInstructionSet,
         [STATICCALL     |-> InMemory(Op("opStaticCall", "CallGasEIP150", 6, 1),
                                      "gasStaticCall", "memoryStaticCall"),
          RETURNDATASIZE |-> Op("opReturnDataSize", "GasQuickStep", 0, 1),
          RETURNDATACOPY |-> InMemory(Op("opReturnDataCopy", "GasFastestStep", 3, 0),
                                      "gasReturnDataCopy", "memoryReturnDataCopy"),
          REVERT         |-> InMemory(Op("opRevert", "Free", 2, 0), "gasRevert", "memoryRevert")])

newConstantinopleInstructionSet ==
    With(newByzantiumInstructionSet,
         [SHL |-> Op("opSHL", "GasFastestStep", 2, 1),
          SHR |-> Op("opSHR", "GasFastestStep", 2, 1),
          SAR |-> Op("opSAR", "GasFastestStep", 2, 1),
          EXTCODEHASH |-> Op("opExtCodeHash", "ExtcodeHashGasConstantinople", 1, 1),
          CREATE2 |-> InMemory(Op("opCreate2", "Create2Gas", 4, 1), "gasCreate2", "memoryCreate2")])

newIstanbulInstructionSet == enable2200(enable1884(enable1344(newConstantinopleInstructionSet)))

newBerlinInstructionSet == enable2929(newIstanbulInstructionSet)

newLondonInstructionSet == enable3198(enable3529(newBerlinInstructionSet))

newMergeInstructionSet ==
    With(newLondonInstructionSet, [PREVRANDAO |-> Op("opRandom", "GasQuickStep", 0, 1)])

newShanghaiInstructionSet == enable3860(enable3855(newMergeInstructionSet))

newCancunInstructionSet ==
    enable6780(enable5656(enable1153(enable7516(enable4844(newShanghaiInstructionSet)))))

Forks == <<"Frontier", "Homestead", "TangerineWhistle", "SpuriousDragon", "Byzantium",
           "Constantinople", "Petersburg", "Istanbul", "Berlin", "London", "Merge", "Shanghai",
           "Cancun">>

\* The rules a fork has are its own and those of the forks before it.
Since(fork, rule) ==
    \E i, j \in DOMAIN Forks : i >= j /\ Forks[i] = fork /\ Forks[j] = rule

\* The set the interpreter takes, by the newest rule of the chain.
SetOf == [Frontier |-> newFrontierInstructionSet,
          Homestead |-> newHomesteadInstructionSet,
          TangerineWhistle |-> newTangerineWhistleInstructionSet,
          SpuriousDragon |-> newSpuriousDragonInstructionSet,
          Byzantium |-> newByzantiumInstructionSet,
          Constantinople |-> newConstantinopleInstructionSet,
          Petersburg |-> newConstantinopleInstructionSet,
          Istanbul |-> newIstanbulInstructionSet,
          Berlin |-> newBerlinInstructionSet,
          London |-> newLondonInstructionSet,
          Merge |-> newMergeInstructionSet,
          Shanghai |-> newShanghaiInstructionSet,
          Cancun |-> newCancunInstructionSet]

\* EnableEIP on the set of a chain, for the proposals that have an activator.
Activators == {5656, 6780, 3855, 3860, 3529, 3198, 2929, 2200, 1884, 1344, 1153}

EnableEIP(eip, set) ==
    CASE eip = 5656 -> enable5656(set) [] eip = 6780 -> enable6780(set)
      [] eip = 3855 -> enable3855(set) [] eip = 3860 -> enable3860(set)
      [] eip = 3529 -> enable3529(set) [] eip = 3198 -> enable3198(set)
      [] eip = 2929 -> enable2929(set) [] eip = 2200 -> enable2200(set)
      [] eip = 1884 -> enable1884(set) [] eip = 1344 -> enable1344(set)
      [] eip = 1153 -> enable1153(set) [] OTHER -> set

\* The table the interpreter indexes with a byte of code.
ByByte(set) ==
    [b \in Bytes |->
        IF \E name \in DOMAIN set : OpCode[name] = b
        THEN set[CHOOSE name \in DOMAIN set : OpCode[name] = b]
        ELSE Undefined]

\* An operation may ask for memory only where it is charged for, or its set
\* is refused when the program starts.
Validates(op) == op.memorySize # "none" => op.dynamicGas # "none"
============================================================================
