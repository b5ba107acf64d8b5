------------------------------ MODULE OpCodes ------------------------------
(* The byte of every opcode, by its mnemonic.                              *)
EXTENDS Naturals, Sequences

\* The functions of a set with no name in common, as one.
Joined(F) == [x \in UNION {DOMAIN f : f \in F} |-> (CHOOSE f \in F : x \in DOMAIN f)[x]]

\* A function with some entries new or changed.
With(f, entries) ==
    [x \in DOMAIN f \cup DOMAIN entries |-> IF x \in DOMAIN entries THEN entries[x] ELSE f[x]]

\* The bytes of one block of opcodes: consecutive from the first.
Numbered(first, names) ==
    [n \in {names[i] : i \in DOMAIN names} |->
        first + (CHOOSE i \in DOMAIN names : names[i] = n) - 1]

ArithmeticCodes == Numbered(0, <<"STOP", "ADD", "MUL", "SUB", "DIV", "SDIV", "MOD", "SMOD",
                                 "ADDMOD", "MULMOD", "EXP", "SIGNEXTEND">>)
ComparisonCodes == Numbered(16, <<"LT", "GT", "SLT", "SGT", "EQ", "ISZERO", "AND", "OR", "XOR",
                                  "NOT", "BYTE", "SHL", "SHR", "SAR">>)
CryptoCodes == Numbered(32, <<"KECCAK256">>)
ClosureStateCodes == Numbered(48, <<"ADDRESS", "BALANCE", "ORIGIN", "CALLER", "CALLVALUE",
                                    "CALLDATALOAD", "CALLDATASIZE", "CALLDATACOPY", "CODESIZE",
                                    "CODECOPY", "GASPRICE", "EXTCODESIZE", "EXTCODECOPY",
                                    "RETURNDATASIZE", "RETURNDATACOPY", "EXTCODEHASH">>)
BlockCodes == Numbered(64, <<"BLOCKHASH", "COINBASE", "TIMESTAMP", "NUMBER", "PREVRANDAO",
                             "GASLIMIT", "CHAINID", "SELFBALANCE", "BASEFEE", "BLOBHASH",
                             "BLOBBASEFEE">>)
StorageCodes == Numbered(80, <<"POP", "MLOAD", "MSTORE", "MSTORE8", "SLOAD", "SSTORE", "JUMP",
                               "JUMPI", "PC", "MSIZE", "GAS", "JUMPDEST", "TLOAD", "TSTORE",
                               "MCOPY", "PUSH0">>)
PushCodes == Numbered(96, <<"PUSH1", "PUSH2", "PUSH3", "PUSH4", "PUSH5", "PUSH6", "PUSH7", "PUSH8",
                           "PUSH9", "PUSH10", "PUSH11", "PUSH12", "PUSH13", "PUSH14", "PUSH15",
                           "PUSH16", "PUSH17", "PUSH18", "PUSH19", "PUSH20", "PUSH21", "PUSH22",
                           "PUSH23", "PUSH24", "PUSH25", "PUSH26", "PUSH27", "PUSH28", "PUSH29",
                           "PUSH30", "PUSH31", "PUSH32">>)
DupCodes == Numbered(128, <<"DUP1", "DUP2", "DUP3", "DUP4", "DUP5", "DUP6", "DUP7", "DUP8", "DUP9",
                            "DUP10", "DUP11", "DUP12", "DUP13", "DUP14", "DUP15", "DUP16">>)
SwapCodes == Numbered(144, <<"SWAP1", "SWAP2", "SWAP3", "SWAP4", "SWAP5", "SWAP6", "SWAP7", "SWAP8",
                             "SWAP9", "SWAP10", "SWAP11", "SWAP12", "SWAP13", "SWAP14", "SWAP15",
                             "SWAP16">>)
LogCodes == Numbered(160, <<"LOG0", "LOG1", "LOG2", "LOG3", "LOG4">>)
ClosureCodes ==
    Joined({Numbered(240, <<"CREATE", "CALL", "CALLCODE", "RETURN", "DELEGATECALL", "CREATE2">>),
            Numbered(250, <<"STATICCALL">>), Numbered(253, <<"REVERT", "INVALID", "SELFDESTRUCT">>)})

OpCode ==
    Joined({ArithmeticCodes, ComparisonCodes, CryptoCodes, ClosureStateCodes, BlockCodes, StorageCodes,
            PushCodes, DupCodes, SwapCodes, LogCodes, ClosureCodes})

Bytes == 0..255

\* PUSH1 to PUSH32 carry data in the code; PUSH0 does not.
IsPush(op) == OpCode["PUSH1"] <= op /\ op <= OpCode["PUSH32"]
============================================================================
