---------------------------- MODULE EVMRunProofs ----------------------------
(***************************************************************************)
(* Proofs about the programs that run, whatever the operands, the prices   *)
(* and the fork: the jumps of every session, what the tables of operations *)
(* declare, and that no transaction meets a fault.                         *)
(***************************************************************************)
EXTENDS EVMProofs

----------------------------------------------------------------------------
(* The pushes                                                              *)

PushNames ==
    {"PUSH1", "PUSH2", "PUSH3", "PUSH4", "PUSH5", "PUSH6", "PUSH7", "PUSH8", "PUSH9", "PUSH10",
     "PUSH11", "PUSH12", "PUSH13", "PUSH14", "PUSH15", "PUSH16", "PUSH17", "PUSH18", "PUSH19",
     "PUSH20", "PUSH21", "PUSH22", "PUSH23", "PUSH24", "PUSH25", "PUSH26", "PUSH27", "PUSH28",
     "PUSH29", "PUSH30", "PUSH31", "PUSH32"}

\* The names of a block of opcodes that holds neither a push nor STOP.
Apart(codes) == \A name \in DOMAIN codes : name \notin PushNames \cup {"STOP"}

Spans(codes, first, last) == \A name \in DOMAIN codes : codes[name] \in first..last

Others(names, count) == \A i \in 1..count : names[i] \notin PushNames \cup {"STOP"}

BlockOf(codes, first, names, count) ==
    /\ first \in Nat /\ count \in Nat
    /\ DOMAIN names = 1..count /\ Others(names, count)
    /\ codes = Numbered(first, names)

LEMMA NumberedSpans ==
    ASSUME NEW first, NEW names, NEW count, NEW codes, BlockOf(codes, first, names, count)
    PROVE  Spans(codes, first, first + count - 1) /\ Apart(codes)
<1> DEFINE at(n) == CHOOSE i \in DOMAIN names : names[i] = n
<1>0. /\ first \in Nat /\ count \in Nat /\ DOMAIN names = 1..count /\ Others(names, count)
      /\ codes = Numbered(first, names)
  BY DEF BlockOf
<1> USE <1>0
<1>1. \A n \in DOMAIN codes : at(n) \in 1..count /\ names[at(n)] = n /\ codes[n] = first + at(n) - 1
  <2> SUFFICES ASSUME NEW n \in DOMAIN codes
               PROVE  at(n) \in 1..count /\ names[at(n)] = n /\ codes[n] = first + at(n) - 1
    OBVIOUS
  <2>1. \E i \in DOMAIN names : names[i] = n
    BY DEF Numbered
  <2> QED BY <2>1 DEF Numbered
<1> HIDE DEF at
<1>2. Spans(codes, first, first + count - 1)
  BY <1>1 DEF Spans
<1>3. Apart(codes)
  BY <1>1 DEF Apart, Others
<1> QED BY <1>2, <1>3

\* What a name stands for in a union of functions, one of them says.
LEMMA JoinedMember ==
    ASSUME NEW F, NEW name \in DOMAIN Joined(F)
    PROVE  \E f \in F : name \in DOMAIN f /\ Joined(F)[name] = f[name]
<1> DEFINE g == CHOOSE f \in F : name \in DOMAIN f
<1>1. name \in UNION {DOMAIN f : f \in F}
  BY DEF Joined
<1>2. g \in F /\ name \in DOMAIN g
  BY <1>1
<1>3. Joined(F)[name] = g[name]
  BY <1>1 DEF Joined
<1> HIDE DEF g
<1> QED BY <1>2, <1>3

LEMMA BlocksApart ==
    /\ Spans(ComparisonCodes, 16, 29) /\ Apart(ComparisonCodes)
    /\ Spans(CryptoCodes, 32, 32) /\ Apart(CryptoCodes)
    /\ Spans(ClosureStateCodes, 48, 63) /\ Apart(ClosureStateCodes)
    /\ Spans(BlockCodes, 64, 74) /\ Apart(BlockCodes)
    /\ Spans(StorageCodes, 80, 95) /\ Apart(StorageCodes)
    /\ Spans(DupCodes, 128, 143) /\ Apart(DupCodes)
    /\ Spans(SwapCodes, 144, 159) /\ Apart(SwapCodes)
    /\ Spans(LogCodes, 160, 164) /\ Apart(LogCodes)
<1>1. Spans(ComparisonCodes, 16, 29) /\ Apart(ComparisonCodes)
  <2> DEFINE names == <<"LT", "GT", "SLT", "SGT", "EQ", "ISZERO", "AND", "OR", "XOR", "NOT",
                        "BYTE", "SHL", "SHR", "SAR">>
  <2>1. DOMAIN names = 1..14
    OBVIOUS
  <2>2. Others(names, 14)
    BY DEF Others, PushNames
  <2>3. ComparisonCodes = Numbered(16, names)
    BY DEF ComparisonCodes
  <2> HIDE DEF names
  <2>4. BlockOf(ComparisonCodes, 16, names, 14)
    BY <2>1, <2>2, <2>3 DEF BlockOf
  <2>5. Spans(ComparisonCodes, 16, 16 + 14 - 1) /\ Apart(ComparisonCodes)
    BY <2>4, NumberedSpans
  <2>6. 16 + 14 - 1 = 29
    OBVIOUS
  <2> QED BY <2>5, <2>6
<1>2. Spans(CryptoCodes, 32, 32) /\ Apart(CryptoCodes)
  <2> DEFINE names == <<"KECCAK256">>
  <2>1. DOMAIN names = 1..1
    OBVIOUS
  <2>2. Others(names, 1)
    BY DEF Others, PushNames
  <2>3. CryptoCodes = Numbered(32, names)
    BY DEF CryptoCodes
  <2> HIDE DEF names
  <2>4. BlockOf(CryptoCodes, 32, names, 1)
    BY <2>1, <2>2, <2>3 DEF BlockOf
  <2>5. Spans(CryptoCodes, 32, 32 + 1 - 1) /\ Apart(CryptoCodes)
    BY <2>4, NumberedSpans
  <2>6. 32 + 1 - 1 = 32
    OBVIOUS
  <2> QED BY <2>5, <2>6
<1>3. Spans(ClosureStateCodes, 48, 63) /\ Apart(ClosureStateCodes)
  <2> DEFINE names == <<"ADDRESS", "BALANCE", "ORIGIN", "CALLER", "CALLVALUE", "CALLDATALOAD",
                        "CALLDATASIZE", "CALLDATACOPY", "CODESIZE", "CODECOPY", "GASPRICE",
                        "EXTCODESIZE", "EXTCODECOPY", "RETURNDATASIZE", "RETURNDATACOPY",
                        "EXTCODEHASH">>
  <2>1. DOMAIN names = 1..16
    OBVIOUS
  <2>2. Others(names, 16)
    BY DEF Others, PushNames
  <2>3. ClosureStateCodes = Numbered(48, names)
    BY DEF ClosureStateCodes
  <2> HIDE DEF names
  <2>4. BlockOf(ClosureStateCodes, 48, names, 16)
    BY <2>1, <2>2, <2>3 DEF BlockOf
  <2>5. Spans(ClosureStateCodes, 48, 48 + 16 - 1) /\ Apart(ClosureStateCodes)
    BY <2>4, NumberedSpans
  <2>6. 48 + 16 - 1 = 63
    OBVIOUS
  <2> QED BY <2>5, <2>6
<1>4. Spans(BlockCodes, 64, 74) /\ Apart(BlockCodes)
  <2> DEFINE names == <<"BLOCKHASH", "COINBASE", "TIMESTAMP", "NUMBER", "PREVRANDAO",
                        "GASLIMIT", "CHAINID", "SELFBALANCE", "BASEFEE", "BLOBHASH",
                        "BLOBBASEFEE">>
  <2>1. DOMAIN names = 1..11
    OBVIOUS
  <2>2. Others(names, 11)
    BY DEF Others, PushNames
  <2>3. BlockCodes = Numbered(64, names)
    BY DEF BlockCodes
  <2> HIDE DEF names
  <2>4. BlockOf(BlockCodes, 64, names, 11)
    BY <2>1, <2>2, <2>3 DEF BlockOf
  <2>5. Spans(BlockCodes, 64, 64 + 11 - 1) /\ Apart(BlockCodes)
    BY <2>4, NumberedSpans
  <2>6. 64 + 11 - 1 = 74
    OBVIOUS
  <2> QED BY <2>5, <2>6
<1>5. Spans(StorageCodes, 80, 95) /\ Apart(StorageCodes)
  <2> DEFINE names == <<"POP", "MLOAD", "MSTORE", "MSTORE8", "SLOAD", "SSTORE", "JUMP",
                        "JUMPI", "PC", "MSIZE", "GAS", "JUMPDEST", "TLOAD", "TSTORE", "MCOPY",
                        "PUSH0">>
  <2>1. DOMAIN names = 1..16
    OBVIOUS
  <2>2. Others(names, 16)
    BY DEF Others, PushNames
  <2>3. StorageCodes = Numbered(80, names)
    BY DEF StorageCodes
  <2> HIDE DEF names
  <2>4. BlockOf(StorageCodes, 80, names, 16)
    BY <2>1, <2>2, <2>3 DEF BlockOf
  <2>5. Spans(StorageCodes, 80, 80 + 16 - 1) /\ Apart(StorageCodes)
    BY <2>4, NumberedSpans
  <2>6. 80 + 16 - 1 = 95
    OBVIOUS
  <2> QED BY <2>5, <2>6
<1>6. Spans(DupCodes, 128, 143) /\ Apart(DupCodes)
  <2> DEFINE names == <<"DUP1", "DUP2", "DUP3", "DUP4", "DUP5", "DUP6", "DUP7", "DUP8",
                        "DUP9", "DUP10", "DUP11", "DUP12", "DUP13", "DUP14", "DUP15", "DUP16">>
  <2>1. DOMAIN names = 1..16
    OBVIOUS
  <2>2. Others(names, 16)
    BY DEF Others, PushNames
  <2>3. DupCodes = Numbered(128, names)
    BY DEF DupCodes
  <2> HIDE DEF names
  <2>4. BlockOf(DupCodes, 128, names, 16)
    BY <2>1, <2>2, <2>3 DEF BlockOf
  <2>5. Spans(DupCodes, 128, 128 + 16 - 1) /\ Apart(DupCodes)
    BY <2>4, NumberedSpans
  <2>6. 128 + 16 - 1 = 143
    OBVIOUS
  <2> QED BY <2>5, <2>6
<1>7. Spans(SwapCodes, 144, 159) /\ Apart(SwapCodes)
  <2> DEFINE names == <<"SWAP1", "SWAP2", "SWAP3", "SWAP4", "SWAP5", "SWAP6", "SWAP7",
                        "SWAP8", "SWAP9", "SWAP10", "SWAP11", "SWAP12", "SWAP13", "SWAP14",
                        "SWAP15", "SWAP16">>
  <2>1. DOMAIN names = 1..16
    OBVIOUS
  <2>2. Others(names, 16)
    BY DEF Others, PushNames
  <2>3. SwapCodes = Numbered(144, names)
    BY DEF SwapCodes
  <2> HIDE DEF names
  <2>4. BlockOf(SwapCodes, 144, names, 16)
    BY <2>1, <2>2, <2>3 DEF BlockOf
  <2>5. Spans(SwapCodes, 144, 144 + 16 - 1) /\ Apart(SwapCodes)
    BY <2>4, NumberedSpans
  <2>6. 144 + 16 - 1 = 159
    OBVIOUS
  <2> QED BY <2>5, <2>6
<1>8. Spans(LogCodes, 160, 164) /\ Apart(LogCodes)
  <2> DEFINE names == <<"LOG0", "LOG1", "LOG2", "LOG3", "LOG4">>
  <2>1. DOMAIN names = 1..5
    OBVIOUS
  <2>2. Others(names, 5)
    BY DEF Others, PushNames
  <2>3. LogCodes = Numbered(160, names)
    BY DEF LogCodes
  <2> HIDE DEF names
  <2>4. BlockOf(LogCodes, 160, names, 5)
    BY <2>1, <2>2, <2>3 DEF BlockOf
  <2>5. Spans(LogCodes, 160, 160 + 5 - 1) /\ Apart(LogCodes)
    BY <2>4, NumberedSpans
  <2>6. 160 + 5 - 1 = 164
    OBVIOUS
  <2> QED BY <2>5, <2>6
<1> QED BY <1>1, <1>2, <1>3, <1>4, <1>5, <1>6, <1>7, <1>8

LEMMA ClosureApart == Spans(ClosureCodes, 240, 255) /\ Apart(ClosureCodes)
<1> DEFINE first == Numbered(240, <<"CREATE", "CALL", "CALLCODE", "RETURN", "DELEGATECALL", "CREATE2">>)
           second == Numbered(250, <<"STATICCALL">>)
           third == Numbered(253, <<"REVERT", "INVALID", "SELFDESTRUCT">>)
<1>1. Spans(first, 240, 255) /\ Apart(first)
  <2> DEFINE names == <<"CREATE", "CALL", "CALLCODE", "RETURN", "DELEGATECALL", "CREATE2">>
  <2>1. DOMAIN names = 1..6
    OBVIOUS
  <2>2. Others(names, 6)
    BY DEF Others, PushNames
  <2>3. first = Numbered(240, names)
    OBVIOUS
  <2> HIDE DEF names, first
  <2>4. BlockOf(first, 240, names, 6)
    BY <2>1, <2>2, <2>3 DEF BlockOf
  <2>5. Spans(first, 240, 240 + 6 - 1) /\ Apart(first)
    BY <2>4, NumberedSpans
  <2> QED BY <2>5 DEF Spans
<1>2. Spans(second, 240, 255) /\ Apart(second)
  <2> DEFINE names == <<"STATICCALL">>
  <2>1. DOMAIN names = 1..1
    OBVIOUS
  <2>2. Others(names, 1)
    BY DEF Others, PushNames
  <2>3. second = Numbered(250, names)
    OBVIOUS
  <2> HIDE DEF names, second
  <2>4. BlockOf(second, 250, names, 1)
    BY <2>1, <2>2, <2>3 DEF BlockOf
  <2>5. Spans(second, 250, 250 + 1 - 1) /\ Apart(second)
    BY <2>4, NumberedSpans
  <2> QED BY <2>5 DEF Spans
<1>3. Spans(third, 240, 255) /\ Apart(third)
  <2> DEFINE names == <<"REVERT", "INVALID", "SELFDESTRUCT">>
  <2>1. DOMAIN names = 1..3
    OBVIOUS
  <2>2. Others(names, 3)
    BY DEF Others, PushNames
  <2>3. third = Numbered(253, names)
    OBVIOUS
  <2> HIDE DEF names, third
  <2>4. BlockOf(third, 253, names, 3)
    BY <2>1, <2>2, <2>3 DEF BlockOf
  <2>5. Spans(third, 253, 253 + 3 - 1) /\ Apart(third)
    BY <2>4, NumberedSpans
  <2> QED BY <2>5 DEF Spans
<1>4. ClosureCodes = Joined({first, second, third})
  BY DEF ClosureCodes
<1> HIDE DEF first, second, third
<1> SUFFICES ASSUME NEW name \in DOMAIN ClosureCodes
             PROVE  ClosureCodes[name] \in 240..255 /\ name \notin PushNames \cup {"STOP"}
  BY DEF Spans, Apart
<1>5. PICK codes \in {first, second, third} : name \in DOMAIN codes /\ ClosureCodes[name] = codes[name]
  BY <1>4, JoinedMember
<1> QED BY <1>1, <1>2, <1>3, <1>5 DEF Spans, Apart


LEMMA PushBytes ==
    /\ DOMAIN PushCodes = PushNames
    /\ Spans(PushCodes, 96, 127)
    /\ PushCodes["PUSH1"] = 96 /\ PushCodes["PUSH32"] = 127
    /\ \A b \in 96..127 : \E name \in PushNames : PushCodes[name] = b
<1> DEFINE names == <<"PUSH1", "PUSH2", "PUSH3", "PUSH4", "PUSH5", "PUSH6", "PUSH7", "PUSH8",
                      "PUSH9", "PUSH10", "PUSH11", "PUSH12", "PUSH13", "PUSH14", "PUSH15",
                      "PUSH16", "PUSH17", "PUSH18", "PUSH19", "PUSH20", "PUSH21", "PUSH22",
                      "PUSH23", "PUSH24", "PUSH25", "PUSH26", "PUSH27", "PUSH28", "PUSH29",
                      "PUSH30", "PUSH31", "PUSH32">>
<1>1. DOMAIN names = 1..32 /\ names[1] = "PUSH1" /\ names[32] = "PUSH32"
  OBVIOUS
<1>2. PushNames = {names[i] : i \in 1..32}
  <2>1. \A i \in 1..32 : names[i] \in PushNames
    BY DEF PushNames
  <2>2. \A name \in PushNames : \E i \in 1..32 : names[i] = name
    BY DEF PushNames
  <2> QED BY <2>1, <2>2
<1>3. \A i, j \in 1..32 : names[i] = names[j] => i = j
  OBVIOUS
<1>4. PushCodes = Numbered(96, names)
  BY DEF PushCodes
<1> HIDE DEF names
<1>5. DOMAIN PushCodes = PushNames
  BY <1>1, <1>2, <1>4 DEF Numbered
<1>6. \A i \in 1..32 : names[i] \in PushNames /\ PushCodes[names[i]] = 95 + i
  <2> SUFFICES ASSUME NEW i \in 1..32 PROVE names[i] \in PushNames /\ PushCodes[names[i]] = 95 + i
    OBVIOUS
  <2> DEFINE at == CHOOSE j \in DOMAIN names : names[j] = names[i]
  <2>1. at \in 1..32 /\ names[at] = names[i]
    BY <1>1
  <2>2. names[i] \in DOMAIN PushCodes
    BY <1>2, <1>5
  <2>3. PushCodes[names[i]] = 96 + at - 1
    BY <1>4, <2>2 DEF Numbered
  <2> HIDE DEF at
  <2>4. at = i
    BY <1>3, <2>1
  <2> QED BY <1>2, <2>3, <2>4
<1>7. \A name \in PushNames : \E i \in 1..32 : names[i] = name
  BY <1>2
<1>8. Spans(PushCodes, 96, 127)
  BY <1>5, <1>6, <1>7 DEF Spans
<1>9. \A b \in 96..127 : b - 95 \in 1..32 /\ b = 95 + (b - 95)
  OBVIOUS
<1> QED BY <1>1, <1>5, <1>6, <1>8, <1>9

LEMMA StopByte ==
    /\ Spans(ArithmeticCodes, 0, 11) /\ "STOP" \in DOMAIN ArithmeticCodes
    /\ \A name \in DOMAIN ArithmeticCodes : /\ name \notin PushNames
                                            /\ ArithmeticCodes[name] = 0 <=> name = "STOP"
<1> DEFINE names == <<"STOP", "ADD", "MUL", "SUB", "DIV", "SDIV", "MOD", "SMOD", "ADDMOD",
                      "MULMOD", "EXP", "SIGNEXTEND">>
<1>1. DOMAIN names = 1..12 /\ names[1] = "STOP" /\ \A i \in 1..12 : names[i] = names[1] => i = 1
  OBVIOUS
<1>2. \A i \in 1..12 : names[i] \notin PushNames
  BY DEF PushNames
<1>3. ArithmeticCodes = Numbered(0, names)
  BY DEF ArithmeticCodes
<1> HIDE DEF names
<1>4. /\ \A name \in DOMAIN ArithmeticCodes : \E i \in DOMAIN names :
              name = names[i] /\ ArithmeticCodes[name] = 0 + i - 1
      /\ ArithmeticCodes[names[1]] = 0
  BY <1>1, <1>3, NumberedFrom
<1>5. "STOP" \in DOMAIN ArithmeticCodes
  BY <1>1, <1>3 DEF Numbered
<1>6. \A name \in DOMAIN ArithmeticCodes : \E i \in 1..12 : name = names[i] /\ ArithmeticCodes[name] = i - 1
  BY <1>1, <1>4
<1>7. Spans(ArithmeticCodes, 0, 11)
  BY <1>6 DEF Spans
<1>8. \A name \in DOMAIN ArithmeticCodes : ArithmeticCodes[name] = 0 => name = "STOP"
  BY <1>1, <1>6
<1> QED BY <1>1, <1>2, <1>4, <1>5, <1>6, <1>7, <1>8

LEMMA OpCodeOf ==
    /\ PushNames \cup {"STOP", "JUMPDEST"} \subseteq DOMAIN OpCode
    /\ \A name \in DOMAIN OpCode : /\ name \in PushNames => OpCode[name] = PushCodes[name]
                                   /\ name \notin PushNames => OpCode[name] \notin 96..127
                                   /\ OpCode[name] = 0 <=> name = "STOP"
<1> DEFINE F == {ArithmeticCodes, ComparisonCodes, CryptoCodes, ClosureStateCodes, BlockCodes, StorageCodes,
                 PushCodes, DupCodes, SwapCodes, LogCodes, ClosureCodes}
<1>1. OpCode = Joined(F)
  BY DEF OpCode
<1>2. PushNames \cup {"STOP", "JUMPDEST"} \subseteq DOMAIN OpCode
  <2>1. "JUMPDEST" \in DOMAIN StorageCodes
    BY DEF StorageCodes, Numbered
  <2>2. \A codes \in F : DOMAIN codes \subseteq DOMAIN OpCode
    <3> HIDE DEF F
    <3> QED BY <1>1 DEF Joined
  <2> QED BY <2>1, <2>2, PushBytes, StopByte
<1>3. ASSUME NEW name \in DOMAIN OpCode
      PROVE  /\ name \in PushNames => OpCode[name] = PushCodes[name]
             /\ name \notin PushNames => OpCode[name] \notin 96..127
             /\ OpCode[name] = 0 <=> name = "STOP"
  <2>1. PICK codes \in F : name \in DOMAIN codes /\ OpCode[name] = codes[name]
    <3> HIDE DEF F
    <3> QED BY <1>1, JoinedMember
  <2>2. CASE codes = PushCodes
    <3>1. "STOP" \notin PushNames
      BY DEF PushNames
    <3>2. name \in PushNames /\ OpCode[name] \in 96..127
      BY <2>1, <2>2, PushBytes DEF Spans
    <3> QED BY <2>1, <2>2, <3>1, <3>2
  <2>3. CASE codes = ArithmeticCodes
    <3>1. name \notin PushNames /\ OpCode[name] \in 0..11 /\ (OpCode[name] = 0 <=> name = "STOP")
      BY <2>1, <2>3, StopByte DEF Spans
    <3> QED BY <3>1
  <2>4. CASE codes \in {ComparisonCodes, CryptoCodes, ClosureStateCodes, BlockCodes, StorageCodes}
    <3>1. Apart(codes) /\ (\A n \in DOMAIN codes : codes[n] \in 16..95)
      BY <2>4, BlocksApart DEF Spans
    <3> QED BY <2>1, <3>1 DEF Apart
  <2>5. CASE codes \in {DupCodes, SwapCodes, LogCodes, ClosureCodes}
    <3>1. Apart(codes) /\ (\A n \in DOMAIN codes : codes[n] \in 128..255)
      BY <2>5, BlocksApart, ClosureApart DEF Spans
    <3> QED BY <2>1, <3>1 DEF Apart
  <2> QED BY <2>1, <2>2, <2>3, <2>4, <2>5
<1> QED BY <1>2, <1>3

----------------------------------------------------------------------------
(* Tables: what the pushes and STOP are in every instruction set           *)

\* The names of opcodes that are neither a push nor STOP; those of no family.
PlainNames == DOMAIN OpCode \ (PushNames \cup {"STOP"})

Singles ==
    {"LT", "GT", "SLT", "SGT", "EQ", "ISZERO", "AND", "OR", "XOR", "NOT", "BYTE", "SHL",
     "SHR", "SAR", "KECCAK256", "ADDRESS", "BALANCE", "ORIGIN", "CALLER", "CALLVALUE",
     "CALLDATALOAD", "CALLDATASIZE", "CALLDATACOPY", "CODESIZE", "CODECOPY", "GASPRICE",
     "EXTCODESIZE", "EXTCODECOPY", "RETURNDATASIZE", "RETURNDATACOPY", "EXTCODEHASH",
     "BLOCKHASH", "COINBASE", "TIMESTAMP", "NUMBER", "PREVRANDAO", "GASLIMIT", "CHAINID",
     "SELFBALANCE", "BASEFEE", "BLOBHASH", "BLOBBASEFEE", "POP", "MLOAD", "MSTORE",
     "MSTORE8", "SLOAD", "SSTORE", "JUMP", "JUMPI", "PC", "MSIZE", "GAS", "JUMPDEST",
     "TLOAD", "TSTORE", "MCOPY", "PUSH0", "CREATE", "CALL", "CALLCODE", "RETURN",
     "DELEGATECALL", "CREATE2", "STATICCALL", "REVERT", "INVALID", "SELFDESTRUCT", "ADD",
     "MUL", "SUB", "DIV", "SDIV", "MOD", "SMOD", "ADDMOD", "MULMOD", "EXP", "SIGNEXTEND"}

LEMMA SinglesArePlain ==
    /\ Singles \subseteq PlainNames
    /\ DOMAIN DupCodes \cup DOMAIN SwapCodes \cup DOMAIN LogCodes \subseteq PlainNames
<1>1. \A codes \in {ArithmeticCodes, ComparisonCodes, CryptoCodes, ClosureStateCodes, BlockCodes, StorageCodes,
                   ClosureCodes, DupCodes, SwapCodes, LogCodes} : DOMAIN codes \subseteq DOMAIN OpCode
  BY DEF OpCode, Joined
<1>2. {"ADD", "MUL", "SUB", "DIV", "SDIV", "MOD", "SMOD", "ADDMOD", "MULMOD", "EXP",
       "SIGNEXTEND"}
        \subseteq DOMAIN ArithmeticCodes
  BY DEF ArithmeticCodes, Numbered
<1>3. {"LT", "GT", "SLT", "SGT", "EQ", "ISZERO", "AND", "OR", "XOR", "NOT", "BYTE", "SHL",
       "SHR", "SAR"}
        \subseteq DOMAIN ComparisonCodes
  BY DEF ComparisonCodes, Numbered
<1>4. {"KECCAK256"} \subseteq DOMAIN CryptoCodes
  BY DEF CryptoCodes, Numbered
<1>5. {"ADDRESS", "BALANCE", "ORIGIN", "CALLER", "CALLVALUE", "CALLDATALOAD",
       "CALLDATASIZE", "CALLDATACOPY", "CODESIZE", "CODECOPY", "GASPRICE",
       "EXTCODESIZE", "EXTCODECOPY", "RETURNDATASIZE", "RETURNDATACOPY",
       "EXTCODEHASH"}
        \subseteq DOMAIN ClosureStateCodes
  BY DEF ClosureStateCodes, Numbered
<1>6. {"BLOCKHASH", "COINBASE", "TIMESTAMP", "NUMBER", "PREVRANDAO", "GASLIMIT",
       "CHAINID", "SELFBALANCE", "BASEFEE", "BLOBHASH", "BLOBBASEFEE"}
        \subseteq DOMAIN BlockCodes
  BY DEF BlockCodes, Numbered
<1>7. {"POP", "MLOAD", "MSTORE", "MSTORE8", "SLOAD", "SSTORE", "JUMP", "JUMPI", "PC",
       "MSIZE", "GAS", "JUMPDEST", "TLOAD", "TSTORE", "MCOPY", "PUSH0"}
        \subseteq DOMAIN StorageCodes
  BY DEF StorageCodes, Numbered
<1>8. {"CREATE", "CALL", "CALLCODE", "RETURN", "DELEGATECALL", "CREATE2", "STATICCALL",
       "REVERT", "INVALID", "SELFDESTRUCT"}
        \subseteq DOMAIN ClosureCodes
  BY DEF ClosureCodes, Numbered, Joined
<1>9. Singles \cap (PushNames \cup {"STOP"}) = {}
  BY DEF Singles, PushNames
<1>10. Singles \subseteq DOMAIN OpCode
  BY <1>1, <1>2, <1>3, <1>4, <1>5, <1>6, <1>7, <1>8 DEF Singles
<1>11. DOMAIN DupCodes \cup DOMAIN SwapCodes \cup DOMAIN LogCodes \subseteq PlainNames
  BY <1>1, BlocksApart DEF Apart, PlainNames
<1> QED BY <1>9, <1>10, <1>11 DEF PlainNames


Pushing == {"opPush1", "makePush"}

\* A push skips as many bytes as it has behind it, nothing else skips any, and
\* STOP stops.
Skipping(name, op) ==
    /\ name \in DOMAIN OpCode /\ OpFields \subseteq DOMAIN op
    /\ name \in PushNames => op.execute \in Pushing /\ op.n = PushCodes[name] - 95
    /\ name \notin PushNames => op.execute \notin Pushing
    /\ name = "STOP" => op.execute = "opStop"

SkippingSet(set) == \A name \in DOMAIN set : Skipping(name, set[name])

Steady(set) == SkippingSet(set) /\ PushNames \cup {"STOP"} \subseteq DOMAIN set

LEMMA WithSkipping ==
    ASSUME NEW set, NEW entries, SkippingSet(entries)
    PROVE  /\ SkippingSet(set) => SkippingSet(With(set, entries))
           /\ Steady(set) => Steady(With(set, entries))
  BY DEF SkippingSet, Steady, With

LEMMA JoinedSkipping ==
    ASSUME NEW F, \A f \in F : SkippingSet(f)
    PROVE  SkippingSet(Joined(F))
  BY JoinedMember DEF SkippingSet

\* An entry that skips nothing, and a set of entries for names that are no push.
Fresh(set) == DOMAIN set \subseteq PlainNames

Plainly(op) == OpFields \subseteq DOMAIN op /\ op.execute \notin Pushing

LEMMA PlainMade ==
    ASSUME NEW execute, execute \notin Pushing, NEW gas, NEW pops, NEW push
    PROVE  /\ Plainly(Op(execute, gas, pops, push))
           /\ \A dynamic : Plainly(Metered(Op(execute, gas, pops, push), dynamic))
           /\ \A dynamic, size : Plainly(InMemory(Op(execute, gas, pops, push), dynamic, size))
<1> DEFINE op == Op(execute, gas, pops, push)
<1>1. OpFields \subseteq DOMAIN op /\ op.execute = execute
  BY OpParts
<1> HIDE DEF op
<1>2. \A dynamic : Plainly(Metered(op, dynamic))
  BY <1>1, MeteredParts DEF Plainly
<1>3. \A dynamic, size : Plainly(InMemory(op, dynamic, size))
  BY <1>1, InMemoryParts DEF Plainly
<1> QED BY <1>1, <1>2, <1>3 DEF Plainly, op

LEMMA PlainSkipping ==
    ASSUME NEW set, Fresh(set), \A name \in DOMAIN set : Plainly(set[name])
    PROVE  SkippingSet(set)
  BY DEF SkippingSet, Skipping, Fresh, PlainNames, Plainly

LEMMA OtherSkipping ==
    /\ SkippingSet(FrontierComparison) /\ SkippingSet(FrontierClosure) /\ SkippingSet(FrontierBlock)
    /\ SkippingSet(FrontierStorage) /\ SkippingSet(FrontierCalls)
<1>1. SkippingSet(FrontierComparison)
  <2>1. Fresh(FrontierComparison)
    BY SinglesArePlain DEF FrontierComparison, Fresh, Singles
  <2>2. \A name \in DOMAIN FrontierComparison : Plainly(FrontierComparison[name])
    BY PlainMade DEF FrontierComparison, Pushing
  <2> QED BY <2>1, <2>2, PlainSkipping
<1>2. SkippingSet(FrontierClosure)
  <2>1. Fresh(FrontierClosure)
    BY SinglesArePlain DEF FrontierClosure, Fresh, Singles
  <2>2. \A name \in DOMAIN FrontierClosure : Plainly(FrontierClosure[name])
    BY PlainMade DEF FrontierClosure, Pushing
  <2> QED BY <2>1, <2>2, PlainSkipping
<1>3. SkippingSet(FrontierBlock)
  <2>1. Fresh(FrontierBlock)
    BY SinglesArePlain DEF FrontierBlock, Fresh, Singles
  <2>2. \A name \in DOMAIN FrontierBlock : Plainly(FrontierBlock[name])
    BY PlainMade DEF FrontierBlock, Pushing
  <2> QED BY <2>1, <2>2, PlainSkipping
<1>4. SkippingSet(FrontierStorage)
  <2>1. Fresh(FrontierStorage)
    BY SinglesArePlain DEF FrontierStorage, Fresh, Singles
  <2>2. \A name \in DOMAIN FrontierStorage : Plainly(FrontierStorage[name])
    BY PlainMade DEF FrontierStorage, Pushing
  <2> QED BY <2>1, <2>2, PlainSkipping
<1>5. SkippingSet(FrontierCalls)
  <2>1. Fresh(FrontierCalls)
    BY SinglesArePlain DEF FrontierCalls, Fresh, Singles
  <2>2. \A name \in DOMAIN FrontierCalls : Plainly(FrontierCalls[name])
    BY PlainMade, SMTT(30) DEF FrontierCalls, Pushing
  <2> QED BY <2>1, <2>2, PlainSkipping
<1> QED BY <1>1, <1>2, <1>3, <1>4, <1>5

LEMMA FamiliesSkipping ==
    SkippingSet(FrontierDup) /\ SkippingSet(FrontierSwap) /\ SkippingSet(FrontierLog)
<1>1. SkippingSet(FrontierDup)
  <2>1. DOMAIN FrontierDup = DOMAIN DupCodes
    BY DEF FrontierDup, Members
  <2>2. ASSUME NEW name \in DOMAIN FrontierDup PROVE Plainly(FrontierDup[name])
    <3> DEFINE i == DupCodes[name] - DupCodes["DUP1"]
               op == Op("makeDup", "GasFastestStep", 0, 1)
               made == [op EXCEPT !.n = i + 1, !.minStack = minDupStack(i + 1),
                                  !.maxStack = maxDupStack(i + 1)]
    <3>1. FrontierDup[name] = made
      BY <2>1 DEF FrontierDup, Members
    <3>2. OpFields \subseteq DOMAIN op /\ op.execute = "makeDup"
      BY OpParts
    <3> HIDE DEF i, op
    <3>3. OpFields \subseteq DOMAIN made /\ made.execute = "makeDup"
      BY <3>2 DEF OpFields
    <3> QED BY <3>1, <3>3 DEF Plainly, Pushing
  <2> QED BY <2>1, <2>2, SinglesArePlain, PlainSkipping DEF Fresh
<1>2. SkippingSet(FrontierSwap)
  <2>1. DOMAIN FrontierSwap = DOMAIN SwapCodes
    BY DEF FrontierSwap, Members
  <2>2. ASSUME NEW name \in DOMAIN FrontierSwap PROVE Plainly(FrontierSwap[name])
    <3> DEFINE i == SwapCodes[name] - SwapCodes["SWAP1"]
               op == Op("makeSwap", "GasFastestStep", 0, 0)
               made == [op EXCEPT !.n = i + 1, !.minStack = minSwapStack(i + 2),
                                  !.maxStack = maxSwapStack(i + 2)]
    <3>1. FrontierSwap[name] = made
      BY <2>1 DEF FrontierSwap, Members
    <3>2. OpFields \subseteq DOMAIN op /\ op.execute = "makeSwap"
      BY OpParts
    <3> HIDE DEF i, op
    <3>3. OpFields \subseteq DOMAIN made /\ made.execute = "makeSwap"
      BY <3>2 DEF OpFields
    <3> QED BY <3>1, <3>3 DEF Plainly, Pushing
  <2> QED BY <2>1, <2>2, SinglesArePlain, PlainSkipping DEF Fresh
<1>3. SkippingSet(FrontierLog)
  <2>1. DOMAIN FrontierLog = DOMAIN LogCodes
    BY DEF FrontierLog, Members
  <2>2. ASSUME NEW name \in DOMAIN FrontierLog PROVE Plainly(FrontierLog[name])
    <3> DEFINE i == LogCodes[name] - LogCodes["LOG0"]
               op == InMemory(Op("makeLog", "Free", 2 + i, 0), "makeGasLog", "memoryLog")
               made == [op EXCEPT !.n = i]
    <3>1. FrontierLog[name] = made
      BY <2>1 DEF FrontierLog, Members
    <3>2. OpFields \subseteq DOMAIN op /\ op.execute = "makeLog"
      BY OpParts, InMemoryParts
    <3> HIDE DEF i, op
    <3>3. OpFields \subseteq DOMAIN made /\ made.execute = "makeLog"
      BY <3>2 DEF OpFields
    <3> QED BY <3>1, <3>3 DEF Plainly, Pushing
  <2> QED BY <2>1, <2>2, SinglesArePlain, PlainSkipping DEF Fresh
<1> QED BY <1>1, <1>2, <1>3

LEMMA PushSkipping == SkippingSet(FrontierPush) /\ DOMAIN FrontierPush = PushNames
<1>1. DOMAIN FrontierPush = PushNames
  BY PushBytes DEF FrontierPush, Members
<1>2. ASSUME NEW name \in DOMAIN FrontierPush PROVE Skipping(name, FrontierPush[name])
  <2> DEFINE i == PushCodes[name] - PushCodes["PUSH1"]
             execute == IF i = 0 THEN "opPush1" ELSE "makePush"
             op == Op(execute, "GasFastestStep", 0, 1)
             made == [op EXCEPT !.n = i + 1]
  <2>1. FrontierPush[name] = made
    BY <1>1, PushBytes DEF FrontierPush, Members
  <2>2. execute \in Pushing
    BY DEF Pushing
  <2>3. PushCodes[name] \in 96..127 /\ i = PushCodes[name] - 96
    BY <1>1, PushBytes DEF Spans
  <2> HIDE DEF i, execute
  <2>4. OpFields \subseteq DOMAIN op /\ op.execute = execute
    BY OpParts
  <2> HIDE DEF op
  <2>5. OpFields \subseteq DOMAIN made /\ made.execute = execute /\ made.n = i + 1
    BY <2>4 DEF OpFields
  <2> HIDE DEF made
  <2>6. name \in PushNames /\ name # "STOP" /\ name \in DOMAIN OpCode
    BY <1>1, OpCodeOf DEF PushNames
  <2>7. made.n = PushCodes[name] - 95
    BY <2>3, <2>5
  <2> QED BY <2>1, <2>2, <2>5, <2>6, <2>7 DEF Skipping
<1> QED BY <1>1, <1>2 DEF SkippingSet

LEMMA FrontierSteady == Steady(newFrontierInstructionSet)
<1>1. SkippingSet(FrontierArithmetic)
  <2> SUFFICES ASSUME NEW name \in DOMAIN FrontierArithmetic PROVE Skipping(name, FrontierArithmetic[name])
    BY DEF SkippingSet
  <2>1. name \notin PushNames /\ name \in DOMAIN OpCode
    <3>1. name \in Singles \cup {"STOP"}
      BY DEF FrontierArithmetic, Singles
    <3>2. "STOP" \notin PushNames
      BY DEF PushNames
    <3> QED BY <3>1, <3>2, OpCodeOf, SinglesArePlain DEF PlainNames
  <2>2. Plainly(FrontierArithmetic[name])
    BY PlainMade DEF FrontierArithmetic, Pushing
  <2>3. name = "STOP" => FrontierArithmetic[name].execute = "opStop"
    BY DEF FrontierArithmetic, Op
  <2> QED BY <2>1, <2>2, <2>3 DEF Skipping, Plainly
<1> DEFINE F == {FrontierArithmetic, FrontierComparison, FrontierClosure, FrontierBlock, FrontierStorage,
                 FrontierPush, FrontierDup, FrontierSwap, FrontierLog, FrontierCalls}
<1>2. \A f \in F : SkippingSet(f)
  BY <1>1, OtherSkipping, FamiliesSkipping, PushSkipping
<1>3. FrontierArithmetic \in F /\ FrontierPush \in F /\ newFrontierInstructionSet = Joined(F)
  BY DEF newFrontierInstructionSet
<1>4. "STOP" \in DOMAIN FrontierArithmetic
  BY DEF FrontierArithmetic
<1> HIDE DEF F
<1>5. SkippingSet(Joined(F))
  BY <1>2, JoinedSkipping
<1>6. PushNames \cup {"STOP"} \subseteq DOMAIN Joined(F)
  BY <1>3, <1>4, PushSkipping DEF Joined
<1> QED BY <1>3, <1>5, <1>6 DEF Steady

----------------------------------------------------------------------------
(* The proposals and the forks leave it so                                 *)

LEMMA RepricedSteady ==
    ASSUME NEW set, Steady(set), NEW name, NEW gas
    PROVE  Steady(Repriced(set, name, gas)) /\ Steady(MeteredAt(set, name, gas))
<1>1. ASSUME NEW other, NEW op, Skipping(other, op)
      PROVE  Skipping(other, [op EXCEPT !.constantGas = gas]) /\ Skipping(other, [op EXCEPT !.dynamicGas = gas])
  BY <1>1 DEF Skipping, OpFields
<1> QED BY <1>1 DEF Steady, SkippingSet, Repriced, MeteredAt

\* New entries for names that are no pushes.
LEMMA AddedSteady ==
    ASSUME NEW set, Steady(set), NEW entries, Fresh(entries),
           \A name \in DOMAIN entries : Plainly(entries[name])
    PROVE  Steady(With(set, entries))
  BY PlainSkipping, WithSkipping

\* An entry of a set, and what the proposals make of it.
LEMMA EntryPlain ==
    ASSUME NEW set, Steady(set), NEW name, name \notin PushNames \cup {"STOP"}
    PROVE  LET op == Entry(set, name)
           IN  /\ Plainly(op)
               /\ \A gas : /\ Plainly([op EXCEPT !.constantGas = gas]) /\ Plainly(Metered(op, gas))
                           /\ \A constant : Plainly([op EXCEPT !.constantGas = constant, !.dynamicGas = gas])
<1> DEFINE op == Entry(set, name)
<1>1. Plainly(op)
  <2>1. Plainly(Undefined)
    BY DEF Undefined, Op, Plainly, OpFields, Pushing
  <2> QED BY <2>1 DEF Entry, Steady, SkippingSet, Skipping, Plainly
<1> HIDE DEF op
<1>2. /\ \A gas : /\ Plainly([op EXCEPT !.constantGas = gas]) /\ Plainly(Metered(op, gas))
                  /\ \A constant : Plainly([op EXCEPT !.constantGas = constant, !.dynamicGas = gas])
  BY <1>1 DEF Plainly, OpFields, Metered
<1> QED BY <1>1, <1>2 DEF op

LEMMA ProposalsSteady ==
    ASSUME NEW set, Steady(set)
    PROVE  /\ Steady(enable1344(set)) /\ Steady(enable3198(set)) /\ Steady(enable1153(set))
           /\ Steady(enable3855(set)) /\ Steady(enable4844(set)) /\ Steady(enable7516(set))
           /\ Steady(enable5656(set)) /\ Steady(enable6780(set)) /\ Steady(enable1884(set))
           /\ Steady(enable2200(set)) /\ Steady(enable3529(set)) /\ Steady(enable3860(set))
           /\ Steady(enable2929(set))
<1>1. Steady(enable1344(set))
  <2> DEFINE entries == [CHAINID |-> Op("opChainID", "GasQuickStep", 0, 1)]
  <2>1. Fresh(entries)
    BY SinglesArePlain DEF Fresh, Singles
  <2>2. \A name \in DOMAIN entries : Plainly(entries[name])
    BY PlainMade DEF Pushing
  <2>3. enable1344(set) = With(set, entries)
    BY DEF enable1344
  <2> HIDE DEF entries
  <2> QED BY <2>1, <2>2, <2>3, AddedSteady
<1>2. Steady(enable3198(set))
  <2> DEFINE entries == [BASEFEE |-> Op("opBaseFee", "GasQuickStep", 0, 1)]
  <2>1. Fresh(entries)
    BY SinglesArePlain DEF Fresh, Singles
  <2>2. \A name \in DOMAIN entries : Plainly(entries[name])
    BY PlainMade DEF Pushing
  <2>3. enable3198(set) = With(set, entries)
    BY DEF enable3198
  <2> HIDE DEF entries
  <2> QED BY <2>1, <2>2, <2>3, AddedSteady
<1>3. Steady(enable1153(set))
  <2> DEFINE entries == [TLOAD  |-> Op("opTload", "WarmStorageReadCostEIP2929", 1, 1),
                       TSTORE |-> Op("opTstore", "WarmStorageReadCostEIP2929", 2, 0)]
  <2>1. Fresh(entries)
    BY SinglesArePlain DEF Fresh, Singles
  <2>2. \A name \in DOMAIN entries : Plainly(entries[name])
    BY PlainMade DEF Pushing
  <2>3. enable1153(set) = With(set, entries)
    BY DEF enable1153
  <2> HIDE DEF entries
  <2> QED BY <2>1, <2>2, <2>3, AddedSteady
<1>4. Steady(enable3855(set))
  <2> DEFINE entries == [PUSH0 |-> Op("opPush0", "GasQuickStep", 0, 1)]
  <2>1. Fresh(entries)
    BY SinglesArePlain DEF Fresh, Singles
  <2>2. \A name \in DOMAIN entries : Plainly(entries[name])
    BY PlainMade DEF Pushing
  <2>3. enable3855(set) = With(set, entries)
    BY DEF enable3855
  <2> HIDE DEF entries
  <2> QED BY <2>1, <2>2, <2>3, AddedSteady
<1>5. Steady(enable4844(set))
  <2> DEFINE entries == [BLOBHASH |-> Op("opBlobHash", "GasFastestStep", 1, 1)]
  <2>1. Fresh(entries)
    BY SinglesArePlain DEF Fresh, Singles
  <2>2. \A name \in DOMAIN entries : Plainly(entries[name])
    BY PlainMade DEF Pushing
  <2>3. enable4844(set) = With(set, entries)
    BY DEF enable4844
  <2> HIDE DEF entries
  <2> QED BY <2>1, <2>2, <2>3, AddedSteady
<1>6. Steady(enable7516(set))
  <2> DEFINE entries == [BLOBBASEFEE |-> Op("opBlobBaseFee", "GasQuickStep", 0, 1)]
  <2>1. Fresh(entries)
    BY SinglesArePlain DEF Fresh, Singles
  <2>2. \A name \in DOMAIN entries : Plainly(entries[name])
    BY PlainMade DEF Pushing
  <2>3. enable7516(set) = With(set, entries)
    BY DEF enable7516
  <2> HIDE DEF entries
  <2> QED BY <2>1, <2>2, <2>3, AddedSteady
<1>7. Steady(enable5656(set))
  <2> DEFINE entries == [MCOPY |-> InMemory(Op("opMcopy", "GasFastestStep", 3, 0), "gasMcopy", "memoryMcopy")]
  <2>1. Fresh(entries)
    BY SinglesArePlain DEF Fresh, Singles
  <2>2. \A name \in DOMAIN entries : Plainly(entries[name])
    BY PlainMade DEF Pushing
  <2>3. enable5656(set) = With(set, entries)
    BY DEF enable5656
  <2> HIDE DEF entries
  <2> QED BY <2>1, <2>2, <2>3, AddedSteady
<1>8. Steady(enable6780(set))
  <2> DEFINE entries == [SELFDESTRUCT |-> Metered(Op("opSelfdestruct6780", "SelfdestructGasEIP150", 1, 0),
                                               "gasSelfdestructEIP3529")]
  <2>1. Fresh(entries)
    BY SinglesArePlain DEF Fresh, Singles
  <2>2. \A name \in DOMAIN entries : Plainly(entries[name])
    BY PlainMade DEF Pushing
  <2>3. enable6780(set) = With(set, entries)
    BY DEF enable6780
  <2> HIDE DEF entries
  <2> QED BY <2>1, <2>2, <2>3, AddedSteady
<1>9. Steady(enable1884(set))
  <2> DEFINE dear == Repriced(Repriced(set, "SLOAD", "SloadGasEIP1884"), "BALANCE", "BalanceGasEIP1884")
             hash == [Entry(set, "EXTCODEHASH") EXCEPT !.constantGas = "ExtcodeHashGasEIP1884"]
             self == Op("opSelfBalance", "GasFastStep", 0, 1)
             entries == [SELFBALANCE |-> self, EXTCODEHASH |-> hash]
  <2>1. Steady(dear)
    BY RepricedSteady
  <2>2. Plainly(hash)
    <3>1. "EXTCODEHASH" \notin PushNames \cup {"STOP"}
      BY DEF PushNames
    <3> QED BY <3>1, EntryPlain
  <2>3. Plainly(self)
    BY PlainMade DEF Pushing
  <2>4. enable1884(set) = With(dear, entries)
    BY DEF enable1884
  <2> HIDE DEF dear, hash, self
  <2>5. Fresh(entries) /\ \A name \in DOMAIN entries : Plainly(entries[name])
    BY <2>2, <2>3, SinglesArePlain DEF Fresh, Singles
  <2> HIDE DEF entries
  <2> QED BY <2>1, <2>4, <2>5, AddedSteady
<1>10. Steady(enable2200(set))
  <2>1. enable2200(set) = MeteredAt(Repriced(set, "SLOAD", "SloadGasEIP2200"), "SSTORE", "gasSStoreEIP2200")
    BY DEF enable2200, MeteredAt
  <2> QED BY <2>1, RepricedSteady
<1>11. Steady(enable3529(set))
  <2>1. enable3529(set)
          = MeteredAt(MeteredAt(set, "SSTORE", "gasSStoreEIP3529"), "SELFDESTRUCT", "gasSelfdestructEIP3529")
    BY DEF enable3529, MeteredAt
  <2> QED BY <2>1, RepricedSteady
<1>12. Steady(enable3860(set))
  <2> DEFINE create2 == Metered(Entry(set, "CREATE2"), "gasCreate2Eip3860")
             entries == [CREATE2 |-> create2]
  <2>1. Steady(MeteredAt(set, "CREATE", "gasCreateEip3860"))
    BY RepricedSteady
  <2>2. Plainly(create2)
    <3>1. "CREATE2" \notin PushNames \cup {"STOP"}
      BY DEF PushNames
    <3> QED BY <3>1, EntryPlain
  <2>3. enable3860(set) = With(MeteredAt(set, "CREATE", "gasCreateEip3860"), entries)
    BY DEF enable3860, MeteredAt
  <2> HIDE DEF create2
  <2>4. Fresh(entries) /\ \A name \in DOMAIN entries : Plainly(entries[name])
    BY <2>2, SinglesArePlain DEF Fresh, Singles
  <2> HIDE DEF entries
  <2> QED BY <2>1, <2>3, <2>4, AddedSteady
<1>13. Steady(enable2929(set))
  <2> DEFINE stored == MeteredAt(MeteredAt(set, "SSTORE", "gasSStoreEIP2929"), "SLOAD", "gasSLoadEIP2929")
             freed == Repriced(stored, "SLOAD", "Free")
             ofStorage == MeteredAt(Repriced(freed, "SELFDESTRUCT", "SelfdestructGasEIP150"),
                                    "SELFDESTRUCT", "gasSelfdestructEIP2929")
             warm == [name \in DOMAIN WarmGas |->
                         [Entry(set, name) EXCEPT !.constantGas = "WarmStorageReadCostEIP2929",
                                                  !.dynamicGas = WarmGas[name]]]
  <2>1. Steady(ofStorage)
    <3>1. Steady(MeteredAt(set, "SSTORE", "gasSStoreEIP2929"))
      BY RepricedSteady
    <3>2. Steady(stored)
      BY <3>1, RepricedSteady
    <3> HIDE DEF stored
    <3>3. Steady(freed)
      BY <3>2, RepricedSteady
    <3> HIDE DEF freed
    <3>4. Steady(Repriced(freed, "SELFDESTRUCT", "SelfdestructGasEIP150"))
      BY <3>3, RepricedSteady
    <3> QED BY <3>4, RepricedSteady
  <2>2. Fresh(warm)
    BY SinglesArePlain DEF Fresh, Singles, WarmGas
  <2>3. \A name \in DOMAIN warm : Plainly(warm[name])
    BY <2>2, EntryPlain DEF Fresh, PlainNames
  <2>4. enable2929(set) = With(ofStorage, warm)
    BY DEF enable2929, MeteredAt, Repriced
  <2> HIDE DEF ofStorage, warm
  <2> QED BY <2>1, <2>2, <2>3, <2>4, AddedSteady
<1> QED BY <1>1, <1>2, <1>3, <1>4, <1>5, <1>6, <1>7, <1>8, <1>9, <1>10, <1>11, <1>12, <1>13

LEMMA ForksSteady == \A fork \in DOMAIN SetOf : Steady(SetOf[fork])
<1>1. Steady(newHomesteadInstructionSet)
  <2> DEFINE entries == [DELEGATECALL |-> InMemory(Op("opDelegateCall", "CallGasFrontier", 6, 1),
                                                   "gasDelegateCall", "memoryDelegateCall")]
  <2>1. Fresh(entries) /\ \A name \in DOMAIN entries : Plainly(entries[name])
    BY SinglesArePlain, PlainMade DEF Fresh, Singles, Pushing
  <2>2. newHomesteadInstructionSet = With(newFrontierInstructionSet, entries)
    BY DEF newHomesteadInstructionSet
  <2> HIDE DEF entries
  <2> QED BY <2>1, <2>2, FrontierSteady, AddedSteady
<1>2. Steady(newTangerineWhistleInstructionSet)
  <2>1. ASSUME NEW other, NEW op, Skipping(other, op), NEW gas
        PROVE  Skipping(other, [op EXCEPT !.constantGas = gas])
    BY <2>1 DEF Skipping, OpFields
  <2> QED BY <1>1, <2>1 DEF newTangerineWhistleInstructionSet, Steady, SkippingSet
<1>3. Steady(newSpuriousDragonInstructionSet)
  <2>1. newSpuriousDragonInstructionSet = MeteredAt(newTangerineWhistleInstructionSet, "EXP", "gasExpEIP158")
    BY DEF newSpuriousDragonInstructionSet, MeteredAt
  <2> QED BY <1>2, <2>1, RepricedSteady
<1>4. Steady(newByzantiumInstructionSet)
  <2> DEFINE entries ==
        [STATICCALL     |-> InMemory(Op("opStaticCall", "CallGasEIP150", 6, 1),
                                     "gasStaticCall", "memoryStaticCall"),
         RETURNDATASIZE |-> Op("opReturnDataSize", "GasQuickStep", 0, 1),
         RETURNDATACOPY |-> InMemory(Op("opReturnDataCopy", "GasFastestStep", 3, 0),
                                     "gasReturnDataCopy", "memoryReturnDataCopy"),
         REVERT         |-> InMemory(Op("opRevert", "Free", 2, 0), "gasRevert", "memoryRevert")]
  <2>1. Fresh(entries)
    BY SinglesArePlain DEF Fresh, Singles
  <2>2. \A name \in DOMAIN entries : Plainly(entries[name])
    BY PlainMade DEF Pushing
  <2>3. newByzantiumInstructionSet = With(newSpuriousDragonInstructionSet, entries)
    BY DEF newByzantiumInstructionSet
  <2> HIDE DEF entries
  <2> QED BY <1>3, <2>1, <2>2, <2>3, AddedSteady
<1>5. Steady(newConstantinopleInstructionSet)
  <2> DEFINE entries ==
        [SHL |-> Op("opSHL", "GasFastestStep", 2, 1),
         SHR |-> Op("opSHR", "GasFastestStep", 2, 1),
         SAR |-> Op("opSAR", "GasFastestStep", 2, 1),
         EXTCODEHASH |-> Op("opExtCodeHash", "ExtcodeHashGasConstantinople", 1, 1),
         CREATE2 |-> InMemory(Op("opCreate2", "Create2Gas", 4, 1), "gasCreate2", "memoryCreate2")]
  <2>1. Fresh(entries)
    BY SinglesArePlain DEF Fresh, Singles
  <2>2. \A name \in DOMAIN entries : Plainly(entries[name])
    BY PlainMade DEF Pushing
  <2>3. newConstantinopleInstructionSet = With(newByzantiumInstructionSet, entries)
    BY DEF newConstantinopleInstructionSet
  <2> HIDE DEF entries
  <2> QED BY <1>4, <2>1, <2>2, <2>3, AddedSteady
<1>6. Steady(newIstanbulInstructionSet)
  BY <1>5, ProposalsSteady DEF newIstanbulInstructionSet
<1>7. Steady(newBerlinInstructionSet) /\ Steady(newLondonInstructionSet)
  BY <1>6, ProposalsSteady DEF newBerlinInstructionSet, newLondonInstructionSet
<1>8. Steady(newMergeInstructionSet)
  <2> DEFINE entries == [PREVRANDAO |-> Op("opRandom", "GasQuickStep", 0, 1)]
  <2>1. Fresh(entries) /\ \A name \in DOMAIN entries : Plainly(entries[name])
    BY SinglesArePlain, PlainMade DEF Fresh, Singles, Pushing
  <2>2. newMergeInstructionSet = With(newLondonInstructionSet, entries)
    BY DEF newMergeInstructionSet
  <2> HIDE DEF entries
  <2> QED BY <1>7, <2>1, <2>2, AddedSteady
<1>9. Steady(newShanghaiInstructionSet)
  BY <1>8, ProposalsSteady DEF newShanghaiInstructionSet
<1>10. Steady(newCancunInstructionSet)
  BY <1>9, ProposalsSteady DEF newCancunInstructionSet
<1> QED BY FrontierSteady, <1>1, <1>2, <1>3, <1>4, <1>5, <1>6, <1>7, <1>8, <1>9, <1>10 DEF SetOf

LEMMA EnabledSteady ==
    ASSUME NEW set, Steady(set), NEW eip
    PROVE  Steady(EnableEIP(eip, set))
  BY ProposalsSteady DEF EnableEIP

\* How far the interpreter steps over what it reads: the table in use agrees
\* with the bytes themselves.
LEMMA TablesSkip ==
    ASSUME NEW s \in Sessions, NEW b \in Bytes
    PROVE  LET op == Tables[s.config][b]
           IN  /\ b \in 96..127 => op.execute \in Pushing /\ op.n = b - 95
               /\ b \notin 96..127 => op.execute \notin Pushing
               /\ b = 0 => op.execute = "opStop"
<1> DEFINE set == EnableEIP(s.config.eip, SetOf[s.config.fork])
           op == ByByte(set)[b]
<1>1. Steady(set)
  BY SessionsAssumption, ForksSteady, EnabledSteady
<1>2. Tables[s.config] = ByByte(set)
  BY DEF Tables, Configs
<1> HIDE DEF set
<1>3. CASE \E name \in DOMAIN set : OpCode[name] = b
  <2> DEFINE at == CHOOSE name \in DOMAIN set : OpCode[name] = b
  <2>1. at \in DOMAIN set /\ OpCode[at] = b
    BY <1>3
  <2>2. op = set[at]
    BY <1>3 DEF ByByte
  <2> HIDE DEF at, op
  <2>3. Skipping(at, op)
    BY <1>1, <2>1, <2>2 DEF Steady, SkippingSet
  <2>4. at \in DOMAIN OpCode
    BY <2>3 DEF Skipping
  <2>5. /\ at \in PushNames => b = PushCodes[at] /\ b \in 96..127
        /\ at \notin PushNames => b \notin 96..127
        /\ b = 0 => at = "STOP"
    <3>1. /\ at \in PushNames => b = PushCodes[at]
          /\ at \notin PushNames => b \notin 96..127
          /\ b = 0 => at = "STOP"
      BY <2>1, <2>4, OpCodeOf
    <3>2. at \in PushNames => PushCodes[at] \in 96..127
      BY PushBytes DEF Spans
    <3> QED BY <3>1, <3>2
  <2> QED BY <1>2, <2>3, <2>5 DEF Skipping, op
<1>4. CASE ~\E name \in DOMAIN set : OpCode[name] = b
  <2>1. op = Undefined
    BY <1>4 DEF ByByte
  <2> HIDE DEF op
  <2>2. Undefined.execute \notin Pushing
    BY DEF Undefined, Op, Pushing
  <2>3. b \notin 96..127
    <3>1. ASSUME b \in 96..127 PROVE FALSE
      <4>1. PICK name \in PushNames : PushCodes[name] = b
        BY <3>1, PushBytes
      <4>2. name \in DOMAIN set /\ name \in DOMAIN OpCode
        BY <1>1, OpCodeOf DEF Steady
      <4>3. OpCode[name] = b
        BY <4>1, <4>2, OpCodeOf
      <4> QED BY <1>4, <4>2, <4>3
    <3> QED BY <3>1
  <2>4. b # 0
    <3>1. "STOP" \in DOMAIN set
      BY <1>1 DEF Steady
    <3>2. OpCode["STOP"] = 0
      BY OpCodeOf
    <3> QED BY <1>4, <3>1, <3>2
  <2> QED BY <1>2, <2>1, <2>2, <2>3, <2>4 DEF op
<1> QED BY <1>3, <1>4

----------------------------------------------------------------------------
(* The bits of a program                                                   *)

Marks(bits, q) == q % 8 \in bits[q \div 8]

\* A vector of top + 1 bytes, where nothing is marked from pos on.
Vector(bits, top) == bits \in [0..top -> SUBSET Bits]
ClearFrom(bits, top, pos) == \A q \in Nat : q >= pos /\ q \div 8 <= top => ~Marks(bits, q)

\* What is marked in more than in bits: the positions from pos on, so many.
Extends(more, bits, top, pos, size) ==
    /\ Vector(more, top)
    /\ \A q \in Nat : q \div 8 <= top => (Marks(more, q) <=> Marks(bits, q) \/ q \in pos..(pos + size - 1))

LEMMA Places ==
    ASSUME NEW q \in Nat
    PROVE  q \div 8 \in Nat /\ q % 8 \in 0..7 /\ q = 8 * (q \div 8) + (q % 8)
  BY Division

LEMMA PlaceOf ==
    ASSUME NEW a \in Nat, NEW r \in 0..7
    PROVE  8 * a + r \in Nat /\ (8 * a + r) \div 8 = a /\ (8 * a + r) % 8 = r
<1>1. 8 \in Nat \ {0} /\ 8 * a + r \in Int /\ r \in 0..(8 - 1) /\ a \in Int
  OBVIOUS
<1> DEFINE x == 8 * a + r
<1>2. x = 8 * a + r /\ x \in Nat
  OBVIOUS
<1> HIDE DEF x
<1>3. x \div 8 = a /\ x % 8 = r
  BY <1>1, <1>2, Quotient
<1> QED BY <1>2, <1>3

\* The bytes, seen one bit at a time.
LEMMA ByBits ==
    ASSUME NEW top \in Nat, NEW bits, Vector(bits, top), NEW more, Vector(more, top),
           NEW b \in Nat, NEW s \in 0..7, NEW size \in Nat,
           \A a \in 0..top, r \in 0..7 :
               r \in more[a] <=> r \in bits[a] \/ 8 * a + r \in (8 * b + s)..(8 * b + s + size - 1)
    PROVE  Extends(more, bits, top, 8 * b + s, size)
<1> SUFFICES ASSUME NEW q \in Nat, q \div 8 <= top
             PROVE  Marks(more, q) <=> Marks(bits, q) \/ q \in (8 * b + s)..(8 * b + s + size - 1)
  BY DEF Extends
<1> DEFINE a == q \div 8
           r == (q % 8)
<1>1. a \in 0..top /\ r \in 0..7 /\ q = 8 * a + r
  BY Places
<1>2. Marks(more, q) = (r \in more[a]) /\ Marks(bits, q) = (r \in bits[a])
  BY DEF Marks
<1> HIDE DEF a, r
<1> QED BY <1>1, <1>2

LEMMA ClearBits ==
    ASSUME NEW top \in Nat, NEW bits, NEW b \in Nat, NEW s \in 0..7,
           ClearFrom(bits, top, 8 * b + s), NEW a \in 0..top, NEW r \in 0..7, 8 * a + r >= 8 * b + s
    PROVE  r \notin bits[a]
<1> DEFINE q == 8 * a + r
<1>1. q \in Nat /\ q \div 8 = a /\ q % 8 = r
  BY PlaceOf
<1>2. q >= 8 * b + s
  OBVIOUS
<1> HIDE DEF q
<1> QED BY <1>1, <1>2 DEF ClearFrom, Marks

\* The marks of one position.
LEMMA set1Exact ==
    ASSUME NEW top \in Nat, NEW bits, Vector(bits, top), NEW pos \in Nat, pos <= 8 * top + 7
    PROVE  Extends(set1(bits, pos), bits, top, pos, 1)
<1> DEFINE b == pos \div 8
           s == (pos % 8)
           more == set1(bits, pos)
<1>1. b \in Nat /\ s \in 0..7 /\ pos = 8 * b + s
  BY Places
<1>2. more = [bits EXCEPT ![b] = bits[b] \cup {s}]
  BY DEF set1, Or
<1> HIDE DEF b, s, more
<1>3. b \in 0..top
  BY <1>1
<1>4. Vector(more, top)
  BY <1>1, <1>2, <1>3 DEF Vector, Bits
<1>5. ASSUME NEW a \in 0..top, NEW r \in 0..7
      PROVE  r \in more[a] <=> r \in bits[a] \/ 8 * a + r \in (8 * b + s)..(8 * b + s + 1 - 1)
  <2>1. more[a] = IF a = b THEN bits[a] \cup {s} ELSE bits[a]
    BY <1>2, <1>3 DEF Vector
  <2>2. 8 * a + r \in (8 * b + s)..(8 * b + s + 1 - 1) <=> a = b /\ r = s
    BY <1>1, <1>3
  <2> QED BY <2>1, <2>2
<1>6. Extends(more, bits, top, 8 * b + s, 1)
  BY <1>1, <1>4, <1>5, ByBits
<1> QED BY <1>1, <1>6 DEF more

\* Two to seven positions, the last of them perhaps in the next byte.
LEMMA setNExact ==
    ASSUME NEW top \in Nat, NEW bits, Vector(bits, top), NEW pos \in Nat, NEW n \in 2..7,
           ClearFrom(bits, top, pos), pos + n - 1 <= 8 * top + 7
    PROVE  Extends(setN(bits, n, pos), bits, top, pos, n)
<1> DEFINE b == pos \div 8
           s == (pos % 8)
           more == setN(bits, n, pos)
           shifted == s..(s + n - 1)
           high == {x - 8 : x \in shifted \ Bits}
           low == [bits EXCEPT ![b] = bits[b] \cup (shifted \cap Bits)]
<1>1. b \in Nat /\ s \in 0..7 /\ pos = 8 * b + s
  BY Places
<1>2. more = IF high = {} THEN low ELSE [low EXCEPT ![b + 1] = high]
  BY DEF setN, Or
<1> HIDE DEF b, s, more
<1>3. b \in 0..top
  BY <1>1
<1>4. high = IF s + n - 1 >= 8 THEN 0..(s + n - 9) ELSE {}
  <2>1. ASSUME NEW y PROVE y \in high <=> y \in Int /\ y + 8 \in shifted \ Bits
    <3>1. shifted \subseteq Int
      BY <1>1
    <3>2. \A x \in Int : x = (x - 8) + 8 /\ x - 8 \in Int
      OBVIOUS
    <3> HIDE DEF shifted
    <3>3. \A z \in Int : (z + 8) - 8 = z
      OBVIOUS
    <3> QED BY <3>1, <3>2, <3>3
  <2> HIDE DEF high
  <2>2. ASSUME NEW y PROVE y \in high <=> y \in IF s + n - 1 >= 8 THEN 0..(s + n - 9) ELSE {}
    <3>1. y \in high <=> y \in Int /\ y + 8 \in s..(s + n - 1) /\ y + 8 \notin 0..7
      BY <2>1 DEF Bits
    <3> QED BY <1>1, <3>1
  <2> QED BY <2>2
<1> HIDE DEF high
<1>5. low \in [0..top -> SUBSET Bits]
  BY <1>3 DEF Vector
<1>6. \A a \in 0..top : low[a] = IF a = b THEN bits[a] \cup (shifted \cap Bits) ELSE bits[a]
  BY <1>3 DEF Vector
<1> HIDE DEF low
<1>7. high # {} <=> s + n - 1 >= 8
  <2>1. s + n - 1 >= 8 => 0 \in 0..(s + n - 9)
    BY <1>1
  <2>2. CASE s + n - 1 >= 8
    BY <1>4, <2>1, <2>2
  <2>3. CASE ~(s + n - 1 >= 8)
    BY <1>4, <2>3
  <2> QED BY <2>2, <2>3
<1>8. high # {} => b + 1 \in 0..top
  BY <1>1, <1>7
<1>9. high \subseteq Bits
  <2>1. 0..(s + n - 9) \subseteq 0..7
    BY <1>1
  <2> QED BY <1>4, <2>1 DEF Bits
<1>10. Vector(more, top)
  BY <1>2, <1>5, <1>9 DEF Vector
<1>11. \A a \in 0..top : more[a] = IF a = b + 1 /\ s + n - 1 >= 8 THEN high ELSE low[a]
  BY <1>2, <1>5, <1>7, <1>8
<1>12. ASSUME NEW a \in 0..top, NEW r \in 0..7
       PROVE  r \in more[a] <=> r \in bits[a] \/ 8 * a + r \in (8 * b + s)..(8 * b + s + n - 1)
  <2>1. CASE a = b
    <3>1. more[a] = bits[a] \cup (shifted \cap Bits)
      <4>1. a # b + 1
        BY <1>1, <2>1
      <4> QED BY <1>6, <1>11, <2>1, <4>1
    <3>2. r \in shifted \cap Bits <=> 8 * a + r \in (8 * b + s)..(8 * b + s + n - 1)
      BY <1>1, <2>1 DEF Bits
    <3> QED BY <3>1, <3>2
  <2>2. CASE a = b + 1
    <3>1. r \notin bits[a]
      BY <1>1, <2>2, ClearBits
    <3>2. CASE s + n - 1 >= 8
      <4>1. more[a] = 0..(s + n - 9)
        BY <1>4, <1>11, <2>2, <3>2
      <4>2. r \in 0..(s + n - 9) <=> 8 * a + r \in (8 * b + s)..(8 * b + s + n - 1)
        BY <1>1, <2>2
      <4> QED BY <3>1, <4>1, <4>2
    <3>3. CASE s + n - 1 < 8
      <4>1. more[a] = bits[a]
        <5>1. a # b /\ ~(s + n - 1 >= 8)
          BY <1>1, <2>2, <3>3
        <5> QED BY <1>6, <1>11, <5>1
      <4>2. 8 * a + r \notin (8 * b + s)..(8 * b + s + n - 1)
        BY <1>1, <2>2, <3>3
      <4> QED BY <3>1, <4>1, <4>2
    <3> QED BY <1>1, <3>2, <3>3
  <2>3. CASE a # b /\ a # b + 1
    <3>1. more[a] = bits[a]
      BY <1>6, <1>11, <2>3
    <3>2. 8 * a + r \notin (8 * b + s)..(8 * b + s + n - 1)
      BY <1>1, <2>3
    <3> QED BY <3>1, <3>2
  <2> QED BY <2>1, <2>2, <2>3
<1>13. Extends(more, bits, top, 8 * b + s, n)
  <2>1. n \in Nat
    OBVIOUS
  <2> HIDE DEF high, low, shifted
  <2> QED BY <1>1, <1>10, <1>12, <2>1, ByBits
<1> QED BY <1>1, <1>13 DEF more

\* Eight positions, and sixteen.
LEMMA set8Exact ==
    ASSUME NEW top \in Nat, NEW bits, Vector(bits, top), NEW pos \in Nat,
           ClearFrom(bits, top, pos), pos + 7 <= 8 * top + 7
    PROVE  Extends(set8(bits, pos), bits, top, pos, 8)
<1> DEFINE b == pos \div 8
           s == (pos % 8)
           more == set8(bits, pos)
           first == bits[b] \cup (s..7)
           rest == Bits \ (s..7)
<1>1. b \in Nat /\ s \in 0..7 /\ pos = 8 * b + s
  BY Places
<1>2. more = [bits EXCEPT ![b] = first, ![b + 1] = rest]
  BY DEF set8, Or, UpFrom
<1> HIDE DEF b, s, more
<1>3. b \in 0..top
  BY <1>1
<1>4. first \subseteq Bits /\ rest \subseteq Bits
  BY <1>1, <1>3 DEF Vector, Bits
<1>5. Vector(more, top)
  <2> HIDE DEF first, rest
  <2> QED BY <1>2, <1>4 DEF Vector
<1>6. \A a \in 0..top : more[a] = IF a = b + 1 THEN rest ELSE IF a = b THEN first ELSE bits[a]
  <2> HIDE DEF first, rest
  <2> QED BY <1>1, <1>2 DEF Vector
<1>7. ASSUME NEW a \in 0..top, NEW r \in 0..7
      PROVE  r \in more[a] <=> r \in bits[a] \/ 8 * a + r \in (8 * b + s)..(8 * b + s + 8 - 1)
  <2>1. CASE a = b
    <3>1. more[a] = first
      <4>1. a # b + 1
        BY <1>1, <2>1
      <4> QED BY <1>6, <2>1, <4>1
    <3>2. r \in s..7 <=> 8 * a + r \in (8 * b + s)..(8 * b + s + 8 - 1)
      BY <1>1, <2>1
    <3> QED BY <2>1, <3>1, <3>2
  <2>2. CASE a = b + 1
    <3>1. r \notin bits[a]
      BY <1>1, <2>2, ClearBits
    <3>2. more[a] = rest
      BY <1>6, <2>2
    <3>3. r \in rest <=> 8 * a + r \in (8 * b + s)..(8 * b + s + 8 - 1)
      BY <1>1, <2>2 DEF Bits
    <3> QED BY <3>1, <3>2, <3>3
  <2>3. CASE a # b /\ a # b + 1
    <3>1. more[a] = bits[a]
      BY <1>6, <2>3
    <3>2. 8 * a + r \notin (8 * b + s)..(8 * b + s + 8 - 1)
      BY <1>1, <2>3
    <3> QED BY <3>1, <3>2
  <2> QED BY <2>1, <2>2, <2>3
<1>8. Extends(more, bits, top, 8 * b + s, 8)
  <2> HIDE DEF first, rest
  <2> QED BY <1>1, <1>5, <1>7, ByBits
<1> QED BY <1>1, <1>8 DEF more

LEMMA set16Exact ==
    ASSUME NEW top \in Nat, NEW bits, Vector(bits, top), NEW pos \in Nat,
           ClearFrom(bits, top, pos), pos + 15 <= 8 * top + 7
    PROVE  Extends(set16(bits, pos), bits, top, pos, 16)
<1> DEFINE b == pos \div 8
           s == (pos % 8)
           more == set16(bits, pos)
           first == bits[b] \cup (s..7)
           rest == Bits \ (s..7)
<1>1. b \in Nat /\ s \in 0..7 /\ pos = 8 * b + s
  BY Places
<1>2. more = [bits EXCEPT ![b] = first, ![b + 1] = Bits, ![b + 2] = rest]
  BY DEF set16, Or, UpFrom
<1> HIDE DEF b, s, more
<1>3. b \in 0..top
  BY <1>1
<1>4. first \subseteq Bits /\ rest \subseteq Bits
  BY <1>1, <1>3 DEF Vector, Bits
<1>5. Vector(more, top)
  <2> HIDE DEF first, rest
  <2> QED BY <1>2, <1>4 DEF Vector
<1>6. \A a \in 0..top : more[a] = IF a = b + 2 THEN rest ELSE IF a = b + 1 THEN Bits
                                  ELSE IF a = b THEN first ELSE bits[a]
  <2> HIDE DEF first, rest
  <2> QED BY <1>1, <1>2 DEF Vector
<1>7. ASSUME NEW a \in 0..top, NEW r \in 0..7
      PROVE  r \in more[a] <=> r \in bits[a] \/ 8 * a + r \in (8 * b + s)..(8 * b + s + 16 - 1)
  <2>1. CASE a = b
    <3>1. more[a] = first
      <4>1. a # b + 1 /\ a # b + 2
        BY <1>1, <2>1
      <4> QED BY <1>6, <2>1, <4>1
    <3>2. r \in s..7 <=> 8 * a + r \in (8 * b + s)..(8 * b + s + 16 - 1)
      BY <1>1, <2>1
    <3> QED BY <2>1, <3>1, <3>2
  <2>2. CASE a = b + 1
    <3>1. more[a] = Bits
      <4>1. a # b + 2
        BY <1>1, <2>2
      <4> QED BY <1>6, <2>2, <4>1
    <3>2. r \in Bits /\ 8 * a + r \in (8 * b + s)..(8 * b + s + 16 - 1)
      BY <1>1, <2>2 DEF Bits
    <3> QED BY <3>1, <3>2
  <2>3. CASE a = b + 2
    <3>1. r \notin bits[a]
      BY <1>1, <2>3, ClearBits
    <3>2. more[a] = rest
      BY <1>6, <2>3
    <3>3. r \in rest <=> 8 * a + r \in (8 * b + s)..(8 * b + s + 16 - 1)
      BY <1>1, <2>3 DEF Bits
    <3> QED BY <3>1, <3>2, <3>3
  <2>4. CASE a # b /\ a # b + 1 /\ a # b + 2
    <3>1. more[a] = bits[a]
      BY <1>6, <2>4
    <3>2. 8 * a + r \notin (8 * b + s)..(8 * b + s + 16 - 1)
      BY <1>1, <2>4
    <3> QED BY <3>1, <3>2
  <2> QED BY <2>1, <2>2, <2>3, <2>4
<1>8. Extends(more, bits, top, 8 * b + s, 16)
  <2> HIDE DEF first, rest
  <2> QED BY <1>1, <1>5, <1>7, ByBits
<1> QED BY <1>1, <1>8 DEF more

\* A scan marks what it moves over.
Scannable(scan, top, room) ==
    /\ scan.pc \in Nat /\ scan.pc + room <= 8 * top + 8
    /\ Vector(scan.bits, top) /\ ClearFrom(scan.bits, top, scan.pc)

Marking(top, size, room, scan, next) ==
    /\ top \in Nat /\ size \in (0..8) \cup {16} /\ room \in Nat /\ size <= room
    /\ Scannable(scan, top, room) /\ next = Marked(scan, size)

LEMMA MarkedExact ==
    ASSUME NEW top, NEW size, NEW room, NEW scan, NEW next, Marking(top, size, room, scan, next)
    PROVE  /\ next.pc = scan.pc + size /\ Scannable(next, top, room - size)
           /\ Extends(next.bits, scan.bits, top, scan.pc, size)
<1>0. /\ top \in Nat /\ size \in (0..8) \cup {16} /\ room \in Nat /\ size <= room
      /\ Scannable(scan, top, room) /\ next = Marked(scan, size)
  BY DEF Marking
<1> USE <1>0
<1> DEFINE pos == scan.pc
           bits == scan.bits
<1>1. next.pc = pos + size
  BY DEF Marked
<1>2. pos \in Nat /\ pos + room <= 8 * top + 8 /\ Vector(bits, top) /\ ClearFrom(bits, top, pos)
  BY DEF Scannable
<1>3. next.bits = CASE size = 16 -> set16(bits, pos)
                    [] size = 8  -> set8(bits, pos)
                    [] size = 1  -> set1(bits, pos)
                    [] size \in 2..7 -> setN(bits, size, pos)
                    [] OTHER     -> bits
  BY DEF Marked
<1> HIDE DEF pos, bits
<1>4. Extends(next.bits, bits, top, pos, size)
  <2>1. CASE size = 16
    <3>1. pos + 15 <= 8 * top + 7
      BY <1>2, <2>1
    <3> QED BY <1>2, <1>3, <2>1, <3>1, set16Exact
  <2>2. CASE size = 8
    <3>1. pos + 7 <= 8 * top + 7
      BY <1>2, <2>2
    <3> QED BY <1>2, <1>3, <2>2, <3>1, set8Exact
  <2>3. CASE size = 1
    <3>1. pos <= 8 * top + 7
      BY <1>2, <2>3
    <3> QED BY <1>2, <1>3, <2>3, <3>1, set1Exact
  <2>4. CASE size \in 2..7
    <3>1. pos + size - 1 <= 8 * top + 7
      BY <1>2, <2>4
    <3>2. next.bits = setN(bits, size, pos)
      BY <1>3, <2>4
    <3> QED BY <1>2, <2>4, <3>1, <3>2, setNExact
  <2>5. CASE size = 0
    <3>1. next.bits = bits
      BY <1>3, <2>5
    <3>2. pos..(pos + size - 1) = {}
      BY <1>2, <2>5
    <3> QED BY <1>2, <3>1, <3>2 DEF Extends
  <2> QED BY <2>1, <2>2, <2>3, <2>4, <2>5
<1>5. Scannable(next, top, room - size)
  <2>1. Vector(next.bits, top)
    BY <1>4 DEF Extends
  <2>2. ASSUME NEW q \in Nat, q >= pos + size, q \div 8 <= top PROVE ~Marks(next.bits, q)
    <3>1. q >= pos /\ q \notin pos..(pos + size - 1)
      BY <1>2, <2>2
    <3> QED BY <1>2, <1>4, <2>2, <3>1 DEF Extends, ClearFrom
  <2>3. ClearFrom(next.bits, top, next.pc)
    BY <1>1, <2>2 DEF ClearFrom
  <2> QED BY <1>1, <1>2, <2>1, <2>3 DEF Scannable
<1> QED BY <1>1, <1>4, <1>5 DEF pos, bits

----------------------------------------------------------------------------
(* Recursion                                                               *)

\* What holds of 0 and of the next whenever it holds of one, holds of all.
LEMMA UpTo ==
    ASSUME NEW n \in Nat, NEW T, 0 \in T, \A i \in 0..(n - 1) : i \in T => i + 1 \in T
    PROVE  \A i \in 0..n : i \in T
<1> DEFINE F == {i \in 0..n : i \notin T}
<1> SUFFICES ASSUME F # {} PROVE FALSE
  OBVIOUS
<1>1. PICK m \in F : \A k \in F : m <= k
  <2>1. F \in SUBSET Nat
    OBVIOUS
  <2> HIDE DEF F
  <2> QED BY <2>1, LeastNat
<1>2. m \in 1..n /\ m - 1 \in 0..(n - 1) /\ m - 1 \notin F /\ (m - 1) + 1 = m
  BY <1>1
<1> QED BY <1>1, <1>2

Iterating(X, a, g, n) == a \in X /\ g \in [X -> X] /\ n \in Nat

\* A function that is defined from its value before exists.
LEMMA Iterated ==
    ASSUME NEW X, NEW a, NEW g, NEW n, Iterating(X, a, g, n)
    PROVE  \E R \in [0..n -> X] : R = [i \in 0..n |-> IF i = 0 THEN a ELSE g[R[i - 1]]]
<1>0. a \in X /\ g \in [X -> X] /\ n \in Nat
  BY DEF Iterating
<1> USE <1>0
<1> DEFINE Is(R, m) == R \in [0..m -> X] /\ R[0] = a /\ \A i \in 1..m : R[i] = g[R[i - 1]]
           T == {m \in 0..n : \E R : Is(R, m)}
<1>1. 0 \in T
  <2> DEFINE R == [i \in 0..0 |-> a]
  <2>1. Is(R, 0)
    OBVIOUS
  <2> HIDE DEF R
  <2> QED BY <2>1
<1>2. ASSUME NEW m \in 0..(n - 1), m \in T PROVE m + 1 \in T
  <2>1. PICK S : Is(S, m)
    BY <1>2
  <2> DEFINE R == [i \in 0..(m + 1) |-> IF i = m + 1 THEN g[S[m]] ELSE S[i]]
  <2>2. R \in [0..(m + 1) -> X]
    <3>1. \A i \in 0..(m + 1) : i # m + 1 => i \in 0..m
      OBVIOUS
    <3>2. m \in 0..m
      OBVIOUS
    <3> QED BY <2>1, <3>1, <3>2
  <2>3. R[0] = a
    BY <2>1
  <2>4. ASSUME NEW i \in 1..(m + 1) PROVE R[i] = g[R[i - 1]]
    <3>1. i - 1 \in 0..(m + 1) /\ i - 1 # m + 1
      OBVIOUS
    <3>2. R[i - 1] = S[i - 1]
      BY <3>1
    <3>3. CASE i = m + 1
      BY <3>2, <3>3
    <3>4. CASE i # m + 1
      BY <2>1, <3>2, <3>4
    <3> QED BY <3>3, <3>4
  <2> HIDE DEF R
  <2>5. Is(R, m + 1)
    BY <2>2, <2>3, <2>4
  <2> QED BY <2>5
<1>3. n \in T
  <2> HIDE DEF T
  <2>1. \A i \in 0..n : i \in T
    BY <1>1, <1>2, UpTo
  <2> QED BY <2>1
<1>4. PICK R : Is(R, n)
  BY <1>3
<1>5. R = [i \in 0..n |-> IF i = 0 THEN a ELSE g[R[i - 1]]]
  <2>1. \A i \in 0..n : R[i] = IF i = 0 THEN a ELSE g[R[i - 1]]
    BY <1>4
  <2>2. R = [i \in 0..n |-> R[i]]
    BY <1>4
  <2> QED BY <2>1, <2>2
<1> QED BY <1>4, <1>5

----------------------------------------------------------------------------
(* The scan of a program                                                   *)

TopOf(code) == Len(code) \div 8 + 4

\* The bytes of data behind an instruction.
DataAt(code, p) == LET op == GetOp(code, p) IN IF op \in 96..127 THEN op - 95 ELSE 0

LEMMA PushRange ==
    /\ OpCode["PUSH1"] = 96 /\ OpCode["PUSH32"] = 127 /\ OpCode["STOP"] = 0 /\ OpCode["JUMPDEST"] # 0
    /\ \A op \in Bytes : /\ IsPush(op) <=> op \in 96..127
                         /\ Int8(op) < Int8(96) <=> op \notin 96..127
<1>1. OpCode["PUSH1"] = 96 /\ OpCode["PUSH32"] = 127
  <2>1. {"PUSH1", "PUSH32"} \subseteq PushNames
    BY DEF PushNames
  <2> QED BY <2>1, OpCodeOf, PushBytes
<1>2. OpCode["STOP"] = 0 /\ OpCode["JUMPDEST"] # 0
  BY OpCodeOf
<1>3. \A op \in Bytes : IsPush(op) <=> op \in 96..127
  BY <1>1 DEF IsPush, Bytes
<1>4. \A op \in Bytes : Int8(op) < Int8(96) <=> op \notin 96..127
  BY DEF Int8, Bytes
<1> QED BY <1>1, <1>2, <1>3, <1>4

LEMMA DataNat ==
    ASSUME NEW code \in Seq(Bytes), NEW p \in Nat
    PROVE  /\ DataAt(code, p) \in 0..32
           /\ p >= Len(code) => DataAt(code, p) = 0
           /\ DataAt(code, p) = IF IsPush(GetOp(code, p)) THEN GetOp(code, p) - OpCode["PUSH1"] + 1 ELSE 0
<1>1. GetOp(code, p) \in Bytes
  BY GetOpInBytes
<1>2. p >= Len(code) => GetOp(code, p) = 0
  <2>1. Len(code) \in Nat
    OBVIOUS
  <2> QED BY <2>1, PushRange DEF GetOp
<1> DEFINE op == GetOp(code, p)
<1> HIDE DEF op
<1>3. op \in Bytes /\ (IsPush(op) <=> op \in 96..127) /\ OpCode["PUSH1"] = 96
  BY <1>1, PushRange DEF op
<1>4. DataAt(code, p) = IF op \in 96..127 THEN op - 95 ELSE 0
  BY DEF DataAt, op
<1>5. p >= Len(code) => op = 0
  BY <1>2 DEF op
<1>6. /\ DataAt(code, p) \in 0..32
      /\ op = 0 => DataAt(code, p) = 0
      /\ DataAt(code, p) = IF IsPush(op) THEN op - OpCode["PUSH1"] + 1 ELSE 0
  BY <1>3, <1>4 DEF Bytes
<1> QED BY <1>5, <1>6 DEF op

LEMMA ExtendsChain ==
    ASSUME NEW top, NEW first, NEW second, NEW third, NEW pos \in Nat, NEW m \in Nat, NEW k \in Nat,
           Extends(second, first, top, pos, m), Extends(third, second, top, pos + m, k)
    PROVE  Extends(third, first, top, pos, m + k)
<1>1. \A q \in Nat : q \in pos..(pos + (m + k) - 1) <=> q \in pos..(pos + m - 1) \/ q \in (pos + m)..(pos + m + k - 1)
  OBVIOUS
<1> QED BY <1>1 DEF Extends

\* The sizes a push of n bytes is marked in.
Sizes(n) ==
    <<IF n >= 16 THEN 16 ELSE 0, IF n >= 32 THEN 16 ELSE 0, IF n % 16 >= 8 THEN 8 ELSE 0, n % 8>>

LEMMA SizesSum ==
    ASSUME NEW n \in 1..32
    PROVE  /\ \A i \in 1..4 : Sizes(n)[i] \in (0..8) \cup {16}
           /\ Sizes(n)[1] + Sizes(n)[2] + Sizes(n)[3] + Sizes(n)[4] = n
  BY DEF Sizes

IsRecord(scan) == scan = [pc |-> scan.pc, bits |-> scan.bits]

LEMMA MarkedNone ==
    ASSUME NEW scan, IsRecord(scan), scan.pc \in Nat
    PROVE  Marked(scan, 0) = scan
<1>1. Marked(scan, 0) = [pc |-> scan.pc + 0, bits |-> scan.bits]
  BY DEF Marked
<1>2. scan.pc + 0 = scan.pc
  OBVIOUS
<1> QED BY <1>1, <1>2 DEF IsRecord

LEMMA MarkedRecord == \A scan, size : IsRecord(Marked(scan, size))
  BY DEF IsRecord, Marked

\* What a push of n bytes makes of the scan that is at them.
MarkedData(scan, n) ==
    LET s1 == MarkedIf(n >= 16, scan, 16)
        s2 == MarkedIf(n >= 32, s1, 16)
        s3 == MarkedIf(n % 16 >= 8, s2, 8)
    IN  Marked(s3, n % 8)

Chained(top, n, scan) == top \in Nat /\ n \in 1..32 /\ IsRecord(scan) /\ Scannable(scan, top, n)

LEMMA MarkedChain ==
    ASSUME NEW top, NEW n, NEW scan, Chained(top, n, scan), NEW next, next = MarkedData(scan, n)
    PROVE  /\ IsRecord(next) /\ next.pc = scan.pc + n /\ Scannable(next, top, 0)
           /\ Extends(next.bits, scan.bits, top, scan.pc, n)
<1>0. top \in Nat /\ n \in 1..32 /\ IsRecord(scan) /\ Scannable(scan, top, n)
  BY DEF Chained
<1> USE <1>0
<1> DEFINE d1 == Sizes(n)[1]
           d2 == Sizes(n)[2]
           d3 == Sizes(n)[3]
           d4 == Sizes(n)[4]
           s1 == MarkedIf(n >= 16, scan, 16)
           s2 == MarkedIf(n >= 32, s1, 16)
           s3 == MarkedIf(n % 16 >= 8, s2, 8)
           s4 == Marked(s3, n % 8)
<1>1. /\ d1 = (IF n >= 16 THEN 16 ELSE 0) /\ d2 = (IF n >= 32 THEN 16 ELSE 0)
      /\ d3 = (IF n % 16 >= 8 THEN 8 ELSE 0) /\ d4 = n % 8
  BY DEF Sizes
<1>2. /\ d1 \in (0..8) \cup {16} /\ d2 \in (0..8) \cup {16} /\ d3 \in (0..8) \cup {16}
      /\ d4 \in (0..8) \cup {16} /\ d1 + d2 + d3 + d4 = n
  BY SizesSum
<1> HIDE DEF d1, d2, d3, d4
<1>3. scan.pc \in Nat
  BY DEF Scannable
<1>4. /\ s1 = Marked(scan, d1) /\ s1.pc = scan.pc + d1 /\ Scannable(s1, top, n - d1)
      /\ Extends(s1.bits, scan.bits, top, scan.pc, d1)
  <2>1. s1 = Marked(scan, d1)
    <3>1. CASE n >= 16
      BY <1>1, <3>1 DEF MarkedIf
    <3>2. CASE ~(n >= 16)
      BY <1>1, <1>3, <3>2, MarkedNone DEF MarkedIf
    <3> QED BY <3>1, <3>2
  <2> HIDE DEF s1
  <2>2. n \in Nat /\ d1 <= n
    BY <1>2
  <2>3. Marking(top, d1, n, scan, s1)
    BY <1>2, <2>1, <2>2 DEF Marking
  <2> QED BY <2>1, <2>3, MarkedExact
<1> HIDE DEF s1
<1>5. IsRecord(s1) /\ s1.pc \in Nat
  BY <1>2, <1>3, <1>4, MarkedRecord
<1>6. /\ s2 = Marked(s1, d2) /\ s2.pc = s1.pc + d2 /\ Scannable(s2, top, n - d1 - d2)
      /\ Extends(s2.bits, s1.bits, top, s1.pc, d2)
  <2>1. s2 = Marked(s1, d2)
    <3>1. CASE n >= 32
      BY <1>1, <3>1 DEF MarkedIf
    <3>2. CASE ~(n >= 32)
      BY <1>1, <1>5, <3>2, MarkedNone DEF MarkedIf
    <3> QED BY <3>1, <3>2
  <2> HIDE DEF s2
  <2>2. n - d1 \in Nat /\ d2 <= n - d1
    BY <1>2
  <2>3. Marking(top, d2, n - d1, s1, s2)
    BY <1>2, <1>4, <2>1, <2>2 DEF Marking
  <2> QED BY <2>1, <2>3, MarkedExact
<1> HIDE DEF s2
<1>7. IsRecord(s2) /\ s2.pc \in Nat
  BY <1>2, <1>5, <1>6, MarkedRecord
<1>8. /\ s3 = Marked(s2, d3) /\ s3.pc = s2.pc + d3 /\ Scannable(s3, top, n - d1 - d2 - d3)
      /\ Extends(s3.bits, s2.bits, top, s2.pc, d3)
  <2>1. s3 = Marked(s2, d3)
    <3>1. CASE n % 16 >= 8
      BY <1>1, <3>1 DEF MarkedIf
    <3>2. CASE ~(n % 16 >= 8)
      BY <1>1, <1>7, <3>2, MarkedNone DEF MarkedIf
    <3> QED BY <3>1, <3>2
  <2> HIDE DEF s3
  <2>2. n - d1 - d2 \in Nat /\ d3 <= n - d1 - d2
    BY <1>2
  <2>3. Marking(top, d3, n - d1 - d2, s2, s3)
    BY <1>2, <1>6, <2>1, <2>2 DEF Marking
  <2> QED BY <2>1, <2>3, MarkedExact
<1> HIDE DEF s3
<1>9. s3.pc \in Nat
  BY <1>2, <1>7, <1>8
<1>10. /\ s4 = Marked(s3, d4) /\ s4.pc = s3.pc + d4 /\ Scannable(s4, top, n - d1 - d2 - d3 - d4)
       /\ Extends(s4.bits, s3.bits, top, s3.pc, d4)
  <2>1. s4 = Marked(s3, d4)
    BY <1>1
  <2> HIDE DEF s4
  <2>2. n - d1 - d2 - d3 \in Nat /\ d4 <= n - d1 - d2 - d3
    BY <1>2
  <2>3. Marking(top, d4, n - d1 - d2 - d3, s3, s4)
    BY <1>2, <1>8, <2>1, <2>2 DEF Marking
  <2> QED BY <2>1, <2>3, MarkedExact
<1> HIDE DEF s4
<1>11. IsRecord(s4)
  BY <1>10, MarkedRecord
<1>12. s4.pc = scan.pc + n /\ n - d1 - d2 - d3 - d4 = 0
  BY <1>2, <1>3, <1>4, <1>6, <1>8, <1>10
<1>13. d1 \in Nat /\ d2 \in Nat /\ d3 \in Nat /\ d4 \in Nat
  BY <1>2
<1>14. Extends(s2.bits, scan.bits, top, scan.pc, d1 + d2)
  BY <1>3, <1>4, <1>6, <1>13, ExtendsChain
<1>15. Extends(s3.bits, scan.bits, top, scan.pc, (d1 + d2) + d3)
  <2>1. s2.pc = scan.pc + (d1 + d2) /\ d1 + d2 \in Nat
    BY <1>3, <1>4, <1>6, <1>13
  <2> QED BY <1>3, <1>8, <1>13, <1>14, <2>1, ExtendsChain
<1>16. Extends(s4.bits, scan.bits, top, scan.pc, ((d1 + d2) + d3) + d4)
  <2>1. s3.pc = scan.pc + ((d1 + d2) + d3) /\ (d1 + d2) + d3 \in Nat
    BY <1>3, <1>4, <1>6, <1>8, <1>13
  <2> QED BY <1>3, <1>10, <1>13, <1>15, <2>1, ExtendsChain
<1>17. ((d1 + d2) + d3) + d4 = n
  BY <1>2
<1>18. next = s4
  BY DEF MarkedData, s1, s2, s3, s4
<1> QED BY <1>10, <1>11, <1>12, <1>16, <1>17, <1>18

\* The scan at an instruction goes on to the next one, and marks what is between.
LEMMA ScannedExact ==
    ASSUME NEW code \in Seq(Bytes), NEW scan, IsRecord(scan), Scannable(scan, TopOf(code), 0),
           scan.pc < Len(code)
    PROVE  /\ IsRecord(Scanned(code, scan)) /\ Scannable(Scanned(code, scan), TopOf(code), 0)
           /\ Scanned(code, scan).pc = scan.pc + 1 + DataAt(code, scan.pc)
           /\ Extends(Scanned(code, scan).bits, scan.bits, TopOf(code), scan.pc + 1, DataAt(code, scan.pc))
<1> DEFINE top == TopOf(code)
           pos == scan.pc
           op == At(code, pos)
           s0 == [scan EXCEPT !.pc = @ + 1]
<1>1. pos \in Nat /\ Vector(scan.bits, top) /\ ClearFrom(scan.bits, top, pos)
  BY DEF Scannable
<1>2. op \in Bytes /\ GetOp(code, pos) = op
  BY <1>1 DEF At, GetOp
<1>3. Len(code) \in Nat /\ top \in Nat /\ pos + 33 <= 8 * top + 8
  <2>1. Len(code) \in Nat
    OBVIOUS
  <2>2. Len(code) \div 8 \in Nat /\ Len(code) = 8 * (Len(code) \div 8) + (Len(code) % 8) /\ Len(code) % 8 \in 0..7
    BY <2>1, Places
  <2> QED BY <1>1, <2>1, <2>2 DEF TopOf
<1>4. IsRecord(s0) /\ s0.pc = pos + 1 /\ s0.bits = scan.bits
  BY DEF IsRecord
<1>5. \A room \in 0..32 : Scannable(s0, top, room)
  <2>1. ClearFrom(scan.bits, top, pos + 1)
    BY <1>1 DEF ClearFrom
  <2> HIDE DEF s0, top
  <2> QED BY <1>1, <1>3, <1>4, <2>1 DEF Scannable
<1>6. (Int8(op) < Int8(OpCode["PUSH1"]) <=> op \notin 96..127) /\ OpCode["PUSH1"] = 96
  BY <1>2, PushRange
<1>7. DataAt(code, pos) = IF op \in 96..127 THEN op - 95 ELSE 0
  BY <1>2 DEF DataAt
<1> DEFINE n == op - OpCode["PUSH1"] + 1
<1>10. Scanned(code, scan) = IF Int8(op) < Int8(OpCode["PUSH1"]) THEN s0 ELSE MarkedData(s0, n)
  <2>1. ~(scan.pc >= Len(code))
    BY <1>1, <1>3
  <2> QED BY <2>1 DEF Scanned, MarkedData
<1> HIDE DEF op
<1>8. CASE op \notin 96..127
  <2>1. Scanned(code, scan) = s0
    BY <1>6, <1>8, <1>10
  <2> HIDE DEF s0, top
  <2>2. Extends(s0.bits, scan.bits, top, pos + 1, 0)
    <3>1. (pos + 1)..(pos + 1 + 0 - 1) = {}
      BY <1>1
    <3> QED BY <1>1, <1>4, <3>1 DEF Extends
  <2>3. DataAt(code, pos) = 0 /\ pos + 1 + 0 = pos + 1
    <3>1. DataAt(code, pos) = 0
      BY <1>7, <1>8
    <3> QED BY <1>1, <3>1
  <2>4. Scannable(s0, top, 0)
    BY <1>5
  <2> QED BY <1>4, <2>1, <2>2, <2>3, <2>4 DEF top
<1>9. CASE op \in 96..127
  <2>1. Scanned(code, scan) = MarkedData(s0, n)
    BY <1>6, <1>9, <1>10
  <2>2. n \in 1..32 /\ n = op - 95
    <3>1. OpCode["PUSH1"] = 96
      BY <1>6
    <3> QED BY <1>9, <3>1
  <2> HIDE DEF n, s0, top
  <2>3. DataAt(code, pos) = n
    BY <1>7, <1>9, <2>2
  <2>4. Scannable(s0, top, n)
    <3>1. n \in 0..32
      BY <2>2
    <3> QED BY <1>5, <3>1
  <2>5. Chained(top, n, s0)
    BY <1>3, <1>4, <2>2, <2>4 DEF Chained
  <2> DEFINE next == MarkedData(s0, n)
  <2>6. next = MarkedData(s0, n)
    OBVIOUS
  <2> HIDE DEF next
  <2>7. /\ IsRecord(next) /\ next.pc = s0.pc + n /\ Scannable(next, top, 0)
        /\ Extends(next.bits, s0.bits, top, s0.pc, n)
    BY <2>5, <2>6, MarkedChain
  <2> QED BY <1>4, <2>1, <2>3, <2>6, <2>7 DEF top
<1> QED BY <1>8, <1>9

----------------------------------------------------------------------------
(* The recursions of codeBitmap and of InstructionStarts                   *)

IsScan(S, code) ==
    S = [i \in 0..Len(code) |->
            IF i = 0 THEN [pc |-> 0, bits |-> [b \in 0..(Len(code) \div 8 + 4) |-> {}]]
            ELSE Scanned(code, S[i - 1])]

IsStart(S, code) ==
    S = [i \in 0..Len(code) |->
            IF i = 0 THEN 0
            ELSE LET p == S[i - 1]
                     op == GetOp(code, p)
                 IN  p + 1 + IF IsPush(op) THEN op - OpCode["PUSH1"] + 1 ELSE 0]

Scans(code) == {scan \in [pc : Nat, bits : [0..TopOf(code) -> SUBSET Bits]] : Scannable(scan, TopOf(code), 0)}

LEMMA ScanFound ==
    ASSUME NEW scan, NEW code
    PROVE  scan \in Scans(code) <=> IsRecord(scan) /\ Scannable(scan, TopOf(code), 0)
  BY DEF Scans, IsRecord, Scannable, Vector

LEMMA FirstScan ==
    ASSUME NEW code \in Seq(Bytes)
    PROVE  [pc |-> 0, bits |-> [b \in 0..TopOf(code) |-> {}]] \in Scans(code)
<1> DEFINE bits == [b \in 0..TopOf(code) |-> {}]
           scan == [pc |-> 0, bits |-> bits]
<1>1. Len(code) \div 8 \in Nat /\ Len(code) \in Nat
  <2>1. Len(code) \in Nat
    OBVIOUS
  <2> QED BY <2>1, Places
<1>2. TopOf(code) \in Nat /\ 0 + 0 <= 8 * TopOf(code) + 8
  BY <1>1 DEF TopOf
<1>3. Vector(bits, TopOf(code))
  BY DEF Vector
<1>4. \A a \in 0..TopOf(code) : bits[a] = {}
  OBVIOUS
<1> HIDE DEF bits
<1>5. ClearFrom(bits, TopOf(code), 0)
  <2> SUFFICES ASSUME NEW q \in Nat, q \div 8 <= TopOf(code) PROVE ~Marks(bits, q)
    BY DEF ClearFrom
  <2>1. q \div 8 \in 0..TopOf(code)
    BY <1>2, Places
  <2> QED BY <1>4, <2>1 DEF Marks
<1>6. IsRecord(scan) /\ scan.pc = 0 /\ scan.bits = bits
  BY DEF IsRecord
<1> HIDE DEF scan
<1>7. Scannable(scan, TopOf(code), 0)
  BY <1>2, <1>3, <1>5, <1>6 DEF Scannable
<1> QED BY <1>6, <1>7, ScanFound DEF scan, bits

LEMMA ScansGoOn ==
    ASSUME NEW code \in Seq(Bytes), NEW scan \in Scans(code)
    PROVE  Scanned(code, scan) \in Scans(code)
<1>1. IsRecord(scan) /\ Scannable(scan, TopOf(code), 0)
  BY ScanFound
<1>2. CASE scan.pc < Len(code)
  <2>1. IsRecord(Scanned(code, scan)) /\ Scannable(Scanned(code, scan), TopOf(code), 0)
    BY <1>1, <1>2, ScannedExact
  <2> QED BY <2>1, ScanFound
<1>3. CASE ~(scan.pc < Len(code))
  <2>1. scan.pc >= Len(code)
    BY <1>1, <1>3 DEF Scannable
  <2> QED BY <2>1 DEF Scanned
<1> QED BY <1>2, <1>3

LEMMA ScanExists ==
    ASSUME NEW code \in Seq(Bytes)
    PROVE  \E S : IsScan(S, code)
<1> DEFINE X == Scans(code)
           a == [pc |-> 0, bits |-> [b \in 0..TopOf(code) |-> {}]]
           g == [scan \in X |-> Scanned(code, scan)]
           n == Len(code)
<1>1. a \in X /\ g \in [X -> X] /\ n \in Nat
  BY FirstScan, ScansGoOn
<1>2. \A scan \in X : g[scan] = Scanned(code, scan)
  OBVIOUS
<1>3. a = [pc |-> 0, bits |-> [b \in 0..(Len(code) \div 8 + 4) |-> {}]]
  BY DEF TopOf
<1> HIDE DEF X, a, g, n
<1>7. Iterating(X, a, g, n)
  BY <1>1 DEF Iterating
<1>4. PICK R \in [0..n -> X] : R = [i \in 0..n |-> IF i = 0 THEN a ELSE g[R[i - 1]]]
  BY <1>7, Iterated
<1>5. \A i \in 0..n : i # 0 => R[i - 1] \in X
  <2>1. \A i \in 0..n : i # 0 => i - 1 \in 0..n
    BY <1>1
  <2> QED BY <1>4, <2>1
<1>6. R = [i \in 0..n |-> IF i = 0 THEN a ELSE Scanned(code, R[i - 1])]
  BY <1>2, <1>4, <1>5
<1> QED BY <1>3, <1>6 DEF IsScan, n

LEMMA StartExists ==
    ASSUME NEW code \in Seq(Bytes)
    PROVE  \E S : IsStart(S, code)
<1> DEFINE g == [p \in Nat |-> p + 1 + DataAt(code, p)]
           n == Len(code)
<1>1. g \in [Nat -> Nat] /\ n \in Nat
  <2>1. \A p \in Nat : p + 1 + DataAt(code, p) \in Nat
    <3> SUFFICES ASSUME NEW p \in Nat PROVE p + 1 + DataAt(code, p) \in Nat
      OBVIOUS
    <3> DEFINE d == DataAt(code, p)
    <3>1. d \in 0..32
      BY DataNat
    <3> HIDE DEF d, g
    <3>2. p + 1 + d \in Nat
      BY <3>1
    <3> QED BY <3>2 DEF d
  <2>2. g \in [Nat -> Nat]
    BY <2>1
  <2>3. n \in Nat
    OBVIOUS
  <2> QED BY <2>2, <2>3
<1>2. \A p \in Nat : g[p] = LET op == GetOp(code, p)
                            IN  p + 1 + IF IsPush(op) THEN op - OpCode["PUSH1"] + 1 ELSE 0
  <2> SUFFICES ASSUME NEW p \in Nat
               PROVE  g[p] = p + 1 + IF IsPush(GetOp(code, p)) THEN GetOp(code, p) - OpCode["PUSH1"] + 1 ELSE 0
    OBVIOUS
  <2>1. g[p] = p + 1 + DataAt(code, p)
    OBVIOUS
  <2> HIDE DEF g
  <2>2. DataAt(code, p) = IF IsPush(GetOp(code, p)) THEN GetOp(code, p) - OpCode["PUSH1"] + 1 ELSE 0
    BY DataNat
  <2> QED BY <2>1, <2>2
<1> HIDE DEF g, n
<1>7. Iterating(Nat, 0, g, n)
  BY <1>1 DEF Iterating
<1>4. PICK R \in [0..n -> Nat] : R = [i \in 0..n |-> IF i = 0 THEN 0 ELSE g[R[i - 1]]]
  BY <1>7, Iterated
<1>5. \A i \in 0..n : i # 0 => R[i - 1] \in Nat
  <2>1. \A i \in 0..n : i # 0 => i - 1 \in 0..n
    BY <1>1
  <2> QED BY <1>4, <2>1
<1>6. R = [i \in 0..n |-> IF i = 0 THEN 0
                          ELSE LET p == R[i - 1]
                                   op == GetOp(code, p)
                               IN  p + 1 + IF IsPush(op) THEN op - OpCode["PUSH1"] + 1 ELSE 0]
  BY <1>2, <1>4, <1>5
<1> QED BY <1>6 DEF IsStart, n

\* After i turns of the scan S, and of the reference R: they are at the same
\* place or both past the end, and so far exactly the bytes at which no
\* instruction starts are marked.
Agree(S, R, code, i) ==
    /\ IsRecord(S[i]) /\ Scannable(S[i], TopOf(code), 0)
    /\ \A j \in 0..i : R[j] \in Nat /\ R[j] <= R[i]
    /\ R[i] >= i
    /\ S[i].pc = R[i] \/ (S[i].pc >= Len(code) /\ R[i] >= Len(code))
    /\ \A q \in Nat : q < Len(code) /\ q < S[i].pc => (Marks(S[i].bits, q) <=> \A j \in 0..i : R[j] # q)

LEMMA StartSteps ==
    ASSUME NEW code \in Seq(Bytes), NEW R, IsStart(R, code)
    PROVE  /\ R[0] = 0
           /\ \A i \in 0..(Len(code) - 1) : R[i] \in Nat => R[i + 1] = R[i] + 1 + DataAt(code, R[i])
<1>1. Len(code) \in Nat
  OBVIOUS
<1>2. R[0] = 0
  BY <1>1 DEF IsStart
<1>3. ASSUME NEW i \in 0..(Len(code) - 1), R[i] \in Nat
      PROVE  R[i + 1] = R[i] + 1 + DataAt(code, R[i])
  <2> DEFINE p == R[i]
             op == GetOp(code, p)
  <2>1. i + 1 \in 0..Len(code) /\ i + 1 # 0 /\ (i + 1) - 1 = i
    BY <1>1
  <2>2. R[i + 1] = p + 1 + IF IsPush(op) THEN op - OpCode["PUSH1"] + 1 ELSE 0
    BY <2>1 DEF IsStart
  <2>3. DataAt(code, p) = IF IsPush(op) THEN op - OpCode["PUSH1"] + 1 ELSE 0
    BY <1>3, DataNat
  <2> QED BY <2>2, <2>3
<1> QED BY <1>2, <1>3

LEMMA ScanSteps ==
    ASSUME NEW code \in Seq(Bytes), NEW S, IsScan(S, code)
    PROVE  /\ S[0] = [pc |-> 0, bits |-> [b \in 0..TopOf(code) |-> {}]]
           /\ \A i \in 0..(Len(code) - 1) : S[i + 1] = Scanned(code, S[i])
<1>1. Len(code) \in Nat
  OBVIOUS
<1>2. S[0] = [pc |-> 0, bits |-> [b \in 0..TopOf(code) |-> {}]]
  BY <1>1 DEF IsScan, TopOf
<1>3. ASSUME NEW i \in 0..(Len(code) - 1)
      PROVE  S[i + 1] = Scanned(code, S[i])
  <2>1. i + 1 \in 0..Len(code) /\ i + 1 # 0 /\ (i + 1) - 1 = i
    BY <1>1
  <2> QED BY <2>1 DEF IsScan
<1> QED BY <1>2, <1>3

LEMMA InTheVector ==
    ASSUME NEW code \in Seq(Bytes), NEW q \in Nat, q < Len(code)
    PROVE  q \div 8 <= TopOf(code)
<1>1. Len(code) \in Nat
  OBVIOUS
<1>2. q \div 8 <= Len(code) \div 8 /\ q \div 8 \in Nat /\ Len(code) \div 8 \in Nat
  BY <1>1, DivMonotone
<1> QED BY <1>2 DEF TopOf

Walk(S, R, code) == code \in Seq(Bytes) /\ IsScan(S, code) /\ IsStart(R, code)

LEMMA AgreeFirst ==
    ASSUME NEW S, NEW R, NEW code, Walk(S, R, code)
    PROVE  Agree(S, R, code, 0)
<1>1. code \in Seq(Bytes) /\ R[0] = 0 /\ S[0] = [pc |-> 0, bits |-> [b \in 0..TopOf(code) |-> {}]]
  BY StartSteps, ScanSteps DEF Walk
<1>2. S[0] \in Scans(code)
  BY <1>1, FirstScan
<1>3. IsRecord(S[0]) /\ Scannable(S[0], TopOf(code), 0)
  BY <1>2, ScanFound
<1>4. S[0].pc = 0
  BY <1>1
<1>5. \A j \in 0..0 : R[j] = 0
  BY <1>1
<1> QED BY <1>1, <1>3, <1>4, <1>5 DEF Agree

LEMMA AgreeGoesOn ==
    ASSUME NEW S, NEW R, NEW code, Walk(S, R, code), NEW i \in 0..(Len(code) - 1), Agree(S, R, code, i)
    PROVE  Agree(S, R, code, i + 1)
<1> DEFINE n == Len(code)
           top == TopOf(code)
           data == DataAt(code, R[i])
<1>1. code \in Seq(Bytes) /\ S[i + 1] = Scanned(code, S[i])
  BY ScanSteps DEF Walk
<1>2. n \in Nat
  BY <1>1
<1>3. /\ IsRecord(S[i]) /\ Scannable(S[i], top, 0)
      /\ \A j \in 0..i : R[j] \in Nat /\ R[j] <= R[i]
      /\ R[i] >= i
      /\ S[i].pc = R[i] \/ (S[i].pc >= n /\ R[i] >= n)
      /\ \A q \in Nat : q < n /\ q < S[i].pc => (Marks(S[i].bits, q) <=> \A j \in 0..i : R[j] # q)
  BY DEF Agree
<1>4. R[i] \in Nat /\ R[i] <= R[i]
  BY <1>3
<1>5. data \in 0..32
  BY <1>1, <1>4, DataNat
<1>6. R[i + 1] = R[i] + 1 + data
  BY <1>1, <1>4, StartSteps DEF Walk
<1>7. \A q \in Nat : q < n => q \div 8 <= top
  BY <1>1, InTheVector
<1>8. S[i].pc \in Nat /\ ClearFrom(S[i].bits, top, S[i].pc)
  BY <1>3 DEF Scannable
<1> HIDE DEF n, top, data
<1>9. \A j \in 0..(i + 1) : j \in 0..i \/ j = i + 1
  BY <1>2
<1>10. R[i + 1] \in Nat /\ R[i + 1] > R[i] /\ R[i + 1] >= i + 1
  BY <1>3, <1>4, <1>5, <1>6
<1>11. \A j \in 0..(i + 1) : R[j] \in Nat /\ R[j] <= R[i + 1]
  <2> SUFFICES ASSUME NEW j \in 0..(i + 1) PROVE R[j] \in Nat /\ R[j] <= R[i + 1]
    OBVIOUS
  <2>1. CASE j = i + 1
    BY <1>10, <2>1
  <2>2. CASE j \in 0..i
    <3>1. R[j] \in Nat /\ R[j] <= R[i]
      BY <1>3, <2>2
    <3> QED BY <1>4, <1>10, <3>1
  <2> QED BY <1>9, <2>1, <2>2
<1>12. CASE S[i].pc < n
  <2>1. S[i].pc = R[i]
    BY <1>2, <1>3, <1>8, <1>12
  <2>2. /\ IsRecord(S[i + 1]) /\ Scannable(S[i + 1], top, 0)
        /\ S[i + 1].pc = R[i] + 1 + data /\ Extends(S[i + 1].bits, S[i].bits, top, R[i] + 1, data)
    BY <1>1, <1>3, <1>12, <2>1, ScannedExact DEF top, data, n
  <2>3. ASSUME NEW q \in Nat, q < n, q < S[i + 1].pc
        PROVE  Marks(S[i + 1].bits, q) <=> \A j \in 0..(i + 1) : R[j] # q
    <3>1. Marks(S[i + 1].bits, q) <=> Marks(S[i].bits, q) \/ q \in (R[i] + 1)..(R[i] + 1 + data - 1)
      BY <1>7, <2>2, <2>3 DEF Extends
    <3>2. R[i + 1] # q
      BY <1>6, <2>2, <2>3
    <3>3. (\A j \in 0..(i + 1) : R[j] # q) <=> (\A j \in 0..i : R[j] # q)
      <4>1. \A j \in 0..i : j \in 0..(i + 1)
        OBVIOUS
      <4> QED BY <1>9, <3>2, <4>1
    <3>4. CASE q < R[i]
      <4>1. q \notin (R[i] + 1)..(R[i] + 1 + data - 1)
        BY <1>4, <1>5, <3>4
      <4>2. Marks(S[i].bits, q) <=> \A j \in 0..i : R[j] # q
        BY <1>3, <2>1, <2>3, <3>4
      <4> QED BY <3>1, <3>3, <4>1, <4>2
    <3>5. CASE q = R[i]
      <4>1. q \notin (R[i] + 1)..(R[i] + 1 + data - 1)
        BY <1>4, <1>5, <3>5
      <4>2. ~Marks(S[i].bits, q)
        BY <1>4, <1>7, <1>8, <2>1, <2>3, <3>5 DEF ClearFrom
      <4>3. i \in 0..i
        BY <1>2
      <4> QED BY <3>1, <3>3, <3>5, <4>1, <4>2, <4>3
    <3>6. CASE q > R[i]
      <4>1. q \in (R[i] + 1)..(R[i] + 1 + data - 1)
        BY <1>4, <1>5, <2>2, <2>3, <3>6
      <4>2. ASSUME NEW j \in 0..i PROVE R[j] # q
        <5>1. R[j] \in Nat /\ R[j] <= R[i]
          BY <1>3
        <5> QED BY <1>4, <3>6, <5>1
      <4> QED BY <3>1, <3>3, <4>1, <4>2
    <3> QED BY <1>4, <3>4, <3>5, <3>6
  <2>4. S[i + 1].pc = R[i + 1]
    BY <1>6, <2>2
  <2> QED BY <1>10, <1>11, <2>2, <2>3, <2>4 DEF Agree, top, n
<1>13. CASE ~(S[i].pc < n)
  <2>1. S[i].pc >= n
    BY <1>2, <1>8, <1>13
  <2>2. S[i + 1] = S[i]
    BY <1>1, <2>1 DEF Scanned, n
  <2>3. R[i] >= n /\ R[i + 1] >= n
    BY <1>2, <1>3, <1>4, <1>10, <2>1
  <2>4. ASSUME NEW q \in Nat, q < n, q < S[i].pc
        PROVE  Marks(S[i].bits, q) <=> \A j \in 0..(i + 1) : R[j] # q
    <3>1. R[i + 1] # q
      BY <1>2, <1>10, <2>3, <2>4
    <3>2. (\A j \in 0..(i + 1) : R[j] # q) <=> (\A j \in 0..i : R[j] # q)
      <4>1. \A j \in 0..i : j \in 0..(i + 1)
        OBVIOUS
      <4> QED BY <1>9, <3>1, <4>1
    <3> QED BY <1>3, <2>4, <3>2
  <2> QED BY <1>3, <1>10, <1>11, <2>1, <2>2, <2>3, <2>4 DEF Agree, top, n
<1> QED BY <1>12, <1>13

\* The instructions of a program: the next one starts behind the data of this
\* one, and of the rest of the bytes all and nothing else is marked as data.
Instructions(code, starts, bits) ==
    /\ starts \subseteq Nat /\ 0 \in starts
    /\ \A d \in starts : d < Len(code) => d + 1 + DataAt(code, d) \in starts
    /\ \A q \in Nat : q < Len(code) => (Marks(bits, q) <=> q \notin starts)

LEMMA BitmapExact ==
    ASSUME NEW code \in Seq(Bytes)
    PROVE  Instructions(code, InstructionStarts(code), codeBitmap(code))
<1> DEFINE S == CHOOSE Scan : IsScan(Scan, code)
           R == CHOOSE Start : IsStart(Start, code)
           n == Len(code)
<1>1. Walk(S, R, code)
  BY ScanExists, StartExists DEF Walk
<1>2. codeBitmap(code) = S[n].bits
  BY DEF codeBitmap, IsScan
<1>3. InstructionStarts(code) = {R[i] : i \in 0..n}
  BY DEF InstructionStarts, IsStart
<1>4. n \in Nat
  OBVIOUS
<1> HIDE DEF S, R, n
<1>5. \A i \in 0..n : Agree(S, R, code, i)
  <2> DEFINE T == {i \in 0..n : Agree(S, R, code, i)}
  <2>1. 0 \in T
    BY <1>1, <1>4, AgreeFirst
  <2>2. \A i \in 0..(n - 1) : i \in T => i + 1 \in T
    <3> SUFFICES ASSUME NEW i \in 0..(n - 1), Agree(S, R, code, i) PROVE Agree(S, R, code, i + 1) /\ i + 1 \in 0..n
      OBVIOUS
    <3>1. Agree(S, R, code, i + 1)
      BY <1>1, AgreeGoesOn DEF n
    <3> QED BY <1>4, <3>1
  <2> HIDE DEF T
  <2>3. \A i \in 0..n : i \in T
    BY <1>4, <2>1, <2>2, UpTo
  <2> QED BY <2>3 DEF T
<1>6. \A i \in 0..n : R[i] \in Nat /\ R[i] >= i
  <2> SUFFICES ASSUME NEW i \in 0..n PROVE R[i] \in Nat /\ R[i] >= i
    OBVIOUS
  <2>1. i \in 0..i
    BY <1>4
  <2> QED BY <1>5, <2>1 DEF Agree
<1>7. R[0] = 0 /\ \A i \in 0..(n - 1) : R[i] \in Nat => R[i + 1] = R[i] + 1 + DataAt(code, R[i])
  BY <1>1, StartSteps DEF Walk, n
<1> DEFINE starts == {R[i] : i \in 0..n}
<1>8. starts \subseteq Nat /\ 0 \in starts
  BY <1>4, <1>6, <1>7
<1>9. ASSUME NEW d \in starts, d < n PROVE d + 1 + DataAt(code, d) \in starts
  <2>1. PICK i \in 0..n : d = R[i]
    OBVIOUS
  <2>2. R[i] \in Nat /\ R[i] >= i
    BY <1>6
  <2>3. i \in 0..(n - 1) /\ i + 1 \in 0..n
    BY <1>4, <1>9, <2>1, <2>2
  <2>4. R[i + 1] = d + 1 + DataAt(code, d)
    BY <1>7, <2>1, <2>2, <2>3
  <2> QED BY <2>3, <2>4
<1>10. ASSUME NEW q \in Nat, q < n PROVE Marks(S[n].bits, q) <=> q \notin starts
  <2>1. n \in 0..n
    BY <1>4
  <2>2. /\ S[n].pc = R[n] \/ S[n].pc >= n
        /\ q < S[n].pc => (Marks(S[n].bits, q) <=> \A j \in 0..n : R[j] # q)
        /\ S[n].pc \in Nat
    BY <1>5, <1>10, <2>1 DEF Agree, n, Scannable
  <2>3. q < S[n].pc
    BY <1>4, <1>6, <1>10, <2>1, <2>2
  <2> QED BY <2>2, <2>3
<1> HIDE DEF starts
<1> QED BY <1>2, <1>3, <1>8, <1>9, <1>10 DEF Instructions, starts, n

----------------------------------------------------------------------------
(* The programs                                                            *)

LEMMA ProgramsExact ==
    ASSUME NEW p \in DOMAIN Programs
    PROVE  /\ Programs[p] \in Seq(Bytes)
           /\ Starts[p] \subseteq Nat /\ 0 \in Starts[p]
           /\ \A d \in Starts[p] :
                 d < Len(Programs[p]) => d + 1 + DataAt(Programs[p], d) \in Starts[p]
           /\ \A d \in Nat : validJumpdest(Programs[p], Bitmaps[p], d) => d \in Starts[p]
           /\ Exact[p]
<1> DEFINE code == Programs[p]
           starts == InstructionStarts(code)
           bits == codeBitmap(code)
<1>1. code \in Seq(Bytes)
  BY ProgramsAssumption
<1>2. Starts[p] = starts /\ Bitmaps[p] = bits
  BY DEF Starts, Bitmaps
<1>3. Instructions(code, starts, bits)
  BY <1>1, BitmapExact
<1>4. Exact[p] <=> \A d \in 0..(Len(code) + 1) :
                      validJumpdest(code, bits, d) <=> d \in starts /\ GetOp(code, d) = OpCode["JUMPDEST"]
  BY <1>2 DEF Exact
<1> HIDE DEF code, starts, bits
<1>5. Len(code) \in Nat
  BY <1>1
<1>6. ASSUME NEW d \in Nat
      PROVE  validJumpdest(code, bits, d) <=> d \in starts /\ GetOp(code, d) = OpCode["JUMPDEST"]
  <2>1. CASE d < Len(code)
    <3>1. codeSegment(bits, d) <=> d \in starts
      BY <1>3, <2>1 DEF Instructions, codeSegment, Marks
    <3> QED BY <2>1, <3>1 DEF validJumpdest, GetOp
  <2>2. CASE ~(d < Len(code))
    BY <2>2, PushRange DEF validJumpdest, GetOp
  <2> QED BY <2>1, <2>2
<1>7. Exact[p]
  <2>1. \A d \in 0..(Len(code) + 1) : d \in Nat
    BY <1>5
  <2> QED BY <1>4, <1>6, <2>1
<1> QED BY <1>1, <1>2, <1>3, <1>6, <1>7, Zenon DEF Instructions, code

----------------------------------------------------------------------------
(* Frames between two instructions                                         *)

Poised(f) == FrameFields \subseteq DOMAIN f /\ f.code \in DOMAIN Programs /\ Coded(f.saved)

\* At an instruction; behind one, whose loop is about to count; and waiting for
\* a call, an instruction without data, to return.
Begins(f) == Poised(f) /\ f.pc \in Starts[f.code]
Advances(f) == Poised(f) /\ f.pc + 1 \in Starts[f.code]
Waits(f) == Begins(f) /\ Advances(f)

Patient(fs) == IsStack(fs) /\ \A i \in 1..Len(fs) : Waits(fs[i])

\* All but the last frame wait.
Ordered(fs) ==
    IsStack(fs) /\ \A i \in 1..Len(fs) : Begins(fs[i]) /\ (i < Len(fs) => Advances(fs[i]))

Tidy == Ordered(frames') /\ Coded(world')

LEMMA PatientOrdered ==
    ASSUME NEW b, Patient(b)
    PROVE  Ordered(b) /\ \A f : Begins(f) => Ordered(Append(b, f))
<1>1. Ordered(b)
  BY DEF Patient, Ordered, Waits
<1>2. ASSUME NEW f, Begins(f) PROVE Ordered(Append(b, f))
  <2> DEFINE fs == Append(b, f)
  <2>1. /\ IsStack(fs) /\ Len(b) \in Nat /\ Len(fs) = Len(b) + 1 /\ fs[Len(b) + 1] = f
        /\ \A i \in 1..Len(b) : fs[i] = b[i]
    BY AppendStack DEF Patient
  <2> HIDE DEF fs
  <2>2. \A i \in 1..Len(fs) : i \in 1..Len(b) \/ (i = Len(b) + 1 /\ ~(i < Len(fs)))
    BY <2>1
  <2>3. Ordered(fs)
    BY <1>2, <2>1, <2>2 DEF Ordered, Patient, Waits
  <2> QED BY <2>3 DEF fs
<1> QED BY <1>1, <1>2

LEMMA PatientEmpty == Patient(<<>>)
  BY SturdyEmpty DEF Patient, Sturdy

LEMMA OrderedParts ==
    ASSUME NEW b, Ordered(b), b # <<>>
    PROVE  Patient(Below(b)) /\ Begins(b[Len(b)])
<1>1. /\ IsStack(Below(b)) /\ Len(b) \in Nat \ {0} /\ Len(Below(b)) = Len(b) - 1
      /\ \A i \in 1..Len(Below(b)) : Below(b)[i] = b[i]
  BY BelowStack DEF Ordered
<1>2. \A i \in 1..Len(Below(b)) : i \in 1..Len(b) /\ i < Len(b)
  BY <1>1
<1> QED BY <1>1, <1>2 DEF Ordered, Patient, Waits

LEMMA PatientAppend ==
    ASSUME NEW b, Patient(b), NEW f, Waits(f)
    PROVE  Patient(Append(b, f))
<1> DEFINE fs == Append(b, f)
<1>1. /\ IsStack(fs) /\ Len(b) \in Nat /\ Len(fs) = Len(b) + 1 /\ fs[Len(b) + 1] = f
      /\ \A i \in 1..Len(b) : fs[i] = b[i]
  BY AppendStack DEF Patient
<1> HIDE DEF fs
<1>2. \A i \in 1..Len(fs) : i \in 1..Len(b) \/ i = Len(b) + 1
  BY <1>1
<1>3. Patient(fs)
  BY <1>1, <1>2 DEF Patient
<1> QED BY <1>3 DEF fs

LEMMA PatientParts ==
    ASSUME NEW b, Patient(b), b # <<>>
    PROVE  Patient(Below(b)) /\ Waits(b[Len(b)])
<1>1. /\ IsStack(Below(b)) /\ Len(b) \in Nat \ {0} /\ Len(Below(b)) = Len(b) - 1
      /\ \A i \in 1..Len(Below(b)) : Below(b)[i] = b[i]
  BY BelowStack DEF Patient
<1> QED BY <1>1 DEF Patient

\* The loop counts: the next instruction begins.
LEMMA ContinueTidy ==
    ASSUME NEW b, Patient(b), NEW g, Advances(g), NEW w, Coded(w), NEW ro, Continue(b, g, w, ro)
    PROVE  Tidy
<1> DEFINE g1 == [g EXCEPT !.pc = @ + 1]
<1>1. world' = w /\ (frames' = Append(b, g1) \/ frames' = b \/ frames' = <<>>)
  BY DEF Continue
<1>2. Begins(g1)
  <2> DEFINE pc == g.pc + 1
  <2>1. g1 = [g EXCEPT !.pc = pc] /\ pc \in Starts[g.code] /\ Poised(g)
    BY DEF Advances
  <2> HIDE DEF pc, g1
  <2> QED BY <2>1 DEF Begins, Poised, FrameFields
<1> HIDE DEF g1
<1> QED BY <1>1, <1>2, PatientOrdered, PatientEmpty DEF Tidy

LEMMA ResumeTidy ==
    ASSUME NEW b, Patient(b), NEW w, Coded(w), NEW gas, NEW ok, NEW ro, Resume(b, gas, ok, w, ro)
    PROVE  Tidy
<1>1. CASE b = <<>>
  BY <1>1, PatientOrdered, PatientEmpty DEF Resume, Tidy
<1>2. CASE b # <<>>
  <2> DEFINE f == b[Len(b)]
             left == Wrap(f.gas + gas)
             height == f.height + 1
             g == [f EXCEPT !.height = @ + 1, !.gas = Wrap(@ + gas)]
  <2>1. Patient(Below(b)) /\ Waits(f)
    BY <1>2, PatientParts
  <2>2. Continue(Below(b), g, w, ro)
    BY <1>2, Zenon DEF Resume
  <2> HIDE DEF f
  <2>3. g = [f EXCEPT !.height = height, !.gas = left]
    OBVIOUS
  <2> HIDE DEF left, height
  <2>4. Advances(g)
    BY <2>1, <2>3 DEF Waits, Advances, Poised, FrameFields
  <2> HIDE DEF g
  <2> QED BY <2>1, <2>2, <2>4, ContinueTidy
<1> QED BY <1>1, <1>2

LEMMA ReturnsTidy ==
    ASSUME NEW b, Patient(b), NEW w, Coded(w), NEW gas, NEW ok, Returns(b, gas, ok, w)
    PROVE  Tidy
  BY ResumeTidy DEF Returns

LEMMA RunTidy ==
    ASSUME NEW b, Patient(b), NEW f, Begins(f), NEW w, Coded(w), NEW static, Run(b, f, w, static)
    PROVE  Tidy
  BY PatientOrdered DEF Run, Tidy

LEMMA NewBegins ==
    ASSUME NEW kind, NEW self, NEW code \in DOMAIN Programs, NEW gas, NEW saved, Coded(saved),
           NEW setRO, NEW f, f = NewFrame(kind, self, code, gas, saved, setRO)
    PROVE  Begins(f)
<1>1. 0 \in Starts[code]
  BY ProgramsExact
<1> QED BY <1>1 DEF NewFrame, Begins, Poised, FrameFields

LEMMA InvokeTidy ==
    ASSUME NEW b, Patient(b), NEW saved, Coded(saved), NEW w, Coded(w), NEW gas,
           NEW kind, NEW self, NEW addr \in Accounts, NEW static,
           Invoke(kind, b, self, addr, gas, saved, w, static)
    PROVE  Tidy
<1> DEFINE f == NewFrame(kind, self, w.code[addr], gas, saved, static /\ ~readOnly)
<1>1. \/ \E left, ok : \E w1 \in {w, saved} : Returns(b, left, ok, w1)
      \/ w.code[addr] # 0 /\ Run(b, f, w, static)
  <2>1. ASSUME NEW cost, NEW ok,
               LET fine == ok /\ cost <= gas
               IN  Returns(b, IF fine THEN gas - cost ELSE 0, fine, IF fine THEN w ELSE saved)
        PROVE  \E left, fine : \E w1 \in {w, saved} : Returns(b, left, fine, w1)
    <3> DEFINE fine == ok /\ cost <= gas
               left == IF fine THEN gas - cost ELSE 0
               w1 == IF fine THEN w ELSE saved
    <3>1. Returns(b, left, fine, w1) /\ w1 \in {w, saved}
      BY <2>1
    <3> HIDE DEF fine, left, w1
    <3> QED BY <3>1, Zenon
  <2> QED BY <2>1, Zenon DEF Invoke
<1>2. CASE \E left, ok : \E w1 \in {w, saved} : Returns(b, left, ok, w1)
  BY <1>2, ReturnsTidy
<1>3. CASE w.code[addr] # 0 /\ Run(b, f, w, static)
  <2>1. w.code[addr] \in DOMAIN Programs
    BY <1>3 DEF Coded
  <2>2. Begins(f)
    BY <2>1, NewBegins
  <2> HIDE DEF f
  <2> QED BY <1>3, <2>2, RunTidy
<1> QED BY <1>1, <1>2, <1>3

LEMMA CallTidy ==
    ASSUME NEW b, Patient(b), NEW w, Coded(w), NEW gas, NEW from, NEW to \in Accounts, NEW value,
           Call(b, from, to, gas, value, w)
    PROVE  Tidy
<1> DEFINE target == IF Exist(w, to) THEN w ELSE CreateAccount(w, to)
           paid == Transfer(target, Serial(b), from, to, value)
<1>1. Coded(target)
  BY OperationsCoded
<1>2. Coded(paid)
  BY <1>1, TransferCoded
<1>3. \/ \E ok : Returns(b, gas, ok, w)
      \/ Invoke("call", b, to, to, gas, w, paid, FALSE)
  BY Zenon DEF Call
<1> HIDE DEF paid
<1> DEFINE static == FALSE
<1>4. (\E ok : Returns(b, gas, ok, w)) \/ Invoke("call", b, to, to, gas, w, paid, static)
  BY <1>3
<1> HIDE DEF static
<1> QED BY <1>2, <1>4, ReturnsTidy, InvokeTidy

LEMMA BorrowedTidy ==
    ASSUME NEW b, Patient(b), NEW w, Coded(w), NEW gas, NEW from, NEW to \in Accounts, NEW value,
           \/ CallCode(b, from, to, gas, value, w) \/ DelegateCall(b, from, to, gas, w)
           \/ StaticCall(b, to, gas, w)
    PROVE  Tidy
<1>1. Coded(AddBalance(w, to, 0))
  BY OperationsCoded
<1>2. \/ \E ok : Returns(b, gas, ok, w)
      \/ \E kind, self, static : \E w1 \in {w, AddBalance(w, to, 0)} :
            Invoke(kind, b, self, to, gas, w, w1, static)
  BY Zenon DEF CallCode, DelegateCall, StaticCall
<1> QED BY <1>1, <1>2, ReturnsTidy, InvokeTidy

LEMMA CreateTidy ==
    ASSUME NEW b, Patient(b), NEW w, Coded(w), NEW gas, NEW from, NEW value, NEW kind, NEW size,
           create(kind, b, from, gas, value, size, w)
    PROVE  Tidy
<1>1. ASSUME NEW self, NEW init \in InitPrograms, NEW saved, Coded(saved), NEW setRO, NEW f,
             f = NewFrame(kind, self, init, gas, saved, setRO)
      PROVE  Begins(f)
  <2>1. init \in DOMAIN Programs
    BY ProgramsAssumption
  <2> QED BY <1>1, <2>1, NewBegins
<1>2. ASSUME NEW a, NEW init \in {0} \cup InitPrograms,
             LET bumped == [Journal(w, Serial(b), "nonce") EXCEPT
                               !.nonce[from] = @ + 1,
                               !.warm = IF IsRule("Berlin") THEN @ \cup {a} ELSE @]
                 born   == [CreateAccount(bumped, a) EXCEPT
                               !.nonce[a] = IF IsRule("SpuriousDragon") THEN 1 ELSE 0]
                 paid   == Transfer(Journal(born, Serial(b), "create"), Serial(b), from, a, value)
             IN  \/ Returns(b, 0, FALSE, bumped)
                 \/ Returns(b, gas, TRUE, paid)
                 \/ init \in InitPrograms /\ Run(b, NewFrame(kind, a, init, gas, bumped, FALSE), paid, FALSE)
      PROVE  Tidy
  <2> DEFINE noted == Journal(w, Serial(b), "nonce")
             warm == IF IsRule("Berlin") THEN noted.warm \cup {a} ELSE noted.warm
             nonces == [noted.nonce EXCEPT ![from] = @ + 1]
             bumped == [noted EXCEPT !.nonce[from] = @ + 1,
                                     !.warm = IF IsRule("Berlin") THEN @ \cup {a} ELSE @]
             fresh == CreateAccount(bumped, a)
             born == [fresh EXCEPT !.nonce[a] = IF IsRule("SpuriousDragon") THEN 1 ELSE 0]
             made == Journal(born, Serial(b), "create")
             paid == Transfer(made, Serial(b), from, a, value)
             f == NewFrame(kind, a, init, gas, bumped, FALSE)
  <2>1. Coded(noted)
    BY OperationsCoded
  <2>2. Coded(bumped)
    <3> HIDE DEF noted
    <3>1. bumped = [noted EXCEPT !.nonce = nonces, !.warm = warm]
      OBVIOUS
    <3> HIDE DEF nonces, warm
    <3> QED BY <2>1, <3>1 DEF Coded, WorldFields
  <2> HIDE DEF bumped
  <2>3. Coded(fresh)
    BY <2>2, OperationsCoded
  <2> HIDE DEF fresh
  <2>4. Coded(born)
    BY <2>3, OperationsCoded
  <2> HIDE DEF born
  <2>5. Coded(made)
    BY <2>4, OperationsCoded
  <2> HIDE DEF made
  <2>6. Coded(paid)
    BY <2>5, TransferCoded
  <2> HIDE DEF paid
  <2>7. init \in InitPrograms => Begins(f)
    BY <1>1, <2>2, Zenon
  <2> HIDE DEF f
  <2>8. \/ \E left, ok : \E w1 \in {bumped, paid} : Returns(b, left, ok, w1)
        \/ init \in InitPrograms /\ \E static : Run(b, f, paid, static)
    BY <1>2, Zenon DEF noted, bumped, fresh, born, made, paid, f
  <2> QED BY <2>2, <2>6, <2>7, <2>8, ReturnsTidy, RunTidy
<1>3. CASE \E ok : Returns(b, gas, ok, w)
  BY <1>3, ReturnsTidy
<1>4. \A init : init \in (IF size = 0 THEN {0} ELSE InitPrograms) => init \in {0} \cup InitPrograms /\ (init # 0 => init \in InitPrograms)
  OBVIOUS
<1> QED BY <1>2, <1>3, <1>4, Zenon DEF create

----------------------------------------------------------------------------
(* The frame that runs                                                     *)

\* A machine between two steps, with a frame to run.
Playing ==
    session \in Sessions /\ frames # <<>> /\ Ordered(frames) /\ Coded(world)

LEMMA PlayingParts ==
    ASSUME Playing
    PROVE  Patient(Below(frames)) /\ Begins(Current)
  BY OrderedParts DEF Playing, Current

\* Paying for an instruction moves no frame.
SamePlace(g, f) ==
    FrameFields \subseteq DOMAIN g /\ g.code = f.code /\ g.pc = f.pc /\ g.saved = f.saved

LEMMA PaidPlace ==
    ASSUME NEW op, NEW v, FrameFields \subseteq DOMAIN Current
    PROVE  SamePlace(Paid(op, v).frame, Current)
<1> DEFINE f == Current
           due == IF Charged(f) THEN Cost(op.constantGas) ELSE 0
           g == [f EXCEPT !.gas = @ - due]
           size == MemorySize(op, v)
           q == Quoted(g, op, size, v)
           cost == IF Charged(g) THEN q.cost ELSE 0
<1>1. Paid(op, v) \in {Stopped(f), Stopped(g), Settled(g, size, q, cost)}
  <2>1. Paid(op, v) = Stopped(f) \/ Paid(op, v) = Sized(op, v, g, size)
    BY Zenon DEF Paid
  <2>2. Sized(op, v, g, size) = Stopped(g) \/ Sized(op, v, g, size) = Settled(g, size, q, cost)
    BY Zenon DEF Sized
  <2> HIDE DEF f, g, size, q, cost
  <2> QED BY <2>1, <2>2
<1>2. SamePlace(f, f)
  BY DEF SamePlace
<1>3. SamePlace(g, f)
  BY DEF SamePlace, FrameFields
<1> HIDE DEF f, g, size, q, cost
<1>4. SamePlace(Settled(g, size, q, cost).frame, f)
  BY <1>3 DEF Settled, SamePlace, FrameFields
<1>5. SamePlace(Stopped(f).frame, f) /\ SamePlace(Stopped(g).frame, f)
  BY <1>2, <1>3 DEF Stopped
<1> QED BY <1>1, <1>4, <1>5 DEF f

\* Where the instruction of a frame leaves it: behind its data, if it goes on.
LEMMA NextPlace ==
    ASSUME session \in Sessions, Begins(Current), Operation.execute # "opStop"
    PROVE  /\ Current.pc + Skips(Operation) + 1 \in Starts[Current.code]
           /\ Operation.execute \notin Pushing => Current.pc + 1 \in Starts[Current.code]
<1> DEFINE code == Programs[Current.code]
           pc == Current.pc
           b == GetOp(code, pc)
           op == Tables[session.config][b]
<1>1. /\ code \in Seq(Bytes) /\ pc \in Nat
      /\ pc < Len(code) => pc + 1 + DataAt(code, pc) \in Starts[Current.code]
  BY ProgramsExact DEF Begins, Poised
<1>2. b \in Bytes
  BY <1>1, GetOpInBytes
<1>3. Operation = op
  BY DEF Operation
<1>4. /\ b \in 96..127 => op.execute \in Pushing /\ op.n = b - 95
      /\ b \notin 96..127 => op.execute \notin Pushing
      /\ b = 0 => op.execute = "opStop"
  BY <1>2, TablesSkip
<1>5. DataAt(code, pc) = IF b \in 96..127 THEN b - 95 ELSE 0
  BY DEF DataAt
<1>6. Skips(op) = IF op.execute \in Pushing THEN op.n ELSE 0
  BY DEF Skips, Pushing
<1> HIDE DEF op
<1>7. pc < Len(code)
  <2> SUFFICES ASSUME ~(pc < Len(code)) PROVE FALSE
    OBVIOUS
  <2>1. b = 0
    BY PushRange DEF GetOp
  <2> QED BY <1>3, <1>4, <2>1
<1>8. Skips(op) = DataAt(code, pc) /\ (op.execute \notin Pushing => DataAt(code, pc) = 0)
  BY <1>4, <1>5, <1>6
<1> HIDE DEF b, code, pc
<1>9. DataAt(code, pc) \in 0..32
  BY <1>1, DataNat
<1> DEFINE data == DataAt(code, pc)
<1>10. data \in 0..32 /\ pc \in Nat /\ Skips(op) = data /\ (op.execute \notin Pushing => data = 0)
  BY <1>1, <1>8, <1>9
<1>11. pc + 1 + data \in Starts[Current.code]
  BY <1>1, <1>7
<1> HIDE DEF data
<1>12. pc + data + 1 = pc + 1 + data /\ pc + 1 + 0 = pc + 1
  BY <1>10
<1>13. pc + Skips(op) + 1 \in Starts[Current.code]
  BY <1>10, <1>11, <1>12
<1>14. op.execute \notin Pushing => pc + 1 \in Starts[Current.code]
  BY <1>10, <1>11, <1>12
<1> QED BY <1>3, <1>13, <1>14 DEF pc

\* What execute may count on.
Prompt(op, v, p) ==
    /\ Playing /\ op = Operation /\ v \in OperandsOf(op)
    /\ SamePlace(p.frame, Current) /\ Coded(p.world)

LEMMA PromptParts ==
    ASSUME NEW op, NEW v, NEW p, Prompt(op, v, p)
    PROVE  /\ Playing /\ Coded(p.world) /\ Coded(p.frame.saved) /\ Begins(p.frame)
           /\ op.execute # "opStop" => Advances(Advanced(p.frame, op))
           /\ op.execute \notin Pushing \cup {"opStop"} =>
                 Waits(Waiting(op, p.frame)) /\ \A gas : Waits([Waiting(op, p.frame) EXCEPT !.gas = gas])
           /\ v \in [1..17 -> Nat]
<1> DEFINE f == p.frame
<1>1. Begins(Current)
  BY PlayingParts DEF Prompt
<1>2. Begins(f) /\ f.pc = Current.pc /\ f.code = Current.code
  BY <1>1 DEF Prompt, SamePlace, Begins, Poised
<1>3. ASSUME op.execute # "opStop"
      PROVE  /\ f.pc + Skips(op) + 1 \in Starts[f.code]
             /\ op.execute \notin Pushing => f.pc + 1 \in Starts[f.code]
  BY <1>1, <1>2, <1>3, NextPlace DEF Prompt, Playing
<1> HIDE DEF f
<1>4. ASSUME op.execute # "opStop" PROVE Advances(Advanced(f, op))
  <2> DEFINE pc == f.pc + Skips(op)
             height == f.height + EffectOf(op).delta
             g == [f EXCEPT !.height = height, !.pc = pc]
  <2>1. Advanced(f, op) = g
    BY DEF Advanced
  <2>2. pc + 1 \in Starts[f.code]
    BY <1>3, <1>4
  <2> HIDE DEF pc, height
  <2>3. Advances(g)
    BY <1>2, <2>2 DEF Begins, Advances, Poised, FrameFields
  <2> HIDE DEF g
  <2> QED BY <2>1, <2>3
<1>5. ASSUME op.execute \notin Pushing \cup {"opStop"}
      PROVE  Waits(Waiting(op, f)) /\ \A gas : Waits([Waiting(op, f) EXCEPT !.gas = gas])
  <2> DEFINE height == f.height - EffectOf(op).reads
             g == [f EXCEPT !.height = height]
  <2>1. Waiting(op, f) = g
    BY DEF Waiting
  <2>2. Waits(f)
    BY <1>2, <1>3, <1>5 DEF Waits, Begins, Advances
  <2> HIDE DEF height
  <2>3. Waits(g)
    BY <2>2 DEF Waits, Begins, Advances, Poised, FrameFields
  <2> HIDE DEF g
  <2>4. \A gas : Waits([g EXCEPT !.gas = gas])
    BY <2>3 DEF Waits, Begins, Advances, Poised, FrameFields
  <2> QED BY <2>1, <2>3, <2>4
<1>6. v \in [1..17 -> Nat]
  BY OperandsFound DEF Prompt
<1> QED BY <1>2, <1>4, <1>5, <1>6 DEF Prompt, Begins, Poised, f

LEMMA PanicTidy ==
    ASSUME Coded(world), NEW what, Panic(what)
    PROVE  Tidy
  BY PatientOrdered, PatientEmpty DEF Panic, Tidy, Coded

LEMMA DepositTidy ==
    ASSUME Playing, NEW f, Coded(f.saved), NEW w, Coded(w), NEW size, Deposit(f, w, size)
    PROVE  Tidy
<1> DEFINE noted == Journal(w, f.serial, "code")
           codes == [noted.code EXCEPT ![f.self] = IF size = 0 THEN 0 ELSE Deployed]
           coded == [noted EXCEPT !.code[f.self] = IF size = 0 THEN 0 ELSE Deployed]
<1>1. Coded(noted)
  BY OperationsCoded
<1>2. Coded(coded)
  <2> HIDE DEF noted
  <2>1. coded = [noted EXCEPT !.code = codes]
    OBVIOUS
  <2>2. codes \in [Accounts -> {0} \cup DOMAIN Programs]
    BY <1>1, ProgramsAssumption DEF Coded
  <2> HIDE DEF codes
  <2> QED BY <1>1, <2>1, <2>2 DEF Coded, WorldFields
<1>3. \E left, ok : \E w1 \in {f.saved, coded, w} : Returns(Below(frames), left, ok, w1)
  BY Zenon DEF Deposit, noted
<1> HIDE DEF coded
<1> QED BY <1>2, <1>3, PlayingParts, ReturnsTidy

LEMMA EndsTidy ==
    ASSUME Playing, NEW f, Coded(f.saved), NEW w, Coded(w), NEW outcome, NEW size,
           Ends(outcome, f, w, size)
    PROVE  Tidy
<1>1. Patient(Below(frames))
  BY PlayingParts
<1>2. CASE Deposit(f, w, size)
  BY <1>2, DepositTidy
<1>3. CASE frames' = Below(frames) /\ world' = w
  BY <1>1, <1>3, PatientOrdered DEF Tidy
<1>4. CASE Resume(Below(frames), Left(outcome, f), outcome = "ok", Kept(outcome, f, w), Released(f))
  <2> DEFINE ok == outcome = "ok"
             w1 == Kept(outcome, f, w)
  <2>1. Coded(w1)
    BY DEF Kept
  <2>2. Resume(Below(frames), Left(outcome, f), ok, w1, Released(f))
    BY <1>4
  <2> HIDE DEF ok, w1
  <2> QED BY <1>1, <2>1, <2>2, ResumeTidy
<1> QED BY <1>2, <1>3, <1>4, Zenon DEF Ends

LEMMA GoesOnTidy ==
    ASSUME Playing, NEW f, Advances(f), NEW w, Coded(w), GoesOn(f, w)
    PROVE  Tidy
  BY PlayingParts, ContinueTidy DEF GoesOn

----------------------------------------------------------------------------
(* Execute                                                                 *)

LEMMA HaltingTidy ==
    ASSUME NEW op, NEW v, NEW p, Prompt(op, v, p), Halting(op, v, p)
    PROVE  Tidy
<1>1. \E outcome, size : Ends(outcome, p.frame, p.world, size)
  BY Zenon DEF Halting
<1> QED BY <1>1, PromptParts, EndsTidy

\* A jump that is allowed lands on an instruction.
LEMMA JumpingTidy ==
    ASSUME NEW op, NEW v, NEW p, Prompt(op, v, p), Jumping(op, v, p)
    PROVE  Tidy
<1> DEFINE f == Advanced(p.frame, op)
           dest == Back(v, 0)
           pc == dest - 1
           g == [f EXCEPT !.pc = dest - 1]
<1>1. op.execute \in {"opJump", "opJumpi"} /\ op.execute # "opStop"
  BY DEF Jumping
<1>2. /\ Playing /\ Coded(p.world) /\ Coded(p.frame.saved) /\ Advances(f) /\ v \in [1..17 -> Nat]
  BY <1>1, PromptParts
<1>3. \/ \E outcome : Ends(outcome, p.frame, p.world, 0)
      \/ GoesOn(f, p.world)
      \/ validJumpdest(Programs[f.code], Bitmaps[f.code], dest) /\ GoesOn(g, p.world)
  BY Zenon DEF Jumping
<1> HIDE DEF f
<1>4. dest \in Nat
  BY <1>2 DEF Back
<1> HIDE DEF dest
<1>5. ASSUME validJumpdest(Programs[f.code], Bitmaps[f.code], dest)
      PROVE  Advances(g)
  <2>1. f.code \in DOMAIN Programs
    BY <1>2 DEF Advances, Poised
  <2>2. dest \in Starts[f.code]
    BY <1>4, <1>5, <2>1, ProgramsExact
  <2>3. g = [f EXCEPT !.pc = pc] /\ pc + 1 = dest
    BY <1>4
  <2> HIDE DEF pc, g
  <2> QED BY <1>2, <2>2, <2>3 DEF Advances, Poised, FrameFields
<1> HIDE DEF g
<1> QED BY <1>2, <1>3, <1>5, EndsTidy, GoesOnTidy

LEMMA WritingTidy ==
    ASSUME NEW op, NEW v, NEW p, Prompt(op, v, p), Writing(op, v, p)
    PROVE  Tidy
<1> DEFINE f == Advanced(p.frame, op)
           w == p.world
           noted == Journal(w, f.serial, "slot")
           slots == [noted.slot EXCEPT ![f.self] = Back(v, 1)]
           stored == [noted EXCEPT !.slot[f.self] = Back(v, 1)]
<1>1. op.execute # "opStop"
  BY DEF Writing
<1>2. Playing /\ Advances(f) /\ Coded(w)
  BY <1>1, PromptParts
<1>3. \A change : Coded(Journal(w, f.serial, change))
  BY <1>2, OperationsCoded
<1>4. Coded(stored)
  <2>1. Coded(noted)
    BY <1>3
  <2> HIDE DEF noted
  <2>2. stored = [noted EXCEPT !.slot = slots]
    OBVIOUS
  <2> HIDE DEF slots
  <2> QED BY <2>1, <2>2, OperationsCoded
<1>5. \E w1 \in {w, stored, Journal(w, f.serial, "transient"), Journal(w, f.serial, "log")} : GoesOn(f, w1)
  BY Zenon DEF Writing
<1> HIDE DEF f, stored
<1> QED BY <1>2, <1>3, <1>4, <1>5, GoesOnTidy

LEMMA DestructingTidy ==
    ASSUME NEW op, NEW v, NEW p, Prompt(op, v, p), Destructing(op, v, p)
    PROVE  Tidy
<1> DEFINE f == p.frame
           self == f.self
           to == Back(v, 0)
           balance == p.world.balance[self]
           w == Journal(p.world, f.serial, "destruct")
           added == AddBalance(w, to, balance)
           balances == [w.balance EXCEPT ![self] = 0]
           emptied == [w EXCEPT !.balance[self] = 0]
           moved == AddBalance(emptied, to, balance)
<1>1. Playing /\ Coded(f.saved) /\ Coded(p.world)
  BY PromptParts
<1>2. Coded(w)
  BY <1>1, OperationsCoded
<1>3. Coded(emptied)
  <2> HIDE DEF w
  <2>1. emptied = [w EXCEPT !.balance = balances]
    OBVIOUS
  <2> HIDE DEF balances
  <2> QED BY <1>2, <2>1, OperationsCoded
<1> HIDE DEF w, emptied, balance
<1>4. Coded(added) /\ Coded(moved)
  BY <1>2, <1>3, OperationsCoded
<1> HIDE DEF added, moved
<1>5. Coded(SelfDestruct(added, self)) /\ Coded(SelfDestruct(moved, self))
  BY <1>4, OperationsCoded
<1>6. \E w1 \in {SelfDestruct(added, self), SelfDestruct(moved, self), moved} : Ends("ok", f, w1, 0)
  BY Zenon DEF Destructing, w, emptied, balance, added, moved
<1> QED BY <1>1, <1>4, <1>5, <1>6, EndsTidy

LEMMA CallingTidy ==
    ASSUME NEW op, NEW v, NEW p, Prompt(op, v, p), Calling(op, v, p)
    PROVE  Tidy
<1> DEFINE f == p.frame
           b == Append(Below(frames), Waiting(op, f))
           to == Back(v, 1)
<1>1. op.execute \in CallFunctions /\ op.execute \notin Pushing \cup {"opStop"}
  BY DEF Calling, CallFunctions, Pushing
<1>2. Playing /\ Waits(Waiting(op, f)) /\ Coded(p.world)
  BY <1>1, PromptParts
<1>3. to \in Accounts
  <2>1. v \in Operands[op.execute]
    BY <1>1, OperandsAssumption DEF Prompt, OperandsOf
  <2> QED BY <1>1, <2>1, OperandsAssumption DEF Back
<1>4. Patient(b)
  BY <1>2, PlayingParts, PatientAppend
<1>5. \E gas : \/ \E value : Call(b, f.self, to, gas, value, p.world) \/ CallCode(b, f.self, to, gas, value, p.world)
               \/ DelegateCall(b, f.self, to, gas, p.world)
               \/ StaticCall(b, to, gas, p.world)
  BY Zenon DEF Calling
<1> HIDE DEF b, to
<1> QED BY <1>2, <1>3, <1>4, <1>5, CallTidy, BorrowedTidy

LEMMA CreatingTidy ==
    ASSUME NEW op, NEW v, NEW p, Prompt(op, v, p), Creating(op, v, p)
    PROVE  Tidy
<1> DEFINE f == p.frame
           kept == IF op.execute = "opCreate" /\ ~IsRule("TangerineWhistle") THEN 0 ELSE f.gas \div 64
           g == [Waiting(op, f) EXCEPT !.gas = kept]
           b == Append(Below(frames), g)
<1>1. op.execute \notin Pushing \cup {"opStop"}
  BY DEF Creating, Pushing
<1>2. Playing /\ Coded(p.world) /\ Waits(g)
  <2> HIDE DEF kept
  <2> QED BY <1>1, PromptParts
<1>3. \E kind, gas : create(kind, b, f.self, gas, Back(v, 0), Back(v, 2), p.world)
  BY Zenon DEF Creating
<1> HIDE DEF g
<1>4. Patient(b)
  BY <1>2, PlayingParts, PatientAppend
<1> HIDE DEF b
<1> QED BY <1>2, <1>3, <1>4, CreateTidy

LEMMA ExecuteTidy ==
    ASSUME NEW op, NEW v, NEW p, Prompt(op, v, p), Execute(op, v, p)
    PROVE  Tidy
<1>1. CASE Ends("fail", p.frame, p.world, 0)
  BY <1>1, PromptParts, EndsTidy
<1>2. CASE Computing(op, p)
  <2>1. op.execute # "opStop"
    BY <1>2 DEF Computing, Special
  <2> QED BY <1>1, <1>2, <2>1, PromptParts, GoesOnTidy DEF Computing
<1> QED BY <1>1, <1>2, HaltingTidy, JumpingTidy, WritingTidy, DestructingTidy, CallingTidy,
           CreatingTidy, Zenon DEF Execute

----------------------------------------------------------------------------
(* Every step of every session                                             *)

LEMMA StepTidy ==
    ASSUME Playing, Step
    PROVE  Tidy
<1>1. Coded(world) /\ WorldFields \subseteq DOMAIN world /\ FrameFields \subseteq DOMAIN Current
  BY PlayingParts DEF Playing, Coded, Begins, Poised
<1>2. ASSUME NEW v \in OperandsOf(Operation), NEW p, p = Paid(Operation, v),
             Turn(Operation, v, p, Broken(Operation, v, p))
      PROVE  Tidy
  <2>1. Alike(p.world, world) /\ SamePlace(p.frame, Current)
    BY <1>1, <1>2, PaidSame, PaidPlace
  <2>2. Prompt(Operation, v, p)
    BY <1>1, <1>2, <2>1, AlikeCoded DEF Prompt
  <2>3. \/ \E what : Panic(what)
        \/ Ends("fail", p.frame, p.world, 0)
        \/ Execute(Operation, v, p)
    BY <1>2, Zenon DEF Turn
  <2> QED BY <1>1, <2>2, <2>3, PanicTidy, PromptParts, EndsTidy, ExecuteTidy
<1>3. \/ Panic("checkpoint")
      \/ \E v \in OperandsOf(Operation) : \E p \in {Paid(Operation, v)} :
            Turn(Operation, v, p, Broken(Operation, v, p))
  BY Zenon DEF Step, Serve
<1> QED BY <1>1, <1>2, <1>3, PanicTidy

JumpInv == session \in Sessions /\ Ordered(frames) /\ Coded(world)

LEMMA HostTidy ==
    ASSUME JumpInv, Transact \/ Deploy \/ \E kind \in LiteKinds : EnterLite(kind)
    PROVE  Tidy
<1>1. Coded(world) /\ \A named : Coded(Prepared(world, named))
  BY PreparedCoded DEF JumpInv
<1>2. session.to \in Accounts
  BY SessionsAssumption DEF JumpInv
<1> DEFINE b == <<>>
<1>3. Patient(b)
  BY PatientEmpty
<1>4. CASE Transact
  <2>1. \E w \in {world, Prepared(world, {session.sender, session.to})} :
           Call(b, session.sender, session.to, session.gas, 0, w)
    BY <1>4, Zenon DEF Transact
  <2> HIDE DEF b
  <2> QED BY <1>1, <1>2, <1>3, <2>1, CallTidy
<1>5. CASE Deploy
  <2>1. create("create", b, session.sender, session.gas, 0, 1, Prepared(world, {session.sender}))
    BY <1>5 DEF Deploy
  <2> HIDE DEF b
  <2> QED BY <1>1, <1>3, <2>1, CreateTidy
<1>6. ASSUME NEW kind \in LiteKinds, EnterLite(kind) PROVE Tidy
  <2>1. PICK static \in BOOLEAN :
           Run(b, NewFrame(kind, session.to, world.code[session.to], session.gas, world, static), world, static)
    BY <1>6 DEF EnterLite
  <2> DEFINE f == NewFrame(kind, session.to, world.code[session.to], session.gas, world, static)
  <2>2. world.code[session.to] \in DOMAIN Programs
    BY <1>1, <1>2, <1>6 DEF EnterLite, Coded
  <2>3. Begins(f)
    BY <1>1, <2>2, NewBegins
  <2> HIDE DEF f, b
  <2> QED BY <1>1, <1>3, <2>1, <2>3, RunTidy DEF f
<1> QED BY <1>4, <1>5, <1>6

LEMMA JumpNext ==
    ASSUME JumpInv, [Next]_vars
    PROVE  JumpInv'
<1>1. session' = session
  BY DEF Next, Step, Transact, Deploy, EnterLite, Cancel, vars
<1>2. Tidy \/ UNCHANGED <<frames, world>>
  <2>1. CASE Step
    <3>1. Playing
      BY <2>1 DEF JumpInv, Playing, Step
    <3> QED BY <2>1, <3>1, StepTidy
  <2>2. CASE Transact \/ Deploy \/ \E kind \in LiteKinds : EnterLite(kind)
    BY <2>2, HostTidy
  <2>3. CASE UNCHANGED <<frames, world>>
    BY <2>3
  <2> QED BY <2>1, <2>2, <2>3 DEF Next, Cancel, vars
<1>3. Ordered(frames)' /\ Coded(world)'
  BY <1>2 DEF Tidy, JumpInv, Ordered, Coded, Begins, Advances, Poised, IsStack
<1> QED BY <1>1, <1>3 DEF JumpInv

LEMMA JumpInit ==
    ASSUME Init
    PROVE  JumpInv
<1>1. frames = <<>> /\ session \in Sessions
  BY DEF Init
<1>2. Coded(world)
  BY MeterInit, SessionsAssumption DEF Init, Coded, WorldFields
<1> QED BY <1>1, <1>2, PatientEmpty, PatientOrdered DEF JumpInv

LEMMA OrderedJumps ==
    ASSUME JumpInv
    PROVE  JumpsExact
<1> SUFFICES ASSUME NEW i \in DOMAIN frames
             PROVE  frames[i].pc \in Starts[frames[i].code] /\ Exact[frames[i].code]
  BY DEF JumpsExact
<1>1. i \in 1..Len(frames)
  BY DEF JumpInv, Ordered, IsStack
<1>2. Begins(frames[i])
  BY <1>1 DEF JumpInv, Ordered
<1> QED BY <1>2, ProgramsExact DEF Begins, Poised

\* No frame of any session, of a transaction or of a loop of the SVE, ever executes the
\* data of a push, and every JUMPDEST that is an instruction can be jumped to, for any
\* programs, operands and forks: what codeBitmap marks sixteen, eight and fewer bytes at
\* a time is exactly the data that the interpreter skips, whatever opcode set is in use.
THEOREM JumpsAreExact == Spec => []JumpsExact
<1>1. Init => JumpInv
  BY JumpInit
<1>2. JumpInv /\ [Next]_vars => JumpInv'
  BY JumpNext
<1>3. JumpInv => JumpsExact
  BY OrderedJumps
<1> QED BY <1>1, <1>2, <1>3, PTL DEF Spec

----------------------------------------------------------------------------
(* The tables fit: what the functions of an entry do                       *)

\* The functions that push a value, replace so many by one, or take so many.
Pushers ==
    {"opAddress", "opOrigin", "opCaller", "opCallValue", "opCallDataSize", "opReturnDataSize",
     "opCodeSize", "opGasprice", "opCoinbase", "opTimestamp", "opNumber", "opDifficulty", "opRandom",
     "opGasLimit", "opPc", "opMsize", "opGas", "opSelfBalance", "opChainID", "opBaseFee", "opPush0",
     "opBlobBaseFee"}
Unary ==
    {"opNot", "opIszero", "opBalance", "opCallDataLoad", "opExtCodeSize", "opExtCodeHash",
     "opBlockhash", "opSload", "opTload", "opBlobHash"}
Binary ==
    {"opAdd", "opSub", "opMul", "opDiv", "opSdiv", "opMod", "opSmod", "opExp", "opSignExtend", "opLt",
     "opGt", "opSlt", "opSgt", "opEq", "opAnd", "opOr", "opXor", "opByte", "opSHL", "opSHR", "opSAR"}
Ternary == {"opAddmod", "opMulmod"}
TakingNone == {"opUndefined", "opStop", "opJumpdest"}
TakingOne == {"opSelfdestruct", "opSelfdestruct6780", "opPop", "opJump"}
TakingTwo == {"opSstore", "opJumpi", "opTstore"}

\* Those that touch the memory.
CopyingData == {"opCallDataCopy", "opReturnDataCopy", "opCodeCopy"}
Creators == {"opCreate", "opCreate2"}
Callers == {"opCall", "opCallCode"}
Borrowers == {"opDelegateCall", "opStaticCall"}
Returners == {"opReturn", "opRevert"}
Touchers ==
    CopyingData \cup Creators \cup Callers \cup Borrowers \cup Returners
    \cup {"opKeccak256", "opExtCodeCopy", "opMload", "opMstore", "opMstore8", "opMcopy"}

Simple == Pushers \cup Unary \cup Binary \cup Ternary \cup TakingNone \cup TakingOne \cup TakingTwo

Simply(x, e) ==
    /\ x \in Pushers => e = Effect(0, 1)
    /\ x \in Unary => e = Effect(1, 0)
    /\ x \in Binary => e = Effect(2, -1)
    /\ x \in Ternary => e = Effect(3, -2)
    /\ x \in TakingNone => e = Effect(0, 0)
    /\ x \in TakingOne => e = Effect(1, -1)
    /\ x \in TakingTwo => e = Effect(2, -2)

Touchingly(x, e) ==
    /\ x = "opKeccak256" => e = Touching(Effect(2, -1), {Span(0, 1)})
    /\ x \in CopyingData => e = Touching(Effect(3, -3), {Span(0, 2)})
    /\ x = "opExtCodeCopy" => e = Touching(Effect(4, -4), {Span(1, 3)})
    /\ x = "opMload" => e = Touching(Effect(1, 0), {Fixed(0, WordBytes)})
    /\ x = "opMstore" => e = Touching(Effect(2, -2), {Fixed(0, WordBytes)})
    /\ x = "opMstore8" => e = Touching(Effect(2, -2), {Fixed(0, 1)})
    /\ x = "opMcopy" => e = Touching(Effect(3, -3), {Span(0, 2), Span(1, 2)})
    /\ x = "opCreate" => e = Touching(Effect(3, -2), {Span(1, 2)})
    /\ x = "opCreate2" => e = Touching(Effect(4, -3), {Span(1, 2)})
    /\ x \in Callers => e = Touching(Effect(7, -6), {Span(3, 4), Span(5, 6)})
    /\ x \in Borrowers => e = Touching(Effect(6, -5), {Span(2, 3), Span(4, 5)})
    /\ x \in Returners => e = Touching(Effect(2, -2), {Span(0, 1)})

Rightly(f) == \A x \in DOMAIN f : Simply(x, f[x]) /\ Touchingly(x, f[x])

LEMMA GivesTakes ==
    /\ Pushes = Effect(0, 1) /\ Gives(1) = Effect(1, 0) /\ Gives(2) = Effect(2, -1)
    /\ Gives(3) = Effect(3, -2) /\ Gives(4) = Effect(4, -3) /\ Gives(6) = Effect(6, -5)
    /\ Gives(7) = Effect(7, -6)
    /\ Takes(0) = Effect(0, 0) /\ Takes(1) = Effect(1, -1) /\ Takes(2) = Effect(2, -2)
    /\ Takes(3) = Effect(3, -3) /\ Takes(4) = Effect(4, -4)
  BY DEF Pushes, Gives, Takes

\* A function that has one value, of a class of its own.
LEMMA EachSimply ==
    ASSUME NEW names, NEW e, \A x \in names : Simply(x, e), names \cap Touchers = {}
    PROVE  Rightly(Each(names, e))
  BY DEF Rightly, Each, Touchingly, Touchers, CopyingData, Creators, Callers, Borrowers, Returners

LEMMA EachTouchingly ==
    ASSUME NEW names, NEW e, \A x \in names : Touchingly(x, e), names \cap Simple = {}
    PROVE  Rightly(Each(names, e))
  BY DEF Rightly, Each, Simply, Simple, Pushers, Unary, Binary, Ternary, TakingNone, TakingOne, TakingTwo

LEMMA ArithmeticRightly == \A f \in Arithmetic : Rightly(f)
<1>1. Rightly(Each({"opAdd", "opSub", "opMul", "opDiv", "opSdiv", "opMod", "opSmod", "opExp", "opSignExtend"}, Gives(2)))
  BY GivesTakes, EachSimply
     DEF Simply, Touchers, Pushers, Unary, Binary, Ternary, TakingNone, TakingOne, TakingTwo,
           CopyingData, Creators, Callers, Borrowers, Returners
<1>2. Rightly(Each({"opNot"}, Gives(1)))
  BY GivesTakes, EachSimply
     DEF Simply, Touchers, Pushers, Unary, Binary, Ternary, TakingNone, TakingOne, TakingTwo,
           CopyingData, Creators, Callers, Borrowers, Returners
<1> QED BY <1>1, <1>2, Zenon DEF Arithmetic

LEMMA ComparisonRightly == \A f \in Comparison : Rightly(f)
<1>1. Rightly(Each({"opLt", "opGt", "opSlt", "opSgt", "opEq", "opAnd", "opOr", "opXor", "opByte"}, Gives(2)))
  BY GivesTakes, EachSimply
     DEF Simply, Touchers, Pushers, Unary, Binary, Ternary, TakingNone, TakingOne, TakingTwo,
           CopyingData, Creators, Callers, Borrowers, Returners
<1>2. Rightly(Each({"opIszero"}, Gives(1)))
  BY GivesTakes, EachSimply
     DEF Simply, Touchers, Pushers, Unary, Binary, Ternary, TakingNone, TakingOne, TakingTwo,
           CopyingData, Creators, Callers, Borrowers, Returners
<1>3. Rightly(Each({"opAddmod", "opMulmod"}, Gives(3)))
  BY GivesTakes, EachSimply
     DEF Simply, Touchers, Pushers, Unary, Binary, Ternary, TakingNone, TakingOne, TakingTwo,
           CopyingData, Creators, Callers, Borrowers, Returners
<1> QED BY <1>1, <1>2, <1>3, Zenon DEF Comparison

LEMMA ShiftsRightly == \A f \in Shifts : Rightly(f)
<1>1. Rightly(Each({"opSHL", "opSHR", "opSAR"}, Gives(2)))
  BY GivesTakes, EachSimply
     DEF Simply, Touchers, Pushers, Unary, Binary, Ternary, TakingNone, TakingOne, TakingTwo,
           CopyingData, Creators, Callers, Borrowers, Returners
<1> QED BY <1>1, Zenon DEF Shifts

LEMMA EnvironmentRightly == \A f \in Environment : Rightly(f)
<1>1. Rightly(Each({"opAddress", "opOrigin", "opCaller", "opCallValue", "opCallDataSize"}, Pushes))
  BY GivesTakes, EachSimply
     DEF Simply, Touchers, Pushers, Unary, Binary, Ternary, TakingNone, TakingOne, TakingTwo,
           CopyingData, Creators, Callers, Borrowers, Returners
<1>2. Rightly(Each({"opBalance", "opCallDataLoad"}, Gives(1)))
  BY GivesTakes, EachSimply
     DEF Simply, Touchers, Pushers, Unary, Binary, Ternary, TakingNone, TakingOne, TakingTwo,
           CopyingData, Creators, Callers, Borrowers, Returners
<1>3. Rightly([opKeccak256 |-> Touching(Gives(2), {Span(0, 1)})])
  BY GivesTakes DEF Rightly, Simply, Touchingly, Pushers, Unary, Binary, Ternary, TakingNone, TakingOne, TakingTwo,
           CopyingData, Creators, Callers, Borrowers, Returners
<1> QED BY <1>1, <1>2, <1>3, Zenon DEF Environment

LEMMA CodeAndDataRightly == \A f \in CodeAndData : Rightly(f)
<1>1. Rightly(Each({"opReturnDataSize", "opCodeSize", "opGasprice"}, Pushes))
  BY GivesTakes, EachSimply
     DEF Simply, Touchers, Pushers, Unary, Binary, Ternary, TakingNone, TakingOne, TakingTwo,
           CopyingData, Creators, Callers, Borrowers, Returners
<1>2. Rightly(Each({"opExtCodeSize", "opExtCodeHash"}, Gives(1)))
  BY GivesTakes, EachSimply
     DEF Simply, Touchers, Pushers, Unary, Binary, Ternary, TakingNone, TakingOne, TakingTwo,
           CopyingData, Creators, Callers, Borrowers, Returners
<1>3. Rightly(Each({"opCallDataCopy", "opReturnDataCopy", "opCodeCopy"}, Touching(Takes(3), {Span(0, 2)})))
  BY GivesTakes, EachTouchingly
     DEF Touchingly, Simple, Pushers, Unary, Binary, Ternary, TakingNone, TakingOne, TakingTwo,
           CopyingData, Creators, Callers, Borrowers, Returners
<1>4. Rightly([opExtCodeCopy |-> Touching(Takes(4), {Span(1, 3)})])
  BY GivesTakes DEF Rightly, Simply, Touchingly, Pushers, Unary, Binary, Ternary, TakingNone, TakingOne, TakingTwo,
           CopyingData, Creators, Callers, Borrowers, Returners
<1> QED BY <1>1, <1>2, <1>3, <1>4, Zenon DEF CodeAndData

LEMMA BlockRightly == \A f \in Block : Rightly(f)
<1>1. Rightly(Each({"opCoinbase", "opTimestamp", "opNumber", "opDifficulty", "opRandom", "opGasLimit"}, Pushes))
  BY GivesTakes, EachSimply
     DEF Simply, Touchers, Pushers, Unary, Binary, Ternary, TakingNone, TakingOne, TakingTwo,
           CopyingData, Creators, Callers, Borrowers, Returners
<1>2. Rightly(Each({"opBlockhash"}, Gives(1)))
  BY GivesTakes, EachSimply
     DEF Simply, Touchers, Pushers, Unary, Binary, Ternary, TakingNone, TakingOne, TakingTwo,
           CopyingData, Creators, Callers, Borrowers, Returners
<1> QED BY <1>1, <1>2, Zenon DEF Block

LEMMA StorageRightly == \A f \in Storage : Rightly(f)
  BY GivesTakes DEF Storage, Rightly, Simply, Touchingly, Pushers, Unary, Binary, Ternary, TakingNone, TakingOne, TakingTwo,
           CopyingData, Creators, Callers, Borrowers, Returners

LEMMA ControlRightly == \A f \in Control : Rightly(f)
  BY GivesTakes DEF Control, Rightly, Simply, Touchingly, Pushers, Unary, Binary, Ternary, TakingNone, TakingOne, TakingTwo,
           CopyingData, Creators, Callers, Borrowers, Returners

LEMMA CreatesRightly == \A f \in Creates : Rightly(f)
  BY GivesTakes DEF Creates, Rightly, Simply, Touchingly, Pushers, Unary, Binary, Ternary, TakingNone, TakingOne, TakingTwo,
           CopyingData, Creators, Callers, Borrowers, Returners

LEMMA CallsRightly == \A f \in Calls : Rightly(f)
<1>1. Rightly(Each({"opCall", "opCallCode"}, Touching(Gives(7), {Span(3, 4), Span(5, 6)})))
  BY GivesTakes, EachTouchingly
     DEF Touchingly, Simple, Pushers, Unary, Binary, Ternary, TakingNone, TakingOne, TakingTwo,
           CopyingData, Creators, Callers, Borrowers, Returners
<1>2. Rightly(Each({"opDelegateCall", "opStaticCall"}, Touching(Gives(6), {Span(2, 3), Span(4, 5)})))
  BY GivesTakes, EachTouchingly
     DEF Touchingly, Simple, Pushers, Unary, Binary, Ternary, TakingNone, TakingOne, TakingTwo,
           CopyingData, Creators, Callers, Borrowers, Returners
<1> QED BY <1>1, <1>2, Zenon DEF Calls

LEMMA HaltsRightly == \A f \in Halts : Rightly(f)
<1>1. Rightly(Each({"opReturn", "opRevert"}, Touching(Takes(2), {Span(0, 1)})))
  BY GivesTakes, EachTouchingly
     DEF Touchingly, Simple, Pushers, Unary, Binary, Ternary, TakingNone, TakingOne, TakingTwo,
           CopyingData, Creators, Callers, Borrowers, Returners
<1>2. Rightly(Each({"opUndefined", "opStop"}, Takes(0)))
  BY GivesTakes, EachSimply
     DEF Simply, Touchers, Pushers, Unary, Binary, Ternary, TakingNone, TakingOne, TakingTwo,
           CopyingData, Creators, Callers, Borrowers, Returners
<1>3. Rightly(Each({"opSelfdestruct", "opSelfdestruct6780"}, Takes(1)))
  BY GivesTakes, EachSimply
     DEF Simply, Touchers, Pushers, Unary, Binary, Ternary, TakingNone, TakingOne, TakingTwo,
           CopyingData, Creators, Callers, Borrowers, Returners
<1> QED BY <1>1, <1>2, <1>3, Zenon DEF Halts

LEMMA ProposalsRightly == \A f \in Proposals : Rightly(f)
<1>1. Rightly(Each({"opSelfBalance", "opChainID", "opBaseFee", "opPush0", "opBlobBaseFee"}, Pushes))
  BY GivesTakes, EachSimply
     DEF Simply, Touchers, Pushers, Unary, Binary, Ternary, TakingNone, TakingOne, TakingTwo,
           CopyingData, Creators, Callers, Borrowers, Returners
<1>2. Rightly(Each({"opTload", "opBlobHash"}, Gives(1)))
  BY GivesTakes, EachSimply
     DEF Simply, Touchers, Pushers, Unary, Binary, Ternary, TakingNone, TakingOne, TakingTwo,
           CopyingData, Creators, Callers, Borrowers, Returners
<1>3. Rightly([opTstore |-> Takes(2), opMcopy |-> Touching(Takes(3), {Span(0, 2), Span(1, 2)})])
  BY GivesTakes DEF Rightly, Simply, Touchingly, Pushers, Unary, Binary, Ternary, TakingNone, TakingOne, TakingTwo,
           CopyingData, Creators, Callers, Borrowers, Returners
<1> QED BY <1>1, <1>2, <1>3, Zenon DEF Proposals

\* All the functions that are named with an effect of their own.
EffectFamilies ==
    UNION {Arithmetic, Comparison, Shifts, Environment, CodeAndData, Block, Storage, Control,
           Creates, Calls, Halts, Proposals}

LEMMA FamiliesRightly == \A f \in EffectFamilies : Rightly(f)
  BY ArithmeticRightly, ComparisonRightly, ShiftsRightly, EnvironmentRightly, CodeAndDataRightly,
     BlockRightly, StorageRightly, ControlRightly, CreatesRightly, CallsRightly, HaltsRightly,
     ProposalsRightly, Zenon DEF EffectFamilies

LEMMA EffectsCover == Simple \cup Touchers \subseteq UNION {DOMAIN f : f \in EffectFamilies}
<1> DEFINE Known(x) == \E f \in EffectFamilies : x \in DOMAIN f
<1>1. \A f \in EffectFamilies : \A x \in DOMAIN f : Known(x)
  OBVIOUS
<1>2. \A names, e : DOMAIN Each(names, e) = names
  BY DEF Each
<1>3. \A x \in {"opAdd", "opSub", "opMul", "opDiv", "opSdiv", "opMod", "opSmod", "opExp", "opSignExtend",
                "opNot"} : Known(x)
  <2>1. Arithmetic \subseteq EffectFamilies
    BY DEF EffectFamilies
  <2> HIDE DEF Known
  <2> QED BY <1>1, <1>2, <2>1 DEF Arithmetic
<1>4. \A x \in {"opLt", "opGt", "opSlt", "opSgt", "opEq", "opAnd", "opOr", "opXor", "opByte", "opIszero",
                "opAddmod", "opMulmod", "opSHL", "opSHR", "opSAR"} : Known(x)
  <2>1. Comparison \cup Shifts \subseteq EffectFamilies
    BY DEF EffectFamilies
  <2> HIDE DEF Known
  <2> QED BY <1>1, <1>2, <2>1 DEF Comparison, Shifts
<1>5. \A x \in {"opAddress", "opOrigin", "opCaller", "opCallValue", "opCallDataSize", "opBalance",
                "opCallDataLoad", "opKeccak256"} : Known(x)
  <2>1. Environment \subseteq EffectFamilies
    BY DEF EffectFamilies
  <2> HIDE DEF Known
  <2> QED BY <1>1, <1>2, <2>1 DEF Environment
<1>6. \A x \in {"opReturnDataSize", "opCodeSize", "opGasprice", "opExtCodeSize", "opExtCodeHash",
                "opCallDataCopy", "opReturnDataCopy", "opCodeCopy", "opExtCodeCopy"} : Known(x)
  <2>1. CodeAndData \subseteq EffectFamilies
    BY DEF EffectFamilies
  <2> HIDE DEF Known
  <2> QED BY <1>1, <1>2, <2>1 DEF CodeAndData
<1>7. \A x \in {"opCoinbase", "opTimestamp", "opNumber", "opDifficulty", "opRandom", "opGasLimit",
                "opBlockhash"} : Known(x)
  <2>1. Block \subseteq EffectFamilies
    BY DEF EffectFamilies
  <2> HIDE DEF Known
  <2> QED BY <1>1, <1>2, <2>1 DEF Block
<1>8. \A x \in {"opPop", "opMload", "opMstore", "opMstore8", "opSload", "opSstore", "opJump", "opJumpi",
                "opJumpdest", "opPc", "opMsize", "opGas", "opCreate", "opCreate2"} : Known(x)
  <2>1. Storage \cup Control \cup Creates \subseteq EffectFamilies
    BY DEF EffectFamilies
  <2> HIDE DEF Known
  <2> QED BY <1>1, <1>2, <2>1 DEF Storage, Control, Creates
<1>9. \A x \in {"opCall", "opCallCode", "opDelegateCall", "opStaticCall", "opReturn", "opRevert",
                "opUndefined", "opStop", "opSelfdestruct", "opSelfdestruct6780"} : Known(x)
  <2>1. Calls \cup Halts \subseteq EffectFamilies
    BY DEF EffectFamilies
  <2> HIDE DEF Known
  <2> QED BY <1>1, <1>2, <2>1 DEF Calls, Halts
<1>10. \A x \in {"opSelfBalance", "opChainID", "opBaseFee", "opPush0", "opBlobBaseFee", "opTload",
                 "opBlobHash", "opTstore", "opMcopy"} : Known(x)
  <2>1. Proposals \subseteq EffectFamilies
    BY DEF EffectFamilies
  <2> HIDE DEF Known
  <2> QED BY <1>1, <1>2, <2>1 DEF Proposals
<1>11. \A x \in Simple : Known(x)
  <2> HIDE DEF Known
  <2> QED BY <1>3, <1>4, <1>5, <1>6, <1>7, <1>8, <1>9, <1>10
          DEF Simple, Pushers, Unary, Binary, Ternary, TakingNone, TakingOne, TakingTwo
<1>12. \A x \in Touchers : Known(x)
  <2> HIDE DEF Known
  <2> QED BY <1>3, <1>4, <1>5, <1>6, <1>7, <1>8, <1>9, <1>10
          DEF Touchers, CopyingData, Creators, Callers, Borrowers, Returners
<1> QED BY <1>11, <1>12

\* What a function does, found in the table of effects: it takes so many
\* operands for so many results, and touches these regions of the memory.
Does(x, pops, push, regions) ==
    /\ x \in Simple \cup Touchers
    /\ Effects[x] = [reads |-> pops, delta |-> push - pops, memory |-> regions]

LEMMA EffectFound ==
    ASSUME NEW x \in Simple \cup Touchers
    PROVE  Simply(x, Effects[x]) /\ Touchingly(x, Effects[x])
<1>1. Effects = Joined(EffectFamilies)
  BY DEF Effects, EffectFamilies
<1>2. x \in DOMAIN Joined(EffectFamilies)
  BY EffectsCover DEF Joined
<1>3. PICK f \in EffectFamilies : x \in DOMAIN f /\ Joined(EffectFamilies)[x] = f[x]
  BY <1>2, JoinedMember
<1> QED BY <1>1, <1>3, FamiliesRightly DEF Rightly

LEMMA DoesSimply ==
    ASSUME NEW x \in Simple
    PROVE  /\ x \in Pushers => Does(x, 0, 1, {})
           /\ x \in Unary => Does(x, 1, 1, {})
           /\ x \in Binary => Does(x, 2, 1, {})
           /\ x \in Ternary => Does(x, 3, 1, {})
           /\ x \in TakingNone => Does(x, 0, 0, {})
           /\ x \in TakingOne => Does(x, 1, 0, {})
           /\ x \in TakingTwo => Does(x, 2, 0, {})
<1>1. Simply(x, Effects[x])
  BY EffectFound
<1> DEFINE e == Effects[x]
<1> HIDE DEF e
<1>2. Simply(x, e)
  BY <1>1 DEF e
<1> QED BY <1>2 DEF Simply, Does, Effect, e

LEMMA DoesTouching ==
    /\ Does("opKeccak256", 2, 1, {Span(0, 1)})
    /\ \A x \in CopyingData : Does(x, 3, 0, {Span(0, 2)})
    /\ Does("opExtCodeCopy", 4, 0, {Span(1, 3)})
    /\ Does("opMload", 1, 1, {Fixed(0, WordBytes)})
    /\ Does("opMstore", 2, 0, {Fixed(0, WordBytes)})
    /\ Does("opMstore8", 2, 0, {Fixed(0, 1)})
    /\ Does("opMcopy", 3, 0, {Span(0, 2), Span(1, 2)})
    /\ Does("opCreate", 3, 1, {Span(1, 2)})
    /\ Does("opCreate2", 4, 1, {Span(1, 2)})
    /\ \A x \in Callers : Does(x, 7, 1, {Span(3, 4), Span(5, 6)})
    /\ \A x \in Borrowers : Does(x, 6, 1, {Span(2, 3), Span(4, 5)})
    /\ \A x \in Returners : Does(x, 2, 0, {Span(0, 1)})
<1>1. ASSUME NEW x \in Touchers, NEW pops, NEW push, NEW delta, delta = push - pops, NEW regions,
             Effects[x] = Touching(Effect(pops, delta), regions)
      PROVE  Does(x, pops, push, regions)
  BY <1>1 DEF Touching, Effect, Does
<1>2. \A x \in Touchers : Touchingly(x, Effects[x])
  BY EffectFound
<1>3. /\ CopyingData \cup Callers \cup Borrowers \cup Returners \subseteq Touchers
      /\ {"opKeccak256", "opExtCodeCopy", "opMload", "opMstore", "opMstore8", "opMcopy", "opCreate", "opCreate2"}
            \subseteq Touchers
  BY DEF Touchers, Creators
<1>4. \A x \in CopyingData : Does(x, 3, 0, {Span(0, 2)})
  <2>1. \A x \in CopyingData : Effects[x] = Touching(Effect(3, -3), {Span(0, 2)})
    BY <1>2, <1>3, Zenon DEF Touchingly
  <2>2. -3 = 0 - 3
    OBVIOUS
  <2> QED BY <1>1, <1>3, <2>1, <2>2
<1>5. \A x \in Callers : Does(x, 7, 1, {Span(3, 4), Span(5, 6)})
  <2>1. \A x \in Callers : Effects[x] = Touching(Effect(7, -6), {Span(3, 4), Span(5, 6)})
    BY <1>2, <1>3, Zenon DEF Touchingly
  <2>2. -6 = 1 - 7
    OBVIOUS
  <2> QED BY <1>1, <1>3, <2>1, <2>2
<1>6. \A x \in Borrowers : Does(x, 6, 1, {Span(2, 3), Span(4, 5)})
  <2>1. \A x \in Borrowers : Effects[x] = Touching(Effect(6, -5), {Span(2, 3), Span(4, 5)})
    BY <1>2, <1>3, Zenon DEF Touchingly
  <2>2. -5 = 1 - 6
    OBVIOUS
  <2> QED BY <1>1, <1>3, <2>1, <2>2
<1>7. \A x \in Returners : Does(x, 2, 0, {Span(0, 1)})
  <2>1. \A x \in Returners : Effects[x] = Touching(Effect(2, -2), {Span(0, 1)})
    BY <1>2, <1>3, Zenon DEF Touchingly
  <2>2. -2 = 0 - 2
    OBVIOUS
  <2> QED BY <1>1, <1>3, <2>1, <2>2
<1>8. Does("opKeccak256", 2, 1, {Span(0, 1)})
  <2>1. Effects["opKeccak256"] = Touching(Effect(2, -1), {Span(0, 1)})
    BY <1>2, <1>3 DEF Touchingly
  <2>2. -1 = 1 - 2
    OBVIOUS
  <2> QED BY <1>1, <1>3, <2>1, <2>2
<1>9. Does("opExtCodeCopy", 4, 0, {Span(1, 3)})
  <2>1. Effects["opExtCodeCopy"] = Touching(Effect(4, -4), {Span(1, 3)})
    BY <1>2, <1>3 DEF Touchingly
  <2>2. -4 = 0 - 4
    OBVIOUS
  <2> QED BY <1>1, <1>3, <2>1, <2>2
<1>10. Does("opMload", 1, 1, {Fixed(0, WordBytes)})
  <2>1. Effects["opMload"] = Touching(Effect(1, 0), {Fixed(0, WordBytes)})
    BY <1>2, <1>3 DEF Touchingly
  <2>2. 0 = 1 - 1
    OBVIOUS
  <2> QED BY <1>1, <1>3, <2>1, <2>2
<1>11. Does("opMstore", 2, 0, {Fixed(0, WordBytes)})
  <2>1. Effects["opMstore"] = Touching(Effect(2, -2), {Fixed(0, WordBytes)})
    BY <1>2, <1>3 DEF Touchingly
  <2>2. -2 = 0 - 2
    OBVIOUS
  <2> QED BY <1>1, <1>3, <2>1, <2>2
<1>12. Does("opMstore8", 2, 0, {Fixed(0, 1)})
  <2>1. Effects["opMstore8"] = Touching(Effect(2, -2), {Fixed(0, 1)})
    BY <1>2, <1>3 DEF Touchingly
  <2>2. -2 = 0 - 2
    OBVIOUS
  <2> QED BY <1>1, <1>3, <2>1, <2>2
<1>13. Does("opMcopy", 3, 0, {Span(0, 2), Span(1, 2)})
  <2>1. Effects["opMcopy"] = Touching(Effect(3, -3), {Span(0, 2), Span(1, 2)})
    BY <1>2, <1>3 DEF Touchingly
  <2>2. -3 = 0 - 3
    OBVIOUS
  <2> QED BY <1>1, <1>3, <2>1, <2>2
<1>14. Does("opCreate", 3, 1, {Span(1, 2)})
  <2>1. Effects["opCreate"] = Touching(Effect(3, -2), {Span(1, 2)})
    BY <1>2, <1>3 DEF Touchingly
  <2>2. -2 = 1 - 3
    OBVIOUS
  <2> QED BY <1>1, <1>3, <2>1, <2>2
<1>15. Does("opCreate2", 4, 1, {Span(1, 2)})
  <2>1. Effects["opCreate2"] = Touching(Effect(4, -3), {Span(1, 2)})
    BY <1>2, <1>3 DEF Touchingly
  <2>2. -3 = 1 - 4
    OBVIOUS
  <2> QED BY <1>1, <1>3, <2>1, <2>2
<1> QED BY <1>4, <1>5, <1>6, <1>7, <1>8, <1>9, <1>10, <1>11, <1>12, <1>13, <1>14, <1>15

\* How deep the gas functions read.
ReadNone == {"none", "gasReturn", "gasRevert", "gasMLoad", "gasMStore8", "gasMStore", "gasCreate"}
ReadOne ==
    {"gasDelegateCall", "gasStaticCall", "gasSelfdestruct", "gasSelfdestructEIP2929",
     "gasSelfdestructEIP3529", "gasSLoadEIP2929", "gasEip2929AccountCheck"}
ReadTwo ==
    {"gasSStore", "gasSStoreEIP2200", "gasSStoreEIP2929", "gasSStoreEIP3529", "makeGasLog", "gasKeccak256",
     "gasExpFrontier", "gasExpEIP158", "gasDelegateCallEIP2929", "gasStaticCallEIP2929"}
ReadThree ==
    {"gasCallDataCopy", "gasCodeCopy", "gasMcopy", "gasReturnDataCopy", "gasCreate2", "gasCreateEip3860",
     "gasCreate2Eip3860", "gasCall", "gasCallCode", "gasCallEIP2929", "gasCallCodeEIP2929"}
ReadFour == {"gasExtCodeCopy", "gasExtCodeCopyEIP2929"}

Deeply(d, k) ==
    /\ d \in ReadNone => k = 0
    /\ d \in ReadOne => k = 1
    /\ d \in ReadTwo => k = 2
    /\ d \in ReadThree => k = 3
    /\ d \in ReadFour => k = 4

LEMMA GasReadsFound ==
    \A d \in ReadNone \cup ReadOne \cup ReadTwo \cup ReadThree \cup ReadFour : Deeply(d, GasReads[d])
<1> DEFINE F == {Each({"none", "gasReturn", "gasRevert", "gasMLoad", "gasMStore8", "gasMStore", "gasCreate"}, 0),
                 Each({"gasCallDataCopy", "gasCodeCopy", "gasMcopy", "gasReturnDataCopy"}, CopierReads(2)),
                 Each({"gasExtCodeCopy", "gasExtCodeCopyEIP2929"}, CopierReads(3)),
                 Each({"gasSStore", "gasSStoreEIP2200", "gasSStoreEIP2929", "gasSStoreEIP3529",
                       "makeGasLog", "gasKeccak256", "gasExpFrontier", "gasExpEIP158"}, 2),
                 Each({"gasCreate2", "gasCreateEip3860", "gasCreate2Eip3860", "gasCall", "gasCallCode",
                       "gasCallEIP2929", "gasCallCodeEIP2929"}, 3),
                 Each({"gasDelegateCall", "gasStaticCall", "gasSelfdestruct", "gasSelfdestructEIP2929",
                       "gasSelfdestructEIP3529", "gasSLoadEIP2929", "gasEip2929AccountCheck"}, 1),
                 Each({"gasDelegateCallEIP2929", "gasStaticCallEIP2929"}, 2)}
           Deep(f) == \A d \in DOMAIN f : Deeply(d, f[d])
<1>1. GasReads = Joined(F)
  BY DEF GasReads
<1>2. \A names, k : (\A d \in names : Deeply(d, k)) => Deep(Each(names, k))
  BY DEF Each
<1>3. Deep(Each({"none", "gasReturn", "gasRevert", "gasMLoad", "gasMStore8", "gasMStore", "gasCreate"}, 0))
  <2> HIDE DEF Deep
  <2> QED BY <1>2 DEF Deeply, ReadOne, ReadTwo, ReadThree, ReadFour
<1>4. Deep(Each({"gasCallDataCopy", "gasCodeCopy", "gasMcopy", "gasReturnDataCopy"}, CopierReads(2)))
  <2> HIDE DEF Deep
  <2> QED BY <1>2 DEF Deeply, ReadNone, ReadOne, ReadTwo, ReadFour, CopierReads
<1>5. Deep(Each({"gasExtCodeCopy", "gasExtCodeCopyEIP2929"}, CopierReads(3)))
  <2> HIDE DEF Deep
  <2> QED BY <1>2 DEF Deeply, ReadNone, ReadOne, ReadTwo, ReadThree, CopierReads
<1>6. /\ Deep(Each({"gasSStore", "gasSStoreEIP2200", "gasSStoreEIP2929", "gasSStoreEIP3529",
                    "makeGasLog", "gasKeccak256", "gasExpFrontier", "gasExpEIP158"}, 2))
      /\ Deep(Each({"gasDelegateCallEIP2929", "gasStaticCallEIP2929"}, 2))
  <2> HIDE DEF Deep
  <2> QED BY <1>2 DEF Deeply, ReadNone, ReadOne, ReadThree, ReadFour
<1>7. Deep(Each({"gasCreate2", "gasCreateEip3860", "gasCreate2Eip3860", "gasCall", "gasCallCode",
                 "gasCallEIP2929", "gasCallCodeEIP2929"}, 3))
  <2> HIDE DEF Deep
  <2> QED BY <1>2 DEF Deeply, ReadNone, ReadOne, ReadTwo, ReadFour
<1>8. Deep(Each({"gasDelegateCall", "gasStaticCall", "gasSelfdestruct", "gasSelfdestructEIP2929",
                 "gasSelfdestructEIP3529", "gasSLoadEIP2929", "gasEip2929AccountCheck"}, 1))
  <2> HIDE DEF Deep
  <2> QED BY <1>2 DEF Deeply, ReadNone, ReadTwo, ReadThree, ReadFour
<1>9. \A f \in F : Deep(f)
  <2> HIDE DEF Deep
  <2> QED BY <1>3, <1>4, <1>5, <1>6, <1>7, <1>8
<1>10. \A d \in ReadNone \cup ReadOne \cup ReadTwo \cup ReadThree \cup ReadFour : d \in DOMAIN Joined(F)
  BY DEF Joined, Each, ReadNone, ReadOne, ReadTwo, ReadThree, ReadFour
<1> HIDE DEF F
<1> QED BY <1>1, <1>9, <1>10, JoinedMember

----------------------------------------------------------------------------
(* The tables fit: what the makers of entries make                         *)

\* A memory size that provides for these regions, with so many operands.
Provides(size, regions, pops) ==
    /\ size \in MemoryNames
    /\ regions \subseteq MemoryRegions[size]
    /\ \A d \in Depth(MemoryRegions[size]) : d <= pops

LEMMA SizesProvide ==
    /\ \A pops \in Nat : Provides("none", {}, pops)
    /\ \A size \in {"memoryCallDataCopy", "memoryReturnDataCopy", "memoryCodeCopy"} :
            Provides(size, {Span(0, 2)}, 3)
    /\ \A size \in {"memoryKeccak256", "memoryReturn", "memoryRevert"} : Provides(size, {Span(0, 1)}, 2)
    /\ \A i \in Nat : Provides("memoryLog", {Span(0, 1)}, 2 + i)
    /\ Provides("memoryExtCodeCopy", {Span(1, 3)}, 4)
    /\ Provides("memoryMLoad", {Fixed(0, WordBytes)}, 1)
    /\ Provides("memoryMStore", {Fixed(0, WordBytes)}, 2)
    /\ Provides("memoryMStore8", {Fixed(0, 1)}, 2)
    /\ Provides("memoryMcopy", {Span(0, 2), Span(1, 2)}, 3)
    /\ Provides("memoryCreate", {Span(1, 2)}, 3)
    /\ Provides("memoryCreate2", {Span(1, 2)}, 4)
    /\ Provides("memoryCall", {Span(3, 4), Span(5, 6)}, 7)
    /\ Provides("memoryDelegateCall", {Span(2, 3), Span(4, 5)}, 6)
    /\ Provides("memoryStaticCall", {Span(2, 3), Span(4, 5)}, 6)
<1>1. \A off, len : Span(off, len).off = off /\ Span(off, len).len = len
  BY DEF Span
<1>2. \A off, bytes : Fixed(off, bytes).off = off /\ Fixed(off, bytes).len = -1
  BY DEF Fixed
<1>3. /\ \A pops \in Nat : Provides("none", {}, pops)
      /\ \A size \in {"memoryCallDataCopy", "memoryReturnDataCopy", "memoryCodeCopy"} :
            Provides(size, {Span(0, 2)}, 3)
  BY <1>1 DEF Provides, MemoryRegions, Depth, MemoryNames
<1>4. /\ \A size \in {"memoryKeccak256", "memoryReturn", "memoryRevert"} : Provides(size, {Span(0, 1)}, 2)
      /\ \A i \in Nat : Provides("memoryLog", {Span(0, 1)}, 2 + i)
  BY <1>1 DEF Provides, MemoryRegions, Depth, MemoryNames
<1>5. /\ Provides("memoryExtCodeCopy", {Span(1, 3)}, 4)
      /\ Provides("memoryMLoad", {Fixed(0, WordBytes)}, 1)
      /\ Provides("memoryMStore", {Fixed(0, WordBytes)}, 2)
      /\ Provides("memoryMStore8", {Fixed(0, 1)}, 2)
  BY <1>1, <1>2 DEF Provides, MemoryRegions, Depth, MemoryNames
<1>6. /\ Provides("memoryMcopy", {Span(0, 2), Span(1, 2)}, 3)
      /\ Provides("memoryCreate", {Span(1, 2)}, 3)
      /\ Provides("memoryCreate2", {Span(1, 2)}, 4)
  BY <1>1 DEF Provides, MemoryRegions, Depth, MemoryNames
<1>7. /\ Provides("memoryCall", {Span(3, 4), Span(5, 6)}, 7)
      /\ Provides("memoryDelegateCall", {Span(2, 3), Span(4, 5)}, 6)
      /\ Provides("memoryStaticCall", {Span(2, 3), Span(4, 5)}, 6)
  BY <1>1 DEF Provides, MemoryRegions, Depth, MemoryNames
<1> QED BY <1>3, <1>4, <1>5, <1>6, <1>7

Fit(op) ==
    /\ OpFields \subseteq DOMAIN op /\ op.minStack \in Nat
    /\ EffectOf(op).reads \in Nat /\ EffectOf(op).delta \in Int
    /\ Fits(op) /\ Tight(op)

\* The gas functions that read as far as so many operands.
Reads(dynamic, pops) == dynamic \in DOMAIN GasReads /\ GasReads[dynamic] <= pops

LEMMA FitParts ==
    ASSUME NEW op, OpFields \subseteq DOMAIN op, NEW pops \in Nat, NEW push \in Nat, NEW regions,
           Does(op.execute, pops, push, regions), op.minStack = pops,
           op.maxStack = StackLimit + pops - push, Provides(op.memorySize, regions, pops),
           Reads(op.dynamicGas, pops), op.memorySize # "none" => op.dynamicGas # "none"
    PROVE  Fit(op)
<1> DEFINE e == [reads |-> pops, delta |-> push - pops, memory |-> regions]
<1>1. op.execute \notin {"makeLog", "opPush1", "makePush", "makeDup", "makeSwap"}
  BY DEF Does, Simple, Touchers, Pushers, Unary, Binary, Ternary, TakingNone, TakingOne, TakingTwo,
         CopyingData, Creators, Callers, Borrowers, Returners
<1>2. EffectOf(op) = e
  BY <1>1 DEF EffectOf, Does
<1>3. StackLimit \in Nat
  BY StackLimitAssumption
<1>4. e.reads = pops /\ e.delta = push - pops /\ e.memory = regions
  OBVIOUS
<1> HIDE DEF e
<1>5. Fits(op)
  BY <1>2, <1>3, <1>4 DEF Fits, Provides, Reads, Validates
<1>6. Tight(op)
  BY <1>2, <1>3, <1>4 DEF Tight
<1> QED BY <1>2, <1>4, <1>5, <1>6 DEF Fit

\* What the proposals count on when they change an entry by its mnemonic.
Needs == [SSTORE |-> 2, SLOAD |-> 1, SELFDESTRUCT |-> 1, EXTCODESIZE |-> 1, BALANCE |-> 1,
          EXTCODEHASH |-> 1, EXTCODECOPY |-> 4, CALL |-> 7, CALLCODE |-> 7, DELEGATECALL |-> 6,
          STATICCALL |-> 6, CREATE |-> 3, CREATE2 |-> 4, EXP |-> 2]

\* The gas functions of SSTORE, and of SSTORE alone.
SstoreGas == {"gasSStore", "gasSStoreEIP2200", "gasSStoreEIP2929", "gasSStoreEIP3529"}

Rightful(name, op) ==
    /\ Fit(op)
    /\ name = "SSTORE" <=> op.execute = "opSstore"
    /\ name = "SSTORE" <=> op.dynamicGas \in SstoreGas

Fitted(name, op) ==
    /\ Rightful(name, op)
    /\ name \in DOMAIN Needs => Needs[name] <= op.minStack

RightfulSet(set) == \A name \in DOMAIN set : Rightful(name, set[name])
FittedSet(set) == \A name \in DOMAIN set : Fitted(name, set[name])

\* The parts of an entry agree with each other and with its name.
Suitable(name, x, pops, push, regions, dynamic, size) ==
    /\ pops \in Nat /\ push \in Nat
    /\ Does(x, pops, push, regions) /\ Provides(size, regions, pops) /\ Reads(dynamic, pops)
    /\ size # "none" => dynamic # "none"
    /\ name \in DOMAIN Needs => Needs[name] <= pops
    /\ name = "SSTORE" <=> x = "opSstore"
    /\ name = "SSTORE" <=> dynamic \in SstoreGas

LEMMA MadeFitted ==
    ASSUME NEW name, NEW x, NEW pops, NEW push, NEW regions, NEW dynamic, NEW size,
           Suitable(name, x, pops, push, regions, dynamic, size), NEW gas
    PROVE  /\ dynamic = "none" /\ size = "none" => Fitted(name, Op(x, gas, pops, push))
           /\ size = "none" => Fitted(name, Metered(Op(x, gas, pops, push), dynamic))
           /\ Fitted(name, InMemory(Op(x, gas, pops, push), dynamic, size))
<1> DEFINE Has(op) == /\ OpFields \subseteq DOMAIN op /\ op.execute = x /\ op.dynamicGas = dynamic
                      /\ op.memorySize = size /\ op.minStack = pops
                      /\ op.maxStack = StackLimit + pops - push
           op == Op(x, gas, pops, push)
<1>1. ASSUME NEW made, Has(made) PROVE Fitted(name, made)
  <2>1. Fit(made)
    BY <1>1, FitParts DEF Suitable
  <2> QED BY <1>1, <2>1 DEF Suitable, Fitted, Rightful
<1>2. dynamic = "none" /\ size = "none" => Has(op)
  BY DEF Op, OpFields, minStack, maxStack
<1>3. size = "none" => Has(Metered(op, dynamic))
  BY DEF Op, Metered, OpFields, minStack, maxStack
<1>4. Has(InMemory(op, dynamic, size))
  BY DEF Op, InMemory, OpFields, minStack, maxStack
<1> HIDE DEF Has, op
<1> QED BY <1>1, <1>2, <1>3, <1>4 DEF op

LEMMA GasReading ==
    /\ \A pops \in Nat : \A d \in ReadNone : Reads(d, pops)
    /\ \A pops \in Nat : pops >= 1 => \A d \in ReadOne : Reads(d, pops)
    /\ \A pops \in Nat : pops >= 2 => \A d \in ReadTwo : Reads(d, pops)
    /\ \A pops \in Nat : pops >= 3 => \A d \in ReadThree : Reads(d, pops)
    /\ \A pops \in Nat : pops >= 4 => \A d \in ReadFour : Reads(d, pops)
<1>1. ReadNone \cup ReadOne \cup ReadTwo \cup ReadThree \cup ReadFour \subseteq DOMAIN GasReads
  BY DEF GasReads, Joined, Each, ReadNone, ReadOne, ReadTwo, ReadThree, ReadFour
<1> QED BY <1>1, GasReadsFound DEF Deeply, Reads

\* The entries of the functions that only take and give.
LEMMA PlainFitted ==
    ASSUME NEW name, name # "SSTORE", NEW x \in Simple, x # "opSstore", NEW gas
    PROVE  /\ x \in Pushers /\ name \notin DOMAIN Needs => Fitted(name, Op(x, gas, 0, 1))
           /\ x \in Unary /\ (name \in DOMAIN Needs => Needs[name] <= 1) => Fitted(name, Op(x, gas, 1, 1))
           /\ x \in Binary /\ name \notin DOMAIN Needs => Fitted(name, Op(x, gas, 2, 1))
           /\ x \in Ternary /\ name \notin DOMAIN Needs => Fitted(name, Op(x, gas, 3, 1))
           /\ x \in TakingNone /\ name \notin DOMAIN Needs => Fitted(name, Op(x, gas, 0, 0))
           /\ x \in TakingOne /\ name \notin DOMAIN Needs => Fitted(name, Op(x, gas, 1, 0))
           /\ x \in TakingTwo /\ name \notin DOMAIN Needs => Fitted(name, Op(x, gas, 2, 0))
<1>1. ASSUME NEW pops \in Nat, NEW push \in Nat, Does(x, pops, push, {}),
             name \in DOMAIN Needs => Needs[name] <= pops
      PROVE  Fitted(name, Op(x, gas, pops, push))
  <2>1. Reads("none", pops) /\ Provides("none", {}, pops)
    BY GasReading, SizesProvide DEF ReadNone
  <2>2. Suitable(name, x, pops, push, {}, "none", "none")
    BY <1>1, <2>1 DEF Suitable, SstoreGas
  <2> QED BY <2>2, MadeFitted
<1> QED BY <1>1, DoesSimply

LEMMA UndefinedFitted ==
    /\ Fit(Undefined)
    /\ \A name : name \notin DOMAIN Needs => Fitted(name, Undefined)
    /\ \A name : name # "SSTORE" => Rightful(name, Undefined)
<1>1. /\ OpFields \subseteq DOMAIN Undefined /\ Undefined.execute = "opUndefined" /\ Undefined.minStack = 0
      /\ Undefined.maxStack = StackLimit + 0 - 0 /\ Undefined.dynamicGas = "none"
      /\ Undefined.memorySize = "none"
  BY DEF Undefined, Op, OpFields, minStack, maxStack
<1>2. Does("opUndefined", 0, 0, {})
  BY DoesSimply DEF Simple, TakingNone
<1>3. Reads("none", 0) /\ Provides("none", {}, 0)
  BY GasReading, SizesProvide DEF ReadNone
<1>4. Fit(Undefined)
  BY <1>1, <1>2, <1>3, FitParts
<1>5. "SSTORE" \in DOMAIN Needs
  BY DEF Needs
<1> QED BY <1>1, <1>4, <1>5 DEF Fitted, Rightful, SstoreGas

\* The entries that have a gas function or touch the memory.
LEMMA SpecialFitted ==
    /\ Fitted("EXP", Metered(Op("opExp", "Free", 2, 1), "gasExpFrontier"))
    /\ Fitted("KECCAK256", InMemory(Op("opKeccak256", "Keccak256Gas", 2, 1), "gasKeccak256", "memoryKeccak256"))
    /\ Fitted("CALLDATACOPY", InMemory(Op("opCallDataCopy", "GasFastestStep", 3, 0), "gasCallDataCopy", "memoryCallDataCopy"))
    /\ Fitted("CODECOPY", InMemory(Op("opCodeCopy", "GasFastestStep", 3, 0), "gasCodeCopy", "memoryCodeCopy"))
    /\ Fitted("EXTCODECOPY", InMemory(Op("opExtCodeCopy", "ExtcodeCopyBaseFrontier", 4, 0), "gasExtCodeCopy", "memoryExtCodeCopy"))
    /\ Fitted("MLOAD", InMemory(Op("opMload", "GasFastestStep", 1, 1), "gasMLoad", "memoryMLoad"))
    /\ Fitted("MSTORE", InMemory(Op("opMstore", "GasFastestStep", 2, 0), "gasMStore", "memoryMStore"))
    /\ Fitted("MSTORE8", InMemory(Op("opMstore8", "GasFastestStep", 2, 0), "gasMStore8", "memoryMStore8"))
    /\ Fitted("SSTORE", Metered(Op("opSstore", "Free", 2, 0), "gasSStore"))
    /\ Fitted("CREATE", InMemory(Op("opCreate", "CreateGas", 3, 1), "gasCreate", "memoryCreate"))
    /\ Fitted("CALL", InMemory(Op("opCall", "CallGasFrontier", 7, 1), "gasCall", "memoryCall"))
    /\ Fitted("CALLCODE", InMemory(Op("opCallCode", "CallGasFrontier", 7, 1), "gasCallCode", "memoryCall"))
    /\ Fitted("RETURN", InMemory(Op("opReturn", "Free", 2, 0), "gasReturn", "memoryReturn"))
    /\ Fitted("SELFDESTRUCT", Metered(Op("opSelfdestruct", "Free", 1, 0), "gasSelfdestruct"))
    /\ Fitted("DELEGATECALL", InMemory(Op("opDelegateCall", "CallGasFrontier", 6, 1), "gasDelegateCall", "memoryDelegateCall"))
    /\ Fitted("STATICCALL", InMemory(Op("opStaticCall", "CallGasEIP150", 6, 1), "gasStaticCall", "memoryStaticCall"))
    /\ Fitted("RETURNDATACOPY", InMemory(Op("opReturnDataCopy", "GasFastestStep", 3, 0), "gasReturnDataCopy", "memoryReturnDataCopy"))
    /\ Fitted("REVERT", InMemory(Op("opRevert", "Free", 2, 0), "gasRevert", "memoryRevert"))
    /\ Fitted("CREATE2", InMemory(Op("opCreate2", "Create2Gas", 4, 1), "gasCreate2", "memoryCreate2"))
    /\ Fitted("MCOPY", InMemory(Op("opMcopy", "GasFastestStep", 3, 0), "gasMcopy", "memoryMcopy"))
    /\ Fitted("SELFDESTRUCT", Metered(Op("opSelfdestruct6780", "SelfdestructGasEIP150", 1, 0), "gasSelfdestructEIP3529"))
<1>1. Fitted("EXP", Metered(Op("opExp", "Free", 2, 1), "gasExpFrontier"))
  <2>1. Does("opExp", 2, 1, {})
    BY DoesSimply DEF Simple, Binary, TakingOne, TakingTwo
  <2>2. Provides("none", {}, 2) /\ Reads("gasExpFrontier", 2)
    BY SizesProvide, GasReading DEF ReadNone, ReadOne, ReadTwo, ReadThree, ReadFour
  <2>3. Suitable("EXP", "opExp", 2, 1, {}, "gasExpFrontier", "none")
    BY <2>1, <2>2 DEF Suitable, Needs, SstoreGas
  <2> QED BY <2>3, MadeFitted
<1>2. Fitted("KECCAK256", InMemory(Op("opKeccak256", "Keccak256Gas", 2, 1), "gasKeccak256", "memoryKeccak256"))
  <2>1. Does("opKeccak256", 2, 1, {Span(0, 1)})
    BY DoesTouching DEF CopyingData, Callers, Borrowers, Returners
  <2>2. Provides("memoryKeccak256", {Span(0, 1)}, 2) /\ Reads("gasKeccak256", 2)
    BY SizesProvide, GasReading DEF ReadNone, ReadOne, ReadTwo, ReadThree, ReadFour
  <2>3. Suitable("KECCAK256", "opKeccak256", 2, 1, {Span(0, 1)}, "gasKeccak256", "memoryKeccak256")
    BY <2>1, <2>2 DEF Suitable, Needs, SstoreGas
  <2> QED BY <2>3, MadeFitted
<1>3. Fitted("CALLDATACOPY", InMemory(Op("opCallDataCopy", "GasFastestStep", 3, 0), "gasCallDataCopy", "memoryCallDataCopy"))
  <2>1. Does("opCallDataCopy", 3, 0, {Span(0, 2)})
    BY DoesTouching DEF CopyingData, Callers, Borrowers, Returners
  <2>2. Provides("memoryCallDataCopy", {Span(0, 2)}, 3) /\ Reads("gasCallDataCopy", 3)
    BY SizesProvide, GasReading DEF ReadNone, ReadOne, ReadTwo, ReadThree, ReadFour
  <2>3. Suitable("CALLDATACOPY", "opCallDataCopy", 3, 0, {Span(0, 2)}, "gasCallDataCopy", "memoryCallDataCopy")
    BY <2>1, <2>2 DEF Suitable, Needs, SstoreGas
  <2> QED BY <2>3, MadeFitted
<1>4. Fitted("CODECOPY", InMemory(Op("opCodeCopy", "GasFastestStep", 3, 0), "gasCodeCopy", "memoryCodeCopy"))
  <2>1. Does("opCodeCopy", 3, 0, {Span(0, 2)})
    BY DoesTouching DEF CopyingData, Callers, Borrowers, Returners
  <2>2. Provides("memoryCodeCopy", {Span(0, 2)}, 3) /\ Reads("gasCodeCopy", 3)
    BY SizesProvide, GasReading DEF ReadNone, ReadOne, ReadTwo, ReadThree, ReadFour
  <2>3. Suitable("CODECOPY", "opCodeCopy", 3, 0, {Span(0, 2)}, "gasCodeCopy", "memoryCodeCopy")
    BY <2>1, <2>2 DEF Suitable, Needs, SstoreGas
  <2> QED BY <2>3, MadeFitted
<1>5. Fitted("EXTCODECOPY", InMemory(Op("opExtCodeCopy", "ExtcodeCopyBaseFrontier", 4, 0), "gasExtCodeCopy", "memoryExtCodeCopy"))
  <2>1. Does("opExtCodeCopy", 4, 0, {Span(1, 3)})
    BY DoesTouching DEF CopyingData, Callers, Borrowers, Returners
  <2>2. Provides("memoryExtCodeCopy", {Span(1, 3)}, 4) /\ Reads("gasExtCodeCopy", 4)
    BY SizesProvide, GasReading DEF ReadNone, ReadOne, ReadTwo, ReadThree, ReadFour
  <2>3. Suitable("EXTCODECOPY", "opExtCodeCopy", 4, 0, {Span(1, 3)}, "gasExtCodeCopy", "memoryExtCodeCopy")
    BY <2>1, <2>2 DEF Suitable, Needs, SstoreGas
  <2> QED BY <2>3, MadeFitted
<1>6. Fitted("MLOAD", InMemory(Op("opMload", "GasFastestStep", 1, 1), "gasMLoad", "memoryMLoad"))
  <2>1. Does("opMload", 1, 1, {Fixed(0, WordBytes)})
    BY DoesTouching DEF CopyingData, Callers, Borrowers, Returners
  <2>2. Provides("memoryMLoad", {Fixed(0, WordBytes)}, 1) /\ Reads("gasMLoad", 1)
    BY SizesProvide, GasReading DEF ReadNone, ReadOne, ReadTwo, ReadThree, ReadFour
  <2>3. Suitable("MLOAD", "opMload", 1, 1, {Fixed(0, WordBytes)}, "gasMLoad", "memoryMLoad")
    BY <2>1, <2>2 DEF Suitable, Needs, SstoreGas
  <2> QED BY <2>3, MadeFitted
<1>7. Fitted("MSTORE", InMemory(Op("opMstore", "GasFastestStep", 2, 0), "gasMStore", "memoryMStore"))
  <2>1. Does("opMstore", 2, 0, {Fixed(0, WordBytes)})
    BY DoesTouching DEF CopyingData, Callers, Borrowers, Returners
  <2>2. Provides("memoryMStore", {Fixed(0, WordBytes)}, 2) /\ Reads("gasMStore", 2)
    BY SizesProvide, GasReading DEF ReadNone, ReadOne, ReadTwo, ReadThree, ReadFour
  <2>3. Suitable("MSTORE", "opMstore", 2, 0, {Fixed(0, WordBytes)}, "gasMStore", "memoryMStore")
    BY <2>1, <2>2 DEF Suitable, Needs, SstoreGas
  <2> QED BY <2>3, MadeFitted
<1>8. Fitted("MSTORE8", InMemory(Op("opMstore8", "GasFastestStep", 2, 0), "gasMStore8", "memoryMStore8"))
  <2>1. Does("opMstore8", 2, 0, {Fixed(0, 1)})
    BY DoesTouching DEF CopyingData, Callers, Borrowers, Returners
  <2>2. Provides("memoryMStore8", {Fixed(0, 1)}, 2) /\ Reads("gasMStore8", 2)
    BY SizesProvide, GasReading DEF ReadNone, ReadOne, ReadTwo, ReadThree, ReadFour
  <2>3. Suitable("MSTORE8", "opMstore8", 2, 0, {Fixed(0, 1)}, "gasMStore8", "memoryMStore8")
    BY <2>1, <2>2 DEF Suitable, Needs, SstoreGas
  <2> QED BY <2>3, MadeFitted
<1>9. Fitted("SSTORE", Metered(Op("opSstore", "Free", 2, 0), "gasSStore"))
  <2>1. Does("opSstore", 2, 0, {})
    BY DoesSimply DEF Simple, Binary, TakingOne, TakingTwo
  <2>2. Provides("none", {}, 2) /\ Reads("gasSStore", 2)
    BY SizesProvide, GasReading DEF ReadNone, ReadOne, ReadTwo, ReadThree, ReadFour
  <2>3. Suitable("SSTORE", "opSstore", 2, 0, {}, "gasSStore", "none")
    BY <2>1, <2>2 DEF Suitable, Needs, SstoreGas
  <2> QED BY <2>3, MadeFitted
<1>10. Fitted("CREATE", InMemory(Op("opCreate", "CreateGas", 3, 1), "gasCreate", "memoryCreate"))
  <2>1. Does("opCreate", 3, 1, {Span(1, 2)})
    BY DoesTouching DEF CopyingData, Callers, Borrowers, Returners
  <2>2. Provides("memoryCreate", {Span(1, 2)}, 3) /\ Reads("gasCreate", 3)
    BY SizesProvide, GasReading DEF ReadNone, ReadOne, ReadTwo, ReadThree, ReadFour
  <2>3. Suitable("CREATE", "opCreate", 3, 1, {Span(1, 2)}, "gasCreate", "memoryCreate")
    BY <2>1, <2>2 DEF Suitable, Needs, SstoreGas
  <2> QED BY <2>3, MadeFitted
<1>11. Fitted("CALL", InMemory(Op("opCall", "CallGasFrontier", 7, 1), "gasCall", "memoryCall"))
  <2>1. Does("opCall", 7, 1, {Span(3, 4), Span(5, 6)})
    BY DoesTouching DEF CopyingData, Callers, Borrowers, Returners
  <2>2. Provides("memoryCall", {Span(3, 4), Span(5, 6)}, 7) /\ Reads("gasCall", 7)
    BY SizesProvide, GasReading DEF ReadNone, ReadOne, ReadTwo, ReadThree, ReadFour
  <2>3. Suitable("CALL", "opCall", 7, 1, {Span(3, 4), Span(5, 6)}, "gasCall", "memoryCall")
    BY <2>1, <2>2 DEF Suitable, Needs, SstoreGas
  <2> QED BY <2>3, MadeFitted
<1>12. Fitted("CALLCODE", InMemory(Op("opCallCode", "CallGasFrontier", 7, 1), "gasCallCode", "memoryCall"))
  <2>1. Does("opCallCode", 7, 1, {Span(3, 4), Span(5, 6)})
    BY DoesTouching DEF CopyingData, Callers, Borrowers, Returners
  <2>2. Provides("memoryCall", {Span(3, 4), Span(5, 6)}, 7) /\ Reads("gasCallCode", 7)
    BY SizesProvide, GasReading DEF ReadNone, ReadOne, ReadTwo, ReadThree, ReadFour
  <2>3. Suitable("CALLCODE", "opCallCode", 7, 1, {Span(3, 4), Span(5, 6)}, "gasCallCode", "memoryCall")
    BY <2>1, <2>2 DEF Suitable, Needs, SstoreGas
  <2> QED BY <2>3, MadeFitted
<1>13. Fitted("RETURN", InMemory(Op("opReturn", "Free", 2, 0), "gasReturn", "memoryReturn"))
  <2>1. Does("opReturn", 2, 0, {Span(0, 1)})
    BY DoesTouching DEF CopyingData, Callers, Borrowers, Returners
  <2>2. Provides("memoryReturn", {Span(0, 1)}, 2) /\ Reads("gasReturn", 2)
    BY SizesProvide, GasReading DEF ReadNone, ReadOne, ReadTwo, ReadThree, ReadFour
  <2>3. Suitable("RETURN", "opReturn", 2, 0, {Span(0, 1)}, "gasReturn", "memoryReturn")
    BY <2>1, <2>2 DEF Suitable, Needs, SstoreGas
  <2> QED BY <2>3, MadeFitted
<1>14. Fitted("SELFDESTRUCT", Metered(Op("opSelfdestruct", "Free", 1, 0), "gasSelfdestruct"))
  <2>1. Does("opSelfdestruct", 1, 0, {})
    BY DoesSimply DEF Simple, Binary, TakingOne, TakingTwo
  <2>2. Provides("none", {}, 1) /\ Reads("gasSelfdestruct", 1)
    BY SizesProvide, GasReading DEF ReadNone, ReadOne, ReadTwo, ReadThree, ReadFour
  <2>3. Suitable("SELFDESTRUCT", "opSelfdestruct", 1, 0, {}, "gasSelfdestruct", "none")
    BY <2>1, <2>2 DEF Suitable, Needs, SstoreGas
  <2> QED BY <2>3, MadeFitted
<1>15. Fitted("DELEGATECALL", InMemory(Op("opDelegateCall", "CallGasFrontier", 6, 1), "gasDelegateCall", "memoryDelegateCall"))
  <2>1. Does("opDelegateCall", 6, 1, {Span(2, 3), Span(4, 5)})
    BY DoesTouching DEF CopyingData, Callers, Borrowers, Returners
  <2>2. Provides("memoryDelegateCall", {Span(2, 3), Span(4, 5)}, 6) /\ Reads("gasDelegateCall", 6)
    BY SizesProvide, GasReading DEF ReadNone, ReadOne, ReadTwo, ReadThree, ReadFour
  <2>3. Suitable("DELEGATECALL", "opDelegateCall", 6, 1, {Span(2, 3), Span(4, 5)}, "gasDelegateCall", "memoryDelegateCall")
    BY <2>1, <2>2 DEF Suitable, Needs, SstoreGas
  <2> QED BY <2>3, MadeFitted
<1>16. Fitted("STATICCALL", InMemory(Op("opStaticCall", "CallGasEIP150", 6, 1), "gasStaticCall", "memoryStaticCall"))
  <2>1. Does("opStaticCall", 6, 1, {Span(2, 3), Span(4, 5)})
    BY DoesTouching DEF CopyingData, Callers, Borrowers, Returners
  <2>2. Provides("memoryStaticCall", {Span(2, 3), Span(4, 5)}, 6) /\ Reads("gasStaticCall", 6)
    BY SizesProvide, GasReading DEF ReadNone, ReadOne, ReadTwo, ReadThree, ReadFour
  <2>3. Suitable("STATICCALL", "opStaticCall", 6, 1, {Span(2, 3), Span(4, 5)}, "gasStaticCall", "memoryStaticCall")
    BY <2>1, <2>2 DEF Suitable, Needs, SstoreGas
  <2> QED BY <2>3, MadeFitted
<1>17. Fitted("RETURNDATACOPY", InMemory(Op("opReturnDataCopy", "GasFastestStep", 3, 0), "gasReturnDataCopy", "memoryReturnDataCopy"))
  <2>1. Does("opReturnDataCopy", 3, 0, {Span(0, 2)})
    BY DoesTouching DEF CopyingData, Callers, Borrowers, Returners
  <2>2. Provides("memoryReturnDataCopy", {Span(0, 2)}, 3) /\ Reads("gasReturnDataCopy", 3)
    BY SizesProvide, GasReading DEF ReadNone, ReadOne, ReadTwo, ReadThree, ReadFour
  <2>3. Suitable("RETURNDATACOPY", "opReturnDataCopy", 3, 0, {Span(0, 2)}, "gasReturnDataCopy", "memoryReturnDataCopy")
    BY <2>1, <2>2 DEF Suitable, Needs, SstoreGas
  <2> QED BY <2>3, MadeFitted
<1>18. Fitted("REVERT", InMemory(Op("opRevert", "Free", 2, 0), "gasRevert", "memoryRevert"))
  <2>1. Does("opRevert", 2, 0, {Span(0, 1)})
    BY DoesTouching DEF CopyingData, Callers, Borrowers, Returners
  <2>2. Provides("memoryRevert", {Span(0, 1)}, 2) /\ Reads("gasRevert", 2)
    BY SizesProvide, GasReading DEF ReadNone, ReadOne, ReadTwo, ReadThree, ReadFour
  <2>3. Suitable("REVERT", "opRevert", 2, 0, {Span(0, 1)}, "gasRevert", "memoryRevert")
    BY <2>1, <2>2 DEF Suitable, Needs, SstoreGas
  <2> QED BY <2>3, MadeFitted
<1>19. Fitted("CREATE2", InMemory(Op("opCreate2", "Create2Gas", 4, 1), "gasCreate2", "memoryCreate2"))
  <2>1. Does("opCreate2", 4, 1, {Span(1, 2)})
    BY DoesTouching DEF CopyingData, Callers, Borrowers, Returners
  <2>2. Provides("memoryCreate2", {Span(1, 2)}, 4) /\ Reads("gasCreate2", 4)
    BY SizesProvide, GasReading DEF ReadNone, ReadOne, ReadTwo, ReadThree, ReadFour
  <2>3. Suitable("CREATE2", "opCreate2", 4, 1, {Span(1, 2)}, "gasCreate2", "memoryCreate2")
    BY <2>1, <2>2 DEF Suitable, Needs, SstoreGas
  <2> QED BY <2>3, MadeFitted
<1>20. Fitted("MCOPY", InMemory(Op("opMcopy", "GasFastestStep", 3, 0), "gasMcopy", "memoryMcopy"))
  <2>1. Does("opMcopy", 3, 0, {Span(0, 2), Span(1, 2)})
    BY DoesTouching DEF CopyingData, Callers, Borrowers, Returners
  <2>2. Provides("memoryMcopy", {Span(0, 2), Span(1, 2)}, 3) /\ Reads("gasMcopy", 3)
    BY SizesProvide, GasReading DEF ReadNone, ReadOne, ReadTwo, ReadThree, ReadFour
  <2>3. Suitable("MCOPY", "opMcopy", 3, 0, {Span(0, 2), Span(1, 2)}, "gasMcopy", "memoryMcopy")
    BY <2>1, <2>2 DEF Suitable, Needs, SstoreGas
  <2> QED BY <2>3, MadeFitted
<1>21. Fitted("SELFDESTRUCT", Metered(Op("opSelfdestruct6780", "SelfdestructGasEIP150", 1, 0), "gasSelfdestructEIP3529"))
  <2>1. Does("opSelfdestruct6780", 1, 0, {})
    BY DoesSimply DEF Simple, Binary, TakingOne, TakingTwo
  <2>2. Provides("none", {}, 1) /\ Reads("gasSelfdestructEIP3529", 1)
    BY SizesProvide, GasReading DEF ReadNone, ReadOne, ReadTwo, ReadThree, ReadFour
  <2>3. Suitable("SELFDESTRUCT", "opSelfdestruct6780", 1, 0, {}, "gasSelfdestructEIP3529", "none")
    BY <2>1, <2>2 DEF Suitable, Needs, SstoreGas
  <2> QED BY <2>3, MadeFitted
<1> QED BY <1>1, <1>2, <1>3, <1>4, <1>5, <1>6, <1>7, <1>8, <1>9, <1>10, <1>11, <1>12, <1>13, <1>14, <1>15, <1>16, <1>17, <1>18, <1>19, <1>20, <1>21

LEMMA FrontierArithmeticFitted == FittedSet(FrontierArithmetic)
<1>1. /\ Fitted("STOP", Op("opStop", "Free", 0, 0))
      /\ Fitted("ADD", Op("opAdd", "GasFastestStep", 2, 1))
      /\ Fitted("MUL", Op("opMul", "GasFastStep", 2, 1))
      /\ Fitted("SUB", Op("opSub", "GasFastestStep", 2, 1))
  BY PlainFitted DEF Simple, Pushers, Unary, Binary, Ternary, TakingNone, TakingOne, TakingTwo, Needs
<1>2. /\ Fitted("DIV", Op("opDiv", "GasFastStep", 2, 1))
      /\ Fitted("SDIV", Op("opSdiv", "GasFastStep", 2, 1))
      /\ Fitted("MOD", Op("opMod", "GasFastStep", 2, 1))
      /\ Fitted("SMOD", Op("opSmod", "GasFastStep", 2, 1))
  BY PlainFitted DEF Simple, Pushers, Unary, Binary, Ternary, TakingNone, TakingOne, TakingTwo, Needs
<1>3. /\ Fitted("ADDMOD", Op("opAddmod", "GasMidStep", 3, 1))
      /\ Fitted("MULMOD", Op("opMulmod", "GasMidStep", 3, 1))
      /\ Fitted("SIGNEXTEND", Op("opSignExtend", "GasFastStep", 2, 1))
  BY PlainFitted DEF Simple, Pushers, Unary, Binary, Ternary, TakingNone, TakingOne, TakingTwo, Needs
<1> QED BY <1>1, <1>2, <1>3, SpecialFitted DEF FittedSet, FrontierArithmetic

LEMMA FrontierComparisonFitted == FittedSet(FrontierComparison)
<1>1. /\ Fitted("LT", Op("opLt", "GasFastestStep", 2, 1))
      /\ Fitted("GT", Op("opGt", "GasFastestStep", 2, 1))
      /\ Fitted("SLT", Op("opSlt", "GasFastestStep", 2, 1))
      /\ Fitted("SGT", Op("opSgt", "GasFastestStep", 2, 1))
  BY PlainFitted DEF Simple, Pushers, Unary, Binary, Ternary, TakingNone, TakingOne, TakingTwo, Needs
<1>2. /\ Fitted("EQ", Op("opEq", "GasFastestStep", 2, 1))
      /\ Fitted("ISZERO", Op("opIszero", "GasFastestStep", 1, 1))
      /\ Fitted("AND", Op("opAnd", "GasFastestStep", 2, 1))
      /\ Fitted("XOR", Op("opXor", "GasFastestStep", 2, 1))
  BY PlainFitted DEF Simple, Pushers, Unary, Binary, Ternary, TakingNone, TakingOne, TakingTwo, Needs
<1>3. /\ Fitted("OR", Op("opOr", "GasFastestStep", 2, 1))
      /\ Fitted("NOT", Op("opNot", "GasFastestStep", 1, 1))
      /\ Fitted("BYTE", Op("opByte", "GasFastestStep", 2, 1))
  BY PlainFitted DEF Simple, Pushers, Unary, Binary, Ternary, TakingNone, TakingOne, TakingTwo, Needs
<1> QED BY <1>1, <1>2, <1>3, SpecialFitted DEF FittedSet, FrontierComparison

LEMMA FrontierClosureFitted == FittedSet(FrontierClosure)
<1>1. /\ Fitted("ADDRESS", Op("opAddress", "GasQuickStep", 0, 1))
      /\ Fitted("BALANCE", Op("opBalance", "BalanceGasFrontier", 1, 1))
      /\ Fitted("ORIGIN", Op("opOrigin", "GasQuickStep", 0, 1))
      /\ Fitted("CALLER", Op("opCaller", "GasQuickStep", 0, 1))
  BY PlainFitted DEF Simple, Pushers, Unary, Binary, Ternary, TakingNone, TakingOne, TakingTwo, Needs
<1>2. /\ Fitted("CALLVALUE", Op("opCallValue", "GasQuickStep", 0, 1))
      /\ Fitted("CALLDATALOAD", Op("opCallDataLoad", "GasFastestStep", 1, 1))
      /\ Fitted("CALLDATASIZE", Op("opCallDataSize", "GasQuickStep", 0, 1))
      /\ Fitted("CODESIZE", Op("opCodeSize", "GasQuickStep", 0, 1))
  BY PlainFitted DEF Simple, Pushers, Unary, Binary, Ternary, TakingNone, TakingOne, TakingTwo, Needs
<1>3. /\ Fitted("GASPRICE", Op("opGasprice", "GasQuickStep", 0, 1))
      /\ Fitted("EXTCODESIZE", Op("opExtCodeSize", "ExtcodeSizeGasFrontier", 1, 1))
  BY PlainFitted DEF Simple, Pushers, Unary, Binary, Ternary, TakingNone, TakingOne, TakingTwo, Needs
<1> QED BY <1>1, <1>2, <1>3, SpecialFitted DEF FittedSet, FrontierClosure

LEMMA FrontierBlockFitted == FittedSet(FrontierBlock)
<1>1. /\ Fitted("BLOCKHASH", Op("opBlockhash", "GasExtStep", 1, 1))
      /\ Fitted("COINBASE", Op("opCoinbase", "GasQuickStep", 0, 1))
      /\ Fitted("TIMESTAMP", Op("opTimestamp", "GasQuickStep", 0, 1))
      /\ Fitted("NUMBER", Op("opNumber", "GasQuickStep", 0, 1))
  BY PlainFitted DEF Simple, Pushers, Unary, Binary, Ternary, TakingNone, TakingOne, TakingTwo, Needs
<1>2. /\ Fitted("PREVRANDAO", Op("opDifficulty", "GasQuickStep", 0, 1))
      /\ Fitted("GASLIMIT", Op("opGasLimit", "GasQuickStep", 0, 1))
  BY PlainFitted DEF Simple, Pushers, Unary, Binary, Ternary, TakingNone, TakingOne, TakingTwo, Needs
<1> QED BY <1>1, <1>2 DEF FittedSet, FrontierBlock

LEMMA FrontierStorageFitted == FittedSet(FrontierStorage)
<1>1. /\ Fitted("POP", Op("opPop", "GasQuickStep", 1, 0))
      /\ Fitted("SLOAD", Op("opSload", "SloadGasFrontier", 1, 1))
      /\ Fitted("JUMP", Op("opJump", "GasMidStep", 1, 0))
      /\ Fitted("JUMPI", Op("opJumpi", "GasSlowStep", 2, 0))
  BY PlainFitted DEF Simple, Pushers, Unary, Binary, Ternary, TakingNone, TakingOne, TakingTwo, Needs
<1>2. /\ Fitted("PC", Op("opPc", "GasQuickStep", 0, 1))
      /\ Fitted("MSIZE", Op("opMsize", "GasQuickStep", 0, 1))
      /\ Fitted("GAS", Op("opGas", "GasQuickStep", 0, 1))
      /\ Fitted("JUMPDEST", Op("opJumpdest", "JumpdestGas", 0, 0))
  BY PlainFitted DEF Simple, Pushers, Unary, Binary, Ternary, TakingNone, TakingOne, TakingTwo, Needs
<1> QED BY <1>1, <1>2, SpecialFitted DEF FittedSet, FrontierStorage

LEMMA FrontierCallsFitted == FittedSet(FrontierCalls)
<1> QED BY SpecialFitted DEF FittedSet, FrontierCalls

\* The families: what a push, a dup, a swap and a log of any argument does.
LEMMA FamilyFit ==
    ASSUME NEW op, OpFields \subseteq DOMAIN op, op.minStack \in Nat, op.n \in Nat,
           Reads(op.dynamicGas, op.minStack), op.memorySize # "none" => op.dynamicGas # "none",
           \/ /\ op.execute \in Pushing /\ op.minStack = 0 /\ op.maxStack = StackLimit - 1
              /\ op.memorySize = "none"
           \/ /\ op.execute = "makeDup" /\ op.minStack = op.n /\ op.maxStack = StackLimit - 1
              /\ op.memorySize = "none"
           \/ /\ op.execute = "makeSwap" /\ op.minStack = op.n + 1 /\ op.maxStack = StackLimit
              /\ op.memorySize = "none"
           \/ /\ op.execute = "makeLog" /\ op.minStack = 2 + op.n /\ op.maxStack = StackLimit + 2 + op.n
              /\ op.memorySize = "memoryLog"
    PROVE  Fit(op)
<1> DEFINE Agrees(reads, delta, regions) ==
              /\ EffectOf(op) = [reads |-> reads, delta |-> delta, memory |-> regions]
              /\ op.minStack = reads /\ op.minStack + delta >= 0 /\ op.maxStack + delta = StackLimit
              /\ Provides(op.memorySize, regions, op.minStack)
<1>1. StackLimit \in Nat
  BY StackLimitAssumption
<1>2. ASSUME NEW reads \in Nat, NEW delta \in Int, NEW regions, Agrees(reads, delta, regions)
      PROVE  Fit(op)
  <2> DEFINE e == [reads |-> reads, delta |-> delta, memory |-> regions]
  <2>1. EffectOf(op) = e /\ e.reads = reads /\ e.delta = delta /\ e.memory = regions
    BY <1>2
  <2> HIDE DEF e
  <2>2. Fits(op)
    BY <1>1, <1>2, <2>1 DEF Fits, Provides, Reads, Validates
  <2>3. Tight(op)
    BY <1>1, <1>2, <2>1 DEF Tight
  <2> QED BY <2>1, <2>2, <2>3 DEF Fit
<1>3. CASE op.execute \in Pushing
  <2>1. Provides("none", {}, 0)
    BY SizesProvide
  <2>2. Agrees(0, 1, {})
    BY <1>1, <1>3, <2>1, GivesTakes DEF EffectOf, Effect, Pushing
  <2> HIDE DEF Agrees
  <2> QED BY <1>2, <2>2
<1>4. CASE op.execute = "makeDup"
  <2>1. Provides("none", {}, op.n)
    BY SizesProvide
  <2>2. Agrees(op.n, 1, {})
    BY <1>1, <1>4, <2>1 DEF EffectOf, Effect, Pushing
  <2> HIDE DEF Agrees
  <2> QED BY <1>2, <2>2
<1>5. CASE op.execute = "makeSwap"
  <2>1. Provides("none", {}, op.n + 1)
    BY SizesProvide
  <2>2. Agrees(op.n + 1, 0, {})
    BY <1>1, <1>5, <2>1 DEF EffectOf, Effect, Pushing
  <2>3. op.n + 1 \in Nat
    OBVIOUS
  <2> HIDE DEF Agrees
  <2> QED BY <1>2, <2>2, <2>3
<1>6. CASE op.execute = "makeLog"
  <2>1. Provides("memoryLog", {Span(0, 1)}, 2 + op.n)
    BY SizesProvide
  <2>2. EffectOf(op) = [reads |-> op.n + 2, delta |-> -(op.n + 2), memory |-> {Span(0, 1)}]
    BY <1>6 DEF EffectOf, Touching, Takes, Effect
  <2>3. Agrees(op.n + 2, -(op.n + 2), {Span(0, 1)})
    BY <1>1, <1>6, <2>1, <2>2 DEF Pushing
  <2>4. op.n + 2 \in Nat /\ -(op.n + 2) \in Int
    OBVIOUS
  <2> HIDE DEF Agrees
  <2> QED BY <1>2, <2>3, <2>4
<1> QED BY <1>3, <1>4, <1>5, <1>6

LEMMA FamiliesFitted ==
    /\ FittedSet(FrontierPush) /\ FittedSet(FrontierDup) /\ FittedSet(FrontierSwap)
    /\ FittedSet(FrontierLog)
<1>1. ASSUME NEW name, Unnamed(name), NEW op, Fit(op), op.execute # "opSstore", op.dynamicGas \notin SstoreGas
      PROVE  Fitted(name, op)
  <2>1. name \notin DOMAIN Needs /\ name # "SSTORE"
    BY <1>1 DEF Unnamed, Needs, Plain, CallOf
  <2> QED BY <1>1, <2>1 DEF Fitted, Rightful
<1>2. \A pops \in Nat : Reads("none", pops)
  BY GasReading DEF ReadNone
<1>3. FittedSet(FrontierPush)
  <2> SUFFICES ASSUME NEW name \in DOMAIN FrontierPush PROVE Fitted(name, FrontierPush[name])
    BY DEF FittedSet
  <2> DEFINE i == PushCodes[name] - PushCodes["PUSH1"]
             execute == IF i = 0 THEN "opPush1" ELSE "makePush"
             op == [Op(execute, "GasFastestStep", 0, 1) EXCEPT !.n = i + 1]
  <2>1. name \in DOMAIN PushCodes /\ FrontierPush[name] = op
    BY DEF FrontierPush, Members
  <2>2. i \in Nat /\ Unnamed(name)
    BY <2>1, PushCodesFrom
  <2>3. execute \in Pushing
    BY DEF Pushing
  <2> HIDE DEF i, execute
  <2>4. /\ OpFields \subseteq DOMAIN op /\ op.n = i + 1 /\ op.execute = execute /\ op.dynamicGas = "none"
        /\ op.memorySize = "none" /\ op.minStack = 0 /\ op.maxStack = StackLimit + 0 - 1
    BY DEF Op, OpFields, minStack, maxStack
  <2> HIDE DEF op
  <2>5. op.maxStack = StackLimit - 1
    BY <2>4, StackLimitAssumption
  <2>6. Fit(op)
    BY <1>2, <2>2, <2>3, <2>4, <2>5, FamilyFit
  <2> QED BY <1>1, <2>1, <2>2, <2>3, <2>4, <2>6 DEF Pushing, SstoreGas
<1>4. FittedSet(FrontierDup)
  <2> SUFFICES ASSUME NEW name \in DOMAIN FrontierDup PROVE Fitted(name, FrontierDup[name])
    BY DEF FittedSet
  <2> DEFINE i == DupCodes[name] - DupCodes["DUP1"]
             op == [Op("makeDup", "GasFastestStep", 0, 1) EXCEPT !.n = i + 1,
                        !.minStack = minDupStack(i + 1), !.maxStack = maxDupStack(i + 1)]
  <2>1. name \in DOMAIN DupCodes /\ FrontierDup[name] = op
    BY DEF FrontierDup, Members
  <2>2. i \in Nat /\ Unnamed(name)
    BY <2>1, DupCodesFrom
  <2> HIDE DEF i
  <2>3. /\ OpFields \subseteq DOMAIN op /\ op.n = i + 1 /\ op.execute = "makeDup" /\ op.dynamicGas = "none"
        /\ op.memorySize = "none" /\ op.minStack = i + 1 /\ op.maxStack = StackLimit + (i + 1) - ((i + 1) + 1)
    BY DEF Op, OpFields, minStack, maxStack, minDupStack, maxDupStack
  <2> HIDE DEF op
  <2>4. op.maxStack = StackLimit - 1
    BY <2>2, <2>3, StackLimitAssumption
  <2>5. Fit(op)
    BY <1>2, <2>2, <2>3, <2>4, FamilyFit
  <2> QED BY <1>1, <2>1, <2>2, <2>3, <2>5 DEF SstoreGas
<1>5. FittedSet(FrontierSwap)
  <2> SUFFICES ASSUME NEW name \in DOMAIN FrontierSwap PROVE Fitted(name, FrontierSwap[name])
    BY DEF FittedSet
  <2> DEFINE i == SwapCodes[name] - SwapCodes["SWAP1"]
             op == [Op("makeSwap", "GasFastestStep", 0, 0) EXCEPT !.n = i + 1,
                        !.minStack = minSwapStack(i + 2), !.maxStack = maxSwapStack(i + 2)]
  <2>1. name \in DOMAIN SwapCodes /\ FrontierSwap[name] = op
    BY DEF FrontierSwap, Members
  <2>2. i \in Nat /\ Unnamed(name)
    BY <2>1, SwapCodesFrom
  <2> HIDE DEF i
  <2>3. /\ OpFields \subseteq DOMAIN op /\ op.n = i + 1 /\ op.execute = "makeSwap" /\ op.dynamicGas = "none"
        /\ op.memorySize = "none" /\ op.minStack = i + 2 /\ op.maxStack = StackLimit + (i + 2) - (i + 2)
    BY DEF Op, OpFields, minStack, maxStack, minSwapStack, maxSwapStack
  <2> HIDE DEF op
  <2>4. op.maxStack = StackLimit /\ op.minStack = op.n + 1
    BY <2>2, <2>3, StackLimitAssumption
  <2>5. Fit(op)
    BY <1>2, <2>2, <2>3, <2>4, FamilyFit
  <2> QED BY <1>1, <2>1, <2>2, <2>3, <2>5 DEF SstoreGas
<1>6. FittedSet(FrontierLog)
  <2> SUFFICES ASSUME NEW name \in DOMAIN FrontierLog PROVE Fitted(name, FrontierLog[name])
    BY DEF FittedSet
  <2> DEFINE i == LogCodes[name] - LogCodes["LOG0"]
             op == [InMemory(Op("makeLog", "Free", 2 + i, 0), "makeGasLog", "memoryLog") EXCEPT !.n = i]
  <2>1. name \in DOMAIN LogCodes /\ FrontierLog[name] = op
    BY DEF FrontierLog, Members
  <2>2. i \in Nat /\ Unnamed(name)
    BY <2>1, LogCodesFrom
  <2> HIDE DEF i
  <2>3. /\ OpFields \subseteq DOMAIN op /\ op.n = i /\ op.execute = "makeLog" /\ op.dynamicGas = "makeGasLog"
        /\ op.memorySize = "memoryLog" /\ op.minStack = 2 + i /\ op.maxStack = StackLimit + (2 + i) - 0
    BY DEF Op, InMemory, OpFields, minStack, maxStack
  <2> HIDE DEF op
  <2>4. op.maxStack = StackLimit + 2 + op.n /\ Reads("makeGasLog", 2 + i)
    BY <2>2, <2>3, StackLimitAssumption, GasReading DEF ReadTwo
  <2>5. Fit(op)
    BY <2>2, <2>3, <2>4, FamilyFit
  <2> QED BY <1>1, <2>1, <2>2, <2>3, <2>5 DEF SstoreGas
<1> QED BY <1>3, <1>4, <1>5, <1>6

LEMMA FrontierFitted == FittedSet(newFrontierInstructionSet)
<1> DEFINE F == {FrontierArithmetic, FrontierComparison, FrontierClosure, FrontierBlock, FrontierStorage,
                 FrontierPush, FrontierDup, FrontierSwap, FrontierLog, FrontierCalls}
<1>1. \A f \in F : FittedSet(f)
  BY FrontierArithmeticFitted, FrontierComparisonFitted, FrontierClosureFitted, FrontierBlockFitted,
     FrontierStorageFitted, FrontierCallsFitted, FamiliesFitted
<1>2. newFrontierInstructionSet = Joined(F)
  BY DEF newFrontierInstructionSet
<1> HIDE DEF F
<1> QED BY <1>1, <1>2, JoinedMember DEF FittedSet

----------------------------------------------------------------------------
(* The tables fit: the proposals and the forks                             *)

\* The constant gas says nothing of the stack; another gas function must not
\* read beyond what the entry accepts.
LEMMA ChangedFit ==
    ASSUME NEW op, Fit(op), NEW gas, NEW constant
    PROVE  /\ Fit([op EXCEPT !.constantGas = constant])
           /\ gas # "none" /\ Reads(gas, op.minStack) =>
                /\ Fit(Metered(op, gas))
                /\ Fit([op EXCEPT !.constantGas = constant, !.dynamicGas = gas])
<1> DEFINE Like(made, dynamic) ==
              /\ OpFields \subseteq DOMAIN made /\ made.execute = op.execute /\ made.n = op.n
              /\ made.minStack = op.minStack /\ made.maxStack = op.maxStack
              /\ made.memorySize = op.memorySize /\ made.dynamicGas = dynamic
<1>1. ASSUME NEW made, NEW dynamic, Like(made, dynamic), EffectOf(made) = EffectOf(op),
             \/ dynamic = op.dynamicGas
             \/ dynamic # "none" /\ Reads(dynamic, op.minStack)
      PROVE  Fit(made)
  <2> DEFINE e == EffectOf(op)
  <2> HIDE DEF e
  <2>1. EffectOf(made) = e /\ EffectOf(op) = e
    BY <1>1 DEF e
  <2>2. GasReads[made.dynamicGas] <= made.minStack
    BY <1>1 DEF Fit, Fits, Reads
  <2>3. Fits(made)
    BY <1>1, <2>1, <2>2 DEF Fit, Fits, Validates
  <2>4. Tight(made)
    BY <1>1, <2>1 DEF Fit, Tight
  <2> QED BY <1>1, <2>1, <2>3, <2>4 DEF Fit
<1>2. ASSUME NEW made, NEW dynamic, Like(made, dynamic)
      PROVE  EffectOf(made) = EffectOf(op)
  BY <1>2 DEF EffectOf
<1>3. OpFields \subseteq DOMAIN op
  BY DEF Fit
<1>4. Like([op EXCEPT !.constantGas = constant], op.dynamicGas)
  BY <1>3 DEF OpFields
<1>5. Like(Metered(op, gas), gas) /\ Like([op EXCEPT !.constantGas = constant, !.dynamicGas = gas], gas)
  BY <1>3 DEF OpFields, Metered
<1> HIDE DEF Like
<1> QED BY <1>1, <1>2, <1>4, <1>5

LEMMA GasReadsInt == \A d \in DOMAIN GasReads : GasReads[d] \in 0..4
<1> DEFINE F == {Each({"none", "gasReturn", "gasRevert", "gasMLoad", "gasMStore8", "gasMStore", "gasCreate"}, 0),
                 Each({"gasCallDataCopy", "gasCodeCopy", "gasMcopy", "gasReturnDataCopy"}, CopierReads(2)),
                 Each({"gasExtCodeCopy", "gasExtCodeCopyEIP2929"}, CopierReads(3)),
                 Each({"gasSStore", "gasSStoreEIP2200", "gasSStoreEIP2929", "gasSStoreEIP3529",
                       "makeGasLog", "gasKeccak256", "gasExpFrontier", "gasExpEIP158"}, 2),
                 Each({"gasCreate2", "gasCreateEip3860", "gasCreate2Eip3860", "gasCall", "gasCallCode",
                       "gasCallEIP2929", "gasCallCodeEIP2929"}, 3),
                 Each({"gasDelegateCall", "gasStaticCall", "gasSelfdestruct", "gasSelfdestructEIP2929",
                       "gasSelfdestructEIP3529", "gasSLoadEIP2929", "gasEip2929AccountCheck"}, 1),
                 Each({"gasDelegateCallEIP2929", "gasStaticCallEIP2929"}, 2)}
<1>1. GasReads = Joined(F)
  BY DEF GasReads
<1>2. \A f \in F : \A d \in DOMAIN f : f[d] \in 0..4
  BY DEF Each, CopierReads
<1> HIDE DEF F
<1> QED BY <1>1, <1>2, JoinedMember

\* A gas function that an entry of the name can be given.
Acceptable(name, gas) ==
    /\ gas # "none"
    /\ name \in DOMAIN Needs /\ Reads(gas, Needs[name])
    /\ name = "SSTORE" <=> gas \in SstoreGas

LEMMA ChangedFitted ==
    ASSUME NEW name, NEW op, NEW constant
    PROVE  /\ Fitted(name, op) => Fitted(name, [op EXCEPT !.constantGas = constant])
           /\ Rightful(name, op) => Rightful(name, [op EXCEPT !.constantGas = constant])
           /\ \A gas : Fitted(name, op) /\ Acceptable(name, gas) =>
                /\ Fitted(name, Metered(op, gas))
                /\ Fitted(name, [op EXCEPT !.constantGas = constant, !.dynamicGas = gas])
<1>1. ASSUME Rightful(name, op) PROVE Rightful(name, [op EXCEPT !.constantGas = constant])
  <2>1. Fit([op EXCEPT !.constantGas = constant])
    BY <1>1, ChangedFit DEF Rightful
  <2> QED BY <1>1, <2>1 DEF Rightful, Fit, OpFields
<1>2. ASSUME Fitted(name, op) PROVE Fitted(name, [op EXCEPT !.constantGas = constant])
  BY <1>1, <1>2 DEF Fitted, Rightful, Fit, OpFields
<1>3. ASSUME NEW gas, Fitted(name, op), Acceptable(name, gas)
      PROVE  /\ Fitted(name, Metered(op, gas))
             /\ Fitted(name, [op EXCEPT !.constantGas = constant, !.dynamicGas = gas])
  <2>1. Reads(gas, op.minStack)
    <3>1. Needs[name] \in Nat /\ (gas \in DOMAIN GasReads /\ GasReads[gas] <= Needs[name])
      BY <1>3 DEF Acceptable, Reads, Needs
    <3>2. GasReads[gas] \in Int
      BY <1>3, GasReadsInt DEF Acceptable, Reads
    <3>3. op.minStack \in Nat /\ Needs[name] <= op.minStack
      BY <1>3 DEF Fitted, Rightful, Fit, Acceptable
    <3> QED BY <3>1, <3>2, <3>3 DEF Reads
  <2>2. Fit(Metered(op, gas)) /\ Fit([op EXCEPT !.constantGas = constant, !.dynamicGas = gas])
    BY <1>3, <2>1, ChangedFit DEF Fitted, Rightful, Acceptable
  <2>3. OpFields \subseteq DOMAIN op
    BY <1>3 DEF Fitted, Rightful, Fit
  <2>4. /\ Metered(op, gas).execute = op.execute /\ Metered(op, gas).dynamicGas = gas
        /\ Metered(op, gas).minStack = op.minStack
    BY <2>3 DEF Metered, OpFields
  <2> DEFINE made == [op EXCEPT !.constantGas = constant, !.dynamicGas = gas]
  <2>5. made.execute = op.execute /\ made.dynamicGas = gas /\ made.minStack = op.minStack
    BY <2>3 DEF OpFields
  <2> HIDE DEF made
  <2> QED BY <1>3, <2>2, <2>4, <2>5 DEF Fitted, Rightful, Acceptable, made
<1> QED BY <1>1, <1>2, <1>3

LEMMA SetsFitted ==
    ASSUME NEW set, FittedSet(set), NEW name, NEW gas
    PROVE  /\ FittedSet(Repriced(set, name, gas))
           /\ Acceptable(name, gas) => FittedSet(MeteredAt(set, name, gas))
           /\ \A entries : FittedSet(entries) => FittedSet(With(set, entries))
<1>1. FittedSet(Repriced(set, name, gas))
  BY ChangedFitted DEF FittedSet, Repriced
<1>2. ASSUME Acceptable(name, gas) PROVE FittedSet(MeteredAt(set, name, gas))
  <2>1. \A op : MeteredAt(set, name, gas) = [set EXCEPT ![name] = Metered(set[name], gas)]
    BY DEF MeteredAt, Metered
  <2>2. name \in DOMAIN set => Fitted(name, Metered(set[name], gas))
    BY <1>2, ChangedFitted DEF FittedSet
  <2> QED BY <2>1, <2>2 DEF FittedSet
<1>3. \A entries : FittedSet(entries) => FittedSet(With(set, entries))
  BY DEF FittedSet, With
<1> QED BY <1>1, <1>2, <1>3

\* What the proposals of access lists and init code look for.
Equipped(set) == DOMAIN WarmGas \cup {"CREATE2"} \subseteq DOMAIN set

LEMMA GasAcceptable ==
    /\ \A gas \in SstoreGas : Acceptable("SSTORE", gas)
    /\ Acceptable("SLOAD", "gasSLoadEIP2929")
    /\ \A gas \in {"gasSelfdestructEIP2929", "gasSelfdestructEIP3529"} : Acceptable("SELFDESTRUCT", gas)
    /\ Acceptable("CREATE", "gasCreateEip3860") /\ Acceptable("CREATE2", "gasCreate2Eip3860")
    /\ Acceptable("EXP", "gasExpEIP158")
    /\ \A name \in DOMAIN WarmGas : Acceptable(name, WarmGas[name])
<1>1. \A gas \in SstoreGas : Acceptable("SSTORE", gas)
  BY GasReading DEF Acceptable, Needs, SstoreGas, ReadTwo
<1>2. /\ Acceptable("SLOAD", "gasSLoadEIP2929")
      /\ \A gas \in {"gasSelfdestructEIP2929", "gasSelfdestructEIP3529"} : Acceptable("SELFDESTRUCT", gas)
  BY GasReading DEF Acceptable, Needs, SstoreGas, ReadOne
<1>3. /\ Acceptable("CREATE", "gasCreateEip3860") /\ Acceptable("CREATE2", "gasCreate2Eip3860")
      /\ Acceptable("EXP", "gasExpEIP158")
  BY GasReading DEF Acceptable, Needs, SstoreGas, ReadTwo, ReadThree
<1>4. ASSUME NEW name \in DOMAIN WarmGas PROVE Acceptable(name, WarmGas[name])
  <2>1. CASE name \in {"EXTCODESIZE", "EXTCODEHASH", "BALANCE"}
    BY <2>1, GasReading DEF WarmGas, Acceptable, Needs, SstoreGas, ReadOne
  <2>2. CASE name \in {"CALL", "CALLCODE"}
    BY <2>2, GasReading DEF WarmGas, Acceptable, Needs, SstoreGas, ReadThree
  <2>3. CASE name \in {"STATICCALL", "DELEGATECALL"}
    BY <2>3, GasReading DEF WarmGas, Acceptable, Needs, SstoreGas, ReadTwo
  <2>4. CASE name = "EXTCODECOPY"
    BY <2>4, GasReading DEF WarmGas, Acceptable, Needs, SstoreGas, ReadFour
  <2> QED BY <2>1, <2>2, <2>3, <2>4 DEF WarmGas
<1> QED BY <1>1, <1>2, <1>3, <1>4

\* A set of new entries.
LEMMA AdditionsFitted ==
    ASSUME NEW set, FittedSet(set)
    PROVE  /\ FittedSet(enable1344(set)) /\ FittedSet(enable3198(set)) /\ FittedSet(enable1153(set))
           /\ FittedSet(enable3855(set)) /\ FittedSet(enable4844(set)) /\ FittedSet(enable7516(set))
           /\ FittedSet(enable5656(set)) /\ FittedSet(enable6780(set))
<1>1. /\ Fitted("CHAINID", Op("opChainID", "GasQuickStep", 0, 1))
      /\ Fitted("BASEFEE", Op("opBaseFee", "GasQuickStep", 0, 1))
      /\ Fitted("PUSH0", Op("opPush0", "GasQuickStep", 0, 1))
      /\ Fitted("BLOBBASEFEE", Op("opBlobBaseFee", "GasQuickStep", 0, 1))
  BY PlainFitted DEF Simple, Pushers, Needs
<1>2. /\ Fitted("TLOAD", Op("opTload", "WarmStorageReadCostEIP2929", 1, 1))
      /\ Fitted("TSTORE", Op("opTstore", "WarmStorageReadCostEIP2929", 2, 0))
      /\ Fitted("BLOBHASH", Op("opBlobHash", "GasFastestStep", 1, 1))
  BY PlainFitted DEF Simple, Unary, TakingTwo, Needs
<1>3. /\ FittedSet([CHAINID |-> Op("opChainID", "GasQuickStep", 0, 1)])
      /\ FittedSet([BASEFEE |-> Op("opBaseFee", "GasQuickStep", 0, 1)])
      /\ FittedSet([PUSH0 |-> Op("opPush0", "GasQuickStep", 0, 1)])
      /\ FittedSet([BLOBBASEFEE |-> Op("opBlobBaseFee", "GasQuickStep", 0, 1)])
  BY <1>1 DEF FittedSet
<1>4. /\ FittedSet([TLOAD  |-> Op("opTload", "WarmStorageReadCostEIP2929", 1, 1),
                    TSTORE |-> Op("opTstore", "WarmStorageReadCostEIP2929", 2, 0)])
      /\ FittedSet([BLOBHASH |-> Op("opBlobHash", "GasFastestStep", 1, 1)])
  BY <1>2 DEF FittedSet
<1>5. /\ FittedSet([MCOPY |-> InMemory(Op("opMcopy", "GasFastestStep", 3, 0), "gasMcopy", "memoryMcopy")])
      /\ FittedSet([SELFDESTRUCT |-> Metered(Op("opSelfdestruct6780", "SelfdestructGasEIP150", 1, 0),
                                             "gasSelfdestructEIP3529")])
  BY SpecialFitted DEF FittedSet
<1>6. FittedSet(enable1344(set)) /\ FittedSet(enable3198(set)) /\ FittedSet(enable3855(set))
  BY <1>3, SetsFitted DEF enable1344, enable3198, enable3855
<1>7. FittedSet(enable1153(set)) /\ FittedSet(enable4844(set)) /\ FittedSet(enable7516(set))
  BY <1>3, <1>4, SetsFitted DEF enable1153, enable4844, enable7516
<1>8. FittedSet(enable5656(set)) /\ FittedSet(enable6780(set))
  BY <1>5, SetsFitted DEF enable5656, enable6780
<1> QED BY <1>6, <1>7, <1>8

\* Another gas for what the set has.  An entry it lacks is undefined, and
\* undefined it stays fit as long as it has no gas function.
LEMMA RepricingsFitted ==
    ASSUME NEW set, FittedSet(set)
    PROVE  /\ FittedSet(enable2200(set)) /\ FittedSet(enable3529(set))
           /\ RightfulSet(enable1884(set))
           /\ "EXTCODEHASH" \in DOMAIN set => FittedSet(enable1884(set))
           /\ "CREATE2" \in DOMAIN set => FittedSet(enable3860(set))
           /\ Equipped(set) => FittedSet(enable2929(set))
<1>1. FittedSet(enable2200(set))
  <2>1. enable2200(set) = MeteredAt(Repriced(set, "SLOAD", "SloadGasEIP2200"), "SSTORE", "gasSStoreEIP2200")
    BY DEF enable2200, MeteredAt
  <2>2. FittedSet(Repriced(set, "SLOAD", "SloadGasEIP2200"))
    BY SetsFitted
  <2> QED BY <2>1, <2>2, SetsFitted, GasAcceptable DEF SstoreGas
<1>2. FittedSet(enable3529(set))
  <2>1. enable3529(set)
          = MeteredAt(MeteredAt(set, "SSTORE", "gasSStoreEIP3529"), "SELFDESTRUCT", "gasSelfdestructEIP3529")
    BY DEF enable3529, MeteredAt
  <2>2. FittedSet(MeteredAt(set, "SSTORE", "gasSStoreEIP3529"))
    BY SetsFitted, GasAcceptable DEF SstoreGas
  <2> QED BY <2>1, <2>2, SetsFitted, GasAcceptable
<1>3. /\ RightfulSet(enable1884(set))
      /\ "EXTCODEHASH" \in DOMAIN set => FittedSet(enable1884(set))
  <2> DEFINE dear == Repriced(Repriced(set, "SLOAD", "SloadGasEIP1884"), "BALANCE", "BalanceGasEIP1884")
             hash == [Entry(set, "EXTCODEHASH") EXCEPT !.constantGas = "ExtcodeHashGasEIP1884"]
             self == Op("opSelfBalance", "GasFastStep", 0, 1)
             entries == [SELFBALANCE |-> self, EXTCODEHASH |-> hash]
  <2>1. FittedSet(Repriced(set, "SLOAD", "SloadGasEIP1884"))
    BY SetsFitted
  <2>2. FittedSet(dear)
    BY <2>1, SetsFitted
  <2>3. Rightful("EXTCODEHASH", Entry(set, "EXTCODEHASH"))
    BY UndefinedFitted DEF Entry, FittedSet, Fitted
  <2>4. Rightful("EXTCODEHASH", hash)
    BY <2>3, ChangedFitted
  <2>5. "EXTCODEHASH" \in DOMAIN set => Fitted("EXTCODEHASH", hash)
    BY ChangedFitted DEF Entry, FittedSet
  <2>6. Fitted("SELFBALANCE", self)
    BY PlainFitted DEF Simple, Pushers, Needs
  <2>7. enable1884(set) = With(dear, entries)
    BY DEF enable1884
  <2> HIDE DEF dear, hash, self
  <2>8. RightfulSet(entries) /\ ("EXTCODEHASH" \in DOMAIN set => FittedSet(entries))
    BY <2>4, <2>5, <2>6 DEF RightfulSet, FittedSet, Fitted
  <2> HIDE DEF entries
  <2>9. RightfulSet(With(dear, entries))
    BY <2>2, <2>8 DEF RightfulSet, FittedSet, Fitted, With
  <2> QED BY <2>2, <2>7, <2>8, <2>9, SetsFitted
<1>4. ASSUME "CREATE2" \in DOMAIN set PROVE FittedSet(enable3860(set))
  <2> DEFINE create2 == Metered(Entry(set, "CREATE2"), "gasCreate2Eip3860")
             entries == [CREATE2 |-> create2]
  <2>1. FittedSet(MeteredAt(set, "CREATE", "gasCreateEip3860"))
    BY SetsFitted, GasAcceptable
  <2>2. Fitted("CREATE2", create2)
    BY <1>4, ChangedFitted, GasAcceptable DEF Entry, FittedSet
  <2>3. enable3860(set) = With(MeteredAt(set, "CREATE", "gasCreateEip3860"), entries)
    BY DEF enable3860, MeteredAt
  <2> HIDE DEF create2
  <2>4. FittedSet(entries)
    BY <2>2 DEF FittedSet
  <2> HIDE DEF entries
  <2> QED BY <2>1, <2>3, <2>4, SetsFitted
<1>5. ASSUME Equipped(set) PROVE FittedSet(enable2929(set))
  <2> DEFINE stored == MeteredAt(MeteredAt(set, "SSTORE", "gasSStoreEIP2929"), "SLOAD", "gasSLoadEIP2929")
             freed == Repriced(stored, "SLOAD", "Free")
             dear == Repriced(freed, "SELFDESTRUCT", "SelfdestructGasEIP150")
             ofStorage == MeteredAt(dear, "SELFDESTRUCT", "gasSelfdestructEIP2929")
             warm == [name \in DOMAIN WarmGas |->
                         [Entry(set, name) EXCEPT !.constantGas = "WarmStorageReadCostEIP2929",
                                                  !.dynamicGas = WarmGas[name]]]
  <2>1. FittedSet(ofStorage)
    <3>1. FittedSet(MeteredAt(set, "SSTORE", "gasSStoreEIP2929"))
      BY SetsFitted, GasAcceptable DEF SstoreGas
    <3>2. FittedSet(stored)
      BY <3>1, SetsFitted, GasAcceptable
    <3> HIDE DEF stored
    <3>3. FittedSet(freed)
      BY <3>2, SetsFitted
    <3> HIDE DEF freed
    <3>4. FittedSet(dear)
      BY <3>3, SetsFitted
    <3> HIDE DEF dear
    <3> QED BY <3>4, SetsFitted, GasAcceptable
  <2>2. FittedSet(warm)
    <3> SUFFICES ASSUME NEW name \in DOMAIN WarmGas PROVE Fitted(name, warm[name])
      BY DEF FittedSet
    <3>1. Fitted(name, Entry(set, name))
      BY <1>5 DEF Equipped, Entry, FittedSet
    <3>2. Acceptable(name, WarmGas[name])
      BY GasAcceptable
    <3> QED BY <3>1, <3>2, ChangedFitted
  <2>3. enable2929(set) = With(ofStorage, warm)
    BY DEF enable2929, MeteredAt, Repriced
  <2> HIDE DEF ofStorage, warm
  <2> QED BY <2>1, <2>2, <2>3, SetsFitted
<1> QED BY <1>1, <1>2, <1>3, <1>4, <1>5

\* No proposal takes an entry away.
LEMMA ProposalsEquipped ==
    ASSUME NEW set, Equipped(set)
    PROVE  /\ Equipped(enable1344(set)) /\ Equipped(enable3198(set)) /\ Equipped(enable1153(set))
           /\ Equipped(enable3855(set)) /\ Equipped(enable4844(set)) /\ Equipped(enable7516(set))
           /\ Equipped(enable5656(set)) /\ Equipped(enable1884(set)) /\ Equipped(enable2200(set))
           /\ Equipped(enable3529(set)) /\ Equipped(enable3860(set)) /\ Equipped(enable2929(set))
           /\ \A entries : Equipped(With(set, entries))
<1>1. \A entries, other : DOMAIN other = DOMAIN set => DOMAIN set \subseteq DOMAIN With(other, entries)
  BY DEF With
<1> QED BY <1>1 DEF Equipped, enable1344, enable3198, enable1153, enable3855, enable4844, enable7516,
                    enable5656, enable1884, enable2200, enable3529, enable3860, enable2929, Repriced

LEMMA ConstantinopleEquipped ==
    /\ FittedSet(newHomesteadInstructionSet) /\ FittedSet(newTangerineWhistleInstructionSet)
    /\ FittedSet(newSpuriousDragonInstructionSet) /\ FittedSet(newByzantiumInstructionSet)
    /\ FittedSet(newConstantinopleInstructionSet) /\ Equipped(newConstantinopleInstructionSet)
<1> DEFINE delegate == [DELEGATECALL |-> InMemory(Op("opDelegateCall", "CallGasFrontier", 6, 1),
                                                  "gasDelegateCall", "memoryDelegateCall")]
           byzantium ==
             [STATICCALL     |-> InMemory(Op("opStaticCall", "CallGasEIP150", 6, 1),
                                          "gasStaticCall", "memoryStaticCall"),
              RETURNDATASIZE |-> Op("opReturnDataSize", "GasQuickStep", 0, 1),
              RETURNDATACOPY |-> InMemory(Op("opReturnDataCopy", "GasFastestStep", 3, 0),
                                          "gasReturnDataCopy", "memoryReturnDataCopy"),
              REVERT         |-> InMemory(Op("opRevert", "Free", 2, 0), "gasRevert", "memoryRevert")]
           constantinople ==
             [SHL |-> Op("opSHL", "GasFastestStep", 2, 1),
              SHR |-> Op("opSHR", "GasFastestStep", 2, 1),
              SAR |-> Op("opSAR", "GasFastestStep", 2, 1),
              EXTCODEHASH |-> Op("opExtCodeHash", "ExtcodeHashGasConstantinople", 1, 1),
              CREATE2 |-> InMemory(Op("opCreate2", "Create2Gas", 4, 1), "gasCreate2", "memoryCreate2")]
<1>1. /\ newHomesteadInstructionSet = With(newFrontierInstructionSet, delegate)
      /\ newByzantiumInstructionSet = With(newSpuriousDragonInstructionSet, byzantium)
      /\ newConstantinopleInstructionSet = With(newByzantiumInstructionSet, constantinople)
  BY DEF newHomesteadInstructionSet, newByzantiumInstructionSet, newConstantinopleInstructionSet
<1>2. FittedSet(delegate)
  BY SpecialFitted DEF FittedSet
<1>3. FittedSet(byzantium)
  <2>1. Fitted("RETURNDATASIZE", Op("opReturnDataSize", "GasQuickStep", 0, 1))
    BY PlainFitted DEF Simple, Pushers, Needs
  <2> QED BY <2>1, SpecialFitted DEF FittedSet
<1>4. FittedSet(constantinople)
  <2>1. /\ Fitted("SHL", Op("opSHL", "GasFastestStep", 2, 1))
        /\ Fitted("SHR", Op("opSHR", "GasFastestStep", 2, 1))
        /\ Fitted("SAR", Op("opSAR", "GasFastestStep", 2, 1))
    BY PlainFitted DEF Simple, Binary, Needs
  <2>2. Fitted("EXTCODEHASH", Op("opExtCodeHash", "ExtcodeHashGasConstantinople", 1, 1))
    <3>1. Needs["EXTCODEHASH"] <= 1 /\ "opExtCodeHash" \in Simple \cap Unary
      BY DEF Needs, Simple, Unary
    <3> QED BY <3>1, PlainFitted
  <2> QED BY <2>1, <2>2, SpecialFitted DEF FittedSet
<1>5. DOMAIN delegate = {"DELEGATECALL"} /\ "STATICCALL" \in DOMAIN byzantium
      /\ {"EXTCODEHASH", "CREATE2"} \subseteq DOMAIN constantinople
  OBVIOUS
<1> HIDE DEF delegate, byzantium, constantinople
<1>6. FittedSet(newHomesteadInstructionSet)
  BY <1>1, <1>2, FrontierFitted, SetsFitted
<1>7. FittedSet(newTangerineWhistleInstructionSet)
  BY <1>6, ChangedFitted DEF newTangerineWhistleInstructionSet, FittedSet
<1>8. FittedSet(newSpuriousDragonInstructionSet)
  <2>1. newSpuriousDragonInstructionSet = MeteredAt(newTangerineWhistleInstructionSet, "EXP", "gasExpEIP158")
    BY DEF newSpuriousDragonInstructionSet, MeteredAt
  <2> QED BY <1>7, <2>1, SetsFitted, GasAcceptable
<1>9. FittedSet(newByzantiumInstructionSet)
  BY <1>1, <1>3, <1>8, SetsFitted
<1>10. FittedSet(newConstantinopleInstructionSet)
  BY <1>1, <1>4, <1>9, SetsFitted
<1>11. {"EXTCODECOPY", "EXTCODESIZE", "BALANCE", "CALL", "CALLCODE"} \subseteq DOMAIN newFrontierInstructionSet
  <2>1. /\ {"EXTCODECOPY", "EXTCODESIZE", "BALANCE"} \subseteq DOMAIN FrontierClosure
        /\ {"CALL", "CALLCODE"} \subseteq DOMAIN FrontierCalls
    BY DEF FrontierClosure, FrontierCalls
  <2>2. /\ DOMAIN FrontierClosure \subseteq DOMAIN newFrontierInstructionSet
        /\ DOMAIN FrontierCalls \subseteq DOMAIN newFrontierInstructionSet
    BY DEF newFrontierInstructionSet, Joined
  <2> QED BY <2>1, <2>2
<1>12. /\ DOMAIN newHomesteadInstructionSet = DOMAIN newFrontierInstructionSet \cup DOMAIN delegate
       /\ DOMAIN newSpuriousDragonInstructionSet = DOMAIN newHomesteadInstructionSet
       /\ DOMAIN newByzantiumInstructionSet = DOMAIN newSpuriousDragonInstructionSet \cup DOMAIN byzantium
       /\ DOMAIN newConstantinopleInstructionSet = DOMAIN newByzantiumInstructionSet \cup DOMAIN constantinople
  BY <1>1 DEF With, newSpuriousDragonInstructionSet, newTangerineWhistleInstructionSet
<1>13. Equipped(newConstantinopleInstructionSet)
  BY <1>5, <1>11, <1>12 DEF Equipped, WarmGas
<1> QED BY <1>6, <1>7, <1>8, <1>9, <1>10, <1>13

\* The sets of the forks, and the newer of them whole.
LEMMA ForksFitted ==
    \A fork \in DOMAIN SetOf :
        /\ FittedSet(SetOf[fork])
        /\ Since(fork, "Constantinople") => Equipped(SetOf[fork])
<1> DEFINE Good(set) == FittedSet(set) /\ Equipped(set)
<1>1. \A set : Good(set) =>
            /\ Good(enable1344(set)) /\ Good(enable3198(set)) /\ Good(enable1153(set))
            /\ Good(enable3855(set)) /\ Good(enable4844(set)) /\ Good(enable7516(set))
            /\ Good(enable5656(set)) /\ Good(enable2200(set)) /\ Good(enable3529(set))
  BY AdditionsFitted, RepricingsFitted, ProposalsEquipped
<1>2. ASSUME NEW set, Good(set)
      PROVE  Good(enable1884(set)) /\ Good(enable3860(set)) /\ Good(enable2929(set))
  <2>1. "EXTCODEHASH" \in DOMAIN set /\ "CREATE2" \in DOMAIN set
    BY <1>2 DEF Equipped, WarmGas
  <2> QED BY <1>2, <2>1, RepricingsFitted, ProposalsEquipped
<1>3. ASSUME NEW set, Good(set) PROVE Good(enable6780(set))
  BY <1>3, AdditionsFitted, ProposalsEquipped DEF enable6780
<1>4. Good(newConstantinopleInstructionSet)
  BY ConstantinopleEquipped
<1> HIDE DEF Good
<1>5. Good(newIstanbulInstructionSet)
  BY <1>1, <1>2, <1>4 DEF newIstanbulInstructionSet
<1>6. Good(newBerlinInstructionSet) /\ Good(newLondonInstructionSet)
  BY <1>1, <1>2, <1>5 DEF newBerlinInstructionSet, newLondonInstructionSet
<1>7. Good(newMergeInstructionSet)
  <2> DEFINE entries == [PREVRANDAO |-> Op("opRandom", "GasQuickStep", 0, 1)]
  <2>1. FittedSet(entries)
    <3>1. Fitted("PREVRANDAO", Op("opRandom", "GasQuickStep", 0, 1))
      BY PlainFitted DEF Simple, Pushers, Needs
    <3> QED BY <3>1 DEF FittedSet
  <2>2. newMergeInstructionSet = With(newLondonInstructionSet, entries)
    BY DEF newMergeInstructionSet
  <2> HIDE DEF entries
  <2> QED BY <1>6, <2>1, <2>2, SetsFitted, ProposalsEquipped DEF Good
<1>8. Good(newShanghaiInstructionSet)
  BY <1>1, <1>2, <1>7 DEF newShanghaiInstructionSet
<1>9. Good(newCancunInstructionSet)
  BY <1>1, <1>3, <1>8 DEF newCancunInstructionSet
<1>10. \A fork \in {"Frontier", "Homestead", "TangerineWhistle", "SpuriousDragon", "Byzantium"} :
            ~Since(fork, "Constantinople")
  BY DEF Since, Forks
<1> QED BY <1>4, <1>5, <1>6, <1>7, <1>8, <1>9, <1>10, FrontierFitted, ConstantinopleEquipped DEF SetOf, Good

----------------------------------------------------------------------------
(* The table in use fits                                                   *)

\* The proposals that take a gas function for an entry only later chains have
\* are enabled on those chains.
Founded(c) == c.eip \in {2929, 3860} => Since(c.fork, "Constantinople")

LEMMA EnabledRightful ==
    ASSUME NEW fork \in DOMAIN SetOf, NEW eip, eip \in {2929, 3860} => Since(fork, "Constantinople")
    PROVE  RightfulSet(EnableEIP(eip, SetOf[fork]))
<1> DEFINE set == SetOf[fork]
<1>1. FittedSet(set) /\ (Since(fork, "Constantinople") => Equipped(set))
  BY ForksFitted
<1> HIDE DEF set
<1>2. \A other : FittedSet(other) => RightfulSet(other)
  BY DEF FittedSet, RightfulSet, Fitted
<1>3. "CREATE2" \in DOMAIN set \/ ~Equipped(set)
  BY DEF Equipped
<1>4. RightfulSet(EnableEIP(eip, set))
  <2>1. CASE eip \in {5656, 6780, 3855, 3198, 1344, 1153}
    BY <1>1, <1>2, <2>1, AdditionsFitted DEF EnableEIP
  <2>2. CASE eip \in {3529, 2200, 1884}
    BY <1>1, <1>2, <2>2, RepricingsFitted DEF EnableEIP
  <2>3. CASE eip \in {2929, 3860}
    BY <1>1, <1>2, <1>3, <2>3, RepricingsFitted DEF EnableEIP
  <2>4. CASE eip \notin {5656, 6780, 3855, 3860, 3529, 3198, 2929, 2200, 1884, 1344, 1153}
    BY <1>1, <1>2, <2>4 DEF EnableEIP
  <2> QED BY <2>1, <2>2, <2>3, <2>4
<1> QED BY <1>4 DEF set

LEMMA TablesRightful ==
    ASSUME NEW s \in Sessions, Founded(s.config), NEW b \in Bytes
    PROVE  \E name : Rightful(name, Tables[s.config][b])
<1> DEFINE set == EnableEIP(s.config.eip, SetOf[s.config.fork])
<1>1. RightfulSet(set)
  BY SessionsAssumption, EnabledRightful DEF Founded
<1>2. Tables[s.config] = ByByte(set)
  BY DEF Tables, Configs
<1> HIDE DEF set
<1>3. CASE \E name \in DOMAIN set : OpCode[name] = b
  <2> DEFINE at == CHOOSE name \in DOMAIN set : OpCode[name] = b
  <2>1. at \in DOMAIN set
    BY <1>3
  <2>2. ByByte(set)[b] = set[at]
    BY <1>3 DEF ByByte
  <2> HIDE DEF at
  <2> QED BY <1>1, <1>2, <2>1, <2>2 DEF RightfulSet
<1>4. CASE ~\E name \in DOMAIN set : OpCode[name] = b
  <2>1. ByByte(set)[b] = Undefined
    BY <1>4 DEF ByByte
  <2>2. Rightful("STOP", Undefined)
    BY UndefinedFitted
  <2> QED BY <1>2, <2>1, <2>2
<1> QED BY <1>3, <1>4

\* Every entry of the table the interpreter has for its session, of any fork
\* and any extra proposal the fork is ready for, declares for the stack and the
\* memory exactly what its functions need.
THEOREM TablesFit == Spec => [](Founded(session.config) => TableFits)
<1>1. Init => MeterInv
  BY MeterInit
<1>2. MeterInv /\ [Next]_vars => MeterInv'
  BY MeterNext
<1>3. MeterInv => (Founded(session.config) => TableFits)
  <2> SUFFICES ASSUME session \in Sessions, Founded(session.config)
               PROVE  TableFits
    BY DEF MeterInv
  <2>1. \A b \in Bytes : Fits(Tables[session.config][b]) /\ Tight(Tables[session.config][b])
    BY TablesRightful DEF Rightful, Fit
  <2>2. session.config \in Configs
    BY DEF Configs
  <2> QED BY <2>1, <2>2 DEF TableFits, Fitting
<1> QED BY <1>1, <1>2, <1>3, PTL DEF Spec

----------------------------------------------------------------------------
(* No fault: the gas functions of storage and of calls                     *)

\* The set has for the mnemonic, if anything, a gas function that the other has.
Spares(made, set, name) ==
    name \in DOMAIN made => name \in DOMAIN set /\ made[name].dynamicGas = set[name].dynamicGas

Watched == DOMAIN CallOf \cup {"SSTORE"}

LEMMA SparesParts ==
    ASSUME NEW set, NEW name
    PROVE  /\ \A entries : name \notin DOMAIN entries => Spares(With(set, entries), set, name)
           /\ \A other, gas : name # other => Spares(MeteredAt(set, other, gas), set, name)
           /\ FittedSet(set) => \A other, gas : Spares(Repriced(set, other, gas), set, name)
           /\ \A made, middle : Spares(made, middle, name) /\ Spares(middle, set, name)
                                => Spares(made, set, name)
<1>1. \A entries : name \notin DOMAIN entries => Spares(With(set, entries), set, name)
  BY DEF Spares, With
<1>2. \A other, gas : name # other => Spares(MeteredAt(set, other, gas), set, name)
  BY DEF Spares, MeteredAt
<1>3. ASSUME FittedSet(set), NEW other, NEW gas
      PROVE  Spares(Repriced(set, other, gas), set, name)
  <2>1. name \in DOMAIN set => "dynamicGas" \in DOMAIN set[name]
    BY <1>3 DEF FittedSet, Fitted, Rightful, Fit, OpFields
  <2> QED BY <2>1 DEF Spares, Repriced
<1>4. \A made, middle : Spares(made, middle, name) /\ Spares(middle, set, name) => Spares(made, set, name)
  BY DEF Spares
<1> QED BY <1>1, <1>2, <1>3, <1>4

\* Only EIP-2929 gives a call another gas function, and only four proposals SSTORE.
LEMMA ProposalsSpare ==
    ASSUME NEW set, FittedSet(set), NEW name \in Watched
    PROVE  /\ Spares(enable1344(set), set, name) /\ Spares(enable3198(set), set, name)
           /\ Spares(enable1153(set), set, name) /\ Spares(enable3855(set), set, name)
           /\ Spares(enable4844(set), set, name) /\ Spares(enable7516(set), set, name)
           /\ Spares(enable5656(set), set, name) /\ Spares(enable6780(set), set, name)
           /\ Spares(enable1884(set), set, name) /\ Spares(enable3860(set), set, name)
           /\ name # "SSTORE" => Spares(enable2200(set), set, name) /\ Spares(enable3529(set), set, name)
<1>1. name \in {"CALL", "CALLCODE", "DELEGATECALL", "STATICCALL", "SSTORE"}
  BY DEF Watched, CallOf
<1>2. /\ Spares(enable1344(set), set, name) /\ Spares(enable3198(set), set, name)
      /\ Spares(enable1153(set), set, name) /\ Spares(enable3855(set), set, name)
  BY <1>1, SparesParts DEF enable1344, enable3198, enable1153, enable3855
<1>3. /\ Spares(enable4844(set), set, name) /\ Spares(enable7516(set), set, name)
      /\ Spares(enable5656(set), set, name) /\ Spares(enable6780(set), set, name)
  BY <1>1, SparesParts DEF enable4844, enable7516, enable5656, enable6780
<1>4. Spares(enable1884(set), set, name)
  <2> DEFINE less == Repriced(set, "SLOAD", "SloadGasEIP1884")
             dear == Repriced(less, "BALANCE", "BalanceGasEIP1884")
             entries == [SELFBALANCE |-> Op("opSelfBalance", "GasFastStep", 0, 1),
                         EXTCODEHASH |-> [Entry(set, "EXTCODEHASH") EXCEPT !.constantGas = "ExtcodeHashGasEIP1884"]]
  <2>1. FittedSet(less) /\ Spares(less, set, name)
    BY SetsFitted, SparesParts
  <2> HIDE DEF less
  <2>2. Spares(dear, less, name)
    BY <2>1, SparesParts
  <2> HIDE DEF dear
  <2>3. name \notin DOMAIN entries
    BY <1>1
  <2> HIDE DEF entries
  <2>4. Spares(With(dear, entries), dear, name)
    BY <2>3, SparesParts
  <2>5. enable1884(set) = With(dear, entries)
    BY DEF enable1884, dear, less, entries
  <2> QED BY <2>1, <2>2, <2>4, <2>5 DEF Spares
<1>5. Spares(enable3860(set), set, name)
  <2> DEFINE entries == [CREATE2 |-> Metered(Entry(set, "CREATE2"), "gasCreate2Eip3860")]
             made == MeteredAt(set, "CREATE", "gasCreateEip3860")
  <2>1. enable3860(set) = With(made, entries)
    BY DEF enable3860, MeteredAt
  <2>2. Spares(made, set, name)
    BY <1>1, SparesParts
  <2>3. name \notin DOMAIN entries
    BY <1>1
  <2> HIDE DEF entries, made
  <2>4. Spares(With(made, entries), made, name)
    BY <2>3, SparesParts
  <2> QED BY <2>1, <2>2, <2>4 DEF Spares
<1>6. ASSUME name # "SSTORE" PROVE Spares(enable2200(set), set, name) /\ Spares(enable3529(set), set, name)
  <2>1. enable2200(set) = MeteredAt(Repriced(set, "SLOAD", "SloadGasEIP2200"), "SSTORE", "gasSStoreEIP2200")
    BY DEF enable2200, MeteredAt
  <2>2. enable3529(set)
          = MeteredAt(MeteredAt(set, "SSTORE", "gasSStoreEIP3529"), "SELFDESTRUCT", "gasSelfdestructEIP3529")
    BY DEF enable3529, MeteredAt
  <2> DEFINE less == Repriced(set, "SLOAD", "SloadGasEIP2200")
             stored == MeteredAt(set, "SSTORE", "gasSStoreEIP3529")
  <2>3. Spares(less, set, name) /\ Spares(stored, set, name)
    BY <1>6, SparesParts
  <2> HIDE DEF less, stored
  <2>4. Spares(MeteredAt(less, "SSTORE", "gasSStoreEIP2200"), less, name)
    BY <1>6, SparesParts
  <2>5. Spares(MeteredAt(stored, "SELFDESTRUCT", "gasSelfdestructEIP3529"), stored, name)
    BY <1>1, SparesParts
  <2> QED BY <2>1, <2>2, <2>3, <2>4, <2>5, SparesParts DEF less, stored
<1> QED BY <1>2, <1>3, <1>4, <1>5, <1>6

\* What EIP-2929 gives them.
LEMMA WarmSpares ==
    ASSUME NEW set, FittedSet(set), NEW name \in DOMAIN CallOf
    PROVE  enable2929(set)[name].dynamicGas \in ColdCallGas
<1>1. name \in DOMAIN WarmGas /\ WarmGas[name] \in ColdCallGas
  BY DEF WarmGas, CallOf, ColdCallGas
<1>2. enable2929(set)[name]
        = [Entry(set, name) EXCEPT !.constantGas = "WarmStorageReadCostEIP2929", !.dynamicGas = WarmGas[name]]
  BY <1>1 DEF enable2929, With
<1>3. "dynamicGas" \in DOMAIN Entry(set, name)
  BY UndefinedFitted DEF Entry, FittedSet, Fitted, Rightful, Fit, OpFields
<1> QED BY <1>1, <1>2, <1>3

\* The set has one of these for the mnemonic, if anything.
Has(set, name, gases) == name \in DOMAIN set => set[name].dynamicGas \in gases

OldStorage == {"gasSStore", "gasSStoreEIP2200"}

LEMMA SparesHave ==
    ASSUME NEW made, NEW set, NEW name, NEW gases, Spares(made, set, name), Has(set, name, gases)
    PROVE  Has(made, name, gases)
  BY DEF Spares, Has

\* Before Berlin SSTORE has one of the first two gas functions.
LEMMA StorageForks ==
    ASSUME NEW fork \in DOMAIN SetOf, ~Since(fork, "Berlin")
    PROVE  Has(SetOf[fork], "SSTORE", OldStorage)
<1> DEFINE Old(set) == FittedSet(set) /\ Has(set, "SSTORE", OldStorage)
<1>1. Old(newFrontierInstructionSet)
  <2> DEFINE F == {FrontierArithmetic, FrontierComparison, FrontierClosure, FrontierBlock, FrontierStorage,
                   FrontierPush, FrontierDup, FrontierSwap, FrontierLog, FrontierCalls}
  <2>1. \A f \in F : Has(f, "SSTORE", OldStorage)
    <3>1. FrontierStorage["SSTORE"].dynamicGas = "gasSStore"
      BY DEF FrontierStorage, Op, Metered
    <3>2. "SSTORE" \notin DOMAIN FrontierPush /\ "SSTORE" \notin DOMAIN FrontierDup
          /\ "SSTORE" \notin DOMAIN FrontierSwap /\ "SSTORE" \notin DOMAIN FrontierLog
      <4>1. ~Unnamed("SSTORE")
        BY DEF Unnamed, Plain
      <4> QED BY <4>1, PushCodesFrom, DupCodesFrom, SwapCodesFrom, LogCodesFrom
              DEF FrontierPush, FrontierDup, FrontierSwap, FrontierLog, Members
    <3>3. /\ "SSTORE" \notin DOMAIN FrontierArithmetic /\ "SSTORE" \notin DOMAIN FrontierComparison
          /\ "SSTORE" \notin DOMAIN FrontierClosure /\ "SSTORE" \notin DOMAIN FrontierBlock
          /\ "SSTORE" \notin DOMAIN FrontierCalls
      BY DEF FrontierArithmetic, FrontierComparison, FrontierClosure, FrontierBlock, FrontierCalls
    <3> QED BY <3>1, <3>2, <3>3 DEF Has, OldStorage
  <2>2. newFrontierInstructionSet = Joined(F)
    BY DEF newFrontierInstructionSet
  <2> HIDE DEF F
  <2> QED BY <2>1, <2>2, JoinedMember, FrontierFitted DEF Has
<1>2. \A set, entries : Old(set) /\ FittedSet(With(set, entries)) /\ "SSTORE" \notin DOMAIN entries
                        => Old(With(set, entries))
  BY SparesParts, SparesHave
<1>3. \A fork1 \in DOMAIN SetOf : FittedSet(SetOf[fork1])
  BY ForksFitted
<1>4. Old(newHomesteadInstructionSet)
  <2>1. FittedSet(newHomesteadInstructionSet)
    BY <1>3 DEF SetOf
  <2> QED BY <1>1, <1>2, <2>1 DEF newHomesteadInstructionSet
<1>5. Old(newTangerineWhistleInstructionSet)
  <2>1. FittedSet(newTangerineWhistleInstructionSet)
    BY <1>3 DEF SetOf
  <2>2. Spares(newTangerineWhistleInstructionSet, newHomesteadInstructionSet, "SSTORE")
    BY DEF newTangerineWhistleInstructionSet, EIP150Gas, Spares
  <2> QED BY <1>4, <2>1, <2>2, SparesHave
<1>6. Old(newSpuriousDragonInstructionSet)
  <2>1. FittedSet(newSpuriousDragonInstructionSet)
    BY <1>3 DEF SetOf
  <2>2. Spares(newSpuriousDragonInstructionSet, newTangerineWhistleInstructionSet, "SSTORE")
    BY SparesParts DEF newSpuriousDragonInstructionSet, MeteredAt
  <2> QED BY <1>5, <2>1, <2>2, SparesHave
<1>7. Old(newByzantiumInstructionSet)
  <2>1. FittedSet(newByzantiumInstructionSet)
    BY <1>3 DEF SetOf
  <2> QED BY <1>2, <1>6, <2>1 DEF newByzantiumInstructionSet
<1>8. Old(newConstantinopleInstructionSet)
  <2>1. FittedSet(newConstantinopleInstructionSet)
    BY <1>3 DEF SetOf
  <2> QED BY <1>2, <1>7, <2>1 DEF newConstantinopleInstructionSet
<1>9. Has(newIstanbulInstructionSet, "SSTORE", OldStorage)
  <2> DEFINE set == enable1884(enable1344(newConstantinopleInstructionSet))
             less == Repriced(set, "SLOAD", "SloadGasEIP2200")
  <2>1. newIstanbulInstructionSet = MeteredAt(less, "SSTORE", "gasSStoreEIP2200")
    BY DEF newIstanbulInstructionSet, enable2200, MeteredAt
  <2>2. FittedSet(enable1344(newConstantinopleInstructionSet))
    BY <1>8, AdditionsFitted
  <2>3. RightfulSet(set)
    BY <2>2, RepricingsFitted
  <2> HIDE DEF set
  <2>4. "SSTORE" \in DOMAIN less => "dynamicGas" \in DOMAIN less["SSTORE"]
    BY <2>3 DEF Repriced, RightfulSet, Rightful, Fit, OpFields
  <2> HIDE DEF less
  <2> QED BY <2>1, <2>4 DEF Has, MeteredAt, OldStorage
<1>10. fork \in {"Frontier", "Homestead", "TangerineWhistle", "SpuriousDragon", "Byzantium",
                 "Constantinople", "Petersburg", "Istanbul"}
  <2>1. \A name \in {"Berlin", "London", "Merge", "Shanghai", "Cancun"} : Since(name, "Berlin")
    <3>1. \E i \in DOMAIN Forks : Forks[i] = "Berlin" /\ i = 9
      BY DEF Forks
    <3>2. \A name \in {"Berlin", "London", "Merge", "Shanghai", "Cancun"} :
             \E i \in DOMAIN Forks : Forks[i] = name /\ i >= 9
      BY DEF Forks
    <3> QED BY <3>1, <3>2 DEF Since
  <2>2. DOMAIN SetOf = {"Frontier", "Homestead", "TangerineWhistle", "SpuriousDragon", "Byzantium",
                        "Constantinople", "Petersburg", "Istanbul", "Berlin", "London", "Merge",
                        "Shanghai", "Cancun"}
    BY DEF SetOf
  <2> QED BY <2>1, <2>2
<1> HIDE DEF Old
<1>11. \A set : Old(set) => Has(set, "SSTORE", OldStorage)
  BY DEF Old
<1> QED BY <1>1, <1>4, <1>5, <1>6, <1>7, <1>8, <1>9, <1>10, <1>11 DEF SetOf

----------------------------------------------------------------------------
(* No fault: the forks and the proposals they are ready for                *)

LEMMA BerlinForks ==
    \A fork \in DOMAIN SetOf :
        Since(fork, "Berlin") <=> fork \in {"Berlin", "London", "Merge", "Shanghai", "Cancun"}
<1>1. \A name \in {"Berlin", "London", "Merge", "Shanghai", "Cancun"} : Since(name, "Berlin")
  <2>1. \E i \in DOMAIN Forks : Forks[i] = "Berlin" /\ i = 9
    BY DEF Forks
  <2>2. \A name \in {"Berlin", "London", "Merge", "Shanghai", "Cancun"} :
           \E i \in DOMAIN Forks : Forks[i] = name /\ i >= 9
    BY DEF Forks
  <2> QED BY <2>1, <2>2 DEF Since
<1>2. \A name \in {"Frontier", "Homestead", "TangerineWhistle", "SpuriousDragon", "Byzantium",
                   "Constantinople", "Petersburg", "Istanbul"} : ~Since(name, "Berlin")
  BY DEF Since, Forks
<1>3. DOMAIN SetOf = {"Frontier", "Homestead", "TangerineWhistle", "SpuriousDragon", "Byzantium",
                      "Constantinople", "Petersburg", "Istanbul", "Berlin", "London", "Merge",
                      "Shanghai", "Cancun"}
  BY DEF SetOf
<1> QED BY <1>1, <1>2, <1>3

\* From Berlin on a call has one of the gas functions that make its account warm.
LEMMA CallForks ==
    ASSUME NEW fork \in DOMAIN SetOf, Since(fork, "Berlin"), NEW name \in DOMAIN CallOf
    PROVE  Has(SetOf[fork], name, ColdCallGas)
<1> DEFINE Good(set) == FittedSet(set) /\ Has(set, name, ColdCallGas)
<1>1. name \in Watched /\ name # "SSTORE"
  BY DEF Watched, CallOf
<1>2. /\ FittedSet(newIstanbulInstructionSet) /\ FittedSet(newBerlinInstructionSet)
      /\ FittedSet(newLondonInstructionSet) /\ FittedSet(newMergeInstructionSet)
      /\ FittedSet(newShanghaiInstructionSet) /\ FittedSet(newCancunInstructionSet)
  BY ForksFitted DEF SetOf
<1>3. Good(newBerlinInstructionSet)
  BY <1>2, WarmSpares DEF newBerlinInstructionSet, Has
<1>4. Good(newLondonInstructionSet)
  <2> DEFINE middle == enable3529(newBerlinInstructionSet)
  <2>1. FittedSet(middle)
    BY <1>2, RepricingsFitted
  <2>2. Spares(middle, newBerlinInstructionSet, name)
    BY <1>1, <1>2, ProposalsSpare
  <2> HIDE DEF middle
  <2>3. Spares(enable3198(middle), middle, name)
    BY <1>1, <2>1, ProposalsSpare
  <2>4. newLondonInstructionSet = enable3198(middle)
    BY DEF newLondonInstructionSet, middle
  <2> QED BY <1>2, <1>3, <2>2, <2>3, <2>4, SparesHave
<1>5. Good(newMergeInstructionSet)
  <2>1. Spares(newMergeInstructionSet, newLondonInstructionSet, name)
    BY <1>1, SparesParts DEF newMergeInstructionSet, Watched, CallOf
  <2> QED BY <1>2, <1>4, <2>1, SparesHave
<1>6. Good(newShanghaiInstructionSet)
  <2> DEFINE middle == enable3855(newMergeInstructionSet)
  <2>1. FittedSet(middle)
    BY <1>2, AdditionsFitted
  <2>2. Spares(middle, newMergeInstructionSet, name)
    BY <1>1, <1>2, ProposalsSpare
  <2> HIDE DEF middle
  <2>3. Spares(enable3860(middle), middle, name)
    BY <1>1, <2>1, ProposalsSpare
  <2>4. newShanghaiInstructionSet = enable3860(middle)
    BY DEF newShanghaiInstructionSet, middle
  <2> QED BY <1>2, <1>5, <2>2, <2>3, <2>4, SparesHave
<1>7. Good(newCancunInstructionSet)
  <2>1. \A set : Good(set) =>
           /\ Good(enable4844(set)) /\ Good(enable7516(set)) /\ Good(enable1153(set))
           /\ Good(enable5656(set)) /\ Good(enable6780(set))
    <3> SUFFICES ASSUME NEW set, Good(set)
                 PROVE  /\ Good(enable4844(set)) /\ Good(enable7516(set)) /\ Good(enable1153(set))
                        /\ Good(enable5656(set)) /\ Good(enable6780(set))
      BY Zenon
    <3>1. /\ Spares(enable4844(set), set, name) /\ Spares(enable7516(set), set, name)
          /\ Spares(enable1153(set), set, name) /\ Spares(enable5656(set), set, name)
          /\ Spares(enable6780(set), set, name)
      BY <1>1, ProposalsSpare
    <3>2. /\ FittedSet(enable4844(set)) /\ FittedSet(enable7516(set)) /\ FittedSet(enable1153(set))
          /\ FittedSet(enable5656(set)) /\ FittedSet(enable6780(set))
      BY AdditionsFitted
    <3> QED BY <3>1, <3>2, SparesHave
  <2> HIDE DEF Good
  <2> QED BY <1>6, <2>1 DEF newCancunInstructionSet
<1> HIDE DEF Good
<1>8. \A set : Good(set) => Has(set, name, ColdCallGas)
  BY DEF Good
<1> QED BY <1>3, <1>4, <1>5, <1>6, <1>7, <1>8, BerlinForks DEF SetOf

\* A table is founded on its chain: Berlin is what makes an account warm before it
\* is used, and only then do the gas functions of EIP-2929 go with a chain.
Lawful(c) ==
    /\ c.eip \in {2929, 3529} => Since(c.fork, "Berlin")
    /\ c.eip = 3860 => Since(c.fork, "Constantinople")

LEMMA LawfulFounded ==
    ASSUME NEW c, c.fork \in DOMAIN SetOf, Lawful(c)
    PROVE  Founded(c)
<1>1. Since(c.fork, "Berlin") => Since(c.fork, "Constantinople")
  <2> SUFFICES ASSUME Since(c.fork, "Berlin") PROVE Since(c.fork, "Constantinople")
    OBVIOUS
  <2>1. PICK i \in DOMAIN Forks, j \in DOMAIN Forks : i >= j /\ Forks[i] = c.fork /\ Forks[j] = "Berlin"
    BY DEF Since
  <2>2. j = 9 /\ Forks[6] = "Constantinople" /\ 6 \in DOMAIN Forks /\ i \in Nat
    BY <2>1 DEF Forks
  <2>3. i >= 6
    BY <2>1, <2>2
  <2> QED BY <2>1, <2>2, <2>3 DEF Since
<1> QED BY <1>1 DEF Lawful, Founded

\* The proposals a host may turn on leave it so.
LEMMA EnabledStorage ==
    ASSUME NEW fork \in DOMAIN SetOf, ~Since(fork, "Berlin"), NEW eip, eip \notin {2929, 3529}
    PROVE  Has(EnableEIP(eip, SetOf[fork]), "SSTORE", OldStorage)
<1> DEFINE set == SetOf[fork]
<1>1. FittedSet(set) /\ Has(set, "SSTORE", OldStorage) /\ "SSTORE" \in Watched
  BY ForksFitted, StorageForks DEF Watched
<1> HIDE DEF set
<1>2. CASE eip \in {5656, 6780, 3855, 3198, 1344, 1153, 1884, 3860}
  <2>1. Spares(EnableEIP(eip, set), set, "SSTORE")
    BY <1>1, <1>2, ProposalsSpare DEF EnableEIP
  <2> QED BY <1>1, <2>1, SparesHave DEF set
<1>3. CASE eip = 2200
  <2> DEFINE less == Repriced(set, "SLOAD", "SloadGasEIP2200")
  <2>1. EnableEIP(eip, set) = MeteredAt(less, "SSTORE", "gasSStoreEIP2200")
    BY <1>3 DEF EnableEIP, enable2200, MeteredAt
  <2>2. FittedSet(less)
    BY <1>1, SetsFitted
  <2> HIDE DEF less
  <2>3. "SSTORE" \in DOMAIN less => "dynamicGas" \in DOMAIN less["SSTORE"]
    BY <2>2 DEF FittedSet, Fitted, Rightful, Fit, OpFields
  <2> QED BY <2>1, <2>3 DEF Has, MeteredAt, OldStorage, set
<1>4. CASE eip \notin Activators
  BY <1>1, <1>4 DEF EnableEIP, Activators, set
<1> QED BY <1>2, <1>3, <1>4 DEF Activators

LEMMA EnabledCalls ==
    ASSUME NEW fork \in DOMAIN SetOf, Since(fork, "Berlin"), NEW eip, NEW name \in DOMAIN CallOf
    PROVE  Has(EnableEIP(eip, SetOf[fork]), name, ColdCallGas)
<1> DEFINE set == SetOf[fork]
<1>1. FittedSet(set) /\ Has(set, name, ColdCallGas) /\ name \in Watched /\ name # "SSTORE"
  BY ForksFitted, CallForks DEF Watched, CallOf
<1> HIDE DEF set
<1>2. CASE eip \in {5656, 6780, 3855, 3198, 1344, 1153, 1884, 3860, 2200, 3529}
  <2>1. Spares(EnableEIP(eip, set), set, name)
    BY <1>1, <1>2, ProposalsSpare DEF EnableEIP
  <2> QED BY <1>1, <2>1, SparesHave DEF set
<1>3. CASE eip = 2929
  BY <1>1, <1>3, WarmSpares DEF EnableEIP, Has, set
<1>4. CASE eip \notin Activators
  BY <1>1, <1>4 DEF EnableEIP, Activators, set
<1> QED BY <1>2, <1>3, <1>4 DEF Activators

----------------------------------------------------------------------------
(* No fault: the entry an instruction finds                                *)

\* The gas function of SSTORE on a chain, if it has one.
StorageGas(c) == EnableEIP(c.eip, SetOf[c.fork])["SSTORE"].dynamicGas

\* What execute and the gas function of an entry may be.
Secured(c, op) ==
    /\ Fit(op) /\ Priced(op)
    /\ op.execute = "opSstore" <=> op.dynamicGas \in SstoreGas
    /\ op.dynamicGas \in SstoreGas => op.dynamicGas = StorageGas(c)
    /\ op.dynamicGas \in SstoreGas \ OldStorage => Since(c.fork, "Berlin")
    /\ op.execute \in CallFunctions /\ Since(c.fork, "Berlin") => op.dynamicGas \in ColdCallGas

LEMMA TableGuarded ==
    ASSUME NEW s \in Sessions, Lawful(s.config), NEW b \in Bytes
    PROVE  Secured(s.config, Tables[s.config][b])
<1> DEFINE c == s.config
           set == EnableEIP(c.eip, SetOf[c.fork])
           op == Tables[c][b]
<1>1. c.fork \in DOMAIN SetOf
  BY SessionsAssumption
<1>2. RightfulSet(set)
  BY <1>1, LawfulFounded, EnabledRightful DEF Founded
<1>3. PricedSet(set)
  BY <1>1, ForksPriced, EnabledPriced
<1>4. ~Since(c.fork, "Berlin") => Has(set, "SSTORE", OldStorage)
  BY <1>1, EnabledStorage DEF Lawful
<1>5. Since(c.fork, "Berlin") => \A name \in DOMAIN CallOf : Has(set, name, ColdCallGas)
  BY <1>1, EnabledCalls
<1>6. op = ByByte(set)[b]
  BY DEF Tables, Configs
<1>7. StorageGas(c) = set["SSTORE"].dynamicGas
  BY DEF StorageGas
<1> HIDE DEF c, set, op
<1>8. CASE \E name \in DOMAIN set : OpCode[name] = b
  <2> DEFINE at == CHOOSE name \in DOMAIN set : OpCode[name] = b
  <2>1. at \in DOMAIN set
    BY <1>8
  <2>2. op = set[at]
    BY <1>6, <1>8 DEF ByByte
  <2> HIDE DEF at
  <2>3. Rightful(at, op) /\ Entered(at, op)
    BY <1>2, <1>3, <2>1, <2>2 DEF RightfulSet, PricedSet
  <2>4. op.execute \in CallFunctions => at \in DOMAIN CallOf
    BY <2>3 DEF Entered, Named
  <2>5. op.execute \in CallFunctions /\ Since(c.fork, "Berlin") => op.dynamicGas \in ColdCallGas
    BY <1>5, <2>1, <2>2, <2>4 DEF Has
  <2>6. op.dynamicGas \in SstoreGas => at = "SSTORE" /\ op.dynamicGas = StorageGas(c)
    BY <1>7, <2>2, <2>3 DEF Rightful
  <2>7. op.dynamicGas \in SstoreGas \ OldStorage => Since(c.fork, "Berlin")
    BY <1>4, <2>1, <2>2, <2>6 DEF Has
  <2> QED BY <2>3, <2>5, <2>6, <2>7 DEF Secured, Rightful, Entered, c, op
<1>9. CASE ~\E name \in DOMAIN set : OpCode[name] = b
  <2>1. op = Undefined
    BY <1>6, <1>9 DEF ByByte
  <2>2. Rightful("STOP", Undefined) /\ Priced(Undefined)
    BY UndefinedFitted, UndefinedEntry DEF Entered
  <2>3. Undefined.execute = "opUndefined"
    BY DEF Undefined, Op
  <2>4. "opUndefined" \notin CallFunctions
    BY DEF CallFunctions
  <2> QED BY <2>1, <2>2, <2>3, <2>4 DEF Secured, Rightful, c, op
<1> QED BY <1>8, <1>9

LEMMA OperationGuarded ==
    ASSUME session \in Sessions, Lawful(session.config), Fine(Current)
    PROVE  Secured(session.config, Operation)
<1> DEFINE b == GetOp(Programs[Current.code], Current.pc)
<1>1. Programs[Current.code] \in Seq(Bytes) /\ Current.pc \in Nat
  BY ProgramsAssumption DEF Fine, Solid
<1>2. b \in Bytes
  BY <1>1, GetOpInBytes
<1>3. Operation = Tables[session.config][b]
  BY DEF Operation
<1> HIDE DEF b
<1> QED BY <1>2, <1>3, TableGuarded

----------------------------------------------------------------------------
(* No fault: the refund counter                                            *)

\* What the gas function in use gives for clearing a slot, and takes back.
ClearOf(name, fork) ==
    IF name = "gasSStore"
    THEN IF Since(fork, "Constantinople") /\ ~Since(fork, "Petersburg") THEN Price["NetSstoreClearRefund"] ELSE 0
    ELSE IF name \in {"gasSStoreEIP2200", "gasSStoreEIP2929"} THEN Price["SstoreClearsScheduleRefundEIP2200"]
    ELSE IF name = "gasSStoreEIP3529" THEN Price["SstoreClearsScheduleRefundEIP3529"]
    ELSE 0

Clear == ClearOf(StorageGas(session.config), session.config.fork)

LEMMA ClearNat == Clear \in Nat
<1>1. Price["NetSstoreClearRefund"] \in Nat /\ Price["SstoreClearsScheduleRefundEIP2200"] \in Nat
      /\ Price["SstoreClearsScheduleRefundEIP3529"] \in Nat
  BY PriceRange, TopNat DEF Prices
<1> QED BY <1>1 DEF Clear, ClearOf

\* The slots that were cleared since the transaction began, and what their refunds are.
Emptied(slot, committed) == {a \in Accounts : committed[a] # 0 /\ slot[a] = 0}
Owed(slot, committed) == Clear * Cardinality(Emptied(slot, committed))

\* The counter holds them all.
Tallied(slot, committed, refund) ==
    /\ slot \in [Accounts -> Nat] /\ committed \in [Accounts -> Nat] /\ refund \in Nat
    /\ IsFiniteSet(Emptied(slot, committed))
    /\ Owed(slot, committed) <= refund

Counted(w) == WorldFields \subseteq DOMAIN w /\ Tallied(w.slot, w.committed, w.refund)

LEMMA Multiples == \A c, n \in Nat : c * n \in Nat /\ c * (n + 1) = c * n + c
  OBVIOUS

LEMMA FewerMultiples ==
    ASSUME NEW c \in Nat, NEW m \in Nat, NEW n \in Nat, m <= n
    PROVE  c * m <= c * n
  OBVIOUS

LEMMA OwedOf ==
    ASSUME NEW slot, NEW committed, IsFiniteSet(Emptied(slot, committed))
    PROVE  Owed(slot, committed) \in Nat /\ Cardinality(Emptied(slot, committed)) \in Nat
<1>1. Cardinality(Emptied(slot, committed)) \in Nat
  BY FS_CardinalityType
<1> QED BY <1>1, ClearNat, Multiples DEF Owed

\* A write changes the tally by one refund, if at all.
LEMMA OwedAfter ==
    ASSUME NEW slot \in [Accounts -> Nat], NEW committed \in [Accounts -> Nat], NEW a \in Accounts,
           NEW value \in Nat, IsFiniteSet(Emptied(slot, committed)), NEW after,
           after = [slot EXCEPT ![a] = value]
    PROVE  /\ after \in [Accounts -> Nat] /\ IsFiniteSet(Emptied(after, committed))
           /\ Owed(after, committed) \in Nat /\ Owed(slot, committed) \in Nat
           /\ committed[a] = 0 \/ (slot[a] = 0 <=> value = 0) => Owed(after, committed) = Owed(slot, committed)
           /\ committed[a] # 0 /\ slot[a] # 0 /\ value = 0
                => Owed(after, committed) = Owed(slot, committed) + Clear
           /\ committed[a] # 0 /\ slot[a] = 0 /\ value # 0
                => Owed(slot, committed) = Owed(after, committed) + Clear
<1> DEFINE before == Emptied(slot, committed)
           now == Emptied(after, committed)
           n == Cardinality(before)
           m == Cardinality(now)
<1>1. after \in [Accounts -> Nat] /\ n \in Nat
  BY FS_CardinalityType
<1>2. CASE committed[a] = 0 \/ (slot[a] = 0 <=> value = 0)
  <2>1. now = before
    BY <1>2 DEF Emptied
  <2> QED BY <1>1, <1>2, <2>1, OwedOf DEF Owed
<1>3. CASE committed[a] # 0 /\ slot[a] # 0 /\ value = 0
  <2>1. now = before \cup {a} /\ a \notin before
    BY <1>3 DEF Emptied
  <2>2. IsFiniteSet(now) /\ m = n + 1
    <3>1. IsFiniteSet(before)
      OBVIOUS
    <3> HIDE DEF now, before
    <3>2. IsFiniteSet(before \cup {a}) /\ Cardinality(before \cup {a}) = Cardinality(before) + 1
      BY <2>1, <3>1, FS_AddElement
    <3> QED BY <2>1, <3>2
  <2>3. Clear * m = Clear * n + Clear
    BY <1>1, <2>2, ClearNat, Multiples
  <2>4. Owed(after, committed) = Clear * m /\ Owed(slot, committed) = Clear * n
    BY DEF Owed
  <2>5. Owed(after, committed) \in Nat /\ Owed(slot, committed) \in Nat
    BY <2>2, OwedOf
  <2> QED BY <1>1, <1>3, <2>2, <2>3, <2>4, <2>5
<1>4. CASE committed[a] # 0 /\ slot[a] = 0 /\ value # 0
  <2>1. now = before \ {a} /\ a \in before
    BY <1>4 DEF Emptied
  <2>2. IsFiniteSet(now) /\ m = n - 1
    BY <2>1, FS_RemoveElement
  <2>3. m \in Nat /\ n = m + 1
    <3>1. m \in Nat
      BY <2>2, FS_CardinalityType
    <3> QED BY <1>1, <2>2, <3>1
  <2>4. Clear * n = Clear * m + Clear
    BY <2>3, ClearNat, Multiples
  <2>5. Owed(after, committed) = Clear * m /\ Owed(slot, committed) = Clear * n
    BY DEF Owed
  <2>6. Owed(after, committed) \in Nat /\ Owed(slot, committed) \in Nat
    BY <2>2, OwedOf
  <2> QED BY <1>1, <1>4, <2>2, <2>4, <2>5, <2>6
<1> QED BY <1>2, <1>3, <1>4

\* A new account owes nothing.
LEMMA OwedBorn ==
    ASSUME NEW slot, NEW committed, NEW refund, Tallied(slot, committed, refund), NEW a
    PROVE  Tallied([slot EXCEPT ![a] = 0], [committed EXCEPT ![a] = 0], refund)
<1> DEFINE slot1 == [slot EXCEPT ![a] = 0]
           committed1 == [committed EXCEPT ![a] = 0]
           before == Emptied(slot, committed)
           now == Emptied(slot1, committed1)
<1>1. slot1 \in [Accounts -> Nat] /\ committed1 \in [Accounts -> Nat] /\ now \in SUBSET before
  BY DEF Tallied, Emptied
<1>2. IsFiniteSet(before) /\ Owed(slot, committed) <= refund /\ refund \in Nat
  BY DEF Tallied
<1> HIDE DEF slot1, committed1
<1>3. IsFiniteSet(now) /\ Cardinality(now) <= Cardinality(before)
  BY <1>1, <1>2, FS_Subset
<1>4. Owed(slot1, committed1) <= Owed(slot, committed)
  <2>1. Cardinality(now) \in Nat /\ Cardinality(before) \in Nat
    BY <1>2, <1>3, FS_CardinalityType
  <2> HIDE DEF now, before
  <2>2. Clear * Cardinality(now) <= Clear * Cardinality(before)
    BY <1>3, <2>1, ClearNat, FewerMultiples
  <2> QED BY <2>2 DEF Owed, now, before
<1>5. Owed(slot1, committed1) \in Nat /\ Owed(slot, committed) \in Nat
  BY <1>2, <1>3, OwedOf
<1>6. Owed(slot1, committed1) <= refund
  BY <1>2, <1>4, <1>5
<1> QED BY <1>1, <1>2, <1>3, <1>6 DEF Tallied, slot1, committed1

----------------------------------------------------------------------------
(* No fault: net metering                                                  *)

\* The prices of net metering, whose refund for a slot is the one in use.
Refunds(p) == p.clear = Clear /\ p.unset \in Nat /\ p.unreset \in Nat

\* The state after the write a quote is for.
Written(slot, self, value) == [slot EXCEPT ![self] = value]

\* The write was counted before it is made, and without a fault.
Booked(q, w, self, value) ==
    /\ QuoteFields \subseteq DOMAIN q /\ q.fault = "none" /\ WorldFields \subseteq DOMAIN q.world
    /\ q.world.slot = w.slot /\ q.world.committed = w.committed /\ w.warm \subseteq q.world.warm
    /\ Tallied(Written(w.slot, self, value), w.committed, q.world.refund)

LEMMA BookedPlain ==
    ASSUME NEW c, Counted(c.world), NEW self \in Accounts, NEW value \in Nat,
           c.world.committed[self] = 0 \/ (c.world.slot[self] = 0 <=> value = 0) \/ Clear = 0,
           NEW cost
    PROVE  Booked(Quote(c, cost), c.world, self, value)
<1> DEFINE w == c.world
           after == Written(w.slot, self, value)
<1>1. w.slot \in [Accounts -> Nat] /\ w.committed \in [Accounts -> Nat] /\ w.refund \in Nat
      /\ IsFiniteSet(Emptied(w.slot, w.committed)) /\ Owed(w.slot, w.committed) <= w.refund
      /\ WorldFields \subseteq DOMAIN w
  BY DEF Counted, Tallied
<1>2. /\ after \in [Accounts -> Nat] /\ IsFiniteSet(Emptied(after, w.committed))
      /\ Owed(after, w.committed) = Owed(w.slot, w.committed)
  <2>1. after = [w.slot EXCEPT ![self] = value]
    BY DEF Written
  <2> HIDE DEF after
  <2>2. /\ after \in [Accounts -> Nat] /\ IsFiniteSet(Emptied(after, w.committed))
        /\ Owed(after, w.committed) \in Nat /\ Owed(w.slot, w.committed) \in Nat
        /\ w.committed[self] = 0 \/ (w.slot[self] = 0 <=> value = 0)
             => Owed(after, w.committed) = Owed(w.slot, w.committed)
        /\ w.committed[self] # 0 /\ w.slot[self] # 0 /\ value = 0
             => Owed(after, w.committed) = Owed(w.slot, w.committed) + Clear
        /\ w.committed[self] # 0 /\ w.slot[self] = 0 /\ value # 0
             => Owed(w.slot, w.committed) = Owed(after, w.committed) + Clear
    BY <1>1, <2>1, OwedAfter
  <2> QED BY <2>2, ClearNat
<1>3. Tallied(after, w.committed, w.refund)
  BY <1>1, <1>2 DEF Tallied
<1>4. QuoteFields \subseteq DOMAIN Quote(c, cost) /\ Quote(c, cost).fault = "none" /\ Quote(c, cost).world = w
  BY DEF Quote, QuoteFields
<1> QED BY <1>1, <1>3, <1>4 DEF Booked

LEMMA NetMeteredBooked ==
    ASSUME NEW c, Counted(c.world), c.self \in Accounts, NEW value \in Nat, value = Back(c.operands, 1),
           NEW p, Refunds(p)
    PROVE  Booked(NetMetered(c, p), c.world, c.self, value)
<1> DEFINE w == c.world
           current == w.slot[c.self]
           original == w.committed[c.self]
           cleared == Cleared(p, original, current, value)
           taken == IF original # 0 /\ current = 0 THEN p.clear ELSE 0
           restored == IF original # value THEN 0 ELSE IF original = 0 THEN p.unset ELSE p.unreset
           after == Written(w.slot, c.self, value)
           Refunding(cost, sub, add) ==
               [Quote(c, cost) EXCEPT !.world = AddRefund(c.world, add - sub),
                                      !.fault = IF sub > c.world.refund THEN "refund" ELSE "none"]
<1>1. /\ w.slot \in [Accounts -> Nat] /\ w.committed \in [Accounts -> Nat] /\ w.refund \in Nat
      /\ IsFiniteSet(Emptied(w.slot, w.committed)) /\ Owed(w.slot, w.committed) <= w.refund
      /\ WorldFields \subseteq DOMAIN w
      /\ current \in Nat /\ original \in Nat
  BY DEF Counted, Tallied
<1>2. /\ after \in [Accounts -> Nat] /\ IsFiniteSet(Emptied(after, w.committed))
      /\ Owed(after, w.committed) \in Nat /\ Owed(w.slot, w.committed) \in Nat
      /\ original = 0 \/ (current = 0 <=> value = 0)
           => Owed(after, w.committed) = Owed(w.slot, w.committed)
      /\ original # 0 /\ current # 0 /\ value = 0
           => Owed(after, w.committed) = Owed(w.slot, w.committed) + Clear
      /\ original # 0 /\ current = 0 /\ value # 0
           => Owed(w.slot, w.committed) = Owed(after, w.committed) + Clear
  BY <1>1, OwedAfter DEF Written
<1>3. ASSUME NEW cost, NEW sub \in Nat, NEW add \in Nat, sub <= w.refund,
             Owed(after, w.committed) <= w.refund + (add - sub)
      PROVE  Booked(Refunding(cost, sub, add), w, c.self, value)
  <2> DEFINE q == Refunding(cost, sub, add)
             refund1 == w.refund + (add - sub)
  <2>1. refund1 \in Nat /\ ~(sub > w.refund)
    BY <1>1, <1>3
  <2>2. QuoteFields \subseteq DOMAIN q /\ q.fault = "none" /\ q.world = AddRefund(w, add - sub)
    BY <2>1 DEF Quote, QuoteFields
  <2> HIDE DEF q
  <2>3. /\ WorldFields \subseteq DOMAIN q.world /\ q.world.slot = w.slot
        /\ q.world.committed = w.committed /\ q.world.warm = w.warm /\ q.world.refund = refund1
    BY <1>1, <2>2 DEF AddRefund, WorldFields
  <2> HIDE DEF refund1, after
  <2>4. Tallied(after, w.committed, refund1)
    BY <1>1, <1>2, <1>3, <2>1 DEF Tallied, refund1
  <2> QED BY <2>2, <2>3, <2>4 DEF Booked, after, q
<1>4. Clear \in Nat /\ p.clear = Clear /\ p.unset \in Nat /\ p.unreset \in Nat
  BY ClearNat DEF Refunds
<1>5. cleared = IF original # 0 /\ current # 0 /\ value = 0 THEN Clear ELSE 0
  BY <1>4 DEF Cleared
<1>6. CASE current = value \/ (original = current /\ original = 0)
  <2>1. original = 0 \/ (current = 0 <=> value = 0) \/ Clear = 0
    BY <1>6
  <2>2. \A cost : Booked(Quote(c, cost), w, c.self, value)
    BY <2>1, BookedPlain
  <2>3. NetMetered(c, p) \in {Quote(c, p.noop), Quote(c, p.set)}
    BY <1>6 DEF NetMetered
  <2> QED BY <2>2, <2>3
<1>7. CASE current # value /\ original = current /\ original # 0
  <2>1. NetMetered(c, p) = Refunding(p.reset, 0, cleared)
    BY <1>7 DEF NetMetered
  <2>2. cleared \in Nat /\ 0 <= w.refund /\ Owed(after, w.committed) <= w.refund + (cleared - 0)
    <3> HIDE DEF after, cleared
    <3> QED BY <1>1, <1>2, <1>4, <1>5, <1>7
  <2> HIDE DEF Refunding, cleared
  <2> QED BY <1>3, <2>1, <2>2
<1>8. CASE current # value /\ original # current
  <2> DEFINE add == cleared + restored
  <2>1. NetMetered(c, p) = Refunding(p.dirty, taken, add)
    BY <1>8, Zenon DEF NetMetered
  <2>2. restored \in Nat /\ cleared \in Nat
    BY <1>4, <1>5
  <2>3. taken = IF original # 0 /\ current = 0 THEN Clear ELSE 0
    BY <1>4
  <2>4. /\ add \in Nat /\ taken \in Nat /\ taken <= w.refund
        /\ Owed(after, w.committed) <= w.refund + (add - taken)
    <3> HIDE DEF after, cleared, restored, taken
    <3>1. add \in Nat /\ cleared <= add
      BY <2>2
    <3>2. CASE original # 0 /\ current = 0
      <4>1. taken = Clear /\ Owed(w.slot, w.committed) = Owed(after, w.committed) + Clear
        BY <1>2, <1>8, <2>3, <3>2
      <4> HIDE DEF add
      <4> QED BY <1>1, <1>2, <1>4, <3>1, <4>1
    <3>3. CASE original # 0 /\ current # 0 /\ value = 0
      <4>1. taken = 0 /\ cleared = Clear /\ Owed(after, w.committed) = Owed(w.slot, w.committed) + Clear
        BY <1>2, <1>5, <2>3, <3>3
      <4> HIDE DEF add
      <4> QED BY <1>1, <1>2, <1>4, <3>1, <4>1
    <3>4. CASE original = 0 \/ (current # 0 /\ value # 0)
      <4>1. taken = 0 /\ Owed(after, w.committed) = Owed(w.slot, w.committed)
        BY <1>2, <2>3, <3>4
      <4> HIDE DEF add
      <4> QED BY <1>1, <1>2, <3>1, <4>1
    <3> QED BY <3>2, <3>3, <3>4
  <2> HIDE DEF Refunding, add, taken
  <2> QED BY <1>3, <2>1, <2>4
<1> QED BY <1>6, <1>7, <1>8

\* What a gas function of SSTORE is asked.
Storing(c, name, value) ==
    /\ Counted(c.world) /\ ContextFields \subseteq DOMAIN c /\ c.self \in Accounts
    /\ value \in Nat /\ value = Back(c.operands, 1) /\ c.fork = session.config.fork
    /\ name = StorageGas(session.config)
    /\ name \notin OldStorage => c.self \in c.world.warm

BookedIfPaid(q, c, value) ==
    q.fault = "none" /\ (q.cost # Refused => Booked(q, c.world, c.self, value))

LEMMA FirstStorageBooked ==
    ASSUME NEW c, NEW value, Storing(c, "gasSStore", value)
    PROVE  BookedIfPaid(gasSStore(c), c, value)
<1> DEFINE w == c.world
           current == w.slot[c.self]
<1>1. CASE Since(c.fork, "Constantinople") /\ ~Since(c.fork, "Petersburg")
  <2>1. gasSStore(c) = NetMetered(c, NetSstore)
    BY <1>1 DEF gasSStore
  <2>2. Refunds(NetSstore)
    <3>1. Price["NetSstoreResetClearRefund"] \in Nat /\ Price["NetSstoreResetRefund"] \in Nat
      BY PriceRange, TopNat DEF Prices
    <3>2. Clear = Price["NetSstoreClearRefund"]
      BY <1>1 DEF Clear, ClearOf, Storing
    <3> QED BY <3>1, <3>2 DEF Refunds, NetSstore
  <2>3. Booked(gasSStore(c), w, c.self, value)
    BY <2>1, <2>2, NetMeteredBooked DEF Storing
  <2> QED BY <2>3 DEF BookedIfPaid, Booked
<1>2. CASE ~(Since(c.fork, "Constantinople") /\ ~Since(c.fork, "Petersburg"))
  <2>1. Clear = 0
    BY <1>2 DEF Clear, ClearOf, Storing
  <2>2. \A cost : Booked(Quote(c, cost), w, c.self, value)
    BY <2>1, BookedPlain DEF Storing
  <2> DEFINE plain == Quote(c, Price["SstoreClearGas"])
             more == AddRefund(w, Price["SstoreRefundGas"])
             paid == [plain EXCEPT !.world = more]
  <2>3. Booked(paid, w, c.self, value)
    <3>1. Booked(plain, w, c.self, value) /\ plain.world = w
      BY <2>2 DEF Quote
    <3>2. QuoteFields \subseteq DOMAIN paid /\ paid.fault = "none" /\ paid.world = more
      BY DEF Quote, QuoteFields
    <3> HIDE DEF plain, paid
    <3>3. /\ WorldFields \subseteq DOMAIN w /\ w.refund \in Nat
          /\ Tallied(Written(w.slot, c.self, value), w.committed, w.refund)
      BY <3>1 DEF Booked, Tallied
    <3>4. /\ WorldFields \subseteq DOMAIN more /\ more.slot = w.slot /\ more.committed = w.committed
          /\ more.warm = w.warm /\ more.refund = w.refund + Price["SstoreRefundGas"]
      BY <3>3 DEF AddRefund, WorldFields
    <3>5. Price["SstoreRefundGas"] \in Nat
      BY PriceRange, TopNat DEF Prices
    <3> HIDE DEF more
    <3>6. more.refund \in Nat /\ w.refund <= more.refund
      BY <3>3, <3>4, <3>5
    <3>7. Owed(Written(w.slot, c.self, value), w.committed) \in Nat
      BY <3>3, OwedOf DEF Tallied
    <3>8. Tallied(Written(w.slot, c.self, value), w.committed, more.refund)
      BY <3>3, <3>6, <3>7 DEF Tallied
    <3> QED BY <3>2, <3>4, <3>8 DEF Booked
  <2>4. gasSStore(c) \in {Quote(c, Price["SstoreSetGas"]), paid, Quote(c, Price["SstoreResetGas"])}
    <3>1. plain.world = w
      BY DEF Quote
    <3> QED BY <1>2, <3>1 DEF gasSStore
  <2> HIDE DEF paid
  <2>5. Booked(gasSStore(c), w, c.self, value)
    BY <2>2, <2>3, <2>4
  <2> QED BY <2>5 DEF BookedIfPaid, Booked
<1> QED BY <1>1, <1>2

LEMMA RefusedBooked ==
    ASSUME NEW c, NEW value
    PROVE  BookedIfPaid(Quote(c, Refused), c, value)
  BY DEF BookedIfPaid, Quote

LEMMA SecondStorageBooked ==
    ASSUME NEW c, NEW value, Storing(c, "gasSStoreEIP2200", value)
    PROVE  BookedIfPaid(gasSStoreEIP2200(c), c, value)
<1>1. Refunds(EIP2200Sstore)
  <2>1. Clear = Price["SstoreClearsScheduleRefundEIP2200"]
    BY DEF Clear, ClearOf, Storing
  <2>2. /\ Price["SstoreSetGasEIP2200"] - Price["SloadGasEIP2200"] \in Nat
        /\ Price["SstoreResetGasEIP2200"] - Price["SloadGasEIP2200"] \in Nat
    BY PriceAssumption, PriceRange, TopNat DEF Prices
  <2> QED BY <2>1, <2>2 DEF Refunds, EIP2200Sstore
<1>2. Booked(NetMetered(c, EIP2200Sstore), c.world, c.self, value)
  BY <1>1, NetMeteredBooked DEF Storing
<1>3. BookedIfPaid(NetMetered(c, EIP2200Sstore), c, value)
  BY <1>2 DEF BookedIfPaid, Booked
<1> QED BY <1>3, RefusedBooked DEF gasSStoreEIP2200

LEMMA ColdStorageBooked ==
    ASSUME NEW c, NEW name, name \notin OldStorage, NEW value, Storing(c, name, value),
           NEW refund, refund = Clear
    PROVE  BookedIfPaid(makeGasSStoreFunc(c, refund), c, value)
<1> DEFINE cold == c.self \notin c.world.warmSlots
           listed == IF cold THEN AddSlotToAccessList(c.world, c.self) ELSE c.world
           d == [c EXCEPT !.world = listed]
           p == EIP2929Sstore(refund)
           q == NetMetered(d, p)
           extra == IF cold THEN Price["ColdSloadCostEIP2929"] ELSE 0
           made == [q EXCEPT !.cost = @ + extra]
<1>1. /\ d.world = listed /\ d.self = c.self /\ d.operands = c.operands
  BY DEF Storing, ContextFields
<1> HIDE DEF d
<1>2. /\ WorldFields \subseteq DOMAIN listed /\ listed.slot = c.world.slot
      /\ listed.committed = c.world.committed /\ listed.refund = c.world.refund
      /\ c.world.warm \subseteq listed.warm
  BY DEF Storing, Counted, AddSlotToAccessList, WorldFields
<1> HIDE DEF listed
<1>3. Counted(d.world)
  BY <1>1, <1>2 DEF Storing, Counted
<1>4. Refunds(p)
  <2>1. /\ Price["SstoreSetGasEIP2200"] - Price["WarmStorageReadCostEIP2929"] \in Nat
        /\ (Price["SstoreResetGasEIP2200"] - Price["ColdSloadCostEIP2929"])
           - Price["WarmStorageReadCostEIP2929"] \in Nat
    BY PriceAssumption, PriceRange, TopNat DEF Prices
  <2> QED BY <2>1 DEF Refunds, EIP2929Sstore
<1> HIDE DEF p
<1>5. Booked(q, d.world, d.self, value)
  BY <1>1, <1>3, <1>4, NetMeteredBooked DEF Storing
<1> HIDE DEF q
<1>6. Booked(q, c.world, c.self, value)
  BY <1>1, <1>2, <1>5 DEF Booked
<1>7. /\ QuoteFields \subseteq DOMAIN made /\ made.fault = q.fault /\ made.world = q.world
  BY <1>6 DEF Booked, QuoteFields
<1>8. BookedIfPaid(made, c, value)
  <2> HIDE DEF made
  <2> QED BY <1>6, <1>7 DEF Booked, BookedIfPaid
<1>9. makeGasSStoreFunc(c, refund) =
        IF c.gas <= Price["SstoreSentryGasEIP2200"] THEN Quote(c, Refused)
        ELSE IF cold /\ c.self \notin c.world.warm THEN [Quote(c, Refused) EXCEPT !.fault = "canary"]
        ELSE made
  BY Zenon DEF makeGasSStoreFunc, made, q, d, listed, extra, cold, p
<1>10. c.self \in c.world.warm
  BY DEF Storing
<1> HIDE DEF made, cold
<1> QED BY <1>8, <1>9, <1>10, RefusedBooked

\* Whatever gas function SSTORE has, the write is counted before it is made.
LEMMA StorageBooked ==
    ASSUME NEW c, NEW name \in SstoreGas, NEW value, Storing(c, name, value)
    PROVE  BookedIfPaid(dynamicGas(name, c), c, value)
<1>1. CASE name = "gasSStore"
  BY <1>1, FirstStorageBooked DEF dynamicGas
<1>2. CASE name = "gasSStoreEIP2200"
  BY <1>2, SecondStorageBooked DEF dynamicGas
<1>3. CASE name = "gasSStoreEIP2929"
  <2>1. Clear = Price["SstoreClearsScheduleRefundEIP2200"] /\ name \notin OldStorage
    BY <1>3 DEF Clear, ClearOf, Storing, OldStorage
  <2> QED BY <1>3, <2>1, ColdStorageBooked DEF dynamicGas
<1>4. CASE name = "gasSStoreEIP3529"
  <2>1. Clear = Price["SstoreClearsScheduleRefundEIP3529"] /\ name \notin OldStorage
    BY <1>4 DEF Clear, ClearOf, Storing, OldStorage
  <2> QED BY <1>4, <2>1, ColdStorageBooked DEF dynamicGas
<1> QED BY <1>1, <1>2, <1>3, <1>4 DEF SstoreGas

----------------------------------------------------------------------------
(* No fault: the other gas functions                                       *)

\* A later state, with the same storage, as much refunded and as much warm.
Later(w1, w) ==
    /\ WorldFields \subseteq DOMAIN w1 /\ w1.slot = w.slot /\ w1.committed = w.committed
    /\ w.warm \subseteq w1.warm /\ w.refund \in Nat /\ w1.refund \in Nat /\ w.refund <= w1.refund

Tame(q, w) == QuoteFields \subseteq DOMAIN q /\ q.fault = "none" /\ Later(q.world, w)

LEMMA LaterSteps ==
    ASSUME NEW w, NEW w1, Later(w1, w)
    PROVE  /\ \A gas \in Nat : Later(AddRefund(w1, gas), w)
           /\ \A a : Later(AddAddressToAccessList(w1, a), w) /\ Later(AddSlotToAccessList(w1, a), w)
           /\ Later(w1, w1)
           /\ \A w2 : Later(w2, w1) => Later(w2, w)
<1>1. ASSUME NEW gas \in Nat PROVE Later(AddRefund(w1, gas), w)
  BY <1>1 DEF Later, AddRefund, WorldFields
<1>2. ASSUME NEW a PROVE Later(AddAddressToAccessList(w1, a), w) /\ Later(AddSlotToAccessList(w1, a), w)
  BY <1>2 DEF Later, AddAddressToAccessList, AddSlotToAccessList, WorldFields
<1> QED BY <1>1, <1>2 DEF Later

LEMMA LaterCounted ==
    ASSUME NEW w, Counted(w), NEW w1, Later(w1, w)
    PROVE  Counted(w1)
<1>1. Owed(w.slot, w.committed) \in Nat
  BY OwedOf DEF Counted, Tallied
<1> QED BY <1>1 DEF Counted, Later, Tallied

LEMMA QuoteTame ==
    ASSUME NEW c, NEW w, Later(c.world, w)
    PROVE  \A cost : Tame(Quote(c, cost), w)
  BY DEF Tame, Quote, QuoteFields

LEMMA PartsTame ==
    ASSUME NEW q, NEW w, Tame(q, w)
    PROVE  /\ \A cost : Tame(Plus(q, cost), w)
           /\ \A x : Tame([q EXCEPT !.fee = x], w) /\ Tame([q EXCEPT !.temp = x], w)
           /\ \A x : Tame([q EXCEPT !.cost = x], w) /\ Tame([q EXCEPT !.gas = x], w)
           /\ \A w1 : Later(w1, w) => Tame([q EXCEPT !.world = w1], w)
  BY DEF Tame, Plus, QuoteFields

LEMMA MemoryTame ==
    ASSUME NEW c, NEW w, Later(c.world, w)
    PROVE  Tame(memoryGasCost(c), w)
  BY QuoteTame, PartsTame DEF memoryGasCost

LEMMA DataTame ==
    ASSUME NEW c, NEW w, Later(c.world, w)
    PROVE  /\ \A n : Tame(memoryCopierGas(c, n), w)
           /\ Tame(gasKeccak256(c), w) /\ Tame(makeGasLog(c), w) /\ Tame(gasCreate2(c), w)
           /\ Tame(gasCreateEip3860(c), w) /\ Tame(gasCreate2Eip3860(c), w)
           /\ \A price : Tame(gasExp(c, price), w)
  BY MemoryTame, PartsTame, QuoteTame
  DEF memoryCopierGas, gasKeccak256, makeGasLog, gasCreate2, gasCreateEip3860, gasCreate2Eip3860, InitCode,
      gasExp

LEMMA SLoadTame ==
    ASSUME NEW c, NEW w, Later(c.world, w)
    PROVE  Tame(gasSLoadEIP2929(c), w)
<1> DEFINE q == Quote(c, Price["ColdSloadCostEIP2929"])
<1>1. Tame([q EXCEPT !.world = AddSlotToAccessList(@, c.self)], w)
  <2>1. Tame(q, w) /\ q.world = c.world
    BY QuoteTame DEF Quote
  <2> HIDE DEF q
  <2>2. Later(AddSlotToAccessList(q.world, c.self), w)
    BY <2>1, LaterSteps
  <2> QED BY <2>1, <2>2, PartsTame
<1> QED BY <1>1, QuoteTame DEF gasSLoadEIP2929

LEMMA AccountTame ==
    ASSUME NEW c, NEW w, Later(c.world, w)
    PROVE  Tame(gasExtCodeCopyEIP2929(c), w) /\ Tame(gasEip2929AccountCheck(c), w)
<1>1. ASSUME NEW q, Tame(q, w), NEW a
      PROVE  Tame(Accessed(c, q, a), w)
  <2>1. Tame(Plus(q, coldCost), w)
    BY <1>1, PartsTame
  <2>2. Later(AddAddressToAccessList(Plus(q, coldCost).world, a), w)
    BY <2>1, LaterSteps DEF Tame
  <2> QED BY <1>1, <2>1, <2>2, PartsTame DEF Accessed
<1> QED BY <1>1, DataTame, QuoteTame DEF gasExtCodeCopyEIP2929, gasEip2929AccountCheck

LEMMA CallTame ==
    ASSUME NEW c, NEW w, Later(c.world, w), NEW name \in CallNames
    PROVE  Tame(GasOfCall(name, c), w)
<1>1. ASSUME NEW q, Tame(q, w)
      PROVE  Tame(WithCallGas(c, q), w)
  <2>1. \A gas, x : Tame([Plus(q, gas) EXCEPT !.temp = x], w)
    BY <1>1, PartsTame
  <2> QED BY <1>1, <2>1 DEF WithCallGas
<1>2. /\ Tame(gasCall(c), w) /\ Tame(gasCallCode(c), w)
      /\ Tame(gasDelegateCall(c), w) /\ Tame(gasStaticCall(c), w)
  BY <1>1, MemoryTame, PartsTame DEF gasCall, gasCallCode, gasDelegateCall, gasStaticCall
<1> QED BY <1>2 DEF GasOfCall, CallNames

\* A cold call leaves the account it calls warm, even if it cannot be paid for.
LEMMA ColdCallTame ==
    ASSUME NEW c, NEW w, Later(c.world, w), ContextFields \subseteq DOMAIN c, NEW name \in CallNames
    PROVE  /\ Tame(makeCallVariantGasCallEIP2929(c, name), w)
           /\ Back(c.operands, 1) \in makeCallVariantGasCallEIP2929(c, name).world.warm
<1> DEFINE to == Back(c.operands, 1)
           listed == AddAddressToAccessList(c.world, to)
           cold == [c EXCEPT !.world = AddAddressToAccessList(@, to), !.gas = @ - coldCost]
           q == GasOfCall(name, cold)
           made == [q EXCEPT !.cost = Wrap(@ + coldCost), !.gas = Wrap(@ + coldCost)]
           refused == [Quote(c, Refused) EXCEPT !.world = AddAddressToAccessList(@, to)]
<1>1. Later(listed, w) /\ Later(listed, listed)
  BY LaterSteps
<1>2. to \in listed.warm
  BY DEF Later, AddAddressToAccessList, WorldFields
<1>3. cold.world = listed
  BY DEF ContextFields
<1> HIDE DEF cold
<1>4. Tame(q, w) /\ Tame(q, listed)
  BY <1>1, <1>3, CallTame
<1>5. to \in q.world.warm
  BY <1>2, <1>4 DEF Tame, Later
<1> HIDE DEF q, to
<1>6. Tame(made, w) /\ made.world = q.world
  <2>1. \A x, y : Tame([q EXCEPT !.cost = x, !.gas = y], w)
    BY <1>4, PartsTame
  <2>2. made.world = q.world
    BY <1>4 DEF Tame, QuoteFields
  <2> QED BY <2>1, <2>2, Zenon
<1>7. Tame(refused, w) /\ refused.world = listed
  <2>1. Quote(c, Refused).world = c.world /\ Tame(Quote(c, Refused), w)
    BY QuoteTame DEF Quote
  <2> DEFINE plain == Quote(c, Refused)
  <2>2. plain.world = c.world /\ Tame(plain, w) /\ refused = [plain EXCEPT !.world = listed]
    BY <2>1
  <2> HIDE DEF plain, listed, refused
  <2>3. refused.world = listed
    BY <2>2 DEF Tame, QuoteFields
  <2> QED BY <1>1, <2>2, <2>3, PartsTame
<1>8. makeCallVariantGasCallEIP2929(c, name) =
        IF to \in c.world.warm THEN GasOfCall(name, c)
        ELSE IF c.gas < coldCost THEN refused
        ELSE IF q.cost = Refused THEN q
        ELSE made
  BY Zenon DEF makeCallVariantGasCallEIP2929, q, to, cold
<1>9. Tame(GasOfCall(name, c), w) /\ (to \in c.world.warm => to \in GasOfCall(name, c).world.warm)
  <2>1. Later(c.world, c.world)
    BY LaterSteps
  <2>2. Tame(GasOfCall(name, c), w) /\ Tame(GasOfCall(name, c), c.world)
    BY <2>1, CallTame
  <2> QED BY <2>2 DEF Tame, Later
<1> HIDE DEF made, refused, listed
<1>10. /\ Tame(makeCallVariantGasCallEIP2929(c, name), w)
       /\ to \in makeCallVariantGasCallEIP2929(c, name).world.warm
  BY <1>2, <1>4, <1>5, <1>6, <1>7, <1>8, <1>9
<1> QED BY <1>10 DEF to

LEMMA DestructTame ==
    ASSUME NEW c, NEW w, Later(c.world, w)
    PROVE  /\ Tame(gasSelfdestruct(c), w)
           /\ \A refundsEnabled \in BOOLEAN : Tame(makeSelfdestructGasFn(c, refundsEnabled), w)
<1>1. ASSUME NEW w1, Later(w1, w)
      PROVE  Later(DestructRefund(w1, c.self), w)
  <2>1. Price["SelfdestructRefundGas"] \in Nat
    BY PriceRange, TopNat DEF Prices
  <2> QED BY <1>1, <2>1, LaterSteps DEF DestructRefund
<1>2. \A cost : Tame([Quote(c, cost) EXCEPT !.world = DestructRefund(@, c.self)], w)
  BY <1>1, QuoteTame, PartsTame DEF Quote
<1>3. \A cost, a : LET listed == AddAddressToAccessList(c.world, a)
                   IN  /\ Tame([Quote(c, cost) EXCEPT !.world = DestructRefund(listed, c.self)], w)
                       /\ Tame([Quote(c, cost) EXCEPT !.world = listed], w)
  <2> SUFFICES ASSUME NEW cost, NEW a, NEW listed, listed = AddAddressToAccessList(c.world, a)
               PROVE  /\ Tame([Quote(c, cost) EXCEPT !.world = DestructRefund(listed, c.self)], w)
                      /\ Tame([Quote(c, cost) EXCEPT !.world = listed], w)
    OBVIOUS
  <2>1. Later(listed, w)
    BY LaterSteps
  <2>2. Later(DestructRefund(listed, c.self), w) /\ Tame(Quote(c, cost), w)
    BY <1>1, <2>1, QuoteTame
  <2> QED BY <2>1, <2>2, PartsTame
<1> QED BY <1>2, <1>3 DEF gasSelfdestruct, makeSelfdestructGasFn

\* Whatever function an operation names, but those of SSTORE.
LEMMA GasTame ==
    ASSUME NEW c, NEW w, Later(c.world, w), ContextFields \subseteq DOMAIN c, NEW name, name \notin SstoreGas
    PROVE  /\ Tame(dynamicGas(name, c), w)
           /\ name \in ColdCallGas => Back(c.operands, 1) \in dynamicGas(name, c).world.warm
<1>1. CASE name \in ColdCallGas
  BY <1>1, ColdCallTame DEF dynamicGas, CallNames, ColdCallGas
<1>2. CASE name \notin ColdCallGas
  <2>1. Tame(dynamicGas(name, c), w)
    BY <1>2, MemoryTame, DataTame, SLoadTame, AccountTame, CallTame, DestructTame, QuoteTame
    DEF dynamicGas, CallNames, ColdCallGas, SstoreGas
  <2> QED BY <1>2, <2>1
<1> QED BY <1>1, <1>2

----------------------------------------------------------------------------
(* No fault: the frames and the state they would go back to                *)

\* From Berlin on, an account that runs is warm.
Warm(a, w) == IsRule("Berlin") => a \in w.warm

\* A frame of an account, with a stack and a state whose refunds are counted.
Kin(f) ==
    /\ FrameFields \subseteq DOMAIN f /\ ~Lite(f)
    /\ f.self \in Accounts /\ f.height \in Int /\ Counted(f.saved)

\* Every account that runs is warm, now and wherever a frame above it goes back to.
Guard(fs, w) ==
    /\ IsStack(fs) /\ Counted(w)
    /\ \A i \in 1..Len(fs) : Kin(fs[i]) /\ Warm(fs[i].self, w)
    /\ \A i, j \in 1..Len(fs) : i < j => Warm(fs[i].self, fs[j].saved)

\* Where a step of a transaction ends.
Secure == Guard(frames', world') /\ fault' = "none"

\* A state that counts its refunds, with as much warm.
Onward(w1, w) == Counted(w1) /\ w.warm \subseteq w1.warm

LEMMA GuardEmpty ==
    ASSUME NEW w, Counted(w)
    PROVE  Guard(<<>>, w)
<1>1. IsStack(<<>>) /\ Len(<<>>) = 0
  <2>1. <<>> \in Seq({})
    OBVIOUS
  <2> QED BY <2>1 DEF IsStack
<1> QED BY <1>1 DEF Guard

LEMMA GuardAppend ==
    ASSUME NEW b, NEW w, Guard(b, w), NEW f, Kin(f), Guard(b, f.saved), Warm(f.self, w)
    PROVE  Guard(Append(b, f), w)
<1> DEFINE fs == Append(b, f)
<1>1. /\ IsStack(fs) /\ Len(b) \in Nat /\ Len(fs) = Len(b) + 1 /\ fs[Len(b) + 1] = f
      /\ \A i \in 1..Len(b) : fs[i] = b[i]
  BY AppendStack DEF Guard
<1> HIDE DEF fs
<1>2. \A i \in 1..Len(fs) : i \in 1..Len(b) \/ i = Len(b) + 1
  BY <1>1
<1>3. \A i \in 1..Len(fs) : Kin(fs[i]) /\ Warm(fs[i].self, w)
  BY <1>1, <1>2 DEF Guard
<1>4. \A i, j \in 1..Len(fs) : i < j => Warm(fs[i].self, fs[j].saved)
  <2> SUFFICES ASSUME NEW i \in 1..Len(fs), NEW j \in 1..Len(fs), i < j
               PROVE  Warm(fs[i].self, fs[j].saved)
    OBVIOUS
  <2>1. i \in 1..Len(b)
    BY <1>1
  <2> QED BY <1>1, <1>2, <2>1 DEF Guard
<1> QED BY <1>1, <1>3, <1>4 DEF Guard, fs

LEMMA GuardParts ==
    ASSUME NEW b, NEW w, Guard(b, w), b # <<>>
    PROVE  /\ Guard(Below(b), w) /\ Kin(b[Len(b)]) /\ Warm(b[Len(b)].self, w)
           /\ Guard(Below(b), b[Len(b)].saved)
           /\ b = Append(Below(b), b[Len(b)])
<1>1. b = Append(Below(b), b[Len(b)]) /\ IsStack(Below(b))
  BY StackParts DEF Guard
<1>2. /\ Len(b) \in Nat \ {0} /\ Len(Below(b)) = Len(b) - 1
      /\ \A i \in 1..Len(Below(b)) : Below(b)[i] = b[i]
  BY BelowStack DEF Guard
<1> DEFINE n == Len(b)
           c == Below(b)
           f == b[n]
<1>3. n \in 1..n /\ \A i \in 1..Len(c) : i \in 1..n /\ i < n
  BY <1>2
<1>4. Kin(f) /\ Warm(f.self, w)
  BY <1>3 DEF Guard
<1>5. \A i \in 1..Len(c) : Kin(c[i]) /\ Warm(c[i].self, w) /\ Warm(c[i].self, f.saved)
  BY <1>2, <1>3 DEF Guard
<1>6. \A i, j \in 1..Len(c) : i < j => Warm(c[i].self, c[j].saved)
  BY <1>2, <1>3 DEF Guard
<1>7. Counted(f.saved)
  BY <1>4 DEF Kin
<1>8. Guard(c, w) /\ Guard(c, f.saved)
  <2>1. IsStack(c) /\ Counted(w)
    BY <1>1 DEF Guard
  <2> HIDE DEF c, f
  <2> QED BY <1>5, <1>6, <1>7, <2>1 DEF Guard
<1> QED BY <1>1, <1>4, <1>8

LEMMA GuardOnward ==
    ASSUME NEW b, NEW w, Guard(b, w), NEW w1, Onward(w1, w)
    PROVE  Guard(b, w1)
  BY DEF Guard, Onward, Warm

LEMMA ContinueSecure ==
    ASSUME NEW b, NEW w, Guard(b, w), NEW g, Kin(g), Guard(b, g.saved), Warm(g.self, w), NEW ro,
           Continue(b, g, w, ro)
    PROVE  Secure
<1> DEFINE g1 == [g EXCEPT !.pc = @ + 1]
<1>1. g.kind \notin LiteKinds
  BY DEF Kin, Lite
<1>2. frames' = Append(b, g1) /\ world' = w /\ fault' = "none"
  BY <1>1 DEF Continue, LiteKinds
<1>3. Kin(g1) /\ g1.self = g.self /\ g1.saved = g.saved
  BY DEF Kin, FrameFields, Lite
<1> HIDE DEF g1
<1>4. Guard(Append(b, g1), w)
  BY <1>3, GuardAppend
<1> QED BY <1>2, <1>4 DEF Secure

LEMMA ResumeSecure ==
    ASSUME NEW b, NEW w, Guard(b, w), NEW gas, NEW ok, NEW ro, Resume(b, gas, ok, w, ro)
    PROVE  Secure
<1>1. CASE b = <<>>
  <2>1. frames' = <<>> /\ world' = w /\ fault' = "none"
    BY <1>1 DEF Resume
  <2> QED BY <2>1, GuardEmpty DEF Secure, Guard
<1>2. CASE b # <<>>
  <2> DEFINE f == b[Len(b)]
             g == [f EXCEPT !.height = @ + 1, !.gas = Wrap(@ + gas)]
  <2>1. Guard(Below(b), w) /\ Kin(f) /\ Warm(f.self, w) /\ Guard(Below(b), f.saved)
    BY <1>2, GuardParts
  <2>2. Continue(Below(b), g, w, ro)
    BY <1>2, Zenon DEF Resume
  <2> HIDE DEF f
  <2>3. Kin(g) /\ g.self = f.self /\ g.saved = f.saved
    BY <2>1 DEF Kin, FrameFields, Lite
  <2> HIDE DEF g
  <2> QED BY <2>1, <2>2, <2>3, ContinueSecure
<1> QED BY <1>1, <1>2

LEMMA ReturnsSecure ==
    ASSUME NEW b, NEW w, Guard(b, w), NEW gas, NEW ok, Returns(b, gas, ok, w)
    PROVE  Secure
  BY ResumeSecure DEF Returns

LEMMA RunSecure ==
    ASSUME NEW b, NEW w, Guard(b, w), NEW f, Kin(f), Guard(b, f.saved), Warm(f.self, w), NEW static,
           Run(b, f, w, static)
    PROVE  Secure
<1>1. frames' = Append(b, f) /\ world' = w /\ fault' = "none"
  BY DEF Run
<1> QED BY <1>1, GuardAppend DEF Secure

LEMMA NewKin ==
    ASSUME NEW kind, kind \notin LiteKinds, NEW self \in Accounts, NEW code, NEW gas, NEW saved,
           Counted(saved), NEW setRO, NEW f, f = NewFrame(kind, self, code, gas, saved, setRO)
    PROVE  Kin(f) /\ f.self = self /\ f.saved = saved
  BY DEF NewFrame, Kin, FrameFields, Lite

----------------------------------------------------------------------------
(* No fault: the operations of the state keep the refunds counted          *)

LEMMA OnwardTrans ==
    ASSUME NEW w, NEW w1, NEW w2, Onward(w1, w), Onward(w2, w1)
    PROVE  Onward(w2, w)
  BY DEF Onward

\* Changing what the tally does not look at.
LEMMA ChangesOnward ==
    ASSUME NEW w, Counted(w)
    PROVE  /\ Onward(w, w)
           /\ \A x : /\ Onward([w EXCEPT !.balance = x], w) /\ Onward([w EXCEPT !.nonce = x], w)
                     /\ Onward([w EXCEPT !.code = x], w) /\ Onward([w EXCEPT !.exist = x], w)
                     /\ Onward([w EXCEPT !.created = x], w) /\ Onward([w EXCEPT !.dead = x], w)
                     /\ Onward([w EXCEPT !.effects = x], w) /\ Onward([w EXCEPT !.warmSlots = x], w)
           /\ \A x : w.warm \subseteq x => Onward([w EXCEPT !.warm = x], w)
  BY DEF Onward, Counted, WorldFields

LEMMA OperationsOnward ==
    ASSUME NEW w, Counted(w), NEW a
    PROVE  /\ \A serial, change : Onward(Journal(w, serial, change), w)
           /\ Onward(CreateAccount(w, a), w)
           /\ \A amount : Onward(AddBalance(w, a, amount), w)
           /\ Onward(SelfDestruct(w, a), w)
<1>1. \A serial, change : Onward(Journal(w, serial, change), w)
  BY ChangesOnward DEF Journal
<1>2. Onward(CreateAccount(w, a), w)
  <2> DEFINE made == CreateAccount(w, a)
  <2>1. /\ WorldFields \subseteq DOMAIN made /\ made.slot = [w.slot EXCEPT ![a] = 0]
        /\ made.committed = [w.committed EXCEPT ![a] = 0] /\ made.refund = w.refund /\ made.warm = w.warm
    BY DEF CreateAccount, Counted, WorldFields
  <2>2. Tallied([w.slot EXCEPT ![a] = 0], [w.committed EXCEPT ![a] = 0], w.refund)
    BY OwedBorn DEF Counted
  <2> HIDE DEF made
  <2>3. Onward(made, w)
    BY <2>1, <2>2 DEF Onward, Counted
  <2> QED BY <2>3 DEF made
<1>3. ASSUME NEW amount PROVE Onward(AddBalance(w, a, amount), w)
  <2> DEFINE balances == [w.balance EXCEPT ![a] = @ + amount]
             accounts == w.exist \cup {a}
             rich == [w EXCEPT !.balance = balances]
  <2>1. AddBalance(w, a, amount) = [w EXCEPT !.balance = balances, !.exist = accounts]
    BY DEF AddBalance
  <2> HIDE DEF balances, accounts
  <2>2. AddBalance(w, a, amount) = [rich EXCEPT !.exist = accounts]
    BY <2>1
  <2>3. Onward(rich, w)
    BY ChangesOnward
  <2> HIDE DEF rich
  <2>4. Onward([rich EXCEPT !.exist = accounts], rich)
    BY <2>3, ChangesOnward DEF Onward
  <2> QED BY <2>2, <2>3, <2>4, OnwardTrans
<1>4. Onward(SelfDestruct(w, a), w)
  <2> DEFINE balances == [w.balance EXCEPT ![a] = 0]
             gone == w.dead \cup {a}
             poor == [w EXCEPT !.balance = balances]
  <2>1. SelfDestruct(w, a) = [w EXCEPT !.balance = balances, !.dead = gone]
    BY DEF SelfDestruct
  <2> HIDE DEF balances, gone
  <2>2. SelfDestruct(w, a) = [poor EXCEPT !.dead = gone]
    BY <2>1
  <2>3. Onward(poor, w)
    BY ChangesOnward
  <2> HIDE DEF poor
  <2>4. Onward([poor EXCEPT !.dead = gone], poor)
    BY <2>3, ChangesOnward DEF Onward
  <2> QED BY <2>2, <2>3, <2>4, OnwardTrans
<1> QED BY <1>1, <1>2, <1>3, <1>4

LEMMA TransferOnward ==
    ASSUME NEW w, Counted(w), NEW serial, NEW from, NEW to, NEW amount
    PROVE  Onward(Transfer(w, serial, from, to, amount), w)
<1> DEFINE balances == [w.balance EXCEPT ![from] = @ - amount]
           taken == [w EXCEPT !.balance = balances]
           paid == AddBalance(taken, to, amount)
<1>1. Onward(taken, w)
  <2> HIDE DEF balances
  <2> QED BY ChangesOnward
<1>2. Transfer(w, serial, from, to, amount) = IF amount = 0 THEN paid ELSE Journal(paid, serial, "transfer")
  <2>1. taken = [w EXCEPT !.balance[from] = @ - amount]
    OBVIOUS
  <2> QED BY <2>1, Zenon DEF Transfer
<1> HIDE DEF balances, taken
<1>3. Onward(paid, taken)
  BY <1>1, OperationsOnward DEF Onward
<1> HIDE DEF paid
<1>4. Onward(Journal(paid, serial, "transfer"), paid)
  BY <1>3, OperationsOnward DEF Onward
<1> QED BY <1>1, <1>2, <1>3, <1>4, OnwardTrans

----------------------------------------------------------------------------
(* No fault: calls and creates are secure                                  *)

LEMMA InvokeSecure ==
    ASSUME NEW b, NEW saved, Guard(b, saved), NEW w, Guard(b, w), NEW kind, kind \notin LiteKinds,
           NEW self \in Accounts, Warm(self, w), NEW addr, NEW gas, NEW static,
           Invoke(kind, b, self, addr, gas, saved, w, static)
    PROVE  Secure
<1> DEFINE f == NewFrame(kind, self, w.code[addr], gas, saved, static /\ ~readOnly)
<1>1. \/ \E left : \E fine \in BOOLEAN : Returns(b, left, fine, IF fine THEN w ELSE saved)
      \/ Returns(b, gas, TRUE, w)
      \/ Run(b, f, w, static)
  <2>1. CASE \E cost \in PrecompileCosts, ok \in BOOLEAN :
               LET fine == ok /\ cost <= gas
               IN  Returns(b, IF fine THEN gas - cost ELSE 0, fine, IF fine THEN w ELSE saved)
    <3>1. PICK cost \in PrecompileCosts, ok \in BOOLEAN :
               LET fine == ok /\ cost <= gas
               IN  Returns(b, IF fine THEN gas - cost ELSE 0, fine, IF fine THEN w ELSE saved)
      BY <2>1
    <3> DEFINE fine == ok /\ cost <= gas
               left == IF fine THEN gas - cost ELSE 0
    <3>2. fine \in BOOLEAN
      OBVIOUS
    <3>3. Returns(b, left, fine, IF fine THEN w ELSE saved)
      BY <3>1
    <3> HIDE DEF fine, left
    <3> QED BY <3>2, <3>3
  <2> QED BY <2>1, Zenon DEF Invoke
<1>2. CASE \E left : \E fine \in BOOLEAN : Returns(b, left, fine, IF fine THEN w ELSE saved)
  BY <1>2, ReturnsSecure
<1>3. CASE Returns(b, gas, TRUE, w)
  BY <1>3, ReturnsSecure
<1>4. CASE Run(b, f, w, static)
  <2> DEFINE setRO == static /\ ~readOnly
  <2>1. f = NewFrame(kind, self, w.code[addr], gas, saved, setRO) /\ Counted(saved)
    BY DEF Guard
  <2> HIDE DEF f, setRO
  <2>2. Kin(f) /\ f.self = self /\ f.saved = saved
    BY <2>1, NewKin
  <2> QED BY <1>4, <2>2, RunSecure
<1> QED BY <1>1, <1>2, <1>3, <1>4

LEMMA CallSecure ==
    ASSUME NEW b, NEW w, Guard(b, w), NEW from, NEW to \in Accounts, Warm(to, w), NEW gas, NEW value,
           Call(b, from, to, gas, value, w)
    PROVE  Secure
<1> DEFINE target == IF Exist(w, to) THEN w ELSE CreateAccount(w, to)
           paid == Transfer(target, Serial(b), from, to, value)
<1>1. Onward(target, w)
  BY ChangesOnward, OperationsOnward DEF Guard
<1>2. Onward(paid, w)
  <2>1. Counted(target)
    BY <1>1 DEF Onward
  <2> HIDE DEF target
  <2>2. Onward(paid, target)
    BY <2>1, TransferOnward
  <2> HIDE DEF paid
  <2> QED BY <1>1, <2>2, OnwardTrans
<1>3. \/ Returns(b, gas, FALSE, w)
      \/ Returns(b, gas, TRUE, w)
      \/ Invoke("call", b, to, to, gas, w, paid, FALSE)
  BY Zenon DEF Call
<1> HIDE DEF paid
<1>4. "call" \notin LiteKinds
  BY DEF LiteKinds
<1>5. Guard(b, paid) /\ Warm(to, paid)
  BY <1>2, GuardOnward DEF Onward, Warm
<1> QED BY <1>3, <1>4, <1>5, ReturnsSecure, InvokeSecure

LEMMA BorrowedSecure ==
    ASSUME NEW b, NEW w, Guard(b, w), NEW from \in Accounts, Warm(from, w), NEW to \in Accounts,
           Warm(to, w), NEW gas, NEW value,
           \/ CallCode(b, from, to, gas, value, w) \/ DelegateCall(b, from, to, gas, w)
           \/ StaticCall(b, to, gas, w)
    PROVE  Secure
<1> DEFINE touched == AddBalance(w, to, 0)
<1>1. Onward(touched, w)
  BY OperationsOnward DEF Guard
<1>2. \A kind \in {"callcode", "delegatecall", "staticcall"} : kind \notin LiteKinds
  BY DEF LiteKinds
<1>3. \/ Returns(b, gas, FALSE, w)
      \/ \E kind \in {"callcode", "delegatecall"} : Invoke(kind, b, from, to, gas, w, w, FALSE)
      \/ Invoke("staticcall", b, to, to, gas, w, touched, TRUE)
  BY Zenon DEF CallCode, DelegateCall, StaticCall
<1> HIDE DEF touched
<1>4. Guard(b, touched) /\ Warm(to, touched)
  BY <1>1, GuardOnward DEF Onward, Warm
<1> QED BY <1>2, <1>3, <1>4, ReturnsSecure, InvokeSecure

LEMMA CreateSecure ==
    ASSUME NEW b, NEW w, Guard(b, w), NEW from, NEW gas, NEW value, NEW kind \in CreateKinds,
           NEW size, create(kind, b, from, gas, value, size, w)
    PROVE  Secure
<1>1. kind \notin LiteKinds
  BY DEF CreateKinds, LiteKinds
<1>2. ASSUME NEW a \in CreateAddresses, NEW init,
             LET bumped == [Journal(w, Serial(b), "nonce") EXCEPT
                               !.nonce[from] = @ + 1,
                               !.warm = IF IsRule("Berlin") THEN @ \cup {a} ELSE @]
                 born   == [CreateAccount(bumped, a) EXCEPT
                               !.nonce[a] = IF IsRule("SpuriousDragon") THEN 1 ELSE 0]
                 paid   == Transfer(Journal(born, Serial(b), "create"), Serial(b), from, a, value)
             IN  \/ Returns(b, 0, FALSE, bumped)
                 \/ Returns(b, gas, TRUE, paid)
                 \/ Run(b, NewFrame(kind, a, init, gas, bumped, FALSE), paid, FALSE)
      PROVE  Secure
  <2> DEFINE noted == Journal(w, Serial(b), "nonce")
             warm == IF IsRule("Berlin") THEN noted.warm \cup {a} ELSE noted.warm
             nonces == [noted.nonce EXCEPT ![from] = @ + 1]
             numbered == [noted EXCEPT !.nonce = nonces]
             bumped == [noted EXCEPT !.nonce[from] = @ + 1,
                                     !.warm = IF IsRule("Berlin") THEN @ \cup {a} ELSE @]
             fresh == CreateAccount(bumped, a)
             firsts == [fresh.nonce EXCEPT ![a] = IF IsRule("SpuriousDragon") THEN 1 ELSE 0]
             born == [fresh EXCEPT !.nonce[a] = IF IsRule("SpuriousDragon") THEN 1 ELSE 0]
             made == Journal(born, Serial(b), "create")
             paid == Transfer(made, Serial(b), from, a, value)
             f == NewFrame(kind, a, init, gas, bumped, FALSE)
  <2>1. Onward(noted, w) /\ Counted(noted)
    BY OperationsOnward DEF Guard, Onward
  <2>2. Onward(bumped, noted) /\ Warm(a, bumped)
    <3> HIDE DEF noted
    <3>1. bumped = [noted EXCEPT !.nonce = nonces, !.warm = warm]
      OBVIOUS
    <3>2. noted.warm \subseteq warm /\ (IsRule("Berlin") => a \in warm)
      OBVIOUS
    <3> HIDE DEF nonces, warm
    <3>3. bumped = [numbered EXCEPT !.warm = warm] /\ numbered.warm = noted.warm
      BY <2>1, <3>1 DEF Counted, WorldFields
    <3>4. Onward(numbered, noted)
      BY <2>1, ChangesOnward
    <3> HIDE DEF numbered, bumped
    <3>5. Onward(bumped, numbered)
      BY <3>2, <3>3, <3>4, ChangesOnward DEF Onward
    <3>6. bumped.warm = warm
      BY <3>3, <3>4 DEF Onward, Counted, WorldFields
    <3> QED BY <3>2, <3>4, <3>5, <3>6, OnwardTrans DEF Warm
  <2> HIDE DEF bumped, noted
  <2>3. Onward(fresh, bumped)
    BY <2>2, OperationsOnward DEF Onward
  <2> HIDE DEF fresh
  <2>4. Onward(born, fresh)
    <3>1. born = [fresh EXCEPT !.nonce = firsts]
      OBVIOUS
    <3> HIDE DEF firsts
    <3> QED BY <2>3, <3>1, ChangesOnward DEF Onward
  <2> HIDE DEF born
  <2>5. Onward(made, born)
    BY <2>4, OperationsOnward DEF Onward
  <2> HIDE DEF made
  <2>6. Onward(paid, made)
    BY <2>5, TransferOnward DEF Onward
  <2> HIDE DEF paid
  <2>7. Onward(bumped, w) /\ Onward(paid, bumped)
    BY <2>1, <2>2, <2>3, <2>4, <2>5, <2>6, OnwardTrans
  <2>8. Guard(b, bumped) /\ Guard(b, paid) /\ Warm(a, paid)
    BY <2>2, <2>7, GuardOnward DEF Onward, Warm
  <2>9. a \in Accounts /\ Counted(bumped)
    BY <2>2, OperandsAssumption DEF Onward
  <2>10. Kin(f) /\ f.self = a /\ f.saved = bumped
    <3> DEFINE setRO == FALSE
    <3>1. f = NewFrame(kind, a, init, gas, bumped, setRO)
      OBVIOUS
    <3> HIDE DEF f, setRO
    <3> QED BY <1>1, <2>9, <3>1, NewKin
  <2> HIDE DEF f
  <2>11. \/ Returns(b, 0, FALSE, bumped) \/ Returns(b, gas, TRUE, paid) \/ Run(b, f, paid, FALSE)
    BY <1>2, Zenon DEF noted, bumped, fresh, born, made, paid, f
  <2> QED BY <2>8, <2>10, <2>11, ReturnsSecure, RunSecure
<1>3. CASE Returns(b, gas, FALSE, w)
  BY <1>3, ReturnsSecure
<1> QED BY <1>2, <1>3, Zenon DEF create

----------------------------------------------------------------------------
(* No fault: execute is secure                                             *)

\* A frame that may go on in this state, on what is below it.
Firm(f, w) ==
    /\ Kin(f) /\ Warm(f.self, w)
    /\ Guard(Below(frames), w) /\ Guard(Below(frames), f.saved)

LEMMA DepositSecure ==
    ASSUME NEW f, NEW w, Firm(f, w), NEW size, Deposit(f, w, size)
    PROVE  Secure
<1> DEFINE b == Below(frames)
           noted == Journal(w, f.serial, "code")
           codes == [noted.code EXCEPT ![f.self] = IF size = 0 THEN 0 ELSE Deployed]
           coded == [noted EXCEPT !.code[f.self] = IF size = 0 THEN 0 ELSE Deployed]
<1>1. Guard(b, w) /\ Guard(b, f.saved)
  BY DEF Firm
<1>2. Onward(noted, w)
  BY <1>1, OperationsOnward DEF Guard
<1>3. Guard(b, coded)
  <2> HIDE DEF noted, b
  <2>1. coded = [noted EXCEPT !.code = codes]
    OBVIOUS
  <2> HIDE DEF codes, coded
  <2>2. Onward(coded, noted)
    BY <1>2, <2>1, ChangesOnward DEF Onward
  <2> QED BY <1>1, <1>2, <2>2, OnwardTrans, GuardOnward
<1>4. \E left, ok, w1 : w1 \in {f.saved, coded, w} /\ Returns(b, left, ok, w1)
  <2>1. \/ Returns(b, 0, FALSE, f.saved)
        \/ Returns(b, f.gas - (size * Price["CreateDataGas"]), TRUE, coded)
        \/ Returns(b, f.gas, TRUE, w)
    BY Zenon DEF Deposit, noted, coded, b
  <2> HIDE DEF b, coded
  <2> QED BY <2>1, Zenon
<1> HIDE DEF b, coded
<1> QED BY <1>1, <1>3, <1>4, ReturnsSecure

LEMMA FailSecure ==
    ASSUME NEW f, ~Lite(f), Guard(Below(frames), f.saved), NEW w, NEW size, Ends("fail", f, w, size)
    PROVE  Secure
<1>1. Resume(Below(frames), Left("fail", f), "fail" = "ok", Kept("fail", f, w), Released(f))
  BY Zenon DEF Ends
<1>2. Kept("fail", f, w) = f.saved
  BY DEF Kept
<1> DEFINE ok == "fail" = "ok"
<1>3. Resume(Below(frames), Left("fail", f), ok, f.saved, Released(f))
  BY <1>1, <1>2, Zenon
<1> HIDE DEF ok
<1> QED BY <1>3, ResumeSecure

LEMMA EndsSecure ==
    ASSUME NEW f, NEW w, Firm(f, w), NEW outcome, NEW size, Ends(outcome, f, w, size)
    PROVE  Secure
<1>1. CASE Deposit(f, w, size)
  BY <1>1, DepositSecure
<1>2. CASE Resume(Below(frames), Left(outcome, f), outcome = "ok", Kept(outcome, f, w), Released(f))
  <2> DEFINE ok == outcome = "ok"
             w1 == Kept(outcome, f, w)
  <2>1. Guard(Below(frames), w1)
    BY DEF Kept, Firm
  <2>2. Resume(Below(frames), Left(outcome, f), ok, w1, Released(f))
    BY <1>2
  <2> HIDE DEF ok, w1
  <2> QED BY <2>1, <2>2, ResumeSecure
<1> QED BY <1>1, <1>2, Zenon DEF Ends, Firm, Kin

LEMMA GoesOnSecure ==
    ASSUME NEW f, NEW w, Firm(f, w), GoesOn(f, w)
    PROVE  Secure
  BY ContinueSecure DEF GoesOn, Firm

LEMMA FirmOnward ==
    ASSUME NEW f, NEW w, Firm(f, w), NEW w1, Onward(w1, w)
    PROVE  Firm(f, w1) /\ Counted(w)
  BY GuardOnward DEF Firm, Onward, Warm, Guard

LEMMA FirmSame ==
    ASSUME NEW f, NEW w, Firm(f, w), NEW g, Kin(g), g.self = f.self, g.saved = f.saved
    PROVE  Firm(g, w)
  BY DEF Firm

\* The state once what was paid for is done.
After(op, v, p) ==
    IF op.execute = "opSstore"
    THEN [p.world EXCEPT !.slot = Written(p.world.slot, p.frame.self, Back(v, 1))]
    ELSE p.world

\* What execute may count on.
Prepares(op, v, p) ==
    /\ Firm(p.frame, After(op, v, p)) /\ EffectOf(op).delta \in Int /\ EffectOf(op).reads \in Nat
    /\ op.execute \in CallFunctions => Back(v, 1) \in Accounts /\ Warm(Back(v, 1), p.world)

LEMMA PreparedParts ==
    ASSUME NEW op, NEW v, NEW p, Prepares(op, v, p)
    PROVE  /\ Kin(Advanced(p.frame, op)) /\ Advanced(p.frame, op).self = p.frame.self
           /\ Advanced(p.frame, op).saved = p.frame.saved
           /\ \A pc : LET g == [Advanced(p.frame, op) EXCEPT !.pc = pc]
                      IN  Kin(g) /\ g.self = p.frame.self /\ g.saved = p.frame.saved
           /\ Kin(Waiting(op, p.frame)) /\ Waiting(op, p.frame).self = p.frame.self
           /\ Waiting(op, p.frame).saved = p.frame.saved
           /\ \A gas : LET g == [Waiting(op, p.frame) EXCEPT !.gas = gas]
                       IN  Kin(g) /\ g.self = p.frame.self /\ g.saved = p.frame.saved
           /\ Firm(Advanced(p.frame, op), After(op, v, p))
           /\ op.execute # "opSstore" => Firm(p.frame, p.world)
           /\ op.execute # "opSstore" => Firm(Advanced(p.frame, op), p.world)
<1> DEFINE f == p.frame
           up == f.height + EffectOf(op).delta
           down == f.height - EffectOf(op).reads
           pc1 == f.pc + Skips(op)
           g == [f EXCEPT !.height = up, !.pc = pc1]
           h == [f EXCEPT !.height = down]
<1>1. Kin(f) /\ Firm(f, After(op, v, p)) /\ (op.execute # "opSstore" => Firm(f, p.world))
  BY DEF Prepares, Firm, After
<1>2. up \in Int /\ down \in Int
  BY <1>1 DEF Prepares, Kin
<1>3. Advanced(f, op) = g /\ Waiting(op, f) = h
  BY DEF Advanced, Waiting
<1> HIDE DEF f, up, down, pc1
<1>4. /\ Kin(g) /\ g.self = f.self /\ g.saved = f.saved
      /\ Kin(h) /\ h.self = f.self /\ h.saved = f.saved
  BY <1>1, <1>2 DEF Kin, FrameFields, Lite
<1> HIDE DEF g, h
<1>5. ASSUME NEW k, Kin(k), NEW x
      PROVE  /\ Kin([k EXCEPT !.pc = x]) /\ Kin([k EXCEPT !.gas = x])
             /\ [k EXCEPT !.pc = x].self = k.self /\ [k EXCEPT !.pc = x].saved = k.saved
             /\ [k EXCEPT !.gas = x].self = k.self /\ [k EXCEPT !.gas = x].saved = k.saved
  BY <1>5 DEF Kin, FrameFields, Lite
<1>6. /\ Firm(g, After(op, v, p)) /\ (op.execute # "opSstore" => Firm(g, p.world))
  BY <1>1, <1>4, FirmSame
<1> QED BY <1>1, <1>3, <1>4, <1>5, <1>6 DEF f

LEMMA HaltingSecure ==
    ASSUME NEW op, NEW v, NEW p, Prepares(op, v, p), Halting(op, v, p)
    PROVE  Secure
<1>1. op.execute # "opSstore" /\ \E outcome, size : Ends(outcome, p.frame, p.world, size)
  BY Zenon DEF Halting
<1> QED BY <1>1, PreparedParts, EndsSecure

LEMMA JumpingSecure ==
    ASSUME NEW op, NEW v, NEW p, Prepares(op, v, p), Jumping(op, v, p)
    PROVE  Secure
<1> DEFINE f == Advanced(p.frame, op)
           g == [f EXCEPT !.pc = Back(v, 0) - 1]
<1>1. op.execute # "opSstore"
  BY DEF Jumping
<1>2. Firm(p.frame, p.world) /\ Firm(f, p.world)
      /\ Kin(g) /\ g.self = p.frame.self /\ g.saved = p.frame.saved
  BY <1>1, PreparedParts
<1>3. \/ \E outcome : Ends(outcome, p.frame, p.world, 0)
      \/ GoesOn(f, p.world) \/ GoesOn(g, p.world)
  BY Zenon DEF Jumping
<1> HIDE DEF f, g
<1>4. Firm(g, p.world)
  BY <1>2, FirmSame
<1> QED BY <1>2, <1>3, <1>4, EndsSecure, GoesOnSecure

\* A write that was counted before.
LEMMA WritingSecure ==
    ASSUME NEW op, NEW v, NEW p, Prepares(op, v, p), Writing(op, v, p), WorldFields \subseteq DOMAIN p.world,
           p.world.slot \in [Accounts -> Nat]
    PROVE  Secure
<1> DEFINE f == Advanced(p.frame, op)
           w == p.world
           value == Back(v, 1)
           noted == Journal(w, f.serial, "slot")
           stored == [noted EXCEPT !.slot[f.self] = Back(v, 1)]
           after == After(op, v, p)
<1>1. Firm(f, after) /\ f.self = p.frame.self /\ (op.execute # "opSstore" => Firm(f, w))
  BY PreparedParts
<1>2. ASSUME op.execute = "opSstore", w.slot[f.self] = value, GoesOn(f, w)
      PROVE  Secure
  <2>1. after = [w EXCEPT !.slot = Written(w.slot, f.self, value)]
    BY <1>1, <1>2 DEF After
  <2>2. Written(w.slot, f.self, value) = w.slot
    BY <1>2 DEF Written
  <2>3. after = [w EXCEPT !.slot = w.slot]
    BY <2>1, <2>2
  <2> HIDE DEF after
  <2>4. /\ WorldFields \subseteq DOMAIN after /\ after.slot = w.slot /\ after.committed = w.committed
        /\ after.refund = w.refund /\ after.warm = w.warm
    BY <2>3 DEF WorldFields
  <2>5. Counted(after)
    BY <1>1 DEF Firm, Guard
  <2>6. Onward(w, after)
    BY <2>4, <2>5 DEF Onward, Counted
  <2>7. Firm(f, w)
    BY <1>1, <2>6, FirmOnward
  <2> QED BY <1>2, <2>7, GoesOnSecure
<1>3. ASSUME op.execute = "opSstore", GoesOn(f, stored)
      PROVE  Secure
  <2> DEFINE slots == Written(w.slot, f.self, value)
             effects == w.effects \cup {<<f.serial, "slot">>}
  <2>1. after = [w EXCEPT !.slot = slots]
    BY <1>1, <1>3 DEF After
  <2>2. noted = [w EXCEPT !.effects = effects] /\ stored = [noted EXCEPT !.slot = Written(noted.slot, f.self, value)]
    BY DEF Journal, Written
  <2> HIDE DEF noted, effects, stored, after, slots, value, f
  <2>3. noted.slot = w.slot
    BY <2>2 DEF WorldFields
  <2>4. stored = [noted EXCEPT !.slot = slots]
    BY <2>2, <2>3 DEF slots
  <2>5. stored = [after EXCEPT !.effects = effects]
    BY <2>1, <2>2, <2>4
  <2>6. Onward(stored, after)
    BY <1>1, <2>5, ChangesOnward DEF Firm, Guard
  <2>7. Firm(f, stored)
    BY <1>1, <2>6, FirmOnward
  <2> QED BY <1>3, <2>7, GoesOnSecure
<1>4. ASSUME op.execute # "opSstore", NEW change, GoesOn(f, Journal(w, f.serial, change))
      PROVE  Secure
  <2>1. Counted(w)
    BY <1>1, <1>4 DEF Firm, Guard
  <2>2. Onward(Journal(w, f.serial, change), w)
    BY <2>1, OperationsOnward
  <2>3. Firm(f, Journal(w, f.serial, change))
    BY <1>1, <1>4, <2>2, FirmOnward
  <2> QED BY <1>4, <2>3, GoesOnSecure
<1>5. \/ op.execute = "opSstore" /\ w.slot[f.self] = value /\ GoesOn(f, w)
      \/ op.execute = "opSstore" /\ GoesOn(f, stored)
      \/ op.execute # "opSstore" /\ \E change : GoesOn(f, Journal(w, f.serial, change))
  <2>1. CASE op.execute = "opSstore"
    BY <2>1, Zenon DEF Writing
  <2>2. CASE op.execute # "opSstore"
    BY <2>2, Zenon DEF Writing
  <2> QED BY <2>1, <2>2
<1> HIDE DEF f, stored
<1> QED BY <1>2, <1>3, <1>4, <1>5

LEMMA DestructingSecure ==
    ASSUME NEW op, NEW v, NEW p, Prepares(op, v, p), Destructing(op, v, p)
    PROVE  Secure
<1> DEFINE f == p.frame
           self == f.self
           to == Back(v, 0)
           balance == p.world.balance[self]
           w == Journal(p.world, f.serial, "destruct")
           added == AddBalance(w, to, balance)
           balances == [w.balance EXCEPT ![self] = 0]
           emptied == [w EXCEPT !.balance[self] = 0]
           moved == AddBalance(emptied, to, balance)
<1>1. op.execute # "opSstore"
  BY DEF Destructing
<1>2. Firm(f, p.world) /\ Counted(p.world)
  BY <1>1, PreparedParts DEF Firm, Guard
<1>3. Onward(w, p.world) /\ Counted(w)
  BY <1>2, OperationsOnward DEF Onward
<1>4. Onward(emptied, w) /\ Counted(emptied)
  <2> HIDE DEF w
  <2>1. emptied = [w EXCEPT !.balance = balances]
    OBVIOUS
  <2> HIDE DEF balances
  <2> QED BY <1>3, <2>1, ChangesOnward DEF Onward
<1>5. \E w1 \in {SelfDestruct(added, self), SelfDestruct(moved, self), moved} : Ends("ok", f, w1, 0)
  BY Zenon DEF Destructing, w, emptied, balance, added, moved
<1> HIDE DEF w, emptied, balance
<1>6. Onward(added, w) /\ Onward(moved, emptied)
  BY <1>3, <1>4, OperationsOnward
<1> HIDE DEF added, moved
<1>7. Onward(SelfDestruct(added, self), added) /\ Onward(SelfDestruct(moved, self), moved)
  BY <1>6, OperationsOnward DEF Onward
<1>8. /\ Onward(SelfDestruct(added, self), p.world) /\ Onward(SelfDestruct(moved, self), p.world)
      /\ Onward(moved, p.world)
  BY <1>3, <1>4, <1>6, <1>7, OnwardTrans
<1>9. PICK w1 : Onward(w1, p.world) /\ Ends("ok", f, w1, 0)
  BY <1>5, <1>8
<1>10. Firm(f, w1)
  BY <1>2, <1>9, FirmOnward
<1> QED BY <1>9, <1>10, EndsSecure

LEMMA CallingSecure ==
    ASSUME NEW op, NEW v, NEW p, Prepares(op, v, p), Calling(op, v, p)
    PROVE  Secure
<1> DEFINE f == p.frame
           g == Waiting(op, f)
           b == Append(Below(frames), g)
           from == f.self
           to == Back(v, 1)
           value == Back(v, 2)
<1>1. op.execute \in CallFunctions /\ op.execute # "opSstore"
  BY DEF Calling, CallFunctions
<1>2. /\ Kin(g) /\ g.self = from /\ g.saved = f.saved
      /\ Firm(f, p.world) /\ to \in Accounts /\ Warm(to, p.world)
  BY <1>1, PreparedParts DEF Prepares
<1>3. Guard(b, p.world) /\ Warm(from, p.world) /\ from \in Accounts
  BY <1>2, GuardAppend DEF Firm, Kin
<1>4. \E gas : \/ Call(b, from, to, gas, value, p.world)
               \/ CallCode(b, from, to, gas, value, p.world)
               \/ DelegateCall(b, from, to, gas, p.world)
               \/ StaticCall(b, to, gas, p.world)
  BY Zenon DEF Calling
<1> HIDE DEF b, from, to, value, f, g
<1> QED BY <1>2, <1>3, <1>4, CallSecure, BorrowedSecure

LEMMA CreatingSecure ==
    ASSUME NEW op, NEW v, NEW p, Prepares(op, v, p), Creating(op, v, p)
    PROVE  Secure
<1> DEFINE f == p.frame
           kept == IF op.execute = "opCreate" /\ ~IsRule("TangerineWhistle") THEN 0 ELSE f.gas \div 64
           g == [Waiting(op, f) EXCEPT !.gas = kept]
           b == Append(Below(frames), g)
<1>1. op.execute # "opSstore"
  BY DEF Creating
<1>2. \E kind \in CreateKinds : create(kind, b, f.self, f.gas - kept, Back(v, 0), Back(v, 2), p.world)
  BY Zenon DEF Creating, CreateKinds
<1> HIDE DEF kept
<1>3. Kin(g) /\ g.self = f.self /\ g.saved = f.saved /\ Firm(f, p.world)
  BY <1>1, PreparedParts
<1> HIDE DEF g
<1>4. Guard(b, p.world)
  BY <1>3, GuardAppend DEF Firm
<1> HIDE DEF b
<1> QED BY <1>2, <1>4, CreateSecure

LEMMA ComputingSecure ==
    ASSUME NEW op, NEW v, NEW p, Prepares(op, v, p), Computing(op, p)
    PROVE  Secure
<1>1. op.execute # "opSstore"
  BY DEF Computing, Special, Writes
<1>2. Firm(p.frame, p.world) /\ Firm(Advanced(p.frame, op), p.world)
  BY <1>1, PreparedParts
<1> QED BY <1>2, EndsSecure, GoesOnSecure DEF Computing

LEMMA ExecuteSecure ==
    ASSUME NEW op, NEW v, NEW p, Prepares(op, v, p), WorldFields \subseteq DOMAIN p.world,
           p.world.slot \in [Accounts -> Nat], Execute(op, v, p)
    PROVE  Secure
<1>1. CASE Ends("fail", p.frame, p.world, 0)
  <2>1. ~Lite(p.frame) /\ Guard(Below(frames), p.frame.saved)
    BY DEF Prepares, Firm, Kin
  <2> QED BY <1>1, <2>1, FailSecure
<1>2. \/ Ends("fail", p.frame, p.world, 0)
      \/ Halting(op, v, p) \/ Jumping(op, v, p) \/ Writing(op, v, p)
      \/ Destructing(op, v, p) \/ Calling(op, v, p)  \/ Creating(op, v, p)
      \/ Computing(op, p)
  BY Zenon DEF Execute
<1> QED BY <1>1, <1>2, HaltingSecure, JumpingSecure, WritingSecure, DestructingSecure, CallingSecure,
           CreatingSecure, ComputingSecure

----------------------------------------------------------------------------
(* No fault: what is paid for is there                                     *)

\* Words of so many bytes hold them.
LEMMA WordsHold ==
    ASSUME NEW size \in 0..Top
    PROVE  size <= toWordSize(size) * WordBytes
<1>1. WordBytes \in Nat \ {0} /\ Top \in Nat
  BY WordBytesAssumption, TopNat
<1>2. ASSUME NEW x \in Nat
      PROVE  x - (WordBytes - 1) <= (x \div WordBytes) * WordBytes /\ (x \div WordBytes) \in Nat
  <2> DEFINE k == x \div WordBytes
             r == x % WordBytes
             kw == WordBytes * k
  <2>1. k \in Nat /\ r \in 0..(WordBytes - 1) /\ x = kw + r
    <3>1. x \in Int /\ x >= 0
      OBVIOUS
    <3>2. k \in Int /\ r \in 0..(WordBytes - 1) /\ x = kw + r /\ k >= 0
      BY <1>1, <3>1, Division, Zenon
    <3> QED BY <3>2
  <2> HIDE DEF k, r
  <2>2. k * WordBytes = kw /\ kw \in Nat
    BY <1>1, <2>1
  <2> HIDE DEF kw
  <2> QED BY <1>1, <2>1, <2>2 DEF k
<1>3. CASE size > Top - (WordBytes - 1)
  <2> DEFINE k == Top \div WordBytes
             kw == k * WordBytes
  <2>1. k \in Nat /\ Top - (WordBytes - 1) <= kw
    BY <1>1, <1>2
  <2>2. toWordSize(size) = k + 1
    BY <1>3 DEF toWordSize
  <2> HIDE DEF k
  <2>3. (k + 1) * WordBytes = kw + WordBytes /\ kw \in Nat
    BY <1>1, <2>1
  <2> HIDE DEF kw
  <2> QED BY <1>1, <2>1, <2>2, <2>3
<1>4. CASE ~(size > Top - (WordBytes - 1))
  <2> DEFINE x == size + (WordBytes - 1)
  <2>1. x \in Nat /\ x - (WordBytes - 1) = size
    BY <1>1
  <2>2. toWordSize(size) = x \div WordBytes
    BY <1>4 DEF toWordSize
  <2>3. x - (WordBytes - 1) <= (x \div WordBytes) * WordBytes
    BY <1>2, <2>1
  <2> QED BY <2>1, <2>2, <2>3
<1> QED BY <1>3, <1>4

LEMMA ExtentRange ==
    ASSUME NEW r, IsRegion(r), NEW v \in [1..17 -> Nat]
    PROVE  Extent(r, v) \in (0..Top) \cup {Refused}
<1>1. Back(v, r.off) \in Nat
  BY DEF Back, IsRegion
<1>2. (IF r.len = -1 THEN r.bytes ELSE Back(v, r.len)) \in Nat
  BY DEF Back, IsRegion
<1>3. \A off, len \in Nat : calcMemSize64(off, len) \in (0..Top) \cup {Refused}
  BY TopNat DEF calcMemSize64, IsUint64, Uint64, SafeAdd, Refused
<1> QED BY <1>1, <1>2, <1>3 DEF Extent

LEMMA LargestOf ==
    ASSUME NEW a \in 0..Top, NEW b \in 0..Top, NEW S, S \subseteq {a, b}
    PROVE  Largest(S \cup {0}) \in 0..Top /\ \A x \in S : x <= Largest(S \cup {0})
<1> DEFINE T == S \cup {0}
<1>1. Top \in Nat /\ T \subseteq 0..Top
  BY TopNat
<1>2. \E x \in T : \A y \in T : y <= x
  <2>1. CASE a \in S /\ b \in S
    BY <1>1, <2>1
  <2>2. CASE a \in S /\ b \notin S
    BY <1>1, <2>2
  <2>3. CASE a \notin S /\ b \in S
    BY <1>1, <2>3
  <2>4. CASE a \notin S /\ b \notin S
    BY <1>1, <2>4
  <2> QED BY <2>1, <2>2, <2>3, <2>4
<1> HIDE DEF T
<1>3. Largest(T) \in T /\ \A y \in T : y <= Largest(T)
  BY <1>2 DEF Largest
<1> QED BY <1>1, <1>3 DEF T

\* The memory an operation asks for holds every region it provides for.
LEMMA SizeHolds ==
    ASSUME NEW op, op.memorySize \in MemoryNames, NEW v \in [1..17 -> Nat], MemorySize(op, v) # Refused,
           NEW r \in MemoryRegions[op.memorySize]
    PROVE  Extent(r, v) \in Nat /\ Extent(r, v) <= MemorySize(op, v)
<1> DEFINE ends == {Extent(x, v) : x \in MemoryRegions[op.memorySize]}
           top == Largest(ends \cup {0})
           words == toWordSize(top)
<1>1. Refused \notin ends /\ MemorySize(op, v) = SafeMul(words, WordBytes)
  BY DEF MemorySize
<1>2. PICK a, b : MemoryRegions[op.memorySize] \subseteq {a, b} /\ IsRegion(a) /\ IsRegion(b)
  BY Regions
<1>3. ends \subseteq {Extent(a, v), Extent(b, v)} /\ Extent(r, v) \in ends
  BY <1>2
<1>4. Extent(a, v) \in (0..Top) \cup {Refused} /\ Extent(b, v) \in (0..Top) \cup {Refused}
  BY <1>2, ExtentRange
<1>5. \E c, d \in 0..Top : ends \subseteq {c, d}
  <2> HIDE DEF ends
  <2>1. CASE Extent(a, v) \in 0..Top /\ Extent(b, v) \in 0..Top
    BY <1>3, <2>1
  <2>2. CASE Extent(a, v) = Refused /\ Extent(b, v) \in 0..Top
    BY <1>1, <1>3, <2>2
  <2>3. CASE Extent(b, v) = Refused /\ Extent(a, v) \in 0..Top
    BY <1>1, <1>3, <2>3
  <2>4. CASE Extent(b, v) = Refused /\ Extent(a, v) = Refused
    BY <1>1, <1>3, <2>4
  <2> QED BY <1>4, <2>1, <2>2, <2>3, <2>4
<1> HIDE DEF ends
<1>6. top \in 0..Top /\ Extent(r, v) <= top
  BY <1>3, <1>5, LargestOf
<1>7. Extent(r, v) \in 0..Top
  BY <1>3, <1>5
<1> HIDE DEF top
<1>8. top <= words * WordBytes
  BY <1>6, WordsHold
<1>9. words \in Nat /\ words * WordBytes \in Nat
  BY <1>6, WordSizeNat, WordBytesAssumption, TopNat, Products
<1> HIDE DEF words
<1>10. MemorySize(op, v) = words * WordBytes
  BY <1>1 DEF SafeMul
<1> QED BY <1>6, <1>7, <1>8, <1>9, <1>10, TopNat

\* An operation the interpreter asked the price of: its operands are on the stack,
\* and c is what its gas function is given.
Quotes(op, v, p, g, size, c) ==
    /\ StackOK(Current, op) /\ size = MemorySize(op, v) /\ size # Refused
    /\ FrameFields \subseteq DOMAIN g /\ g.height = Current.height /\ g.mem = Current.mem
    /\ ContextFields \subseteq DOMAIN c /\ c.self = Current.self /\ c.world = world /\ c.operands = v
    /\ c.fork = session.config.fork
    /\ p = Settled(g, size, dynamicGas(op.dynamicGas, c), dynamicGas(op.dynamicGas, c).cost)

LEMMA PaidParts ==
    ASSUME Transaction, FrameFields \subseteq DOMAIN Current, ~Lite(Current), NEW op, NEW v,
           NEW p, p = Paid(op, v)
    PROVE  \/ ~p.ok /\ p.fault = "none"
           \/ \E g, size, c : Quotes(op, v, p, g, size, c)
<1> DEFINE due == Cost(op.constantGas)
           left == Current.gas - due
           g == [Current EXCEPT !.gas = left]
           size == MemorySize(op, v)
           c == Context(g, op, size, v)
           q == dynamicGas(op.dynamicGas, c)
<1>1. Charged(Current)
  BY DEF Charged, Transaction
<1>2. \A f : ~Stopped(f).ok /\ Stopped(f).fault = "none"
  BY DEF Stopped
<1>3. p = Stopped(Current) \/ (StackOK(Current, op) /\ p = Sized(op, v, g, size))
  BY <1>1, Zenon DEF Paid
<1> HIDE DEF left
<1>4. /\ FrameFields \subseteq DOMAIN g /\ g.height = Current.height /\ g.mem = Current.mem
      /\ g.self = Current.self /\ g.kind = Current.kind
  BY DEF FrameFields
<1> HIDE DEF g, size
<1>5. ~Lite(g) /\ Charged(g)
  BY <1>4 DEF Lite, Charged, Transaction
<1>6. Quoted(g, op, size, v) = q
  BY <1>5 DEF Quoted
<1>7. /\ ContextFields \subseteq DOMAIN c /\ c.self = Current.self /\ c.world = world /\ c.operands = v
      /\ c.fork = session.config.fork
  BY <1>4 DEF Context, ContextFields
<1> HIDE DEF c
<1> HIDE DEF q
<1>8. CASE p = Sized(op, v, g, size) /\ StackOK(Current, op)
  <2>1. CASE size = Refused
    <3>1. p = Stopped(g)
      BY <1>8, <2>1, Zenon DEF Sized
    <3> QED BY <1>2, <3>1
  <2>2. CASE size # Refused
    <3>1. p = Settled(g, size, q, IF Charged(g) THEN q.cost ELSE 0)
      BY <1>6, <1>8, <2>2, Zenon DEF Sized
    <3>2. p = Settled(g, size, q, q.cost)
      BY <1>5, <3>1, Zenon
    <3>3. Quotes(op, v, p, g, size, c)
      BY <1>4, <1>7, <1>8, <2>2, <3>2 DEF Quotes, q, size
    <3> QED BY <3>3
  <2> QED BY <2>1, <2>2
<1> QED BY <1>2, <1>3, <1>8

\* A transaction runs that has met no fault so far.
Unbroken == Running /\ Lawful(session.config) /\ Guard(frames, world)

LEMMA GuardedParts ==
    ASSUME Unbroken
    PROVE  /\ Fine(Current) /\ Firm(Current, world) /\ Counted(world) /\ WorldFields \subseteq DOMAIN world
           /\ Secured(session.config, Operation)
<1>1. Fine(Current) /\ session \in Sessions /\ frames # <<>>
  BY RunningParts DEF Unbroken, Running
<1>2. Firm(Current, world)
  BY <1>1, GuardParts DEF Unbroken, Firm, Current
<1>3. Counted(world) /\ WorldFields \subseteq DOMAIN world
  BY DEF Unbroken, Guard, Counted
<1> QED BY <1>1, <1>2, <1>3, OperationGuarded DEF Unbroken

\* What the gas function of an operation answers.
Answers(op, v, q) ==
    /\ q.fault = "none"
    /\ q.cost # Refused /\ op.execute = "opSstore" => Booked(q, world, Current.self, Back(v, 1))
    /\ op.execute # "opSstore" => Later(q.world, world)
    /\ op.execute \in CallFunctions /\ IsRule("Berlin") => Back(v, 1) \in q.world.warm

LEMMA QuoteAnswers ==
    ASSUME Unbroken, NEW v \in OperandsOf(Operation), NEW p, NEW g, NEW size, NEW c,
           Quotes(Operation, v, p, g, size, c)
    PROVE  Answers(Operation, v, dynamicGas(Operation.dynamicGas, c))
<1> DEFINE op == Operation
           name == op.dynamicGas
           q == dynamicGas(name, c)
           value == Back(v, 1)
<1>1. /\ Firm(Current, world) /\ Counted(world) /\ Secured(session.config, op)
  BY GuardedParts
<1>2. v \in [1..17 -> Nat] /\ value \in Nat
  BY OperandsFound DEF Back
<1>3. /\ ContextFields \subseteq DOMAIN c /\ c.self = Current.self /\ c.world = world /\ c.operands = v
      /\ c.fork = session.config.fork
  BY DEF Quotes
<1>4. Current.self \in Accounts /\ Warm(Current.self, world)
  BY <1>1 DEF Firm, Kin
<1> HIDE DEF op, name, q, value
<1>5. CASE op.execute = "opSstore"
  <2>1. name \in SstoreGas /\ name = StorageGas(session.config)
        /\ (name \notin OldStorage => Since(session.config.fork, "Berlin"))
    BY <1>1, <1>5 DEF Secured, name
  <2>2. Storing(c, name, value)
    BY <1>1, <1>2, <1>3, <1>4, <2>1 DEF Storing, Warm, IsRule, value
  <2>3. BookedIfPaid(q, c, value)
    BY <2>1, <2>2, StorageBooked DEF q
  <2>4. op.execute \notin CallFunctions
    BY <1>5 DEF CallFunctions
  <2> QED BY <1>3, <1>5, <2>3, <2>4 DEF BookedIfPaid, Answers, value, q, op, name
<1>6. CASE op.execute # "opSstore"
  <2>1. name \notin SstoreGas
    BY <1>1, <1>6 DEF Secured, name
  <2>2. Later(c.world, world)
    BY <1>1, <1>3 DEF Later, Counted, Tallied
  <2>3. Tame(q, world) /\ (name \in ColdCallGas => Back(c.operands, 1) \in q.world.warm)
    BY <1>3, <2>1, <2>2, GasTame DEF q
  <2>4. op.execute \in CallFunctions /\ IsRule("Berlin") => name \in ColdCallGas
    BY <1>1 DEF Secured, IsRule, name
  <2> QED BY <1>3, <1>6, <2>3, <2>4 DEF Tame, Answers, q, op, name
<1> QED BY <1>5, <1>6

LEMMA PaidPrepares ==
    ASSUME Unbroken, NEW v \in OperandsOf(Operation), NEW p, p = Paid(Operation, v), p.ok,
           NEW q, Answers(Operation, v, q), q.cost # Refused, p.world = q.world,
           p.frame.height = Current.height
    PROVE  /\ Prepares(Operation, v, p) /\ WorldFields \subseteq DOMAIN p.world
           /\ p.world.slot \in [Accounts -> Nat]
<1> DEFINE op == Operation
           f == p.frame
           value == Back(v, 1)
           slots == Written(p.world.slot, f.self, value)
           after == After(op, v, p)
<1>1. /\ Fine(Current) /\ Firm(Current, world) /\ Counted(world) /\ WorldFields \subseteq DOMAIN world
      /\ Secured(session.config, op)
  BY GuardedParts
<1>2. SameFrame(f, Current)
  <2>1. FrameFields \subseteq DOMAIN Current
    BY <1>1 DEF Firm, Kin
  <2> QED BY <1>1, <2>1, PaidSame
<1>3. world.slot \in [Accounts -> Nat]
  BY <1>1 DEF Counted, Tallied
<1>4. Kin(f) /\ f.self = Current.self /\ f.saved = Current.saved
  BY <1>1, <1>2 DEF SameFrame, Firm, Kin, Lite
<1> HIDE DEF f
<1>5. CASE op.execute = "opSstore"
  <2>1. Booked(q, world, Current.self, value)
    BY <1>5 DEF Answers
  <2>2. after = [p.world EXCEPT !.slot = slots]
    BY <1>5 DEF After, f
  <2>3. /\ WorldFields \subseteq DOMAIN p.world /\ p.world.slot = world.slot
        /\ p.world.committed = world.committed /\ world.warm \subseteq p.world.warm
        /\ Tallied(slots, world.committed, p.world.refund)
    BY <1>4, <2>1 DEF Booked
  <2> HIDE DEF slots, after
  <2>4. Onward(after, world)
    BY <2>2, <2>3 DEF Onward, Counted, WorldFields
  <2>5. Firm(f, after)
    BY <1>1, <1>4, <2>4, FirmOnward, FirmSame
  <2>6. op.execute \notin CallFunctions
    BY <1>5 DEF CallFunctions
  <2> QED BY <1>1, <1>3, <2>3, <2>5, <2>6 DEF Prepares, Secured, Fit, after, f
<1>6. CASE op.execute # "opSstore"
  <2>1. after = p.world /\ Later(p.world, world)
    BY <1>6 DEF After, Answers
  <2> HIDE DEF after
  <2>2. Onward(p.world, world)
    BY <1>1, <2>1, LaterCounted DEF Onward, Later
  <2>3. Firm(f, after)
    BY <1>1, <1>4, <2>1, <2>2, FirmOnward, FirmSame
  <2>4. ASSUME op.execute \in CallFunctions
        PROVE  value \in Accounts /\ Warm(value, p.world)
    <3>1. v \in Operands[op.execute]
      BY <2>4, OperandsAssumption DEF OperandsOf
    <3>2. value \in Accounts
      BY <2>4, <3>1, OperandsAssumption DEF Back
    <3> QED BY <2>4, <3>2 DEF Answers, Warm
  <2> QED BY <1>1, <1>3, <2>1, <2>3, <2>4 DEF Prepares, Secured, Fit, after, f, Later
<1> QED BY <1>5, <1>6

\* What execute indexes is there.
LEMMA NoIndexFault ==
    ASSUME NEW op, Fit(op), op.memorySize \in MemoryNames, NEW v \in [1..17 -> Nat],
           NEW f, f.height \in Int, op.minStack <= f.height,
           MemorySize(op, v) # Refused, MemorySize(op, v) <= f.mem, f.mem \in Nat, MemorySize(op, v) \in Nat
    PROVE  IndexFault(op, f, v) = "none"
<1> DEFINE effect == EffectOf(op)
<1>1. /\ effect.reads \in Nat /\ effect.reads <= op.minStack /\ op.minStack \in Nat
      /\ effect.memory \subseteq MemoryRegions[op.memorySize]
  BY DEF Fit, Fits
<1>2. \A r \in MemoryRegions[op.memorySize] : Extent(r, v) \in Nat /\ Extent(r, v) <= MemorySize(op, v)
  BY SizeHolds
<1> HIDE DEF effect
<1>3. ~(effect.reads > f.height)
  BY <1>1
<1>4. \A r \in effect.memory : Extent(r, v) # Refused /\ ~(Extent(r, v) > f.mem)
  BY <1>1, <1>2 DEF Refused
<1> QED BY <1>3, <1>4, Zenon DEF IndexFault, effect

LEMMA SettledFields ==
    ASSUME NEW g, FrameFields \subseteq DOMAIN g, NEW size, NEW q, NEW cost, NEW p,
           p = Settled(g, size, q, cost)
    PROVE  /\ p.ok => cost # Refused /\ q.gas >= cost
           /\ p.world = q.world /\ p.frame.height = g.height
           /\ p.frame.mem = IF size > g.mem THEN size ELSE g.mem
           /\ p.fault # q.fault => p.fault = "alloc" /\ p.ok /\ size > MaxMemory
<1> DEFINE mem == IF size > g.mem THEN size ELSE g.mem
           gas == q.gas - cost
           frame == [g EXCEPT !.gas = gas, !.fee = q.fee, !.mem = mem]
           able == cost # Refused /\ q.gas >= cost
           outcome == IF q.fault = "none" /\ cost # Refused /\ q.gas >= cost /\ size > MaxMemory THEN "alloc"
                      ELSE q.fault
<1>1. p = [ok |-> able, frame |-> frame, world |-> q.world, temp |-> q.temp, fault |-> outcome]
  BY DEF Settled
<1>2. outcome # q.fault => outcome = "alloc" /\ able /\ size > MaxMemory
  BY Zenon
<1>3. able => cost # Refused /\ q.gas >= cost
  BY Zenon
<1> HIDE DEF able, outcome, mem, gas
<1>4. frame.height = g.height /\ frame.mem = mem
  BY DEF FrameFields
<1> HIDE DEF frame
<1>5. p.ok = able /\ p.frame = frame /\ p.world = q.world /\ p.fault = outcome
  BY <1>1
<1> QED BY <1>2, <1>3, <1>4, <1>5, Zenon DEF mem

LEMMA PaidFaultless ==
    ASSUME Unbroken, NEW v \in OperandsOf(Operation), NEW p, p = Paid(Operation, v)
    PROVE  /\ p.fault = "none"
           /\ p.ok => /\ Prepares(Operation, v, p) /\ WorldFields \subseteq DOMAIN p.world
                      /\ p.world.slot \in [Accounts -> Nat]
                      /\ IndexFault(Operation, p.frame, v) = "none"
<1> DEFINE op == Operation
<1>1. /\ Fine(Current) /\ Firm(Current, world) /\ Secured(session.config, op)
      /\ FrameFields \subseteq DOMAIN Current /\ ~Lite(Current) /\ Current.height \in Int
  BY GuardedParts DEF Firm, Kin
<1>2. session \in Sessions /\ Transaction /\ Current.gas \in 0..Top
  BY RunningParts DEF Unbroken, Running
<1>3. v \in [1..17 -> Nat]
  BY OperandsFound
<1>4. ASSUME NEW g, NEW size, NEW c, Quotes(op, v, p, g, size, c)
      PROVE  /\ p.fault = "none"
             /\ p.ok => /\ Prepares(op, v, p) /\ WorldFields \subseteq DOMAIN p.world
                        /\ p.world.slot \in [Accounts -> Nat]
                        /\ IndexFault(op, p.frame, v) = "none"
  <2> DEFINE q == dynamicGas(op.dynamicGas, c)
  <2>1. Answers(op, v, q)
    BY <1>4, QuoteAnswers
  <2>2. /\ StackOK(Current, op) /\ size = MemorySize(op, v) /\ size # Refused
        /\ FrameFields \subseteq DOMAIN g /\ g.height = Current.height /\ g.mem = Current.mem
        /\ p = Settled(g, size, q, q.cost)
    BY <1>4 DEF Quotes
  <2> HIDE DEF q, op
  <2>3. /\ p.ok => q.cost # Refused /\ q.gas >= q.cost
        /\ p.world = q.world /\ p.frame.height = g.height
        /\ p.frame.mem = IF size > g.mem THEN size ELSE g.mem
        /\ p.fault # q.fault => p.ok /\ size > MaxMemory
    BY <2>2, SettledFields
  <2>4. q.fault = "none"
    BY <2>1 DEF Answers
  <2>5. CASE ~p.ok
    BY <2>3, <2>4, <2>5
  <2>6. CASE p.ok
    <3>1. Spent(op.execute, v, p)
      BY <1>1, <1>2, <2>6, PaidSpent DEF op
    <3>2. PaidFor(p.frame.mem, p.frame.fee)
      BY <3>1 DEF Spent, Fine, Solid
    <3>3. p.frame.mem \in Nat /\ p.frame.mem <= MaxMemory /\ MaxMemory \in Nat
      BY <3>2, WordCount, WidthAssumption DEF PaidFor
    <3>4. size \in Nat
      <4>1. op.memorySize \in MemoryNames
        BY <1>1 DEF Secured, Priced
      <4> QED BY <1>3, <2>2, <4>1, SizeInWords, WordCount
    <3>5. g.mem \in Nat
      BY <1>1, <2>2, WordCount DEF Fine, Solid, PaidFor
    <3>6. size <= p.frame.mem
      BY <2>3, <3>4, <3>5
    <3>7. p.fault = "none"
      BY <2>3, <2>4, <3>3, <3>4, <3>6
    <3>8. IndexFault(op, p.frame, v) = "none"
      <4>1. Fit(op) /\ op.memorySize \in MemoryNames
        BY <1>1 DEF Secured, Priced
      <4>2. p.frame.height \in Int /\ op.minStack <= p.frame.height /\ op.minStack \in Nat
        BY <1>1, <2>2, <2>3, <4>1 DEF StackOK, Fit
      <4> QED BY <1>3, <2>2, <3>3, <3>4, <3>6, <4>1, <4>2, NoIndexFault
    <3>9. /\ Prepares(op, v, p) /\ WorldFields \subseteq DOMAIN p.world
          /\ p.world.slot \in [Accounts -> Nat]
      BY <2>1, <2>2, <2>3, <2>6, PaidPrepares DEF op
    <3> QED BY <3>7, <3>8, <3>9
  <2> QED BY <2>5, <2>6
<1>5. \/ ~p.ok /\ p.fault = "none"
      \/ \E g, size, c : Quotes(op, v, p, g, size, c)
  BY <1>1, <1>2, PaidParts
<1> QED BY <1>4, <1>5

----------------------------------------------------------------------------
(* No step of a transaction faults                                         *)

LEMMA StepSecure ==
    ASSUME Unbroken, Step
    PROVE  Secure
<1>1. Fine(Current) /\ Firm(Current, world) /\ WorldFields \subseteq DOMAIN world
      /\ FrameFields \subseteq DOMAIN Current /\ ~Lite(Current)
  BY GuardedParts DEF Firm, Kin
<1>2. ASSUME NEW v \in OperandsOf(Operation), NEW p, p = Paid(Operation, v),
             Turn(Operation, v, p, Broken(Operation, v, p))
      PROVE  Secure
  <2>1. /\ p.fault = "none"
        /\ p.ok => /\ Prepares(Operation, v, p) /\ WorldFields \subseteq DOMAIN p.world
                   /\ p.world.slot \in [Accounts -> Nat]
                   /\ IndexFault(Operation, p.frame, v) = "none"
    BY <1>2, PaidFaultless
  <2>2. Broken(Operation, v, p) = "none"
    BY <2>1, Zenon DEF Broken
  <2>3. CASE p.ok /\ Execute(Operation, v, p)
    BY <2>1, <2>3, ExecuteSecure
  <2>4. CASE Ends("fail", p.frame, p.world, 0)
    <3>1. SameFrame(p.frame, Current)
      BY <1>1, <1>2, PaidSame
    <3>2. ~Lite(p.frame) /\ Guard(Below(frames), p.frame.saved)
      BY <1>1, <3>1 DEF SameFrame, Lite, Firm
    <3> QED BY <2>4, <3>2, FailSecure
  <2> QED BY <1>2, <2>2, <2>3, <2>4, Zenon DEF Turn
<1>3. ~MissesItems
  <2>1. Current.kind # "override"
    BY <1>1 DEF Lite, LiteKinds
  <2> QED BY <2>1 DEF MissesItems
<1>4. \E v \in OperandsOf(Operation) : \E p \in {Paid(Operation, v)} :
            Turn(Operation, v, p, Broken(Operation, v, p))
  BY <1>3, Zenon DEF Step, Serve
<1> QED BY <1>2, <1>4

LEMMA PreparedCounted ==
    ASSUME NEW w, Counted(w), NEW named
    PROVE  Counted(Prepared(w, named)) /\ \A a \in named : Warm(a, Prepared(w, named))
<1> DEFINE listed == Precompiles \cup named
           made == [w EXCEPT !.warm = listed, !.warmSlots = {}]
<1>1. CASE IsRule("Berlin")
  <2>1. Prepared(w, named) = made /\ \A a \in named : a \in listed
    BY <1>1 DEF Prepared
  <2> HIDE DEF listed
  <2>2. /\ WorldFields \subseteq DOMAIN made /\ made.slot = w.slot /\ made.committed = w.committed
        /\ made.refund = w.refund /\ made.warm = listed
    BY DEF Counted, WorldFields
  <2> HIDE DEF made
  <2> QED BY <2>1, <2>2 DEF Counted, Warm
<1>2. CASE ~IsRule("Berlin")
  BY <1>2 DEF Prepared, Warm
<1> QED BY <1>1, <1>2

LEMMA HostSecure ==
    ASSUME session \in Sessions, Transaction, Guard(frames, world), Transact \/ Deploy
    PROVE  Secure
<1>1. Counted(world) /\ session.to \in Accounts
  BY SessionsAssumption DEF Guard
<1>2. CASE Transact
  <2> DEFINE named == {session.sender, session.to}
             w == Prepared(world, named)
  <2>1. Call(<<>>, session.sender, session.to, session.gas, 0, w)
    BY <1>2 DEF Transact, Transaction
  <2>2. Counted(w) /\ Warm(session.to, w)
    <3>1. session.to \in named
      OBVIOUS
    <3> HIDE DEF named
    <3> QED BY <1>1, <3>1, PreparedCounted
  <2> HIDE DEF w
  <2>3. Guard(<<>>, w)
    BY <2>2, GuardEmpty
  <2> DEFINE b == <<>>
  <2>4. Call(b, session.sender, session.to, session.gas, 0, w) /\ Guard(b, w)
    BY <2>1, <2>3
  <2> HIDE DEF b
  <2> QED BY <1>1, <2>2, <2>4, CallSecure
<1>3. CASE Deploy
  <2> DEFINE w == Prepared(world, {session.sender})
             b == <<>>
  <2>1. create("create", b, session.sender, session.gas, 0, 1, w)
    BY <1>3 DEF Deploy
  <2>2. Guard(b, w)
    BY <1>1, PreparedCounted, GuardEmpty
  <2>3. "create" \in CreateKinds
    BY DEF CreateKinds
  <2> HIDE DEF w, b
  <2> QED BY <2>1, <2>2, <2>3, CreateSecure
<1> QED BY <1>2, <1>3

\* The invariant: a transaction met no fault, and what keeps it from one.
Safe == fault = "none" /\ Guard(frames, world)

SafeInv == MeterInv /\ (Transaction /\ Lawful(session.config) => Safe)

LEMMA SecureSafe ==
    ASSUME session' = session, Secure
    PROVE  Safe'
<1>1. Clear' = Clear
  BY DEF Clear, StorageGas
<1>2. \A rule : IsRule(rule)' = IsRule(rule)
  BY DEF IsRule
<1> QED BY <1>1, <1>2 DEF Secure, Safe, Guard, Counted, Tallied, Emptied, Owed, Kin, Warm, Lite, IsStack

LEMMA SafeSame ==
    ASSUME Safe, session' = session, UNCHANGED <<frames, world, fault>>
    PROVE  Safe'
  BY SecureSafe DEF Safe, Secure

LEMMA SafeNext ==
    ASSUME SafeInv, [Next]_vars
    PROVE  SafeInv'
<1>1. session' = session
  BY DEF Next, Step, Transact, Deploy, EnterLite, Cancel, vars
<1>2. MeterInv'
  BY MeterNext DEF SafeInv
<1>3. (Transaction' <=> Transaction) /\ (Lawful(session.config)' <=> Lawful(session.config))
  BY <1>1 DEF Transaction, Lawful
<1>4. ASSUME Transaction, Lawful(session.config)
      PROVE  Safe'
  <2>1. Safe /\ session \in Sessions
    BY <1>4 DEF SafeInv, MeterInv
  <2>2. CASE Step
    <3>1. Unbroken
      BY <1>4, <2>1, <2>2 DEF Unbroken, Running, SafeInv, MeterInv, Metering, Safe, Step
    <3> QED BY <1>1, <2>2, <3>1, StepSecure, SecureSafe
  <2>3. CASE Transact \/ Deploy
    BY <1>1, <1>4, <2>1, <2>3, HostSecure, SecureSafe DEF Safe
  <2>4. ~(\E kind \in LiteKinds : EnterLite(kind))
    BY <1>4 DEF EnterLite, Transaction
  <2>5. CASE UNCHANGED <<frames, world, fault>>
    BY <1>1, <2>1, <2>5, SafeSame
  <2> QED BY <2>2, <2>3, <2>4, <2>5 DEF Next, Cancel, vars
<1> QED BY <1>2, <1>3, <1>4 DEF SafeInv

LEMMA SafeInit ==
    ASSUME Init
    PROVE  SafeInv
<1>1. MeterInv /\ session \in Sessions
  BY MeterInit DEF Init
<1>2. frames = <<>> /\ fault = "none" /\ world.slot = session.slot /\ world.committed = session.slot
      /\ world.refund = 0 /\ WorldFields \subseteq DOMAIN world
  BY DEF Init, WorldFields
<1>3. session.slot \in [Accounts -> Nat]
  BY <1>1, SessionsAssumption
<1> DEFINE empty == Emptied(world.slot, world.committed)
<1>4. empty = {}
  BY <1>2, <1>3 DEF Emptied
<1>5. IsFiniteSet(empty) /\ Cardinality(empty) = 0
  BY <1>4, FS_EmptySet
<1> HIDE DEF empty
<1>6. Owed(world.slot, world.committed) = 0
  BY <1>5, ClearNat DEF Owed, empty
<1>7. Counted(world)
  BY <1>2, <1>3, <1>5, <1>6 DEF Counted, Tallied, empty
<1> QED BY <1>1, <1>2, <1>7, GuardEmpty DEF SafeInv, Safe

\* A transaction never panics: no stack or memory is too small for what execute
\* does with it, no allocation is asked for that was not paid, the refund counter is
\* never taken below zero, and no slot is charged for an account that is not on the
\* access list.  That holds for any programs, operands and prices, under every fork
\* and every extra proposal the fork is ready for (Lawful): one that counts on the
\* access list which Prepare only makes from Berlin on ends in the canary.
THEOREM NeverFaults == Spec => [](Lawful(session.config) => NoFault)
<1>1. Init => SafeInv
  BY SafeInit
<1>2. SafeInv /\ [Next]_vars => SafeInv'
  BY SafeNext
<1>3. SafeInv => (Lawful(session.config) => NoFault)
  BY DEF SafeInv, Safe, NoFault
<1> QED BY <1>1, <1>2, <1>3, PTL DEF Spec
=============================================================================
