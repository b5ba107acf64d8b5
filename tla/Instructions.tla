---------------------------- MODULE Instructions ----------------------------
(* What the functions an operation names do with the stack and the memory: *)
(* how deep they read, by how much they change the height, which bytes of  *)
(* memory they touch.  The jump table declares the same facts a second     *)
(* time, by hand, and the interpreter checks only what the table declares. *)
EXTENDS JumpTable

CONSTANT WordBytes   \* the bytes of a word of memory: 32

ASSUME WordBytesAssumption == WordBytes \in Nat \ {0}

----------------------------------------------------------------------------
(* Memory: a region starts where operand "off" says and is as long as      *)
(* operand "len" says, or has a fixed number of bytes.                     *)

Span(off, len) == [off |-> off, len |-> len, bytes |-> 0]
Fixed(off, bytes) == [off |-> off, len |-> -1, bytes |-> bytes]

\* The regions each memorySize function provides for: the larger end is the size.
MemoryRegions ==
    [none                 |-> {},
     memoryKeccak256      |-> {Span(0, 1)},
     memoryCallDataCopy   |-> {Span(0, 2)},
     memoryReturnDataCopy |-> {Span(0, 2)},
     memoryCodeCopy       |-> {Span(0, 2)},
     memoryExtCodeCopy    |-> {Span(1, 3)},
     memoryMLoad          |-> {Fixed(0, WordBytes)},
     memoryMStore8        |-> {Fixed(0, 1)},
     memoryMStore         |-> {Fixed(0, WordBytes)},
     memoryMcopy          |-> {Span(0, 2), Span(1, 2)},
     memoryCreate         |-> {Span(1, 2)},
     memoryCreate2        |-> {Span(1, 2)},
     memoryCall           |-> {Span(5, 6), Span(3, 4)},
     memoryDelegateCall   |-> {Span(4, 5), Span(2, 3)},
     memoryStaticCall     |-> {Span(4, 5), Span(2, 3)},
     memoryReturn         |-> {Span(0, 1)},
     memoryRevert         |-> {Span(0, 1)},
     memoryLog            |-> {Span(0, 1)}]

----------------------------------------------------------------------------
(* Effects                                                                 *)

Effect(reads, delta) == [reads |-> reads, delta |-> delta, memory |-> {}]

Pushes == Effect(0, 1)
\* n operands are replaced by one result; n operands are consumed.
Gives(n) == Effect(n, 1 - n)
Takes(n) == Effect(n, -n)

Touching(effect, regions) == [effect EXCEPT !.memory = regions]

Each(names, value) == [name \in names |-> value]

Arithmetic ==
    {Each({"opAdd", "opSub", "opMul", "opDiv", "opSdiv", "opMod", "opSmod", "opExp",
           "opSignExtend"}, Gives(2)),
     Each({"opNot"}, Gives(1))}

Comparison ==
    {Each({"opLt", "opGt", "opSlt", "opSgt", "opEq", "opAnd", "opOr", "opXor", "opByte"}, Gives(2)),
     Each({"opIszero"}, Gives(1)), Each({"opAddmod", "opMulmod"}, Gives(3))}

Shifts == {Each({"opSHL", "opSHR", "opSAR"}, Gives(2))}

Environment ==
    {Each({"opAddress", "opOrigin", "opCaller", "opCallValue", "opCallDataSize"}, Pushes),
     Each({"opBalance", "opCallDataLoad"}, Gives(1)),
     [opKeccak256 |-> Touching(Gives(2), {Span(0, 1)})]}

CodeAndData ==
    {Each({"opReturnDataSize", "opCodeSize", "opGasprice"}, Pushes),
     Each({"opExtCodeSize", "opExtCodeHash"}, Gives(1)),
     Each({"opCallDataCopy", "opReturnDataCopy", "opCodeCopy"}, Touching(Takes(3), {Span(0, 2)})),
     [opExtCodeCopy |-> Touching(Takes(4), {Span(1, 3)})]}

Block ==
    {Each({"opCoinbase", "opTimestamp", "opNumber", "opDifficulty", "opRandom", "opGasLimit"}, Pushes),
     Each({"opBlockhash"}, Gives(1))}

Storage ==
    {[opPop    |-> Takes(1),
      opMload  |-> Touching(Gives(1), {Fixed(0, WordBytes)}),
      opMstore |-> Touching(Takes(2), {Fixed(0, WordBytes)}),
      opMstore8 |-> Touching(Takes(2), {Fixed(0, 1)}),
      opSload  |-> Gives(1),
      opSstore |-> Takes(2)]}

Control ==
    {[opJump |-> Takes(1), opJumpi |-> Takes(2), opJumpdest |-> Takes(0),
      opPc |-> Pushes, opMsize |-> Pushes, opGas |-> Pushes]}

Creates == {[opCreate  |-> Touching(Gives(3), {Span(1, 2)}),
             opCreate2 |-> Touching(Gives(4), {Span(1, 2)})]}

Calls ==
    {Each({"opCall", "opCallCode"}, Touching(Gives(7), {Span(3, 4), Span(5, 6)})),
     Each({"opDelegateCall", "opStaticCall"}, Touching(Gives(6), {Span(2, 3), Span(4, 5)}))}

Halts ==
    {Each({"opReturn", "opRevert"}, Touching(Takes(2), {Span(0, 1)})),
     Each({"opUndefined", "opStop"}, Takes(0)),
     Each({"opSelfdestruct", "opSelfdestruct6780"}, Takes(1))}

Proposals ==
    {Each({"opSelfBalance", "opChainID", "opBaseFee", "opPush0", "opBlobBaseFee"}, Pushes),
     Each({"opTload", "opBlobHash"}, Gives(1)),
     [opTstore |-> Takes(2), opMcopy |-> Touching(Takes(3), {Span(0, 2), Span(1, 2)})]}

Effects ==
    Joined(UNION {Arithmetic, Comparison, Shifts, Environment, CodeAndData, Block, Storage, Control,
                  Creates, Calls, Halts, Proposals})

\* The makers' functions depend on their argument.
EffectOf(op) ==
    CASE op.execute = "makeLog"  -> Touching(Takes(op.n + 2), {Span(0, 1)})
      [] op.execute \in {"opPush1", "makePush"} -> Pushes
      [] op.execute = "makeDup"  -> Effect(op.n, 1)
      [] op.execute = "makeSwap" -> Effect(op.n + 1, 0)
      [] OTHER -> Effects[op.execute]

\* The bytes of code behind the opcode that execution skips.
Skips(op) == IF op.execute \in {"opPush1", "makePush"} THEN op.n ELSE 0

----------------------------------------------------------------------------
(* How deep the dynamic gas functions read the stack                       *)

CopierReads(stackpos) == stackpos + 1

GasReads ==
    Joined({Each({"none", "gasReturn", "gasRevert", "gasMLoad", "gasMStore8", "gasMStore", "gasCreate"}, 0),
            Each({"gasCallDataCopy", "gasCodeCopy", "gasMcopy", "gasReturnDataCopy"}, CopierReads(2)),
            Each({"gasExtCodeCopy", "gasExtCodeCopyEIP2929"}, CopierReads(3)),
            Each({"gasSStore", "gasSStoreEIP2200", "gasSStoreEIP2929", "gasSStoreEIP3529",
                  "makeGasLog", "gasKeccak256", "gasExpFrontier", "gasExpEIP158"}, 2),
            Each({"gasCreate2", "gasCreateEip3860", "gasCreate2Eip3860", "gasCall", "gasCallCode",
                  "gasCallEIP2929", "gasCallCodeEIP2929"}, 3),
            Each({"gasDelegateCall", "gasStaticCall", "gasSelfdestruct", "gasSelfdestructEIP2929",
                  "gasSelfdestructEIP3529", "gasSLoadEIP2929", "gasEip2929AccountCheck"}, 1),
            Each({"gasDelegateCallEIP2929", "gasStaticCallEIP2929"}, 2)})

----------------------------------------------------------------------------
(* The agreement of the two                                                *)

\* The deepest operand a region is given by.
Depth(regions) == {r.off + 1 : r \in regions} \cup {r.len + 1 : r \in regions}

\* What the interpreter checks of an operation is enough for what its functions do.
Fits(op) ==
    LET effect == EffectOf(op)
    IN  /\ effect.reads <= op.minStack
        /\ GasReads[op.dynamicGas] <= op.minStack
        /\ \A d \in Depth(MemoryRegions[op.memorySize]) : d <= op.minStack
        /\ op.minStack + effect.delta >= 0
        /\ op.maxStack + effect.delta <= StackLimit
        /\ effect.memory \subseteq MemoryRegions[op.memorySize]
        /\ Validates(op)

\* It is not stricter than that either: with an operand less, or one more
\* item on a stack it accepts, the operation would be wrong.
Tight(op) ==
    LET effect == EffectOf(op)
    IN  /\ op.execute # "opUndefined" => op.minStack = effect.reads
        /\ op.maxStack + effect.delta = StackLimit
============================================================================
