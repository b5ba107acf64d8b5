---------------------------- MODULE CodeAnalysis ----------------------------
(* Which bytes of a program are instructions and which are the data of a   *)
(* push: the bit vector a jump is checked against.  A byte of the vector   *)
(* is the set of its bits that are set; code is a sequence of bytes, at    *)
(* the positions 0 .. Len(code) - 1.                                       *)
EXTENDS OpCodes, Integers

At(code, pos) == code[pos + 1]

\* GetOp: the program ends in STOPs.
GetOp(code, pc) == IF pc < Len(code) THEN At(code, pc) ELSE OpCode["STOP"]

----------------------------------------------------------------------------
Bits == 0..7

\* The bits of byte(0xFF << (pos % 8)).
UpFrom(pos) == (pos % 8)..7

Or(bits, byte, set) == [bits EXCEPT ![byte] = @ \cup set]

set1(bits, pos) == Or(bits, pos \div 8, {pos % 8})

\* Slips a change to the code could make, each in the place of the definition
\* it is named after: the half in the next byte is lost.
setN_LowHalf(bits, n, pos) ==
    Or(bits, pos \div 8, ((pos % 8)..((pos % 8) + n - 1)) \cap Bits)

\* The low half of the shifted flag is added, the high half is stored, if any.
setN(bits, n, pos) ==
    LET shifted == (pos % 8)..((pos % 8) + n - 1)
        high    == {b - 8 : b \in shifted \ Bits}
        low     == Or(bits, pos \div 8, shifted \cap Bits)
    IN  IF high = {} THEN low ELSE [low EXCEPT ![pos \div 8 + 1] = high]

set8(bits, pos) ==
    [Or(bits, pos \div 8, UpFrom(pos)) EXCEPT ![pos \div 8 + 1] = Bits \ UpFrom(pos)]

set16(bits, pos) ==
    [Or(bits, pos \div 8, UpFrom(pos)) EXCEPT ![pos \div 8 + 1] = Bits,
                                              ![pos \div 8 + 2] = Bits \ UpFrom(pos)]

codeSegment(bits, pos) == pos % 8 \notin bits[pos \div 8]

\* The scan of the code: where it is, and the bits it has set.
Marked(scan, size) ==
    [pc |-> scan.pc + size,
     bits |-> CASE size = 16 -> set16(scan.bits, scan.pc)
                [] size = 8  -> set8(scan.bits, scan.pc)
                [] size = 1  -> set1(scan.bits, scan.pc)
                [] size \in 2..7 -> setN(scan.bits, size, scan.pc)
                [] OTHER     -> scan.bits]

MarkedIf(cond, scan, size) == IF cond THEN Marked(scan, size) ELSE scan

Int8(byte) == IF byte < 128 THEN byte ELSE byte - 256

\* One instruction: a push marks its data sixteen bytes at a time, then eight,
\* then the rest.
Scanned(code, scan) ==
    LET op == At(code, scan.pc)
        n  == op - OpCode["PUSH1"] + 1
        s0 == [scan EXCEPT !.pc = @ + 1]
        s1 == MarkedIf(n >= 16, s0, 16)
        s2 == MarkedIf(n >= 32, s1, 16)
        s3 == MarkedIf(n % 16 >= 8, s2, 8)
    IN  IF scan.pc >= Len(code) THEN scan
        ELSE IF Int8(op) < Int8(OpCode["PUSH1"]) THEN s0
        ELSE Marked(s3, n % 8)

codeBitmap(code) ==
    LET Scan[i \in 0..Len(code)] ==
            IF i = 0 THEN [pc |-> 0, bits |-> [b \in 0..(Len(code) \div 8 + 4) |-> {}]]
            ELSE Scanned(code, Scan[i - 1])
    IN  Scan[Len(code)].bits

\* A destination must be in the code, a JUMPDEST, and not data.
validJumpdest(code, bitmap, dest) ==
    /\ dest < Len(code)
    /\ At(code, dest) = OpCode["JUMPDEST"]
    /\ codeSegment(bitmap, dest)

----------------------------------------------------------------------------
(* The reference: the instructions of a program start where the one before *)
(* them, and its data, end.                                                *)

InstructionStarts(code) ==
    LET Start[i \in 0..Len(code)] ==
            IF i = 0 THEN 0
            ELSE LET p == Start[i - 1]
                     op == GetOp(code, p)
                 IN  p + 1 + IF IsPush(op) THEN op - OpCode["PUSH1"] + 1 ELSE 0
    IN  {Start[i] : i \in 0..Len(code)}
============================================================================
