------------------------------ MODULE GasRules ------------------------------
(* The dynamic gas functions, with the width of the machine's integers.    *)
(* A function is given what its Go namesake reads (the rules of the chain, *)
(* the frame's account and gas, its memory, the size an instruction asks   *)
(* of it, the operands, the state) and quotes a cost; what it changes on   *)
(* the way, the frame's gas, the memory's last fee, the state and the gas  *)
(* set aside for a call, is part of the quote.                             *)
EXTENDS Instructions

CONSTANTS Width,       \* bits of an unsigned integer of the machine
          MaxMemory,   \* the size memoryGasCost refuses to go beyond
          Price        \* what the named gas constants are

Top == 2^Width - 1

MaxWords == MaxMemory \div WordBytes

\* params.MaxMemory, 0x1FFFFFFFE0, is the largest size whose square in words does
\* not overflow, and far from the largest integer.
ASSUME WidthAssumption ==
    /\ Width \in Nat
    /\ MaxMemory \in Nat /\ MaxMemory + WordBytes <= Top + 1
    /\ MaxWords * MaxWords <= Top

\* The constants of params and gas.go.
Prices ==
    {"GasQuickStep", "GasFastestStep", "GasFastStep", "GasMidStep", "GasSlowStep", "GasExtStep",
     "JumpdestGas", "Keccak256Gas", "Keccak256WordGas", "CopyGas", "MemoryGas", "QuadCoeffDiv",
     "LogGas", "LogTopicGas", "LogDataGas", "ExpGas", "ExpByteFrontier", "ExpByteEIP158",
     "BalanceGasFrontier", "BalanceGasEIP150", "BalanceGasEIP1884",
     "ExtcodeSizeGasFrontier", "ExtcodeSizeGasEIP150", "ExtcodeCopyBaseFrontier",
     "ExtcodeCopyBaseEIP150", "ExtcodeHashGasConstantinople", "ExtcodeHashGasEIP1884",
     "SloadGasFrontier", "SloadGasEIP150", "SloadGasEIP1884", "SloadGasEIP2200",
     "CallGasFrontier", "CallGasEIP150", "CallStipend", "CallNewAccountGas", "CallValueTransferGas",
     "CreateGas", "Create2Gas", "CreateDataGas", "InitCodeWordGas", "MaxInitCodeSize", "MaxCodeSize",
     "SelfdestructGasEIP150", "CreateBySelfdestructGas", "SelfdestructRefundGas",
     "SstoreSetGas", "SstoreResetGas", "SstoreClearGas", "SstoreRefundGas",
     "NetSstoreNoopGas", "NetSstoreInitGas", "NetSstoreCleanGas", "NetSstoreDirtyGas",
     "NetSstoreClearRefund", "NetSstoreResetClearRefund", "NetSstoreResetRefund",
     "SstoreSentryGasEIP2200", "SstoreSetGasEIP2200", "SstoreResetGasEIP2200",
     "SstoreClearsScheduleRefundEIP2200", "SstoreClearsScheduleRefundEIP3529",
     "ColdAccountAccessCostEIP2929", "ColdSloadCostEIP2929", "WarmStorageReadCostEIP2929"}

\* The last: what a call may cost besides the gas it is given is little beside
\* the largest integer (2^56 and 2^58), since one addition to it is not checked.
ASSUME PriceAssumption ==
    /\ Price \in [Prices -> 1..Top]
    /\ Price["CallStipend"] <= Price["CallValueTransferGas"]
    /\ Price["WarmStorageReadCostEIP2929"] <= Price["ColdAccountAccessCostEIP2929"]
    /\ Price["SloadGasEIP2200"] <= Price["SstoreSetGasEIP2200"]
    /\ Price["SloadGasEIP2200"] <= Price["SstoreResetGasEIP2200"]
    /\ Price["WarmStorageReadCostEIP2929"] <= Price["SstoreSetGasEIP2200"]
    /\ Price["ColdSloadCostEIP2929"] + Price["WarmStorageReadCostEIP2929"] <= Price["SstoreResetGasEIP2200"]
    /\ MaxWords * Price["MemoryGas"] + (MaxWords * MaxWords) \div Price["QuadCoeffDiv"]
       + Price["CallNewAccountGas"] + Price["CallValueTransferGas"]
       + Price["ColdAccountAccessCostEIP2929"] <= Top \div 64

Cost(gas) == IF gas = "Free" THEN 0 ELSE Price[gas]

----------------------------------------------------------------------------
(* Arithmetic                                                              *)

Refused == -1   \* the error of a checked operation; it stays one

Wrap(x) == x % (Top + 1)

SafeAdd(a, b) == IF a = Refused \/ b = Refused \/ a + b > Top THEN Refused ELSE a + b

SafeMul(a, b) ==
    IF a = Refused \/ b = Refused \/ (a # 0 /\ b > Top \div a) THEN Refused ELSE a * b

IsUint64(word) == word <= Top
Uint64(word) == IF IsUint64(word) THEN word ELSE Refused

toWordSize(size) ==
    IF size > Top - (WordBytes - 1) THEN Top \div WordBytes + 1
    ELSE (size + (WordBytes - 1)) \div WordBytes

calcMemSize64(off, len) ==
    IF ~IsUint64(len) THEN Refused
    ELSE IF len = 0 THEN 0
    ELSE SafeAdd(Uint64(off), len)

Largest(S) == CHOOSE x \in S : \A y \in S : y <= x

\* The n-th operand from the top.
Back(operands, n) == operands[n + 1]

Extent(region, operands) ==
    calcMemSize64(Back(operands, region.off),
                  IF region.len = -1 THEN region.bytes ELSE Back(operands, region.len))

\* The memory an instruction asks for, in bytes of whole words.
MemorySize(op, operands) ==
    LET ends == {Extent(r, operands) : r \in MemoryRegions[op.memorySize]}
    IN  IF Refused \in ends THEN Refused
        ELSE SafeMul(toWordSize(Largest(ends \cup {0})), WordBytes)

----------------------------------------------------------------------------
(* The state the rules look at                                             *)

Exist(w, a) == a \in w.exist
Empty(w, a) == w.nonce[a] = 0 /\ w.balance[a] = 0 /\ w.code[a] = 0

AddRefund(w, gas) == [w EXCEPT !.refund = @ + gas]
AddAddressToAccessList(w, a) == [w EXCEPT !.warm = @ \cup {a}]
AddSlotToAccessList(w, a) == [w EXCEPT !.warm = @ \cup {a}, !.warmSlots = @ \cup {a}]

----------------------------------------------------------------------------
(* Quotes.  c is the context: [fork, self, gas, memory, fee, size,         *)
(* operands, n, world, temp]; memory and size are in bytes.                *)

Quote(c, cost) == [cost |-> cost, gas |-> c.gas, fee |-> c.fee, world |-> c.world,
                   temp |-> c.temp, fault |-> "none"]

Plus(q, cost) == [q EXCEPT !.cost = SafeAdd(@, cost)]

TotalFee(words) == Wrap(Wrap(words * Price["MemoryGas"])
                        + Wrap(words * words) \div Price["QuadCoeffDiv"])

\* Slips a change to the code could make, each in the place of the definition
\* it is named after: the fee that was paid is not remembered.
memoryGasCost_KeepsFee(c) ==
    IF c.size = 0 \/ toWordSize(c.size) * WordBytes <= c.memory THEN Quote(c, 0)
    ELSE IF c.size > MaxMemory THEN Quote(c, Refused)
    ELSE Quote(c, Wrap(TotalFee(toWordSize(c.size)) - c.fee))

memoryGasCost(c) ==
    LET total == TotalFee(toWordSize(c.size))
    IN  IF c.size = 0 THEN Quote(c, 0)
        ELSE IF c.size > MaxMemory THEN Quote(c, Refused)
        ELSE IF toWordSize(c.size) * WordBytes <= c.memory THEN Quote(c, 0)
        ELSE [Quote(c, Wrap(total - c.fee)) EXCEPT !.fee = total]

\* So many units of a price for every word of an operand.
PerWord(c, n, price) == SafeMul(IF IsUint64(Back(c.operands, n))
                                THEN toWordSize(Back(c.operands, n)) ELSE Refused, price)

memoryCopierGas(c, stackpos) ==
    Plus(memoryGasCost(c), PerWord(c, stackpos, Price["CopyGas"]))

gasKeccak256(c) == Plus(memoryGasCost(c), PerWord(c, 1, Price["Keccak256WordGas"]))

makeGasLog(c) ==
    Plus(Plus(Plus(memoryGasCost(c), Price["LogGas"]), c.n * Price["LogTopicGas"]),
         SafeMul(Uint64(Back(c.operands, 1)), Price["LogDataGas"]))

gasCreate2(c) == Plus(memoryGasCost(c), PerWord(c, 2, Price["Keccak256WordGas"]))

\* The init code is charged by the word, and limited.
InitCode(c, price) ==
    Plus(memoryGasCost(c),
         IF Back(c.operands, 2) > Price["MaxInitCodeSize"] THEN Refused
         ELSE price * ((Back(c.operands, 2) + (WordBytes - 1)) \div WordBytes))

gasCreateEip3860(c) == InitCode(c, Price["InitCodeWordGas"])
gasCreate2Eip3860(c) == InitCode(c, Price["InitCodeWordGas"] + Price["Keccak256WordGas"])

\* The exponent is charged by the byte.
ByteLen(word) ==
    CHOOSE k \in 0..WordBytes : word < 256^k /\ ~\E j \in 0..(k - 1) : word < 256^j
gasExp(c, price) == Quote(c, SafeAdd(ByteLen(Back(c.operands, 1)) * Price[price], Price["ExpGas"]))

----------------------------------------------------------------------------
(* Storage                                                                 *)

\* Slips a change to the code could make, each in the place of the definition
\* it is named after: clearing a slot for the first time earns nothing.
Cleared_Later(p, original, current, value) ==
    IF original # 0 /\ current \notin {0, original} /\ value = 0 THEN p.clear ELSE 0

Cleared(p, original, current, value) ==
    IF original # 0 /\ current # 0 /\ value = 0 THEN p.clear ELSE 0

\* What a write costs and refunds under net metering; the fault is a refund
\* counter that would be taken below zero.
NetMetered(c, p) ==
    LET current  == c.world.slot[c.self]
        original == c.world.committed[c.self]
        value    == Back(c.operands, 1)
        cleared  == Cleared(p, original, current, value)
        taken    == IF original # 0 /\ current = 0 THEN p.clear ELSE 0
        restored == IF original # value THEN 0 ELSE IF original = 0 THEN p.unset ELSE p.unreset
        Refunding(cost, sub, add) ==
            [Quote(c, cost) EXCEPT !.world = AddRefund(c.world, add - sub),
                                   !.fault = IF sub > c.world.refund THEN "refund" ELSE "none"]
    IN  IF current = value THEN Quote(c, p.noop)
        ELSE IF original = current
             THEN IF original = 0 THEN Quote(c, p.set) ELSE Refunding(p.reset, 0, cleared)
        ELSE Refunding(p.dirty, taken, cleared + restored)

NetSstore == [noop |-> Price["NetSstoreNoopGas"], set |-> Price["NetSstoreInitGas"],
              reset |-> Price["NetSstoreCleanGas"], dirty |-> Price["NetSstoreDirtyGas"],
              clear |-> Price["NetSstoreClearRefund"], unset |-> Price["NetSstoreResetClearRefund"],
              unreset |-> Price["NetSstoreResetRefund"]]

\* Before net metering, and again in Petersburg.
gasSStore(c) ==
    LET current == c.world.slot[c.self]
        value   == Back(c.operands, 1)
    IN  IF Since(c.fork, "Constantinople") /\ ~Since(c.fork, "Petersburg") THEN NetMetered(c, NetSstore)
        ELSE IF current = 0 /\ value # 0 THEN Quote(c, Price["SstoreSetGas"])
        ELSE IF current # 0 /\ value = 0
             THEN [Quote(c, Price["SstoreClearGas"]) EXCEPT
                      !.world = AddRefund(@, Price["SstoreRefundGas"])]
        ELSE Quote(c, Price["SstoreResetGas"])

EIP2200Sstore ==
    [noop |-> Price["SloadGasEIP2200"], set |-> Price["SstoreSetGasEIP2200"],
     reset |-> Price["SstoreResetGasEIP2200"], dirty |-> Price["SloadGasEIP2200"],
     clear |-> Price["SstoreClearsScheduleRefundEIP2200"],
     unset |-> Price["SstoreSetGasEIP2200"] - Price["SloadGasEIP2200"],
     unreset |-> Price["SstoreResetGasEIP2200"] - Price["SloadGasEIP2200"]]

gasSStoreEIP2200(c) ==
    IF c.gas <= Price["SstoreSentryGasEIP2200"] THEN Quote(c, Refused)
    ELSE NetMetered(c, EIP2200Sstore)

EIP2929Sstore(clearingRefund) ==
    LET reset == Price["SstoreResetGasEIP2200"] - Price["ColdSloadCostEIP2929"]
        warm  == Price["WarmStorageReadCostEIP2929"]
    IN  [noop |-> warm, set |-> Price["SstoreSetGasEIP2200"], reset |-> reset, dirty |-> warm,
         clear |-> clearingRefund, unset |-> Price["SstoreSetGasEIP2200"] - warm,
         unreset |-> reset - warm]

\* A slot of an account that was never made warm is the canary's impossible case.
makeGasSStoreFunc(c, clearingRefund) ==
    LET cold == c.self \notin c.world.warmSlots
        listed == IF cold THEN AddSlotToAccessList(c.world, c.self) ELSE c.world
        q == NetMetered([c EXCEPT !.world = listed], EIP2929Sstore(clearingRefund))
    IN  IF c.gas <= Price["SstoreSentryGasEIP2200"] THEN Quote(c, Refused)
        ELSE IF cold /\ c.self \notin c.world.warm THEN [Quote(c, Refused) EXCEPT !.fault = "canary"]
        ELSE [q EXCEPT !.cost = @ + IF cold THEN Price["ColdSloadCostEIP2929"] ELSE 0]

gasSLoadEIP2929(c) ==
    IF c.self \in c.world.warmSlots THEN Quote(c, Price["WarmStorageReadCostEIP2929"])
    ELSE [Quote(c, Price["ColdSloadCostEIP2929"]) EXCEPT !.world = AddSlotToAccessList(@, c.self)]

----------------------------------------------------------------------------
(* Other accounts                                                          *)

coldCost == Price["ColdAccountAccessCostEIP2929"] - Price["WarmStorageReadCostEIP2929"]

\* The first access of an account costs the difference and makes it warm.
Accessed(c, q, a) ==
    IF a \in c.world.warm \/ q.cost = Refused THEN q
    ELSE [Plus(q, coldCost) EXCEPT !.world = AddAddressToAccessList(@, a)]

gasExtCodeCopyEIP2929(c) == Accessed(c, memoryCopierGas(c, 3), Back(c.operands, 0))
gasEip2929AccountCheck(c) == Accessed(c, Quote(c, 0), Back(c.operands, 0))

\* The gas a call may have of what is available once base is paid.
callGas(isEip150, availableGas, base, callCost) ==
    LET left == Wrap(availableGas - base)
        gas  == left - left \div 64
    IN  IF isEip150 /\ (~IsUint64(callCost) \/ gas < callCost) THEN gas
        ELSE IF ~IsUint64(callCost) THEN Refused
        ELSE callCost

\* The gas for the callee is set aside in callGasTemp and part of the cost.
WithCallGas(c, q) ==
    LET gas == callGas(Since(c.fork, "TangerineWhistle"), c.gas, q.cost, Back(c.operands, 0))
    IN  IF q.cost = Refused THEN q
        ELSE [Plus(q, gas) EXCEPT !.temp = IF gas = Refused THEN 0 ELSE gas]

gasCall(c) ==
    LET to        == Back(c.operands, 1)
        transfers == Back(c.operands, 2) # 0
        isNew     == IF Since(c.fork, "SpuriousDragon") THEN transfers /\ Empty(c.world, to)
                     ELSE ~Exist(c.world, to)
        base      == (IF isNew THEN Price["CallNewAccountGas"] ELSE 0)
                     + (IF transfers THEN Price["CallValueTransferGas"] ELSE 0)
    IN  WithCallGas(c, Plus(memoryGasCost(c), base))

gasCallCode(c) ==
    WithCallGas(c, Plus(memoryGasCost(c),
                        IF Back(c.operands, 2) # 0 THEN Price["CallValueTransferGas"] ELSE 0))

gasDelegateCall(c) == WithCallGas(c, memoryGasCost(c))
gasStaticCall(c) == WithCallGas(c, memoryGasCost(c))

GasOfCall(name, c) ==
    CASE name = "gasCall"         -> gasCall(c)
      [] name = "gasCallCode"     -> gasCallCode(c)
      [] name = "gasDelegateCall" -> gasDelegateCall(c)
      [] name = "gasStaticCall"   -> gasStaticCall(c)

\* The cold cost is taken before the old calculator asks what is available,
\* given back after it, and added to the cost; after an error it stays taken.
makeCallVariantGasCallEIP2929(c, oldCalculator) ==
    LET to   == Back(c.operands, 1)
        cold == [c EXCEPT !.world = AddAddressToAccessList(@, to), !.gas = @ - coldCost]
        q    == GasOfCall(oldCalculator, cold)
    IN  IF to \in c.world.warm THEN GasOfCall(oldCalculator, c)
        ELSE IF c.gas < coldCost
        THEN [Quote(c, Refused) EXCEPT !.world = AddAddressToAccessList(@, to)]
        ELSE IF q.cost = Refused THEN q
        ELSE [q EXCEPT !.cost = Wrap(@ + coldCost), !.gas = Wrap(@ + coldCost)]

\* The refund for an account that was not yet destroyed.
DestructRefund(w, self) ==
    IF self \in w.dead THEN w ELSE AddRefund(w, Price["SelfdestructRefundGas"])

gasSelfdestruct(c) ==
    LET to    == Back(c.operands, 0)
        isNew == IF Since(c.fork, "SpuriousDragon")
                 THEN Empty(c.world, to) /\ c.world.balance[c.self] # 0
                 ELSE ~Exist(c.world, to)
        cost  == IF ~Since(c.fork, "TangerineWhistle") THEN 0
                 ELSE Price["SelfdestructGasEIP150"]
                      + IF isNew THEN Price["CreateBySelfdestructGas"] ELSE 0
    IN  [Quote(c, cost) EXCEPT !.world = DestructRefund(@, c.self)]

makeSelfdestructGasFn(c, refundsEnabled) ==
    LET to    == Back(c.operands, 0)
        cold  == IF to \in c.world.warm THEN 0 ELSE Price["ColdAccountAccessCostEIP2929"]
        isNew == Empty(c.world, to) /\ c.world.balance[c.self] # 0
        w     == AddAddressToAccessList(c.world, to)
    IN  [Quote(c, cold + IF isNew THEN Price["CreateBySelfdestructGas"] ELSE 0) EXCEPT
            !.world = IF refundsEnabled THEN DestructRefund(w, c.self) ELSE w]

----------------------------------------------------------------------------
\* An operation without a dynamic gas function asks for nothing.
dynamicGas(name, c) ==
    CASE name \in {"gasReturn", "gasRevert", "gasMLoad", "gasMStore8", "gasMStore", "gasCreate"}
            -> memoryGasCost(c)
      [] name \in {"gasCallDataCopy", "gasCodeCopy", "gasMcopy", "gasReturnDataCopy"}
            -> memoryCopierGas(c, 2)
      [] name = "gasExtCodeCopy"     -> memoryCopierGas(c, 3)
      [] name = "gasKeccak256"       -> gasKeccak256(c)
      [] name = "makeGasLog"         -> makeGasLog(c)
      [] name = "gasExpFrontier"     -> gasExp(c, "ExpByteFrontier")
      [] name = "gasExpEIP158"       -> gasExp(c, "ExpByteEIP158")
      [] name = "gasCreate2"         -> gasCreate2(c)
      [] name = "gasCreateEip3860"   -> gasCreateEip3860(c)
      [] name = "gasCreate2Eip3860"  -> gasCreate2Eip3860(c)
      [] name = "gasSStore"          -> gasSStore(c)
      [] name = "gasSStoreEIP2200"   -> gasSStoreEIP2200(c)
      [] name = "gasSStoreEIP2929"
            -> makeGasSStoreFunc(c, Price["SstoreClearsScheduleRefundEIP2200"])
      [] name = "gasSStoreEIP3529"
            -> makeGasSStoreFunc(c, Price["SstoreClearsScheduleRefundEIP3529"])
      [] name = "gasSLoadEIP2929"        -> gasSLoadEIP2929(c)
      [] name = "gasExtCodeCopyEIP2929"  -> gasExtCodeCopyEIP2929(c)
      [] name = "gasEip2929AccountCheck" -> gasEip2929AccountCheck(c)
      [] name \in {"gasCall", "gasCallCode", "gasDelegateCall", "gasStaticCall"}
            -> GasOfCall(name, c)
      [] name = "gasCallEIP2929"         -> makeCallVariantGasCallEIP2929(c, "gasCall")
      [] name = "gasCallCodeEIP2929"     -> makeCallVariantGasCallEIP2929(c, "gasCallCode")
      [] name = "gasDelegateCallEIP2929" -> makeCallVariantGasCallEIP2929(c, "gasDelegateCall")
      [] name = "gasStaticCallEIP2929"   -> makeCallVariantGasCallEIP2929(c, "gasStaticCall")
      [] name = "gasSelfdestruct"        -> gasSelfdestruct(c)
      [] name = "gasSelfdestructEIP2929" -> makeSelfdestructGasFn(c, TRUE)
      [] name = "gasSelfdestructEIP3529" -> makeSelfdestructGasFn(c, FALSE)
      [] OTHER -> Quote(c, 0)
============================================================================
