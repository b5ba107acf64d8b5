-------------------------------- MODULE MCEVM --------------------------------
(* Small programs, accounts and sessions of the virtual machine for TLC.    *)
EXTENDS EVM

B(name) == OpCode[name]
Times(n, name) == [i \in 1..n |-> B(name)]
Asm(names) == [i \in DOMAIN names |-> B(names[i])]

\* PC stands for any instruction that pushes: what is found is chosen anyway.
MCPrograms == <<
    \* 1: a call, a write that follows it, and the end
    Times(7, "PC") \o Asm(<<"CALL", "PC", "SSTORE", "STOP">>),
    \* 2: a write, then a return or a revert
    Asm(<<"PC", "PC", "SSTORE", "PC", "PC", "JUMPI", "PC", "PC", "RETURN", "JUMPDEST", "PC", "PC",
          "REVERT">>),
    \* 3: a static call
    Times(6, "PC") \o Asm(<<"STATICCALL", "PC", "SSTORE">>),
    \* 4: code of another account, twice
    Times(6, "PC") \o Asm(<<"DELEGATECALL">>) \o Times(6, "PC") \o Asm(<<"CALLCODE">>),
    \* 5: two creates
    Times(3, "PC") \o Asm(<<"CREATE">>) \o Times(3, "PC") \o Asm(<<"CREATE2">>),
    \* 6: the end of an account
    Asm(<<"PC", "SELFDESTRUCT">>),
    \* 7: memory
    Asm(<<"PC", "PC", "MSTORE", "PC", "PC", "PC", "CALLDATACOPY", "PC", "PC", "KECCAK256", "PC",
          "LOG0", "PC", "MLOAD", "PC", "RETURN">>),
    \* 8: a loop that grows the stack
    Asm(<<"JUMPDEST", "PC", "PC", "JUMP">>),
    \* 9: jumps among the data of pushes
    Asm(<<"PC", "JUMP">>) \o Times(4, "JUMPDEST") \o <<B("PUSH1") + 1>> \o Times(4, "JUMPDEST")
        \o <<B("PUSH1") + 16>> \o Times(18, "JUMPDEST") \o <<B("PUSH1") + 7>> \o Times(9, "JUMPDEST"),
    \* 10: a contract is returned
    Asm(<<"PC", "PC", "RETURN">>),
    \* 11: reads of what may be cold
    Asm(<<"PC", "SLOAD", "BALANCE", "PC", "PC", "PC", "EXTCODECOPY", "PC", "PC", "PC",
          "RETURNDATACOPY", "PC", "PC", "TSTORE", "PC", "PC", "EXP", "INVALID">>),
    \* 12: writes of one slot
    Asm(<<"PC", "PC", "SSTORE", "PC", "PC", "SSTORE", "PC", "PC", "SSTORE", "STOP">>)
    >>

Zeros == [i \in 1..17 |-> 0]
Found(list) == [i \in 1..17 |-> IF i <= Len(list) THEN list[i] ELSE 0]

Big == 2^24        \* the least word that is not a uint64
Asked == {300, Big}

MCOperands ==
    [opCall    |-> {Found(<<g, to, v>>) : g \in Asked, to \in {1, 3, 4, 5}, v \in {0, 1}}
                   \cup {Found(<<Big, 4, 0, 0, 33, Big, 1>>), Found(<<Big, 4, 0, Big, 0, 64, 32>>)},
     opCallCode |-> {Found(<<Big, 4, v>>) : v \in {0, 1}},
     opDelegateCall |-> {Found(<<Big, to>>) : to \in {1, 4}},
     opStaticCall |-> {Found(<<g, to>>) : g \in Asked, to \in {1, 4, 5}},
     opCreate  |-> {Found(<<v, 0, n>>) : v \in {0, 1}, n \in {0, 1}},
     opCreate2 |-> {Found(<<0, 0, n>>) : n \in {1}},
     opJump    |-> {Found(<<d>>) : d \in 0..48},
     opJumpi   |-> {Found(<<9, c>>) : c \in {0, 1}} \cup {Found(<<8, 1>>)},
     opSstore  |-> {Found(<<0, v>>) : v \in 0..2},
     opReturn  |-> {Found(<<0, n>>) : n \in {0, 1, 40}},
     opRevert  |-> {Zeros},
     opSelfdestruct |-> {Found(<<a>>) : a \in {3, 4, 5}},
     opSelfdestruct6780 |-> {Found(<<a>>) : a \in {3, 4}},
     opMstore  |-> {Found(<<o>>) : o \in {0, 40, Big - 8, Big}},
     opCallDataCopy |-> {Found(<<o, 0, n>>) : o \in {0, 31}, n \in {0, 2, Big - 1}},
     opKeccak256 |-> {Found(<<0, n>>) : n \in {32, 200}},
     makeLog   |-> {Found(<<0, n>>) : n \in {0, 32}},
     opBalance |-> {Found(<<a>>) : a \in {3, 5}},
     opExtCodeCopy |-> {Found(<<4, 0, 0, n>>) : n \in {0, 32}},
     opReturnDataCopy |-> {Found(<<0, 0, 1>>)},
     opExp     |-> {Found(<<2, e>>) : e \in {0, 300}}]

MCPrice ==
    [GasQuickStep |-> 2, GasFastestStep |-> 3, GasFastStep |-> 5, GasMidStep |-> 8,
     GasSlowStep |-> 10, GasExtStep |-> 20, JumpdestGas |-> 1,
     Keccak256Gas |-> 30, Keccak256WordGas |-> 6, CopyGas |-> 3, MemoryGas |-> 3, QuadCoeffDiv |-> 512,
     LogGas |-> 375, LogTopicGas |-> 375, LogDataGas |-> 8,
     ExpGas |-> 10, ExpByteFrontier |-> 10, ExpByteEIP158 |-> 50,
     BalanceGasFrontier |-> 20, BalanceGasEIP150 |-> 400, BalanceGasEIP1884 |-> 700,
     ExtcodeSizeGasFrontier |-> 20, ExtcodeSizeGasEIP150 |-> 700,
     ExtcodeCopyBaseFrontier |-> 20, ExtcodeCopyBaseEIP150 |-> 700,
     ExtcodeHashGasConstantinople |-> 400, ExtcodeHashGasEIP1884 |-> 700,
     SloadGasFrontier |-> 50, SloadGasEIP150 |-> 200, SloadGasEIP1884 |-> 800, SloadGasEIP2200 |-> 800,
     CallGasFrontier |-> 40, CallGasEIP150 |-> 700, CallStipend |-> 2300,
     CallNewAccountGas |-> 25000, CallValueTransferGas |-> 9000,
     CreateGas |-> 32000, Create2Gas |-> 32000, CreateDataGas |-> 200,
     InitCodeWordGas |-> 2, MaxInitCodeSize |-> 64, MaxCodeSize |-> 32,
     SelfdestructGasEIP150 |-> 5000, CreateBySelfdestructGas |-> 25000, SelfdestructRefundGas |-> 24000,
     SstoreSetGas |-> 20000, SstoreResetGas |-> 5000, SstoreClearGas |-> 5000, SstoreRefundGas |-> 15000,
     NetSstoreNoopGas |-> 200, NetSstoreInitGas |-> 20000, NetSstoreCleanGas |-> 5000,
     NetSstoreDirtyGas |-> 200, NetSstoreClearRefund |-> 15000, NetSstoreResetClearRefund |-> 19800,
     NetSstoreResetRefund |-> 4800,
     SstoreSentryGasEIP2200 |-> 2300, SstoreSetGasEIP2200 |-> 20000, SstoreResetGasEIP2200 |-> 5000,
     SstoreClearsScheduleRefundEIP2200 |-> 15000, SstoreClearsScheduleRefundEIP3529 |-> 4800,
     ColdAccountAccessCostEIP2929 |-> 2600, ColdSloadCostEIP2929 |-> 2100,
     WarmStorageReadCostEIP2929 |-> 100]

MCTargets == {B("MSTORE"), B("STATICCALL")}

MCAccounts == 1..6

\* A session: account 3 is entered and has the first program, account 4 the
\* second; their slots hold the value.
Session(fork, infinite, entries, main, helper, gas, value) ==
    [config |-> [fork |-> fork, eip |-> 0], infinite |-> infinite, entries |-> entries,
     sender |-> 2, to |-> 3, gas |-> gas,
     code |-> [a \in MCAccounts |-> IF a = 3 THEN main ELSE IF a = 4 THEN helper ELSE 0],
     slot |-> [a \in MCAccounts |-> IF (a = 3 /\ main # 0) \/ (a = 4 /\ helper # 0) THEN value ELSE 0]]

Tx(fork, main, helper, gas) == Session(fork, FALSE, {"call"}, main, helper, gas, 1)

Proposed(fork, eip) == [Tx(fork, 10, 0, 40) EXCEPT !.config.eip = eip]

\* The forks between them have every gas function; a session with little gas
\* runs out of it on its way.
MCSessions ==
    {Tx(f, 1, 2, 40000) : f \in {"Homestead", "Constantinople", "London"}}
    \cup {Tx(f, 1, 2, 3000) : f \in {"Homestead", "London"}}
    \cup {Tx(f, 3, 2, 40000) : f \in {"Byzantium", "Istanbul"}}
    \cup {Tx(f, 3, 1, 40000) : f \in {"Byzantium"}}
    \cup {Tx(f, 4, 2, 60000) : f \in {"TangerineWhistle", "Berlin"}}
    \cup {Tx(f, 5, 0, 90000) : f \in {"Homestead", "Shanghai"}}
    \cup {Tx(f, 6, 0, 60000) : f \in {"Frontier", "London", "Cancun"}}
    \cup {Tx(f, 7, 0, g) : f \in {"Frontier", "Cancun"}, g \in {60, 1000, 100000}}
    \cup {Session(f, FALSE, {"call"}, 12, 0, 70000, v) :
            f \in {"Frontier", "Constantinople", "Petersburg", "Istanbul", "Berlin", "London"}, v \in {0, 1}}
    \cup {Tx("London", 8, 0, 300), Tx("London", 9, 0, 300), Tx("Cancun", 11, 0, 20000)}
    \cup {[Tx("Cancun", 2, 0, 30000) EXCEPT !.entries = {"call", "cancel"}]}
    \cup {[Tx(f, 0, 0, g) EXCEPT !.entries = {"create"}] :
            f \in {"Frontier", "Homestead", "London"}, g \in {30, 300, 30000}}
    \cup {Session("Berlin", TRUE, {"call"}, 4, 2, 0, 1), Session("Cancun", TRUE, {"call"}, 7, 0, 0, 1)}
    \cup {Session("London", FALSE, LiteKinds, 3, 2, 20000, 1)}
    \cup {Session("London", TRUE, LiteKinds \cup {"call"}, 7, 0, 0, 1)}
    \cup {Proposed(p[1], p[2]) : p \in {<<"London", 3855>>, <<"Istanbul", 2929>>, <<"Shanghai", 1153>>,
                                       <<"London", 5656>>, <<"Homestead", 1344>>}}
============================================================================
