--------------------------------- MODULE EVM ---------------------------------
(* The virtual machine: the frames of nested calls and creates, each run by *)
(* the interpreter one instruction at a time, over a state that a failing   *)
(* call must leave as it found it.  Two kinds of session are modelled: a    *)
(* transaction with metered gas, and the work of the SVE, which runs with   *)
(* infinite gas and enters contracts by the loops of sve_interpreter.go     *)
(* ("lite" frames), with no snapshot and no access list of its own.         *)
(* Stacks are modelled by their height; what an instruction finds on the    *)
(* stack is chosen from Operands.                                           *)
EXTENDS GasRules, CodeAnalysis

CONSTANTS Sessions,         \* what may be run; see Init
          Programs,         \* the codes; an account names its own, 0 is none
          Accounts,         \* addresses
          Precompiles,      \* those of precompiled contracts
          PrecompileCosts,  \* what running one may cost
          CreateAddresses,  \* what the hash that names a new contract may be
          InitPrograms,     \* what memory may hold as the code of a create
          Deployed,         \* the program of the code a create returns
          CallCreateDepth,  \* params.CallCreateDepth
          Operands,         \* by execute function, what it may find, top first
          NoOperands,       \* what every other instruction finds
          Overrides,        \* the pcs of a StackOverride
          TargetOpCodes,    \* the opcodes of a DebugCfg
          CheckpointItems,  \* its StackLen
          MaxCalls          \* bound on the frames of a session that gas does not bound

\* Only an account has storage.  The gas functions of EIP-2929 add to what those
\* before them quote, and count on the rule of EIP-150: no call takes it all.
ASSUME SessionsAssumption ==
    \A s \in Sessions :
        /\ s.sender \in Accounts /\ s.to \in Accounts
        /\ s.code \in [Accounts -> Nat] /\ s.slot \in [Accounts -> Nat]
        /\ \A a \in Accounts : s.code[a] \in {0} \cup DOMAIN Programs
        /\ s.gas \in 0..Top /\ s.config.fork \in DOMAIN SetOf
        /\ s.config.eip = 2929 => Since(s.config.fork, "TangerineWhistle")
        /\ \A a \in Accounts \ {s.sender} : s.code[a] = 0 => s.slot[a] = 0

ASSUME ProgramsAssumption ==
    /\ \A p \in DOMAIN Programs : Programs[p] \in Seq(Bytes)
    /\ InitPrograms \cup {Deployed} \subseteq DOMAIN Programs
    /\ PrecompileCosts \subseteq Nat

CallFunctions == {"opCall", "opCallCode", "opDelegateCall", "opStaticCall"}

\* The deepest operand is that of SWAP16; the second of a call is an address.
ASSUME OperandsAssumption ==
    /\ NoOperands \in [1..17 -> Nat]
    /\ \A e \in DOMAIN Operands : Operands[e] \subseteq [1..17 -> Nat]
    /\ \A e \in DOMAIN Operands : \A v \in Operands[e] : \E k \in 0..WordBytes : v[2] < 256^k
    /\ \E k \in 0..WordBytes : NoOperands[2] < 256^k
    /\ CallFunctions \subseteq DOMAIN Operands
    /\ \A e \in CallFunctions : \A v \in Operands[e] : v[2] \in Accounts
    /\ CreateAddresses \subseteq Accounts

VARIABLES session,      \* the configuration, mode and target of the run
          frames,       \* the nested runs, the current one last
          world,        \* the state database
          readOnly,     \* the interpreter's flag
          callGasTemp,  \* the gas the last gas function set aside for a call
          abort,        \* Cancel was called
          answer,       \* whether the last call that returned succeeded
          fault,        \* the panic that ended the program, or "none"
          calls         \* frames so far

vars == <<session, frames, world, readOnly, callGasTemp, abort, answer, fault, calls>>

LiteKinds == {"lite", "scan", "scanMultiple", "override"}
CreateKinds == {"create", "create2"}

Lite(f) == f.kind \in LiteKinds

\* NewEVMInterpreter: the table of the newest rule, with the extra proposal.
Configs == {s.config : s \in Sessions}
Tables == [c \in Configs |-> ByByte(EnableEIP(c.eip, SetOf[c.fork]))]

Bitmaps == [p \in DOMAIN Programs |-> codeBitmap(Programs[p])]

IsRule(rule) == Since(session.config.fork, rule)

\* A transaction: metered from its first instruction, no loop of the SVE.
Transaction == ~session.infinite /\ session.entries \cap LiteKinds = {}

Current == frames[Len(frames)]
Below(s) == SubSeq(s, 1, Len(s) - 1)

Operation == Tables[session.config][GetOp(Programs[Current.code], Current.pc)]

OperandsOf(op) == IF op.execute \in DOMAIN Operands THEN Operands[op.execute] ELSE {NoOperands}

----------------------------------------------------------------------------
(* The state database                                                      *)

\* A change is journaled with the frame that made it.
Journal(w, serial, change) == [w EXCEPT !.effects = @ \cup {<<serial, change>>}]

CreateAccount(w, a) ==
    [w EXCEPT !.exist = @ \cup {a}, !.created = @ \cup {a}, !.nonce[a] = 0, !.code[a] = 0,
              !.slot[a] = 0, !.committed[a] = 0, !.dead = @ \ {a}]

CanTransfer(w, from, amount) == w.balance[from] >= amount

AddBalance(w, a, amount) == [w EXCEPT !.balance[a] = @ + amount, !.exist = @ \cup {a}]

Transfer(w, serial, from, to, amount) ==
    LET paid == AddBalance([w EXCEPT !.balance[from] = @ - amount], to, amount)
    IN  IF amount = 0 THEN paid ELSE Journal(paid, serial, "transfer")

SelfDestruct(w, a) == [w EXCEPT !.balance[a] = 0, !.dead = @ \cup {a}]

----------------------------------------------------------------------------
(* Paying for an instruction: the checks of the loop before execute        *)

NewFrame(kind, self, code, gas, saved, setRO) ==
    [kind |-> kind, serial |-> calls + 1, self |-> self, code |-> code, pc |-> 0, height |-> 0,
     mem |-> 0, fee |-> 0, gas |-> gas, saved |-> saved, setRO |-> setRO]

Context(f, op, size, operands) ==
    [fork |-> session.config.fork, self |-> f.self, gas |-> f.gas, memory |-> f.mem,
     fee |-> f.fee, size |-> size, operands |-> operands, n |-> op.n, world |-> world,
     temp |-> callGasTemp]

StackOK(f, op) == f.height >= op.minStack /\ f.height <= op.maxStack

\* A lite loop asks for no quote; with infinite gas the quote is not charged,
\* and its error ignored.
Quoted(f, op, size, operands) ==
    LET c == Context(f, op, size, operands)
    IN  IF Lite(f) THEN Quote(c, 0) ELSE dynamicGas(op.dynamicGas, c)

Charged(f) == ~session.infinite /\ ~Lite(f)

\* What execute is reached with: the frame g once it paid the quote q, if it can.
Settled(g, size, q, cost) ==
    [ok    |-> cost # Refused /\ q.gas >= cost,
     frame |-> [g EXCEPT !.gas = q.gas - cost, !.fee = q.fee, !.mem = IF size > @ THEN size ELSE @],
     world |-> q.world, temp |-> q.temp,
     fault |-> IF q.fault = "none" /\ cost # Refused /\ q.gas >= cost /\ size > MaxMemory THEN "alloc"
               ELSE q.fault]

Stopped(f) == [ok |-> FALSE, frame |-> f, world |-> world, temp |-> callGasTemp, fault |-> "none"]

Sized(op, operands, g, size) ==
    LET q == Quoted(g, op, size, operands)
    IN  IF size = Refused THEN Stopped(g) ELSE Settled(g, size, q, IF Charged(g) THEN q.cost ELSE 0)

Paid(op, operands) ==
    LET f   == Current
        due == IF Charged(f) THEN Cost(op.constantGas) ELSE 0
    IN  IF ~StackOK(f, op) \/ f.gas < due THEN Stopped(f)
        ELSE Sized(op, operands, [f EXCEPT !.gas = @ - due], MemorySize(op, operands))

\* What execute would do to a stack or a memory that is too small for it.
IndexFault(op, f, operands) ==
    LET effect == EffectOf(op)
    IN  IF effect.reads > f.height THEN "stack"
        ELSE IF \E r \in effect.memory : Extent(r, operands) = Refused \/ Extent(r, operands) > f.mem
        THEN "memory"
        ELSE "none"

----------------------------------------------------------------------------
(* Going on                                                                *)

Panic(what) ==
    /\ fault' = what /\ frames' = <<>>
    /\ UNCHANGED <<world, readOnly, answer, calls>>

\* Slips a change to the code could make, each in the place of the definition
\* it is named after: whoever ends takes the flag back.
Released_Always(f) == FALSE

\* The flag is taken back by the run that set it.
Released(f) == IF f.setRO THEN FALSE ELSE readOnly

\* Execute returned to the loop of f, the frame above "below", without an
\* error.  The scanning loop returns when the value it looks for is on top;
\* the overriding one replaces the top, if the pc asks for it.
Continue(below, f, w, ro) ==
    \/ /\ ~(f.kind = "override" /\ f.pc \in Overrides /\ f.height = 0)
       /\ frames' = Append(below, [f EXCEPT !.pc = @ + 1])
       /\ world' = w /\ readOnly' = ro /\ fault' = "none"
    \/ /\ f.kind = "scan" /\ f.height > 0
       /\ frames' = below
       /\ world' = w /\ readOnly' = (IF f.setRO THEN FALSE ELSE ro) /\ fault' = "none"
    \/ /\ f.kind = "override" /\ f.pc \in Overrides /\ f.height = 0
       /\ fault' = "override" /\ frames' = <<>> /\ world' = w /\ readOnly' = ro

\* A call of the last frame of "below" returned: the caller has its answer on
\* the stack, and the gas that is left.
Resume(below, gas, ok, w, ro) ==
    /\ answer' = ok
    /\ IF below = <<>>
       THEN frames' = <<>> /\ world' = w /\ readOnly' = ro /\ fault' = "none"
       ELSE Continue(Below(below), [below[Len(below)] EXCEPT !.height = @ + 1, !.gas = Wrap(@ + gas)],
                     w, ro)

\* Run on a frame of its own.
Run(below, f, w, static) ==
    /\ Transaction \/ calls < MaxCalls
    /\ frames' = Append(below, f)
    /\ world' = w /\ readOnly' = (readOnly \/ static)
    /\ calls' = calls + 1
    /\ fault' = "none"
    /\ UNCHANGED answer

Returns(below, gas, ok, w) == Resume(below, gas, ok, w, readOnly) /\ UNCHANGED calls

\* The code of an account: a precompile, none, or a program to run.
Invoke(kind, below, self, addr, gas, saved, w, static) ==
    \/ /\ addr \in Precompiles
       /\ \E cost \in PrecompileCosts, ok \in BOOLEAN :
            LET fine == ok /\ cost <= gas
            IN  Returns(below, IF fine THEN gas - cost ELSE 0, fine, IF fine THEN w ELSE saved)
    \/ /\ addr \notin Precompiles /\ w.code[addr] = 0
       /\ Returns(below, gas, TRUE, w)
    \/ /\ addr \notin Precompiles /\ w.code[addr] # 0
       /\ Run(below, NewFrame(kind, self, w.code[addr], gas, saved, static /\ ~readOnly), w, static)

TooDeep(below) == Len(below) > CallCreateDepth

Serial(below) == IF below = <<>> THEN 0 ELSE below[Len(below)].serial

Call(below, from, to, gas, value, w) ==
    LET target == IF Exist(w, to) THEN w ELSE CreateAccount(w, to)
    IN  \/ /\ TooDeep(below) \/ (value # 0 /\ ~CanTransfer(w, from, value))
           /\ Returns(below, gas, FALSE, w)
        \/ /\ ~TooDeep(below) /\ (value = 0 \/ CanTransfer(w, from, value))
           /\ IF ~Exist(w, to) /\ to \notin Precompiles /\ IsRule("SpuriousDragon") /\ value = 0
              THEN Returns(below, gas, TRUE, w)
              ELSE Invoke("call", below, to, to, gas, w,
                          Transfer(target, Serial(below), from, to, value), FALSE)

CallCode(below, from, to, gas, value, w) ==
    IF TooDeep(below) \/ ~CanTransfer(w, from, value) THEN Returns(below, gas, FALSE, w)
    ELSE Invoke("callcode", below, from, to, gas, w, w, FALSE)

DelegateCall(below, from, to, gas, w) ==
    IF TooDeep(below) THEN Returns(below, gas, FALSE, w)
    ELSE Invoke("delegatecall", below, from, to, gas, w, w, FALSE)

\* The touch of the account is not undone by readOnly.
StaticCall(below, to, gas, w) ==
    IF TooDeep(below) THEN Returns(below, gas, FALSE, w)
    ELSE Invoke("staticcall", below, to, to, gas, w, AddBalance(w, to, 0), TRUE)

\* The creator's nonce and the new address's warmth are not undone by a failure.
create(kind, below, from, gas, value, size, w) ==
    \/ /\ TooDeep(below) \/ ~CanTransfer(w, from, value) \/ w.nonce[from] = Top
       /\ Returns(below, gas, FALSE, w)
    \/ /\ ~TooDeep(below) /\ CanTransfer(w, from, value) /\ w.nonce[from] # Top
       /\ \E a \in CreateAddresses, init \in IF size = 0 THEN {0} ELSE InitPrograms :
            LET bumped == [Journal(w, Serial(below), "nonce") EXCEPT
                              !.nonce[from] = @ + 1,
                              !.warm = IF IsRule("Berlin") THEN @ \cup {a} ELSE @]
                born   == [CreateAccount(bumped, a) EXCEPT
                              !.nonce[a] = IF IsRule("SpuriousDragon") THEN 1 ELSE 0]
                paid   == Transfer(Journal(born, Serial(below), "create"), Serial(below), from, a, value)
            IN  \/ /\ bumped.nonce[a] # 0 \/ bumped.code[a] # 0
                   /\ Returns(below, 0, FALSE, bumped)
                \/ /\ bumped.nonce[a] = 0 /\ bumped.code[a] = 0
                   /\ IF init = 0 THEN Returns(below, gas, TRUE, paid)
                      ELSE Run(below, NewFrame(kind, a, init, gas, bumped, FALSE), paid, FALSE)

----------------------------------------------------------------------------
(* The end of a frame                                                      *)

\* The code of a new contract is checked and paid for.  Before Homestead a
\* create that cannot pay keeps what it did and counts as a success.
Deposit(f, w, size) ==
    LET cost == size * Price["CreateDataGas"]
        coded == [Journal(w, f.serial, "code") EXCEPT
                     !.code[f.self] = IF size = 0 THEN 0 ELSE Deployed]
        below == Below(frames)
        Fail  == Returns(below, 0, FALSE, f.saved)
    IN  \E startsWithEF \in IF size = 0 THEN {FALSE} ELSE BOOLEAN :
            IF \/ IsRule("SpuriousDragon") /\ size > Price["MaxCodeSize"]
               \/ startsWithEF /\ IsRule("London")
            THEN Fail
            ELSE IF cost <= f.gas THEN Returns(below, f.gas - cost, TRUE, coded)
            ELSE IF IsRule("Homestead") THEN Fail
            ELSE Returns(below, f.gas, TRUE, w)

\* Slips a change to the code could make, each in the place of the definition
\* it is named after: a revert keeps the state.
Kept_OnRevert(outcome, f, w) == IF outcome # "fail" THEN w ELSE f.saved

\* Run returned: "ok" for a stop token, "revert", or "fail" for any other error.
\* After an error the state is that of the snapshot, and only a revert keeps gas.
Kept(outcome, f, w) == IF outcome = "ok" THEN w ELSE f.saved
Left(outcome, f) == IF outcome = "fail" THEN 0 ELSE f.gas

Ends(outcome, f, w, size) ==
    \/ /\ Lite(f)
       /\ frames' = Below(frames) /\ world' = w /\ readOnly' = Released(f) /\ fault' = "none"
       /\ UNCHANGED <<answer, calls>>
    \/ /\ f.kind \in CreateKinds /\ outcome = "ok"
       /\ Deposit(f, w, size)
    \/ /\ ~Lite(f) /\ (f.kind \in CreateKinds => outcome # "ok")
       /\ Resume(Below(frames), Left(outcome, f), outcome = "ok", Kept(outcome, f, w), Released(f))
       /\ UNCHANGED calls

----------------------------------------------------------------------------
(* Execute.  p is what Paid returned.                                      *)

Advanced(f, op) == [f EXCEPT !.height = @ + EffectOf(op).delta, !.pc = @ + Skips(op)]

GoesOn(f, w) == Continue(Below(frames), f, w, readOnly) /\ UNCHANGED <<answer, calls>>

Writes == {"opSstore", "opTstore", "makeLog", "opSelfdestruct", "opSelfdestruct6780",
           "opCreate", "opCreate2"}

\* A state-changing instruction of a static call.
Protected(op, v) ==
    readOnly /\ (op.execute \in Writes \/ (op.execute = "opCall" /\ Back(v, 2) # 0))

Halting(op, v, p) ==
    \/ op.execute = "opStop" /\ Ends("ok", p.frame, p.world, 0)
    \/ op.execute = "opReturn" /\ Ends("ok", p.frame, p.world, Back(v, 1))
    \/ op.execute = "opRevert" /\ Ends("revert", p.frame, p.world, 0)
    \/ op.execute = "opUndefined" /\ Ends("fail", p.frame, p.world, 0)

\* A cancelled run stops at its next jump, as if it had reached its end.
Jumping(op, v, p) ==
    LET f     == Advanced(p.frame, op)
        code  == Programs[f.code]
        valid == validJumpdest(code, Bitmaps[f.code], Back(v, 0))
        taken == op.execute = "opJump" \/ Back(v, 1) # 0
    IN  /\ op.execute \in {"opJump", "opJumpi"}
        /\ \/ abort /\ Ends("ok", p.frame, p.world, 0)
           \/ ~abort /\ ~taken /\ GoesOn(f, p.world)
           \/ ~abort /\ taken /\ valid /\ GoesOn([f EXCEPT !.pc = Back(v, 0) - 1], p.world)
           \/ ~abort /\ taken /\ ~valid /\ Ends("fail", p.frame, p.world, 0)

Writing(op, v, p) ==
    LET f == Advanced(p.frame, op)
    IN  \/ /\ op.execute = "opSstore"
           /\ GoesOn(f, IF p.world.slot[f.self] = Back(v, 1) THEN p.world
                        ELSE [Journal(p.world, f.serial, "slot") EXCEPT !.slot[f.self] = Back(v, 1)])
        \/ op.execute = "opTstore" /\ GoesOn(f, Journal(p.world, f.serial, "transient"))
        \/ op.execute = "makeLog" /\ GoesOn(f, Journal(p.world, f.serial, "log"))

Destructing(op, v, p) ==
    LET self    == p.frame.self
        balance == p.world.balance[self]
        w       == Journal(p.world, p.frame.serial, "destruct")
        moved   == AddBalance([w EXCEPT !.balance[self] = 0], Back(v, 0), balance)
    IN  \/ /\ op.execute = "opSelfdestruct"
           /\ Ends("ok", p.frame, SelfDestruct(AddBalance(w, Back(v, 0), balance), self), 0)
        \/ /\ op.execute = "opSelfdestruct6780"
           /\ Ends("ok", p.frame, IF self \in w.created THEN SelfDestruct(moved, self) ELSE moved, 0)

\* The caller while it waits: its operands are gone, its answer is not there.
Waiting(op, f) == [f EXCEPT !.height = @ - EffectOf(op).reads]

\* Slips a change to the code could make, each in the place of the definition
\* it is named after: a call that transfers nothing has it too.
Stipend_Always(value) == Price["CallStipend"]

Stipend(value) == IF value = 0 THEN 0 ELSE Price["CallStipend"]

Calling(op, v, p) ==
    LET below == Append(Below(frames), Waiting(op, p.frame))
        from  == p.frame.self
        to    == Back(v, 1)
        value == Back(v, 2)
        gas   == p.temp
    IN  \/ op.execute = "opCall"
           /\ Call(below, from, to, Wrap(gas + Stipend(value)), value, p.world)
        \/ op.execute = "opCallCode"
           /\ CallCode(below, from, to, Wrap(gas + Stipend(value)), value, p.world)
        \/ op.execute = "opDelegateCall" /\ DelegateCall(below, from, to, gas, p.world)
        \/ op.execute = "opStaticCall" /\ StaticCall(below, to, gas, p.world)

Creating(op, v, p) ==
    LET f     == p.frame
        kept  == IF op.execute = "opCreate" /\ ~IsRule("TangerineWhistle") THEN 0 ELSE f.gas \div 64
        below == Append(Below(frames), [Waiting(op, f) EXCEPT !.gas = kept])
    IN  \/ op.execute = "opCreate"
           /\ create("create", below, f.self, f.gas - kept, Back(v, 0), Back(v, 2), p.world)
        \/ op.execute = "opCreate2"
           /\ create("create2", below, f.self, f.gas - kept, Back(v, 0), Back(v, 2), p.world)

Special == {"opStop", "opReturn", "opRevert", "opUndefined", "opJump", "opJumpi", "opCall",
            "opCallCode", "opDelegateCall", "opStaticCall"} \cup Writes

\* All others only compute; one of them may find that the data of the last
\* call is shorter than what it is asked to copy.
Computing(op, p) ==
    /\ op.execute \notin Special
    /\ \/ GoesOn(Advanced(p.frame, op), p.world)
       \/ op.execute = "opReturnDataCopy" /\ Ends("fail", p.frame, p.world, 0)

Execute(op, v, p) ==
    \/ Protected(op, v) /\ Ends("fail", p.frame, p.world, 0)
    \/ /\ ~Protected(op, v)
       /\ \/ Halting(op, v, p)     \/ Jumping(op, v, p)  \/ Writing(op, v, p)
          \/ Destructing(op, v, p) \/ Calling(op, v, p)  \/ Creating(op, v, p)
          \/ Computing(op, p)

\* What stops the program rather than the frame, before or in execute.
Broken(op, v, p) ==
    IF p.fault # "none" THEN p.fault
    ELSE IF p.ok THEN IndexFault(op, p.frame, v)
    ELSE "none"

Turn(op, v, p, broken) ==
    /\ callGasTemp' = p.temp
    /\ \/ broken # "none" /\ Panic(broken)
       \/ broken = "none" /\ ~p.ok /\ Ends("fail", p.frame, p.world, 0)
       \/ broken = "none" /\ p.ok /\ Execute(op, v, p)

\* The overriding loop copies the top of the stack before it checks the stack.
MissesItems ==
    /\ Current.kind = "override" /\ Current.height < CheckpointItems
    /\ GetOp(Programs[Current.code], Current.pc) \in TargetOpCodes

\* One turn of the loop of Run, LiteRun, ScanFor, ScanForMultiple or RunWithOverride.
Serve(op) ==
    \/ MissesItems /\ Panic("checkpoint") /\ UNCHANGED callGasTemp
    \/ /\ ~MissesItems
       /\ \E v \in OperandsOf(op) : \E p \in {Paid(op, v)} : Turn(op, v, p, Broken(op, v, p))

Step ==
    /\ frames # <<>>
    /\ Serve(Operation)
    /\ UNCHANGED <<session, abort>>

----------------------------------------------------------------------------
(* What the host does                                                      *)

\* Prepare: from Berlin on, the accounts a transaction names are warm.
Prepared(w, named) ==
    IF IsRule("Berlin") THEN [w EXCEPT !.warm = Precompiles \cup named, !.warmSlots = {}] ELSE w

\* A transaction is one call, of an account or to create one.  With infinite
\* gas the calls are not prepared, and follow one another on the same state.
Transact ==
    /\ frames = <<>> /\ fault = "none" /\ "call" \in session.entries
    /\ IF session.infinite THEN calls < MaxCalls ELSE calls = 0
    /\ Call(<<>>, session.sender, session.to, session.gas, 0,
            IF session.infinite THEN world ELSE Prepared(world, {session.sender, session.to}))
    /\ UNCHANGED <<session, callGasTemp, abort>>

Deploy ==
    /\ frames = <<>> /\ fault = "none" /\ "create" \in session.entries /\ calls = 0
    /\ create("create", <<>>, session.sender, session.gas, 0, 1, Prepared(world, {session.sender}))
    /\ UNCHANGED <<session, callGasTemp, abort>>

\* LiteRun, ScanFor, ScanForMultiple, RunWithOverride on a contract made by
\* the host: no snapshot, no transfer, the access list as it is.  Without code
\* they return at once.
EnterLite(kind) ==
    /\ frames = <<>> /\ fault = "none" /\ kind \in session.entries
    /\ world.code[session.to] # 0
    /\ \E static \in BOOLEAN :
        Run(<<>>, NewFrame(kind, session.to, world.code[session.to], session.gas, world, static),
            world, static)
    /\ UNCHANGED <<session, callGasTemp, abort>>

Cancel ==
    /\ "cancel" \in session.entries /\ frames # <<>>
    /\ abort' = TRUE
    /\ UNCHANGED <<session, frames, world, readOnly, callGasTemp, answer, fault, calls>>

----------------------------------------------------------------------------
\* A session: [config : [fork, eip], infinite, entries, sender, to, gas, code, slot].
Init ==
    /\ session \in Sessions
    /\ frames = <<>> /\ readOnly = FALSE /\ callGasTemp = 0 /\ abort = FALSE
    /\ answer = FALSE /\ fault = "none" /\ calls = 0
    /\ world = [exist |-> {a \in Accounts : session.code[a] # 0} \cup {session.sender},
                balance |-> [a \in Accounts |-> IF session.code[a] # 0 THEN 1 ELSE 0],
                nonce |-> [a \in Accounts |-> 0], code |-> session.code,
                slot |-> session.slot, committed |-> session.slot, refund |-> 0,
                warm |-> {}, warmSlots |-> {}, created |-> {}, dead |-> {}, effects |-> {}]

Next == Step \/ Transact \/ Deploy \/ (\E kind \in LiteKinds : EnterLite(kind)) \/ Cancel

Spec == Init /\ [][Next]_vars

----------------------------------------------------------------------------
(* Properties                                                              *)

\* Every entry of the table in use declares, for the stack and the memory,
\* exactly what its function, its gas function and its memory size need: the
\* interpreter checks nothing else before it indexes them.
Fitting == [c \in Configs |-> \A b \in Bytes : Fits(Tables[c][b]) /\ Tight(Tables[c][b])]
TableFits == Fitting[session.config]

\* No frame ever executes the data of a push, and every JUMPDEST that is an
\* instruction can be jumped to: the bit vector a jump is checked against
\* agrees with the instructions the program has.
Starts == [p \in DOMAIN Programs |-> InstructionStarts(Programs[p])]
Exact == [p \in DOMAIN Programs |->
    \A d \in 0..(Len(Programs[p]) + 1) :
        validJumpdest(Programs[p], Bitmaps[p], d)
            <=> d \in Starts[p] /\ GetOp(Programs[p], d) = OpCode["JUMPDEST"]]
JumpsExact == \A i \in DOMAIN frames : frames[i].pc \in Starts[frames[i].code] /\ Exact[frames[i].code]

\* What a frame has paid for memory is the price of the memory it has, and
\* that is never more than the size at which the price would wrap around.
MemoryPaid ==
    Transaction => \A i \in DOMAIN frames :
                      /\ frames[i].fee = TotalFee(frames[i].mem \div WordBytes)
                      /\ frames[i].mem <= MaxMemory

\* A transaction never panics: no index into a stack or a memory that is too
\* small, no refund counter below zero, no slot without its account.
NoFault == Transaction => fault = "none"

\* The gas of a transaction is never made, whoever calls whom and however a
\* call ends, and every step that ends no frame uses some: so every metered
\* run ends, whatever its programs do.
TotalGas(fs) ==
    LET Sum[i \in 0..Len(fs)] == IF i = 0 THEN 0 ELSE Sum[i - 1] + fs[i].gas
    IN  Sum[Len(fs)]
GasFalls ==
    [][Transaction /\ Step => \/ TotalGas(frames') < TotalGas(frames)
                              \/ TotalGas(frames') = TotalGas(frames) /\ Len(frames') < Len(frames)]_vars

\* While a static call is open, whatever is called within it and however that
\* ends, nothing of the state is written; nor by a run that is read only.
Static == readOnly \/ \E i \in DOMAIN frames : frames[i].kind = "staticcall"
Content(w) == <<w.balance, w.nonce, w.code, w.slot, w.dead, w.effects>>
StaticWritesNothing == [][Static => Content(world') = Content(world)]_vars

\* Calls are nested transactions.  A lite loop is none, and only the first
\* frame can be one.
Loops(fs) == IF fs # <<>> /\ Lite(fs[1]) THEN 1 ELSE 0
SavesOf(fs) == [i \in 1..(Len(fs) - Loops(fs)) |-> fs[i + Loops(fs)].saved.effects]
Nested == INSTANCE NestedTx WITH saves <- SavesOf(frames), changes <- world.effects, answer <- answer
ImplementsNestedTx == Nested!Spec
============================================================================
