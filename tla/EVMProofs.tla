------------------------------ MODULE EVMProofs ------------------------------
(***************************************************************************)
(* Proofs about EVM: while a static call is open nothing of the state is   *)
(* written, for any programs, accounts, prices and sessions.               *)
(*                                                                         *)
(* The interpreter keeps one flag for all frames.  The invariant says      *)
(* which frame set it, that no frame above it is a create, and that the    *)
(* state each of those would go back to is the present one.  To call an    *)
(* account that does not exist makes it, static or not: that this writes   *)
(* nothing needs the second half of the invariant, by which an account     *)
(* that does not exist has no nonce, no code and no storage.               *)
(*                                                                         *)
(* Calls are nested transactions: the second part shows that every step of *)
(* the machine is one of NestedTx, or changes nothing it speaks of.        *)
(*                                                                         *)
(* The third part is about the gas and the memory of a metered             *)
(* transaction: memory is paid for, and the gas falls.                     *)
(***************************************************************************)
EXTENDS EVM, SequenceTheorems, FiniteSetTheorems, WellFoundedInduction, TLAPS

----------------------------------------------------------------------------
(* States                                                                  *)

WorldFields == {"exist", "balance", "nonce", "code", "slot", "committed", "refund",
                "warm", "warmSlots", "created", "dead", "effects"}

\* Another state with the same content, which the gas functions leave behind.
Alike(w1, w) ==
    WorldFields \subseteq DOMAIN w1 /\ Content(w1) = Content(w) /\ w1.exist = w.exist

Sane(w) ==
    /\ WorldFields \subseteq DOMAIN w
    /\ w.balance \in [Accounts -> Int]
    /\ w.nonce = [a \in Accounts |-> w.nonce[a]]
    /\ w.code = [a \in Accounts |-> w.code[a]]
    /\ w.slot = [a \in Accounts |-> w.slot[a]]
    /\ \A a \in Accounts \ w.exist : w.nonce[a] = 0 /\ w.code[a] = 0 /\ w.slot[a] = 0
    /\ w.dead \subseteq w.exist
    /\ session.sender \in w.exist

LEMMA AlikeSane ==
    ASSUME NEW w, NEW w1, Sane(w), Alike(w1, w)
    PROVE  Sane(w1)
  BY DEF Sane, Alike, Content

LEMMA AlikeTrans ==
    ASSUME NEW w, NEW w1, NEW w2, Alike(w1, w), Alike(w2, w1)
    PROVE  Alike(w2, w)
  BY DEF Alike

----------------------------------------------------------------------------
(* The gas functions change neither the content nor what exists.           *)

QuoteFields == {"cost", "gas", "fee", "world", "temp", "fault"}

\* A quote that leaves w as it is but for refunds and access lists.
Quiet(q, w) == QuoteFields \subseteq DOMAIN q /\ Alike(q.world, w)

LEMMA RefundAlike ==
    ASSUME NEW w, NEW w1, Alike(w1, w), NEW gas
    PROVE  Alike(AddRefund(w1, gas), w)
  BY DEF Alike, AddRefund, Content, WorldFields

LEMMA ListedAlike ==
    ASSUME NEW w, NEW w1, Alike(w1, w), NEW a
    PROVE  Alike(AddAddressToAccessList(w1, a), w) /\ Alike(AddSlotToAccessList(w1, a), w)
  BY DEF Alike, AddAddressToAccessList, AddSlotToAccessList, Content, WorldFields

LEMMA QuoteQuiet ==
    ASSUME NEW c, NEW cost, NEW w, Alike(c.world, w)
    PROVE  Quiet(Quote(c, cost), w)
  BY DEF Quiet, Quote, QuoteFields

LEMMA PlusQuiet ==
    ASSUME NEW q, NEW cost, NEW w, Quiet(q, w)
    PROVE  Quiet(Plus(q, cost), w)
  BY DEF Quiet, Plus, QuoteFields

\* Changing another part of a quote, or its state for one that is alike.
LEMMA PartsQuiet ==
    ASSUME NEW q, NEW w, Quiet(q, w), NEW x, NEW w1, Alike(w1, w)
    PROVE  /\ Quiet([q EXCEPT !.fee = x], w) /\ Quiet([q EXCEPT !.temp = x], w)
           /\ Quiet([q EXCEPT !.fault = x], w) /\ Quiet([q EXCEPT !.cost = x], w)
           /\ Quiet([q EXCEPT !.gas = x], w)
           /\ Quiet([q EXCEPT !.world = w1], w)
  BY DEF Quiet, QuoteFields

LEMMA MemoryQuiet ==
    ASSUME NEW c, NEW w, Alike(c.world, w)
    PROVE  Quiet(memoryGasCost(c), w)
  BY QuoteQuiet, PartsQuiet DEF memoryGasCost

LEMMA CopierQuiet ==
    ASSUME NEW c, NEW w, Alike(c.world, w), NEW n
    PROVE  Quiet(memoryCopierGas(c, n), w)
  BY MemoryQuiet, PlusQuiet DEF memoryCopierGas

LEMMA DataQuiet ==
    ASSUME NEW c, NEW w, Alike(c.world, w)
    PROVE  /\ Quiet(gasKeccak256(c), w) /\ Quiet(makeGasLog(c), w) /\ Quiet(gasCreate2(c), w)
           /\ Quiet(gasCreateEip3860(c), w) /\ Quiet(gasCreate2Eip3860(c), w)
           /\ \A price : Quiet(gasExp(c, price), w)
  BY MemoryQuiet, PlusQuiet, QuoteQuiet
  DEF gasKeccak256, makeGasLog, gasCreate2, gasCreateEip3860, gasCreate2Eip3860, InitCode, gasExp

LEMMA NetMeteredQuiet ==
    ASSUME NEW c, NEW w, Alike(c.world, w), NEW p
    PROVE  Quiet(NetMetered(c, p), w)
<1> DEFINE Refunding(cost, sub, add) ==
        [Quote(c, cost) EXCEPT !.world = AddRefund(c.world, add - sub),
                               !.fault = IF sub > c.world.refund THEN "refund" ELSE "none"]
<1>1. \A cost, sub, add : Quiet(Refunding(cost, sub, add), w)
  BY QuoteQuiet, PartsQuiet, RefundAlike
<1>2. \A cost : Quiet(Quote(c, cost), w)
  BY QuoteQuiet
<1> HIDE DEF Refunding
<1> QED BY <1>1, <1>2 DEF NetMetered, Refunding

LEMMA StorageQuiet ==
    ASSUME NEW c, NEW w, Alike(c.world, w)
    PROVE  Quiet(gasSStore(c), w) /\ Quiet(gasSStoreEIP2200(c), w) /\ Quiet(gasSLoadEIP2929(c), w)
<1>1. Quiet(gasSStore(c), w)
  <2>1. Quiet([Quote(c, Price["SstoreClearGas"]) EXCEPT
                  !.world = AddRefund(@, Price["SstoreRefundGas"])], w)
    BY QuoteQuiet, PartsQuiet, RefundAlike DEF Quote
  <2> QED BY <2>1, QuoteQuiet, NetMeteredQuiet DEF gasSStore
<1>2. Quiet(gasSStoreEIP2200(c), w)
  BY QuoteQuiet, NetMeteredQuiet DEF gasSStoreEIP2200
<1>3. Quiet(gasSLoadEIP2929(c), w)
  <2>1. Quiet([Quote(c, Price["ColdSloadCostEIP2929"]) EXCEPT
                  !.world = AddSlotToAccessList(@, c.self)], w)
    BY QuoteQuiet, PartsQuiet, ListedAlike DEF Quote
  <2> QED BY <2>1, QuoteQuiet DEF gasSLoadEIP2929
<1> QED BY <1>1, <1>2, <1>3

\* The fields of a context.
ContextFields == {"fork", "self", "gas", "memory", "fee", "size", "operands", "n", "world", "temp"}

LEMMA ColdStorageQuiet ==
    ASSUME NEW c, NEW w, Alike(c.world, w), ContextFields \subseteq DOMAIN c, NEW refund
    PROVE  Quiet(makeGasSStoreFunc(c, refund), w)
<1> DEFINE listed == IF c.self \notin c.world.warmSlots THEN AddSlotToAccessList(c.world, c.self)
                     ELSE c.world
           cc == [c EXCEPT !.world = listed]
           q == NetMetered(cc, EIP2929Sstore(refund))
<1>1. Alike(listed, w)
  BY ListedAlike
<1>2. cc.world = listed
  BY DEF ContextFields
<1>3. Quiet(q, w)
  BY <1>1, <1>2, NetMeteredQuiet
<1>4. \A x : Quiet([q EXCEPT !.cost = x], w)
  BY <1>1, <1>3, PartsQuiet
<1>5. Quiet([Quote(c, Refused) EXCEPT !.fault = "canary"], w)
  BY QuoteQuiet, PartsQuiet
<1>6. Quiet(Quote(c, Refused), w)
  BY QuoteQuiet
<1>7. makeGasSStoreFunc(c, refund) \in
        {Quote(c, Refused), [Quote(c, Refused) EXCEPT !.fault = "canary"],
         [q EXCEPT !.cost = q.cost + IF c.self \notin c.world.warmSlots
                                     THEN Price["ColdSloadCostEIP2929"] ELSE 0]}
  BY DEF makeGasSStoreFunc
<1> QED BY <1>4, <1>5, <1>6, <1>7

LEMMA AccountQuiet ==
    ASSUME NEW c, NEW w, Alike(c.world, w)
    PROVE  Quiet(gasExtCodeCopyEIP2929(c), w) /\ Quiet(gasEip2929AccountCheck(c), w)
<1>1. ASSUME NEW q, Quiet(q, w), NEW a
      PROVE  Quiet(Accessed(c, q, a), w)
  <2>1. Quiet(Plus(q, coldCost), w)
    BY <1>1, PlusQuiet
  <2>2. Alike(AddAddressToAccessList(Plus(q, coldCost).world, a), w)
    BY <2>1, ListedAlike DEF Quiet
  <2> QED BY <1>1, <2>1, <2>2, PartsQuiet DEF Accessed
<1> QED BY <1>1, CopierQuiet, QuoteQuiet DEF gasExtCodeCopyEIP2929, gasEip2929AccountCheck

LEMMA CallQuiet ==
    ASSUME NEW c, NEW w, Alike(c.world, w)
    PROVE  /\ Quiet(gasCall(c), w) /\ Quiet(gasCallCode(c), w)
           /\ Quiet(gasDelegateCall(c), w) /\ Quiet(gasStaticCall(c), w)
<1>1. ASSUME NEW q, Quiet(q, w)
      PROVE  Quiet(WithCallGas(c, q), w)
  <2>1. \A gas, x : Quiet([Plus(q, gas) EXCEPT !.temp = x], w)
    BY <1>1, PlusQuiet, PartsQuiet
  <2> QED BY <1>1, <2>1 DEF WithCallGas
<1> QED BY <1>1, MemoryQuiet, PlusQuiet DEF gasCall, gasCallCode, gasDelegateCall, gasStaticCall

CallNames == {"gasCall", "gasCallCode", "gasDelegateCall", "gasStaticCall"}

LEMMA ColdCallQuiet ==
    ASSUME NEW c, NEW w, Alike(c.world, w), ContextFields \subseteq DOMAIN c, NEW name \in CallNames
    PROVE  Quiet(GasOfCall(name, c), w) /\ Quiet(makeCallVariantGasCallEIP2929(c, name), w)
<1>1. ASSUME NEW d, Alike(d.world, w)
      PROVE  Quiet(GasOfCall(name, d), w)
  BY <1>1, CallQuiet DEF GasOfCall, CallNames
<1> DEFINE to == Back(c.operands, 1)
           listed == AddAddressToAccessList(c.world, to)
           cold == [c EXCEPT !.world = AddAddressToAccessList(@, to), !.gas = @ - coldCost]
           q == GasOfCall(name, cold)
<1>2. Alike(listed, w)
  BY ListedAlike
<1>3. cold.world = listed
  BY DEF ContextFields
<1>4. Quiet(q, w)
  BY <1>1, <1>2, <1>3
<1>5. \A x, y : Quiet([q EXCEPT !.cost = x, !.gas = y], w)
  BY <1>2, <1>4, PartsQuiet
<1>6. Quiet([Quote(c, Refused) EXCEPT !.world = AddAddressToAccessList(@, to)], w)
  BY <1>2, QuoteQuiet, PartsQuiet DEF Quote
<1>7. makeCallVariantGasCallEIP2929(c, name) =
        IF to \in c.world.warm THEN GasOfCall(name, c)
        ELSE IF c.gas < coldCost THEN [Quote(c, Refused) EXCEPT !.world = AddAddressToAccessList(@, to)]
        ELSE IF q.cost = Refused THEN q
        ELSE [q EXCEPT !.cost = Wrap(@ + coldCost), !.gas = Wrap(@ + coldCost)]
  BY Zenon DEF makeCallVariantGasCallEIP2929
<1> HIDE DEF q, to, listed, cold
<1>8. Quiet([q EXCEPT !.cost = Wrap(@ + coldCost), !.gas = Wrap(@ + coldCost)], w)
  BY <1>5, Zenon
<1> QED BY <1>1, <1>4, <1>6, <1>7, <1>8

LEMMA DestructQuiet ==
    ASSUME NEW c, NEW w, Alike(c.world, w)
    PROVE  /\ Quiet(gasSelfdestruct(c), w)
           /\ \A refundsEnabled \in BOOLEAN : Quiet(makeSelfdestructGasFn(c, refundsEnabled), w)
<1>1. ASSUME NEW w1, Alike(w1, w)
      PROVE  Alike(DestructRefund(w1, c.self), w)
  BY <1>1, RefundAlike DEF DestructRefund
<1>2. \A cost : Quiet([Quote(c, cost) EXCEPT !.world = DestructRefund(@, c.self)], w)
  BY <1>1, QuoteQuiet, PartsQuiet DEF Quote
<1>3. \A cost, a : LET listed == AddAddressToAccessList(c.world, a)
                   IN  /\ Quiet([Quote(c, cost) EXCEPT !.world = DestructRefund(listed, c.self)], w)
                       /\ Quiet([Quote(c, cost) EXCEPT !.world = listed], w)
  BY <1>1, ListedAlike, QuoteQuiet, PartsQuiet
<1> QED BY <1>2, <1>3 DEF gasSelfdestruct, makeSelfdestructGasFn

\* Whatever function an operation names.
LEMMA GasQuiet ==
    ASSUME NEW c, NEW w, Alike(c.world, w), ContextFields \subseteq DOMAIN c, NEW name
    PROVE  Quiet(dynamicGas(name, c), w)
  BY MemoryQuiet, CopierQuiet, DataQuiet, StorageQuiet, ColdStorageQuiet, AccountQuiet, ColdCallQuiet,
     DestructQuiet, QuoteQuiet
  DEF dynamicGas, CallNames

----------------------------------------------------------------------------
(* The operations of the state database                                    *)

\* A state that may follow w within a frame.
Follows(w1, w) == Sane(w1) /\ w.exist \subseteq w1.exist

\* One that may follow it within a static call.
Unwritten(w1, w) == Follows(w1, w) /\ Content(w1) = Content(w)

LEMMA AlikeUnwritten ==
    ASSUME NEW w, NEW w1, Sane(w), Alike(w1, w)
    PROVE  Unwritten(w1, w)
  BY AlikeSane DEF Unwritten, Follows, Alike

LEMMA FollowsTrans ==
    ASSUME NEW w, NEW w1, NEW w2, Follows(w1, w), Follows(w2, w1)
    PROVE  Follows(w2, w)
  BY DEF Follows

LEMMA UnwrittenTrans ==
    ASSUME NEW w, NEW w1, NEW w2, Unwritten(w1, w), Unwritten(w2, w1)
    PROVE  Unwritten(w2, w)
  BY DEF Unwritten, Follows

\* Entries of functions.
LEMMA SameEntry ==
    ASSUME NEW S, NEW f, f = [x \in S |-> f[x]], NEW a, NEW v, a \in S => f[a] = v
    PROVE  [f EXCEPT ![a] = v] = f
<1>1. DOMAIN f = S
  OBVIOUS
<1>2. [f EXCEPT ![a] = v] = [x \in S |-> IF x = a THEN v ELSE f[x]]
  BY <1>1
<1>3. \A x \in S : (IF x = a THEN v ELSE f[x]) = f[x]
  OBVIOUS
<1>4. [x \in S |-> IF x = a THEN v ELSE f[x]] = [x \in S |-> f[x]]
  BY <1>3
<1> QED BY <1>2, <1>4

LEMMA NewEntry ==
    ASSUME NEW S, NEW f \in [S -> Int], NEW a, NEW v, a \in S => v \in Int
    PROVE  [f EXCEPT ![a] = v] \in [S -> Int]
<1> DEFINE g == [f EXCEPT ![a] = v]
<1>1. g = [x \in S |-> IF x = a THEN v ELSE f[x]]
  OBVIOUS
<1>2. \A x \in S : (IF x = a THEN v ELSE f[x]) \in Int
  OBVIOUS
<1> QED BY <1>1, <1>2

LEMMA JournalFollows ==
    ASSUME NEW w, Sane(w), NEW serial, NEW change
    PROVE  Follows(Journal(w, serial, change), w)
  BY DEF Sane, Follows, Journal, WorldFields

LEMMA CreateAccountFollows ==
    ASSUME NEW w, Sane(w), NEW a
    PROVE  /\ Follows(CreateAccount(w, a), w) /\ a \in CreateAccount(w, a).exist
           /\ a \notin w.exist => Unwritten(CreateAccount(w, a), w)
<1> DEFINE w1 == CreateAccount(w, a)
<1>1. /\ WorldFields \subseteq DOMAIN w1 /\ w1.exist = w.exist \cup {a}
      /\ w1.balance = w.balance /\ w1.effects = w.effects /\ w1.dead = w.dead \ {a}
      /\ w1.nonce = [w.nonce EXCEPT ![a] = 0] /\ w1.code = [w.code EXCEPT ![a] = 0]
      /\ w1.slot = [w.slot EXCEPT ![a] = 0]
  BY DEF CreateAccount, Sane, WorldFields
<1> HIDE DEF w1
<1>2. Follows(w1, w)
  BY <1>1 DEF Sane, Follows
<1>3. ASSUME a \notin w.exist PROVE Content(w1) = Content(w)
  <2>1. a \in Accounts => w.nonce[a] = 0 /\ w.code[a] = 0 /\ w.slot[a] = 0
    BY <1>3 DEF Sane
  <2>2. [w.nonce EXCEPT ![a] = 0] = w.nonce
    BY <2>1, SameEntry DEF Sane
  <2>3. [w.code EXCEPT ![a] = 0] = w.code
    BY <2>1, SameEntry DEF Sane
  <2>4. [w.slot EXCEPT ![a] = 0] = w.slot
    BY <2>1, SameEntry DEF Sane
  <2>5. w.dead \ {a} = w.dead
    BY <1>3 DEF Sane
  <2> QED BY <1>1, <2>2, <2>3, <2>4, <2>5 DEF Content
<1> QED BY <1>1, <1>2, <1>3 DEF Unwritten, w1

LEMMA AddBalanceFollows ==
    ASSUME NEW w, Sane(w), NEW a, NEW amount \in Int
    PROVE  /\ Follows(AddBalance(w, a, amount), w) /\ a \in AddBalance(w, a, amount).exist
           /\ amount = 0 => Unwritten(AddBalance(w, a, amount), w)
<1> DEFINE w1 == AddBalance(w, a, amount)
<1>1. /\ WorldFields \subseteq DOMAIN w1 /\ w1.exist = w.exist \cup {a}
      /\ w1.balance = [w.balance EXCEPT ![a] = @ + amount] /\ w1.effects = w.effects
      /\ w1.dead = w.dead /\ w1.nonce = w.nonce /\ w1.code = w.code /\ w1.slot = w.slot
  BY DEF AddBalance, Sane, WorldFields
<1> HIDE DEF w1
<1>2. a \in Accounts => w.balance[a] \in Int
  BY DEF Sane
<1>3. w1.balance \in [Accounts -> Int]
  BY <1>1, <1>2, NewEntry DEF Sane
<1>4. Follows(w1, w)
  BY <1>1, <1>3 DEF Sane, Follows
<1>5. ASSUME amount = 0 PROVE Content(w1) = Content(w)
  <2>1. [w.balance EXCEPT ![a] = @ + amount] = w.balance
    BY <1>5, <1>2, SameEntry DEF Sane
  <2> QED BY <1>1, <2>1 DEF Content
<1> QED BY <1>1, <1>4, <1>5 DEF Unwritten, w1

LEMMA TakeBalanceFollows ==
    ASSUME NEW w, Sane(w), NEW a, NEW balance \in [Accounts -> Int]
    PROVE  /\ Follows([w EXCEPT !.balance = balance], w)
           /\ balance = w.balance => Unwritten([w EXCEPT !.balance = balance], w)
  BY DEF Sane, Follows, Unwritten, Content, WorldFields

LEMMA TransferFollows ==
    ASSUME NEW w, Sane(w), NEW serial, NEW from, NEW to, NEW amount \in Int
    PROVE  /\ Follows(Transfer(w, serial, from, to, amount), w)
           /\ to \in Transfer(w, serial, from, to, amount).exist
           /\ amount = 0 => Unwritten(Transfer(w, serial, from, to, amount), w)
<1> DEFINE balance == [w.balance EXCEPT ![from] = @ - amount]
           taken == [w EXCEPT !.balance = balance]
           paid == AddBalance(taken, to, amount)
<1>1. balance \in [Accounts -> Int] /\ (amount = 0 => balance = w.balance)
  <2>1. w.balance \in [Accounts -> Int] /\ (from \in Accounts => w.balance[from] \in Int)
    BY DEF Sane
  <2>2. w.balance = [a \in Accounts |-> w.balance[a]]
    BY <2>1
  <2>3. from \in Accounts => w.balance[from] - amount \in Int
    BY <2>1
  <2>4. ASSUME amount = 0 PROVE from \in Accounts => w.balance[from] - amount = w.balance[from]
    BY <2>1, <2>4
  <2> QED BY <2>1, <2>2, <2>3, <2>4, NewEntry, SameEntry
<1>2. Follows(taken, w) /\ (amount = 0 => Unwritten(taken, w))
  BY <1>1, TakeBalanceFollows
<1>3. Sane(taken)
  BY <1>2 DEF Follows
<1>4. Follows(paid, w) /\ to \in paid.exist /\ (amount = 0 => Unwritten(paid, w))
  BY <1>2, <1>3, AddBalanceFollows, FollowsTrans, UnwrittenTrans
<1>5. Follows(Journal(paid, serial, "transfer"), paid)
  BY <1>4, JournalFollows DEF Follows
<1>6. Transfer(w, serial, from, to, amount) = IF amount = 0 THEN paid ELSE Journal(paid, serial, "transfer")
  BY Zenon DEF Transfer
<1> HIDE DEF paid
<1> QED BY <1>4, <1>5, <1>6, FollowsTrans DEF Follows

LEMMA SelfDestructFollows ==
    ASSUME NEW w, Sane(w), NEW a \in w.exist
    PROVE  Follows(SelfDestruct(w, a), w)
<1>1. [w.balance EXCEPT ![a] = 0] \in [Accounts -> Int]
  BY NewEntry DEF Sane
<1> QED BY <1>1 DEF Sane, Follows, SelfDestruct, WorldFields

LEMMA PreparedAlike ==
    ASSUME NEW w, Sane(w), NEW named
    PROVE  Alike(Prepared(w, named), w)
  BY DEF Sane, Alike, Prepared, Content, WorldFields

----------------------------------------------------------------------------
(* Stacks of frames                                                        *)

IsStack(fs) == \E S : fs \in Seq(S)

LEMMA AppendStack ==
    ASSUME NEW b, IsStack(b), NEW f
    PROVE  /\ IsStack(Append(b, f))
           /\ Len(b) \in Nat /\ Len(Append(b, f)) = Len(b) + 1
           /\ Append(b, f)[Len(b) + 1] = f
           /\ \A i \in 1..Len(b) : Append(b, f)[i] = b[i]
           /\ Append(b, f) # <<>>
<1>1. PICK S : b \in Seq(S)
  BY DEF IsStack
<1>2. b \in Seq(S \cup {f}) /\ f \in S \cup {f}
  BY <1>1
<1>3. Append(b, f) \in Seq(S \cup {f})
  BY <1>2
<1> QED BY <1>2, <1>3 DEF IsStack

LEMMA BelowStack ==
    ASSUME NEW fs, IsStack(fs), fs # <<>>
    PROVE  /\ IsStack(Below(fs)) /\ Len(fs) \in Nat \ {0} /\ Len(Below(fs)) = Len(fs) - 1
           /\ \A i \in 1..Len(Below(fs)) : Below(fs)[i] = fs[i]
<1>1. PICK S : fs \in Seq(S)
  BY DEF IsStack
<1>2. Len(fs) \in Nat \ {0}
  BY <1>1
<1>3. /\ Below(fs) \in Seq(S) /\ Len(Below(fs)) = Len(fs) - 1
      /\ \A i \in 1..(Len(fs) - 1) : Below(fs)[i] = fs[i]
  <2>1. Len(fs) \in Int /\ fs \in Seq(S) /\ 1 \in Int /\ Len(fs) - 1 \in Int
    BY <1>1, <1>2
  <2>2. \A i \in 1..(Len(fs) - 1) : fs[i] \in S
    BY <1>1, <1>2
  <2> DEFINE n == Len(fs) - 1
  <2>3. Below(fs) = SubSeq(fs, 1, n) /\ n \in Nat
    BY <1>2 DEF Below
  <2>4. \A i \in 1..n : fs[i] \in S
    BY <2>2
  <2> HIDE DEF n
  <2>5. SubSeq(fs, 1, n) = [i \in 1..n |-> fs[i]]
    BY <2>1, <2>3, SMT
  <2>6. SubSeq(fs, 1, n) \in Seq(S) /\ Len(SubSeq(fs, 1, n)) = n
    BY <2>1, <2>3, <2>4, <2>5
  <2> QED BY <2>3, <2>5, <2>6 DEF n
<1>4. \A i \in 1..Len(Below(fs)) : Below(fs)[i] = fs[i]
  BY <1>3
<1> QED BY <1>2, <1>3, <1>4 DEF IsStack

----------------------------------------------------------------------------
(* The invariant                                                           *)

FrameFields == {"kind", "serial", "self", "code", "pc", "height", "mem", "fee", "gas", "saved", "setRO"}

\* The flag was set by one frame; below it is no static call; from it on every
\* frame would go back to the content there is.
SetBy(fs, w, s) ==
    /\ s <= Len(fs) => fs[s].setRO
    /\ \A i \in 1..Len(fs) : i # s => ~fs[i].setRO
    /\ \A i \in 1..Len(fs) : i < s => fs[i].kind # "staticcall"
    /\ \A i \in 1..Len(fs) : s <= i => fs[i].kind \notin CreateKinds /\ Content(fs[i].saved) = Content(w)

Locked(fs, w, ro) ==
    \E s \in 1..(Len(fs) + 1) : (ro <=> s <= Len(fs)) /\ SetBy(fs, w, s)

\* The accounts that run exist, here and in every state they may come back in.
Present(fs, w) ==
    /\ \A i \in 1..Len(fs) : fs[i].self \in w.exist
    /\ \A i, j \in 1..Len(fs) : j < i => fs[j].self \in fs[i].saved.exist

Guarded(fs, w, ro) ==
    /\ IsStack(fs) /\ Sane(w) /\ ro \in BOOLEAN
    /\ \A i \in 1..Len(fs) : /\ FrameFields \subseteq DOMAIN fs[i]
                             /\ Sane(fs[i].saved)
                             /\ fs[i].setRO \in BOOLEAN
                             /\ fs[i].self \in Accounts
    /\ Present(fs, w)
    /\ Locked(fs, w, ro)

\* A call is made: a frame is put on the stack.
LEMMA Push ==
    ASSUME NEW b, NEW w0, NEW ro, Guarded(b, w0, ro), NEW f, NEW w, NEW static \in BOOLEAN,
           FrameFields \subseteq DOMAIN f, Sane(f.saved), Sane(w),
           w0.exist \subseteq f.saved.exist, f.saved.exist \subseteq w.exist, f.self \in w.exist \cap Accounts,
           f.setRO = (static /\ ~ro), f.kind = "staticcall" => static,
           ro \/ static => f.kind \notin CreateKinds /\ Content(f.saved) = Content(w),
           ro => Content(w) = Content(w0)
    PROVE  Guarded(Append(b, f), w, ro \/ static)
<1> DEFINE fs == Append(b, f)
           flag == ro \/ static
<1>1. /\ IsStack(fs) /\ Len(b) \in Nat /\ Len(fs) = Len(b) + 1 /\ fs[Len(b) + 1] = f
      /\ \A i \in 1..Len(b) : fs[i] = b[i]
  BY AppendStack DEF Guarded
<1>2. ro \in BOOLEAN /\ flag \in BOOLEAN /\ (flag <=> ro \/ static)
  BY DEF Guarded
<1> HIDE DEF fs, flag
<1>3. ASSUME NEW i \in 1..Len(fs)
      PROVE  /\ FrameFields \subseteq DOMAIN fs[i] /\ Sane(fs[i].saved)
             /\ fs[i].setRO \in BOOLEAN /\ fs[i].self \in Accounts
  <2>1. f.setRO \in BOOLEAN
    BY <1>2
  <2>2. i \in 1..Len(b) \/ i = Len(b) + 1
    BY <1>1
  <2> QED BY <1>1, <2>1, <2>2 DEF Guarded
<1>4. Present(fs, w)
  BY <1>1 DEF Guarded, Present
<1>5. PICK s \in 1..(Len(b) + 1) : (ro <=> s <= Len(b)) /\ SetBy(b, w0, s)
  BY DEF Guarded, Locked
<1>6. Locked(fs, w, flag)
  <2>1. CASE ro
    <3>1. s \in 1..Len(b) /\ s \in 1..(Len(fs) + 1) /\ s <= Len(fs)
      BY <1>1, <1>5, <2>1
    <3>2. ~f.setRO /\ f.kind \notin CreateKinds /\ Content(f.saved) = Content(w)
          /\ Content(w) = Content(w0)
      BY <1>2, <2>1
    <3>3. \A i \in 1..Len(fs) : \/ i \in 1..Len(b) /\ fs[i] = b[i]
                                \/ fs[i] = f /\ i # s /\ ~(i < s)
      <4>1. \A i \in 1..Len(fs) : i \in 1..Len(b) \/ (i = Len(b) + 1 /\ i # s /\ ~(i < s))
        BY <1>1, <3>1
      <4> QED BY <4>1, <1>1
    <3>4. SetBy(fs, w, s)
      <4>1. SetBy(b, w, s)
        BY <1>5, <3>2, Zenon DEF SetBy
      <4>2. \A i \in 1..Len(fs) : i # s => ~fs[i].setRO
        BY <4>1, <3>2, <3>3, Zenon DEF SetBy
      <4>3. \A i \in 1..Len(fs) : i < s => fs[i].kind # "staticcall"
        BY <4>1, <3>3, Zenon DEF SetBy
      <4>4. \A i \in 1..Len(fs) :
               s <= i => fs[i].kind \notin CreateKinds /\ Content(fs[i].saved) = Content(w)
        BY <4>1, <3>2, <3>3, Zenon DEF SetBy
      <4>5. fs[s].setRO
        <5>1. fs[s] = b[s] /\ s <= Len(b)
          BY <1>1, <1>5, <2>1, <3>1
        <5> QED BY <4>1, <5>1, Zenon DEF SetBy
      <4> QED BY <4>2, <4>3, <4>4, <4>5, Zenon DEF SetBy
    <3> QED BY <1>2, <2>1, <3>1, <3>4 DEF Locked
  <2>2. CASE ~ro /\ static
    <3>1. s = Len(b) + 1
      BY <1>1, <1>5, <2>2
    <3>2. s \in 1..(Len(fs) + 1) /\ s <= Len(fs) /\ fs[s] = f
      BY <1>1, <3>1
    <3>3. f.setRO /\ f.kind \notin CreateKinds /\ Content(f.saved) = Content(w)
      BY <1>2, <2>2
    <3>4. \A i \in 1..Len(fs) : \/ i \in 1..Len(b) /\ i # s /\ ~(s <= i) /\ i < s
                                \/ i = s /\ ~(i < s)
      BY <1>1, <3>1
    <3>5. SetBy(fs, w, s)
      <4>1. \A i \in 1..Len(b) : fs[i] = b[i]
        BY <1>1
      <4> QED BY <4>1, <1>5, <3>2, <3>3, <3>4, Zenon DEF SetBy
    <3> QED BY <1>2, <2>2, <3>2, <3>5 DEF Locked
  <2>3. CASE ~ro /\ ~static
    <3>1. s = Len(b) + 1
      BY <1>1, <1>5, <2>3
    <3> DEFINE t == Len(fs) + 1
    <3>2. t \in 1..(Len(fs) + 1) /\ ~(t <= Len(fs))
      BY <1>1
    <3>3. ~f.setRO /\ f.kind # "staticcall"
      BY <1>2, <2>3
    <3>4. \A i \in 1..Len(fs) : /\ i # t /\ ~(t <= i)
                                /\ \/ i \in 1..Len(b) /\ i # s /\ i < s
                                   \/ i = Len(b) + 1
      BY <1>1, <3>1
    <3> HIDE DEF t
    <3>5. SetBy(fs, w, t)
      BY <1>1, <1>5, <3>2, <3>3, <3>4, Zenon DEF SetBy
    <3> QED BY <1>2, <2>3, <3>2, <3>5 DEF Locked
  <2> QED BY <2>1, <2>2, <2>3
<1>7. Guarded(fs, w, flag)
  BY <1>1, <1>2, <1>3, <1>4, <1>6 DEF Guarded
<1> QED BY <1>7 DEF fs, flag

\* It ends: the flag goes with the frame that set it.
LEMMA Pop ==
    ASSUME NEW b, IsStack(b), NEW f, NEW w0, NEW ro, Guarded(Append(b, f), w0, ro), NEW w,
           Sane(w), w0.exist \subseteq w.exist \/ w = f.saved,
           ro => Content(w) = Content(w0)
    PROVE  Guarded(b, w, IF f.setRO THEN FALSE ELSE ro)
<1> DEFINE fs == Append(b, f)
           rest == IF f.setRO THEN FALSE ELSE ro
<1>1. /\ Len(b) \in Nat /\ Len(fs) = Len(b) + 1 /\ fs[Len(b) + 1] = f
      /\ \A i \in 1..Len(b) : fs[i] = b[i]
  BY AppendStack
<1>2. Guarded(fs, w0, ro) /\ ro \in BOOLEAN
  BY DEF Guarded
<1> HIDE DEF fs
<1>3. rest \in BOOLEAN
  BY <1>2
<1>4. \A i \in 1..Len(b) : /\ FrameFields \subseteq DOMAIN b[i] /\ Sane(b[i].saved)
                           /\ b[i].setRO \in BOOLEAN /\ b[i].self \in Accounts
  BY <1>1, <1>2 DEF Guarded
<1>5. Present(b, w)
  BY <1>1, <1>2 DEF Guarded, Present
<1>6. PICK s \in 1..(Len(fs) + 1) : (ro <=> s <= Len(fs)) /\ SetBy(fs, w0, s)
  BY <1>2 DEF Guarded, Locked
<1>7. ASSUME s <= Len(b) PROVE Locked(b, w, rest)
  <2>1. /\ s \in 1..Len(b) /\ s \in 1..(Len(b) + 1) /\ s <= Len(fs) /\ Len(b) + 1 # s
        /\ Len(b) + 1 \in 1..Len(fs)
    BY <1>1, <1>6, <1>7
  <2>2. ~f.setRO
    BY <1>1, <1>6, <2>1, Zenon DEF SetBy
  <2>3. rest = ro /\ ro
    BY <1>2, <1>6, <2>1, <2>2
  <2>4. \A i \in 1..Len(b) : i \in 1..Len(fs)
    BY <1>1
  <2>5. Content(w) = Content(w0)
    BY <2>3
  <2>6. SetBy(b, w, s)
    BY <1>1, <1>6, <1>7, <2>1, <2>4, <2>5, Zenon DEF SetBy
  <2> HIDE DEF rest
  <2> QED BY <1>7, <2>1, <2>3, <2>6 DEF Locked
<1>8. ASSUME s > Len(b) PROVE Locked(b, w, rest)
  <2> DEFINE t == Len(b) + 1
  <2>1. s = t \/ ~(s <= Len(fs))
    BY <1>1, <1>6, <1>8
  <2>2. s = t => s <= Len(fs) /\ fs[s] = f
    BY <1>1
  <2>3. s = t => f.setRO
    BY <1>6, <2>2 DEF SetBy
  <2>4. rest = FALSE
    BY <1>2, <1>6, <2>1, <2>3
  <2>5. t \in 1..(Len(b) + 1) /\ ~(t <= Len(b))
    BY <1>1
  <2>6. \A i \in 1..Len(b) : i \in 1..Len(fs) /\ i # s /\ i # t /\ i < s /\ ~(t <= i)
    BY <1>1, <1>6, <1>8
  <2> HIDE DEF rest, t
  <2>7. SetBy(b, w, t)
    BY <1>1, <1>6, <2>5, <2>6, Zenon DEF SetBy
  <2> QED BY <2>4, <2>5, <2>7 DEF Locked
<1>9. Locked(b, w, rest)
  <2> HIDE DEF rest
  <2>1. s <= Len(b) \/ s > Len(b)
    BY <1>1, <1>6
  <2> QED BY <2>1, <1>7, <1>8
<1> HIDE DEF rest
<1>10. Guarded(b, w, rest)
  BY <1>4, <1>5, <1>3, <1>9 DEF Guarded
<1> QED BY <1>10 DEF rest

\* It goes on: only what does not identify it changes.
SameFrame(g, f) ==
    /\ FrameFields \subseteq DOMAIN g
    /\ g.kind = f.kind /\ g.self = f.self /\ g.saved = f.saved /\ g.setRO = f.setRO

LEMMA Replace ==
    ASSUME NEW b, IsStack(b), NEW f, NEW w0, NEW ro, Guarded(Append(b, f), w0, ro), NEW g,
           SameFrame(g, f), NEW w, Follows(w, w0), ro => Content(w) = Content(w0)
    PROVE  Guarded(Append(b, g), w, ro)
<1> DEFINE fs == Append(b, f)
           gs == Append(b, g)
<1>1. /\ Len(b) \in Nat /\ Len(fs) = Len(b) + 1 /\ fs[Len(b) + 1] = f
      /\ \A i \in 1..Len(b) : fs[i] = b[i]
  BY AppendStack
<1>2. /\ IsStack(gs) /\ Len(gs) = Len(b) + 1 /\ gs[Len(b) + 1] = g
      /\ \A i \in 1..Len(b) : gs[i] = b[i]
  BY AppendStack
<1>3. Guarded(fs, w0, ro)
  OBVIOUS
<1> HIDE DEF fs, gs
<1>4. \A i \in 1..Len(gs) : /\ FrameFields \subseteq DOMAIN gs[i]
                            /\ gs[i].kind = fs[i].kind /\ gs[i].self = fs[i].self
                            /\ gs[i].saved = fs[i].saved /\ gs[i].setRO = fs[i].setRO
  BY <1>1, <1>2, <1>3 DEF SameFrame, Guarded
<1>5. Len(gs) = Len(fs)
  BY <1>1, <1>2
<1>6. Present(gs, w)
  BY <1>3, <1>4, <1>5 DEF Guarded, Present, Follows
<1>7. PICK s \in 1..(Len(fs) + 1) : (ro <=> s <= Len(fs)) /\ SetBy(fs, w0, s)
  BY <1>3 DEF Guarded, Locked
<1>8. SetBy(gs, w, s)
  BY <1>1, <1>4, <1>5, <1>7 DEF SetBy
<1>9. Locked(gs, w, ro)
  BY <1>5, <1>7, <1>8 DEF Locked
<1> QED BY <1>2, <1>3, <1>4, <1>5, <1>6, <1>9 DEF Guarded, Follows, gs

\* The state goes on under a stack that stays.
LEMMA Evolve ==
    ASSUME NEW b, NEW w0, NEW ro, Guarded(b, w0, ro), NEW w, Follows(w, w0),
           ro => Content(w) = Content(w0)
    PROVE  Guarded(b, w, ro)
<1>1. Len(b) \in Nat
  BY DEF Guarded, IsStack
<1>2. Present(b, w)
  BY DEF Guarded, Present, Follows
<1>3. PICK s \in 1..(Len(b) + 1) : (ro <=> s <= Len(b)) /\ SetBy(b, w0, s)
  BY DEF Guarded, Locked
<1>4. SetBy(b, w, s)
  <2>1. CASE ro
    <3>1. Content(w) = Content(w0)
      BY <2>1
    <3> QED BY <1>3, <3>1, Zenon DEF SetBy
  <2>2. CASE ~ro
    <3>1. \A i \in 1..Len(b) : ~(s <= i)
      BY <1>1, <1>3, <2>2
    <3> QED BY <1>3, <3>1, Zenon DEF SetBy
  <2> QED BY <2>1, <2>2
<1>5. Locked(b, w, ro)
  BY <1>3, <1>4 DEF Locked
<1> QED BY <1>2, <1>5 DEF Guarded, Follows

\* While the flag is set the last frame is no create, and what it would go
\* back to is what there is.
LEMMA TopFrame ==
    ASSUME NEW b, IsStack(b), NEW f, NEW w, NEW ro, Guarded(Append(b, f), w, ro)
    PROVE  /\ FrameFields \subseteq DOMAIN f /\ Sane(f.saved) /\ f.setRO \in BOOLEAN
           /\ f.self \in w.exist \cap Accounts
           /\ ro => f.kind \notin CreateKinds /\ Content(f.saved) = Content(w)
           /\ f.setRO => ro
<1> DEFINE fs == Append(b, f)
           n == Len(b) + 1
<1>1. Len(b) \in Nat /\ Len(fs) = n /\ fs[n] = f /\ n \in 1..n
  BY AppendStack
<1>2. Guarded(fs, w, ro)
  OBVIOUS
<1> HIDE DEF fs, n
<1>3. PICK s \in 1..(Len(fs) + 1) : (ro <=> s <= Len(fs)) /\ SetBy(fs, w, s)
  BY <1>2 DEF Guarded, Locked
<1>4. ASSUME ro PROVE f.kind \notin CreateKinds /\ Content(f.saved) = Content(w)
  <2>1. s <= n
    BY <1>1, <1>3, <1>4
  <2> QED BY <1>1, <1>3, <2>1, Zenon DEF SetBy
<1>5. ASSUME f.setRO PROVE ro
  <2>1. s = n
    BY <1>1, <1>3, <1>5, Zenon DEF SetBy
  <2> QED BY <1>1, <1>3, <2>1 DEF n
<1>6. FrameFields \subseteq DOMAIN f /\ Sane(f.saved) /\ f.setRO \in BOOLEAN
      /\ f.self \in w.exist \cap Accounts
  BY <1>1, <1>2 DEF Guarded, Present
<1> QED BY <1>4, <1>5, <1>6

LEMMA StackParts ==
    ASSUME NEW b, IsStack(b), b # <<>>
    PROVE  b = Append(Below(b), b[Len(b)]) /\ IsStack(Below(b))
<1>1. PICK S : b \in Seq(S)
  BY DEF IsStack
<1>2. Len(b) \in Nat \ {0} /\ IsStack(Below(b)) /\ Len(Below(b)) = Len(b) - 1
      /\ \A i \in 1..Len(Below(b)) : Below(b)[i] = b[i]
  BY BelowStack
<1> DEFINE c == Append(Below(b), b[Len(b)])
<1>3. /\ IsStack(c) /\ Len(c) = Len(b) /\ c[Len(b)] = b[Len(b)]
      /\ \A i \in 1..Len(Below(b)) : c[i] = Below(b)[i]
  BY <1>2, AppendStack
<1> HIDE DEF c
<1>4. \A i \in 1..Len(b) : c[i] = b[i]
  <2>1. \A i \in 1..Len(b) : i \in 1..Len(Below(b)) \/ i = Len(b)
    BY <1>2
  <2> QED BY <1>2, <1>3, <2>1
<1>5. PICK T : c \in Seq(T)
  BY <1>3 DEF IsStack
<1>6. c = b
  BY <1>1, <1>3, <1>4, <1>5, SeqEqual
<1> QED BY <1>2, <1>6 DEF c

----------------------------------------------------------------------------
(* Steps                                                                   *)

Landed(fs, w, ro, what) == IF what = "none" THEN Guarded(fs, w, ro) ELSE fs = <<>>

\* Where a step of the machine ends.
Lands ==
    /\ Landed(frames', world', readOnly', fault')
    /\ readOnly => Content(world') = Content(world)

\* Execute returned.
LEMMA GoingOn ==
    ASSUME NEW b, IsStack(b), NEW g, NEW w, NEW ro, Guarded(Append(b, g), w, ro),
           readOnly => Content(w) = Content(world), Continue(b, g, w, ro)
    PROVE  Lands
<1>1. world' = w
  BY DEF Continue
<1>2. CASE frames' = Append(b, [g EXCEPT !.pc = @ + 1]) /\ readOnly' = ro /\ fault' = "none"
  <2>1. FrameFields \subseteq DOMAIN g /\ Follows(w, w)
    BY TopFrame DEF Guarded, Follows
  <2>2. SameFrame([g EXCEPT !.pc = @ + 1], g)
    BY <2>1 DEF SameFrame, FrameFields
  <2>3. Guarded(Append(b, [g EXCEPT !.pc = @ + 1]), w, ro)
    BY <2>1, <2>2, Replace
  <2> QED BY <1>1, <1>2, <2>3 DEF Lands, Landed
<1>3. CASE frames' = b /\ readOnly' = (IF g.setRO THEN FALSE ELSE ro) /\ fault' = "none"
  <2>1. Guarded(b, w, IF g.setRO THEN FALSE ELSE ro)
    BY Pop DEF Guarded
  <2> QED BY <1>1, <1>3, <2>1 DEF Lands, Landed
<1>4. CASE fault' = "override" /\ frames' = <<>>
  BY <1>1, <1>4 DEF Lands, Landed
<1> QED BY <1>2, <1>3, <1>4 DEF Continue

\* A call returned.
LEMMA Resuming ==
    ASSUME NEW b, NEW w, NEW ro, Guarded(b, w, ro), readOnly => Content(w) = Content(world),
           NEW gas, NEW ok, Resume(b, gas, ok, w, ro)
    PROVE  Lands
<1>1. CASE b = <<>>
  BY <1>1 DEF Resume, Lands, Landed
<1>2. CASE b # <<>>
  <2> DEFINE f == b[Len(b)]
             g == [f EXCEPT !.height = @ + 1, !.gas = Wrap(@ + gas)]
  <2>1. b = Append(Below(b), f) /\ IsStack(Below(b))
    BY <1>2, StackParts DEF Guarded
  <2>2. FrameFields \subseteq DOMAIN f /\ Follows(w, w)
    BY <2>1, TopFrame DEF Guarded, Follows
  <2>3. SameFrame(g, f)
    BY <2>2 DEF SameFrame, FrameFields
  <2>4. Continue(Below(b), g, w, ro)
    BY <1>2, Zenon DEF Resume
  <2> HIDE DEF f, g
  <2>5. Guarded(Append(Below(b), f), w, ro)
    BY <2>1
  <2>6. Guarded(Append(Below(b), g), w, ro)
    BY <2>1, <2>2, <2>3, <2>5, Replace
  <2> QED BY <2>1, <2>4, <2>6, GoingOn
<1> QED BY <1>1, <1>2

----------------------------------------------------------------------------
(* Calls.  The stack and the state of the caller are guarded.              *)

MayCall(b, w) == Guarded(b, w, readOnly) /\ (readOnly => Content(w) = Content(world))

LEMMA ReturnsLands ==
    ASSUME NEW b, NEW w0, MayCall(b, w0), NEW w, Follows(w, w0),
           readOnly => Content(w) = Content(w0), NEW gas, NEW ok, Returns(b, gas, ok, w)
    PROVE  Lands
<1>1. Guarded(b, w, readOnly)
  BY Evolve DEF MayCall
<1>2. readOnly => Content(w) = Content(world)
  BY DEF MayCall
<1> QED BY <1>1, <1>2, Resuming DEF Returns

LEMMA InvokeLands ==
    ASSUME NEW b, NEW saved, MayCall(b, saved), NEW w, Follows(w, saved),
           NEW static \in BOOLEAN, readOnly \/ static => Content(w) = Content(saved),
           NEW self \in w.exist \cap Accounts, NEW kind,
           kind \notin CreateKinds, kind = "staticcall" => static,
           NEW addr, NEW gas, Invoke(kind, b, self, addr, gas, saved, w, static)
    PROVE  Lands
<1>1. ASSUME NEW fine, NEW left, Returns(b, left, fine, IF fine THEN w ELSE saved)
      PROVE  Lands
  <2> DEFINE w1 == IF fine THEN w ELSE saved
  <2>1. Follows(w1, saved) /\ (readOnly => Content(w1) = Content(saved))
    BY DEF MayCall, Guarded, Follows
  <2> HIDE DEF w1
  <2>2. Returns(b, left, fine, w1)
    BY <1>1 DEF w1
  <2> QED BY <2>1, <2>2, ReturnsLands
<1>2. CASE Returns(b, gas, TRUE, w)
  BY <1>2, ReturnsLands
<1> DEFINE f == NewFrame(kind, self, w.code[addr], gas, saved, static /\ ~readOnly)
<1>3. CASE Run(b, f, w, static)
  <2>1. /\ FrameFields \subseteq DOMAIN f /\ f.saved = saved /\ f.self = self /\ f.kind = kind
        /\ f.setRO = (static /\ ~readOnly)
    BY DEF NewFrame, FrameFields
  <2> HIDE DEF f
  <2>2. Guarded(Append(b, f), w, readOnly \/ static)
    <3>1. /\ Sane(f.saved) /\ Sane(w) /\ saved.exist \subseteq f.saved.exist
          /\ f.saved.exist \subseteq w.exist /\ f.self \in w.exist \cap Accounts
          /\ f.kind = "staticcall" => static
          /\ readOnly \/ static => f.kind \notin CreateKinds /\ Content(f.saved) = Content(w)
          /\ readOnly => Content(w) = Content(saved)
          /\ Guarded(b, saved, readOnly)
      BY <2>1 DEF MayCall, Guarded, Follows
    <3> QED BY <2>1, <3>1, Push
  <2> QED BY <1>3, <2>2 DEF Run, Lands, Landed, MayCall
<1> QED BY <1>1, <1>2, <1>3, Zenon DEF Invoke

LEMMA CallLands ==
    ASSUME NEW b, NEW w, MayCall(b, w), NEW from, NEW to \in Accounts, NEW gas,
           NEW value \in Int, readOnly => value = 0, Call(b, from, to, gas, value, w)
    PROVE  Lands
<1> DEFINE target == IF Exist(w, to) THEN w ELSE CreateAccount(w, to)
           paid == Transfer(target, Serial(b), from, to, value)
<1>1. Sane(w) /\ Follows(w, w)
  BY DEF MayCall, Guarded, Follows
<1>2. Unwritten(target, w)
  BY <1>1, CreateAccountFollows DEF Exist, Unwritten
<1>3. Sane(target)
  BY <1>2 DEF Unwritten, Follows
<1> HIDE DEF target
<1>4. Follows(paid, target) /\ to \in paid.exist /\ (value = 0 => Unwritten(paid, target))
  BY <1>3, TransferFollows
<1>5. Follows(paid, w) /\ (readOnly => Content(paid) = Content(w))
  BY <1>2, <1>4, FollowsTrans DEF Unwritten
<1>6. \/ \E ok : Returns(b, gas, ok, w)
      \/ Invoke("call", b, to, to, gas, w, paid, FALSE)
  BY Zenon DEF Call, target
<1> HIDE DEF paid
<1>7. CASE Invoke("call", b, to, to, gas, w, paid, FALSE)
  BY <1>4, <1>5, <1>7, InvokeLands DEF CreateKinds
<1> QED BY <1>1, <1>6, <1>7, ReturnsLands

LEMMA BorrowedLands ==
    ASSUME NEW b, NEW w, MayCall(b, w), NEW from \in w.exist \cap Accounts, NEW to, NEW gas, NEW value,
           CallCode(b, from, to, gas, value, w) \/ DelegateCall(b, from, to, gas, w)
    PROVE  Lands
<1>1. Follows(w, w)
  BY DEF MayCall, Guarded, Follows
<1>2. ASSUME NEW kind \in {"callcode", "delegatecall"}, Invoke(kind, b, from, to, gas, w, w, FALSE)
      PROVE  Lands
  BY <1>1, <1>2, InvokeLands DEF CreateKinds
<1>3. ASSUME NEW ok, Returns(b, gas, ok, w) PROVE Lands
  BY <1>1, <1>3, ReturnsLands
<1>4. \/ Returns(b, gas, FALSE, w)
      \/ Invoke("callcode", b, from, to, gas, w, w, FALSE)
      \/ Invoke("delegatecall", b, from, to, gas, w, w, FALSE)
  BY Zenon DEF CallCode, DelegateCall
<1> QED BY <1>2, <1>3, <1>4

LEMMA StaticCallLands ==
    ASSUME NEW b, NEW w, MayCall(b, w), NEW to \in Accounts, NEW gas, StaticCall(b, to, gas, w)
    PROVE  Lands
<1>1. Sane(w) /\ Follows(w, w)
  BY DEF MayCall, Guarded, Follows
<1> DEFINE touched == AddBalance(w, to, 0)
<1>2. Unwritten(touched, w) /\ to \in touched.exist
  BY <1>1, AddBalanceFollows
<1>3. Returns(b, gas, FALSE, w) \/ Invoke("staticcall", b, to, to, gas, w, touched, TRUE)
  BY Zenon DEF StaticCall
<1> HIDE DEF touched
<1>4. CASE Invoke("staticcall", b, to, to, gas, w, touched, TRUE)
  BY <1>2, <1>4, InvokeLands DEF CreateKinds, Unwritten
<1> QED BY <1>1, <1>3, <1>4, ReturnsLands

\* What an account that exists has may change.
LEMMA EntriesFollow ==
    ASSUME NEW w, Sane(w), NEW a \in w.exist, NEW v, NEW warm
    PROVE  /\ Follows([w EXCEPT !.nonce[a] = v, !.warm = warm], w)
           /\ Follows([w EXCEPT !.nonce[a] = v], w)
           /\ Follows([w EXCEPT !.code[a] = v], w)
           /\ Follows([w EXCEPT !.slot[a] = v], w)
  BY DEF Sane, Follows, WorldFields

LEMMA CreateLands ==
    ASSUME NEW b, NEW w, MayCall(b, w), ~readOnly, NEW from \in w.exist, NEW value \in Int,
           NEW kind, kind # "staticcall", NEW gas, NEW size, create(kind, b, from, gas, value, size, w)
    PROVE  Lands
<1>1. Sane(w) /\ Follows(w, w)
  BY DEF MayCall, Guarded, Follows
<1>2. ASSUME NEW a \in CreateAddresses, NEW init,
             LET bumped == [Journal(w, Serial(b), "nonce") EXCEPT
                               !.nonce[from] = @ + 1,
                               !.warm = IF IsRule("Berlin") THEN @ \cup {a} ELSE @]
                 born   == [CreateAccount(bumped, a) EXCEPT
                               !.nonce[a] = IF IsRule("SpuriousDragon") THEN 1 ELSE 0]
                 paid   == Transfer(Journal(born, Serial(b), "create"), Serial(b), from, a, value)
             IN  \/ \E left, ok : Returns(b, left, ok, bumped) \/ Returns(b, left, ok, paid)
                 \/ Run(b, NewFrame(kind, a, init, gas, bumped, FALSE), paid, FALSE)
      PROVE  Lands
  <2> DEFINE noted == Journal(w, Serial(b), "nonce")
             bumped == [noted EXCEPT !.nonce[from] = @ + 1,
                                     !.warm = IF IsRule("Berlin") THEN @ \cup {a} ELSE @]
             fresh == CreateAccount(bumped, a)
             born == [fresh EXCEPT !.nonce[a] = IF IsRule("SpuriousDragon") THEN 1 ELSE 0]
             made == Journal(born, Serial(b), "create")
             paid == Transfer(made, Serial(b), from, a, value)
             f == NewFrame(kind, a, init, gas, bumped, FALSE)
  <2>1. Follows(noted, w) /\ Sane(noted) /\ from \in noted.exist
    BY <1>1, JournalFollows DEF Follows
  <2>2. Follows(bumped, noted)
    <3> HIDE DEF noted
    <3> DEFINE v == noted.nonce[from] + 1
               warm == IF IsRule("Berlin") THEN noted.warm \cup {a} ELSE noted.warm
    <3>1. bumped = [noted EXCEPT !.nonce[from] = v, !.warm = warm]
      OBVIOUS
    <3> HIDE DEF v, warm
    <3> QED BY <2>1, <3>1, EntriesFollow
  <2> HIDE DEF noted
  <2>3. Follows(bumped, w) /\ Sane(bumped)
    BY <2>1, <2>2, FollowsTrans DEF Follows
  <2> HIDE DEF bumped
  <2>4. Follows(fresh, bumped) /\ a \in fresh.exist /\ Sane(fresh)
    BY <2>3, CreateAccountFollows DEF Follows
  <2> HIDE DEF fresh
  <2>5. Follows(born, fresh) /\ Sane(born)
    BY <2>4, EntriesFollow DEF Follows
  <2> HIDE DEF born
  <2>6. Follows(made, born) /\ Sane(made)
    BY <2>5, JournalFollows DEF Follows
  <2> HIDE DEF made
  <2>7. Follows(paid, made) /\ a \in paid.exist /\ Sane(paid)
    BY <2>6, TransferFollows DEF Follows
  <2> HIDE DEF paid
  <2>8. Follows(paid, bumped) /\ Follows(paid, w)
    BY <2>3, <2>4, <2>5, <2>6, <2>7 DEF Follows
  <2>9. CASE \E left, ok : Returns(b, left, ok, bumped) \/ Returns(b, left, ok, paid)
    BY <2>3, <2>8, <2>9, ReturnsLands
  <2>10. CASE Run(b, f, paid, FALSE)
    <3>1. /\ FrameFields \subseteq DOMAIN f /\ f.saved = bumped /\ f.self = a /\ f.kind = kind
          /\ f.setRO = FALSE
      BY DEF NewFrame, FrameFields
    <3> HIDE DEF f
    <3>2. /\ Sane(f.saved) /\ w.exist \subseteq f.saved.exist /\ f.saved.exist \subseteq paid.exist
          /\ f.self \in paid.exist \cap Accounts /\ Guarded(b, w, readOnly)
          /\ f.kind # "staticcall"
      BY <2>3, <2>7, <2>8, <3>1, OperandsAssumption DEF MayCall, Follows
    <3>3. ASSUME NEW static \in BOOLEAN, ~static
          PROVE  Guarded(Append(b, f), paid, readOnly \/ static)
      <4>1. f.setRO = (static /\ ~readOnly)
        BY <3>1, <3>3
      <4>2. ~(readOnly \/ static) /\ (f.kind = "staticcall" => static)
        BY <3>2, <3>3
      <4> QED BY <2>7, <3>1, <3>2, <4>1, <4>2, Push
    <3> QED BY <2>10, <3>3 DEF Run, Lands, Landed
  <2> QED BY <1>2, <2>9, <2>10 DEF noted, bumped, fresh, born, made, paid
<1>3. CASE \E ok : Returns(b, gas, ok, w)
  BY <1>1, <1>3, ReturnsLands
<1> QED BY <1>2, <1>3, Zenon DEF create

----------------------------------------------------------------------------
(* The current frame, with f and w what has become of it and of the state  *)

Runs(f, w) ==
    /\ IsStack(frames) /\ frames # <<>>
    /\ Guarded(Append(Below(frames), f), w, readOnly)
    /\ readOnly => Content(w) = Content(world)

LEMMA RunsParts ==
    ASSUME NEW f, NEW w, Runs(f, w)
    PROVE  /\ IsStack(Below(frames)) /\ Sane(w) /\ FrameFields \subseteq DOMAIN f
           /\ f.self \in w.exist \cap Accounts
  BY StackParts, TopFrame DEF Runs, Guarded

LEMMA RunsOn ==
    ASSUME NEW f, NEW w, Runs(f, w), NEW g, SameFrame(g, f), NEW w1, Follows(w1, w),
           readOnly => Content(w1) = Content(w)
    PROVE  Runs(g, w1)
<1>1. IsStack(Below(frames))
  BY RunsParts
<1>2. Guarded(Append(Below(frames), g), w1, readOnly)
  BY <1>1, Replace DEF Runs
<1> QED BY <1>2 DEF Runs

\* It ends, and the state is what it made of it or what it found.
LEMMA RunsOut ==
    ASSUME NEW f, NEW w, Runs(f, w), NEW w1, w1 \in {w, f.saved}
    PROVE  /\ Guarded(Below(frames), w1, Released(f))
           /\ readOnly => Content(w1) = Content(world)
<1>1. IsStack(Below(frames)) /\ Guarded(Append(Below(frames), f), w, readOnly)
  BY RunsParts DEF Runs
<1>2. /\ Sane(w1) /\ (w.exist \subseteq w1.exist \/ w1 = f.saved)
      /\ readOnly => Content(w1) = Content(w)
  BY <1>1, TopFrame DEF Guarded
<1>3. Guarded(Below(frames), w1, IF f.setRO THEN FALSE ELSE readOnly)
  BY <1>1, <1>2, Pop
<1> QED BY <1>2, <1>3 DEF Runs, Released

LEMMA DepositLands ==
    ASSUME NEW f, NEW w, Runs(f, w), f.kind \in CreateKinds, NEW size, Deposit(f, w, size)
    PROVE  Lands
<1>1. ~readOnly /\ ~f.setRO /\ f.self \in w.exist
  BY RunsParts, TopFrame DEF Runs
<1>2. Released(f) = readOnly
  BY <1>1 DEF Released
<1>3. MayCall(Below(frames), w) /\ MayCall(Below(frames), f.saved)
  BY <1>1, <1>2, RunsOut DEF MayCall
<1> DEFINE noted == Journal(w, f.serial, "code")
           coded == [noted EXCEPT !.code[f.self] = IF size = 0 THEN 0 ELSE Deployed]
<1>4. Follows(noted, w) /\ Sane(noted) /\ f.self \in noted.exist
  BY <1>1, RunsParts, JournalFollows DEF Follows
<1> HIDE DEF noted
<1>5. Follows(coded, w)
  BY <1>4, EntriesFollow, FollowsTrans
<1>6. Follows(w, w) /\ Follows(f.saved, f.saved)
  BY <1>3 DEF MayCall, Guarded, Follows
<1>7. \/ \E left, ok : Returns(Below(frames), left, ok, f.saved)
      \/ \E left, ok : Returns(Below(frames), left, ok, w)
      \/ \E left, ok : Returns(Below(frames), left, ok, coded)
  BY Zenon DEF Deposit, noted
<1> HIDE DEF coded
<1> QED BY <1>1, <1>3, <1>5, <1>6, <1>7, ReturnsLands

LEMMA EndsLands ==
    ASSUME NEW f, NEW w, Runs(f, w), NEW outcome, NEW size, Ends(outcome, f, w, size)
    PROVE  Lands
<1>1. CASE Lite(f) /\ frames' = Below(frames) /\ world' = w /\ readOnly' = Released(f) /\ fault' = "none"
  BY <1>1, RunsOut DEF Lands, Landed
<1>2. CASE f.kind \in CreateKinds /\ Deposit(f, w, size)
  BY <1>2, DepositLands
<1>3. CASE Resume(Below(frames), Left(outcome, f), outcome = "ok", Kept(outcome, f, w), Released(f))
  <2>1. Kept(outcome, f, w) \in {w, f.saved}
    BY DEF Kept
  <2> QED BY <1>3, <2>1, RunsOut, Resuming
<1> QED BY <1>1, <1>2, <1>3 DEF Ends

LEMMA GoesOnLands ==
    ASSUME NEW f, NEW w, Runs(f, w), GoesOn(f, w)
    PROVE  Lands
  BY RunsParts, GoingOn DEF Runs, GoesOn

\* Paying for an instruction changes neither what the frame is nor the content
\* of the state.
LEMMA PaidSame ==
    ASSUME NEW op, NEW v, WorldFields \subseteq DOMAIN world, FrameFields \subseteq DOMAIN Current
    PROVE  SameFrame(Paid(op, v).frame, Current) /\ Alike(Paid(op, v).world, world)
<1> DEFINE p == Paid(op, v)
<1>1. Alike(world, world)
  BY DEF Alike
<1>2. ASSUME NEW g, SameFrame(g, Current), NEW size
      PROVE  SameFrame(Sized(op, v, g, size).frame, Current) /\ Alike(Sized(op, v, g, size).world, world)
  <2>1. CASE size = Refused
    BY <1>1, <1>2, <2>1 DEF Sized, Stopped
  <2>2. CASE size # Refused
    <3> DEFINE c == Context(g, op, size, v)
               q == Quoted(g, op, size, v)
    <3>1. Alike(c.world, world) /\ ContextFields \subseteq DOMAIN c
      BY <1>1 DEF Context, ContextFields
    <3> HIDE DEF c
    <3>2. Quiet(q, world)
      BY <3>1, QuoteQuiet, GasQuiet DEF Quoted, c
    <3> DEFINE cost == IF Charged(g) THEN q.cost ELSE 0
    <3>3. Sized(op, v, g, size) = Settled(g, size, q, cost)
      BY <2>2, Zenon DEF Sized
    <3> HIDE DEF q, cost
    <3>4. /\ Settled(g, size, q, cost).world = q.world
          /\ SameFrame(Settled(g, size, q, cost).frame, Current)
      BY <1>2 DEF Settled, SameFrame, FrameFields
    <3> QED BY <3>2, <3>3, <3>4 DEF Quiet
  <2> QED BY <2>1, <2>2
<1>3. SameFrame(Current, Current)
  BY DEF SameFrame
<1>4. \A x : SameFrame([Current EXCEPT !.gas = @ - x], Current)
  BY DEF SameFrame, FrameFields
<1> DEFINE due == IF Charged(Current) THEN Cost(op.constantGas) ELSE 0
           g == [Current EXCEPT !.gas = @ - due]
           size == MemorySize(op, v)
<1>5. p = Stopped(Current) \/ p = Sized(op, v, g, size)
  BY Zenon DEF Paid
<1>6. SameFrame(g, Current)
  BY <1>4
<1> HIDE DEF g, size, p
<1>7. CASE p = Stopped(Current)
  BY <1>1, <1>3, <1>7 DEF Stopped, p
<1>8. CASE p = Sized(op, v, g, size)
  BY <1>2, <1>6, <1>8 DEF p
<1> QED BY <1>5, <1>7, <1>8

LEMMA PaidRuns ==
    ASSUME NEW op, NEW v, IsStack(frames), frames # <<>>, Guarded(frames, world, readOnly)
    PROVE  Runs(Paid(op, v).frame, Paid(op, v).world)
<1>1. Runs(Current, world)
  BY StackParts DEF Runs, Current
<1>2. Sane(world) /\ FrameFields \subseteq DOMAIN Current
  BY <1>1, RunsParts
<1> DEFINE p == Paid(op, v)
<1>3. SameFrame(p.frame, Current) /\ Alike(p.world, world)
  BY <1>2, PaidSame DEF Sane
<1> HIDE DEF p
<1>4. Unwritten(p.world, world)
  BY <1>2, <1>3, AlikeUnwritten
<1>5. Runs(p.frame, p.world)
  BY <1>1, <1>3, <1>4, RunsOn DEF Unwritten
<1> QED BY <1>5 DEF p

----------------------------------------------------------------------------
(* Execute                                                                 *)

LEMMA AdvancedRuns ==
    ASSUME NEW f, NEW w, Runs(f, w), NEW op
    PROVE  /\ Runs(Advanced(f, op), w)
           /\ \A pc : Runs([Advanced(f, op) EXCEPT !.pc = pc], w)
           /\ Runs(Waiting(op, f), w)
           /\ \A gas : Runs([Waiting(op, f) EXCEPT !.gas = gas], w)
<1>1. FrameFields \subseteq DOMAIN f /\ Follows(w, w)
  BY RunsParts DEF Follows
<1>2. /\ SameFrame(Advanced(f, op), f)
      /\ \A pc : SameFrame([Advanced(f, op) EXCEPT !.pc = pc], f)
      /\ SameFrame(Waiting(op, f), f)
      /\ \A gas : SameFrame([Waiting(op, f) EXCEPT !.gas = gas], f)
  BY <1>1 DEF Advanced, Waiting, SameFrame, FrameFields
<1> QED BY <1>1, <1>2, RunsOn

LEMMA HaltingLands ==
    ASSUME NEW op, NEW v, NEW p, Runs(p.frame, p.world), Halting(op, v, p)
    PROVE  Lands
  BY EndsLands DEF Halting

LEMMA JumpingLands ==
    ASSUME NEW op, NEW v, NEW p, Runs(p.frame, p.world), Jumping(op, v, p)
    PROVE  Lands
<1> DEFINE f == Advanced(p.frame, op)
<1>1. Runs(f, p.world) /\ \A pc : Runs([f EXCEPT !.pc = pc], p.world)
  BY AdvancedRuns
<1>2. \/ GoesOn(f, p.world)
      \/ GoesOn([f EXCEPT !.pc = Back(v, 0) - 1], p.world)
      \/ \E outcome : Ends(outcome, p.frame, p.world, 0)
  BY Zenon DEF Jumping
<1> HIDE DEF f
<1> QED BY <1>1, <1>2, GoesOnLands, EndsLands

LEMMA WritingLands ==
    ASSUME NEW op, NEW v, NEW p, Runs(p.frame, p.world), ~readOnly, Writing(op, v, p)
    PROVE  Lands
<1> DEFINE f == Advanced(p.frame, op)
           w == p.world
           noted == Journal(w, f.serial, "slot")
           stored == [noted EXCEPT !.slot[f.self] = Back(v, 1)]
<1>1. Runs(f, w) /\ f.self \in w.exist /\ Sane(w)
  BY AdvancedRuns, RunsParts
<1>2. \A change : Follows(Journal(w, f.serial, change), w)
  BY <1>1, JournalFollows
<1>3. Follows(stored, w)
  <2>1. Follows(noted, w) /\ Sane(noted) /\ f.self \in noted.exist
    BY <1>1, <1>2 DEF Follows
  <2> HIDE DEF noted
  <2> QED BY <2>1, EntriesFollow, FollowsTrans
<1>4. \E w1 \in {w, stored, Journal(w, f.serial, "transient"), Journal(w, f.serial, "log")} : GoesOn(f, w1)
  BY Zenon DEF Writing
<1>5. Follows(w, w)
  BY <1>1 DEF Follows
<1> HIDE DEF f, stored
<1>6. PICK w1 : Follows(w1, w) /\ GoesOn(f, w1)
  BY <1>2, <1>3, <1>4, <1>5
<1>7. FrameFields \subseteq DOMAIN f
  BY <1>1, RunsParts
<1>8. SameFrame(f, f)
  BY <1>7 DEF SameFrame
<1>9. Runs(f, w1)
  BY <1>1, <1>6, <1>8, RunsOn
<1> QED BY <1>6, <1>9, GoesOnLands

LEMMA DestructingLands ==
    ASSUME NEW op, NEW v, NEW p, Runs(p.frame, p.world), ~readOnly, Destructing(op, v, p)
    PROVE  Lands
<1> DEFINE f == p.frame
           self == f.self
           to == Back(v, 0)
           balance == p.world.balance[self]
           w == Journal(p.world, f.serial, "destruct")
           added == AddBalance(w, to, balance)
           emptied == [w EXCEPT !.balance[self] = 0]
           moved == AddBalance(emptied, to, balance)
<1>1. Runs(f, p.world) /\ self \in p.world.exist \cap Accounts /\ Sane(p.world)
      /\ FrameFields \subseteq DOMAIN f
  BY RunsParts
<1>2. balance \in Int
  BY <1>1 DEF Sane
<1>3. Follows(w, p.world) /\ Sane(w) /\ self \in w.exist
  BY <1>1, JournalFollows DEF Follows
<1>4. Follows(emptied, w) /\ Sane(emptied) /\ self \in emptied.exist
  <2> HIDE DEF w
  <2>1. [w.balance EXCEPT ![self] = 0] \in [Accounts -> Int]
    BY <1>3, NewEntry DEF Sane
  <2>2. emptied = [w EXCEPT !.balance = [w.balance EXCEPT ![self] = 0]]
    OBVIOUS
  <2> QED BY <1>3, <2>1, <2>2, TakeBalanceFollows DEF Follows
<1> HIDE DEF w, emptied, balance
<1>5. Follows(added, w) /\ Sane(added) /\ self \in added.exist
  BY <1>2, <1>3, AddBalanceFollows DEF Follows
<1>6. Follows(moved, emptied) /\ Sane(moved) /\ self \in moved.exist
  BY <1>2, <1>4, AddBalanceFollows DEF Follows
<1> HIDE DEF added, moved
<1>7. /\ Follows(SelfDestruct(added, self), p.world)
      /\ Follows(SelfDestruct(moved, self), p.world)
      /\ Follows(moved, p.world)
  BY <1>3, <1>4, <1>5, <1>6, SelfDestructFollows, FollowsTrans
<1>8. \E w1 \in {SelfDestruct(added, self), SelfDestruct(moved, self), moved} : Ends("ok", f, w1, 0)
  BY Zenon DEF Destructing, w, emptied, balance, added, moved
<1>9. PICK w1 : Follows(w1, p.world) /\ Ends("ok", f, w1, 0)
  BY <1>7, <1>8
<1>10. SameFrame(f, f)
  BY <1>1 DEF SameFrame
<1>11. Runs(f, w1)
  BY <1>1, <1>9, <1>10, RunsOn
<1> QED BY <1>9, <1>11, EndsLands

\* What an instruction finds are numbers, and what a call names is an account.
LEMMA Found ==
    ASSUME NEW op, NEW v \in OperandsOf(op)
    PROVE  /\ Back(v, 0) \in Nat /\ Back(v, 2) \in Nat
           /\ op.execute \in {"opCall", "opStaticCall"} => Back(v, 1) \in Accounts
  BY OperandsAssumption DEF OperandsOf, Back, CallFunctions

LEMMA WaitingCalls ==
    ASSUME NEW f, NEW w, Runs(f, w), NEW op
    PROVE  /\ MayCall(Append(Below(frames), Waiting(op, f)), w)
           /\ \A gas : MayCall(Append(Below(frames), [Waiting(op, f) EXCEPT !.gas = gas]), w)
  BY AdvancedRuns DEF Runs, MayCall

LEMMA CallingLands ==
    ASSUME NEW op, NEW v \in OperandsOf(op), NEW p, Runs(p.frame, p.world), ~Protected(op, v),
           Calling(op, v, p)
    PROVE  Lands
<1> DEFINE below == Append(Below(frames), Waiting(op, p.frame))
           from == p.frame.self
           to == Back(v, 1)
           value == Back(v, 2)
<1>1. MayCall(below, p.world) /\ from \in p.world.exist \cap Accounts
  BY WaitingCalls, RunsParts
<1>2. value \in Int /\ (op.execute \in {"opCall", "opStaticCall"} => to \in Accounts)
  BY Found
<1>3. op.execute = "opCall" /\ readOnly => value = 0
  BY DEF Protected
<1>4. \/ op.execute = "opCall" /\ \E gas : Call(below, from, to, gas, value, p.world)
      \/ \E gas : CallCode(below, from, to, gas, value, p.world)
      \/ \E gas : DelegateCall(below, from, to, gas, p.world)
      \/ op.execute = "opStaticCall" /\ \E gas : StaticCall(below, to, gas, p.world)
  BY Zenon DEF Calling
<1> HIDE DEF below, from, to, value
<1> QED BY <1>1, <1>2, <1>3, <1>4, CallLands, BorrowedLands, StaticCallLands

LEMMA CreatingLands ==
    ASSUME NEW op, NEW v \in OperandsOf(op), NEW p, Runs(p.frame, p.world), ~readOnly,
           Creating(op, v, p)
    PROVE  Lands
<1> DEFINE from == p.frame.self
           Below1(gas) == Append(Below(frames), [Waiting(op, p.frame) EXCEPT !.gas = gas])
<1>1. (\A gas : MayCall(Below1(gas), p.world)) /\ from \in p.world.exist
  BY WaitingCalls, RunsParts
<1>2. Back(v, 0) \in Int
  BY Found
<1>3. \E kind \in CreateKinds : \E kept, gas :
         create(kind, Below1(kept), from, gas, Back(v, 0), Back(v, 2), p.world)
  BY Zenon DEF Creating, CreateKinds
<1>4. \A kind \in CreateKinds : kind # "staticcall"
  BY DEF CreateKinds
<1> HIDE DEF from, Below1
<1> QED BY <1>1, <1>2, <1>3, <1>4, CreateLands

LEMMA ComputingLands ==
    ASSUME NEW op, NEW p, Runs(p.frame, p.world), Computing(op, p)
    PROVE  Lands
  BY AdvancedRuns, GoesOnLands, EndsLands DEF Computing

\* The guard that keeps a static call from writing.
LEMMA ExecuteLands ==
    ASSUME NEW op, NEW v \in OperandsOf(op), NEW p, Runs(p.frame, p.world), Execute(op, v, p)
    PROVE  Lands
<1>1. CASE Ends("fail", p.frame, p.world, 0)
  BY <1>1, EndsLands
<1>2. CASE ~Protected(op, v) /\ (Halting(op, v, p) \/ Jumping(op, v, p) \/ Computing(op, p))
  BY <1>2, HaltingLands, JumpingLands, ComputingLands
<1>3. CASE ~Protected(op, v) /\ Writing(op, v, p)
  <2>1. ~readOnly
    BY <1>3 DEF Writing, Protected, Writes
  <2> QED BY <1>3, <2>1, WritingLands
<1>4. CASE ~Protected(op, v) /\ Destructing(op, v, p)
  <2>1. ~readOnly
    BY <1>4 DEF Destructing, Protected, Writes
  <2> QED BY <1>4, <2>1, DestructingLands
<1>5. CASE ~Protected(op, v) /\ Calling(op, v, p)
  BY <1>5, CallingLands
<1>6. CASE ~Protected(op, v) /\ Creating(op, v, p)
  <2>1. ~readOnly
    BY <1>6 DEF Creating, Protected, Writes
  <2> QED BY <1>6, <2>1, CreatingLands
<1> QED BY <1>1, <1>2, <1>3, <1>4, <1>5, <1>6, Zenon DEF Execute

LEMMA StepLands ==
    ASSUME Guarded(frames, world, readOnly), Step
    PROVE  Lands
<1>1. ASSUME NEW what, what # "none", Panic(what) PROVE Lands
  BY <1>1 DEF Panic, Lands, Landed
<1>2. frames # <<>> /\ IsStack(frames)
  BY DEF Step, Guarded
<1>3. ASSUME NEW v \in OperandsOf(Operation), NEW p, p = Paid(Operation, v),
             Turn(Operation, v, p, Broken(Operation, v, p))
      PROVE  Lands
  <2>1. Runs(p.frame, p.world)
    BY <1>2, <1>3, PaidRuns
  <2>2. \/ \E what : what # "none" /\ Panic(what)
        \/ Ends("fail", p.frame, p.world, 0)
        \/ Execute(Operation, v, p)
    BY <1>3, Zenon DEF Turn
  <2> QED BY <1>1, <2>1, <2>2, EndsLands, ExecuteLands
<1>4. \/ Panic("checkpoint")
      \/ \E v \in OperandsOf(Operation) : \E p \in {Paid(Operation, v)} :
            Turn(Operation, v, p, Broken(Operation, v, p))
  BY Zenon DEF Step, Serve
<1> QED BY <1>1, <1>3, <1>4

----------------------------------------------------------------------------
(* The host                                                                *)

LEMMA TransactLands ==
    ASSUME session \in Sessions, Guarded(frames, world, readOnly), Transact
    PROVE  Lands
<1> DEFINE w == IF session.infinite THEN world ELSE Prepared(world, {session.sender, session.to})
<1>1. Guarded(<<>>, world, readOnly) /\ Sane(world)
  BY DEF Transact, Guarded
<1>2. Alike(w, world)
  BY <1>1, PreparedAlike DEF Alike, Sane
<1>3. Call(<<>>, session.sender, session.to, session.gas, 0, w)
  BY DEF Transact
<1> HIDE DEF w
<1>4. Unwritten(w, world)
  BY <1>1, <1>2, AlikeUnwritten
<1>5. MayCall(<<>>, w)
  BY <1>1, <1>4, Evolve DEF Unwritten, MayCall
<1>6. session.to \in Accounts
  BY SessionsAssumption
<1> QED BY <1>3, <1>5, <1>6, CallLands

LEMMA EmptyStack ==
    ASSUME NEW w, NEW ro, Guarded(<<>>, w, ro)
    PROVE  ro = FALSE
<1>1. PICK s \in 1..(Len(<<>>) + 1) : ro <=> s <= Len(<<>>)
  BY DEF Guarded, Locked
<1> QED BY <1>1 DEF Guarded

LEMMA DeployLands ==
    ASSUME Guarded(frames, world, readOnly), Deploy
    PROVE  Lands
<1> DEFINE w == Prepared(world, {session.sender})
<1>1. Guarded(<<>>, world, readOnly) /\ Sane(world)
  BY DEF Deploy, Guarded
<1>2. Alike(w, world)
  BY <1>1, PreparedAlike
<1>3. create("create", <<>>, session.sender, session.gas, 0, 1, w)
  BY DEF Deploy
<1> HIDE DEF w
<1>4. Unwritten(w, world) /\ Sane(w)
  BY <1>1, <1>2, AlikeUnwritten, AlikeSane
<1>5. MayCall(<<>>, w) /\ ~readOnly
  BY <1>1, <1>4, Evolve, EmptyStack DEF Unwritten, MayCall
<1>6. session.sender \in w.exist
  BY <1>4 DEF Sane
<1> QED BY <1>3, <1>5, <1>6, CreateLands

LEMMA EnterLiteLands ==
    ASSUME session \in Sessions, Guarded(frames, world, readOnly), NEW kind \in LiteKinds, EnterLite(kind)
    PROVE  Lands
<1>1. Guarded(<<>>, world, readOnly) /\ Sane(world)
  BY DEF EnterLite, Guarded
<1>2. readOnly = FALSE
  BY <1>1, EmptyStack
<1>3. session.to \in world.exist \cap Accounts
  BY <1>1, SessionsAssumption DEF EnterLite, Sane
<1>4. ASSUME NEW static \in BOOLEAN, NEW f,
             f = NewFrame(kind, session.to, world.code[session.to], session.gas, world, static),
             Run(<<>>, f, world, static)
      PROVE  Lands
  <2>1. /\ FrameFields \subseteq DOMAIN f /\ f.saved = world /\ f.self = session.to
        /\ f.setRO = (static /\ ~readOnly) /\ f.kind = kind
    BY <1>2, <1>4 DEF NewFrame, FrameFields
  <2>2. f.kind \notin CreateKinds /\ f.kind # "staticcall"
    BY <2>1 DEF LiteKinds, CreateKinds
  <2>3. /\ Sane(f.saved) /\ world.exist \subseteq f.saved.exist
        /\ f.saved.exist \subseteq world.exist /\ f.self \in world.exist \cap Accounts
        /\ f.kind = "staticcall" => static
        /\ readOnly \/ static => f.kind \notin CreateKinds /\ Content(f.saved) = Content(world)
    BY <1>1, <1>3, <2>1, <2>2
  <2>4. ASSUME NEW b, b = <<>> PROVE Guarded(Append(b, f), world, readOnly \/ static)
    <3>1. Guarded(b, world, readOnly) /\ Sane(world) /\ (readOnly => Content(world) = Content(world))
      BY <1>1, <2>4
    <3> QED BY <2>1, <2>3, <3>1, Push
  <2> QED BY <1>4, <2>4 DEF Run, Lands, Landed
<1> QED BY <1>4, Zenon DEF EnterLite

----------------------------------------------------------------------------
(* The theorem                                                             *)

StaticInv == session \in Sessions /\ Landed(frames, world, readOnly, fault)

\* An open static call has the flag set.
LEMMA StaticIsReadOnly ==
    ASSUME StaticInv, Static
    PROVE  readOnly
<1>1. CASE fault = "none"
  <2>1. Guarded(frames, world, readOnly)
    BY <1>1 DEF StaticInv, Landed
  <2>2. PICK s \in 1..(Len(frames) + 1) : (readOnly <=> s <= Len(frames)) /\ SetBy(frames, world, s)
    BY <2>1 DEF Guarded, Locked
  <2>3. Len(frames) \in Nat /\ DOMAIN frames = 1..Len(frames)
    BY <2>1 DEF Guarded, IsStack
  <2>4. ASSUME NEW i \in DOMAIN frames, frames[i].kind = "staticcall" PROVE readOnly
    <3>1. ~(i < s)
      BY <2>2, <2>3, <2>4 DEF SetBy
    <3> QED BY <2>2, <2>3, <3>1
  <2> QED BY <2>4 DEF Static
<1>2. CASE frames = <<>>
  BY <1>2 DEF Static
<1> QED BY <1>1, <1>2 DEF StaticInv, Landed

LEMMA StaticInit ==
    ASSUME Init PROVE StaticInv
<1>1. session \in Sessions /\ frames = <<>> /\ readOnly = FALSE /\ fault = "none"
  BY DEF Init
<1>2. Sane(world)
  <2>1. /\ session.code \in [Accounts -> Nat] /\ session.slot \in [Accounts -> Nat]
        /\ \A a \in Accounts \ {session.sender} : session.code[a] = 0 => session.slot[a] = 0
        /\ session.sender \in Accounts
    BY <1>1, SessionsAssumption
  <2>2. /\ WorldFields \subseteq DOMAIN world
        /\ world.exist = {a \in Accounts : session.code[a] # 0} \cup {session.sender}
        /\ world.balance = [a \in Accounts |-> IF session.code[a] # 0 THEN 1 ELSE 0]
        /\ world.nonce = [a \in Accounts |-> 0] /\ world.code = session.code
        /\ world.slot = session.slot /\ world.dead = {}
    BY DEF Init, WorldFields
  <2> QED BY <2>1, <2>2 DEF Sane
<1>3. Locked(<<>>, world, FALSE)
  <2>1. SetBy(<<>>, world, 1) /\ 1 \in 1..(Len(<<>>) + 1) /\ ~(1 <= Len(<<>>))
    BY DEF SetBy
  <2> QED BY <2>1 DEF Locked
<1>4. IsStack(<<>>) /\ Len(<<>>) = 0
  <2>1. <<>> \in Seq({}) /\ Len(<<>>) = 0
    OBVIOUS
  <2> QED BY <2>1 DEF IsStack
<1>5. ASSUME NEW e, e = <<>> PROVE Guarded(e, world, FALSE)
  <2>1. \A i : i \notin 1..Len(e)
    BY <1>4, <1>5
  <2>2. IsStack(e) /\ Locked(e, world, FALSE)
    BY <1>3, <1>4, <1>5
  <2> QED BY <1>2, <2>1, <2>2 DEF Guarded, Present
<1> QED BY <1>1, <1>5 DEF StaticInv, Landed

LEMMA StaticNext ==
    ASSUME StaticInv, [Next]_vars
    PROVE  StaticInv' /\ (readOnly => Content(world') = Content(world))
<1>1. session' = session
  BY DEF Next, Step, Transact, Deploy, EnterLite, Cancel, vars
<1>2. ASSUME Lands PROVE StaticInv' /\ (readOnly => Content(world') = Content(world))
  BY <1>1, <1>2 DEF StaticInv, Lands, Landed, Guarded, Sane, IsStack, Present, Locked, SetBy, Content
<1>3. CASE UNCHANGED <<frames, world, readOnly, fault>>
  <2>1. Lands
    BY <1>3 DEF StaticInv, Landed, Lands
  <2> QED BY <1>2, <2>1
<1>4. CASE fault # "none" /\ Next
  BY <1>3, <1>4 DEF StaticInv, Landed, Next, Step, Transact, Deploy, EnterLite, Cancel
<1>5. CASE fault = "none" /\ Next
  <2>1. Guarded(frames, world, readOnly) /\ session \in Sessions
    BY <1>5 DEF StaticInv, Landed
  <2>2. CASE Step
    BY <1>2, <2>1, <2>2, StepLands
  <2>3. CASE Transact
    BY <1>2, <2>1, <2>3, TransactLands
  <2>4. CASE Deploy
    BY <1>2, <2>1, <2>4, DeployLands
  <2>5. CASE \E kind \in LiteKinds : EnterLite(kind)
    BY <1>2, <2>1, <2>5, EnterLiteLands
  <2>6. CASE Cancel
    BY <1>3, <2>6 DEF Cancel
  <2> QED BY <1>5, <2>2, <2>3, <2>4, <2>5, <2>6 DEF Next
<1> QED BY <1>3, <1>4, <1>5 DEF vars

\* While a static call is open nothing of the state is written, whatever is
\* called within it and however that ends: evm.go StaticCall, readOnly of the
\* interpreter, and the checks of it in the instructions.
THEOREM StaticCallsWriteNothing == Spec => StaticWritesNothing
<1>1. Init => StaticInv
  BY StaticInit
<1>2. StaticInv /\ [Next]_vars => StaticInv'
  BY StaticNext
<1>3. StaticInv /\ [Next]_vars => [Static => Content(world') = Content(world)]_vars
  BY StaticNext, StaticIsReadOnly
<1> QED BY <1>1, <1>2, <1>3, PTL DEF Spec, StaticWritesNothing

----------------------------------------------------------------------------
(* Calls are nested transactions: stacks of frames and the saves they hold *)

LEMMA SavesStack ==
    ASSUME NEW fs, IsStack(fs)
    PROVE  IsStack(SavesOf(fs)) /\ Len(SavesOf(fs)) = Len(fs) - Loops(fs)
           /\ Len(fs) - Loops(fs) \in Nat
<1> DEFINE n == Len(fs) - Loops(fs)
           e(i) == fs[i + Loops(fs)].saved.effects
           S == {e(i) : i \in 1..n}
<1>1. n \in Nat
  <2>1. Len(fs) \in Nat /\ (fs # <<>> => Len(fs) > 0)
    BY DEF IsStack
  <2> QED BY <2>1 DEF Loops
<1>2. SavesOf(fs) = [i \in 1..n |-> e(i)]
  BY DEF SavesOf
<1>3. \A i \in 1..n : e(i) \in S
  OBVIOUS
<1> HIDE DEF n, e, S
<1>4. [i \in 1..n |-> e(i)] \in Seq(S) /\ Len([i \in 1..n |-> e(i)]) = n
  BY <1>1, <1>3
<1> QED BY <1>1, <1>2, <1>4 DEF IsStack, n

LEMMA EmptyByLength ==
    ASSUME NEW fs, IsStack(fs), Len(fs) = 0
    PROVE  fs = <<>>
  BY DEF IsStack

\* A frame of a call is one more save, one of a loop is none.
LEMMA SavesAppend ==
    ASSUME NEW b, IsStack(b), NEW f
    PROVE  /\ ~Lite(f) => SavesOf(Append(b, f)) = Append(SavesOf(b), f.saved.effects)
           /\ Lite(f) /\ b = <<>> => SavesOf(Append(b, f)) = <<>>
<1> DEFINE fs == Append(b, f)
           x == f.saved.effects
<1>1. /\ IsStack(fs) /\ Len(b) \in Nat /\ Len(fs) = Len(b) + 1 /\ fs[Len(b) + 1] = f
      /\ \A i \in 1..Len(b) : fs[i] = b[i]
      /\ fs # <<>>
  BY AppendStack
<1>2. /\ IsStack(SavesOf(b)) /\ Len(SavesOf(b)) = Len(b) - Loops(b) /\ Len(b) - Loops(b) \in Nat
      /\ IsStack(SavesOf(fs)) /\ Len(SavesOf(fs)) = Len(fs) - Loops(fs)
  BY <1>1, SavesStack
<1> HIDE DEF fs
<1>3. ASSUME ~Lite(f) PROVE Loops(fs) = Loops(b) /\ Loops(b) \in {0, 1}
  <2>1. CASE b = <<>>
    <3>1. fs[1] = f
      BY <1>1, <2>1
    <3> QED BY <1>3, <2>1, <3>1 DEF Loops
  <2>2. CASE b # <<>>
    <3>1. Len(b) > 0
      BY <2>2, EmptyByLength, <1>1
    <3>2. fs[1] = b[1]
      BY <1>1, <3>1
    <3> QED BY <1>1, <2>2, <3>2 DEF Loops
  <2> QED BY <2>1, <2>2
<1>4. ASSUME ~Lite(f) PROVE SavesOf(fs) = Append(SavesOf(b), x)
  <2> DEFINE s == Append(SavesOf(b), x)
             n == Len(SavesOf(b))
  <2>1. /\ IsStack(s) /\ n \in Nat /\ Len(s) = n + 1 /\ s[n + 1] = x
        /\ \A i \in 1..n : s[i] = SavesOf(b)[i]
    BY <1>2, AppendStack
  <2>2. n = Len(b) - Loops(b) /\ Len(SavesOf(fs)) = n + 1
    BY <1>1, <1>2, <1>3, <1>4
  <2> HIDE DEF s, n
  <2>3. ASSUME NEW i \in 1..(n + 1) PROVE SavesOf(fs)[i] = s[i]
    <3>1. SavesOf(fs)[i] = fs[i + Loops(b)].saved.effects
      BY <1>1, <1>3, <1>4, <2>1, <2>2 DEF SavesOf
    <3>2. CASE i = n + 1
      BY <1>1, <1>3, <1>4, <2>1, <2>2, <3>1, <3>2
    <3>3. CASE i \in 1..n
      <4>1. SavesOf(b)[i] = b[i + Loops(b)].saved.effects
        BY <2>2, <3>3 DEF SavesOf
      <4>2. i + Loops(b) \in 1..Len(b)
        BY <1>1, <1>3, <1>4, <2>2, <2>1, <3>3
      <4> QED BY <1>1, <2>1, <3>1, <3>3, <4>1, <4>2
    <3> QED BY <2>1, <3>2, <3>3
  <2>4. PICK S, T : SavesOf(fs) \in Seq(S) /\ s \in Seq(T)
    BY <1>2, <2>1 DEF IsStack
  <2>5. SavesOf(fs) \in Seq(S \cup T) /\ s \in Seq(S \cup T)
    BY <2>4
  <2>6. SavesOf(fs) = s
    BY <2>1, <2>2, <2>3, <2>5, SeqEqual
  <2> QED BY <2>6 DEF s
<1>5. ASSUME Lite(f), b = <<>> PROVE SavesOf(fs) = <<>>
  <2>1. Len(b) = 0
    BY <1>5
  <2>2. fs[1] = f /\ Len(fs) = 1
    BY <1>1, <2>1
  <2>3. Loops(fs) = 1
    BY <1>1, <1>5, <2>2 DEF Loops
  <2> QED BY <1>2, <2>2, <2>3, EmptyByLength
<1> QED BY <1>4, <1>5 DEF fs

LEMMA BelowAppend ==
    ASSUME NEW b, IsStack(b), NEW x
    PROVE  Below(Append(b, x)) = b
<1> DEFINE fs == Append(b, x)
<1>1. /\ IsStack(fs) /\ Len(b) \in Nat /\ Len(fs) = Len(b) + 1 /\ fs # <<>>
      /\ \A i \in 1..Len(b) : fs[i] = b[i]
  BY AppendStack
<1> HIDE DEF fs
<1>2. /\ IsStack(Below(fs)) /\ Len(Below(fs)) = Len(fs) - 1
      /\ \A i \in 1..Len(Below(fs)) : Below(fs)[i] = fs[i]
  BY <1>1, BelowStack
<1>3. PICK S, T : b \in Seq(S) /\ Below(fs) \in Seq(T)
  BY <1>2 DEF IsStack
<1>4. b \in Seq(S \cup T) /\ Below(fs) \in Seq(S \cup T)
  BY <1>3
<1>5. Len(Below(fs)) = Len(b) /\ \A i \in 1..Len(b) : Below(fs)[i] = b[i]
  BY <1>1, <1>2
<1>6. Below(fs) = b
  BY <1>4, <1>5, SeqEqual
<1> QED BY <1>6 DEF fs

----------------------------------------------------------------------------
(* What a step does to the saves                                           *)

Framed(fs) == \A i \in 1..Len(fs) : FrameFields \subseteq DOMAIN fs[i]

\* A loop of the SVE is entered on an empty stack only.
OneLoop(fs) == \A i \in 1..Len(fs) : Lite(fs[i]) => i = 1

LEMMA OneLoopAppend ==
    ASSUME NEW b, IsStack(b), NEW f
    PROVE  OneLoop(Append(b, f)) <=> OneLoop(b) /\ (Lite(f) => b = <<>>)
<1> DEFINE fs == Append(b, f)
<1>1. /\ Len(b) \in Nat /\ Len(fs) = Len(b) + 1 /\ fs[Len(b) + 1] = f
      /\ \A i \in 1..Len(b) : fs[i] = b[i]
  BY AppendStack
<1>2. b = <<>> <=> Len(b) = 0
  BY EmptyByLength
<1> HIDE DEF fs
<1>3. OneLoop(fs) <=> /\ \A i \in 1..Len(b) : Lite(fs[i]) => i = 1
                      /\ Lite(fs[Len(b) + 1]) => Len(b) + 1 = 1
  <2>1. \A i : i \in 1..Len(fs) <=> i \in 1..Len(b) \/ i = Len(b) + 1
    BY <1>1
  <2> QED BY <2>1 DEF OneLoop
<1>4. OneLoop(b) <=> \A i \in 1..Len(b) : Lite(fs[i]) => i = 1
  BY <1>1 DEF OneLoop
<1>5. Lite(fs[Len(b) + 1]) <=> Lite(f)
  BY <1>1
<1>6. Len(b) + 1 = 1 <=> b = <<>>
  BY <1>1, <1>2
<1> QED BY <1>3, <1>4, <1>5, <1>6 DEF fs

LEMMA SameSaves ==
    ASSUME NEW b, IsStack(b), NEW f, OneLoop(Append(b, f)), NEW g, g.kind = f.kind, g.saved = f.saved
    PROVE  SavesOf(Append(b, g)) = SavesOf(Append(b, f)) /\ OneLoop(Append(b, g))
<1>1. Lite(g) <=> Lite(f)
  BY DEF Lite
<1> QED BY <1>1, OneLoopAppend, SavesAppend

LEMMA ContinueSaves ==
    ASSUME NEW b, IsStack(b), NEW g, OneLoop(Append(b, g)), FrameFields \subseteq DOMAIN g,
           NEW w, NEW ro, Continue(b, g, w, ro)
    PROVE  SavesOf(frames') = SavesOf(Append(b, g)) /\ OneLoop(frames') /\ world' = w
<1>1. world' = w
  BY DEF Continue
<1>2. CASE frames' = Append(b, [g EXCEPT !.pc = @ + 1])
  BY <1>1, <1>2, SameSaves DEF FrameFields
<1>3. CASE frames' \in {b, <<>>} /\ g.kind \in {"scan", "override"}
  <2>1. Lite(g)
    BY <1>3 DEF Lite, LiteKinds
  <2>2. b = <<>> /\ OneLoop(b)
    BY <2>1, OneLoopAppend
  <2>3. SavesOf(Append(b, g)) = <<>>
    BY <2>1, <2>2, SavesAppend
  <2>4. SavesOf(b) = <<>>
    <3>1. Len(b) = 0 /\ Loops(b) = 0
      BY <2>2 DEF Loops
    <3> QED BY <3>1, SavesStack, EmptyByLength
  <2> QED BY <1>1, <1>3, <2>2, <2>3, <2>4
<1> QED BY <1>2, <1>3 DEF Continue

LEMMA ResumeSaves ==
    ASSUME NEW b, IsStack(b), OneLoop(b), Framed(b),
           NEW gas, NEW ok, NEW w, NEW ro, Resume(b, gas, ok, w, ro)
    PROVE  SavesOf(frames') = SavesOf(b) /\ OneLoop(frames') /\ world' = w /\ answer' = ok
<1>1. answer' = ok
  BY DEF Resume
<1>2. CASE b = <<>>
  BY <1>1, <1>2 DEF Resume
<1>3. CASE b # <<>>
  <2> DEFINE f == b[Len(b)]
             g == [f EXCEPT !.height = @ + 1, !.gas = Wrap(@ + gas)]
  <2>1. b = Append(Below(b), f) /\ IsStack(Below(b)) /\ Len(b) \in Nat \ {0}
    BY <1>3, StackParts, BelowStack
  <2>2. FrameFields \subseteq DOMAIN f
    BY <2>1 DEF Framed
  <2>3. g.kind = f.kind /\ g.saved = f.saved /\ FrameFields \subseteq DOMAIN g
    BY <2>2 DEF FrameFields
  <2>4. Continue(Below(b), g, w, ro)
    BY <1>3, Zenon DEF Resume
  <2> HIDE DEF f, g
  <2>5. SavesOf(Append(Below(b), g)) = SavesOf(Append(Below(b), f)) /\ OneLoop(Append(Below(b), g))
    BY <2>1, <2>3, SameSaves
  <2>6. SavesOf(frames') = SavesOf(Append(Below(b), g)) /\ OneLoop(frames') /\ world' = w
    BY <2>1, <2>3, <2>4, <2>5, ContinueSaves
  <2> QED BY <1>1, <2>1, <2>5, <2>6
<1> QED BY <1>2, <1>3

----------------------------------------------------------------------------
(* The steps of NestedTx                                                   *)

\* What every step is to be shown.
Nests == OneLoop(frames') /\ [Nested!Next]_(Nested!vars)

LEMMA AsChange ==
    ASSUME SavesOf(frames') = SavesOf(frames), OneLoop(frames'),
           world.effects \subseteq world'.effects, answer' = answer
    PROVE  Nests
<1>1. Nested!Change
  BY DEF Nested!Change
<1> QED BY <1>1 DEF Nests, Nested!Next

LEMMA AsBegin ==
    ASSUME IsStack(frames), NEW x, SavesOf(frames') = Append(SavesOf(frames), x), OneLoop(frames'),
           world.effects \subseteq x, x \subseteq world'.effects, answer' = answer
    PROVE  Nests
<1> DEFINE s == SavesOf(frames)
<1>1. IsStack(s)
  BY SavesStack
<1>2. s' = Append(s, x)
  OBVIOUS
<1>3. Len(s) \in Nat /\ Len(s') = Len(s) + 1 /\ s'[Len(s) + 1] = x /\ Below(s') = s
  BY <1>1, <1>2, AppendStack, BelowAppend
<1>4. SubSeq(s', 1, Len(s)) = s
  <2>1. Len(s') - 1 = Len(s)
    BY <1>3
  <2> QED BY <1>3, <2>1 DEF Below
<1>5. Nested!Begin
  BY <1>3, <1>4 DEF Nested!Begin, Nested!Opened
<1> QED BY <1>5 DEF Nests, Nested!Next

\* The innermost transaction ends.
LEMMA AsEnd ==
    ASSUME IsStack(SavesOf(frames')), NEW x, SavesOf(frames) = Append(SavesOf(frames'), x),
           OneLoop(frames'),
           \/ world.effects \subseteq world'.effects /\ answer' = TRUE
           \/ world'.effects = x /\ answer' = FALSE
    PROVE  Nests
<1> DEFINE s == SavesOf(frames)
<1>1. s = Append(s', x)
  OBVIOUS
<1>2. Len(s) \in Nat /\ Len(s) > 0 /\ s[Len(s)] = x /\ Below(s) = s'
  <2>1. Len(s') \in Nat /\ Len(s) = Len(s') + 1 /\ s[Len(s') + 1] = x
    BY <1>1, AppendStack
  <2>2. Below(s) = s'
    BY <1>1, BelowAppend
  <2> QED BY <2>1, <2>2
<1>3. SubSeq(s, 1, Len(s) - 1) = s'
  BY <1>2 DEF Below
<1>4. Nested!Commit \/ Nested!Abort
  BY <1>2, <1>3 DEF Nested!Commit, Nested!Abort, Nested!Opened
<1> QED BY <1>4 DEF Nests, Nested!Next

LEMMA AsLeaf ==
    ASSUME SavesOf(frames') = SavesOf(frames), OneLoop(frames'),
           world.effects \subseteq world'.effects,
           \/ answer' = TRUE
           \/ answer' = FALSE /\ \A c \in world'.effects \ world.effects : c[2] = "nonce"
    PROVE  Nests
<1>1. Nested!Leaf
  BY DEF Nested!Leaf
<1> QED BY <1>1 DEF Nests, Nested!Next

LEMMA AsCrash ==
    ASSUME NEW what, Panic(what)
    PROVE  Nests
<1>1. frames' = <<>> /\ world' = world /\ answer' = answer
  BY DEF Panic
<1>2. IsStack(<<>>) /\ Len(<<>>) = 0 /\ Loops(<<>>) = 0
  <2>1. <<>> \in Seq({}) /\ Len(<<>>) = 0
    OBVIOUS
  <2> QED BY <2>1 DEF IsStack, Loops
<1>3. SavesOf(<<>>) = <<>> /\ OneLoop(<<>>)
  BY <1>2, SavesStack, EmptyByLength DEF OneLoop
<1>4. Nested!Crash
  BY <1>1, <1>3 DEF Nested!Crash
<1> QED BY <1>1, <1>3, <1>4 DEF Nests, Nested!Next

----------------------------------------------------------------------------
(* What has been changed only grows, but for a failure.                    *)

Whole(w) == WorldFields \subseteq DOMAIN w
Grew(w1, w) == Whole(w1) /\ w.effects \subseteq w1.effects

LEMMA GrewTrans ==
    ASSUME NEW w, NEW w1, NEW w2, Grew(w1, w), Grew(w2, w1)
    PROVE  Grew(w2, w)
  BY DEF Grew

LEMMA OperationsGrow ==
    ASSUME NEW w, Whole(w), NEW a
    PROVE  /\ \A serial, change : Grew(Journal(w, serial, change), w)
           /\ Grew(CreateAccount(w, a), w)
           /\ \A amount : Grew(AddBalance(w, a, amount), w)
           /\ Grew(SelfDestruct(w, a), w)
           /\ \A x : /\ Grew([w EXCEPT !.balance = x], w) /\ Grew([w EXCEPT !.nonce = x], w)
                     /\ Grew([w EXCEPT !.code = x], w) /\ Grew([w EXCEPT !.slot = x], w)
  BY DEF Whole, Grew, Journal, CreateAccount, AddBalance, SelfDestruct, WorldFields

LEMMA TransferGrows ==
    ASSUME NEW w, Whole(w), NEW serial, NEW from, NEW to, NEW amount
    PROVE  Grew(Transfer(w, serial, from, to, amount), w)
<1> DEFINE taken == [w EXCEPT !.balance = [w.balance EXCEPT ![from] = @ - amount]]
           paid == AddBalance(taken, to, amount)
<1>1. Grew(taken, w)
  BY OperationsGrow
<1>2. Grew(paid, taken)
  BY <1>1, OperationsGrow DEF Grew
<1>3. Grew(Journal(paid, serial, "transfer"), paid)
  BY <1>2, OperationsGrow DEF Grew
<1>4. Transfer(w, serial, from, to, amount) = IF amount = 0 THEN paid ELSE Journal(paid, serial, "transfer")
  BY Zenon DEF Transfer
<1> HIDE DEF paid, taken
<1> QED BY <1>1, <1>2, <1>3, <1>4, GrewTrans

----------------------------------------------------------------------------
(* Calls begin a transaction, or are one that does nothing of its own.     *)

\* The caller's stack and the state it calls in: nothing has been changed yet.
MayNest(b, w) ==
    /\ IsStack(frames) /\ IsStack(b) /\ OneLoop(b) /\ Framed(b) /\ SavesOf(b) = SavesOf(frames)
    /\ Whole(w) /\ w.effects = world.effects

LEMMA ReturnsNests ==
    ASSUME NEW b, NEW w0, MayNest(b, w0), NEW w, w0.effects \subseteq w.effects,
           NEW gas, NEW ok, Returns(b, gas, ok, w),
           ok = TRUE \/ (ok = FALSE /\ \A c \in w.effects \ w0.effects : c[2] = "nonce")
    PROVE  Nests
<1>1. SavesOf(frames') = SavesOf(b) /\ OneLoop(frames') /\ world' = w /\ answer' = ok
  BY ResumeSaves DEF MayNest, Returns
<1> QED BY <1>1, AsLeaf DEF MayNest

LEMMA RunNests ==
    ASSUME NEW b, NEW w0, MayNest(b, w0), NEW f, ~Lite(f), NEW w, NEW static, Run(b, f, w, static),
           w0.effects \subseteq f.saved.effects, f.saved.effects \subseteq w.effects
    PROVE  Nests
<1>1. frames' = Append(b, f) /\ world' = w /\ answer' = answer
  BY DEF Run
<1>2. SavesOf(frames') = Append(SavesOf(frames), f.saved.effects) /\ OneLoop(frames')
  BY <1>1, SavesAppend, OneLoopAppend DEF MayNest
<1> QED BY <1>1, <1>2, AsBegin DEF MayNest

LEMMA InvokeNests ==
    ASSUME NEW b, NEW saved, MayNest(b, saved), NEW w, Grew(w, saved),
           NEW kind, kind \notin LiteKinds, NEW self, NEW addr, NEW gas, NEW static,
           Invoke(kind, b, self, addr, gas, saved, w, static)
    PROVE  Nests
<1>1. ASSUME NEW fine \in BOOLEAN, NEW left, Returns(b, left, fine, IF fine THEN w ELSE saved)
      PROVE  Nests
  <2>1. CASE fine = TRUE
    BY <1>1, <2>1, ReturnsNests DEF Grew
  <2>2. CASE fine = FALSE
    BY <1>1, <2>2, ReturnsNests
  <2> QED BY <2>1, <2>2
<1>2. CASE Returns(b, gas, TRUE, w)
  BY <1>2, ReturnsNests DEF Grew
<1> DEFINE f == NewFrame(kind, self, w.code[addr], gas, saved, static /\ ~readOnly)
<1>3. CASE Run(b, f, w, static)
  <2>1. f.saved = saved /\ ~Lite(f)
    BY DEF NewFrame, Lite
  <2> HIDE DEF f
  <2> QED BY <1>3, <2>1, RunNests DEF Grew
<1>4. \/ \E left : \E fine \in BOOLEAN : Returns(b, left, fine, IF fine THEN w ELSE saved)
      \/ Returns(b, gas, TRUE, w)
      \/ Run(b, f, w, static)
  <2>1. CASE \E cost \in PrecompileCosts, ok \in BOOLEAN :
               LET fine == ok /\ cost <= gas
               IN  Returns(b, IF fine THEN gas - cost ELSE 0, fine, IF fine THEN w ELSE saved)
    <3>1. PICK cost \in PrecompileCosts, ok \in BOOLEAN :
               LET fine == ok /\ cost <= gas
               IN  Returns(b, IF fine THEN gas - cost ELSE 0, fine, IF fine THEN w ELSE saved)
      BY <2>1
    <3>2. (ok /\ cost <= gas) \in BOOLEAN
      OBVIOUS
    <3> QED BY <3>1, <3>2, Zenon
  <2> QED BY <2>1, Zenon DEF Invoke
<1> QED BY <1>1, <1>2, <1>3, <1>4

LEMMA CallNests ==
    ASSUME NEW b, NEW w, MayNest(b, w), NEW from, NEW to, NEW gas, NEW value,
           Call(b, from, to, gas, value, w)
    PROVE  Nests
<1> DEFINE target == IF Exist(w, to) THEN w ELSE CreateAccount(w, to)
           paid == Transfer(target, Serial(b), from, to, value)
<1>1. Grew(target, w)
  BY OperationsGrow DEF MayNest, Grew
<1>2. Grew(paid, w)
  BY <1>1, TransferGrows, GrewTrans DEF Grew
<1>3. \/ Returns(b, gas, FALSE, w)
      \/ Returns(b, gas, TRUE, w)
      \/ Invoke("call", b, to, to, gas, w, paid, FALSE)
  BY Zenon DEF Call
<1> HIDE DEF paid
<1>4. "call" \notin LiteKinds
  BY DEF LiteKinds
<1> QED BY <1>2, <1>3, <1>4, ReturnsNests, InvokeNests

LEMMA BorrowedNests ==
    ASSUME NEW b, NEW w, MayNest(b, w), NEW from, NEW to, NEW gas, NEW value,
           \/ CallCode(b, from, to, gas, value, w) \/ DelegateCall(b, from, to, gas, w)
           \/ StaticCall(b, to, gas, w)
    PROVE  Nests
<1>1. Grew(w, w) /\ Grew(AddBalance(w, to, 0), w)
  BY OperationsGrow DEF MayNest, Grew
<1>2. \A kind \in {"callcode", "delegatecall", "staticcall"} : kind \notin LiteKinds
  BY DEF LiteKinds
<1>3. \/ Returns(b, gas, FALSE, w)
      \/ \E kind \in {"callcode", "delegatecall"} : Invoke(kind, b, from, to, gas, w, w, FALSE)
      \/ Invoke("staticcall", b, to, to, gas, w, AddBalance(w, to, 0), TRUE)
  BY Zenon DEF CallCode, DelegateCall, StaticCall
<1> QED BY <1>1, <1>2, <1>3, ReturnsNests, InvokeNests

LEMMA CreateNests ==
    ASSUME NEW b, NEW w, MayNest(b, w), NEW from, NEW value, NEW kind \in CreateKinds,
           NEW gas, NEW size, create(kind, b, from, gas, value, size, w)
    PROVE  Nests
<1>1. ~(kind \in LiteKinds)
  BY DEF CreateKinds, LiteKinds
<1>2. ASSUME NEW a, NEW init,
             LET bumped == [Journal(w, Serial(b), "nonce") EXCEPT
                               !.nonce[from] = @ + 1,
                               !.warm = IF IsRule("Berlin") THEN @ \cup {a} ELSE @]
                 born   == [CreateAccount(bumped, a) EXCEPT
                               !.nonce[a] = IF IsRule("SpuriousDragon") THEN 1 ELSE 0]
                 paid   == Transfer(Journal(born, Serial(b), "create"), Serial(b), from, a, value)
             IN  \/ Returns(b, 0, FALSE, bumped)
                 \/ Returns(b, gas, TRUE, paid)
                 \/ Run(b, NewFrame(kind, a, init, gas, bumped, FALSE), paid, FALSE)
      PROVE  Nests
  <2> DEFINE noted == Journal(w, Serial(b), "nonce")
             warm == IF IsRule("Berlin") THEN noted.warm \cup {a} ELSE noted.warm
             nonces == [noted.nonce EXCEPT ![from] = @ + 1]
             bumped == [noted EXCEPT !.nonce[from] = @ + 1,
                                     !.warm = IF IsRule("Berlin") THEN @ \cup {a} ELSE @]
             fresh == CreateAccount(bumped, a)
             born == [fresh EXCEPT !.nonce[a] = IF IsRule("SpuriousDragon") THEN 1 ELSE 0]
             made == Journal(born, Serial(b), "create")
             paid == Transfer(made, Serial(b), from, a, value)
             f == NewFrame(kind, a, init, gas, bumped, FALSE)
  <2>1. Whole(noted) /\ noted.effects = w.effects \cup {<<Serial(b), "nonce">>}
    BY DEF MayNest, Whole, Journal, WorldFields
  <2>2. Grew(bumped, w) /\ bumped.effects = w.effects \cup {<<Serial(b), "nonce">>}
    <3> HIDE DEF noted
    <3>1. bumped = [noted EXCEPT !.nonce = nonces, !.warm = warm]
      OBVIOUS
    <3> HIDE DEF nonces, warm
    <3> QED BY <2>1, <3>1 DEF Whole, Grew, WorldFields
  <2> HIDE DEF bumped
  <2>3. Grew(fresh, bumped)
    BY <2>2, OperationsGrow DEF Grew
  <2> HIDE DEF fresh
  <2>4. Grew(born, fresh)
    BY <2>3, OperationsGrow DEF Grew
  <2> HIDE DEF born
  <2>5. Grew(made, born)
    BY <2>4, OperationsGrow DEF Grew
  <2> HIDE DEF made
  <2>6. Grew(paid, made)
    BY <2>5, TransferGrows DEF Grew
  <2> HIDE DEF paid
  <2>7. Grew(paid, bumped) /\ Grew(paid, w)
    BY <2>2, <2>3, <2>4, <2>5, <2>6, GrewTrans
  <2>8. \A c \in bumped.effects \ w.effects : c[2] = "nonce"
    BY <2>2
  <2>9. f.saved = bumped /\ ~Lite(f)
    BY <1>1 DEF NewFrame, Lite
  <2> HIDE DEF f
  <2>10. \/ Returns(b, 0, FALSE, bumped) \/ Returns(b, gas, TRUE, paid)
         \/ Run(b, f, paid, FALSE)
    BY <1>2, Zenon DEF noted, bumped, fresh, born, made, paid, f
  <2> QED BY <2>2, <2>7, <2>8, <2>9, <2>10, ReturnsNests, RunNests DEF Grew
<1>3. CASE Returns(b, gas, FALSE, w)
  BY <1>3, ReturnsNests
<1> QED BY <1>2, <1>3, Zenon DEF create

----------------------------------------------------------------------------
(* The current frame, with f and w what has become of it and of the state  *)

Within(f, w) ==
    /\ IsStack(frames) /\ frames # <<>> /\ OneLoop(frames) /\ Framed(frames)
    /\ SameFrame(f, Current)
    /\ Whole(w) /\ world.effects \subseteq w.effects

LEMMA WithinParts ==
    ASSUME NEW f, NEW w, Within(f, w), NEW b, b = Below(frames)
    PROVE  /\ IsStack(b) /\ OneLoop(b) /\ Framed(b)
           /\ OneLoop(Append(b, f)) /\ SavesOf(Append(b, f)) = SavesOf(frames)
           /\ Framed(Append(b, f))
           /\ ~Lite(f) => SavesOf(frames) = Append(SavesOf(b), f.saved.effects)
           /\ Lite(f) => b = <<>>
<1>1. frames = Append(b, Current) /\ IsStack(b)
  BY StackParts DEF Within, Current
<1>2. /\ Len(b) \in Nat /\ Len(Append(b, f)) = Len(b) + 1 /\ Append(b, f)[Len(b) + 1] = f
      /\ \A i \in 1..Len(b) : Append(b, f)[i] = b[i]
  BY <1>1, AppendStack
<1>3. Len(frames) = Len(b) + 1 /\ \A i \in 1..Len(b) : frames[i] = b[i]
  BY <1>1, AppendStack
<1>4. f.kind = Current.kind /\ f.saved = Current.saved /\ FrameFields \subseteq DOMAIN f
  BY DEF Within, SameFrame
<1>5. OneLoop(Append(b, Current))
  BY <1>1 DEF Within
<1>6. OneLoop(Append(b, f)) /\ SavesOf(Append(b, f)) = SavesOf(frames)
  BY <1>1, <1>4, <1>5, SameSaves
<1>7. OneLoop(b) /\ (Lite(f) => b = <<>>)
  BY <1>1, <1>6, OneLoopAppend
<1>8. Framed(b) /\ Framed(Append(b, f))
  <2>1. \A i \in 1..Len(b) : FrameFields \subseteq DOMAIN b[i]
    BY <1>2, <1>3 DEF Within, Framed
  <2>2. \A i \in 1..Len(Append(b, f)) : i \in 1..Len(b) \/ i = Len(b) + 1
    BY <1>2
  <2> QED BY <1>2, <1>4, <2>1, <2>2 DEF Framed
<1>9. ~Lite(f) => SavesOf(frames) = Append(SavesOf(b), f.saved.effects)
  BY <1>1, <1>6, SavesAppend
<1> QED BY <1>1, <1>6, <1>7, <1>8, <1>9

LEMMA WithinOn ==
    ASSUME NEW f, NEW w, Within(f, w), NEW g, SameFrame(g, f), NEW w1, Grew(w1, w)
    PROVE  Within(g, w1)
  BY DEF Within, SameFrame, Grew

LEMMA GoesOnNests ==
    ASSUME NEW f, NEW w, Within(f, w), GoesOn(f, w)
    PROVE  Nests
<1> DEFINE b == Below(frames)
<1>1. /\ IsStack(b) /\ OneLoop(Append(b, f)) /\ SavesOf(Append(b, f)) = SavesOf(frames)
      /\ FrameFields \subseteq DOMAIN f
  BY WithinParts DEF Within, SameFrame
<1>2. Continue(b, f, w, readOnly) /\ answer' = answer
  BY DEF GoesOn
<1> HIDE DEF b
<1>3. SavesOf(frames') = SavesOf(frames) /\ OneLoop(frames') /\ world' = w
  BY <1>1, <1>2, ContinueSaves
<1> QED BY <1>2, <1>3, AsChange DEF Within

\* The frame of a call ends, with the state it made or the one it found.
LEMMA EndedNests ==
    ASSUME NEW f, NEW w, Within(f, w), ~Lite(f), NEW w1, NEW ok, NEW gas, NEW ro,
           Resume(Below(frames), gas, ok, w1, ro),
           \/ ok = TRUE /\ world.effects \subseteq w1.effects
           \/ ok = FALSE /\ w1 = f.saved
    PROVE  Nests
<1> DEFINE b == Below(frames)
<1>1. /\ IsStack(b) /\ OneLoop(b) /\ Framed(b)
      /\ SavesOf(frames) = Append(SavesOf(b), f.saved.effects)
  BY WithinParts
<1>2. Resume(b, gas, ok, w1, ro)
  OBVIOUS
<1> HIDE DEF b
<1>3. SavesOf(frames') = SavesOf(b) /\ OneLoop(frames') /\ world' = w1 /\ answer' = ok
  BY <1>1, <1>2, ResumeSaves
<1>4. IsStack(SavesOf(frames'))
  BY <1>1, <1>3, SavesStack
<1> QED BY <1>1, <1>3, <1>4, AsEnd

LEMMA DepositNests ==
    ASSUME NEW f, NEW w, Within(f, w), ~Lite(f), NEW size, Deposit(f, w, size)
    PROVE  Nests
<1> DEFINE noted == Journal(w, f.serial, "code")
           codes == [noted.code EXCEPT ![f.self] = IF size = 0 THEN 0 ELSE Deployed]
           coded == [noted EXCEPT !.code[f.self] = IF size = 0 THEN 0 ELSE Deployed]
<1>1. Grew(noted, w)
  BY OperationsGrow DEF Within
<1>2. Grew(coded, w)
  <2> HIDE DEF noted
  <2>1. coded = [noted EXCEPT !.code = codes]
    OBVIOUS
  <2> HIDE DEF codes
  <2>2. Grew(coded, noted)
    BY <1>1, <2>1, OperationsGrow DEF Grew
  <2> QED BY <1>1, <2>2, GrewTrans
<1>3. \/ \E left : Returns(Below(frames), left, FALSE, f.saved)
      \/ \E left : Returns(Below(frames), left, TRUE, w)
      \/ \E left : Returns(Below(frames), left, TRUE, coded)
  BY Zenon DEF Deposit, noted
<1> HIDE DEF coded
<1>4. world.effects \subseteq w.effects /\ world.effects \subseteq coded.effects
  BY <1>2 DEF Within, Grew
<1> QED BY <1>3, <1>4, EndedNests DEF Returns

LEMMA EndsNests ==
    ASSUME NEW f, NEW w, Within(f, w), NEW outcome, NEW size, Ends(outcome, f, w, size)
    PROVE  Nests
<1>1. CASE Lite(f) /\ frames' = Below(frames) /\ world' = w /\ answer' = answer
  <2> DEFINE b == Below(frames)
  <2>1. b = <<>> /\ IsStack(b) /\ OneLoop(b) /\ SavesOf(frames) = SavesOf(Append(b, f))
    BY <1>1, WithinParts
  <2>2. frames' = b
    BY <1>1
  <2> HIDE DEF b
  <2>3. Len(b) = 0 /\ Loops(b) = 0
    BY <2>1 DEF Loops
  <2>4. SavesOf(b) = <<>>
    BY <2>1, <2>3, SavesStack, EmptyByLength
  <2>5. SavesOf(Append(b, f)) = <<>>
    BY <1>1, <2>1, SavesAppend
  <2> QED BY <1>1, <2>1, <2>2, <2>4, <2>5, AsChange DEF Within
<1>2. CASE ~Lite(f) /\ Deposit(f, w, size)
  BY <1>2, DepositNests
<1>3. CASE /\ ~Lite(f)
           /\ Resume(Below(frames), Left(outcome, f), outcome = "ok", Kept(outcome, f, w), Released(f))
  <2> DEFINE ok == outcome = "ok"
             w1 == Kept(outcome, f, w)
  <2>1. \/ ok = TRUE /\ world.effects \subseteq w1.effects
        \/ ok = FALSE /\ w1 = f.saved
    BY DEF Kept, Within
  <2>2. Resume(Below(frames), Left(outcome, f), ok, w1, Released(f))
    BY <1>3
  <2> HIDE DEF ok, w1
  <2> QED BY <1>3, <2>1, <2>2, EndedNests
<1>4. f.kind \in CreateKinds => ~Lite(f)
  BY DEF CreateKinds, Lite, LiteKinds
<1> QED BY <1>1, <1>2, <1>3, <1>4, Zenon DEF Ends

----------------------------------------------------------------------------
(* Every step of the machine is one of NestedTx.                           *)

LEMMA AdvancedWithin ==
    ASSUME NEW f, NEW w, Within(f, w), NEW op
    PROVE  /\ Within(Advanced(f, op), w)
           /\ \A pc : Within([Advanced(f, op) EXCEPT !.pc = pc], w)
           /\ Within(Waiting(op, f), w)
           /\ \A gas : Within([Waiting(op, f) EXCEPT !.gas = gas], w)
<1>1. FrameFields \subseteq DOMAIN f /\ Grew(w, w)
  BY DEF Within, SameFrame, Grew
<1>2. /\ SameFrame(Advanced(f, op), f)
      /\ \A pc : SameFrame([Advanced(f, op) EXCEPT !.pc = pc], f)
      /\ SameFrame(Waiting(op, f), f)
      /\ \A gas : SameFrame([Waiting(op, f) EXCEPT !.gas = gas], f)
  BY <1>1 DEF Advanced, Waiting, SameFrame, FrameFields
<1> QED BY <1>1, <1>2, WithinOn

LEMMA JumpingNests ==
    ASSUME NEW op, NEW v, NEW p, Within(p.frame, p.world), Jumping(op, v, p)
    PROVE  Nests
<1> DEFINE f == Advanced(p.frame, op)
<1>1. Within(f, p.world) /\ \A pc : Within([f EXCEPT !.pc = pc], p.world)
  BY AdvancedWithin
<1>2. \/ GoesOn(f, p.world)
      \/ GoesOn([f EXCEPT !.pc = Back(v, 0) - 1], p.world)
      \/ \E outcome : Ends(outcome, p.frame, p.world, 0)
  BY Zenon DEF Jumping
<1> HIDE DEF f
<1> QED BY <1>1, <1>2, GoesOnNests, EndsNests

LEMMA WritingNests ==
    ASSUME NEW op, NEW v, NEW p, Within(p.frame, p.world), Writing(op, v, p)
    PROVE  Nests
<1> DEFINE f == Advanced(p.frame, op)
           w == p.world
           noted == Journal(w, f.serial, "slot")
           slots == [noted.slot EXCEPT ![f.self] = Back(v, 1)]
           stored == [noted EXCEPT !.slot[f.self] = Back(v, 1)]
<1>1. Within(f, w) /\ Whole(w)
  BY AdvancedWithin DEF Within
<1>2. \A change : Grew(Journal(w, f.serial, change), w)
  BY <1>1, OperationsGrow
<1>3. Grew(stored, w)
  <2>1. Grew(noted, w)
    BY <1>2
  <2> HIDE DEF noted
  <2>2. stored = [noted EXCEPT !.slot = slots]
    OBVIOUS
  <2> HIDE DEF slots
  <2>3. Grew(stored, noted)
    BY <2>1, <2>2, OperationsGrow DEF Grew
  <2> QED BY <2>1, <2>3, GrewTrans
<1>4. \E w1 \in {w, stored, Journal(w, f.serial, "transient"), Journal(w, f.serial, "log")} : GoesOn(f, w1)
  BY Zenon DEF Writing
<1>5. Grew(w, w)
  BY <1>1 DEF Grew
<1> HIDE DEF f, stored
<1>6. PICK w1 : Grew(w1, w) /\ GoesOn(f, w1)
  BY <1>2, <1>3, <1>4, <1>5
<1>7. SameFrame(f, f)
  BY <1>1 DEF Within, SameFrame
<1>8. Within(f, w1)
  BY <1>1, <1>6, <1>7, WithinOn
<1> QED BY <1>6, <1>8, GoesOnNests

LEMMA DestructingNests ==
    ASSUME NEW op, NEW v, NEW p, Within(p.frame, p.world), Destructing(op, v, p)
    PROVE  Nests
<1> DEFINE f == p.frame
           self == f.self
           to == Back(v, 0)
           balance == p.world.balance[self]
           w == Journal(p.world, f.serial, "destruct")
           added == AddBalance(w, to, balance)
           balances == [w.balance EXCEPT ![self] = 0]
           emptied == [w EXCEPT !.balance[self] = 0]
           moved == AddBalance(emptied, to, balance)
<1>1. Within(f, p.world) /\ Whole(p.world)
  BY DEF Within
<1>2. Grew(w, p.world)
  BY <1>1, OperationsGrow
<1>3. Grew(emptied, w)
  <2>1. Whole(w)
    BY <1>2 DEF Grew
  <2> HIDE DEF w
  <2>2. emptied = [w EXCEPT !.balance = balances]
    OBVIOUS
  <2> HIDE DEF balances
  <2> QED BY <2>1, <2>2, OperationsGrow
<1> HIDE DEF w, emptied, balance
<1>4. Grew(added, w) /\ Grew(moved, emptied)
  BY <1>2, <1>3, OperationsGrow DEF Grew
<1> HIDE DEF added, moved
<1>5. Grew(SelfDestruct(added, self), added) /\ Grew(SelfDestruct(moved, self), moved)
  BY <1>4, OperationsGrow DEF Grew
<1>6. \E w1 \in {SelfDestruct(added, self), SelfDestruct(moved, self), moved} : Ends("ok", f, w1, 0)
  BY Zenon DEF Destructing, w, emptied, balance, added, moved
<1>7. PICK w1 : Grew(w1, p.world) /\ Ends("ok", f, w1, 0)
  BY <1>2, <1>3, <1>4, <1>5, <1>6, GrewTrans
<1>8. SameFrame(f, f)
  BY <1>1 DEF Within, SameFrame
<1>9. Within(f, w1)
  BY <1>1, <1>7, <1>8, WithinOn
<1> QED BY <1>7, <1>9, EndsNests

LEMMA WaitingNests ==
    ASSUME NEW f, NEW w, Within(f, w), w.effects = world.effects, NEW op
    PROVE  /\ MayNest(Append(Below(frames), Waiting(op, f)), w)
           /\ \A gas : MayNest(Append(Below(frames), [Waiting(op, f) EXCEPT !.gas = gas]), w)
<1>1. ASSUME NEW g, Within(g, w) PROVE MayNest(Append(Below(frames), g), w)
  BY <1>1, WithinParts, AppendStack DEF MayNest, Within
<1> QED BY <1>1, AdvancedWithin

LEMMA CallingNests ==
    ASSUME NEW op, NEW v, NEW p, Within(p.frame, p.world), p.world.effects = world.effects,
           Calling(op, v, p)
    PROVE  Nests
<1> DEFINE b == Append(Below(frames), Waiting(op, p.frame))
           from == p.frame.self
           to == Back(v, 1)
           value == Back(v, 2)
<1>1. MayNest(b, p.world)
  BY WaitingNests
<1>2. \/ \E gas : Call(b, from, to, gas, value, p.world)
      \/ \E gas : CallCode(b, from, to, gas, value, p.world)
      \/ \E gas : DelegateCall(b, from, to, gas, p.world)
      \/ \E gas : StaticCall(b, to, gas, p.world)
  BY Zenon DEF Calling
<1> HIDE DEF b, from, to, value
<1> QED BY <1>1, <1>2, CallNests, BorrowedNests

LEMMA CreatingNests ==
    ASSUME NEW op, NEW v, NEW p, Within(p.frame, p.world), p.world.effects = world.effects,
           Creating(op, v, p)
    PROVE  Nests
<1> DEFINE from == p.frame.self
           Below1(gas) == Append(Below(frames), [Waiting(op, p.frame) EXCEPT !.gas = gas])
<1>1. \A gas : MayNest(Below1(gas), p.world)
  BY WaitingNests
<1>2. \E kind \in CreateKinds : \E kept, gas :
         create(kind, Below1(kept), from, gas, Back(v, 0), Back(v, 2), p.world)
  BY Zenon DEF Creating, CreateKinds
<1> HIDE DEF from, Below1
<1> QED BY <1>1, <1>2, CreateNests

LEMMA ExecuteNests ==
    ASSUME NEW op, NEW v, NEW p, Within(p.frame, p.world), p.world.effects = world.effects,
           Execute(op, v, p)
    PROVE  Nests
<1>1. CASE Halting(op, v, p)
  BY <1>1, EndsNests DEF Halting
<1>2. CASE Computing(op, p)
  BY <1>2, AdvancedWithin, GoesOnNests, EndsNests DEF Computing
<1> QED BY <1>1, <1>2, EndsNests, JumpingNests, WritingNests, DestructingNests, CallingNests,
           CreatingNests, Zenon DEF Execute

\* What the stacks of the machine are, of what StaticInv says.
LEMMA StackFramed ==
    ASSUME StaticInv
    PROVE  IsStack(frames) /\ Framed(frames) /\ (fault = "none" => Whole(world))
<1>1. CASE fault = "none"
  BY <1>1 DEF StaticInv, Landed, Guarded, Sane, Framed, Whole
<1>2. CASE fault # "none"
  <2>1. frames = <<>> /\ <<>> \in Seq({}) /\ Len(<<>>) = 0
    BY <1>2 DEF StaticInv, Landed
  <2> QED BY <1>2, <2>1 DEF IsStack, Framed
<1> QED BY <1>1, <1>2

LEMMA StepNests ==
    ASSUME StaticInv, OneLoop(frames), fault = "none", Step
    PROVE  Nests
<1>1. frames # <<>> /\ IsStack(frames) /\ Framed(frames) /\ Whole(world)
  BY StackFramed DEF Step
<1>2. FrameFields \subseteq DOMAIN Current
  BY <1>1, BelowStack DEF Framed, Current
<1>3. ASSUME NEW v, NEW p, p = Paid(Operation, v), Turn(Operation, v, p, Broken(Operation, v, p))
      PROVE  Nests
  <2>1. SameFrame(p.frame, Current) /\ Alike(p.world, world)
    BY <1>1, <1>2, <1>3, PaidSame DEF Whole
  <2>2. Whole(p.world) /\ p.world.effects = world.effects
    BY <2>1 DEF Alike, Whole, Content
  <2>3. Within(p.frame, p.world)
    BY <1>1, <2>1, <2>2 DEF Within
  <2>4. \/ \E what : Panic(what)
        \/ Ends("fail", p.frame, p.world, 0)
        \/ Execute(Operation, v, p)
    BY <1>3, Zenon DEF Turn
  <2> QED BY <2>2, <2>3, <2>4, AsCrash, EndsNests, ExecuteNests
<1>4. \/ Panic("checkpoint")
      \/ \E v \in OperandsOf(Operation) : \E p \in {Paid(Operation, v)} :
            Turn(Operation, v, p, Broken(Operation, v, p))
  BY Zenon DEF Step, Serve
<1> QED BY <1>3, <1>4, AsCrash

\* The host calls with no frame on the stack.
LEMMA HostNests ==
    ASSUME StaticInv, OneLoop(frames), fault = "none", frames = <<>>, NEW w, Alike(w, world)
    PROVE  MayNest(<<>>, w)
  BY StackFramed DEF MayNest, Whole, Alike, Content

LEMMA PreparedWhole ==
    ASSUME NEW w, Whole(w), NEW named
    PROVE  Alike(Prepared(w, named), w) /\ Alike(w, w)
  BY DEF Whole, Alike, Prepared, Content, WorldFields

LEMMA TransactNests ==
    ASSUME StaticInv, OneLoop(frames), Transact
    PROVE  Nests
<1> DEFINE w == IF session.infinite THEN world ELSE Prepared(world, {session.sender, session.to})
<1>1. frames = <<>> /\ fault = "none" /\ Call(<<>>, session.sender, session.to, session.gas, 0, w)
  BY DEF Transact
<1>2. Alike(w, world)
  BY <1>1, StackFramed, PreparedWhole
<1> HIDE DEF w
<1> QED BY <1>1, <1>2, HostNests, CallNests

LEMMA DeployNests ==
    ASSUME StaticInv, OneLoop(frames), Deploy
    PROVE  Nests
<1> DEFINE w == Prepared(world, {session.sender})
<1>1. /\ frames = <<>> /\ fault = "none"
      /\ create("create", <<>>, session.sender, session.gas, 0, 1, w)
  BY DEF Deploy
<1>2. Alike(w, world)
  BY <1>1, StackFramed, PreparedWhole
<1> HIDE DEF w
<1> QED BY <1>1, <1>2, HostNests, CreateNests DEF CreateKinds

LEMMA EnterLiteNests ==
    ASSUME StaticInv, OneLoop(frames), NEW kind \in LiteKinds, EnterLite(kind)
    PROVE  Nests
<1>1. frames = <<>> /\ IsStack(frames)
  BY StackFramed DEF EnterLite
<1>2. PICK static \in BOOLEAN :
        Run(<<>>, NewFrame(kind, session.to, world.code[session.to], session.gas, world, static),
            world, static)
  BY DEF EnterLite
<1> DEFINE f == NewFrame(kind, session.to, world.code[session.to], session.gas, world, static)
<1>3. Lite(f)
  BY DEF NewFrame, Lite
<1>4. frames' = Append(<<>>, f) /\ world' = world /\ answer' = answer
  BY <1>2 DEF Run
<1> HIDE DEF f
<1>5. SavesOf(frames') = <<>> /\ OneLoop(frames')
  BY <1>1, <1>3, <1>4, SavesAppend, OneLoopAppend
<1>6. SavesOf(frames) = <<>>
  <2>1. Len(frames) = 0 /\ Loops(frames) = 0
    BY <1>1 DEF Loops
  <2> QED BY <1>1, <2>1, SavesStack, EmptyByLength
<1> QED BY <1>4, <1>5, <1>6, AsChange

NestInv == StaticInv /\ OneLoop(frames)

LEMMA NestNext ==
    ASSUME NestInv, [Next]_vars
    PROVE  NestInv' /\ [Nested!Next]_(Nested!vars)
<1>1. StaticInv'
  BY StaticNext DEF NestInv
<1>2. CASE UNCHANGED <<frames, world, answer>>
  BY <1>1, <1>2 DEF NestInv, OneLoop, Lite, SavesOf, Loops, Nested!vars
<1>3. CASE Next
  <2>1. CASE Step
    <3>1. fault = "none"
      BY <2>1 DEF NestInv, StaticInv, Landed, Step
    <3> QED BY <1>1, <2>1, <3>1, StepNests DEF NestInv, Nests
  <2>2. CASE Transact \/ Deploy \/ \E kind \in LiteKinds : EnterLite(kind)
    BY <1>1, <2>2, TransactNests, DeployNests, EnterLiteNests DEF NestInv, Nests
  <2>3. CASE Cancel
    BY <1>2, <2>3 DEF Cancel
  <2> QED BY <1>3, <2>1, <2>2, <2>3 DEF Next
<1> QED BY <1>2, <1>3 DEF vars

LEMMA NestInit ==
    ASSUME Init
    PROVE  NestInv /\ Nested!Init
<1>1. StaticInv /\ frames = <<>> /\ world.effects = {} /\ answer = FALSE
  BY StaticInit DEF Init
<1>2. IsStack(frames) /\ Len(frames) = 0 /\ Loops(frames) = 0
  BY <1>1, StackFramed DEF Loops
<1>3. SavesOf(frames) = <<>> /\ OneLoop(frames)
  BY <1>2, SavesStack, EmptyByLength DEF OneLoop
<1> QED BY <1>1, <1>3 DEF NestInv, Nested!Init

\* Calls are nested transactions, whatever the programs do: a call that succeeds
\* keeps what it and the calls it made changed, one that fails leaves the state as
\* it was, and the caller is told which.  This is the snapshot that each of Call,
\* CallCode, DelegateCall, StaticCall and create of evm.go takes and goes back to.
THEOREM CallsAreNested == Spec => ImplementsNestedTx
<1>1. Init => NestInv /\ Nested!Init
  BY NestInit
<1>2. NestInv /\ [Next]_vars => NestInv' /\ [Nested!Next]_(Nested!vars)
  BY NestNext
<1> QED BY <1>1, <1>2, PTL DEF Spec, ImplementsNestedTx, Nested!Spec

----------------------------------------------------------------------------
(* Numbers                                                                 *)

\* A set of naturals that is not empty has a least element.
LEMMA LeastNat ==
    ASSUME NEW T \in SUBSET Nat, T # {}
    PROVE  \E x \in T : \A y \in T : x <= y
<1>1. PICK t \in T : TRUE
  OBVIOUS
<1> DEFINE S == 0..t
            upTo(x) == T \cap (0..x)
            F == {upTo(x) : x \in upTo(t)}
<1>2. IsFiniteSet(S)
  BY <1>1, FS_Interval
<1>3. IsWellFoundedOn(StrictSubsetOrdering(S), SUBSET S)
  BY <1>2, FS_FiniteSubsetsOfFinite, FS_StrictSubsetOrderingWellFounded
<1>4. F \subseteq SUBSET S /\ F # {}
  <2>1. t \in upTo(t)
    BY <1>1
  <2>2. \A x \in upTo(t) : upTo(x) \subseteq S
    BY <1>1
  <2> QED
    BY <2>1, <2>2
<1>5. PICK f \in F : \A g \in F : <<g, f>> \notin StrictSubsetOrdering(S)
  BY <1>3, <1>4, WFMin
<1>6. PICK x \in upTo(t) : f = upTo(x)
  OBVIOUS
<1>7. ASSUME NEW y \in T, y < x
      PROVE  FALSE
  <2>1. y \in upTo(t) /\ upTo(y) \in F
    BY <1>1, <1>6, <1>7
  <2>2. upTo(y) \subseteq upTo(x) /\ x \in upTo(x) /\ x \notin upTo(y)
    BY <1>6, <1>7
  <2>3. <<upTo(y), upTo(x)>> \in StrictSubsetOrdering(S)
    BY <2>1, <2>2, <1>4, <1>6 DEF StrictSubsetOrdering
  <2> QED
    BY <2>1, <2>3, <1>5, <1>6
<1> QED
  BY <1>6, <1>7

----------------------------------------------------------------------------
(* Tables: what the entries of every instruction set have in common        *)

OpFields == {"execute", "n", "constantGas", "dynamicGas", "minStack", "maxStack", "memorySize"}

MemoryNames ==
    {"none", "memoryKeccak256", "memoryCallDataCopy", "memoryReturnDataCopy", "memoryCodeCopy",
     "memoryExtCodeCopy", "memoryMLoad", "memoryMStore8", "memoryMStore", "memoryMcopy",
     "memoryCreate", "memoryCreate2", "memoryCall", "memoryDelegateCall", "memoryStaticCall",
     "memoryReturn", "memoryRevert", "memoryLog"}

\* The gas functions of calls, before and after the access lists.
CallGas ==
    [opCall         |-> {"gasCall", "gasCallEIP2929"},
     opCallCode     |-> {"gasCallCode", "gasCallCodeEIP2929"},
     opDelegateCall |-> {"gasDelegateCall", "gasDelegateCallEIP2929"},
     opStaticCall   |-> {"gasStaticCall", "gasStaticCallEIP2929"}]

\* The gas functions that charge for memory.
Charging ==
    {"gasReturn", "gasRevert", "gasMLoad", "gasMStore8", "gasMStore", "gasCreate", "gasCallDataCopy",
     "gasCodeCopy", "gasMcopy", "gasReturnDataCopy", "gasExtCodeCopy", "gasKeccak256", "makeGasLog",
     "gasCreate2", "gasCreateEip3860", "gasCreate2Eip3860", "gasExtCodeCopyEIP2929",
     "gasCall", "gasCallEIP2929", "gasCallCode", "gasCallCodeEIP2929", "gasDelegateCall",
     "gasDelegateCallEIP2929", "gasStaticCall", "gasStaticCallEIP2929"}

\* Those that are never free.
Costing ==
    {"gasExpFrontier", "gasExpEIP158", "gasSStore", "gasSStoreEIP2200", "gasSStoreEIP2929",
     "gasSStoreEIP3529", "gasSLoadEIP2929", "makeGasLog"}

\* The functions that end a frame.
Ending == {"opStop", "opReturn", "opRevert", "opUndefined", "opSelfdestruct", "opSelfdestruct6780"}

\* Memory is charged for where it is asked for, whatever goes on is not free,
\* and a call has a gas function of its own.
Priced(op) ==
    /\ OpFields \subseteq DOMAIN op
    /\ op.n \in Nat
    /\ op.constantGas \in Prices \cup {"Free"}
    /\ op.memorySize \in MemoryNames
    /\ op.memorySize # "none" => op.dynamicGas \in Charging
    /\ op.execute \in Ending \/ op.constantGas # "Free" \/ op.dynamicGas \in Costing
    /\ op.execute \in CallFunctions => op.constantGas # "Free" /\ op.dynamicGas \in CallGas[op.execute]

\* What the proposals take an entry for, by its mnemonic.
Plain == {"SSTORE", "SLOAD", "SELFDESTRUCT", "EXTCODESIZE", "EXTCODEHASH", "BALANCE", "EXP"}
CallOf == [CALL |-> "opCall", CALLCODE |-> "opCallCode", DELEGATECALL |-> "opDelegateCall",
           STATICCALL |-> "opStaticCall"]

Named(name, op) ==
    /\ name \in Plain => op.memorySize = "none"
    /\ name \notin DOMAIN CallOf => op.execute \notin CallFunctions
    /\ name \in DOMAIN CallOf => op.execute \in {CallOf[name], "opUndefined"}
    /\ name = "SELFDESTRUCT" => op.execute \in Ending
    /\ name \in {"CREATE", "CREATE2"} => op.execute \in Ending \/ op.constantGas # "Free"

Entered(name, op) == Priced(op) /\ Named(name, op)

PricedSet(set) == \A name \in DOMAIN set : Entered(name, set[name])

LEMMA WithPriced ==
    ASSUME NEW set, NEW entries, PricedSet(set), PricedSet(entries)
    PROVE  PricedSet(With(set, entries))
  BY DEF PricedSet, With

LEMMA JoinedPriced ==
    ASSUME NEW F, \A f \in F : PricedSet(f)
    PROVE  PricedSet(Joined(F))
<1> SUFFICES ASSUME NEW name \in DOMAIN Joined(F)
             PROVE  Entered(name, Joined(F)[name])
  BY DEF PricedSet
<1>1. name \in UNION {DOMAIN f : f \in F}
  BY DEF Joined
<1>2. \E f \in F : name \in DOMAIN f
  BY <1>1
<1> DEFINE g == CHOOSE f \in F : name \in DOMAIN f
<1>3. g \in F /\ name \in DOMAIN g
  BY <1>2
<1>4. Joined(F)[name] = g[name]
  BY <1>1 DEF Joined
<1> HIDE DEF g
<1> QED BY <1>3, <1>4 DEF PricedSet

LEMMA ExceptPriced ==
    ASSUME NEW set, NEW name, NEW op, PricedSet(set), Entered(name, op)
    PROVE  PricedSet([set EXCEPT ![name] = op])
  BY DEF PricedSet

\* What the makers of entries make.
LEMMA OpParts ==
    ASSUME NEW execute, NEW gas, NEW pops, NEW push, NEW op, op = Op(execute, gas, pops, push)
    PROVE  /\ OpFields \subseteq DOMAIN op /\ op.n = 0
           /\ op.execute = execute /\ op.constantGas = gas
           /\ op.dynamicGas = "none" /\ op.memorySize = "none"
  BY DEF Op, OpFields

LEMMA MeteredParts ==
    ASSUME NEW op, OpFields \subseteq DOMAIN op, NEW gas, NEW made, made = Metered(op, gas)
    PROVE  /\ OpFields \subseteq DOMAIN made /\ made.n = op.n
           /\ made.execute = op.execute /\ made.constantGas = op.constantGas
           /\ made.dynamicGas = gas /\ made.memorySize = op.memorySize
  BY DEF Metered, OpFields

LEMMA InMemoryParts ==
    ASSUME NEW op, OpFields \subseteq DOMAIN op, NEW gas, NEW size, NEW made, made = InMemory(op, gas, size)
    PROVE  /\ OpFields \subseteq DOMAIN made /\ made.n = op.n
           /\ made.execute = op.execute /\ made.constantGas = op.constantGas
           /\ made.dynamicGas = gas /\ made.memorySize = size
  BY DEF InMemory, OpFields

LEMMA PlainEntry ==
    ASSUME NEW execute, NEW gas, NEW pops, NEW push, NEW name,
           name \notin DOMAIN CallOf, execute \notin CallFunctions,
           gas \in Prices, name = "SELFDESTRUCT" => execute \in Ending
    PROVE  Entered(name, Op(execute, gas, pops, push))
  BY OpParts DEF Entered, Priced, Named, MemoryNames, Prices

LEMMA MeteredEntry ==
    ASSUME NEW execute, NEW gas, NEW pops, NEW push, NEW dynamic, NEW name,
           name \notin DOMAIN CallOf, execute \notin CallFunctions, gas \in Prices \cup {"Free"},
           \/ execute \in Ending
           \/ (gas # "Free" \/ dynamic \in Costing) /\ name \notin {"SELFDESTRUCT", "CREATE", "CREATE2"}
    PROVE  Entered(name, Metered(Op(execute, gas, pops, push), dynamic))
<1> DEFINE op == Op(execute, gas, pops, push)
           made == Metered(op, dynamic)
<1>1. /\ OpFields \subseteq DOMAIN op /\ op.n = 0
      /\ op.execute = execute /\ op.constantGas = gas /\ op.memorySize = "none"
  BY OpParts
<1> HIDE DEF op
<1>2. /\ OpFields \subseteq DOMAIN made /\ made.n = 0 /\ made.memorySize = "none"
      /\ made.execute = execute /\ made.constantGas = gas /\ made.dynamicGas = dynamic
  BY <1>1, MeteredParts
<1> HIDE DEF made
<1>3. Priced(made)
  BY <1>2 DEF Priced, MemoryNames
<1>4. Named(name, made)
  BY <1>2 DEF Named
<1> QED BY <1>3, <1>4 DEF Entered, op, made

Suits(name, execute, gas, dynamic, size) ==
    /\ dynamic \in Charging /\ size \in MemoryNames
    /\ name \notin Plain /\ gas \in Prices \cup {"Free"}
    /\ execute \in Ending \/ gas # "Free" \/ (dynamic \in Costing /\ name \notin {"CREATE", "CREATE2"})
    /\ name \notin DOMAIN CallOf => execute \notin CallFunctions
    /\ name \in DOMAIN CallOf => execute = CallOf[name] /\ gas # "Free" /\ dynamic \in CallGas[execute]

LEMMA MemoryEntry ==
    ASSUME NEW name, NEW execute, NEW gas, NEW dynamic, NEW size, Suits(name, execute, gas, dynamic, size),
           NEW pops, NEW push
    PROVE  Entered(name, InMemory(Op(execute, gas, pops, push), dynamic, size))
<1> DEFINE op == Op(execute, gas, pops, push)
           made == InMemory(op, dynamic, size)
<1>1. /\ OpFields \subseteq DOMAIN op /\ op.n = 0 /\ op.execute = execute /\ op.constantGas = gas
  BY OpParts
<1> HIDE DEF op
<1>2. /\ OpFields \subseteq DOMAIN made /\ made.n = 0 /\ made.memorySize = size
      /\ made.execute = execute /\ made.constantGas = gas /\ made.dynamicGas = dynamic
  BY <1>1, InMemoryParts
<1> HIDE DEF made
<1>3. Priced(made)
  BY <1>2 DEF Priced, Suits
<1>4. Named(name, made)
  BY <1>2 DEF Named, Plain, Suits
<1> QED BY <1>3, <1>4 DEF Entered, op, made

LEMMA EntriesSuit ==
    /\ Suits("KECCAK256", "opKeccak256", "Keccak256Gas", "gasKeccak256", "memoryKeccak256")
    /\ Suits("CALLDATACOPY", "opCallDataCopy", "GasFastestStep", "gasCallDataCopy", "memoryCallDataCopy")
    /\ Suits("CODECOPY", "opCodeCopy", "GasFastestStep", "gasCodeCopy", "memoryCodeCopy")
    /\ Suits("EXTCODECOPY", "opExtCodeCopy", "ExtcodeCopyBaseFrontier", "gasExtCodeCopy", "memoryExtCodeCopy")
    /\ Suits("MLOAD", "opMload", "GasFastestStep", "gasMLoad", "memoryMLoad")
    /\ Suits("MSTORE", "opMstore", "GasFastestStep", "gasMStore", "memoryMStore")
    /\ Suits("MSTORE8", "opMstore8", "GasFastestStep", "gasMStore8", "memoryMStore8")
    /\ Suits("CREATE", "opCreate", "CreateGas", "gasCreate", "memoryCreate")
    /\ Suits("CREATE2", "opCreate2", "Create2Gas", "gasCreate2", "memoryCreate2")
    /\ Suits("CALL", "opCall", "CallGasFrontier", "gasCall", "memoryCall")
    /\ Suits("CALLCODE", "opCallCode", "CallGasFrontier", "gasCallCode", "memoryCall")
    /\ Suits("DELEGATECALL", "opDelegateCall", "CallGasFrontier", "gasDelegateCall", "memoryDelegateCall")
    /\ Suits("STATICCALL", "opStaticCall", "CallGasEIP150", "gasStaticCall", "memoryStaticCall")
    /\ Suits("RETURN", "opReturn", "Free", "gasReturn", "memoryReturn")
    /\ Suits("REVERT", "opRevert", "Free", "gasRevert", "memoryRevert")
    /\ Suits("RETURNDATACOPY", "opReturnDataCopy", "GasFastestStep", "gasReturnDataCopy", "memoryReturnDataCopy")
    /\ Suits("MCOPY", "opMcopy", "GasFastestStep", "gasMcopy", "memoryMcopy")
<1>1. Suits("KECCAK256", "opKeccak256", "Keccak256Gas", "gasKeccak256", "memoryKeccak256")
  BY DEF Suits, Charging, MemoryNames, Prices, Ending, Plain, Costing, CallFunctions, CallOf, CallGas
<1>2. Suits("CALLDATACOPY", "opCallDataCopy", "GasFastestStep", "gasCallDataCopy", "memoryCallDataCopy")
  BY DEF Suits, Charging, MemoryNames, Prices, Ending, Plain, Costing, CallFunctions, CallOf, CallGas
<1>3. Suits("CODECOPY", "opCodeCopy", "GasFastestStep", "gasCodeCopy", "memoryCodeCopy")
  BY DEF Suits, Charging, MemoryNames, Prices, Ending, Plain, Costing, CallFunctions, CallOf, CallGas
<1>4. Suits("EXTCODECOPY", "opExtCodeCopy", "ExtcodeCopyBaseFrontier", "gasExtCodeCopy", "memoryExtCodeCopy")
  BY DEF Suits, Charging, MemoryNames, Prices, Ending, Plain, Costing, CallFunctions, CallOf, CallGas
<1>5. Suits("MLOAD", "opMload", "GasFastestStep", "gasMLoad", "memoryMLoad")
  BY DEF Suits, Charging, MemoryNames, Prices, Ending, Plain, Costing, CallFunctions, CallOf, CallGas
<1>6. Suits("MSTORE", "opMstore", "GasFastestStep", "gasMStore", "memoryMStore")
  BY DEF Suits, Charging, MemoryNames, Prices, Ending, Plain, Costing, CallFunctions, CallOf, CallGas
<1>7. Suits("MSTORE8", "opMstore8", "GasFastestStep", "gasMStore8", "memoryMStore8")
  BY DEF Suits, Charging, MemoryNames, Prices, Ending, Plain, Costing, CallFunctions, CallOf, CallGas
<1>8. Suits("CREATE", "opCreate", "CreateGas", "gasCreate", "memoryCreate")
  BY DEF Suits, Charging, MemoryNames, Prices, Ending, Plain, Costing, CallFunctions, CallOf, CallGas
<1>9. Suits("CREATE2", "opCreate2", "Create2Gas", "gasCreate2", "memoryCreate2")
  BY DEF Suits, Charging, MemoryNames, Prices, Ending, Plain, Costing, CallFunctions, CallOf, CallGas
<1>10. Suits("CALL", "opCall", "CallGasFrontier", "gasCall", "memoryCall")
  BY DEF Suits, Charging, MemoryNames, Prices, Ending, Plain, Costing, CallFunctions, CallOf, CallGas
<1>11. Suits("CALLCODE", "opCallCode", "CallGasFrontier", "gasCallCode", "memoryCall")
  BY DEF Suits, Charging, MemoryNames, Prices, Ending, Plain, Costing, CallFunctions, CallOf, CallGas
<1>12. Suits("DELEGATECALL", "opDelegateCall", "CallGasFrontier", "gasDelegateCall", "memoryDelegateCall")
  BY DEF Suits, Charging, MemoryNames, Prices, Ending, Plain, Costing, CallFunctions, CallOf, CallGas
<1>13. Suits("STATICCALL", "opStaticCall", "CallGasEIP150", "gasStaticCall", "memoryStaticCall")
  BY DEF Suits, Charging, MemoryNames, Prices, Ending, Plain, Costing, CallFunctions, CallOf, CallGas
<1>14. Suits("RETURN", "opReturn", "Free", "gasReturn", "memoryReturn")
  BY DEF Suits, Charging, MemoryNames, Prices, Ending, Plain, Costing, CallFunctions, CallOf, CallGas
<1>15. Suits("REVERT", "opRevert", "Free", "gasRevert", "memoryRevert")
  BY DEF Suits, Charging, MemoryNames, Prices, Ending, Plain, Costing, CallFunctions, CallOf, CallGas
<1>16. Suits("RETURNDATACOPY", "opReturnDataCopy", "GasFastestStep", "gasReturnDataCopy", "memoryReturnDataCopy")
  BY DEF Suits, Charging, MemoryNames, Prices, Ending, Plain, Costing, CallFunctions, CallOf, CallGas
<1>17. Suits("MCOPY", "opMcopy", "GasFastestStep", "gasMcopy", "memoryMcopy")
  BY DEF Suits, Charging, MemoryNames, Prices, Ending, Plain, Costing, CallFunctions, CallOf, CallGas
<1> QED BY <1>1, <1>2, <1>3, <1>4, <1>5, <1>6, <1>7, <1>8, <1>9, <1>10, <1>11, <1>12, <1>13, <1>14, <1>15, <1>16, <1>17

\* The entries of an instruction set, one block of it at a time.
LEMMA BlocksPriced ==
    /\ PricedSet(FrontierArithmetic) /\ PricedSet(FrontierComparison) /\ PricedSet(FrontierClosure)
    /\ PricedSet(FrontierBlock) /\ PricedSet(FrontierStorage) /\ PricedSet(FrontierCalls)
<1>1. PricedSet(FrontierArithmetic) /\ PricedSet(FrontierBlock)
  <2>1. PricedSet(FrontierArithmetic)
    BY SMTT(30) DEF FrontierArithmetic, PricedSet, Entered, Priced, Named, Op, Metered, OpFields, MemoryNames,
          Prices, Ending, Plain, CallFunctions, CallOf, Costing
  <2>2. PricedSet(FrontierBlock)
    BY SMTT(30) DEF FrontierBlock, PricedSet, Entered, Priced, Named, Op, Metered, OpFields, MemoryNames,
          Prices, Ending, Plain, CallFunctions, CallOf, Costing
  <2> QED BY <2>1, <2>2
<1>2. PricedSet(FrontierComparison)
  <2> SUFFICES ASSUME NEW name \in DOMAIN FrontierComparison PROVE Entered(name, FrontierComparison[name])
    BY DEF PricedSet
  <2>1. CASE name = "KECCAK256"
    <3>1. Entered("KECCAK256", InMemory(Op("opKeccak256", "Keccak256Gas", 2, 1), "gasKeccak256", "memoryKeccak256"))
      BY EntriesSuit, MemoryEntry
    <3> QED BY <2>1, <3>1 DEF FrontierComparison
  <2>2. CASE name \notin {"KECCAK256"}
    <3>1. /\ Entered("LT", Op("opLt", "GasFastestStep", 2, 1))
          /\ Entered("GT", Op("opGt", "GasFastestStep", 2, 1))
          /\ Entered("SLT", Op("opSlt", "GasFastestStep", 2, 1))
      BY PlainEntry DEF Prices, CallFunctions, CallOf
    <3>2. /\ Entered("SGT", Op("opSgt", "GasFastestStep", 2, 1))
          /\ Entered("EQ", Op("opEq", "GasFastestStep", 2, 1))
          /\ Entered("ISZERO", Op("opIszero", "GasFastestStep", 1, 1))
      BY PlainEntry DEF Prices, CallFunctions, CallOf
    <3>3. /\ Entered("AND", Op("opAnd", "GasFastestStep", 2, 1))
          /\ Entered("XOR", Op("opXor", "GasFastestStep", 2, 1))
          /\ Entered("OR", Op("opOr", "GasFastestStep", 2, 1))
      BY PlainEntry DEF Prices, CallFunctions, CallOf
    <3>4. /\ Entered("NOT", Op("opNot", "GasFastestStep", 1, 1))
          /\ Entered("BYTE", Op("opByte", "GasFastestStep", 2, 1))
      BY PlainEntry DEF Prices, CallFunctions, CallOf
    <3> QED BY <2>2, <3>1, <3>2, <3>3, <3>4 DEF FrontierComparison
  <2> QED BY <2>1, <2>2
<1>3. PricedSet(FrontierClosure)
  <2> SUFFICES ASSUME NEW name \in DOMAIN FrontierClosure PROVE Entered(name, FrontierClosure[name])
    BY DEF PricedSet
  <2>1. CASE name = "CALLDATACOPY"
    <3>1. Entered("CALLDATACOPY", InMemory(Op("opCallDataCopy", "GasFastestStep", 3, 0), "gasCallDataCopy", "memoryCallDataCopy"))
      BY EntriesSuit, MemoryEntry
    <3> QED BY <2>1, <3>1 DEF FrontierClosure
  <2>2. CASE name = "CODECOPY"
    <3>1. Entered("CODECOPY", InMemory(Op("opCodeCopy", "GasFastestStep", 3, 0), "gasCodeCopy", "memoryCodeCopy"))
      BY EntriesSuit, MemoryEntry
    <3> QED BY <2>2, <3>1 DEF FrontierClosure
  <2>3. CASE name = "EXTCODECOPY"
    <3>1. Entered("EXTCODECOPY", InMemory(Op("opExtCodeCopy", "ExtcodeCopyBaseFrontier", 4, 0), "gasExtCodeCopy", "memoryExtCodeCopy"))
      BY EntriesSuit, MemoryEntry
    <3> QED BY <2>3, <3>1 DEF FrontierClosure
  <2>4. CASE name \notin {"CALLDATACOPY", "CODECOPY", "EXTCODECOPY"}
    <3>1. /\ Entered("ADDRESS", Op("opAddress", "GasQuickStep", 0, 1))
          /\ Entered("BALANCE", Op("opBalance", "BalanceGasFrontier", 1, 1))
          /\ Entered("ORIGIN", Op("opOrigin", "GasQuickStep", 0, 1))
      BY PlainEntry DEF Prices, CallFunctions, CallOf
    <3>2. /\ Entered("CALLER", Op("opCaller", "GasQuickStep", 0, 1))
          /\ Entered("CALLVALUE", Op("opCallValue", "GasQuickStep", 0, 1))
          /\ Entered("CALLDATALOAD", Op("opCallDataLoad", "GasFastestStep", 1, 1))
      BY PlainEntry DEF Prices, CallFunctions, CallOf
    <3>3. /\ Entered("CALLDATASIZE", Op("opCallDataSize", "GasQuickStep", 0, 1))
          /\ Entered("CODESIZE", Op("opCodeSize", "GasQuickStep", 0, 1))
          /\ Entered("GASPRICE", Op("opGasprice", "GasQuickStep", 0, 1))
      BY PlainEntry DEF Prices, CallFunctions, CallOf
    <3>4. /\ Entered("EXTCODESIZE", Op("opExtCodeSize", "ExtcodeSizeGasFrontier", 1, 1))
      BY PlainEntry DEF Prices, CallFunctions, CallOf
    <3> QED BY <2>4, <3>1, <3>2, <3>3, <3>4 DEF FrontierClosure
  <2> QED BY <2>1, <2>2, <2>3, <2>4
<1>4. PricedSet(FrontierStorage)
  <2> SUFFICES ASSUME NEW name \in DOMAIN FrontierStorage PROVE Entered(name, FrontierStorage[name])
    BY DEF PricedSet
  <2>1. CASE name = "MLOAD"
    <3>1. Entered("MLOAD", InMemory(Op("opMload", "GasFastestStep", 1, 1), "gasMLoad", "memoryMLoad"))
      BY EntriesSuit, MemoryEntry
    <3> QED BY <2>1, <3>1 DEF FrontierStorage
  <2>2. CASE name = "MSTORE"
    <3>1. Entered("MSTORE", InMemory(Op("opMstore", "GasFastestStep", 2, 0), "gasMStore", "memoryMStore"))
      BY EntriesSuit, MemoryEntry
    <3> QED BY <2>2, <3>1 DEF FrontierStorage
  <2>3. CASE name = "MSTORE8"
    <3>1. Entered("MSTORE8", InMemory(Op("opMstore8", "GasFastestStep", 2, 0), "gasMStore8", "memoryMStore8"))
      BY EntriesSuit, MemoryEntry
    <3> QED BY <2>3, <3>1 DEF FrontierStorage
  <2>4. CASE name \notin {"MLOAD", "MSTORE", "MSTORE8"}
    BY <2>4, SMTT(30) DEF FrontierStorage, Entered, Priced, Named, Op, Metered, OpFields, MemoryNames, Prices, Ending, Plain,
          CallFunctions, CallOf, Costing
  <2> QED BY <2>1, <2>2, <2>3, <2>4
<1>5. PricedSet(FrontierCalls)
  <2> SUFFICES ASSUME NEW name \in DOMAIN FrontierCalls PROVE Entered(name, FrontierCalls[name])
    BY DEF PricedSet
  <2>1. CASE name = "CREATE"
    <3>1. Entered("CREATE", InMemory(Op("opCreate", "CreateGas", 3, 1), "gasCreate", "memoryCreate"))
      BY EntriesSuit, MemoryEntry
    <3> QED BY <2>1, <3>1 DEF FrontierCalls
  <2>2. CASE name = "CALL"
    <3>1. Entered("CALL", InMemory(Op("opCall", "CallGasFrontier", 7, 1), "gasCall", "memoryCall"))
      BY EntriesSuit, MemoryEntry
    <3> QED BY <2>2, <3>1 DEF FrontierCalls
  <2>3. CASE name = "CALLCODE"
    <3>1. Entered("CALLCODE", InMemory(Op("opCallCode", "CallGasFrontier", 7, 1), "gasCallCode", "memoryCall"))
      BY EntriesSuit, MemoryEntry
    <3> QED BY <2>3, <3>1 DEF FrontierCalls
  <2>4. CASE name = "RETURN"
    <3>1. Entered("RETURN", InMemory(Op("opReturn", "Free", 2, 0), "gasReturn", "memoryReturn"))
      BY EntriesSuit, MemoryEntry
    <3> QED BY <2>4, <3>1 DEF FrontierCalls
  <2>5. CASE name \notin {"CREATE", "CALL", "CALLCODE", "RETURN"}
    BY <2>5, SMTT(30) DEF FrontierCalls, Entered, Priced, Named, Op, Metered, OpFields, MemoryNames, Prices, Ending, Plain,
          CallFunctions, CallOf, Costing
  <2> QED BY <2>1, <2>2, <2>3, <2>4, <2>5
<1> QED BY <1>1, <1>2, <1>3, <1>4, <1>5

\* A family of opcodes: its members are numbered from its first.
LEMMA NumberedFrom ==
    ASSUME NEW first \in Nat, NEW names, 1 \in DOMAIN names, DOMAIN names \subseteq Nat,
           \A i \in DOMAIN names : names[i] = names[1] => i = 1
    PROVE  /\ \A name \in DOMAIN Numbered(first, names) : \E i \in DOMAIN names :
                   name = names[i] /\ Numbered(first, names)[name] = first + i - 1
           /\ Numbered(first, names)[names[1]] = first
<1> DEFINE codes == Numbered(first, names)
           at(n) == CHOOSE i \in DOMAIN names : names[i] = n
<1>1. \A n \in DOMAIN codes : at(n) \in DOMAIN names /\ names[at(n)] = n /\ codes[n] = first + at(n) - 1
  <2> SUFFICES ASSUME NEW n \in DOMAIN codes
               PROVE  at(n) \in DOMAIN names /\ names[at(n)] = n /\ codes[n] = first + at(n) - 1
    OBVIOUS
  <2>1. \E i \in DOMAIN names : names[i] = n
    BY DEF Numbered
  <2> QED BY <2>1 DEF Numbered
<1>2. names[1] \in DOMAIN codes
  BY DEF Numbered
<1> HIDE DEF at
<1>3. at(names[1]) = 1
  BY <1>1, <1>2
<1>4. codes[names[1]] = first
  BY <1>1, <1>2, <1>3
<1> QED BY <1>1, <1>4

\* A name none of the proposals looks for.
Unnamed(name) == name \notin Plain \cup DOMAIN CallOf \cup {"CREATE", "CREATE2", "EXTCODECOPY"}

LEMMA PushCodesFrom ==
    /\ PushCodes \in [DOMAIN PushCodes -> 96..127]
    /\ PushCodes["PUSH1"] = 96
    /\ \A name \in DOMAIN PushCodes : Unnamed(name)
<1> DEFINE names == <<"PUSH1", "PUSH2", "PUSH3", "PUSH4", "PUSH5", "PUSH6", "PUSH7", "PUSH8",
                       "PUSH9", "PUSH10", "PUSH11", "PUSH12", "PUSH13", "PUSH14", "PUSH15",
                       "PUSH16", "PUSH17", "PUSH18", "PUSH19", "PUSH20", "PUSH21", "PUSH22",
                       "PUSH23", "PUSH24", "PUSH25", "PUSH26", "PUSH27", "PUSH28", "PUSH29",
                       "PUSH30", "PUSH31", "PUSH32">>
<1>1. /\ DOMAIN names = 1..32 /\ names[1] = "PUSH1"
      /\ \A i \in DOMAIN names : names[i] = names[1] => i = 1
  OBVIOUS
<1>2. \A i \in 1..32 : Unnamed(names[i])
  BY DEF Unnamed, Plain, CallOf
<1>3. PushCodes = Numbered(96, names)
  BY DEF PushCodes
<1> HIDE DEF names
<1>4. /\ 1 \in DOMAIN names /\ DOMAIN names \subseteq Nat
      /\ \A i \in DOMAIN names : names[i] = names[1] => i = 1
  BY <1>1
<1>5. /\ \A name \in DOMAIN PushCodes : \E i \in DOMAIN names : name = names[i] /\ PushCodes[name] = 96 + i - 1
      /\ PushCodes[names[1]] = 96
  BY <1>3, <1>4, NumberedFrom
<1>6. PushCodes = [name \in DOMAIN PushCodes |-> PushCodes[name]]
  BY <1>3 DEF Numbered
<1> QED BY <1>1, <1>2, <1>5, <1>6

LEMMA DupCodesFrom ==
    /\ DupCodes \in [DOMAIN DupCodes -> 128..143]
    /\ DupCodes["DUP1"] = 128
    /\ \A name \in DOMAIN DupCodes : Unnamed(name)
<1> DEFINE names == <<"DUP1", "DUP2", "DUP3", "DUP4", "DUP5", "DUP6", "DUP7", "DUP8", "DUP9",
                       "DUP10", "DUP11", "DUP12", "DUP13", "DUP14", "DUP15", "DUP16">>
<1>1. /\ DOMAIN names = 1..16 /\ names[1] = "DUP1"
      /\ \A i \in DOMAIN names : names[i] = names[1] => i = 1
  OBVIOUS
<1>2. \A i \in 1..16 : Unnamed(names[i])
  BY DEF Unnamed, Plain, CallOf
<1>3. DupCodes = Numbered(128, names)
  BY DEF DupCodes
<1> HIDE DEF names
<1>4. /\ 1 \in DOMAIN names /\ DOMAIN names \subseteq Nat
      /\ \A i \in DOMAIN names : names[i] = names[1] => i = 1
  BY <1>1
<1>5. /\ \A name \in DOMAIN DupCodes : \E i \in DOMAIN names : name = names[i] /\ DupCodes[name] = 128 + i - 1
      /\ DupCodes[names[1]] = 128
  BY <1>3, <1>4, NumberedFrom
<1>6. DupCodes = [name \in DOMAIN DupCodes |-> DupCodes[name]]
  BY <1>3 DEF Numbered
<1> QED BY <1>1, <1>2, <1>5, <1>6

LEMMA SwapCodesFrom ==
    /\ SwapCodes \in [DOMAIN SwapCodes -> 144..159]
    /\ SwapCodes["SWAP1"] = 144
    /\ \A name \in DOMAIN SwapCodes : Unnamed(name)
<1> DEFINE names == <<"SWAP1", "SWAP2", "SWAP3", "SWAP4", "SWAP5", "SWAP6", "SWAP7", "SWAP8",
                       "SWAP9", "SWAP10", "SWAP11", "SWAP12", "SWAP13", "SWAP14", "SWAP15",
                       "SWAP16">>
<1>1. /\ DOMAIN names = 1..16 /\ names[1] = "SWAP1"
      /\ \A i \in DOMAIN names : names[i] = names[1] => i = 1
  OBVIOUS
<1>2. \A i \in 1..16 : Unnamed(names[i])
  BY DEF Unnamed, Plain, CallOf
<1>3. SwapCodes = Numbered(144, names)
  BY DEF SwapCodes
<1> HIDE DEF names
<1>4. /\ 1 \in DOMAIN names /\ DOMAIN names \subseteq Nat
      /\ \A i \in DOMAIN names : names[i] = names[1] => i = 1
  BY <1>1
<1>5. /\ \A name \in DOMAIN SwapCodes : \E i \in DOMAIN names : name = names[i] /\ SwapCodes[name] = 144 + i - 1
      /\ SwapCodes[names[1]] = 144
  BY <1>3, <1>4, NumberedFrom
<1>6. SwapCodes = [name \in DOMAIN SwapCodes |-> SwapCodes[name]]
  BY <1>3 DEF Numbered
<1> QED BY <1>1, <1>2, <1>5, <1>6

LEMMA LogCodesFrom ==
    /\ LogCodes \in [DOMAIN LogCodes -> 160..164]
    /\ LogCodes["LOG0"] = 160
    /\ \A name \in DOMAIN LogCodes : Unnamed(name)
<1> DEFINE names == <<"LOG0", "LOG1", "LOG2", "LOG3", "LOG4">>
<1>1. /\ DOMAIN names = 1..5 /\ names[1] = "LOG0"
      /\ \A i \in DOMAIN names : names[i] = names[1] => i = 1
  OBVIOUS
<1>2. \A i \in 1..5 : Unnamed(names[i])
  BY DEF Unnamed, Plain, CallOf
<1>3. LogCodes = Numbered(160, names)
  BY DEF LogCodes
<1> HIDE DEF names
<1>4. /\ 1 \in DOMAIN names /\ DOMAIN names \subseteq Nat
      /\ \A i \in DOMAIN names : names[i] = names[1] => i = 1
  BY <1>1
<1>5. /\ \A name \in DOMAIN LogCodes : \E i \in DOMAIN names : name = names[i] /\ LogCodes[name] = 160 + i - 1
      /\ LogCodes[names[1]] = 160
  BY <1>3, <1>4, NumberedFrom
<1>6. LogCodes = [name \in DOMAIN LogCodes |-> LogCodes[name]]
  BY <1>3 DEF Numbered
<1> QED BY <1>1, <1>2, <1>5, <1>6

LEMMA FamiliesPriced ==
    /\ PricedSet(FrontierPush) /\ PricedSet(FrontierDup) /\ PricedSet(FrontierSwap)
    /\ PricedSet(FrontierLog)
<1>1. ASSUME NEW op, NEW name, Unnamed(name), OpFields \subseteq DOMAIN op, op.n \in Nat,
             op.constantGas = "GasFastestStep", op.memorySize = "none",
             op.execute \in {"opPush1", "makePush", "makeDup", "makeSwap"}
      PROVE  Entered(name, op)
  BY <1>1 DEF Entered, Priced, Named, Unnamed, MemoryNames, Prices, CallFunctions, Plain
<1>2. PricedSet(FrontierPush)
  <2> SUFFICES ASSUME NEW name \in DOMAIN FrontierPush PROVE Entered(name, FrontierPush[name])
    BY DEF PricedSet
  <2> DEFINE i == PushCodes[name] - PushCodes["PUSH1"]
             op == [Op(IF i = 0 THEN "opPush1" ELSE "makePush", "GasFastestStep", 0, 1) EXCEPT !.n = i + 1]
  <2>1. name \in DOMAIN PushCodes /\ FrontierPush[name] = op
    BY DEF FrontierPush, Members
  <2>2. i \in Nat /\ Unnamed(name)
    BY <2>1, PushCodesFrom
  <2> HIDE DEF i
  <2>3. /\ OpFields \subseteq DOMAIN op /\ op.n \in Nat /\ op.constantGas = "GasFastestStep"
        /\ op.memorySize = "none" /\ op.execute \in {"opPush1", "makePush"}
    BY <2>2 DEF Op, OpFields
  <2> QED BY <1>1, <2>1, <2>2, <2>3
<1>3. PricedSet(FrontierDup)
  <2> SUFFICES ASSUME NEW name \in DOMAIN FrontierDup PROVE Entered(name, FrontierDup[name])
    BY DEF PricedSet
  <2> DEFINE i == DupCodes[name] - DupCodes["DUP1"]
             op == [Op("makeDup", "GasFastestStep", 0, 1) EXCEPT !.n = i + 1,
                        !.minStack = minDupStack(i + 1), !.maxStack = maxDupStack(i + 1)]
  <2>1. name \in DOMAIN DupCodes /\ FrontierDup[name] = op
    BY DEF FrontierDup, Members
  <2>2. i \in Nat /\ Unnamed(name)
    BY <2>1, DupCodesFrom
  <2> HIDE DEF i
  <2>3. /\ OpFields \subseteq DOMAIN op /\ op.n \in Nat /\ op.constantGas = "GasFastestStep"
        /\ op.memorySize = "none" /\ op.execute = "makeDup"
    BY <2>2 DEF Op, OpFields
  <2> QED BY <1>1, <2>1, <2>2, <2>3
<1>4. PricedSet(FrontierSwap)
  <2> SUFFICES ASSUME NEW name \in DOMAIN FrontierSwap PROVE Entered(name, FrontierSwap[name])
    BY DEF PricedSet
  <2> DEFINE i == SwapCodes[name] - SwapCodes["SWAP1"]
             op == [Op("makeSwap", "GasFastestStep", 0, 0) EXCEPT !.n = i + 1,
                        !.minStack = minSwapStack(i + 2), !.maxStack = maxSwapStack(i + 2)]
  <2>1. name \in DOMAIN SwapCodes /\ FrontierSwap[name] = op
    BY DEF FrontierSwap, Members
  <2>2. i \in Nat /\ Unnamed(name)
    BY <2>1, SwapCodesFrom
  <2> HIDE DEF i
  <2>3. /\ OpFields \subseteq DOMAIN op /\ op.n \in Nat /\ op.constantGas = "GasFastestStep"
        /\ op.memorySize = "none" /\ op.execute = "makeSwap"
    BY <2>2 DEF Op, OpFields
  <2> QED BY <1>1, <2>1, <2>2, <2>3
<1>5. PricedSet(FrontierLog)
  <2> SUFFICES ASSUME NEW name \in DOMAIN FrontierLog PROVE Entered(name, FrontierLog[name])
    BY DEF PricedSet
  <2> DEFINE i == LogCodes[name] - LogCodes["LOG0"]
             made == InMemory(Op("makeLog", "Free", 2 + i, 0), "makeGasLog", "memoryLog")
             op == [made EXCEPT !.n = i]
  <2>1. name \in DOMAIN LogCodes /\ FrontierLog[name] = op
    BY DEF FrontierLog, Members
  <2>2. i \in Nat /\ Unnamed(name)
    BY <2>1, LogCodesFrom
  <2> HIDE DEF i
  <2>3. /\ OpFields \subseteq DOMAIN made /\ made.execute = "makeLog" /\ made.constantGas = "Free"
        /\ made.dynamicGas = "makeGasLog" /\ made.memorySize = "memoryLog"
    BY OpParts, InMemoryParts
  <2> HIDE DEF made
  <2>4. /\ OpFields \subseteq DOMAIN op /\ op.n \in Nat /\ op.execute = "makeLog"
        /\ op.constantGas = "Free" /\ op.dynamicGas = "makeGasLog" /\ op.memorySize = "memoryLog"
    BY <2>2, <2>3 DEF OpFields
  <2> HIDE DEF op
  <2>5. Priced(op)
    BY <2>4 DEF Priced, Charging, Costing, MemoryNames, CallFunctions
  <2> QED BY <2>1, <2>2, <2>4, <2>5 DEF Entered, Named, Unnamed, CallFunctions, Plain
<1> QED BY <1>2, <1>3, <1>4, <1>5

LEMMA FrontierPriced == PricedSet(newFrontierInstructionSet)
<1> DEFINE F == {FrontierArithmetic, FrontierComparison, FrontierClosure, FrontierBlock, FrontierStorage,
                 FrontierPush, FrontierDup, FrontierSwap, FrontierLog, FrontierCalls}
<1>1. \A f \in F : PricedSet(f)
  BY BlocksPriced, FamiliesPriced
<1> HIDE DEF F
<1>2. PricedSet(Joined(F))
  BY <1>1, JoinedPriced
<1> QED BY <1>2 DEF F, newFrontierInstructionSet

----------------------------------------------------------------------------
(* Tables: what the proposals and the forks change                         *)

LEMMA UndefinedEntry == \A name : Entered(name, Undefined)
<1>1. /\ OpFields \subseteq DOMAIN Undefined /\ Undefined.n = 0 /\ Undefined.execute = "opUndefined"
      /\ Undefined.constantGas = "Free" /\ Undefined.dynamicGas = "none" /\ Undefined.memorySize = "none"
  BY DEF Undefined, Op, OpFields
<1> QED BY <1>1 DEF Entered, Priced, Named, MemoryNames, Ending, CallFunctions

LEMMA EntryEntered ==
    ASSUME NEW set, PricedSet(set), NEW name
    PROVE  Entered(name, Entry(set, name))
  BY UndefinedEntry DEF Entry, PricedSet

\* An entry with another constant gas, or another gas function.
LEMMA ConstantEntry ==
    ASSUME NEW name, NEW op, Entered(name, op), NEW gas \in Prices
    PROVE  Entered(name, [op EXCEPT !.constantGas = gas])
<1> DEFINE made == [op EXCEPT !.constantGas = gas]
<1>1. /\ OpFields \subseteq DOMAIN made /\ made.n = op.n /\ made.execute = op.execute
      /\ made.constantGas = gas /\ made.dynamicGas = op.dynamicGas /\ made.memorySize = op.memorySize
  BY DEF Entered, Priced, OpFields
<1>2. gas # "Free"
  BY DEF Prices
<1> HIDE DEF made
<1> QED BY <1>1, <1>2 DEF Entered, Priced, Named

LEMMA DynamicEntry ==
    ASSUME NEW name, NEW op, Entered(name, op), NEW gas,
           op.memorySize # "none" => gas \in Charging,
           op.execute \in Ending \/ op.constantGas # "Free" \/ gas \in Costing,
           op.execute \in CallFunctions => gas \in CallGas[op.execute]
    PROVE  Entered(name, [op EXCEPT !.dynamicGas = gas])
<1> DEFINE made == [op EXCEPT !.dynamicGas = gas]
<1>1. /\ OpFields \subseteq DOMAIN made /\ made.n = op.n /\ made.execute = op.execute
      /\ made.constantGas = op.constantGas /\ made.dynamicGas = gas /\ made.memorySize = op.memorySize
  BY DEF Entered, Priced, OpFields
<1> HIDE DEF made
<1> QED BY <1>1 DEF Entered, Priced, Named

LEMMA RepricedPriced ==
    ASSUME NEW set, PricedSet(set), NEW name, NEW gas \in Prices
    PROVE  PricedSet(Repriced(set, name, gas))
<1> SUFFICES ASSUME NEW other \in DOMAIN set
             PROVE  Entered(other, Repriced(set, name, gas)[other])
  BY DEF PricedSet, Repriced
<1>1. Entered(other, set[other])
  BY DEF PricedSet
<1>2. CASE other = name
  BY <1>1, <1>2, ConstantEntry DEF Repriced
<1>3. CASE other # name
  BY <1>1, <1>3 DEF Repriced
<1> QED BY <1>2, <1>3

\* Another gas function for the opcode of a name.
MeteredAt(set, name, gas) == [set EXCEPT ![name].dynamicGas = gas]

LEMMA MeteredAtPriced ==
    ASSUME NEW set, PricedSet(set), NEW name, NEW gas,
           \/ name \in Plain /\ name \notin DOMAIN CallOf /\ (gas \in Costing \/ name = "SELFDESTRUCT")
           \/ name = "CREATE" /\ gas \in Charging
    PROVE  PricedSet(MeteredAt(set, name, gas))
<1> SUFFICES ASSUME NEW other \in DOMAIN set
             PROVE  Entered(other, MeteredAt(set, name, gas)[other])
  BY DEF PricedSet, MeteredAt
<1>1. Entered(other, set[other])
  BY DEF PricedSet
<1>2. CASE other = name
  <2>1. MeteredAt(set, name, gas)[other] = [set[other] EXCEPT !.dynamicGas = gas]
    BY <1>2 DEF MeteredAt
  <2>2. set[other].memorySize # "none" => gas \in Charging
    BY <1>1, <1>2 DEF Entered, Named
  <2>3. set[other].execute \in Ending \/ set[other].constantGas # "Free" \/ gas \in Costing
    BY <1>1, <1>2 DEF Entered, Named
  <2>4. set[other].execute \notin CallFunctions
    BY <1>1, <1>2 DEF Entered, Named, CallOf
  <2> QED BY <1>1, <2>1, <2>2, <2>3, <2>4, DynamicEntry
<1>3. CASE other # name
  BY <1>1, <1>3 DEF MeteredAt
<1> QED BY <1>2, <1>3

\* The proposals that only add opcodes.
LEMMA AdditionsPriced ==
    ASSUME NEW set, PricedSet(set)
    PROVE  /\ PricedSet(enable1344(set)) /\ PricedSet(enable3198(set)) /\ PricedSet(enable1153(set))
           /\ PricedSet(enable3855(set)) /\ PricedSet(enable4844(set)) /\ PricedSet(enable7516(set))
           /\ PricedSet(enable5656(set)) /\ PricedSet(enable6780(set))
<1>1. /\ PricedSet([CHAINID |-> Op("opChainID", "GasQuickStep", 0, 1)])
      /\ PricedSet([BASEFEE |-> Op("opBaseFee", "GasQuickStep", 0, 1)])
      /\ PricedSet([TLOAD  |-> Op("opTload", "WarmStorageReadCostEIP2929", 1, 1),
                    TSTORE |-> Op("opTstore", "WarmStorageReadCostEIP2929", 2, 0)])
  BY PlainEntry DEF PricedSet, CallOf, CallFunctions, Prices
<1>2. /\ PricedSet([PUSH0 |-> Op("opPush0", "GasQuickStep", 0, 1)])
      /\ PricedSet([BLOBHASH |-> Op("opBlobHash", "GasFastestStep", 1, 1)])
      /\ PricedSet([BLOBBASEFEE |-> Op("opBlobBaseFee", "GasQuickStep", 0, 1)])
  BY PlainEntry DEF PricedSet, CallOf, CallFunctions, Prices
<1>3. PricedSet([MCOPY |-> InMemory(Op("opMcopy", "GasFastestStep", 3, 0), "gasMcopy", "memoryMcopy")])
  <2>1. Entered("MCOPY", InMemory(Op("opMcopy", "GasFastestStep", 3, 0), "gasMcopy", "memoryMcopy"))
    BY EntriesSuit, MemoryEntry
  <2> QED BY <2>1 DEF PricedSet
<1>4. PricedSet([SELFDESTRUCT |-> Metered(Op("opSelfdestruct6780", "SelfdestructGasEIP150", 1, 0),
                                          "gasSelfdestructEIP3529")])
  <2>1. Entered("SELFDESTRUCT", Metered(Op("opSelfdestruct6780", "SelfdestructGasEIP150", 1, 0),
                                        "gasSelfdestructEIP3529"))
    BY MeteredEntry DEF Prices, Ending, CallFunctions, CallOf
  <2> QED BY <2>1 DEF PricedSet
<1>5. PricedSet(enable1344(set)) /\ PricedSet(enable3198(set)) /\ PricedSet(enable1153(set))
  BY <1>1, WithPriced DEF enable1344, enable3198, enable1153
<1>6. PricedSet(enable3855(set)) /\ PricedSet(enable4844(set)) /\ PricedSet(enable7516(set))
  BY <1>2, WithPriced DEF enable3855, enable4844, enable7516
<1>7. PricedSet(enable5656(set))
  BY <1>3, WithPriced DEF enable5656
<1>8. PricedSet(enable6780(set))
  BY <1>4, WithPriced DEF enable6780
<1> QED BY <1>5, <1>6, <1>7, <1>8

LEMMA Enable1884Priced ==
    ASSUME NEW set, PricedSet(set)
    PROVE  PricedSet(enable1884(set))
<1> DEFINE dear == Repriced(Repriced(set, "SLOAD", "SloadGasEIP1884"), "BALANCE", "BalanceGasEIP1884")
           hash == [Entry(set, "EXTCODEHASH") EXCEPT !.constantGas = "ExtcodeHashGasEIP1884"]
           self == Op("opSelfBalance", "GasFastStep", 0, 1)
<1>1. "SloadGasEIP1884" \in Prices /\ "BalanceGasEIP1884" \in Prices /\ "ExtcodeHashGasEIP1884" \in Prices
  BY DEF Prices
<1>2. PricedSet(dear)
  BY <1>1, RepricedPriced
<1>3. Entered("EXTCODEHASH", hash)
  BY <1>1, EntryEntered, ConstantEntry
<1>4. Entered("SELFBALANCE", self)
  BY PlainEntry DEF CallOf, CallFunctions, Prices
<1> HIDE DEF dear, hash, self
<1>5. PricedSet([SELFBALANCE |-> self, EXTCODEHASH |-> hash])
  BY <1>3, <1>4 DEF PricedSet
<1> QED BY <1>2, <1>5, WithPriced DEF enable1884, dear, hash, self

LEMMA Enable2200Priced ==
    ASSUME NEW set, PricedSet(set)
    PROVE  PricedSet(enable2200(set))
<1>1. PricedSet(Repriced(set, "SLOAD", "SloadGasEIP2200"))
  BY RepricedPriced DEF Prices
<1>2. enable2200(set) = MeteredAt(Repriced(set, "SLOAD", "SloadGasEIP2200"), "SSTORE", "gasSStoreEIP2200")
  BY DEF enable2200, MeteredAt
<1> QED BY <1>1, <1>2, MeteredAtPriced DEF Plain, CallOf, Costing

LEMMA Enable3529Priced ==
    ASSUME NEW set, PricedSet(set)
    PROVE  PricedSet(enable3529(set))
<1>1. PricedSet(MeteredAt(set, "SSTORE", "gasSStoreEIP3529"))
  BY MeteredAtPriced DEF Plain, CallOf, Costing
<1>2. enable3529(set)
        = MeteredAt(MeteredAt(set, "SSTORE", "gasSStoreEIP3529"), "SELFDESTRUCT", "gasSelfdestructEIP3529")
  BY DEF enable3529, MeteredAt
<1> QED BY <1>1, <1>2, MeteredAtPriced DEF Plain, CallOf

LEMMA Enable3860Priced ==
    ASSUME NEW set, PricedSet(set)
    PROVE  PricedSet(enable3860(set))
<1>1. PricedSet(MeteredAt(set, "CREATE", "gasCreateEip3860"))
  BY MeteredAtPriced DEF Charging
<1>2. Entered("CREATE2", Metered(Entry(set, "CREATE2"), "gasCreate2Eip3860"))
  <2>1. Entered("CREATE2", Entry(set, "CREATE2"))
    BY EntryEntered
  <2>2. LET op == Entry(set, "CREATE2")
        IN  (op.execute \in Ending \/ op.constantGas # "Free") /\ op.execute \notin CallFunctions
    BY <2>1 DEF Entered, Named, CallOf
  <2>3. "gasCreate2Eip3860" \in Charging
    BY DEF Charging
  <2> QED BY <2>1, <2>2, <2>3, DynamicEntry DEF Metered
<1>3. PricedSet([CREATE2 |-> Metered(Entry(set, "CREATE2"), "gasCreate2Eip3860")])
  BY <1>2 DEF PricedSet
<1> QED BY <1>1, <1>3, WithPriced DEF enable3860, MeteredAt

\* The proposal of the access lists.
LEMMA Enable2929Priced ==
    ASSUME NEW set, PricedSet(set)
    PROVE  PricedSet(enable2929(set))
<1> DEFINE stored == MeteredAt(MeteredAt(set, "SSTORE", "gasSStoreEIP2929"), "SLOAD", "gasSLoadEIP2929")
           freed == Repriced(stored, "SLOAD", "Free")
           ofStorage == MeteredAt(Repriced(freed, "SELFDESTRUCT", "SelfdestructGasEIP150"),
                                  "SELFDESTRUCT", "gasSelfdestructEIP2929")
           warm == [name \in DOMAIN WarmGas |->
                       [Entry(set, name) EXCEPT !.constantGas = "WarmStorageReadCostEIP2929",
                                                !.dynamicGas = WarmGas[name]]]
<1>1. PricedSet(stored)
  <2>1. PricedSet(MeteredAt(set, "SSTORE", "gasSStoreEIP2929"))
    BY MeteredAtPriced DEF Plain, CallOf, Costing
  <2> QED BY <2>1, MeteredAtPriced DEF Plain, CallOf, Costing
<1>2. "SLOAD" \in DOMAIN stored => stored["SLOAD"].dynamicGas = "gasSLoadEIP2929"
  <2> SUFFICES ASSUME "SLOAD" \in DOMAIN stored PROVE stored["SLOAD"].dynamicGas = "gasSLoadEIP2929"
    OBVIOUS
  <2> DEFINE before == MeteredAt(set, "SSTORE", "gasSStoreEIP2929")
  <2>1. "SLOAD" \in DOMAIN set /\ before["SLOAD"] = set["SLOAD"] /\ DOMAIN before = DOMAIN set
    BY DEF MeteredAt
  <2>2. "dynamicGas" \in DOMAIN set["SLOAD"]
    BY <2>1 DEF PricedSet, Entered, Priced, OpFields
  <2>3. stored["SLOAD"] = [before["SLOAD"] EXCEPT !.dynamicGas = "gasSLoadEIP2929"]
    BY <2>1 DEF MeteredAt
  <2> QED BY <2>1, <2>2, <2>3
<1> HIDE DEF stored
<1>3. PricedSet(freed)
  <2> SUFFICES ASSUME NEW name \in DOMAIN stored PROVE Entered(name, freed[name])
    BY DEF PricedSet, Repriced
  <2>1. Entered(name, stored[name])
    BY <1>1 DEF PricedSet
  <2>2. CASE name # "SLOAD"
    BY <2>1, <2>2 DEF Repriced
  <2>3. CASE name = "SLOAD"
    <3> DEFINE op == stored["SLOAD"]
               made == [op EXCEPT !.constantGas = "Free"]
    <3>1. freed[name] = made
      BY <2>3 DEF Repriced
    <3>2. op.dynamicGas = "gasSLoadEIP2929" /\ Entered("SLOAD", op)
      BY <1>2, <2>1, <2>3
    <3> HIDE DEF op
    <3>3. /\ OpFields \subseteq DOMAIN made /\ made.n = op.n /\ made.execute = op.execute
          /\ made.constantGas = "Free" /\ made.dynamicGas = op.dynamicGas /\ made.memorySize = op.memorySize
      BY <3>2 DEF Entered, Priced, OpFields
    <3> HIDE DEF made
    <3>4. op.execute \notin CallFunctions /\ op.memorySize = "none"
      BY <3>2 DEF Entered, Named, CallOf, Plain
    <3>5. Priced(made)
      BY <3>2, <3>3, <3>4 DEF Entered, Priced, Costing
    <3>6. Named("SLOAD", made)
      BY <3>2, <3>3 DEF Entered, Named
    <3> QED BY <2>3, <3>1, <3>5, <3>6 DEF Entered
  <2> QED BY <2>2, <2>3
<1>4. PricedSet(ofStorage)
  <2> HIDE DEF freed
  <2>1. PricedSet(Repriced(freed, "SELFDESTRUCT", "SelfdestructGasEIP150"))
    BY <1>3, RepricedPriced DEF Prices
  <2> QED BY <2>1, MeteredAtPriced DEF Plain, CallOf
<1>5. PricedSet(warm)
  <2> SUFFICES ASSUME NEW name \in DOMAIN WarmGas PROVE Entered(name, warm[name])
    BY DEF PricedSet
  <2> DEFINE op == Entry(set, name)
             dear == [op EXCEPT !.constantGas = "WarmStorageReadCostEIP2929"]
  <2>1. Entered(name, op)
    BY EntryEntered
  <2> HIDE DEF op
  <2>2. Entered(name, dear)
    BY <2>1, ConstantEntry DEF Prices
  <2>3. /\ dear.constantGas = "WarmStorageReadCostEIP2929" /\ dear.execute = op.execute
        /\ dear.memorySize = op.memorySize
    BY <2>1 DEF Entered, Priced, OpFields
  <2>4. warm[name] = [dear EXCEPT !.dynamicGas = WarmGas[name]]
    <3>1. warm[name] = [op EXCEPT !.constantGas = "WarmStorageReadCostEIP2929", !.dynamicGas = WarmGas[name]]
      BY DEF op
    <3> QED BY <3>1
  <2> HIDE DEF dear, warm
  <2>5. dear.memorySize # "none" => WarmGas[name] \in Charging
    BY <2>2 DEF WarmGas, Charging, Entered, Named, Plain
  <2>6. dear.execute \in CallFunctions => WarmGas[name] \in CallGas[dear.execute]
    BY <2>2 DEF WarmGas, CallGas, Entered, Named, CallOf, CallFunctions
  <2>7. dear.constantGas # "Free"
    BY <2>3
  <2> QED BY <2>2, <2>4, <2>5, <2>6, <2>7, DynamicEntry
<1>6. enable2929(set) = With(ofStorage, warm)
  BY DEF enable2929, stored, MeteredAt, Repriced
<1> HIDE DEF ofStorage, warm
<1> QED BY <1>4, <1>5, <1>6, WithPriced

LEMMA EarlyForksPriced ==
    /\ PricedSet(newHomesteadInstructionSet) /\ PricedSet(newTangerineWhistleInstructionSet)
    /\ PricedSet(newSpuriousDragonInstructionSet)
<1>1. PricedSet(newHomesteadInstructionSet)
  <2> DEFINE op == InMemory(Op("opDelegateCall", "CallGasFrontier", 6, 1), "gasDelegateCall",
                            "memoryDelegateCall")
  <2>1. Entered("DELEGATECALL", op)
    BY EntriesSuit, MemoryEntry
  <2> HIDE DEF op
  <2>2. PricedSet([DELEGATECALL |-> op])
    BY <2>1 DEF PricedSet
  <2> QED BY <2>2, FrontierPriced, WithPriced DEF newHomesteadInstructionSet, op
<1>2. PricedSet(newTangerineWhistleInstructionSet)
  <2> SUFFICES ASSUME NEW name \in DOMAIN newHomesteadInstructionSet
               PROVE  Entered(name, newTangerineWhistleInstructionSet[name])
    BY DEF PricedSet, newTangerineWhistleInstructionSet
  <2>1. Entered(name, newHomesteadInstructionSet[name])
    BY <1>1 DEF PricedSet
  <2>2. name \in DOMAIN EIP150Gas => EIP150Gas[name] \in Prices
    BY DEF EIP150Gas, Prices
  <2> QED BY <2>1, <2>2, ConstantEntry DEF newTangerineWhistleInstructionSet
<1>3. newSpuriousDragonInstructionSet = MeteredAt(newTangerineWhistleInstructionSet, "EXP", "gasExpEIP158")
  BY DEF newSpuriousDragonInstructionSet, MeteredAt
<1>4. PricedSet(newSpuriousDragonInstructionSet)
  BY <1>2, <1>3, MeteredAtPriced DEF Plain, CallOf, Costing
<1> QED BY <1>1, <1>2, <1>4

LEMMA MiddleForksPriced ==
    PricedSet(newByzantiumInstructionSet) /\ PricedSet(newConstantinopleInstructionSet)
<1>1. PricedSet(newByzantiumInstructionSet)
  <2> DEFINE static == InMemory(Op("opStaticCall", "CallGasEIP150", 6, 1), "gasStaticCall", "memoryStaticCall")
             size == Op("opReturnDataSize", "GasQuickStep", 0, 1)
             copy == InMemory(Op("opReturnDataCopy", "GasFastestStep", 3, 0), "gasReturnDataCopy",
                              "memoryReturnDataCopy")
             revert == InMemory(Op("opRevert", "Free", 2, 0), "gasRevert", "memoryRevert")
  <2>1. Entered("STATICCALL", static)
    BY EntriesSuit, MemoryEntry
  <2>2. Entered("RETURNDATASIZE", size)
    BY PlainEntry DEF Prices, CallFunctions, CallOf
  <2>3. Entered("RETURNDATACOPY", copy)
    BY EntriesSuit, MemoryEntry
  <2>4. Entered("REVERT", revert)
    BY EntriesSuit, MemoryEntry
  <2>5. newByzantiumInstructionSet =
          With(newSpuriousDragonInstructionSet,
               [STATICCALL |-> static, RETURNDATASIZE |-> size, RETURNDATACOPY |-> copy, REVERT |-> revert])
    BY DEF newByzantiumInstructionSet
  <2> HIDE DEF static, size, copy, revert
  <2>6. PricedSet([STATICCALL |-> static, RETURNDATASIZE |-> size, RETURNDATACOPY |-> copy, REVERT |-> revert])
    BY <2>1, <2>2, <2>3, <2>4 DEF PricedSet
  <2> QED BY <2>5, <2>6, EarlyForksPriced, WithPriced
<1>2. PricedSet(newConstantinopleInstructionSet)
  <2> DEFINE shl == Op("opSHL", "GasFastestStep", 2, 1)
             shr == Op("opSHR", "GasFastestStep", 2, 1)
             sar == Op("opSAR", "GasFastestStep", 2, 1)
             hash == Op("opExtCodeHash", "ExtcodeHashGasConstantinople", 1, 1)
             create2 == InMemory(Op("opCreate2", "Create2Gas", 4, 1), "gasCreate2", "memoryCreate2")
  <2>1. Entered("SHL", shl) /\ Entered("SHR", shr) /\ Entered("SAR", sar) /\ Entered("EXTCODEHASH", hash)
    BY PlainEntry DEF Prices, CallFunctions, CallOf
  <2>2. Entered("CREATE2", create2)
    BY EntriesSuit, MemoryEntry
  <2>3. newConstantinopleInstructionSet =
          With(newByzantiumInstructionSet,
               [SHL |-> shl, SHR |-> shr, SAR |-> sar, EXTCODEHASH |-> hash, CREATE2 |-> create2])
    BY DEF newConstantinopleInstructionSet
  <2> HIDE DEF shl, shr, sar, hash, create2
  <2>4. PricedSet([SHL |-> shl, SHR |-> shr, SAR |-> sar, EXTCODEHASH |-> hash, CREATE2 |-> create2])
    BY <2>1, <2>2 DEF PricedSet
  <2> QED BY <1>1, <2>3, <2>4, WithPriced
<1> QED BY <1>1, <1>2

LEMMA LateForksPriced ==
    /\ PricedSet(newIstanbulInstructionSet) /\ PricedSet(newBerlinInstructionSet)
    /\ PricedSet(newLondonInstructionSet) /\ PricedSet(newMergeInstructionSet)
    /\ PricedSet(newShanghaiInstructionSet) /\ PricedSet(newCancunInstructionSet)
<1>1. PricedSet(newIstanbulInstructionSet)
  BY MiddleForksPriced, AdditionsPriced, Enable1884Priced, Enable2200Priced DEF newIstanbulInstructionSet
<1>2. PricedSet(newBerlinInstructionSet)
  BY <1>1, Enable2929Priced DEF newBerlinInstructionSet
<1>3. PricedSet(newLondonInstructionSet)
  BY <1>2, Enable3529Priced, AdditionsPriced DEF newLondonInstructionSet
<1>4. PricedSet(newMergeInstructionSet)
  <2>1. PricedSet([PREVRANDAO |-> Op("opRandom", "GasQuickStep", 0, 1)])
    BY PlainEntry DEF PricedSet, CallOf, CallFunctions, Prices
  <2> QED BY <1>3, <2>1, WithPriced DEF newMergeInstructionSet
<1>5. PricedSet(newShanghaiInstructionSet)
  BY <1>4, AdditionsPriced, Enable3860Priced DEF newShanghaiInstructionSet
<1>6. PricedSet(newCancunInstructionSet)
  BY <1>5, AdditionsPriced DEF newCancunInstructionSet
<1> QED BY <1>1, <1>2, <1>3, <1>4, <1>5, <1>6

LEMMA ForksPriced == \A fork \in DOMAIN SetOf : PricedSet(SetOf[fork])
  BY FrontierPriced, EarlyForksPriced, MiddleForksPriced, LateForksPriced DEF SetOf

LEMMA EnabledPriced ==
    ASSUME NEW set, PricedSet(set), NEW eip
    PROVE  PricedSet(EnableEIP(eip, set))
  BY AdditionsPriced, Enable1884Priced, Enable2200Priced, Enable3529Priced, Enable3860Priced,
     Enable2929Priced DEF EnableEIP

\* Whatever a program holds at a position, the interpreter finds a priced entry.
LEMMA ByBytePriced ==
    ASSUME NEW set, PricedSet(set), NEW b \in Bytes
    PROVE  Priced(ByByte(set)[b])
<1>1. CASE \E name \in DOMAIN set : OpCode[name] = b
  <2> DEFINE at == CHOOSE name \in DOMAIN set : OpCode[name] = b
  <2>1. at \in DOMAIN set
    BY <1>1
  <2>2. ByByte(set)[b] = set[at]
    BY <1>1 DEF ByByte
  <2> HIDE DEF at
  <2> QED BY <2>1, <2>2 DEF PricedSet, Entered
<1>2. CASE ~\E name \in DOMAIN set : OpCode[name] = b
  BY <1>2, UndefinedEntry DEF ByByte, Entered
<1> QED BY <1>1, <1>2

LEMMA TablesPriced ==
    ASSUME NEW s \in Sessions, NEW b \in Bytes
    PROVE  Priced(Tables[s.config][b])
<1>1. s.config \in Configs
  BY DEF Configs
<1>2. PricedSet(EnableEIP(s.config.eip, SetOf[s.config.fork]))
  BY SessionsAssumption, ForksPriced, EnabledPriced
<1>3. Tables[s.config] = ByByte(EnableEIP(s.config.eip, SetOf[s.config.fork]))
  BY <1>1 DEF Tables
<1> QED BY <1>2, <1>3, ByBytePriced

----------------------------------------------------------------------------
(* Every opcode is a byte                                                  *)

InBytes(codes) == \A name \in DOMAIN codes : codes[name] \in Bytes

LEMMA NumberedBytes ==
    ASSUME NEW first \in Nat, NEW names, NEW last \in Nat, first + last <= 256,
           DOMAIN names = 1..last, NEW codes, codes = Numbered(first, names)
    PROVE  InBytes(codes)
<1> SUFFICES ASSUME NEW name \in DOMAIN Numbered(first, names)
             PROVE  Numbered(first, names)[name] \in Bytes
  BY DEF InBytes
<1> DEFINE at == CHOOSE i \in DOMAIN names : names[i] = name
<1>1. \E i \in DOMAIN names : names[i] = name
  BY DEF Numbered
<1>2. at \in 1..last
  BY <1>1
<1>3. Numbered(first, names)[name] = first + at - 1
  BY DEF Numbered
<1> HIDE DEF at
<1> QED BY <1>2, <1>3 DEF Bytes

LEMMA JoinedBytes ==
    ASSUME NEW F, \A f \in F : \A name \in DOMAIN f : f[name] \in Bytes
    PROVE  \A name \in DOMAIN Joined(F) : Joined(F)[name] \in Bytes
<1> SUFFICES ASSUME NEW name \in DOMAIN Joined(F)
             PROVE  Joined(F)[name] \in Bytes
  OBVIOUS
<1> DEFINE g == CHOOSE f \in F : name \in DOMAIN f
<1>1. name \in UNION {DOMAIN f : f \in F}
  BY DEF Joined
<1>2. g \in F /\ name \in DOMAIN g
  BY <1>1
<1>3. Joined(F)[name] = g[name]
  BY <1>1 DEF Joined
<1> HIDE DEF g
<1> QED BY <1>2, <1>3

LEMMA OpCodesInBytes == InBytes(OpCode)
<1>1. InBytes(ArithmeticCodes)
  <2> DEFINE names == <<"STOP", "ADD", "MUL", "SUB", "DIV", "SDIV", "MOD", "SMOD",
                         "ADDMOD", "MULMOD", "EXP", "SIGNEXTEND">>
  <2>1. DOMAIN names = 1..12
    OBVIOUS
  <2>2. ArithmeticCodes = Numbered(0, names)
    BY DEF ArithmeticCodes
  <2> HIDE DEF names
  <2>3. 0 \in Nat /\ 12 \in Nat /\ 0 + 12 <= 256
    OBVIOUS
  <2> QED BY <2>1, <2>2, <2>3, NumberedBytes
<1>2. InBytes(ComparisonCodes)
  <2> DEFINE names == <<"LT", "GT", "SLT", "SGT", "EQ", "ISZERO", "AND", "OR", "XOR",
                         "NOT", "BYTE", "SHL", "SHR", "SAR">>
  <2>1. DOMAIN names = 1..14
    OBVIOUS
  <2>2. ComparisonCodes = Numbered(16, names)
    BY DEF ComparisonCodes
  <2> HIDE DEF names
  <2>3. 16 \in Nat /\ 14 \in Nat /\ 16 + 14 <= 256
    OBVIOUS
  <2> QED BY <2>1, <2>2, <2>3, NumberedBytes
<1>3. InBytes(CryptoCodes)
  <2> DEFINE names == <<"KECCAK256">>
  <2>1. DOMAIN names = 1..1
    OBVIOUS
  <2>2. CryptoCodes = Numbered(32, names)
    BY DEF CryptoCodes
  <2> HIDE DEF names
  <2>3. 32 \in Nat /\ 1 \in Nat /\ 32 + 1 <= 256
    OBVIOUS
  <2> QED BY <2>1, <2>2, <2>3, NumberedBytes
<1>4. InBytes(ClosureStateCodes)
  <2> DEFINE names == <<"ADDRESS", "BALANCE", "ORIGIN", "CALLER", "CALLVALUE",
                         "CALLDATALOAD", "CALLDATASIZE", "CALLDATACOPY", "CODESIZE",
                         "CODECOPY", "GASPRICE", "EXTCODESIZE", "EXTCODECOPY",
                         "RETURNDATASIZE", "RETURNDATACOPY", "EXTCODEHASH">>
  <2>1. DOMAIN names = 1..16
    OBVIOUS
  <2>2. ClosureStateCodes = Numbered(48, names)
    BY DEF ClosureStateCodes
  <2> HIDE DEF names
  <2>3. 48 \in Nat /\ 16 \in Nat /\ 48 + 16 <= 256
    OBVIOUS
  <2> QED BY <2>1, <2>2, <2>3, NumberedBytes
<1>5. InBytes(BlockCodes)
  <2> DEFINE names == <<"BLOCKHASH", "COINBASE", "TIMESTAMP", "NUMBER", "PREVRANDAO",
                         "GASLIMIT", "CHAINID", "SELFBALANCE", "BASEFEE", "BLOBHASH",
                         "BLOBBASEFEE">>
  <2>1. DOMAIN names = 1..11
    OBVIOUS
  <2>2. BlockCodes = Numbered(64, names)
    BY DEF BlockCodes
  <2> HIDE DEF names
  <2>3. 64 \in Nat /\ 11 \in Nat /\ 64 + 11 <= 256
    OBVIOUS
  <2> QED BY <2>1, <2>2, <2>3, NumberedBytes
<1>6. InBytes(StorageCodes)
  <2> DEFINE names == <<"POP", "MLOAD", "MSTORE", "MSTORE8", "SLOAD", "SSTORE", "JUMP",
                         "JUMPI", "PC", "MSIZE", "GAS", "JUMPDEST", "TLOAD", "TSTORE",
                         "MCOPY", "PUSH0">>
  <2>1. DOMAIN names = 1..16
    OBVIOUS
  <2>2. StorageCodes = Numbered(80, names)
    BY DEF StorageCodes
  <2> HIDE DEF names
  <2>3. 80 \in Nat /\ 16 \in Nat /\ 80 + 16 <= 256
    OBVIOUS
  <2> QED BY <2>1, <2>2, <2>3, NumberedBytes
<1>7. InBytes(PushCodes)
  <2> DEFINE names == <<"PUSH1", "PUSH2", "PUSH3", "PUSH4", "PUSH5", "PUSH6", "PUSH7", "PUSH8",
                         "PUSH9", "PUSH10", "PUSH11", "PUSH12", "PUSH13", "PUSH14", "PUSH15",
                         "PUSH16", "PUSH17", "PUSH18", "PUSH19", "PUSH20", "PUSH21", "PUSH22",
                         "PUSH23", "PUSH24", "PUSH25", "PUSH26", "PUSH27", "PUSH28", "PUSH29",
                         "PUSH30", "PUSH31", "PUSH32">>
  <2>1. DOMAIN names = 1..32
    OBVIOUS
  <2>2. PushCodes = Numbered(96, names)
    BY DEF PushCodes
  <2> HIDE DEF names
  <2>3. 96 \in Nat /\ 32 \in Nat /\ 96 + 32 <= 256
    OBVIOUS
  <2> QED BY <2>1, <2>2, <2>3, NumberedBytes
<1>8. InBytes(DupCodes)
  <2> DEFINE names == <<"DUP1", "DUP2", "DUP3", "DUP4", "DUP5", "DUP6", "DUP7", "DUP8", "DUP9",
                         "DUP10", "DUP11", "DUP12", "DUP13", "DUP14", "DUP15", "DUP16">>
  <2>1. DOMAIN names = 1..16
    OBVIOUS
  <2>2. DupCodes = Numbered(128, names)
    BY DEF DupCodes
  <2> HIDE DEF names
  <2>3. 128 \in Nat /\ 16 \in Nat /\ 128 + 16 <= 256
    OBVIOUS
  <2> QED BY <2>1, <2>2, <2>3, NumberedBytes
<1>9. InBytes(SwapCodes)
  <2> DEFINE names == <<"SWAP1", "SWAP2", "SWAP3", "SWAP4", "SWAP5", "SWAP6", "SWAP7", "SWAP8",
                         "SWAP9", "SWAP10", "SWAP11", "SWAP12", "SWAP13", "SWAP14", "SWAP15",
                         "SWAP16">>
  <2>1. DOMAIN names = 1..16
    OBVIOUS
  <2>2. SwapCodes = Numbered(144, names)
    BY DEF SwapCodes
  <2> HIDE DEF names
  <2>3. 144 \in Nat /\ 16 \in Nat /\ 144 + 16 <= 256
    OBVIOUS
  <2> QED BY <2>1, <2>2, <2>3, NumberedBytes
<1>10. InBytes(LogCodes)
  <2> DEFINE names == <<"LOG0", "LOG1", "LOG2", "LOG3", "LOG4">>
  <2>1. DOMAIN names = 1..5
    OBVIOUS
  <2>2. LogCodes = Numbered(160, names)
    BY DEF LogCodes
  <2> HIDE DEF names
  <2>3. 160 \in Nat /\ 5 \in Nat /\ 160 + 5 <= 256
    OBVIOUS
  <2> QED BY <2>1, <2>2, <2>3, NumberedBytes
<1>11. InBytes(ClosureCodes)
  <2> DEFINE first == Numbered(240, <<"CREATE", "CALL", "CALLCODE", "RETURN", "DELEGATECALL", "CREATE2">>)
             second == Numbered(250, <<"STATICCALL">>)
             third == Numbered(253, <<"REVERT", "INVALID", "SELFDESTRUCT">>)
  <2>1. InBytes(first)
    <3> DEFINE names == <<"CREATE", "CALL", "CALLCODE", "RETURN", "DELEGATECALL", "CREATE2">>
    <3>1. DOMAIN names = 1..6
      OBVIOUS
    <3>2. first = Numbered(240, names)
      OBVIOUS
    <3> HIDE DEF names, first
    <3>3. 240 \in Nat /\ 6 \in Nat /\ 240 + 6 <= 256
      OBVIOUS
    <3> QED BY <3>1, <3>2, <3>3, NumberedBytes
  <2>2. InBytes(second)
    <3> DEFINE names == <<"STATICCALL">>
    <3>1. DOMAIN names = 1..1
      OBVIOUS
    <3>2. second = Numbered(250, names)
      OBVIOUS
    <3> HIDE DEF names, second
    <3>3. 250 \in Nat /\ 1 \in Nat /\ 250 + 1 <= 256
      OBVIOUS
    <3> QED BY <3>1, <3>2, <3>3, NumberedBytes
  <2>3. InBytes(third)
    <3> DEFINE names == <<"REVERT", "INVALID", "SELFDESTRUCT">>
    <3>1. DOMAIN names = 1..3
      OBVIOUS
    <3>2. third = Numbered(253, names)
      OBVIOUS
    <3> HIDE DEF names, third
    <3>3. 253 \in Nat /\ 3 \in Nat /\ 253 + 3 <= 256
      OBVIOUS
    <3> QED BY <3>1, <3>2, <3>3, NumberedBytes
  <2>4. ClosureCodes = Joined({first, second, third})
    BY DEF ClosureCodes
  <2> HIDE DEF first, second, third
  <2> QED BY <2>1, <2>2, <2>3, <2>4, JoinedBytes DEF InBytes
<1> DEFINE F == {ArithmeticCodes, ComparisonCodes, CryptoCodes, ClosureStateCodes, BlockCodes, StorageCodes,
                 PushCodes, DupCodes, SwapCodes, LogCodes, ClosureCodes}
<1>12. OpCode = Joined(F)
  BY DEF OpCode
<1>13. \A f \in F : InBytes(f)
  BY <1>1, <1>2, <1>3, <1>4, <1>5, <1>6, <1>7, <1>8, <1>9, <1>10, <1>11
<1> HIDE DEF F
<1> QED BY <1>12, <1>13, JoinedBytes DEF InBytes

LEMMA StopIsByte == OpCode["STOP"] \in Bytes
<1>1. "STOP" \in DOMAIN ArithmeticCodes
  BY DEF ArithmeticCodes, Numbered
<1>2. "STOP" \in DOMAIN OpCode
  BY <1>1 DEF OpCode, Joined
<1> QED BY <1>2, OpCodesInBytes DEF InBytes

\* The byte the interpreter reads, in the code or behind its end.
LEMMA GetOpInBytes ==
    ASSUME NEW code \in Seq(Bytes), NEW pc \in Nat
    PROVE  GetOp(code, pc) \in Bytes
  BY StopIsByte DEF GetOp, At

----------------------------------------------------------------------------
(* Arithmetic                                                              *)

LEMMA TopNat == Top \in Nat
<1>1. IsFiniteSet(1..Width) /\ Cardinality(1..Width) = Width
  BY FS_Interval, WidthAssumption
<1>2. 2^Width = Cardinality(SUBSET (1..Width)) /\ IsFiniteSet(SUBSET (1..Width))
  BY <1>1, FS_SUBSET
<1>3. Cardinality(SUBSET (1..Width)) \in Nat
  BY <1>2, FS_CardinalityType
<1>4. SUBSET (1..Width) # {}
  OBVIOUS
<1>5. Cardinality(SUBSET (1..Width)) # 0
  BY <1>2, <1>4, FS_EmptySet
<1> QED BY <1>2, <1>3, <1>5 DEF Top

LEMMA Division ==
    ASSUME NEW x \in Int, NEW d \in Nat \ {0}
    PROVE  /\ x \div d \in Int /\ x % d \in 0..(d - 1) /\ x = d * (x \div d) + (x % d)
           /\ x >= 0 => x \div d >= 0
  OBVIOUS

\* The only quotient there is.
LEMMA Quotient ==
    ASSUME NEW x \in Int, NEW d \in Nat \ {0}, NEW k \in Int, NEW r \in 0..(d - 1), x = d * k + r
    PROVE  x \div d = k /\ x % d = r
<1> DEFINE q == x \div d
           m == (x % d)
<1>1. q \in Int /\ m \in 0..(d - 1) /\ x = d * q + m
  BY Division
<1> HIDE DEF q, m
<1>2. d * (k - q) = m - r
  BY <1>1
<1>3. k - q = 0
  <2>1. CASE k - q >= 1
    <3>1. d * (k - q) >= d
      BY <1>1, <2>1
    <3> QED BY <1>1, <1>2, <3>1
  <2>2. CASE k - q <= -1
    <3>1. d * (k - q) <= -d
      BY <1>1, <2>2
    <3> QED BY <1>1, <1>2, <3>1
  <2> QED BY <1>1, <2>1, <2>2
<1> QED BY <1>1, <1>2, <1>3 DEF q, m

LEMMA WrapRange ==
    ASSUME NEW x \in Int
    PROVE  Wrap(x) \in 0..Top /\ (x \in 0..Top => Wrap(x) = x)
<1>1. Top + 1 \in Nat \ {0}
  BY TopNat
<1>2. x % (Top + 1) \in 0..Top
  BY <1>1, TopNat, Division
<1>3. x \in 0..Top => x % (Top + 1) = x
  BY <1>1, TopNat, Quotient
<1> QED BY <1>2, <1>3 DEF Wrap

LEMMA Products == \A a, b \in Nat : a * b \in Nat
  OBVIOUS

LEMMA DivMonotone ==
    ASSUME NEW x \in Nat, NEW y \in Nat, x <= y, NEW d \in Nat \ {0}
    PROVE  x \div d \in Nat /\ y \div d \in Nat /\ x \div d <= y \div d
<1> DEFINE a == x \div d
           b == y \div d
           m == (x % d)
           n == y % d
<1>1. /\ a \in Nat /\ b \in Nat /\ m \in 0..(d - 1) /\ n \in 0..(d - 1)
      /\ x = d * a + m /\ y = d * b + n
  BY Division
<1> HIDE DEF a, b, m, n
<1>2. ASSUME a > b PROVE FALSE
  <2>1. d * (a - b) >= d
    BY <1>1, <1>2
  <2>2. x - y = d * (a - b) + m - n
    BY <1>1
  <2> QED BY <1>1, <2>1, <2>2
<1>3. a <= b
  BY <1>1, <1>2
<1> QED BY <1>1, <1>3 DEF a, b

----------------------------------------------------------------------------
(* Words and what they cost                                                *)

LEMMA PriceRange == \A name \in Prices : Price[name] \in 1..Top
  BY PriceAssumption

LEMMA WordCount ==
    ASSUME NEW k \in Nat
    PROVE  /\ k * WordBytes \in Nat /\ (k * WordBytes) \div WordBytes = k
           /\ k * WordBytes <= MaxMemory => k <= MaxWords /\ toWordSize(k * WordBytes) = k
<1>1. WordBytes \in Nat \ {0} /\ MaxMemory \in Nat /\ MaxMemory + WordBytes <= Top + 1
  BY WordBytesAssumption, WidthAssumption
<1>2. k * WordBytes \in Nat
  BY <1>1, Products
<1>3. (k * WordBytes) \div WordBytes = k
  <2>1. k * WordBytes = WordBytes * k + 0 /\ 0 \in 0..(WordBytes - 1)
    BY <1>1
  <2> QED BY <1>1, <1>2, <2>1, Quotient
<1>4. ASSUME k * WordBytes <= MaxMemory
      PROVE  k <= MaxWords /\ toWordSize(k * WordBytes) = k
  <2>1. k <= MaxWords
    BY <1>1, <1>2, <1>3, <1>4, DivMonotone DEF MaxWords
  <2>2. ~(k * WordBytes > Top - (WordBytes - 1))
    BY <1>1, <1>2, <1>4, TopNat
  <2>3. (k * WordBytes + (WordBytes - 1)) \div WordBytes = k
    <3> DEFINE x == k * WordBytes + (WordBytes - 1)
               r == WordBytes - 1
    <3>1. x \in Int /\ r \in 0..(WordBytes - 1) /\ x = WordBytes * k + r
      BY <1>1, <1>2
    <3> HIDE DEF x, r
    <3>2. x \div WordBytes = k
      BY <1>1, <3>1, Quotient
    <3> QED BY <3>2 DEF x
  <2> QED BY <2>1, <2>2, <2>3 DEF toWordSize
<1> QED BY <1>2, <1>3, <1>4

LEMMA WordSizeNat ==
    ASSUME NEW size \in Nat
    PROVE  toWordSize(size) \in Nat
<1>1. WordBytes \in Nat \ {0}
  BY WordBytesAssumption
<1>2. Top \div WordBytes \in Nat
  BY <1>1, TopNat, Division
<1>3. size + (WordBytes - 1) \in Nat
  BY <1>1
<1>4. (size + (WordBytes - 1)) \div WordBytes \in Nat
  BY <1>1, <1>3, Division
<1> QED BY <1>2, <1>4 DEF toWordSize

\* The fee of the largest memory, and room for it.
Room == MaxWords * Price["MemoryGas"] + (MaxWords * MaxWords) \div Price["QuadCoeffDiv"]

LEMMA RoomNat ==
    /\ MaxWords \in Nat /\ Room \in Nat /\ Room <= Top
    /\ Room + Price["CallNewAccountGas"] + Price["CallValueTransferGas"]
         + Price["ColdAccountAccessCostEIP2929"] <= Top \div 64
<1> DEFINE p == Price["MemoryGas"]
           q == Price["QuadCoeffDiv"]
           a == Price["CallNewAccountGas"]
           b == Price["CallValueTransferGas"]
           d == Price["ColdAccountAccessCostEIP2929"]
<1>1. p \in 1..Top /\ q \in 1..Top /\ a \in 1..Top /\ b \in 1..Top /\ d \in 1..Top
  BY PriceRange DEF Prices
<1>2. MaxWords \in Nat
  <2>1. MaxMemory \in Nat /\ WordBytes \in Nat \ {0}
    BY WidthAssumption, WordBytesAssumption
  <2>2. MaxMemory \div WordBytes \in Nat
    BY <2>1, Division
  <2> QED BY <2>2 DEF MaxWords
<1>3. Room + a + b + d <= Top \div 64
  BY PriceAssumption DEF Room
<1>4. Room \in Nat
  <2> HIDE DEF p, q
  <2>1. MaxWords * p \in Nat /\ MaxWords * MaxWords \in Nat
    BY <1>1, <1>2, TopNat, Products
  <2>2. (MaxWords * MaxWords) \div q \in Nat
    BY <1>1, <2>1, TopNat, Division
  <2> QED BY <2>1, <2>2 DEF Room, p, q
<1>5. Room <= Top
  <2> HIDE DEF a, b, d
  <2>1. Room <= Top \div 64
    BY <1>1, <1>3, <1>4, TopNat
  <2> QED BY <1>4, <2>1, TopNat
<1> QED BY <1>2, <1>3, <1>4, <1>5

\* Up to the largest memory a fee does not wrap around, and more words cost more.
LEMMA Fees ==
    ASSUME NEW k \in Nat, k <= MaxWords
    PROVE  /\ TotalFee(k) = k * Price["MemoryGas"] + (k * k) \div Price["QuadCoeffDiv"]
           /\ TotalFee(k) \in 0..Room
           /\ \A j \in 0..k : TotalFee(j) <= TotalFee(k) /\ TotalFee(j) \in Nat
<1> DEFINE p == Price["MemoryGas"]
           q == Price["QuadCoeffDiv"]
           Plain1(j) == j * p + (j * j) \div q
<1>1. p \in 1..Top /\ q \in 1..Top
  BY PriceRange DEF Prices
<1>2. ASSUME NEW i \in Nat, NEW j \in Nat, i <= j
      PROVE  Plain1(i) \in Nat /\ Plain1(j) \in Nat /\ Plain1(i) <= Plain1(j)
  <2> HIDE DEF p, q
  <2>1. i * p \in Nat /\ j * p \in Nat /\ i * i \in Nat /\ j * j \in Nat
    BY <1>1, TopNat, Products
  <2>2. i * p <= j * p /\ i * i <= j * j
    BY <1>1, <1>2, TopNat
  <2>3. (i * i) \div q \in Nat /\ (j * j) \div q \in Nat /\ (i * i) \div q <= (j * j) \div q
    BY <1>1, <2>1, <2>2, TopNat, DivMonotone
  <2> QED BY <2>1, <2>2, <2>3
<1>3. Room = Plain1(MaxWords) /\ MaxWords \in Nat /\ Room <= Top
  BY RoomNat DEF Room
<1>4. ASSUME NEW j \in Nat, j <= MaxWords
      PROVE  TotalFee(j) = Plain1(j)
  <2>1. Plain1(j) \in Nat /\ Plain1(j) <= Top
    BY <1>2, <1>3, <1>4, TopNat
  <2> HIDE DEF p, q
  <2>2. j * p \in Nat /\ j * j \in Nat
    BY <1>1, TopNat, Products
  <2>3. (j * j) \div q \in Nat
    BY <1>1, <2>2, TopNat, Division
  <2>4. Wrap(j * p) = j * p
    BY <2>1, <2>2, <2>3, TopNat, WrapRange
  <2>5. Wrap(j * j) = j * j
    <3>1. j * j <= MaxWords * MaxWords
      BY <1>3, <1>4
    <3>2. MaxWords * MaxWords <= Top
      BY WidthAssumption
    <3>3. MaxWords * MaxWords \in Nat
      BY <1>3, Products
    <3> QED BY <2>2, <3>1, <3>2, <3>3, TopNat, WrapRange
  <2>6. Wrap(Plain1(j)) = Plain1(j)
    BY <2>1, TopNat, WrapRange
  <2> QED BY <2>4, <2>5, <2>6 DEF TotalFee, p, q
<1> HIDE DEF Plain1
<1>5. TotalFee(k) = Plain1(k)
  BY <1>4
<1>6. Plain1(k) \in Nat /\ Plain1(k) <= Plain1(MaxWords)
  BY <1>2, <1>3
<1>7. ASSUME NEW j \in 0..k PROVE TotalFee(j) <= TotalFee(k) /\ TotalFee(j) \in Nat
  BY <1>2, <1>3, <1>4, <1>5
<1> QED BY <1>3, <1>5, <1>6, <1>7 DEF Plain1

----------------------------------------------------------------------------
(* The size an instruction asks for                                        *)

IsRegion(r) == r.off \in 0..16 /\ r.len \in -1..16 /\ r.bytes \in Nat

LEMMA Regions ==
    ASSUME NEW name \in MemoryNames
    PROVE  \E a, b : MemoryRegions[name] \subseteq {a, b} /\ IsRegion(a) /\ IsRegion(b)
<1>1. /\ IsRegion(Span(0, 1)) /\ IsRegion(Span(0, 2)) /\ IsRegion(Span(1, 2)) /\ IsRegion(Span(1, 3))
      /\ IsRegion(Span(5, 6)) /\ IsRegion(Span(3, 4)) /\ IsRegion(Span(4, 5)) /\ IsRegion(Span(2, 3))
  BY DEF IsRegion, Span
<1>2. IsRegion(Fixed(0, WordBytes)) /\ IsRegion(Fixed(0, 1))
  BY WordBytesAssumption DEF IsRegion, Fixed
<1>3. CASE name = "none"
  <2>1. MemoryRegions[name] \subseteq {Span(0, 1), Span(0, 1)}
    BY <1>3 DEF MemoryRegions
  <2> QED BY <1>1, <2>1
<1>4. CASE name \in {"memoryMLoad", "memoryMStore", "memoryMStore8"}
  <2>1. MemoryRegions[name] \subseteq {Fixed(0, WordBytes), Fixed(0, 1)}
    BY <1>4 DEF MemoryRegions
  <2> QED BY <1>2, <2>1
<1>5. CASE name \in {"memoryKeccak256", "memoryReturn", "memoryRevert", "memoryLog"}
  <2>1. MemoryRegions[name] \subseteq {Span(0, 1), Span(0, 1)}
    BY <1>5 DEF MemoryRegions
  <2> QED BY <1>1, <2>1
<1>6. CASE name \in {"memoryCallDataCopy", "memoryReturnDataCopy", "memoryCodeCopy", "memoryMcopy",
                     "memoryCreate", "memoryCreate2"}
  <2>1. MemoryRegions[name] \subseteq {Span(0, 2), Span(1, 2)}
    BY <1>6 DEF MemoryRegions
  <2> QED BY <1>1, <2>1
<1>7. CASE name = "memoryExtCodeCopy"
  <2>1. MemoryRegions[name] \subseteq {Span(1, 3), Span(1, 3)}
    BY <1>7 DEF MemoryRegions
  <2> QED BY <1>1, <2>1
<1>8. CASE name = "memoryCall"
  <2>1. MemoryRegions[name] \subseteq {Span(5, 6), Span(3, 4)}
    BY <1>8 DEF MemoryRegions
  <2> QED BY <1>1, <2>1
<1>9. CASE name \in {"memoryDelegateCall", "memoryStaticCall"}
  <2>1. MemoryRegions[name] \subseteq {Span(4, 5), Span(2, 3)}
    BY <1>9 DEF MemoryRegions
  <2> QED BY <1>1, <2>1
<1> QED BY <1>3, <1>4, <1>5, <1>6, <1>7, <1>8, <1>9 DEF MemoryNames

LEMMA ExtentNat ==
    ASSUME NEW r, IsRegion(r), NEW v \in [1..17 -> Nat]
    PROVE  Extent(r, v) \in Nat \cup {Refused}
<1>1. Back(v, r.off) \in Nat
  BY DEF Back, IsRegion
<1>2. (IF r.len = -1 THEN r.bytes ELSE Back(v, r.len)) \in Nat
  BY DEF Back, IsRegion
<1>3. \A off, len \in Nat : calcMemSize64(off, len) \in Nat \cup {Refused}
  BY TopNat DEF calcMemSize64, IsUint64, Uint64, SafeAdd, Refused
<1> QED BY <1>1, <1>2, <1>3 DEF Extent

LEMMA LargestNat ==
    ASSUME NEW a \in Nat, NEW b \in Nat, NEW S, S \subseteq {a, b}
    PROVE  Largest(S \cup {0}) \in Nat
<1>1. \E x \in S \cup {0} : \A y \in S \cup {0} : y <= x
  <2>1. CASE a \in S /\ b \in S
    BY <2>1
  <2>2. CASE a \in S /\ b \notin S
    BY <2>2
  <2>3. CASE a \notin S
    BY <2>3
  <2> QED BY <2>1, <2>2, <2>3
<1> DEFINE T == S \cup {0}
<1>2. T \subseteq Nat
  OBVIOUS
<1> HIDE DEF T
<1>3. Largest(T) \in T
  BY <1>1 DEF Largest, T
<1> QED BY <1>2, <1>3 DEF T

LEMMA SizeInWords ==
    ASSUME NEW op, op.memorySize \in MemoryNames, NEW v \in [1..17 -> Nat]
    PROVE  /\ MemorySize(op, v) # Refused => \E k \in Nat : MemorySize(op, v) = k * WordBytes
           /\ op.memorySize = "none" => MemorySize(op, v) = 0
<1> DEFINE ends == {Extent(r, v) : r \in MemoryRegions[op.memorySize]}
           words == toWordSize(Largest(ends \cup {0}))
<1>1. MemorySize(op, v) = IF Refused \in ends THEN Refused ELSE SafeMul(words, WordBytes)
  BY DEF MemorySize
<1>2. PICK a, b : MemoryRegions[op.memorySize] \subseteq {a, b} /\ IsRegion(a) /\ IsRegion(b)
  BY Regions
<1>3. ends \subseteq {Extent(a, v), Extent(b, v)}
  BY <1>2
<1>4. Extent(a, v) \in Nat \cup {Refused} /\ Extent(b, v) \in Nat \cup {Refused}
  BY <1>2, ExtentNat
<1>5. ASSUME Refused \notin ends PROVE Largest(ends \cup {0}) \in Nat
  <2>1. \E c, d \in Nat : ends \subseteq {c, d}
    <3> HIDE DEF ends
    <3>1. CASE Extent(a, v) \in Nat /\ Extent(b, v) \in Nat
      BY <1>3, <3>1
    <3>2. CASE Extent(a, v) = Refused /\ Extent(b, v) \in Nat
      BY <1>3, <1>5, <3>2
    <3>3. CASE Extent(b, v) = Refused /\ Extent(a, v) \in Nat
      BY <1>3, <1>5, <3>3
    <3>4. CASE Extent(b, v) = Refused /\ Extent(a, v) = Refused
      <4>1. ends \subseteq {0, 0}
        BY <1>3, <1>5, <3>4
      <4> QED BY <4>1
    <3> QED BY <1>4, <3>1, <3>2, <3>3, <3>4
  <2> HIDE DEF ends
  <2> QED BY <2>1, LargestNat
<1>6. op.memorySize = "none" => ends = {}
  BY DEF MemoryRegions
<1> HIDE DEF ends
<1>7. Refused \notin ends => words \in Nat
  BY <1>5, WordSizeNat
<1>8. ASSUME ends = {} PROVE Refused \notin ends /\ words = 0
  <2>1. Largest(ends \cup {0}) = 0
    BY <1>8 DEF Largest
  <2>2. toWordSize(0) = 0
    <3>1. 0 * WordBytes = 0 /\ 0 \in Nat
      BY WordBytesAssumption
    <3>2. 0 <= MaxMemory
      BY WidthAssumption
    <3> QED BY <3>1, <3>2, WordCount
  <2> QED BY <1>8, <2>1, <2>2
<1> HIDE DEF words
<1>9. words \in Nat => SafeMul(words, WordBytes) \in {Refused, words * WordBytes}
  BY DEF SafeMul
<1>10. SafeMul(0, WordBytes) = 0
  BY WordBytesAssumption DEF SafeMul, Refused
<1> QED BY <1>1, <1>6, <1>7, <1>8, <1>9, <1>10

----------------------------------------------------------------------------
(* Quotes                                                                  *)

\* Memory of whole words, and what was paid for it.
PaidFor(mem, fee) == \E k \in Nat : mem = k * WordBytes /\ fee = TotalFee(k) /\ mem <= MaxMemory

\* What a gas function is given.
Asking(c) ==
    /\ ContextFields \subseteq DOMAIN c
    /\ c.gas \in 0..Top /\ c.n \in Nat /\ c.operands \in [1..17 -> Nat]
    /\ \E k \in 0..WordBytes : c.operands[2] < 256^k
    /\ PaidFor(c.memory, c.fee)
    /\ \E k \in Nat : c.size = k * WordBytes

\* What it gives: a cost or an error, and the gas as it was.
Sound(c, q) ==
    /\ QuoteFields \subseteq DOMAIN q
    /\ q.cost \in Nat \cup {Refused}
    /\ q.cost # Refused => q.gas = c.gas

\* The memory is part of the price.
Fed(c, q) == q.cost # Refused => memoryGasCost(c).cost # Refused /\ q.fee = memoryGasCost(c).fee

Larger(c) == IF c.size > c.memory THEN c.size ELSE c.memory

LEMMA QuoteParts ==
    ASSUME NEW c, NEW cost \in Nat \cup {Refused}
    PROVE  /\ Sound(c, Quote(c, cost)) /\ Quote(c, cost).cost = cost
           /\ Quote(c, cost).fee = c.fee /\ Quote(c, cost).gas = c.gas /\ Quote(c, cost).temp = c.temp
  BY DEF Sound, Quote, QuoteFields

LEMMA PlusParts ==
    ASSUME NEW c, NEW q, Sound(c, q), NEW x \in Nat \cup {Refused}
    PROVE  /\ Sound(c, Plus(q, x)) /\ (Fed(c, q) => Fed(c, Plus(q, x)))
           /\ Plus(q, x).fee = q.fee /\ Plus(q, x).gas = q.gas /\ Plus(q, x).temp = q.temp
           /\ Plus(q, x).world = q.world
           /\ Plus(q, x).cost # Refused => q.cost # Refused /\ x # Refused /\ Plus(q, x).cost = q.cost + x
                                           /\ q.cost + x <= Top
           /\ q.cost = Refused => Plus(q, x).cost = Refused
<1> DEFINE made == Plus(q, x)
<1>1. made = [q EXCEPT !.cost = SafeAdd(q.cost, x)]
  BY DEF Plus
<1>2. /\ DOMAIN made = DOMAIN q /\ made.cost = SafeAdd(q.cost, x) /\ made.fee = q.fee
      /\ made.gas = q.gas /\ made.temp = q.temp /\ made.world = q.world
  BY <1>1 DEF Sound, QuoteFields
<1>3. /\ SafeAdd(q.cost, x) \in Nat \cup {Refused}
      /\ SafeAdd(q.cost, x) # Refused => q.cost # Refused /\ x # Refused /\ SafeAdd(q.cost, x) = q.cost + x
                                         /\ q.cost + x <= Top
      /\ q.cost = Refused => SafeAdd(q.cost, x) = Refused
  BY TopNat DEF SafeAdd, Sound, Refused
<1> HIDE DEF made
<1> QED BY <1>2, <1>3 DEF Sound, Fed, made

LEMMA MemoryQuote ==
    ASSUME NEW c, Asking(c)
    PROVE  /\ Sound(c, memoryGasCost(c)) /\ Fed(c, memoryGasCost(c))
           /\ memoryGasCost(c).gas = c.gas /\ memoryGasCost(c).temp = c.temp
           /\ memoryGasCost(c).cost # Refused =>
                memoryGasCost(c).cost <= Room /\ PaidFor(Larger(c), memoryGasCost(c).fee)
           /\ c.size = 0 => memoryGasCost(c).cost = 0 /\ memoryGasCost(c).fee = c.fee
<1> DEFINE m == memoryGasCost(c)
<1>1. PICK k \in Nat : c.memory = k * WordBytes /\ c.fee = TotalFee(k) /\ c.memory <= MaxMemory
  BY DEF Asking, PaidFor
<1>2. PICK j \in Nat : c.size = j * WordBytes
  BY DEF Asking
<1>3. c.memory \in Nat /\ c.size \in Nat /\ k <= MaxWords
  BY <1>1, <1>2, WordCount
<1>5. CASE c.size = 0
  <2>1. m = Quote(c, 0)
    BY <1>5 DEF memoryGasCost
  <2>2. Larger(c) = c.memory
    BY <1>3, <1>5 DEF Larger
  <2> QED BY <1>5, <2>1, <2>2, QuoteParts, RoomNat DEF Asking, Fed
<1>6. CASE c.size # 0 /\ c.size > MaxMemory
  <2>1. m = Quote(c, Refused)
    BY <1>6 DEF memoryGasCost
  <2>2. Refused \in Nat \cup {Refused}
    OBVIOUS
  <2>3. /\ Sound(c, Quote(c, Refused)) /\ Quote(c, Refused).cost = Refused
        /\ Quote(c, Refused).gas = c.gas /\ Quote(c, Refused).temp = c.temp
    BY <2>2, QuoteParts, Zenon
  <2> HIDE DEF m
  <2>4. Sound(c, m) /\ m.cost = Refused /\ m.gas = c.gas /\ m.temp = c.temp
    BY <2>1, <2>3, Zenon
  <2> QED BY <1>6, <2>4 DEF Fed, m
<1>7. CASE c.size # 0 /\ ~(c.size > MaxMemory)
  <2>1. MaxMemory \in Nat
    BY WidthAssumption
  <2>2. j <= MaxWords /\ toWordSize(c.size) = j
    BY <1>2, <1>3, <1>7, <2>1, WordCount
  <2>3. CASE c.size <= c.memory
    <3>1. m = Quote(c, 0)
      BY <1>2, <1>7, <2>2, <2>3 DEF memoryGasCost
    <3>2. Larger(c) = c.memory
      BY <1>3, <2>3 DEF Larger
    <3> QED BY <1>7, <3>1, <3>2, QuoteParts, RoomNat DEF Asking, Fed
  <2>4. CASE ~(c.size <= c.memory)
    <3> DEFINE total == TotalFee(j)
    <3>1. m = [Quote(c, Wrap(total - c.fee)) EXCEPT !.fee = total]
      BY <1>2, <1>7, <2>2, <2>4 DEF memoryGasCost
    <3>2. k <= j
      <4>1. WordBytes \in Nat \ {0}
        BY WordBytesAssumption
      <4>2. (k * WordBytes) \div WordBytes <= (j * WordBytes) \div WordBytes
        BY <1>1, <1>2, <1>3, <2>4, <4>1, DivMonotone
      <4> QED BY <4>2, WordCount
    <3>3. c.fee \in Nat /\ c.fee <= total /\ total \in 0..Room
      BY <1>1, <2>2, <3>2, Fees
    <3> HIDE DEF total
    <3>4. Wrap(total - c.fee) = total - c.fee /\ total - c.fee \in 0..Room
      BY <3>3, RoomNat, TopNat, WrapRange
    <3>5. /\ QuoteFields \subseteq DOMAIN m /\ m.cost = total - c.fee /\ m.fee = total
          /\ m.gas = c.gas /\ m.temp = c.temp
      BY <3>1, <3>4 DEF Quote, QuoteFields
    <3>6. Larger(c) = c.size
      BY <1>3, <2>4 DEF Larger
    <3>7. PaidFor(Larger(c), m.fee)
      BY <1>2, <1>3, <1>7, <2>1, <3>5, <3>6 DEF PaidFor, total
    <3> HIDE DEF m
    <3>8. Sound(c, m)
      BY <3>4, <3>5 DEF Sound
    <3> QED BY <1>7, <3>4, <3>5, <3>7, <3>8 DEF Fed, m
  <2> QED BY <2>3, <2>4, <1>3
<1> QED BY <1>5, <1>6, <1>7

\* A quote that leaves the memory alone, and one that is never free.
Unfed(c, q) == Sound(c, q) /\ q.fee = c.fee
Costly(c, q) == Unfed(c, q) /\ q.cost # 0

LEMMA QuoteUnfed ==
    ASSUME NEW c, NEW cost \in Nat
    PROVE  Unfed(c, Quote(c, cost)) /\ (cost # 0 => Costly(c, Quote(c, cost)))
  BY QuoteParts DEF Unfed, Costly

\* The same quote, of another state or with another fault.
LEMMA ElsewhereParts ==
    ASSUME NEW c, NEW q, NEW made,
           QuoteFields \subseteq DOMAIN made, made.cost = q.cost, made.fee = q.fee, made.gas = q.gas
    PROVE  /\ Unfed(c, q) => Unfed(c, made)
           /\ Costly(c, q) => Costly(c, made)
  BY DEF Unfed, Costly, Sound

LEMMA NetMeteredCosts ==
    ASSUME NEW c, NEW p, {p.noop, p.set, p.reset, p.dirty} \subseteq Nat \ {0}
    PROVE  Costly(c, NetMetered(c, p)) /\ NetMetered(c, p).cost # Refused
<1> DEFINE q == NetMetered(c, p)
           Made(cost, w, what) == [Quote(c, cost) EXCEPT !.world = w, !.fault = what]
           Fine(quote) == Costly(c, quote) /\ quote.cost # Refused
<1>1. \A cost \in Nat \ {0} : Fine(Quote(c, cost))
  BY QuoteUnfed, QuoteParts DEF Refused
<1>2. ASSUME NEW cost \in Nat \ {0}, NEW w, NEW what
      PROVE  Fine(Made(cost, w, what))
  <2> DEFINE made == Made(cost, w, what)
  <2>1. /\ QuoteFields \subseteq DOMAIN made /\ made.cost = Quote(c, cost).cost
        /\ made.fee = Quote(c, cost).fee /\ made.gas = Quote(c, cost).gas
    BY DEF Quote, QuoteFields
  <2> HIDE DEF made
  <2> QED BY <1>1, <2>1, ElsewhereParts DEF made
<1>3. \/ q = Quote(c, p.noop) \/ q = Quote(c, p.set)
      \/ \E w, what : q = Made(p.reset, w, what)
      \/ \E w, what : q = Made(p.dirty, w, what)
  BY DEF NetMetered
<1>4. p.noop \in Nat \ {0} /\ p.set \in Nat \ {0} /\ p.reset \in Nat \ {0} /\ p.dirty \in Nat \ {0}
  OBVIOUS
<1> HIDE DEF q, Fine, Made
<1>5. Fine(Quote(c, p.noop)) /\ Fine(Quote(c, p.set))
  BY <1>1, <1>4
<1>6. \A w, what : Fine(Made(p.reset, w, what)) /\ Fine(Made(p.dirty, w, what))
  BY <1>2, <1>4
<1>7. Fine(q)
  BY <1>3, <1>5, <1>6
<1> QED BY <1>7 DEF q, Fine

LEMMA RefusedUnfed ==
    ASSUME NEW c
    PROVE  /\ Costly(c, Quote(c, Refused)) /\ Quote(c, Refused).cost = Refused
           /\ \A q : /\ QuoteFields \subseteq DOMAIN q /\ q.cost = Refused /\ q.fee = c.fee
                     => Costly(c, q)
<1>1. Refused \in Nat \cup {Refused} /\ Refused # 0
  BY DEF Refused
<1>2. /\ Sound(c, Quote(c, Refused)) /\ Quote(c, Refused).cost = Refused
      /\ Quote(c, Refused).fee = c.fee
  BY <1>1, QuoteParts
<1> QED BY <1>1, <1>2 DEF Unfed, Costly, Sound

LEMMA StorageCosts ==
    ASSUME NEW c
    PROVE  Costly(c, gasSStore(c)) /\ Costly(c, gasSStoreEIP2200(c))
<1>1. Costly(c, gasSStore(c))
  <2>1. Costly(c, NetMetered(c, NetSstore))
    <3>1. {NetSstore.noop, NetSstore.set, NetSstore.reset, NetSstore.dirty} \subseteq Nat \ {0}
      BY PriceRange DEF NetSstore, Prices
    <3> QED BY <3>1, NetMeteredCosts
  <2>2. Costly(c, Quote(c, Price["SstoreSetGas"])) /\ Costly(c, Quote(c, Price["SstoreResetGas"]))
    BY PriceRange, QuoteUnfed DEF Prices
  <2>3. ASSUME NEW w
        PROVE  Costly(c, [Quote(c, Price["SstoreClearGas"]) EXCEPT !.world = w])
    <3> DEFINE q == Quote(c, Price["SstoreClearGas"])
               made == [q EXCEPT !.world = w]
    <3>1. Costly(c, q)
      BY PriceRange, QuoteUnfed DEF Prices
    <3>2. QuoteFields \subseteq DOMAIN made /\ made.cost = q.cost /\ made.fee = q.fee /\ made.gas = q.gas
      BY DEF Quote, QuoteFields
    <3> HIDE DEF made, q
    <3> QED BY <3>1, <3>2, ElsewhereParts DEF made, q
  <2> QED BY <2>1, <2>2, <2>3 DEF gasSStore
<1>2. Costly(c, gasSStoreEIP2200(c))
  <2>1. {EIP2200Sstore.noop, EIP2200Sstore.set, EIP2200Sstore.reset, EIP2200Sstore.dirty} \subseteq Nat \ {0}
    BY PriceRange DEF EIP2200Sstore, Prices
  <2> QED BY <2>1, NetMeteredCosts, RefusedUnfed DEF gasSStoreEIP2200
<1> QED BY <1>1, <1>2

LEMMA ColdStorageCosts ==
    ASSUME NEW c, ContextFields \subseteq DOMAIN c, NEW refund
    PROVE  Costly(c, makeGasSStoreFunc(c, refund))
<1> DEFINE cold == c.self \notin c.world.warmSlots
           listed == IF cold THEN AddSlotToAccessList(c.world, c.self) ELSE c.world
           d == [c EXCEPT !.world = listed]
           q == NetMetered(d, EIP2929Sstore(refund))
           extra == IF cold THEN Price["ColdSloadCostEIP2929"] ELSE 0
           made == [q EXCEPT !.cost = @ + extra]
<1>1. d.gas = c.gas /\ d.fee = c.fee
  BY DEF ContextFields
<1> HIDE DEF d
<1>2. Costly(d, q) /\ q.cost # Refused
  <2> DEFINE p == EIP2929Sstore(refund)
  <2>1. /\ p.noop = Price["WarmStorageReadCostEIP2929"] /\ p.set = Price["SstoreSetGasEIP2200"]
        /\ p.reset = Price["SstoreResetGasEIP2200"] - Price["ColdSloadCostEIP2929"]
        /\ p.dirty = Price["WarmStorageReadCostEIP2929"]
    BY DEF EIP2929Sstore
  <2> HIDE DEF p
  <2>2. {p.noop, p.set, p.reset, p.dirty} \subseteq Nat \ {0}
    BY <2>1, PriceRange, PriceAssumption, TopNat DEF Prices
  <2> QED BY <2>2, NetMeteredCosts DEF p
<1> HIDE DEF q
<1>3. extra \in Nat
  BY PriceRange DEF Prices
<1> HIDE DEF extra
<1>4. /\ QuoteFields \subseteq DOMAIN made /\ made.fee = q.fee /\ made.gas = q.gas
      /\ made.cost = q.cost + extra
  BY <1>2 DEF Costly, Unfed, Sound, QuoteFields
<1>5. q.cost # Refused => Costly(c, made)
  <2> HIDE DEF made
  <2> QED BY <1>1, <1>2, <1>3, <1>4 DEF Costly, Unfed, Sound, Refused
<1>6. q.cost # Refused
  BY <1>2
<1>7. \A what : Costly(c, [Quote(c, Refused) EXCEPT !.fault = what])
  <2> SUFFICES ASSUME NEW what PROVE Costly(c, [Quote(c, Refused) EXCEPT !.fault = what])
    OBVIOUS
  <2> DEFINE refused == [Quote(c, Refused) EXCEPT !.fault = what]
  <2>1. QuoteFields \subseteq DOMAIN refused /\ refused.cost = Refused /\ refused.fee = c.fee
    BY DEF Quote, QuoteFields
  <2> HIDE DEF refused
  <2> QED BY <2>1, RefusedUnfed DEF refused
<1>8. makeGasSStoreFunc(c, refund) =
        IF c.gas <= Price["SstoreSentryGasEIP2200"] THEN Quote(c, Refused)
        ELSE IF cold /\ c.self \notin c.world.warm THEN [Quote(c, Refused) EXCEPT !.fault = "canary"]
        ELSE made
  BY DEF makeGasSStoreFunc, d, q, extra
<1> HIDE DEF made
<1> QED BY <1>5, <1>6, <1>7, <1>8, RefusedUnfed

LEMMA SLoadCosts ==
    ASSUME NEW c
    PROVE  Costly(c, gasSLoadEIP2929(c))
<1> DEFINE q == Quote(c, Price["ColdSloadCostEIP2929"])
           made == [q EXCEPT !.world = AddSlotToAccessList(@, c.self)]
<1>1. Costly(c, q) /\ Costly(c, Quote(c, Price["WarmStorageReadCostEIP2929"]))
  BY PriceRange, QuoteUnfed DEF Prices
<1>2. QuoteFields \subseteq DOMAIN made /\ made.cost = q.cost /\ made.fee = q.fee /\ made.gas = q.gas
  BY DEF Quote, QuoteFields
<1>3. gasSLoadEIP2929(c) = Quote(c, Price["WarmStorageReadCostEIP2929"]) \/ gasSLoadEIP2929(c) = made
  BY DEF gasSLoadEIP2929
<1> HIDE DEF made, q
<1> QED BY <1>1, <1>2, <1>3, ElsewhereParts

\* The length of an exponent is that of a word.
LEMMA ByteLenNat ==
    ASSUME NEW word, \E k \in 0..WordBytes : word < 256^k
    PROVE  ByteLen(word) \in Nat
<1> DEFINE S == {k \in 0..WordBytes : word < 256^k}
<1>1. S \in SUBSET Nat /\ S # {}
  BY WordBytesAssumption
<1>2. PICK k \in S : \A j \in S : k <= j
  BY <1>1, LeastNat
<1>3. k \in 0..WordBytes /\ word < 256^k /\ ~\E j \in 0..(k - 1) : word < 256^j
  <2>1. \A j \in 0..(k - 1) : j \in 0..WordBytes /\ ~(k <= j)
    BY <1>1, <1>2, WordBytesAssumption
  <2> QED BY <1>2, <2>1
<1> DEFINE Q(i) == word < 256^i /\ ~\E j \in 0..(i - 1) : word < 256^j
<1>4. ByteLen(word) = CHOOSE i \in 0..WordBytes : Q(i)
  BY DEF ByteLen
<1>5. \E i \in 0..WordBytes : Q(i)
  BY <1>3
<1> HIDE DEF Q
<1>6. ByteLen(word) \in 0..WordBytes
  BY <1>4, <1>5
<1> QED BY <1>6, WordBytesAssumption

LEMMA ExpCosts ==
    ASSUME NEW c, Asking(c), NEW price \in Prices
    PROVE  Costly(c, gasExp(c, price))
<1> DEFINE bytes == ByteLen(Back(c.operands, 1))
           cost == SafeAdd(bytes * Price[price], Price["ExpGas"])
<1>1. bytes \in Nat
  BY ByteLenNat DEF Asking, Back
<1> HIDE DEF bytes
<1>2. Price[price] \in 1..Top /\ Price["ExpGas"] \in 1..Top
  BY PriceRange DEF Prices
<1>3. bytes * Price[price] \in Nat
  BY <1>1, <1>2, TopNat, Products
<1>4. cost \in Nat \cup {Refused} /\ cost # 0
  BY <1>2, <1>3, TopNat DEF SafeAdd, Refused
<1>5. gasExp(c, price) = Quote(c, cost)
  BY DEF gasExp, bytes
<1> HIDE DEF cost
<1> QED BY <1>4, <1>5, QuoteParts DEF Costly, Unfed

\* The first access to an account.
LEMMA AccessedParts ==
    ASSUME NEW c, NEW q, Sound(c, q), NEW a
    PROVE  /\ Sound(c, Accessed(c, q, a)) /\ (Fed(c, q) => Fed(c, Accessed(c, q, a)))
           /\ Accessed(c, q, a).fee = q.fee
<1> DEFINE added == Plus(q, coldCost)
           made == [added EXCEPT !.world = AddAddressToAccessList(@, a)]
<1>1. coldCost \in Nat
  BY PriceRange, PriceAssumption, TopNat DEF coldCost, Prices
<1>2. Sound(c, added) /\ (Fed(c, q) => Fed(c, added)) /\ added.fee = q.fee
  BY <1>1, PlusParts
<1> HIDE DEF added
<1>3. /\ QuoteFields \subseteq DOMAIN made /\ made.cost = added.cost /\ made.fee = added.fee
      /\ made.gas = added.gas
  BY <1>2 DEF Sound, QuoteFields
<1>4. Accessed(c, q, a) \in {q, made}
  BY DEF Accessed, added
<1> HIDE DEF made
<1> QED BY <1>2, <1>3, <1>4 DEF Sound, Fed

LEMMA AccountUnfed ==
    ASSUME NEW c
    PROVE  Unfed(c, gasEip2929AccountCheck(c))
  BY QuoteUnfed, AccessedParts DEF gasEip2929AccountCheck, Unfed

LEMMA DestructUnfed ==
    ASSUME NEW c, NEW refunds
    PROVE  Unfed(c, gasSelfdestruct(c)) /\ Unfed(c, makeSelfdestructGasFn(c, refunds))
<1>1. ASSUME NEW cost \in Nat, NEW w
      PROVE  Unfed(c, [Quote(c, cost) EXCEPT !.world = w])
  <2> DEFINE q == Quote(c, cost)
             made == [q EXCEPT !.world = w]
  <2>1. QuoteFields \subseteq DOMAIN made /\ made.cost = q.cost /\ made.fee = q.fee /\ made.gas = q.gas
    BY DEF Quote, QuoteFields
  <2>2. Unfed(c, q)
    BY QuoteUnfed
  <2> HIDE DEF made, q
  <2> QED BY <2>1, <2>2, ElsewhereParts DEF made, q
<1> DEFINE Made(cost, w) == [Quote(c, cost) EXCEPT !.world = w]
<1>2. \A cost \in Nat : \A w : Unfed(c, Made(cost, w))
  BY <1>1
<1>3. /\ Price["SelfdestructGasEIP150"] \in Nat /\ Price["CreateBySelfdestructGas"] \in Nat
      /\ Price["ColdAccountAccessCostEIP2929"] \in Nat
  BY PriceRange DEF Prices
<1> DEFINE to == Back(c.operands, 0)
           w1 == DestructRefund(c.world, c.self)
           isNew == IF Since(c.fork, "SpuriousDragon")
                    THEN Empty(c.world, to) /\ c.world.balance[c.self] # 0
                    ELSE ~Exist(c.world, to)
           cost1 == IF ~Since(c.fork, "TangerineWhistle") THEN 0
                    ELSE Price["SelfdestructGasEIP150"]
                         + IF isNew THEN Price["CreateBySelfdestructGas"] ELSE 0
<1>4. gasSelfdestruct(c) = Made(cost1, w1)
  BY DEF gasSelfdestruct, Quote
<1>5. cost1 \in Nat
  BY <1>3
<1> DEFINE w3 == AddAddressToAccessList(c.world, to)
           w2 == IF refunds THEN DestructRefund(w3, c.self) ELSE w3
           cold == IF to \in c.world.warm THEN 0 ELSE Price["ColdAccountAccessCostEIP2929"]
           cost2 == cold + IF Empty(c.world, to) /\ c.world.balance[c.self] # 0
                           THEN Price["CreateBySelfdestructGas"] ELSE 0
<1>6. makeSelfdestructGasFn(c, refunds) = Made(cost2, w2)
  BY DEF makeSelfdestructGasFn
<1>7. cost2 \in Nat
  BY <1>3
<1> HIDE DEF Made, cost1, cost2, w1, w2
<1> QED BY <1>2, <1>4, <1>5, <1>6, <1>7

----------------------------------------------------------------------------
(* Quotes that charge for memory                                           *)

LEMMA SafeMulAmount ==
    ASSUME NEW a \in Nat \cup {Refused}, NEW b \in Nat
    PROVE  SafeMul(a, b) \in Nat \cup {Refused}
  BY TopNat, Products DEF SafeMul, Refused

LEMMA PerWordAmount ==
    ASSUME NEW c, Asking(c), NEW n \in 0..16, NEW price \in Nat
    PROVE  PerWord(c, n, price) \in Nat \cup {Refused}
<1>1. Back(c.operands, n) \in Nat
  BY DEF Asking, Back
<1> DEFINE words == IF IsUint64(Back(c.operands, n)) THEN toWordSize(Back(c.operands, n)) ELSE Refused
<1>2. words \in Nat \cup {Refused}
  BY <1>1, WordSizeNat
<1> HIDE DEF words
<1> QED BY <1>2, SafeMulAmount DEF PerWord, words

LEMMA CopiesFed ==
    ASSUME NEW c, Asking(c), NEW n \in 0..16
    PROVE  /\ Sound(c, memoryCopierGas(c, n)) /\ Fed(c, memoryCopierGas(c, n))
           /\ Sound(c, gasKeccak256(c)) /\ Fed(c, gasKeccak256(c))
           /\ Sound(c, gasCreate2(c)) /\ Fed(c, gasCreate2(c))
<1>1. /\ PerWord(c, n, Price["CopyGas"]) \in Nat \cup {Refused}
      /\ PerWord(c, 1, Price["Keccak256WordGas"]) \in Nat \cup {Refused}
      /\ PerWord(c, 2, Price["Keccak256WordGas"]) \in Nat \cup {Refused}
  BY PerWordAmount, PriceRange DEF Prices
<1>2. Sound(c, memoryGasCost(c)) /\ Fed(c, memoryGasCost(c))
  BY MemoryQuote
<1> QED BY <1>1, <1>2, PlusParts DEF memoryCopierGas, gasKeccak256, gasCreate2

LEMMA InitCodeFed ==
    ASSUME NEW c, Asking(c)
    PROVE  /\ Sound(c, gasCreateEip3860(c)) /\ Fed(c, gasCreateEip3860(c))
           /\ Sound(c, gasCreate2Eip3860(c)) /\ Fed(c, gasCreate2Eip3860(c))
<1>1. ASSUME NEW price \in Nat
      PROVE  Sound(c, InitCode(c, price)) /\ Fed(c, InitCode(c, price))
  <2>1. Back(c.operands, 2) + (WordBytes - 1) \in Nat /\ WordBytes \in Nat \ {0}
    BY WordBytesAssumption DEF Asking, Back
  <2>2. (Back(c.operands, 2) + (WordBytes - 1)) \div WordBytes \in Nat
    BY <2>1, Division
  <2>3. price * ((Back(c.operands, 2) + (WordBytes - 1)) \div WordBytes) \in Nat
    BY <2>2, Products
  <2> DEFINE x == IF Back(c.operands, 2) > Price["MaxInitCodeSize"] THEN Refused
                  ELSE price * ((Back(c.operands, 2) + (WordBytes - 1)) \div WordBytes)
  <2>4. x \in Nat \cup {Refused}
    BY <2>3
  <2>5. Sound(c, memoryGasCost(c)) /\ Fed(c, memoryGasCost(c))
    BY MemoryQuote
  <2>6. InitCode(c, price) = Plus(memoryGasCost(c), x)
    BY DEF InitCode
  <2> HIDE DEF x
  <2> QED BY <2>4, <2>5, <2>6, PlusParts
<1>2. Price["InitCodeWordGas"] \in Nat /\ Price["InitCodeWordGas"] + Price["Keccak256WordGas"] \in Nat
  BY PriceRange DEF Prices
<1> QED BY <1>1, <1>2 DEF gasCreateEip3860, gasCreate2Eip3860

LEMMA LogFed ==
    ASSUME NEW c, Asking(c)
    PROVE  Sound(c, makeGasLog(c)) /\ Fed(c, makeGasLog(c)) /\ makeGasLog(c).cost # 0
<1> DEFINE m == memoryGasCost(c)
           q1 == Plus(m, Price["LogGas"])
           q2 == Plus(q1, c.n * Price["LogTopicGas"])
           data == SafeMul(Uint64(Back(c.operands, 1)), Price["LogDataGas"])
           q3 == Plus(q2, data)
<1>1. Price["LogGas"] \in Nat \ {0} /\ Price["LogTopicGas"] \in Nat /\ Price["LogDataGas"] \in Nat
  BY PriceRange DEF Prices
<1>2. c.n * Price["LogTopicGas"] \in Nat
  BY <1>1, Products DEF Asking
<1>3. data \in Nat \cup {Refused}
  <2>1. Uint64(Back(c.operands, 1)) \in Nat \cup {Refused}
    BY DEF Uint64, Back, Asking
  <2> QED BY <1>1, <2>1, SafeMulAmount
<1> HIDE DEF data
<1>4. Sound(c, m) /\ Fed(c, m)
  BY MemoryQuote
<1> HIDE DEF m
<1>5. Sound(c, q1) /\ Fed(c, q1) /\ (q1.cost # Refused => q1.cost = m.cost + Price["LogGas"] /\ m.cost # Refused)
  <2> DEFINE x == Price["LogGas"]
  <2>1. x \in Nat \cup {Refused}
    BY <1>1
  <2> HIDE DEF x
  <2>2. /\ Sound(c, Plus(m, x)) /\ Fed(c, Plus(m, x))
        /\ Plus(m, x).cost # Refused => m.cost # Refused /\ Plus(m, x).cost = m.cost + x
    BY <1>4, <2>1, PlusParts
  <2> QED BY <2>2 DEF x
<1>6. q1.cost # 0 /\ (q1.cost # Refused => q1.cost >= 1)
  BY <1>1, <1>4, <1>5 DEF Sound, Refused
<1> HIDE DEF q1
<1>7. /\ Sound(c, q2) /\ Fed(c, q2)
      /\ q2.cost # Refused => q1.cost # Refused /\ q2.cost = q1.cost + c.n * Price["LogTopicGas"]
  <2> DEFINE x == c.n * Price["LogTopicGas"]
  <2>1. x \in Nat \cup {Refused} /\ Sound(c, q1) /\ Fed(c, q1)
    BY <1>2, <1>5
  <2> HIDE DEF x
  <2>2. /\ Sound(c, Plus(q1, x)) /\ Fed(c, Plus(q1, x))
        /\ Plus(q1, x).cost # Refused => q1.cost # Refused /\ Plus(q1, x).cost = q1.cost + x
    BY <2>1, PlusParts
  <2> QED BY <2>2 DEF x
<1>8. q2.cost # 0 /\ (q2.cost # Refused => q2.cost >= 1)
  <2> DEFINE x == c.n * Price["LogTopicGas"]
  <2>1. x \in Nat /\ (q2.cost # Refused => q1.cost # Refused /\ q2.cost = q1.cost + x)
    BY <1>2, <1>7
  <2> HIDE DEF x, q2
  <2> QED BY <1>5, <1>6, <2>1 DEF Sound, Refused
<1> HIDE DEF q2
<1>9. /\ Sound(c, q3) /\ Fed(c, q3)
      /\ q3.cost # Refused => q2.cost # Refused /\ data # Refused /\ q3.cost = q2.cost + data
  BY <1>3, <1>7, PlusParts
<1>10. q3.cost # 0
  <2> HIDE DEF q3
  <2> QED BY <1>3, <1>7, <1>8, <1>9 DEF Sound, Refused
<1>11. makeGasLog(c) = q3
  BY DEF makeGasLog, q2, q1, m, data
<1> HIDE DEF q3
<1> QED BY <1>9, <1>10, <1>11

----------------------------------------------------------------------------
(* Quotes of calls                                                         *)

\* A call pays for the gas it sets aside, and for what it transfers.
Called(c, q, value) ==
    /\ Sound(c, q) /\ Fed(c, q)
    /\ q.cost # Refused =>
         /\ q.temp \in Nat
         /\ q.cost >= q.temp + IF value # 0 THEN Price["CallValueTransferGas"] ELSE 0

\* From EIP-150 on, the cost is so far from the largest integer that a cold access fits.
Roomy(c, q) ==
    Since(c.fork, "TangerineWhistle") /\ q.cost # Refused
        => q.cost + Price["ColdAccountAccessCostEIP2929"] <= Top

LEMMA CallGasRange ==
    ASSUME NEW available \in Int, NEW base \in Nat, NEW callCost \in Nat, NEW isEip150 \in BOOLEAN
    PROVE  LET gas == callGas(isEip150, available, base, callCost)
           IN  gas \in Nat \cup {Refused} /\ (isEip150 => gas # Refused /\ gas <= Top - Top \div 64)
<1> DEFINE left == Wrap(available - base)
           gas == left - left \div 64
<1>1. left \in 0..Top
  BY WrapRange
<1> HIDE DEF left
<1>2. gas \in Nat /\ gas <= Top - Top \div 64
  BY <1>1, TopNat
<1> HIDE DEF gas
<1>3. callGas(isEip150, available, base, callCost) =
        IF isEip150 /\ (~IsUint64(callCost) \/ gas < callCost) THEN gas
        ELSE IF ~IsUint64(callCost) THEN Refused ELSE callCost
  BY DEF callGas, left, gas
<1>4. isEip150 /\ ~(~IsUint64(callCost) \/ gas < callCost) => IsUint64(callCost) /\ callCost <= gas
  BY <1>2
<1> QED BY <1>2, <1>3, <1>4, TopNat DEF Refused

LEMMA SinceBoolean == \A fork, rule : Since(fork, rule) \in BOOLEAN
  BY DEF Since

LEMMA WithCallGasParts ==
    ASSUME NEW c, Asking(c), NEW q, Sound(c, q), Fed(c, q), q.gas = c.gas, NEW value,
           q.cost # Refused => q.cost >= IF value # 0 THEN Price["CallValueTransferGas"] ELSE 0,
           q.cost # Refused => q.cost + Price["ColdAccountAccessCostEIP2929"] <= Top \div 64
    PROVE  /\ Called(c, WithCallGas(c, q), value) /\ Roomy(c, WithCallGas(c, q))
           /\ WithCallGas(c, q).cost # Refused => WithCallGas(c, q).gas = c.gas
<1> DEFINE gas == callGas(Since(c.fork, "TangerineWhistle"), c.gas, q.cost, Back(c.operands, 0))
           added == Plus(q, gas)
           made == [added EXCEPT !.temp = IF gas = Refused THEN 0 ELSE gas]
           due == IF value # 0 THEN Price["CallValueTransferGas"] ELSE 0
           cold == Price["ColdAccountAccessCostEIP2929"]
<1>1. CASE q.cost = Refused
  <2>1. WithCallGas(c, q) = q
    BY <1>1 DEF WithCallGas
  <2> QED BY <1>1, <2>1 DEF Called, Roomy
<1>2. CASE q.cost # Refused
  <2>1. q.cost \in Nat
    BY <1>2 DEF Sound
  <2>2. /\ gas \in Nat \cup {Refused}
        /\ Since(c.fork, "TangerineWhistle") => gas # Refused /\ gas <= Top - Top \div 64
    <3>1. c.gas \in Int /\ Back(c.operands, 0) \in Nat
      BY DEF Asking, Back
    <3> QED BY <2>1, <3>1, CallGasRange, SinceBoolean
  <2>3. WithCallGas(c, q) = made
    BY <1>2 DEF WithCallGas
  <2>4. cold \in Nat /\ due \in Nat
    BY PriceRange DEF Prices
  <2> HIDE DEF gas
  <2>5. /\ Sound(c, added) /\ Fed(c, added)
        /\ added.cost # Refused => gas # Refused /\ added.cost = q.cost + gas
    BY <2>2, PlusParts
  <2> HIDE DEF added
  <2>6. /\ QuoteFields \subseteq DOMAIN made /\ made.cost = added.cost /\ made.fee = added.fee
        /\ made.gas = added.gas /\ (gas # Refused => made.temp = gas)
    BY <2>5 DEF Sound, QuoteFields
  <2> HIDE DEF made
  <2>7. Sound(c, made) /\ Fed(c, made)
    BY <2>5, <2>6 DEF Sound, Fed
  <2>8. made.cost # Refused => made.temp \in Nat /\ made.temp = gas /\ made.cost = q.cost + made.temp
    BY <2>2, <2>5, <2>6
  <2>9. q.cost >= due /\ q.cost + cold <= Top \div 64
    BY <1>2
  <2> HIDE DEF due, cold
  <2>10. made.cost # Refused => made.cost >= made.temp + due
    BY <2>1, <2>4, <2>8, <2>9
  <2>11. Since(c.fork, "TangerineWhistle") /\ made.cost # Refused => made.cost + cold <= Top
    BY <2>1, <2>2, <2>4, <2>8, <2>9, TopNat
  <2> QED BY <2>3, <2>7, <2>8, <2>10, <2>11 DEF Called, Roomy, due, cold, Sound
<1> QED BY <1>1, <1>2

ValueOf(name, v) == IF name \in {"gasCall", "gasCallCode"} THEN Back(v, 2) ELSE 0

LEMMA OldCalls ==
    ASSUME NEW c, Asking(c), NEW name \in CallNames
    PROVE  /\ Called(c, GasOfCall(name, c), ValueOf(name, c.operands)) /\ Roomy(c, GasOfCall(name, c))
           /\ GasOfCall(name, c).cost # Refused => GasOfCall(name, c).gas = c.gas
<1> DEFINE m == memoryGasCost(c)
           new == Price["CallNewAccountGas"]
           moved == Price["CallValueTransferGas"]
           cold == Price["ColdAccountAccessCostEIP2929"]
<1>1. /\ Sound(c, m) /\ Fed(c, m) /\ m.gas = c.gas
      /\ m.cost # Refused => m.cost <= Room
  BY MemoryQuote
<1>2. /\ new \in Nat /\ moved \in Nat /\ cold \in Nat /\ Room \in Nat
      /\ Room + new + moved + cold <= Top \div 64
  BY PriceRange, RoomNat DEF Prices
<1> HIDE DEF m
<1>3. ASSUME NEW base \in Nat, NEW value, base <= new + moved, base >= IF value # 0 THEN moved ELSE 0
      PROVE  LET q == WithCallGas(c, Plus(m, base))
             IN  Called(c, q, value) /\ Roomy(c, q) /\ (q.cost # Refused => q.gas = c.gas)
  <2> DEFINE q == Plus(m, base)
             due == IF value # 0 THEN moved ELSE 0
  <2>1. /\ Sound(c, q) /\ Fed(c, q) /\ q.gas = c.gas
        /\ q.cost # Refused => m.cost # Refused /\ q.cost = m.cost + base
    BY <1>1, PlusParts
  <2>2. due \in Nat /\ base >= due
    BY <1>2, <1>3
  <2> HIDE DEF q, new, moved, cold, due
  <2>3. q.cost # Refused => q.cost >= due /\ q.cost + cold <= Top \div 64
    <3>1. ASSUME q.cost # Refused
          PROVE  q.cost >= due /\ q.cost + cold <= Top \div 64
      <4>1. m.cost \in Nat /\ m.cost <= Room /\ q.cost = m.cost + base
        BY <1>1, <2>1, <3>1 DEF Sound
      <4> QED BY <1>2, <1>3, <2>2, <4>1, TopNat
    <3> QED BY <3>1
  <2> QED BY <2>1, <2>3, WithCallGasParts DEF q, due, moved, cold
<1>4. LET q == WithCallGas(c, m)
      IN  Called(c, q, 0) /\ Roomy(c, q) /\ (q.cost # Refused => q.gas = c.gas)
  <2> HIDE DEF new, moved, cold
  <2>1. m.cost # Refused => m.cost >= 0 /\ m.cost + cold <= Top \div 64
    <3>1. m.cost # Refused => m.cost \in Nat
      BY <1>1 DEF Sound
    <3> QED BY <1>1, <1>2, <3>1, TopNat
  <2> QED BY <1>1, <2>1, WithCallGasParts DEF cold
<1>5. CASE name = "gasCall"
  <2> DEFINE to        == Back(c.operands, 1)
             transfers == Back(c.operands, 2) # 0
             isNew     == IF Since(c.fork, "SpuriousDragon") THEN transfers /\ Empty(c.world, to)
                          ELSE ~Exist(c.world, to)
             base      == (IF isNew THEN new ELSE 0) + (IF transfers THEN moved ELSE 0)
  <2>1. GasOfCall(name, c) = WithCallGas(c, Plus(m, base))
    BY <1>5 DEF GasOfCall, gasCall, m
  <2> HIDE DEF new, moved, isNew
  <2>2. /\ base \in Nat /\ base <= new + moved
        /\ base >= IF Back(c.operands, 2) # 0 THEN moved ELSE 0
    BY <1>2
  <2>3. ValueOf(name, c.operands) = Back(c.operands, 2)
    BY <1>5 DEF ValueOf
  <2> HIDE DEF base
  <2> QED BY <1>3, <2>1, <2>2, <2>3
<1>6. CASE name = "gasCallCode"
  <2> DEFINE base == IF Back(c.operands, 2) # 0 THEN moved ELSE 0
  <2>1. GasOfCall(name, c) = WithCallGas(c, Plus(m, base))
    BY <1>6 DEF GasOfCall, gasCallCode, m
  <2> HIDE DEF new, moved
  <2>2. base \in Nat /\ base <= new + moved /\ base >= IF Back(c.operands, 2) # 0 THEN moved ELSE 0
    BY <1>2
  <2>3. ValueOf(name, c.operands) = Back(c.operands, 2)
    BY <1>6 DEF ValueOf
  <2> HIDE DEF base
  <2> QED BY <1>3, <2>1, <2>2, <2>3
<1>7. CASE name \in {"gasDelegateCall", "gasStaticCall"}
  <2>1. GasOfCall(name, c) = WithCallGas(c, m)
    BY <1>7 DEF GasOfCall, gasDelegateCall, gasStaticCall, m
  <2>2. ValueOf(name, c.operands) = 0
    BY <1>7 DEF ValueOf
  <2> QED BY <1>4, <2>1, <2>2
<1> QED BY <1>5, <1>6, <1>7 DEF CallNames

LEMMA SameMemoryQuote ==
    ASSUME NEW c, NEW d, d.size = c.size, d.memory = c.memory, d.fee = c.fee
    PROVE  memoryGasCost(d).cost = memoryGasCost(c).cost /\ memoryGasCost(d).fee = memoryGasCost(c).fee
<1>1. \A e : \A cost : Quote(e, cost).cost = cost /\ Quote(e, cost).fee = e.fee
  BY DEF Quote
<1>2. \A e : \A cost, fee : LET q == [Quote(e, cost) EXCEPT !.fee = fee] IN q.cost = cost /\ q.fee = fee
  BY DEF Quote
<1> QED BY <1>1, <1>2 DEF memoryGasCost

LEMMA ColdCalls ==
    ASSUME NEW c, Asking(c), NEW name \in CallNames, Since(c.fork, "TangerineWhistle")
    PROVE  Called(c, makeCallVariantGasCallEIP2929(c, name), ValueOf(name, c.operands))
<1> DEFINE to == Back(c.operands, 1)
           cold == [c EXCEPT !.world = AddAddressToAccessList(@, to), !.gas = @ - coldCost]
           q == GasOfCall(name, cold)
           refused == [Quote(c, Refused) EXCEPT !.world = AddAddressToAccessList(@, to)]
           made == [q EXCEPT !.cost = Wrap(@ + coldCost), !.gas = Wrap(@ + coldCost)]
           value == ValueOf(name, c.operands)
           due == IF value # 0 THEN Price["CallValueTransferGas"] ELSE 0
<1>1. makeCallVariantGasCallEIP2929(c, name) =
        IF to \in c.world.warm THEN GasOfCall(name, c)
        ELSE IF c.gas < coldCost THEN refused
        ELSE IF q.cost = Refused THEN q ELSE made
  BY Zenon DEF makeCallVariantGasCallEIP2929
<1>2. CASE to \in c.world.warm
  BY <1>1, <1>2, OldCalls
<1>3. CASE to \notin c.world.warm /\ c.gas < coldCost
  <2>1. QuoteFields \subseteq DOMAIN refused /\ refused.cost = Refused
    BY DEF Quote, QuoteFields
  <2> HIDE DEF refused
  <2> QED BY <1>1, <1>3, <2>1 DEF Called, Sound, Fed
<1>4. CASE to \notin c.world.warm /\ ~(c.gas < coldCost)
  <2>1. coldCost \in Nat /\ coldCost <= Price["ColdAccountAccessCostEIP2929"] /\ c.gas \in 0..Top
    BY PriceRange, PriceAssumption, TopNat DEF coldCost, Prices, Asking
  <2>2. /\ ContextFields \subseteq DOMAIN cold /\ cold.gas = c.gas - coldCost /\ cold.n = c.n
        /\ cold.operands = c.operands /\ cold.memory = c.memory /\ cold.fee = c.fee
        /\ cold.size = c.size /\ cold.fork = c.fork
    BY DEF Asking, ContextFields
  <2> HIDE DEF cold
  <2>3. c.gas - coldCost \in 0..Top
    BY <1>4, <2>1, TopNat
  <2>4. Asking(cold)
    BY <2>2, <2>3 DEF Asking
  <2>5. /\ Called(cold, q, value) /\ Roomy(cold, q)
        /\ q.cost # Refused => q.gas = c.gas - coldCost
    BY <2>2, <2>4, OldCalls
  <2> HIDE DEF q
  <2>6. memoryGasCost(cold).cost = memoryGasCost(c).cost /\ memoryGasCost(cold).fee = memoryGasCost(c).fee
    BY <2>2, SameMemoryQuote
  <2>7. CASE q.cost = Refused
    BY <1>1, <1>4, <2>5, <2>7 DEF Called, Sound, Fed
  <2>8. CASE q.cost # Refused
    <3>1. /\ q.cost \in Nat /\ q.cost + coldCost <= Top /\ q.gas = c.gas - coldCost
      BY <2>1, <2>2, <2>5, <2>8, TopNat, PriceRange DEF Called, Sound, Roomy, Prices
    <3>2. Wrap(q.cost + coldCost) = q.cost + coldCost /\ Wrap(q.gas + coldCost) = c.gas
      <4>1. q.cost + coldCost \in 0..Top /\ q.gas + coldCost = c.gas /\ c.gas \in 0..Top
        BY <2>1, <3>1, TopNat
      <4> QED BY <4>1, TopNat, WrapRange
    <3>3. /\ QuoteFields \subseteq DOMAIN made /\ made.cost = q.cost + coldCost /\ made.gas = c.gas
          /\ made.fee = q.fee /\ made.temp = q.temp
      BY <2>5, <3>2 DEF Called, Sound, QuoteFields
    <3> HIDE DEF made
    <3>4. Sound(c, made)
      BY <2>1, <3>1, <3>3 DEF Sound
    <3>5. Fed(c, made)
      BY <2>5, <2>6, <2>8, <3>3 DEF Called, Fed
    <3>6. q.temp \in Nat /\ q.cost >= q.temp + due /\ due \in Nat
      BY <2>5, <2>8, PriceRange DEF Called, Prices
    <3> HIDE DEF due
    <3>7. made.temp \in Nat /\ made.cost >= made.temp + due
      BY <2>1, <3>1, <3>3, <3>6
    <3>8. makeCallVariantGasCallEIP2929(c, name) = made
      BY <1>1, <1>4, <2>8
    <3> QED BY <3>4, <3>5, <3>7, <3>8 DEF Called, due
  <2> QED BY <2>7, <2>8
<1> QED BY <1>2, <1>3, <1>4

----------------------------------------------------------------------------
(* Every gas function                                                      *)

ColdCallGas == {"gasCallEIP2929", "gasCallCodeEIP2929", "gasDelegateCallEIP2929", "gasStaticCallEIP2929"}

CallQuotes(c, execute, q) ==
    Called(c, q, IF execute \in {"opCall", "opCallCode"} THEN Back(c.operands, 2) ELSE 0)

LEMMA CallsQuoted ==
    ASSUME NEW c, Asking(c), NEW execute \in CallFunctions, NEW name \in CallGas[execute],
           name \in ColdCallGas => Since(c.fork, "TangerineWhistle")
    PROVE  CallQuotes(c, execute, dynamicGas(name, c))
<1>1. CASE execute = "opCall"
  <2>1. /\ "gasCall" \in CallNames /\ name \in {"gasCall", "gasCallEIP2929"}
        /\ ValueOf("gasCall", c.operands) = Back(c.operands, 2)
    BY <1>1 DEF CallGas, CallNames, ValueOf
  <2>2. CASE name = "gasCall"
    BY <1>1, <2>1, <2>2, OldCalls DEF dynamicGas, CallQuotes
  <2>3. CASE name = "gasCallEIP2929"
    BY <1>1, <2>1, <2>3, ColdCalls DEF dynamicGas, CallQuotes, ColdCallGas
  <2> QED BY <2>1, <2>2, <2>3
<1>2. CASE execute = "opCallCode"
  <2>1. /\ "gasCallCode" \in CallNames /\ name \in {"gasCallCode", "gasCallCodeEIP2929"}
        /\ ValueOf("gasCallCode", c.operands) = Back(c.operands, 2)
    BY <1>2 DEF CallGas, CallNames, ValueOf
  <2>2. CASE name = "gasCallCode"
    BY <1>2, <2>1, <2>2, OldCalls DEF dynamicGas, CallQuotes
  <2>3. CASE name = "gasCallCodeEIP2929"
    BY <1>2, <2>1, <2>3, ColdCalls DEF dynamicGas, CallQuotes, ColdCallGas
  <2> QED BY <2>1, <2>2, <2>3
<1>3. CASE execute = "opDelegateCall"
  <2>1. /\ "gasDelegateCall" \in CallNames /\ name \in {"gasDelegateCall", "gasDelegateCallEIP2929"}
        /\ ValueOf("gasDelegateCall", c.operands) = 0
    BY <1>3 DEF CallGas, CallNames, ValueOf
  <2>2. CASE name = "gasDelegateCall"
    BY <1>3, <2>1, <2>2, OldCalls DEF dynamicGas, CallQuotes
  <2>3. CASE name = "gasDelegateCallEIP2929"
    BY <1>3, <2>1, <2>3, ColdCalls DEF dynamicGas, CallQuotes, ColdCallGas
  <2> QED BY <2>1, <2>2, <2>3
<1>4. CASE execute = "opStaticCall"
  <2>1. /\ "gasStaticCall" \in CallNames /\ name \in {"gasStaticCall", "gasStaticCallEIP2929"}
        /\ ValueOf("gasStaticCall", c.operands) = 0
    BY <1>4 DEF CallGas, CallNames, ValueOf
  <2>2. CASE name = "gasStaticCall"
    BY <1>4, <2>1, <2>2, OldCalls DEF dynamicGas, CallQuotes
  <2>3. CASE name = "gasStaticCallEIP2929"
    BY <1>4, <2>1, <2>3, ColdCalls DEF dynamicGas, CallQuotes, ColdCallGas
  <2> QED BY <2>1, <2>2, <2>3
<1> QED BY <1>1, <1>2, <1>3, <1>4 DEF CallFunctions

\* A quote is sound, remembers what was paid for memory if it charges for it,
\* and is not free if nothing else of the instruction is.
Quoting(name, c, q) ==
    /\ Sound(c, q)
    /\ name \in Charging => Fed(c, q)
    /\ name \notin Charging => q.fee = c.fee
    /\ name \in Costing => q.cost # 0

LEMMA GasQuoted ==
    ASSUME NEW c, Asking(c), NEW name, name \in ColdCallGas => Since(c.fork, "TangerineWhistle")
    PROVE  Quoting(name, c, dynamicGas(name, c))
<1>1. CASE name \in {"gasReturn", "gasRevert", "gasMLoad", "gasMStore8", "gasMStore", "gasCreate"}
  <2>1. dynamicGas(name, c) = memoryGasCost(c)
    BY <1>1 DEF dynamicGas
  <2> QED BY <1>1, <2>1, MemoryQuote DEF Quoting, Charging, Costing
<1>2. CASE name \in {"gasCallDataCopy", "gasCodeCopy", "gasMcopy", "gasReturnDataCopy", "gasExtCodeCopy",
                     "gasKeccak256", "gasCreate2"}
  <2>1. dynamicGas(name, c) \in {memoryCopierGas(c, 2), memoryCopierGas(c, 3), gasKeccak256(c), gasCreate2(c)}
    BY <1>2 DEF dynamicGas
  <2>2. Sound(c, dynamicGas(name, c)) /\ Fed(c, dynamicGas(name, c))
    BY <2>1, CopiesFed
  <2> QED BY <1>2, <2>2 DEF Quoting, Charging, Costing
<1>3. CASE name = "makeGasLog"
  BY <1>3, LogFed DEF dynamicGas, Quoting, Charging
<1>4. CASE name \in {"gasExpFrontier", "gasExpEIP158"}
  <2>1. Costly(c, gasExp(c, "ExpByteFrontier")) /\ Costly(c, gasExp(c, "ExpByteEIP158"))
    BY ExpCosts DEF Prices
  <2>2. Costly(c, dynamicGas(name, c))
    BY <1>4, <2>1 DEF dynamicGas
  <2> QED BY <1>4, <2>2 DEF Quoting, Charging, Costly, Unfed
<1>5. CASE name \in {"gasCreateEip3860", "gasCreate2Eip3860"}
  <2>1. Sound(c, dynamicGas(name, c)) /\ Fed(c, dynamicGas(name, c))
    BY <1>5, InitCodeFed DEF dynamicGas
  <2> QED BY <1>5, <2>1 DEF Quoting, Charging, Costing
<1>6. CASE name \in {"gasSStore", "gasSStoreEIP2200", "gasSStoreEIP2929", "gasSStoreEIP3529",
                     "gasSLoadEIP2929"}
  <2>1. ContextFields \subseteq DOMAIN c
    BY DEF Asking
  <2>2. Costly(c, dynamicGas(name, c))
    BY <1>6, <2>1, StorageCosts, ColdStorageCosts, SLoadCosts DEF dynamicGas
  <2> QED BY <1>6, <2>2 DEF Quoting, Charging, Costly, Unfed
<1>7. CASE name = "gasExtCodeCopyEIP2929"
  <2>1. Sound(c, memoryCopierGas(c, 3)) /\ Fed(c, memoryCopierGas(c, 3))
    BY CopiesFed
  <2>2. Sound(c, dynamicGas(name, c)) /\ Fed(c, dynamicGas(name, c))
    BY <1>7, <2>1, AccessedParts DEF dynamicGas, gasExtCodeCopyEIP2929
  <2> QED BY <1>7, <2>2 DEF Quoting, Charging, Costing
<1>8. CASE name \in {"gasEip2929AccountCheck", "gasSelfdestruct", "gasSelfdestructEIP2929",
                     "gasSelfdestructEIP3529"}
  <2>1. Unfed(c, dynamicGas(name, c))
    BY <1>8, AccountUnfed, DestructUnfed DEF dynamicGas
  <2> QED BY <1>8, <2>1 DEF Quoting, Charging, Costing, Unfed
<1> DEFINE calling == UNION {CallGas[execute] : execute \in CallFunctions}
<1>9. CASE name \in calling
  <2>1. PICK execute \in CallFunctions : name \in CallGas[execute]
    BY <1>9
  <2>2. CallQuotes(c, execute, dynamicGas(name, c))
    BY <2>1, CallsQuoted
  <2>3. name \in Charging /\ name \notin Costing
    BY <2>1 DEF CallGas, CallFunctions, Charging, Costing
  <2> QED BY <2>2, <2>3 DEF CallQuotes, Called, Quoting
<1>10. calling = {"gasCall", "gasCallCode", "gasDelegateCall", "gasStaticCall"} \cup ColdCallGas
  BY DEF CallGas, CallFunctions, ColdCallGas
<1> HIDE DEF calling
<1> DEFINE known == Charging \cup Costing
                    \cup {"gasEip2929AccountCheck", "gasSelfdestruct", "gasSelfdestructEIP2929",
                          "gasSelfdestructEIP3529"}
<1>11. CASE name \notin known
  <2>1. dynamicGas(name, c) = Quote(c, 0)
    BY <1>11 DEF dynamicGas, Charging, Costing
  <2> QED BY <1>11, <2>1, QuoteUnfed DEF Quoting, Unfed
<1>12. CASE name \in known
  BY <1>1, <1>2, <1>3, <1>4, <1>5, <1>6, <1>7, <1>8, <1>9, <1>10, <1>12 DEF Charging, Costing, ColdCallGas
<1> QED BY <1>11, <1>12

----------------------------------------------------------------------------
(* The gas functions of EIP-2929 and the rule of EIP-150                   *)

\* A set with none of the gas functions that count on the rule.
Timely(set) ==
    \A name \in DOMAIN set : "dynamicGas" \in DOMAIN set[name] /\ set[name].dynamicGas \notin ColdCallGas

LEMMA MadeTimely ==
    \A execute, gas, pops, push :
        LET op == Op(execute, gas, pops, push)
        IN  /\ "dynamicGas" \in DOMAIN op /\ op.dynamicGas \notin ColdCallGas
            /\ \A name : Metered(op, name).dynamicGas = name /\ "dynamicGas" \in DOMAIN Metered(op, name)
            /\ \A name, size : InMemory(op, name, size).dynamicGas = name
                               /\ "dynamicGas" \in DOMAIN InMemory(op, name, size)
  BY DEF Op, Metered, InMemory, ColdCallGas

LEMMA BlocksTimely ==
    /\ Timely(FrontierArithmetic) /\ Timely(FrontierComparison) /\ Timely(FrontierClosure)
    /\ Timely(FrontierBlock) /\ Timely(FrontierStorage) /\ Timely(FrontierCalls)
<1>1. Timely(FrontierArithmetic) /\ Timely(FrontierComparison)
  BY MadeTimely DEF Timely, FrontierArithmetic, FrontierComparison, ColdCallGas
<1>2. Timely(FrontierClosure) /\ Timely(FrontierBlock)
  BY MadeTimely DEF Timely, FrontierClosure, FrontierBlock, ColdCallGas
<1>3. Timely(FrontierStorage) /\ Timely(FrontierCalls)
  BY MadeTimely DEF Timely, FrontierStorage, FrontierCalls, ColdCallGas
<1> QED BY <1>1, <1>2, <1>3

LEMMA FamiliesTimely ==
    Timely(FrontierPush) /\ Timely(FrontierDup) /\ Timely(FrontierSwap) /\ Timely(FrontierLog)
<1>1. Timely(FrontierPush)
  BY DEF Timely, FrontierPush, Members, Op, ColdCallGas
<1>2. Timely(FrontierDup)
  BY DEF Timely, FrontierDup, Members, Op, ColdCallGas
<1>3. Timely(FrontierSwap)
  BY DEF Timely, FrontierSwap, Members, Op, ColdCallGas
<1>4. Timely(FrontierLog)
  BY DEF Timely, FrontierLog, Members, Op, InMemory, ColdCallGas
<1> QED BY <1>1, <1>2, <1>3, <1>4

LEMMA JoinedTimely ==
    ASSUME NEW F, \A f \in F : Timely(f)
    PROVE  Timely(Joined(F))
<1> SUFFICES ASSUME NEW name \in DOMAIN Joined(F)
             PROVE  /\ "dynamicGas" \in DOMAIN Joined(F)[name]
                    /\ Joined(F)[name].dynamicGas \notin ColdCallGas
  BY DEF Timely
<1>1. name \in UNION {DOMAIN f : f \in F}
  BY DEF Joined
<1>2. \E f \in F : name \in DOMAIN f
  BY <1>1
<1> DEFINE g == CHOOSE f \in F : name \in DOMAIN f
<1>3. g \in F /\ name \in DOMAIN g
  BY <1>2
<1>4. Joined(F)[name] = g[name]
  BY <1>1 DEF Joined
<1> HIDE DEF g
<1> QED BY <1>3, <1>4 DEF Timely

LEMMA WithTimely ==
    ASSUME NEW set, NEW entries, Timely(set), Timely(entries)
    PROVE  Timely(With(set, entries))
  BY DEF Timely, With

LEMMA FrontierTimely == Timely(newFrontierInstructionSet)
<1> DEFINE F == {FrontierArithmetic, FrontierComparison, FrontierClosure, FrontierBlock, FrontierStorage,
                 FrontierPush, FrontierDup, FrontierSwap, FrontierLog, FrontierCalls}
<1>1. \A f \in F : Timely(f)
  BY BlocksTimely, FamiliesTimely
<1> HIDE DEF F
<1>2. Timely(Joined(F))
  BY <1>1, JoinedTimely
<1> QED BY <1>2 DEF F, newFrontierInstructionSet

LEMMA HomesteadTimely == Timely(newHomesteadInstructionSet)
<1>1. Timely([DELEGATECALL |-> InMemory(Op("opDelegateCall", "CallGasFrontier", 6, 1),
                                        "gasDelegateCall", "memoryDelegateCall")])
  BY MadeTimely DEF Timely, ColdCallGas
<1> QED BY <1>1, FrontierTimely, WithTimely DEF newHomesteadInstructionSet

\* Another constant gas, or another gas function that is not one of them.
LEMMA ChangedTimely ==
    ASSUME NEW set, Timely(set), NEW name
    PROVE  /\ \A gas : Timely(Repriced(set, name, gas))
           /\ \A gas : gas \notin ColdCallGas => Timely(MeteredAt(set, name, gas))
           /\ \A gas : [Entry(set, name) EXCEPT !.constantGas = gas].dynamicGas \notin ColdCallGas
                       /\ "dynamicGas" \in DOMAIN [Entry(set, name) EXCEPT !.constantGas = gas]
           /\ \A gas : Metered(Entry(set, name), gas).dynamicGas = gas
                       /\ "dynamicGas" \in DOMAIN Metered(Entry(set, name), gas)
<1>1. \A gas : Timely(Repriced(set, name, gas))
  BY DEF Timely, Repriced
<1>2. \A gas : gas \notin ColdCallGas => Timely(MeteredAt(set, name, gas))
  BY DEF Timely, MeteredAt
<1>3. "dynamicGas" \in DOMAIN Undefined /\ Undefined.dynamicGas \notin ColdCallGas
  BY DEF Undefined, Op, ColdCallGas
<1>4. "dynamicGas" \in DOMAIN Entry(set, name) /\ Entry(set, name).dynamicGas \notin ColdCallGas
  BY <1>3 DEF Entry, Timely
<1> QED BY <1>1, <1>2, <1>4 DEF Metered

LEMMA AdditionsTimely ==
    ASSUME NEW set, Timely(set)
    PROVE  /\ Timely(enable1344(set)) /\ Timely(enable3198(set)) /\ Timely(enable1153(set))
           /\ Timely(enable3855(set)) /\ Timely(enable5656(set)) /\ Timely(enable6780(set))
<1>1. /\ Timely([CHAINID |-> Op("opChainID", "GasQuickStep", 0, 1)])
      /\ Timely([BASEFEE |-> Op("opBaseFee", "GasQuickStep", 0, 1)])
      /\ Timely([TLOAD  |-> Op("opTload", "WarmStorageReadCostEIP2929", 1, 1),
                 TSTORE |-> Op("opTstore", "WarmStorageReadCostEIP2929", 2, 0)])
      /\ Timely([PUSH0 |-> Op("opPush0", "GasQuickStep", 0, 1)])
  BY MadeTimely DEF Timely
<1>2. Timely([MCOPY |-> InMemory(Op("opMcopy", "GasFastestStep", 3, 0), "gasMcopy", "memoryMcopy")])
  BY MadeTimely DEF Timely, ColdCallGas
<1>3. Timely([SELFDESTRUCT |-> Metered(Op("opSelfdestruct6780", "SelfdestructGasEIP150", 1, 0),
                                       "gasSelfdestructEIP3529")])
  BY MadeTimely DEF Timely, ColdCallGas
<1>4. Timely(enable1344(set)) /\ Timely(enable3198(set)) /\ Timely(enable1153(set))
  BY <1>1, WithTimely DEF enable1344, enable3198, enable1153
<1>5. Timely(enable3855(set)) /\ Timely(enable5656(set)) /\ Timely(enable6780(set))
  BY <1>1, <1>2, <1>3, WithTimely DEF enable3855, enable5656, enable6780
<1> QED BY <1>4, <1>5

LEMMA RepricingsTimely ==
    ASSUME NEW set, Timely(set)
    PROVE  /\ Timely(enable1884(set)) /\ Timely(enable2200(set)) /\ Timely(enable3529(set))
           /\ Timely(enable3860(set))
<1>1. Timely(enable1884(set))
  <2> DEFINE hash == [Entry(set, "EXTCODEHASH") EXCEPT !.constantGas = "ExtcodeHashGasEIP1884"]
             self == Op("opSelfBalance", "GasFastStep", 0, 1)
             dear == Repriced(Repriced(set, "SLOAD", "SloadGasEIP1884"), "BALANCE", "BalanceGasEIP1884")
  <2>1. "dynamicGas" \in DOMAIN self /\ self.dynamicGas \notin ColdCallGas
    BY MadeTimely
  <2>2. "dynamicGas" \in DOMAIN hash /\ hash.dynamicGas \notin ColdCallGas
    BY ChangedTimely
  <2>3. Timely(dear)
    BY ChangedTimely
  <2> HIDE DEF hash, self, dear
  <2>4. Timely([SELFBALANCE |-> self, EXTCODEHASH |-> hash])
    BY <2>1, <2>2 DEF Timely
  <2> QED BY <2>3, <2>4, WithTimely DEF enable1884, hash, self, dear
<1>2. Timely(enable2200(set))
  <2>1. enable2200(set) = MeteredAt(Repriced(set, "SLOAD", "SloadGasEIP2200"), "SSTORE", "gasSStoreEIP2200")
    BY DEF enable2200, MeteredAt
  <2>2. Timely(Repriced(set, "SLOAD", "SloadGasEIP2200"))
    BY ChangedTimely
  <2>3. "gasSStoreEIP2200" \notin ColdCallGas
    BY DEF ColdCallGas
  <2> QED BY <2>1, <2>2, <2>3, ChangedTimely
<1>3. Timely(enable3529(set))
  <2>1. enable3529(set)
          = MeteredAt(MeteredAt(set, "SSTORE", "gasSStoreEIP3529"), "SELFDESTRUCT", "gasSelfdestructEIP3529")
    BY DEF enable3529, MeteredAt
  <2>2. Timely(MeteredAt(set, "SSTORE", "gasSStoreEIP3529"))
    BY ChangedTimely DEF ColdCallGas
  <2>3. "gasSelfdestructEIP3529" \notin ColdCallGas
    BY DEF ColdCallGas
  <2> QED BY <2>1, <2>2, <2>3, ChangedTimely
<1>4. Timely(enable3860(set))
  <2>1. Timely(MeteredAt(set, "CREATE", "gasCreateEip3860"))
    BY ChangedTimely DEF ColdCallGas
  <2>2. Timely([CREATE2 |-> Metered(Entry(set, "CREATE2"), "gasCreate2Eip3860")])
    BY ChangedTimely DEF Timely, ColdCallGas
  <2> QED BY <2>1, <2>2, WithTimely DEF enable3860, MeteredAt
<1> QED BY <1>1, <1>2, <1>3, <1>4

LEMMA EnabledTimely ==
    ASSUME NEW set, Timely(set), NEW eip, eip # 2929
    PROVE  Timely(EnableEIP(eip, set))
  BY AdditionsTimely, RepricingsTimely DEF EnableEIP

LEMMA ByByteTimely ==
    ASSUME NEW set, Timely(set), NEW b \in Bytes
    PROVE  ByByte(set)[b].dynamicGas \notin ColdCallGas
<1>1. CASE \E name \in DOMAIN set : OpCode[name] = b
  <2> DEFINE at == CHOOSE name \in DOMAIN set : OpCode[name] = b
  <2>1. at \in DOMAIN set
    BY <1>1
  <2>2. ByByte(set)[b] = set[at]
    BY <1>1 DEF ByByte
  <2> HIDE DEF at
  <2> QED BY <2>1, <2>2 DEF Timely
<1>2. CASE ~\E name \in DOMAIN set : OpCode[name] = b
  BY <1>2 DEF ByByte, Undefined, Op, ColdCallGas
<1> QED BY <1>1, <1>2

LEMMA SinceTangerine ==
    ASSUME NEW fork \in DOMAIN SetOf
    PROVE  Since(fork, "TangerineWhistle") \/ fork \in {"Frontier", "Homestead"}
<1>1. \E i \in DOMAIN Forks : Forks[i] = fork /\ (i >= 3 \/ fork \in {"Frontier", "Homestead"})
  BY DEF Forks, SetOf
<1>2. 3 \in DOMAIN Forks /\ Forks[3] = "TangerineWhistle"
  BY DEF Forks
<1> QED BY <1>1, <1>2 DEF Since

\* No chain before EIP-150 has them in its table.
LEMMA TablesTimely ==
    ASSUME NEW s \in Sessions, NEW b \in Bytes, Tables[s.config][b].dynamicGas \in ColdCallGas
    PROVE  Since(s.config.fork, "TangerineWhistle")
<1> SUFFICES ASSUME ~Since(s.config.fork, "TangerineWhistle") PROVE FALSE
  OBVIOUS
<1> DEFINE set == EnableEIP(s.config.eip, SetOf[s.config.fork])
<1>1. s.config.fork \in {"Frontier", "Homestead"} /\ s.config.eip # 2929
  BY SessionsAssumption, SinceTangerine
<1>2. Timely(SetOf[s.config.fork])
  BY <1>1, FrontierTimely, HomesteadTimely DEF SetOf
<1>3. Timely(set)
  BY <1>1, <1>2, EnabledTimely
<1>4. s.config \in Configs
  BY DEF Configs
<1>5. Tables[s.config] = ByByte(set)
  BY <1>4 DEF Tables
<1> HIDE DEF set
<1> QED BY <1>3, <1>5, ByByteTimely

----------------------------------------------------------------------------
(* The gas of a stack of frames                                            *)

IsSum(S, fs, n) == S = [i \in 0..n |-> IF i = 0 THEN 0 ELSE S[i - 1] + fs[i].gas]

LEMMA SumExists ==
    ASSUME NEW fs, NEW n \in Nat
    PROVE  \E S : IsSum(S, fs, n)
<1> DEFINE T == {m \in Nat : ~\E S : IsSum(S, fs, m)}
<1>1. CASE T # {}
  <2>1. PICK m \in T : \A k \in T : m <= k
    <3>1. T \in SUBSET Nat
      OBVIOUS
    <3> HIDE DEF T
    <3> QED BY <1>1, <3>1, LeastNat
  <2>2. m # 0
    <3> DEFINE S == [i \in 0..0 |-> 0]
    <3>1. S = [i \in 0..0 |-> IF i = 0 THEN 0 ELSE S[i - 1] + fs[i].gas]
      OBVIOUS
    <3>2. IsSum(S, fs, 0)
      BY <3>1 DEF IsSum
    <3> QED BY <3>2
  <2>3. m \in Nat /\ m - 1 \in Nat /\ m - 1 \notin T
    BY <2>1, <2>2
  <2>4. PICK S : IsSum(S, fs, m - 1)
    BY <2>3
  <2> DEFINE R == [i \in 0..m |-> IF i = m THEN S[m - 1] + fs[m].gas ELSE S[i]]
  <2>5. \A i \in 0..(m - 1) : R[i] = S[i] /\ S[i] = IF i = 0 THEN 0 ELSE S[i - 1] + fs[i].gas
    BY <2>2, <2>3, <2>4 DEF IsSum
  <2>6. \A i \in 0..m : R[i] = IF i = 0 THEN 0 ELSE R[i - 1] + fs[i].gas
    <3> SUFFICES ASSUME NEW i \in 0..m PROVE R[i] = IF i = 0 THEN 0 ELSE R[i - 1] + fs[i].gas
      OBVIOUS
    <3>1. CASE i = m
      <4>1. R[i] = S[m - 1] + fs[m].gas /\ R[m - 1] = S[m - 1]
        BY <2>3, <2>5, <3>1
      <4> QED BY <2>2, <3>1, <4>1
    <3>2. CASE i # m
      <4>1. i \in 0..(m - 1) /\ (i # 0 => i - 1 \in 0..(m - 1))
        BY <2>3, <3>2
      <4>2. R[i] = S[i] /\ (i # 0 => R[i - 1] = S[i - 1])
        BY <2>5, <4>1
      <4> QED BY <2>5, <4>1, <4>2
    <3> QED BY <3>1, <3>2
  <2>7. R = [i \in 0..m |-> R[i]]
    OBVIOUS
  <2> HIDE DEF R
  <2>8. IsSum(R, fs, m)
    BY <2>6, <2>7 DEF IsSum
  <2> QED BY <2>1, <2>8
<1> QED BY <1>1

\* The gas of every frame is a number.
Fuelled(fs) == \A i \in 1..Len(fs) : fs[i].gas \in Nat

LEMMA SumParts ==
    ASSUME NEW fs, IsStack(fs), Fuelled(fs)
    PROVE  \E S : /\ S \in [0..Len(fs) -> Nat] /\ S[0] = 0 /\ TotalGas(fs) = S[Len(fs)]
                  /\ \A i \in 1..Len(fs) : S[i] = S[i - 1] + fs[i].gas
<1>1. Len(fs) \in Nat
  BY DEF IsStack
<1> DEFINE S == CHOOSE Sum : IsSum(Sum, fs, Len(fs))
<1>2. IsSum(S, fs, Len(fs))
  BY <1>1, SumExists
<1>3. TotalGas(fs) = S[Len(fs)]
  BY DEF TotalGas, IsSum
<1> HIDE DEF S
<1>4. S[0] = 0 /\ \A i \in 1..Len(fs) : S[i] = S[i - 1] + fs[i].gas
  BY <1>1, <1>2 DEF IsSum
<1>5. S = [i \in 0..Len(fs) |-> S[i]]
  BY <1>2 DEF IsSum
<1> DEFINE T == {i \in 0..Len(fs) : S[i] \notin Nat}
<1>6. T = {}
  <2> SUFFICES ASSUME T # {} PROVE FALSE
    OBVIOUS
  <2>1. PICK m \in T : \A k \in T : m <= k
    <3>1. T \in SUBSET Nat
      BY <1>1
    <3> HIDE DEF T
    <3> QED BY <3>1, LeastNat
  <2>2. m \in 1..Len(fs) /\ m - 1 \notin T
    BY <1>1, <1>4, <2>1
  <2>3. S[m - 1] \in Nat
    BY <1>1, <2>2
  <2>4. S[m] \in Nat
    BY <1>4, <2>2, <2>3 DEF Fuelled
  <2> QED BY <2>1, <2>4
<1>7. S \in [0..Len(fs) -> Nat]
  BY <1>5, <1>6
<1> QED BY <1>3, <1>4, <1>7

LEMMA TotalEmpty ==
    ASSUME NEW fs, fs = <<>>
    PROVE  IsStack(fs) /\ Fuelled(fs) /\ TotalGas(fs) = 0 /\ Len(fs) = 0
<1>1. IsStack(fs) /\ Len(fs) = 0
  <2>1. <<>> \in Seq({}) /\ Len(<<>>) = 0
    OBVIOUS
  <2> QED BY <2>1 DEF IsStack
<1>2. Fuelled(fs)
  BY <1>1 DEF Fuelled
<1> QED BY <1>1, <1>2, SumParts

LEMMA TotalAppend ==
    ASSUME NEW b, IsStack(b), Fuelled(b), NEW f, f.gas \in Nat
    PROVE  /\ Fuelled(Append(b, f)) /\ TotalGas(b) \in Nat
           /\ TotalGas(Append(b, f)) = TotalGas(b) + f.gas
<1> DEFINE fs == Append(b, f)
           n == Len(b)
<1>1. /\ IsStack(fs) /\ n \in Nat /\ Len(fs) = n + 1 /\ fs[n + 1] = f
      /\ \A i \in 1..n : fs[i] = b[i]
  BY AppendStack
<1> HIDE DEF fs
<1>2. Fuelled(fs)
  <2>1. \A i \in 1..Len(fs) : i \in 1..n \/ i = n + 1
    BY <1>1
  <2> QED BY <1>1, <2>1 DEF Fuelled
<1>3. PICK S : /\ S \in [0..n -> Nat] /\ S[0] = 0 /\ TotalGas(b) = S[n]
               /\ \A i \in 1..n : S[i] = S[i - 1] + b[i].gas
  BY SumParts
<1>4. PICK R : /\ R \in [0..(n + 1) -> Nat] /\ R[0] = 0 /\ TotalGas(fs) = R[n + 1]
               /\ \A i \in 1..(n + 1) : R[i] = R[i - 1] + fs[i].gas
  <2>1. \E R : /\ R \in [0..Len(fs) -> Nat] /\ R[0] = 0 /\ TotalGas(fs) = R[Len(fs)]
               /\ \A i \in 1..Len(fs) : R[i] = R[i - 1] + fs[i].gas
    BY <1>1, <1>2, SumParts, Zenon
  <2> HIDE DEF n
  <2> QED BY <1>1, <2>1
<1> DEFINE T == {i \in 0..n : S[i] # R[i]}
<1>5. T = {}
  <2> SUFFICES ASSUME T # {} PROVE FALSE
    OBVIOUS
  <2>1. PICK m \in T : \A k \in T : m <= k
    <3>1. T \in SUBSET Nat
      BY <1>1
    <3> HIDE DEF T
    <3> QED BY <3>1, LeastNat
  <2>2. m \in 1..n /\ m - 1 \notin T
    BY <1>1, <1>3, <1>4, <2>1
  <2>3. S[m - 1] = R[m - 1]
    BY <1>1, <2>2
  <2>4. S[m] = S[m - 1] + b[m].gas /\ R[m] = R[m - 1] + fs[m].gas /\ fs[m] = b[m]
    BY <1>1, <1>3, <1>4, <2>2
  <2> QED BY <2>1, <2>3, <2>4
<1>6. S[n] = R[n] /\ S[n] \in Nat
  BY <1>1, <1>3, <1>5
<1>7. R[n + 1] = R[n] + f.gas
  <2>1. n + 1 \in 1..(n + 1) /\ (n + 1) - 1 = n
    BY <1>1
  <2> QED BY <1>1, <1>4, <2>1
<1> QED BY <1>2, <1>3, <1>4, <1>6, <1>7 DEF fs

----------------------------------------------------------------------------
(* The frames of a transaction                                             *)

\* A state whose accounts have programs, or no code.
Coded(w) == WorldFields \subseteq DOMAIN w /\ w.code \in [Accounts -> {0} \cup DOMAIN Programs]

\* A frame that runs a program, with memory it has paid for.
Solid(f) ==
    /\ FrameFields \subseteq DOMAIN f
    /\ ~Lite(f)
    /\ f.code \in DOMAIN Programs
    /\ PaidFor(f.mem, f.fee)
    /\ f.gas \in Nat
    /\ Coded(f.saved)

Fine(f) == Solid(f) /\ f.pc \in Nat

Sturdy(fs) == IsStack(fs) /\ \A i \in 1..Len(fs) : Fine(fs[i])

\* Where a step of a transaction ends, with no more gas than this.
Keeps(gas) ==
    /\ Sturdy(frames') /\ Coded(world')
    /\ TotalGas(frames') \in Nat /\ TotalGas(frames') <= gas

LEMMA SturdyEmpty ==
    ASSUME NEW fs, fs = <<>>
    PROVE  Sturdy(fs) /\ TotalGas(fs) = 0 /\ Len(fs) = 0
  BY TotalEmpty DEF Sturdy

LEMMA SturdyTotal ==
    ASSUME NEW b, Sturdy(b), NEW f, Fine(f)
    PROVE  /\ Sturdy(Append(b, f)) /\ Len(Append(b, f)) = Len(b) + 1 /\ Len(b) \in Nat
           /\ TotalGas(b) \in Nat /\ TotalGas(Append(b, f)) = TotalGas(b) + f.gas
<1> DEFINE fs == Append(b, f)
<1>1. /\ IsStack(fs) /\ Len(b) \in Nat /\ Len(fs) = Len(b) + 1 /\ fs[Len(b) + 1] = f
      /\ \A i \in 1..Len(b) : fs[i] = b[i]
  BY AppendStack DEF Sturdy
<1>2. Fuelled(b) /\ f.gas \in Nat
  BY DEF Sturdy, Fine, Solid, Fuelled
<1>3. TotalGas(b) \in Nat /\ TotalGas(fs) = TotalGas(b) + f.gas
  BY <1>2, TotalAppend DEF Sturdy
<1> HIDE DEF fs
<1>4. \A i \in 1..Len(fs) : i \in 1..Len(b) \/ i = Len(b) + 1
  BY <1>1
<1>5. Sturdy(fs)
  BY <1>1, <1>4 DEF Sturdy
<1> QED BY <1>1, <1>3, <1>5 DEF fs

LEMMA SturdyParts ==
    ASSUME NEW b, Sturdy(b), b # <<>>
    PROVE  /\ Sturdy(Below(b)) /\ Fine(b[Len(b)]) /\ b = Append(Below(b), b[Len(b)])
           /\ Len(b) = Len(Below(b)) + 1 /\ Len(Below(b)) \in Nat
           /\ TotalGas(Below(b)) \in Nat /\ TotalGas(b) = TotalGas(Below(b)) + b[Len(b)].gas
<1>1. b = Append(Below(b), b[Len(b)]) /\ IsStack(Below(b))
  BY StackParts DEF Sturdy
<1>2. /\ Len(b) \in Nat \ {0} /\ Len(Below(b)) = Len(b) - 1
      /\ \A i \in 1..Len(Below(b)) : Below(b)[i] = b[i]
  BY BelowStack DEF Sturdy
<1>3. Fine(b[Len(b)]) /\ Sturdy(Below(b))
  BY <1>1, <1>2 DEF Sturdy
<1> QED BY <1>1, <1>2, <1>3, SturdyTotal

LEMMA WrapLess ==
    ASSUME NEW x \in Nat
    PROVE  Wrap(x) \in Nat /\ Wrap(x) <= x
<1> DEFINE d == Top + 1
<1>1. d \in Nat \ {0}
  BY TopNat
<1>2. Wrap(x) = x % d
  BY DEF Wrap
<1> HIDE DEF d
<1>3. /\ x \div d \in Int /\ x \div d >= 0
      /\ x % d \in 0..(d - 1) /\ x = d * (x \div d) + (x % d)
  <2>1. x \in Int /\ x >= 0
    OBVIOUS
  <2> QED BY <1>1, <2>1, Division, Zenon
<1> DEFINE k == x \div d
           dk == d * k
<1>4. k \in Nat /\ x = dk + (x % d)
  BY <1>3
<1> HIDE DEF k
<1>5. dk \in Nat
  BY <1>1, <1>4, Products
<1> HIDE DEF dk
<1> QED BY <1>1, <1>2, <1>3, <1>4, <1>5

LEMMA ContinueKeeps ==
    ASSUME NEW b, Sturdy(b), NEW g, Solid(g), g.pc \in Int, g.pc + 1 \in Nat, NEW w, Coded(w), NEW ro,
           Continue(b, g, w, ro)
    PROVE  Keeps(TotalGas(b) + g.gas) /\ Len(frames') = Len(b) + 1
<1> DEFINE g1 == [g EXCEPT !.pc = @ + 1]
<1>1. g.kind \notin LiteKinds
  BY DEF Solid, Lite
<1>2. frames' = Append(b, g1) /\ world' = w
  BY <1>1 DEF Continue, LiteKinds
<1>3. Fine(g1) /\ g1.gas = g.gas
  BY DEF Fine, Solid, FrameFields, Lite
<1> HIDE DEF g1
<1> QED BY <1>2, <1>3, SturdyTotal DEF Keeps, Fine, Solid

LEMMA ResumeKeeps ==
    ASSUME NEW b, Sturdy(b), NEW gas \in Nat, NEW w, Coded(w), NEW ok, NEW ro,
           Resume(b, gas, ok, w, ro)
    PROVE  Keeps(TotalGas(b) + gas) /\ Len(frames') = Len(b)
<1>1. CASE b = <<>>
  <2>1. frames' = <<>> /\ world' = w
    BY <1>1 DEF Resume
  <2> QED BY <1>1, <2>1, SturdyEmpty DEF Keeps
<1>2. CASE b # <<>>
  <2> DEFINE f == b[Len(b)]
             left == Wrap(f.gas + gas)
             g == [f EXCEPT !.height = @ + 1, !.gas = Wrap(@ + gas)]
  <2>1. /\ Sturdy(Below(b)) /\ Fine(f) /\ Len(b) = Len(Below(b)) + 1
        /\ TotalGas(Below(b)) \in Nat /\ TotalGas(b) = TotalGas(Below(b)) + f.gas
    BY <1>2, SturdyParts
  <2>2. Continue(Below(b), g, w, ro)
    BY <1>2, Zenon DEF Resume
  <2> HIDE DEF f
  <2>3. f.gas \in Nat /\ left \in Nat /\ left <= f.gas + gas
    <3>1. f.gas \in Nat
      BY <2>1 DEF Fine, Solid
    <3>2. f.gas + gas \in Nat
      BY <3>1
    <3> QED BY <3>1, <3>2, WrapLess
  <2>4. g = [f EXCEPT !.height = @ + 1, !.gas = left]
    OBVIOUS
  <2> HIDE DEF left
  <2>5. Solid(g) /\ g.pc = f.pc /\ g.gas = left
    BY <2>1, <2>3, <2>4 DEF Fine, Solid, FrameFields, Lite
  <2> HIDE DEF g
  <2>6. Keeps(TotalGas(Below(b)) + left) /\ Len(frames') = Len(Below(b)) + 1
    BY <2>1, <2>2, <2>5, ContinueKeeps DEF Fine
  <2> QED BY <2>1, <2>3, <2>6 DEF Keeps
<1> QED BY <1>1, <1>2

LEMMA ReturnsKeeps ==
    ASSUME NEW b, Sturdy(b), NEW gas \in Nat, NEW w, Coded(w), NEW ok, Returns(b, gas, ok, w)
    PROVE  Keeps(TotalGas(b) + gas) /\ Len(frames') = Len(b)
  BY ResumeKeeps DEF Returns

LEMMA RunKeeps ==
    ASSUME NEW b, Sturdy(b), NEW f, Fine(f), NEW w, Coded(w), NEW static, Run(b, f, w, static)
    PROVE  Keeps(TotalGas(b) + f.gas)
<1>1. frames' = Append(b, f) /\ world' = w
  BY DEF Run
<1> QED BY <1>1, SturdyTotal DEF Keeps, Fine, Solid

\* A new frame has no memory, and nothing to pay for.
LEMMA NewFine ==
    ASSUME NEW kind, kind \notin LiteKinds, NEW self, NEW code \in DOMAIN Programs, NEW gas \in Nat,
           NEW saved, Coded(saved), NEW setRO, NEW f, f = NewFrame(kind, self, code, gas, saved, setRO)
    PROVE  Fine(f) /\ f.gas = gas
<1>1. PaidFor(0, 0)
  <2>1. MaxWords \in Nat /\ Room \in Nat
    BY RoomNat
  <2>2. TotalFee(0) = 0 * Price["MemoryGas"] + (0 * 0) \div Price["QuadCoeffDiv"]
    BY <2>1, Fees
  <2>3. Price["MemoryGas"] \in Nat /\ Price["QuadCoeffDiv"] \in Nat \ {0}
    BY PriceRange, TopNat DEF Prices
  <2>4. TotalFee(0) = 0
    <3>1. 0 \div Price["QuadCoeffDiv"] = 0
      <4>1. 0 \in 0..(Price["QuadCoeffDiv"] - 1) /\ 0 = Price["QuadCoeffDiv"] * 0 + 0
        BY <2>3
      <4> QED BY <2>3, <4>1, Quotient
    <3> QED BY <2>2, <2>3, <3>1
  <2>5. 0 = 0 * WordBytes /\ 0 <= MaxMemory
    BY WordBytesAssumption, WidthAssumption
  <2> QED BY <2>4, <2>5 DEF PaidFor
<1> QED BY <1>1 DEF NewFrame, Fine, Solid, FrameFields, Lite

----------------------------------------------------------------------------
(* Calls and creates                                                       *)

LEMMA OperationsCoded ==
    ASSUME NEW w, Coded(w), NEW a
    PROVE  /\ \A serial, change : Coded(Journal(w, serial, change))
           /\ Coded(CreateAccount(w, a))
           /\ \A amount : Coded(AddBalance(w, a, amount))
           /\ Coded(SelfDestruct(w, a))
           /\ \A x : /\ Coded([w EXCEPT !.balance = x]) /\ Coded([w EXCEPT !.nonce = x])
                     /\ Coded([w EXCEPT !.slot = x])
<1>1. [w.code EXCEPT ![a] = 0] \in [Accounts -> {0} \cup DOMAIN Programs]
  BY DEF Coded
<1> QED BY <1>1 DEF Coded, Journal, CreateAccount, AddBalance, SelfDestruct, WorldFields

LEMMA TransferCoded ==
    ASSUME NEW w, Coded(w), NEW serial, NEW from, NEW to, NEW amount
    PROVE  Coded(Transfer(w, serial, from, to, amount))
<1> DEFINE taken == [w EXCEPT !.balance = [w.balance EXCEPT ![from] = @ - amount]]
           paid == AddBalance(taken, to, amount)
<1>1. Coded(taken)
  BY OperationsCoded
<1>2. Coded(paid)
  BY <1>1, OperationsCoded
<1>3. Coded(Journal(paid, serial, "transfer"))
  BY <1>2, OperationsCoded
<1>4. Transfer(w, serial, from, to, amount) = IF amount = 0 THEN paid ELSE Journal(paid, serial, "transfer")
  BY Zenon DEF Transfer
<1> HIDE DEF paid, taken
<1> QED BY <1>2, <1>3, <1>4

\* The caller's stack, the state it calls in, and the gas it gives.
Meets(b, w, gas) == Sturdy(b) /\ Coded(w) /\ gas \in Nat

LEMMA SturdyNat ==
    ASSUME NEW b, Sturdy(b)
    PROVE  TotalGas(b) \in Nat /\ Len(b) \in Nat
<1> DEFINE f == [gas |-> 0]
<1>1. f.gas \in Nat
  OBVIOUS
<1> HIDE DEF f
<1> QED BY <1>1, TotalAppend DEF Sturdy, Fine, Solid, Fuelled, IsStack

LEMMA InvokeKeeps ==
    ASSUME NEW b, NEW saved, NEW gas, Meets(b, saved, gas), NEW w, Coded(w),
           NEW kind, kind \notin LiteKinds, NEW self, NEW addr \in Accounts, NEW static,
           Invoke(kind, b, self, addr, gas, saved, w, static)
    PROVE  Keeps(TotalGas(b) + gas)
<1>1. ASSUME NEW fine \in BOOLEAN, NEW left \in 0..gas, Returns(b, left, fine, IF fine THEN w ELSE saved)
      PROVE  Keeps(TotalGas(b) + gas)
  <2>1. left \in Nat /\ left <= gas
    BY <1>1 DEF Meets
  <2>2. Coded(IF fine THEN w ELSE saved)
    BY DEF Meets
  <2>3. Keeps(TotalGas(b) + left)
    BY <1>1, <2>1, <2>2, ReturnsKeeps DEF Meets
  <2>4. TotalGas(b) \in Nat
    BY SturdyNat DEF Meets
  <2> QED BY <2>1, <2>3, <2>4 DEF Keeps, Meets
<1>2. CASE Returns(b, gas, TRUE, w)
  BY <1>2, ReturnsKeeps DEF Meets
<1> DEFINE f == NewFrame(kind, self, w.code[addr], gas, saved, static /\ ~readOnly)
<1>3. CASE w.code[addr] # 0 /\ Run(b, f, w, static)
  <2>1. w.code[addr] \in DOMAIN Programs
    BY <1>3 DEF Coded
  <2>2. f = NewFrame(kind, self, w.code[addr], gas, saved, static /\ ~readOnly) /\ gas \in Nat
    BY DEF Meets
  <2> HIDE DEF f
  <2>3. Fine(f) /\ f.gas = gas
    BY <2>1, <2>2, NewFine DEF Meets
  <2> QED BY <1>3, <2>3, RunKeeps DEF Meets
<1>4. \/ \E left \in 0..gas : \E fine \in BOOLEAN : Returns(b, left, fine, IF fine THEN w ELSE saved)
      \/ Returns(b, gas, TRUE, w)
      \/ w.code[addr] # 0 /\ Run(b, f, w, static)
  <2>1. CASE \E cost \in PrecompileCosts, ok \in BOOLEAN :
               LET fine == ok /\ cost <= gas
               IN  Returns(b, IF fine THEN gas - cost ELSE 0, fine, IF fine THEN w ELSE saved)
    <3>1. PICK cost \in PrecompileCosts, ok \in BOOLEAN :
               LET fine == ok /\ cost <= gas
               IN  Returns(b, IF fine THEN gas - cost ELSE 0, fine, IF fine THEN w ELSE saved)
      BY <2>1
    <3> DEFINE fine == ok /\ cost <= gas
               left == IF fine THEN gas - cost ELSE 0
    <3>2. fine \in BOOLEAN
      OBVIOUS
    <3>3. left \in 0..gas
      BY ProgramsAssumption DEF Meets
    <3>4. Returns(b, left, fine, IF fine THEN w ELSE saved)
      BY <3>1
    <3> HIDE DEF fine, left
    <3> QED BY <3>2, <3>3, <3>4
  <2> QED BY <2>1, Zenon DEF Invoke
<1> QED BY <1>1, <1>2, <1>3, <1>4

LEMMA CallKeeps ==
    ASSUME NEW b, NEW w, NEW gas, Meets(b, w, gas), NEW from, NEW to \in Accounts, NEW value,
           Call(b, from, to, gas, value, w)
    PROVE  Keeps(TotalGas(b) + gas)
<1> DEFINE target == IF Exist(w, to) THEN w ELSE CreateAccount(w, to)
           paid == Transfer(target, Serial(b), from, to, value)
<1>1. Coded(target)
  BY OperationsCoded DEF Meets
<1>2. Coded(paid)
  BY <1>1, TransferCoded
<1>3. \/ Returns(b, gas, FALSE, w)
      \/ Returns(b, gas, TRUE, w)
      \/ Invoke("call", b, to, to, gas, w, paid, FALSE)
  BY Zenon DEF Call
<1> HIDE DEF paid
<1>4. "call" \notin LiteKinds
  BY DEF LiteKinds
<1> QED BY <1>2, <1>3, <1>4, ReturnsKeeps, InvokeKeeps DEF Meets

LEMMA BorrowedKeeps ==
    ASSUME NEW b, NEW w, NEW gas, Meets(b, w, gas), NEW from, NEW to \in Accounts, NEW value,
           \/ CallCode(b, from, to, gas, value, w) \/ DelegateCall(b, from, to, gas, w)
           \/ StaticCall(b, to, gas, w)
    PROVE  Keeps(TotalGas(b) + gas)
<1>1. Coded(w) /\ Coded(AddBalance(w, to, 0))
  BY OperationsCoded DEF Meets
<1>2. \A kind \in {"callcode", "delegatecall", "staticcall"} : kind \notin LiteKinds
  BY DEF LiteKinds
<1>3. \/ Returns(b, gas, FALSE, w)
      \/ \E kind \in {"callcode", "delegatecall"} : Invoke(kind, b, from, to, gas, w, w, FALSE)
      \/ Invoke("staticcall", b, to, to, gas, w, AddBalance(w, to, 0), TRUE)
  BY Zenon DEF CallCode, DelegateCall, StaticCall
<1> QED BY <1>1, <1>2, <1>3, ReturnsKeeps, InvokeKeeps DEF Meets

LEMMA CreateKeeps ==
    ASSUME NEW b, NEW w, NEW gas, Meets(b, w, gas), NEW from, NEW value, NEW kind \in CreateKinds,
           NEW size, create(kind, b, from, gas, value, size, w)
    PROVE  Keeps(TotalGas(b) + gas)
<1>1. kind \notin LiteKinds
  BY DEF CreateKinds, LiteKinds
<1>5. ASSUME NEW self, NEW init \in InitPrograms, NEW saved, Coded(saved), NEW setRO, NEW f,
             f = NewFrame(kind, self, init, gas, saved, setRO)
      PROVE  Fine(f) /\ f.gas = gas
  <2>1. gas \in Nat /\ init \in DOMAIN Programs
    BY ProgramsAssumption DEF Meets
  <2> QED BY <1>1, <1>5, <2>1, NewFine
<1>2. ASSUME NEW a, NEW init \in {0} \cup InitPrograms,
             LET bumped == [Journal(w, Serial(b), "nonce") EXCEPT
                               !.nonce[from] = @ + 1,
                               !.warm = IF IsRule("Berlin") THEN @ \cup {a} ELSE @]
                 born   == [CreateAccount(bumped, a) EXCEPT
                               !.nonce[a] = IF IsRule("SpuriousDragon") THEN 1 ELSE 0]
                 paid   == Transfer(Journal(born, Serial(b), "create"), Serial(b), from, a, value)
             IN  \/ Returns(b, 0, FALSE, bumped)
                 \/ Returns(b, gas, TRUE, paid)
                 \/ init \in InitPrograms /\ Run(b, NewFrame(kind, a, init, gas, bumped, FALSE), paid, FALSE)
      PROVE  Keeps(TotalGas(b) + gas)
  <2> DEFINE noted == Journal(w, Serial(b), "nonce")
             warm == IF IsRule("Berlin") THEN noted.warm \cup {a} ELSE noted.warm
             nonces == [noted.nonce EXCEPT ![from] = @ + 1]
             bumped == [noted EXCEPT !.nonce[from] = @ + 1,
                                     !.warm = IF IsRule("Berlin") THEN @ \cup {a} ELSE @]
             fresh == CreateAccount(bumped, a)
             born == [fresh EXCEPT !.nonce[a] = IF IsRule("SpuriousDragon") THEN 1 ELSE 0]
             made == Journal(born, Serial(b), "create")
             paid == Transfer(made, Serial(b), from, a, value)
             f == NewFrame(kind, a, init, gas, bumped, FALSE)
  <2>1. Coded(noted)
    BY OperationsCoded DEF Meets
  <2>2. Coded(bumped)
    <3> HIDE DEF noted
    <3>1. bumped = [noted EXCEPT !.nonce = nonces, !.warm = warm]
      OBVIOUS
    <3> HIDE DEF nonces, warm
    <3> QED BY <2>1, <3>1 DEF Coded, WorldFields
  <2> HIDE DEF bumped
  <2>3. Coded(fresh)
    BY <2>2, OperationsCoded
  <2> HIDE DEF fresh
  <2>4. Coded(born)
    BY <2>3, OperationsCoded
  <2> HIDE DEF born
  <2>5. Coded(made)
    BY <2>4, OperationsCoded
  <2> HIDE DEF made
  <2>6. Coded(paid)
    BY <2>5, TransferCoded
  <2> HIDE DEF paid
  <2>7. init \in InitPrograms => Fine(f) /\ f.gas = gas
    BY <1>5, <2>2, Zenon
  <2> HIDE DEF f
  <2>8. \/ Returns(b, 0, FALSE, bumped) \/ Returns(b, gas, TRUE, paid)
        \/ init \in InitPrograms /\ Run(b, f, paid, FALSE)
    BY <1>2, Zenon DEF noted, bumped, fresh, born, made, paid, f
  <2>9. CASE Returns(b, 0, FALSE, bumped)
    <3>1. Keeps(TotalGas(b) + 0)
      BY <2>2, <2>9, ReturnsKeeps DEF Meets
    <3>2. TotalGas(b) \in Nat
      BY SturdyNat DEF Meets
    <3> QED BY <3>1, <3>2 DEF Keeps, Meets
  <2>10. CASE Returns(b, gas, TRUE, paid)
    BY <2>6, <2>10, ReturnsKeeps DEF Meets
  <2>11. CASE init \in InitPrograms /\ Run(b, f, paid, FALSE)
    BY <2>6, <2>7, <2>11, RunKeeps DEF Meets
  <2> QED BY <2>8, <2>9, <2>10, <2>11
<1>3. CASE Returns(b, gas, FALSE, w)
  BY <1>3, ReturnsKeeps DEF Meets
<1>4. \A init : init \in (IF size = 0 THEN {0} ELSE InitPrograms) => init \in {0} \cup InitPrograms /\ (init # 0 => init \in InitPrograms)
  OBVIOUS
<1> QED BY <1>2, <1>3, <1>4, Zenon DEF create

----------------------------------------------------------------------------
(* What an instruction pays                                                *)

\* What execute is reached with: the frame has paid, for the memory it now has
\* and for the gas a call sets aside, and nothing goes on for free.
StipendOf(execute, v) == IF execute \in {"opCall", "opCallCode"} THEN Stipend(Back(v, 2)) ELSE 0

Spent(execute, v, p) ==
    /\ Fine(p.frame)
    /\ p.frame.gas <= Current.gas
    /\ execute \notin Ending => p.frame.gas < Current.gas
    /\ execute \in CallFunctions =>
         p.temp \in Nat /\ p.frame.gas + p.temp + StipendOf(execute, v) < Current.gas

\* The machine runs a transaction, with no more gas than its integers hold.
Running ==
    /\ session \in Sessions /\ Transaction
    /\ frames # <<>> /\ Sturdy(frames) /\ Coded(world) /\ TotalGas(frames) <= Top

LEMMA RunningParts ==
    ASSUME Running
    PROVE  /\ Sturdy(Below(frames)) /\ Fine(Current) /\ frames = Append(Below(frames), Current)
           /\ Len(frames) = Len(Below(frames)) + 1 /\ Len(Below(frames)) \in Nat
           /\ TotalGas(Below(frames)) \in Nat /\ TotalGas(frames) = TotalGas(Below(frames)) + Current.gas
           /\ Current.gas \in 0..Top
<1>1. /\ Sturdy(Below(frames)) /\ Fine(Current) /\ frames = Append(Below(frames), Current)
      /\ Len(frames) = Len(Below(frames)) + 1 /\ Len(Below(frames)) \in Nat
      /\ TotalGas(Below(frames)) \in Nat /\ TotalGas(frames) = TotalGas(Below(frames)) + Current.gas
  BY SturdyParts DEF Running, Current
<1>2. Current.gas \in Nat
  BY <1>1 DEF Fine, Solid
<1> QED BY <1>1, <1>2, TopNat DEF Running

LEMMA OperationPriced ==
    ASSUME session \in Sessions, Fine(Current)
    PROVE  /\ Priced(Operation)
           /\ Operation.dynamicGas \in ColdCallGas => IsRule("TangerineWhistle")
<1> DEFINE b == GetOp(Programs[Current.code], Current.pc)
<1>1. Programs[Current.code] \in Seq(Bytes) /\ Current.pc \in Nat
  BY ProgramsAssumption DEF Fine, Solid
<1>2. b \in Bytes
  BY <1>1, GetOpInBytes
<1>3. Operation = Tables[session.config][b]
  BY DEF Operation
<1> HIDE DEF b
<1> QED BY <1>2, <1>3, TablesPriced, TablesTimely DEF IsRule

LEMMA OperandsFound ==
    ASSUME NEW op, NEW v \in OperandsOf(op)
    PROVE  v \in [1..17 -> Nat] /\ \E k \in 0..WordBytes : v[2] < 256^k
  BY OperandsAssumption DEF OperandsOf

LEMMA DueNat ==
    ASSUME NEW gas \in Prices \cup {"Free"}
    PROVE  Cost(gas) \in Nat /\ (gas # "Free" => Cost(gas) >= 1)
  BY PriceRange, TopNat DEF Cost, Prices

LEMMA PaidSettled ==
    ASSUME Transaction, ~Lite(Current), NEW op, NEW v, Paid(op, v).ok
    PROVE  \E g, size, q, due :
              /\ due = Cost(op.constantGas) /\ ~(Current.gas < due)
              /\ g = [Current EXCEPT !.gas = @ - due]
              /\ size = MemorySize(op, v) /\ size # Refused
              /\ q = Quoted(g, op, size, v)
              /\ Paid(op, v) = Settled(g, size, q, IF Charged(g) THEN q.cost ELSE 0)
<1> DEFINE due == Cost(op.constantGas)
           g == [Current EXCEPT !.gas = @ - due]
           size == MemorySize(op, v)
           q == Quoted(g, op, size, v)
<1>1. Charged(Current)
  BY DEF Charged, Transaction
<1>2. \A f : ~Stopped(f).ok
  BY DEF Stopped
<1>3. ~(Current.gas < due) /\ Paid(op, v) = Sized(op, v, g, size)
  BY <1>1, <1>2, Zenon DEF Paid
<1>4. size # Refused /\ Sized(op, v, g, size) = Settled(g, size, q, IF Charged(g) THEN q.cost ELSE 0)
  BY <1>2, <1>3, Zenon DEF Sized
<1> HIDE DEF due, g, size, q
<1> QED BY <1>3, <1>4, Zenon DEF due, g, size, q

LEMMA SettledParts ==
    ASSUME NEW g, FrameFields \subseteq DOMAIN g, NEW size, NEW q, NEW cost, NEW p,
           p = Settled(g, size, q, cost), p.ok
    PROVE  /\ cost # Refused /\ q.gas >= cost /\ p.temp = q.temp
           /\ FrameFields \subseteq DOMAIN p.frame
           /\ p.frame.gas = q.gas - cost /\ p.frame.fee = q.fee
           /\ p.frame.mem = IF size > g.mem THEN size ELSE g.mem
           /\ p.frame.kind = g.kind /\ p.frame.code = g.code /\ p.frame.pc = g.pc
           /\ p.frame.saved = g.saved
  BY DEF Settled, FrameFields

\* The frame once the constant gas is paid, and what the gas function is asked.
Asks(f, due, g, op, v, size, c) ==
    /\ Fine(f) /\ f.gas \in 0..Top /\ due \in Nat /\ ~(f.gas < due)
    /\ g = [f EXCEPT !.gas = @ - due]
    /\ Priced(op) /\ v \in OperandsOf(op)
    /\ size = MemorySize(op, v) /\ size # Refused
    /\ c = Context(g, op, size, v)

Answered(f, due, g, op, v, size, c) ==
    /\ Fine(g) /\ g.gas = f.gas - due
    /\ Asking(c) /\ c.gas = g.gas /\ c.memory = g.mem /\ c.size = size /\ c.fee = g.fee
    /\ c.operands = v /\ c.fork = session.config.fork
    /\ op.memorySize = "none" => size = 0

LEMMA AskingFrame ==
    ASSUME NEW f, NEW due, NEW g, NEW op, NEW v, NEW size, NEW c, Asks(f, due, g, op, v, size, c)
    PROVE  Answered(f, due, g, op, v, size, c)
<1> USE DEF Asks
<1>1. f.gas - due \in 0..Top /\ f.gas - due \in Nat
  BY TopNat
<1>2. Fine(g) /\ g.gas = f.gas - due
  <2>1. Fine(f) /\ g = [f EXCEPT !.gas = f.gas - due]
    OBVIOUS
  <2> QED BY <1>1, <2>1 DEF Fine, Solid, FrameFields, Lite
<1>3. v \in [1..17 -> Nat] /\ \E k \in 0..WordBytes : v[2] < 256^k
  BY OperandsFound
<1>4. (\E k \in Nat : size = k * WordBytes) /\ (op.memorySize = "none" => size = 0)
  BY <1>3, SizeInWords DEF Priced
<1>5. /\ ContextFields \subseteq DOMAIN c /\ c.gas = g.gas /\ c.memory = g.mem /\ c.size = size
      /\ c.fee = g.fee /\ c.operands = v /\ c.fork = session.config.fork /\ c.n = op.n
  BY DEF Context, ContextFields
<1>6. op.n \in Nat /\ PaidFor(g.mem, g.fee)
  BY <1>2 DEF Priced, Fine, Solid
<1>7. Asking(c)
  BY <1>1, <1>2, <1>3, <1>4, <1>5, <1>6 DEF Asking
<1> QED BY <1>2, <1>4, <1>5, <1>7 DEF Answered

\* Memory grows only as far as it is paid for.
LEMMA MemoryBought ==
    ASSUME NEW c, Asking(c), NEW op, Priced(op), op.memorySize = "none" => c.size = 0,
           NEW q, Quoting(op.dynamicGas, c, q), q.cost # Refused
    PROVE  PaidFor(IF c.size > c.memory THEN c.size ELSE c.memory, q.fee)
<1>1. CASE op.dynamicGas \in Charging
  <2>1. memoryGasCost(c).cost # Refused /\ q.fee = memoryGasCost(c).fee
    BY <1>1 DEF Quoting, Fed
  <2> QED BY <2>1, MemoryQuote DEF Larger
<1>2. CASE op.dynamicGas \notin Charging
  <2>1. c.size = 0 /\ q.fee = c.fee
    BY <1>2 DEF Priced, Quoting
  <2>2. PICK k \in Nat : c.memory = k * WordBytes /\ c.fee = TotalFee(k) /\ c.memory <= MaxMemory
    BY DEF Asking, PaidFor
  <2>3. c.memory \in Nat
    BY <2>2, WordCount
  <2>4. ~(c.size > c.memory)
    BY <2>1, <2>3
  <2> QED BY <2>1, <2>2, <2>4 DEF PaidFor
<1> QED BY <1>1, <1>2

\* The gas a call is lent besides what it was given is less than what it paid to transfer.
LEMMA StipendPaid ==
    ASSUME NEW execute, NEW v \in [1..17 -> Nat]
    PROVE  LET value == IF execute \in {"opCall", "opCallCode"} THEN Back(v, 2) ELSE 0
           IN  /\ StipendOf(execute, v) \in Nat
               /\ StipendOf(execute, v) <= IF value # 0 THEN Price["CallValueTransferGas"] ELSE 0
  BY PriceAssumption, PriceRange, TopNat DEF StipendOf, Stipend, Prices

LEMMA PaidSpent ==
    ASSUME session \in Sessions, Transaction, Fine(Current), Current.gas \in 0..Top,
           NEW v \in OperandsOf(Operation), NEW p, p = Paid(Operation, v), p.ok
    PROVE  Spent(Operation.execute, v, p)
<1> DEFINE op == Operation
           f == Current
<1>1. Priced(op) /\ (op.dynamicGas \in ColdCallGas => IsRule("TangerineWhistle"))
  BY OperationPriced
<1>2. ~Lite(f) /\ FrameFields \subseteq DOMAIN f
  BY DEF Fine, Solid
<1>3. PICK g, size, q, due :
              /\ due = Cost(op.constantGas) /\ ~(f.gas < due)
              /\ g = [f EXCEPT !.gas = @ - due]
              /\ size = MemorySize(op, v) /\ size # Refused
              /\ q = Quoted(g, op, size, v)
              /\ p = Settled(g, size, q, IF Charged(g) THEN q.cost ELSE 0)
  BY <1>2, PaidSettled
<1> DEFINE c == Context(g, op, size, v)
<1>4. due \in Nat /\ (op.constantGas # "Free" => due >= 1)
  BY <1>1, <1>3, DueNat DEF Priced
<1>5. /\ Fine(g) /\ g.gas = f.gas - due
      /\ Asking(c) /\ c.gas = g.gas /\ c.memory = g.mem /\ c.size = size /\ c.fee = g.fee
      /\ c.operands = v /\ c.fork = session.config.fork
      /\ op.memorySize = "none" => size = 0
  <2>1. Asks(f, due, g, op, v, size, c)
    BY <1>1, <1>3, <1>4 DEF Asks
  <2> HIDE DEF op, f, c
  <2>2. Answered(f, due, g, op, v, size, c)
    BY <2>1, AskingFrame
  <2> QED BY <2>2 DEF Answered
<1>6. Charged(g) /\ q = dynamicGas(op.dynamicGas, c)
  <2>1. ~Lite(g)
    BY <1>5 DEF Fine, Solid
  <2> QED BY <1>3, <2>1 DEF Charged, Transaction, Quoted
<1>7. /\ q.cost # Refused /\ q.gas >= q.cost /\ p.temp = q.temp
      /\ FrameFields \subseteq DOMAIN p.frame
      /\ p.frame.gas = q.gas - q.cost /\ p.frame.fee = q.fee
      /\ p.frame.mem = IF size > g.mem THEN size ELSE g.mem
      /\ p.frame.kind = g.kind /\ p.frame.code = g.code /\ p.frame.pc = g.pc
      /\ p.frame.saved = g.saved
  <2>1. FrameFields \subseteq DOMAIN g /\ p = Settled(g, size, q, q.cost)
    BY <1>3, <1>5, <1>6 DEF Fine, Solid
  <2> QED BY <2>1, SettledParts
<1> HIDE DEF c
<1>8. Quoting(op.dynamicGas, c, q)
  BY <1>1, <1>5, <1>6, GasQuoted DEF IsRule
<1>9. q.cost \in Nat /\ q.gas = f.gas - due /\ p.frame.gas = f.gas - due - q.cost
  BY <1>5, <1>7, <1>8 DEF Quoting, Sound
<1>10. PaidFor(p.frame.mem, p.frame.fee)
  BY <1>1, <1>5, <1>7, <1>8, MemoryBought
<1>11. Fine(p.frame)
  <2>1. p.frame.gas \in Nat
    BY <1>7, <1>9, <1>4
  <2> QED BY <1>5, <1>7, <1>10, <2>1 DEF Fine, Solid, Lite
<1>12. p.frame.gas <= f.gas
  BY <1>4, <1>9
<1>13. op.execute \notin Ending => p.frame.gas < f.gas
  <2>1. op.execute \notin Ending => due >= 1 \/ q.cost # 0
    BY <1>1, <1>4, <1>8 DEF Priced, Quoting
  <2> QED BY <1>4, <1>9, <2>1
<1>14. ASSUME op.execute \in CallFunctions
       PROVE  p.temp \in Nat /\ p.frame.gas + p.temp + StipendOf(op.execute, v) < f.gas
  <2> DEFINE value == IF op.execute \in {"opCall", "opCallCode"} THEN Back(v, 2) ELSE 0
  <2>1. due >= 1 /\ op.dynamicGas \in CallGas[op.execute]
    BY <1>1, <1>4, <1>14 DEF Priced
  <2>2. CallQuotes(c, op.execute, q)
    BY <1>1, <1>5, <1>6, <1>14, <2>1, CallsQuoted DEF IsRule
  <2>3. q.temp \in Nat /\ q.cost >= q.temp + IF value # 0 THEN Price["CallValueTransferGas"] ELSE 0
    BY <1>5, <1>7, <2>2 DEF CallQuotes, Called
  <2>4. /\ StipendOf(op.execute, v) \in Nat
        /\ StipendOf(op.execute, v) <= IF value # 0 THEN Price["CallValueTransferGas"] ELSE 0
    BY OperandsFound, StipendPaid
  <2>5. Price["CallValueTransferGas"] \in Nat
    BY PriceRange, TopNat DEF Prices
  <2> HIDE DEF value
  <2> QED BY <1>4, <1>7, <1>9, <2>1, <2>3, <2>4, <2>5
<1> QED BY <1>11, <1>12, <1>13, <1>14 DEF Spent

----------------------------------------------------------------------------
(* Execute: the gas falls, or a frame is gone                              *)

Falls ==
    /\ Sturdy(frames') /\ Coded(world') /\ TotalGas(frames') \in Nat
    /\ \/ TotalGas(frames') < TotalGas(frames)
       \/ TotalGas(frames') = TotalGas(frames) /\ Len(frames') < Len(frames)

LEMMA FallsByGas ==
    ASSUME Running, NEW gas \in Int, gas < Current.gas, Keeps(TotalGas(Below(frames)) + gas)
    PROVE  Falls
<1>1. TotalGas(Below(frames)) \in Nat /\ Current.gas \in Nat
      /\ TotalGas(frames) = TotalGas(Below(frames)) + Current.gas
  BY RunningParts
<1> QED BY <1>1 DEF Keeps, Falls

LEMMA FallsByFrame ==
    ASSUME Running, NEW gas \in Int, gas <= Current.gas, Keeps(TotalGas(Below(frames)) + gas),
           Len(frames') = Len(Below(frames))
    PROVE  Falls
<1>1. TotalGas(Below(frames)) \in Nat /\ Current.gas \in Nat
      /\ TotalGas(frames) = TotalGas(Below(frames)) + Current.gas
      /\ Len(frames) = Len(Below(frames)) + 1 /\ Len(Below(frames)) \in Nat
  BY RunningParts
<1> QED BY <1>1 DEF Keeps, Falls

LEMMA PanicFalls ==
    ASSUME Running, NEW what, Panic(what)
    PROVE  Falls
<1>1. frames' = <<>> /\ world' = world
  BY DEF Panic
<1>2. Sturdy(frames') /\ TotalGas(frames') = 0 /\ Len(frames') = 0
  BY <1>1, SturdyEmpty
<1>3. TotalGas(frames) \in Nat /\ Len(frames) \in Nat /\ Len(frames) > 0
  BY RunningParts
<1> QED BY <1>1, <1>2, <1>3 DEF Falls, Running

\* The frame as an instruction left it, and the state.
Holds(f, w) == ~Lite(f) /\ Coded(f.saved) /\ Coded(w) /\ f.gas \in Nat /\ f.gas <= Current.gas

LEMMA DepositFalls ==
    ASSUME Running, NEW f, NEW w, Holds(f, w), NEW size \in Nat, Deposit(f, w, size)
    PROVE  Falls
<1> DEFINE b == Below(frames)
           cost == size * Price["CreateDataGas"]
           noted == Journal(w, f.serial, "code")
           codes == [noted.code EXCEPT ![f.self] = IF size = 0 THEN 0 ELSE Deployed]
           coded == [noted EXCEPT !.code[f.self] = IF size = 0 THEN 0 ELSE Deployed]
<1>1. Coded(noted)
  BY OperationsCoded DEF Holds
<1>2. Coded(coded)
  <2> HIDE DEF noted
  <2>1. coded = [noted EXCEPT !.code = codes]
    OBVIOUS
  <2>2. codes \in [Accounts -> {0} \cup DOMAIN Programs]
    BY <1>1, ProgramsAssumption DEF Coded
  <2> HIDE DEF codes
  <2> QED BY <1>1, <2>1, <2>2 DEF Coded, WorldFields
<1>3. cost \in Nat
  BY Products, PriceRange, TopNat DEF Prices
<1>4. \/ Returns(b, 0, FALSE, f.saved)
      \/ cost <= f.gas /\ Returns(b, f.gas - cost, TRUE, coded)
      \/ Returns(b, f.gas, TRUE, w)
  BY Zenon DEF Deposit, noted, cost
<1>5. Sturdy(b)
  BY RunningParts
<1> HIDE DEF b, cost, coded
<1>6. PICK left \in Nat : left <= f.gas /\ \E ok, w1 : Coded(w1) /\ Returns(b, left, ok, w1)
  <2>1. f.gas \in Nat /\ Coded(f.saved) /\ Coded(w)
    BY DEF Holds
  <2>2. CASE Returns(b, 0, FALSE, f.saved)
    <3>1. 0 \in Nat /\ 0 <= f.gas
      BY <2>1
    <3> QED BY <2>1, <2>2, <3>1, Zenon
  <2>3. CASE cost <= f.gas /\ Returns(b, f.gas - cost, TRUE, coded)
    <3>1. f.gas - cost \in Nat /\ f.gas - cost <= f.gas
      BY <1>3, <2>1, <2>3
    <3> QED BY <1>2, <2>3, <3>1, Zenon
  <2>4. CASE Returns(b, f.gas, TRUE, w)
    <3>1. f.gas <= f.gas
      BY <2>1
    <3> QED BY <2>1, <2>4, <3>1, Zenon
  <2> QED BY <1>4, <2>2, <2>3, <2>4
<1>7. Keeps(TotalGas(b) + left) /\ Len(frames') = Len(b)
  BY <1>5, <1>6, ReturnsKeeps
<1>8. Current.gas \in Nat
  BY RunningParts
<1>9. left <= Current.gas
  BY <1>6, <1>8 DEF Holds
<1> QED BY <1>6, <1>7, <1>9, FallsByFrame DEF b

LEMMA FailFalls ==
    ASSUME Running, NEW f, ~Lite(f), Coded(f.saved), NEW w, NEW size, Ends("fail", f, w, size)
    PROVE  Falls
<1>1. Resume(Below(frames), 0, FALSE, f.saved, Released(f))
  <2>1. /\ Left("fail", f) = 0 /\ Kept("fail", f, w) = f.saved /\ ("fail" = "ok") = FALSE
    BY DEF Left, Kept
  <2>2. Resume(Below(frames), Left("fail", f), "fail" = "ok", Kept("fail", f, w), Released(f))
    BY Zenon DEF Ends
  <2> QED BY <2>1, <2>2, Zenon
<1>2. Sturdy(Below(frames)) /\ Current.gas \in Nat
  BY RunningParts
<1> DEFINE ok == FALSE
<1>3. Resume(Below(frames), 0, ok, f.saved, Released(f))
  BY <1>1
<1> HIDE DEF ok
<1>4. Keeps(TotalGas(Below(frames)) + 0) /\ Len(frames') = Len(Below(frames))
  BY <1>2, <1>3, ResumeKeeps
<1> QED BY <1>2, <1>4, FallsByFrame

LEMMA EndsFalls ==
    ASSUME Running, NEW f, NEW w, Holds(f, w), NEW outcome \in {"ok", "revert", "fail"}, NEW size \in Nat,
           Ends(outcome, f, w, size)
    PROVE  Falls
<1>1. CASE Deposit(f, w, size)
  BY <1>1, DepositFalls
<1>2. CASE Resume(Below(frames), Left(outcome, f), outcome = "ok", Kept(outcome, f, w), Released(f))
  <2> DEFINE ok == outcome = "ok"
             left == Left(outcome, f)
             w1 == Kept(outcome, f, w)
  <2>1. left \in Nat /\ left <= Current.gas /\ Coded(w1)
    <3>1. Current.gas \in Nat
      BY RunningParts
    <3> QED BY <3>1 DEF Left, Kept, Holds
  <2>2. Resume(Below(frames), left, ok, w1, Released(f))
    BY <1>2
  <2>3. Sturdy(Below(frames))
    BY RunningParts
  <2> HIDE DEF ok, left, w1
  <2>4. Keeps(TotalGas(Below(frames)) + left) /\ Len(frames') = Len(Below(frames))
    BY <2>1, <2>2, <2>3, ResumeKeeps
  <2> QED BY <2>1, <2>4, FallsByFrame
<1> QED BY <1>1, <1>2, Zenon DEF Ends, Holds

LEMMA GoesOnFalls ==
    ASSUME Running, NEW f, Solid(f), f.pc \in Int, f.pc + 1 \in Nat, f.gas < Current.gas,
           NEW w, Coded(w), GoesOn(f, w)
    PROVE  Falls
<1>1. Sturdy(Below(frames)) /\ Continue(Below(frames), f, w, readOnly)
  BY RunningParts DEF GoesOn
<1>2. Keeps(TotalGas(Below(frames)) + f.gas)
  BY <1>1, ContinueKeeps
<1> QED BY <1>2, FallsByGas DEF Solid

\* What execute may count on.
Ready(op, v, p) ==
    /\ Running /\ op.n \in Nat /\ v \in OperandsOf(op)
    /\ Spent(op.execute, v, p) /\ Coded(p.world)

LEMMA ReadyParts ==
    ASSUME NEW op, NEW v, NEW p, Ready(op, v, p)
    PROVE  /\ Running /\ Fine(p.frame) /\ Coded(p.world) /\ Holds(p.frame, p.world)
           /\ op.execute \notin Ending => p.frame.gas < Current.gas
           /\ Solid(Advanced(p.frame, op)) /\ Advanced(p.frame, op).gas = p.frame.gas
           /\ Advanced(p.frame, op).pc + 1 \in Nat /\ Advanced(p.frame, op).pc \in Nat
           /\ Advanced(p.frame, op).kind = p.frame.kind
           /\ Fine(Waiting(op, p.frame)) /\ Waiting(op, p.frame).gas = p.frame.gas
           /\ v \in [1..17 -> Nat]
<1>1. Fine(p.frame) /\ Coded(p.world) /\ v \in [1..17 -> Nat]
  BY OperandsFound DEF Ready, Spent
<1>2. Holds(p.frame, p.world)
  BY <1>1 DEF Ready, Spent, Holds, Fine, Solid
<1>3. Skips(op) \in Nat
  BY DEF Skips, Ready
<1>4. /\ Solid(Advanced(p.frame, op)) /\ Advanced(p.frame, op).gas = p.frame.gas
      /\ Advanced(p.frame, op).pc + 1 \in Nat /\ Advanced(p.frame, op).pc \in Nat
      /\ Advanced(p.frame, op).kind = p.frame.kind
  <2> DEFINE f == p.frame
             pc == f.pc + Skips(op)
             height == f.height + EffectOf(op).delta
             g == [f EXCEPT !.height = height, !.pc = pc]
  <2>1. pc \in Nat
    BY <1>1, <1>3 DEF Fine
  <2>2. Advanced(f, op) = g
    BY DEF Advanced
  <2> HIDE DEF pc, height, f
  <2>3. Fine(f)
    BY <1>1 DEF f
  <2>4. Solid(g) /\ g.gas = f.gas /\ g.pc = pc /\ g.kind = f.kind
    BY <2>3 DEF Fine, Solid, FrameFields, Lite
  <2> HIDE DEF g
  <2> QED BY <2>1, <2>2, <2>4 DEF f
<1>5. Fine(Waiting(op, p.frame)) /\ Waiting(op, p.frame).gas = p.frame.gas
  BY <1>1 DEF Waiting, Fine, Solid, FrameFields, Lite
<1> QED BY <1>1, <1>2, <1>4, <1>5 DEF Ready, Spent

LEMMA HaltingFalls ==
    ASSUME NEW op, NEW v, NEW p, Ready(op, v, p), Halting(op, v, p)
    PROVE  Falls
<1>1. Running /\ Holds(p.frame, p.world) /\ v \in [1..17 -> Nat]
  BY ReadyParts
<1>2. \E outcome \in {"ok", "revert", "fail"} : \E size \in {0, Back(v, 1)} :
         Ends(outcome, p.frame, p.world, size)
  BY Zenon DEF Halting
<1>3. Back(v, 1) \in Nat /\ 0 \in Nat
  BY <1>1 DEF Back
<1> QED BY <1>1, <1>2, <1>3, EndsFalls

LEMMA JumpingFalls ==
    ASSUME NEW op, NEW v, NEW p, Ready(op, v, p), Jumping(op, v, p)
    PROVE  Falls
<1> DEFINE f == Advanced(p.frame, op)
           pc == Back(v, 0) - 1
           g == [f EXCEPT !.pc = Back(v, 0) - 1]
<1>1. /\ Running /\ Holds(p.frame, p.world) /\ Solid(f) /\ f.gas = p.frame.gas
      /\ f.pc \in Nat /\ f.pc + 1 \in Nat /\ Coded(p.world) /\ v \in [1..17 -> Nat]
      /\ op.execute \notin Ending => p.frame.gas < Current.gas
  BY ReadyParts
<1>2. op.execute \in {"opJump", "opJumpi"}
  BY DEF Jumping
<1>3. p.frame.gas < Current.gas
  BY <1>1, <1>2 DEF Ending
<1>4. \/ \E outcome \in {"ok", "fail"} : Ends(outcome, p.frame, p.world, 0)
      \/ GoesOn(f, p.world) \/ GoesOn(g, p.world)
  BY Zenon DEF Jumping
<1> HIDE DEF f
<1>5. pc \in Int /\ pc + 1 \in Nat
  BY <1>1 DEF Back
<1>6. g = [f EXCEPT !.pc = pc]
  OBVIOUS
<1> HIDE DEF pc
<1>7. Solid(g) /\ g.pc = pc /\ g.gas = f.gas
  BY <1>1, <1>6 DEF Solid, FrameFields, Lite
<1> HIDE DEF g
<1>8. CASE GoesOn(f, p.world)
  BY <1>1, <1>3, <1>8, GoesOnFalls
<1>9. CASE GoesOn(g, p.world)
  BY <1>1, <1>3, <1>5, <1>7, <1>9, GoesOnFalls
<1>10. CASE \E outcome \in {"ok", "fail"} : Ends(outcome, p.frame, p.world, 0)
  BY <1>1, <1>10, EndsFalls
<1> QED BY <1>4, <1>8, <1>9, <1>10

LEMMA WritingFalls ==
    ASSUME NEW op, NEW v, NEW p, Ready(op, v, p), Writing(op, v, p)
    PROVE  Falls
<1> DEFINE f == Advanced(p.frame, op)
           w == p.world
           noted == Journal(w, f.serial, "slot")
           slots == [noted.slot EXCEPT ![f.self] = Back(v, 1)]
           stored == [noted EXCEPT !.slot[f.self] = Back(v, 1)]
<1>1. /\ Running /\ Solid(f) /\ f.gas = p.frame.gas /\ f.pc \in Nat /\ f.pc + 1 \in Nat /\ Coded(w)
      /\ op.execute \notin Ending => p.frame.gas < Current.gas
  BY ReadyParts
<1>2. op.execute \in {"opSstore", "opTstore", "makeLog"}
  BY DEF Writing
<1>3. f.gas < Current.gas
  BY <1>1, <1>2 DEF Ending
<1>4. \A change : Coded(Journal(w, f.serial, change))
  BY <1>1, OperationsCoded
<1>5. Coded(stored)
  <2>1. Coded(noted)
    BY <1>4
  <2> HIDE DEF noted
  <2>2. stored = [noted EXCEPT !.slot = slots]
    OBVIOUS
  <2> HIDE DEF slots
  <2> QED BY <2>1, <2>2, OperationsCoded
<1>6. \E w1 \in {w, stored, Journal(w, f.serial, "transient"), Journal(w, f.serial, "log")} : GoesOn(f, w1)
  BY Zenon DEF Writing
<1> HIDE DEF f, stored
<1>7. PICK w1 : Coded(w1) /\ GoesOn(f, w1)
  BY <1>1, <1>4, <1>5, <1>6
<1> QED BY <1>1, <1>3, <1>7, GoesOnFalls

LEMMA DestructingFalls ==
    ASSUME NEW op, NEW v, NEW p, Ready(op, v, p), Destructing(op, v, p)
    PROVE  Falls
<1> DEFINE f == p.frame
           self == f.self
           to == Back(v, 0)
           balance == p.world.balance[self]
           w == Journal(p.world, f.serial, "destruct")
           added == AddBalance(w, to, balance)
           balances == [w.balance EXCEPT ![self] = 0]
           emptied == [w EXCEPT !.balance[self] = 0]
           moved == AddBalance(emptied, to, balance)
<1>1. Running /\ Holds(f, p.world) /\ Coded(p.world)
  BY ReadyParts
<1>2. Coded(w)
  BY <1>1, OperationsCoded
<1>3. Coded(emptied)
  <2> HIDE DEF w
  <2>1. emptied = [w EXCEPT !.balance = balances]
    OBVIOUS
  <2> HIDE DEF balances
  <2> QED BY <1>2, <2>1, OperationsCoded
<1> HIDE DEF w, emptied, balance
<1>4. Coded(added) /\ Coded(moved)
  BY <1>2, <1>3, OperationsCoded
<1> HIDE DEF added, moved
<1>5. Coded(SelfDestruct(added, self)) /\ Coded(SelfDestruct(moved, self))
  BY <1>4, OperationsCoded
<1>6. \E w1 \in {SelfDestruct(added, self), SelfDestruct(moved, self), moved} : Ends("ok", f, w1, 0)
  BY Zenon DEF Destructing, w, emptied, balance, added, moved
<1>7. PICK w1 : Coded(w1) /\ Ends("ok", f, w1, 0)
  BY <1>4, <1>5, <1>6
<1>8. Holds(f, w1) /\ 0 \in Nat /\ "ok" \in {"ok", "revert", "fail"}
  BY <1>1, <1>7 DEF Holds
<1> QED BY <1>1, <1>7, <1>8, EndsFalls

\* The stack of a caller that waits, with what it keeps for itself.
LEMMA WaitingSturdy ==
    ASSUME NEW op, NEW v, NEW p, Ready(op, v, p), NEW kept \in Nat, NEW f,
           f = [Waiting(op, p.frame) EXCEPT !.gas = kept]
    PROVE  /\ Sturdy(Append(Below(frames), f)) /\ TotalGas(Append(Below(frames), f)) = TotalGas(Below(frames)) + kept
           /\ TotalGas(Below(frames)) \in Nat
<1>1. Fine(Waiting(op, p.frame))
  BY ReadyParts
<1>2. Fine(f) /\ f.gas = kept
  BY <1>1 DEF Fine, Solid, FrameFields, Lite
<1>3. Sturdy(Below(frames)) /\ TotalGas(Below(frames)) \in Nat
  BY RunningParts DEF Ready
<1> QED BY <1>2, <1>3, SturdyTotal

LEMMA CallingFalls ==
    ASSUME NEW op, NEW v, NEW p, Ready(op, v, p), Calling(op, v, p)
    PROVE  Falls
<1> DEFINE f == p.frame
           g == Waiting(op, f)
           b == Append(Below(frames), g)
           from == f.self
           to == Back(v, 1)
           value == Back(v, 2)
<1>1. /\ Running /\ Fine(f) /\ Fine(g) /\ g.gas = f.gas /\ Coded(p.world)
      /\ v \in [1..17 -> Nat]
  BY ReadyParts
<1>2. op.execute \in CallFunctions /\ v \in Operands[op.execute] /\ to \in Accounts
  <2>1. op.execute \in CallFunctions
    BY DEF Calling, CallFunctions
  <2>2. v \in Operands[op.execute]
    BY <2>1, OperandsAssumption DEF Ready, OperandsOf
  <2> QED BY <2>1, <2>2, OperandsAssumption DEF Back
<1>3. p.temp \in Nat /\ f.gas + p.temp + StipendOf(op.execute, v) < Current.gas /\ f.gas \in Nat
  BY <1>1, <1>2 DEF Ready, Spent, Fine, Solid
<1>4. StipendOf(op.execute, v) \in Nat
  BY <1>1, StipendPaid
<1>5. Sturdy(b) /\ TotalGas(b) = TotalGas(Below(frames)) + f.gas /\ TotalGas(Below(frames)) \in Nat
  BY <1>1, RunningParts, SturdyTotal
<1> DEFINE lent == p.temp + StipendOf(op.execute, v)
<1>6. lent \in Nat /\ Wrap(lent) \in Nat /\ Wrap(lent) <= lent /\ p.temp <= lent
  <2>1. lent \in Nat /\ p.temp <= lent
    BY <1>3, <1>4
  <2> HIDE DEF lent
  <2> QED BY <2>1, WrapLess
<1>7. \E gas \in {Wrap(lent), p.temp} :
         \/ Call(b, from, to, gas, value, p.world)
         \/ CallCode(b, from, to, gas, value, p.world)
         \/ DelegateCall(b, from, to, gas, p.world)
         \/ StaticCall(b, to, gas, p.world)
  <2>1. op.execute \in {"opCall", "opCallCode"} => StipendOf(op.execute, v) = Stipend(value)
    BY DEF StipendOf
  <2>2. op.execute \in {"opCall", "opCallCode"} => lent = p.temp + Stipend(value)
    BY <2>1
  <2>3. CASE op.execute = "opCall" /\ Call(b, from, to, Wrap(p.temp + Stipend(value)), value, p.world)
    BY <2>2, <2>3
  <2>4. CASE op.execute = "opCallCode" /\ CallCode(b, from, to, Wrap(p.temp + Stipend(value)), value, p.world)
    BY <2>2, <2>4
  <2>5. CASE DelegateCall(b, from, to, p.temp, p.world) \/ StaticCall(b, to, p.temp, p.world)
    BY <2>5
  <2> QED BY <2>3, <2>4, <2>5, Zenon DEF Calling
<1> HIDE DEF b, from, to, value, f, g
<1>8. PICK gas \in Nat : gas <= lent /\
         \/ Call(b, from, to, gas, value, p.world)
         \/ CallCode(b, from, to, gas, value, p.world)
         \/ DelegateCall(b, from, to, gas, p.world)
         \/ StaticCall(b, to, gas, p.world)
  <2> HIDE DEF lent
  <2> QED BY <1>3, <1>6, <1>7
<1>9. Keeps(TotalGas(b) + gas)
  BY <1>1, <1>2, <1>5, <1>8, CallKeeps, BorrowedKeeps DEF Meets
<1>10. Current.gas \in Nat
  <2>1. Current.gas \in 0..Top
    BY <1>1, RunningParts, Zenon
  <2> QED BY <2>1, TopNat
<1>11. f.gas + gas \in Nat /\ f.gas + gas < Current.gas
  BY <1>3, <1>4, <1>8, <1>10 DEF f
<1>12. Keeps(TotalGas(Below(frames)) + (f.gas + gas))
  <2>1. f.gas \in Nat
    BY <1>3 DEF f
  <2>2. TotalGas(b) + gas = TotalGas(Below(frames)) + (f.gas + gas)
    BY <1>5, <2>1
  <2> QED BY <1>9, <2>2
<1> QED BY <1>1, <1>11, <1>12, FallsByGas

LEMMA CreatingFalls ==
    ASSUME NEW op, NEW v, NEW p, Ready(op, v, p), Creating(op, v, p)
    PROVE  Falls
<1> DEFINE f == p.frame
           kept == IF op.execute = "opCreate" /\ ~IsRule("TangerineWhistle") THEN 0 ELSE f.gas \div 64
           g == [Waiting(op, f) EXCEPT !.gas = kept]
           b == Append(Below(frames), g)
<1>1. /\ Running /\ Fine(f) /\ Coded(p.world)
      /\ op.execute \notin Ending => f.gas < Current.gas
  BY ReadyParts
<1>2. f.gas \in Nat /\ f.gas < Current.gas
  BY <1>1 DEF Creating, Ending, Fine, Solid
<1>3. kept \in Nat /\ f.gas - kept \in Nat
  <2> DEFINE k == f.gas \div 64
  <2>1. 64 \in Nat \ {0} /\ f.gas \in Int /\ f.gas >= 0
    BY <1>2
  <2>2. k \in Int /\ f.gas % 64 \in 0..(64 - 1) /\ f.gas = 64 * k + (f.gas % 64) /\ k >= 0
    BY <2>1, Division, Zenon
  <2> HIDE DEF k
  <2>3. k \in Nat /\ f.gas - k \in Nat
    BY <2>2
  <2> QED BY <1>2, <2>3 DEF k
<1>4. \E kind \in CreateKinds : create(kind, b, f.self, f.gas - kept, Back(v, 0), Back(v, 2), p.world)
  BY Zenon DEF Creating, CreateKinds
<1>5. g = [Waiting(op, p.frame) EXCEPT !.gas = kept]
  OBVIOUS
<1> HIDE DEF kept, g
<1>6. Sturdy(b) /\ TotalGas(b) = TotalGas(Below(frames)) + kept /\ TotalGas(Below(frames)) \in Nat
  BY <1>3, <1>5, WaitingSturdy
<1> HIDE DEF b
<1> DEFINE gas == f.gas - kept
<1>7. gas \in Nat /\ TotalGas(b) + gas = TotalGas(Below(frames)) + f.gas
  BY <1>2, <1>3, <1>6
<1>8. \E kind \in CreateKinds : create(kind, b, f.self, gas, Back(v, 0), Back(v, 2), p.world)
  BY <1>4
<1> HIDE DEF gas
<1>9. Keeps(TotalGas(b) + gas)
  BY <1>1, <1>6, <1>7, <1>8, CreateKeeps DEF Meets
<1> QED BY <1>1, <1>2, <1>7, <1>9, FallsByGas

LEMMA ComputingFalls ==
    ASSUME NEW op, NEW v, NEW p, Ready(op, v, p), Computing(op, p)
    PROVE  Falls
<1>1. /\ Running /\ Holds(p.frame, p.world) /\ Coded(p.world)
      /\ Solid(Advanced(p.frame, op)) /\ Advanced(p.frame, op).gas = p.frame.gas
      /\ Advanced(p.frame, op).pc + 1 \in Nat /\ Advanced(p.frame, op).pc \in Nat
      /\ op.execute \notin Ending => p.frame.gas < Current.gas
  BY ReadyParts
<1>2. op.execute \notin Ending
  BY DEF Computing, Special, Writes, Ending
<1>3. CASE GoesOn(Advanced(p.frame, op), p.world)
  BY <1>1, <1>2, <1>3, GoesOnFalls
<1>4. CASE Ends("fail", p.frame, p.world, 0)
  BY <1>1, <1>4, EndsFalls
<1> QED BY <1>3, <1>4 DEF Computing

LEMMA ExecuteFalls ==
    ASSUME NEW op, NEW v, NEW p, Ready(op, v, p), Execute(op, v, p)
    PROVE  Falls
<1>1. CASE Ends("fail", p.frame, p.world, 0)
  BY <1>1, ReadyParts, EndsFalls
<1> QED BY <1>1, HaltingFalls, JumpingFalls, WritingFalls, DestructingFalls, CallingFalls,
           CreatingFalls, ComputingFalls, Zenon DEF Execute

----------------------------------------------------------------------------
(* Every step                                                              *)

LEMMA AlikeCoded ==
    ASSUME NEW w, Coded(w), NEW w1, Alike(w1, w)
    PROVE  Coded(w1)
<1>1. w1.code = w.code
  BY DEF Alike, Content
<1> QED BY <1>1 DEF Coded, Alike

LEMMA StepFalls ==
    ASSUME Running, Step
    PROVE  Falls
<1>1. Fine(Current) /\ Current.gas \in 0..Top /\ WorldFields \subseteq DOMAIN world
      /\ FrameFields \subseteq DOMAIN Current /\ session \in Sessions /\ Transaction
  BY RunningParts DEF Running, Coded, Fine, Solid
<1>2. Priced(Operation) /\ Operation.n \in Nat
  BY <1>1, OperationPriced DEF Priced
<1>3. ASSUME NEW v \in OperandsOf(Operation), NEW p, p = Paid(Operation, v),
             Turn(Operation, v, p, Broken(Operation, v, p))
      PROVE  Falls
  <2>1. SameFrame(p.frame, Current) /\ Alike(p.world, world)
    BY <1>1, <1>3, PaidSame
  <2>2. Coded(p.world)
    BY <2>1, AlikeCoded DEF Running
  <2>3. ~Lite(p.frame) /\ Coded(p.frame.saved)
    BY <1>1, <2>1 DEF SameFrame, Fine, Solid, Lite
  <2>4. CASE p.ok /\ Execute(Operation, v, p)
    <3>1. Spent(Operation.execute, v, p)
      BY <1>1, <1>3, <2>4, PaidSpent
    <3>2. Ready(Operation, v, p)
      BY <1>2, <2>2, <3>1 DEF Ready
    <3> QED BY <2>4, <3>2, ExecuteFalls
  <2>5. CASE Ends("fail", p.frame, p.world, 0)
    BY <2>3, <2>5, FailFalls
  <2>6. \/ \E what : Panic(what)
        \/ Ends("fail", p.frame, p.world, 0)
        \/ p.ok /\ Execute(Operation, v, p)
    BY <1>3, Zenon DEF Turn
  <2> QED BY <2>4, <2>5, <2>6, PanicFalls
<1>4. \/ Panic("checkpoint")
      \/ \E v \in OperandsOf(Operation) : \E p \in {Paid(Operation, v)} :
            Turn(Operation, v, p, Broken(Operation, v, p))
  BY Zenon DEF Step, Serve
<1> QED BY <1>3, <1>4, PanicFalls

Metering == Sturdy(frames) /\ Coded(world) /\ TotalGas(frames) <= Top

MeterInv == session \in Sessions /\ (Transaction => Metering)

LEMMA PreparedCoded ==
    ASSUME NEW w, Coded(w), NEW named
    PROVE  Coded(Prepared(w, named))
  BY DEF Prepared, Coded, WorldFields

\* A session starts with the gas it was given, and nobody on the stack.
LEMMA HostMeets ==
    ASSUME MeterInv, Transaction, frames = <<>>, NEW named
    PROVE  /\ Meets(<<>>, Prepared(world, named), session.gas) /\ TotalGas(<<>>) = 0
           /\ session.gas \in 0..Top /\ session.to \in Accounts
<1>1. Sturdy(<<>>) /\ TotalGas(<<>>) = 0
  BY SturdyEmpty
<1>2. Coded(Prepared(world, named))
  BY PreparedCoded DEF MeterInv, Metering
<1>3. session.gas \in 0..Top /\ session.to \in Accounts
  BY SessionsAssumption DEF MeterInv
<1> QED BY <1>1, <1>2, <1>3, TopNat DEF Meets

LEMMA KeptByHost ==
    ASSUME MeterInv, Transaction, NEW gas \in 0..Top, Keeps(0 + gas)
    PROVE  Metering'
  BY TopNat DEF Keeps, Metering, Sturdy, Coded, Fine, Solid, Lite, PaidFor, IsStack

LEMMA HostKeeps ==
    ASSUME MeterInv, Transaction, Transact \/ Deploy
    PROVE  Metering'
<1>1. CASE Transact
  <2> DEFINE w == Prepared(world, {session.sender, session.to})
  <2>1. frames = <<>> /\ Call(<<>>, session.sender, session.to, session.gas, 0, w)
    BY <1>1 DEF Transact, Transaction
  <2>2. /\ Meets(<<>>, w, session.gas) /\ TotalGas(<<>>) = 0
        /\ session.gas \in 0..Top /\ session.to \in Accounts
    BY <2>1, HostMeets
  <2> HIDE DEF w
  <2>3. Keeps(0 + session.gas)
    BY <2>1, <2>2, CallKeeps
  <2> QED BY <2>2, <2>3, KeptByHost
<1>2. CASE Deploy
  <2> DEFINE w == Prepared(world, {session.sender})
  <2>1. frames = <<>> /\ create("create", <<>>, session.sender, session.gas, 0, 1, w)
    BY <1>2 DEF Deploy
  <2>2. /\ Meets(<<>>, w, session.gas) /\ TotalGas(<<>>) = 0 /\ session.gas \in 0..Top
    BY <2>1, HostMeets
  <2> HIDE DEF w
  <2>3. Keeps(0 + session.gas)
    BY <2>1, <2>2, CreateKeeps DEF CreateKinds
  <2> QED BY <2>2, <2>3, KeptByHost
<1> QED BY <1>1, <1>2

LEMMA StepMeters ==
    ASSUME MeterInv, Transaction, Step
    PROVE  Falls /\ (session' = session => Metering')
<1>1. Running
  BY DEF MeterInv, Metering, Running, Step
<1>2. Falls
  BY <1>1, StepFalls
<1>3. TotalGas(frames) \in Nat
  BY <1>1, RunningParts
<1>4. TotalGas(frames') <= TotalGas(frames) /\ TotalGas(frames') \in Nat
  BY <1>2, <1>3 DEF Falls
<1>5. TotalGas(frames') <= Top
  BY <1>1, <1>3, <1>4, TopNat DEF Running
<1>6. Metering'
  BY <1>2, <1>5 DEF Falls, Metering, Sturdy, Coded, Fine, Solid, Lite, PaidFor, IsStack
<1> QED BY <1>2, <1>6

LEMMA SameMeters ==
    ASSUME Metering, UNCHANGED <<frames, world>>
    PROVE  Metering'
  BY DEF Metering, Sturdy, Coded, Fine, Solid, Lite, PaidFor, IsStack, TotalGas

LEMMA MeterNext ==
    ASSUME MeterInv, [Next]_vars
    PROVE  MeterInv'
<1>1. session' = session
  BY DEF Next, Step, Transact, Deploy, EnterLite, Cancel, vars
<1>2. session' \in Sessions /\ (Transaction' <=> Transaction)
  BY <1>1 DEF MeterInv, Transaction
<1>3. ASSUME Transaction PROVE Metering'
  <2>1. CASE Step
    BY <1>1, <1>3, <2>1, StepMeters
  <2>2. CASE Transact \/ Deploy
    BY <1>3, <2>2, HostKeeps
  <2>3. ~(\E kind \in LiteKinds : EnterLite(kind))
    BY <1>3 DEF EnterLite, Transaction
  <2>4. CASE UNCHANGED <<frames, world>>
    BY <1>3, <2>4, SameMeters DEF MeterInv
  <2> QED BY <2>1, <2>2, <2>3, <2>4 DEF Next, Cancel, vars
<1> QED BY <1>2, <1>3 DEF MeterInv

LEMMA MeterInit ==
    ASSUME Init
    PROVE  MeterInv
<1>1. frames = <<>> /\ session \in Sessions
  BY DEF Init
<1>2. Sturdy(frames) /\ TotalGas(frames) = 0
  BY <1>1, SturdyEmpty
<1>3. session.code \in [Accounts -> {0} \cup DOMAIN Programs]
  BY <1>1, SessionsAssumption
<1>4. Coded(world)
  BY <1>3 DEF Init, Coded, WorldFields
<1> QED BY <1>1, <1>2, <1>4, TopNat DEF MeterInv, Metering

----------------------------------------------------------------------------
(* The theorems                                                            *)

LEMMA MeteredMemory ==
    ASSUME MeterInv
    PROVE  MemoryPaid
<1> SUFFICES ASSUME Transaction, NEW i \in DOMAIN frames
             PROVE  /\ frames[i].fee = TotalFee(frames[i].mem \div WordBytes)
                    /\ frames[i].mem <= MaxMemory
  BY DEF MemoryPaid
<1>1. Sturdy(frames)
  BY DEF MeterInv, Metering
<1>2. i \in 1..Len(frames)
  BY <1>1 DEF Sturdy, IsStack
<1>3. PaidFor(frames[i].mem, frames[i].fee)
  BY <1>1, <1>2 DEF Sturdy, Fine, Solid
<1>4. PICK k \in Nat : /\ frames[i].mem = k * WordBytes /\ frames[i].fee = TotalFee(k)
                       /\ frames[i].mem <= MaxMemory
  BY <1>3 DEF PaidFor
<1> QED BY <1>4, WordCount

\* What a frame of a transaction has paid for memory is the price of the memory it
\* has, and no frame has more than the size at which the square of memoryGasCost would
\* overflow, for any programs, operands, forks and prices: no gas function of
\* jump_table.go that a memory size goes with forgets to charge for it.
THEOREM MemoryIsPaid == Spec => []MemoryPaid
<1>1. Init => MeterInv
  BY MeterInit
<1>2. MeterInv /\ [Next]_vars => MeterInv'
  BY MeterNext
<1>3. MeterInv => MemoryPaid
  BY MeteredMemory
<1> QED BY <1>1, <1>2, <1>3, PTL DEF Spec

\* The gas of all the frames of a transaction is never more than before, whoever calls
\* whom, with a stipend or a reserve, and however a call ends; and an instruction that
\* ends no frame uses some.  So no program keeps the loop of Run going for ever.
THEOREM GasIsFalling == Spec => GasFalls
<1>1. Init => MeterInv
  BY MeterInit
<1>2. MeterInv /\ [Next]_vars => MeterInv'
  BY MeterNext
<1>3. MeterInv /\ [Next]_vars =>
        [Transaction /\ Step => \/ TotalGas(frames') < TotalGas(frames)
                                \/ TotalGas(frames') = TotalGas(frames) /\ Len(frames') < Len(frames)]_vars
  BY StepMeters DEF Falls
<1> QED BY <1>1, <1>2, <1>3, PTL DEF Spec, GasFalls
==============================================================================
