----------------------------- MODULE LegacyPool -----------------------------
(***************************************************************************)
(* The content of the legacy pool: which transactions are pending, which   *)
(* are queued, and the indexes kept beside the two lists (the lookup, the  *)
(* virtual nonces, the reservations, the heartbeats, the priced heaps),    *)
(* under every call that changes them.                                     *)
(*                                                                         *)
(* A transaction is its sender, its nonce, its slots and one price, which  *)
(* stands for the fee cap, the tip and the cost.  The lists are sets of    *)
(* transactions: an account without an entry in a Go map has the empty     *)
(* set, and no entry is ever left empty.  The loops of the code over the   *)
(* transactions of an account are written as what they compute.            *)
(*                                                                         *)
(* Every operator on a pool takes a record of the indexes and returns one, *)
(* so that a handler is the composition of the methods it calls.  The two  *)
(* heaps of the priced list are one bag beside it: a transaction may be in *)
(* them after it left the pool, and twice when it came back.               *)
(***************************************************************************)
EXTENDS Integers, FiniteSets, Functions, FiniteSetsExt

CONSTANTS
    Addrs,         \* the accounts
    Txs,           \* the transactions the network may bring
    MaxNonce,      \* the highest nonce of a transaction (a bound of the model)
    Heads,         \* the states a head may have: the nonce and balance of each account
    MaxLost,       \* how many transactions a reset brings back (a bound of the model)
    MaxStale,      \* how many stale entries the heaps bear before they are rebuilt
    PriceBump, AccountSlots, GlobalSlots, AccountQueue, GlobalQueue

ASSUME TxsAssumption ==
    /\ IsFiniteSet(Addrs)
    /\ IsFiniteSet(Txs)
    /\ MaxNonce \in Nat /\ MaxStale \in Nat
    /\ Txs \subseteq [from : Addrs, nonce : 0..MaxNonce, price : Nat, slots : 1..4]
ASSUME HeadsAssumption ==
    Heads \subseteq [nonce : [Addrs -> 0..MaxNonce + 1], balance : [Addrs -> Nat]]
ASSUME ConfigAssumption == \* as sanitize leaves it
    {PriceBump, AccountSlots, GlobalSlots, AccountQueue, GlobalQueue} \subseteq Nat \ {0}

VARIABLES
    pool,      \* the indexes: pending, queue, all, remote, next, reserved, beats
    priced,    \* pool.priced: how often a transaction is in its heaps
    chain,     \* currentState: the nonce and the balance of each account
    locals,    \* the accounts treated as local
    changes,   \* changesSinceReorg
    dirty,     \* the accounts with new transactions that no run has taken yet
    lost,      \* the transactions reset has still to reinject
    resetting, \* a run that resets holds the lock
    rewound    \* history: the chain has gone back, or given transactions back

vars == <<pool, priced, chain, locals, changes, dirty, lost, resetting, rewound>>

Pools == [pending : [Addrs -> SUBSET Txs],   \* pool.pending
          queue : [Addrs -> SUBSET Txs],     \* pool.queue
          all : SUBSET Txs,                  \* pool.all, both maps
          remote : SUBSET Txs,               \* pool.all.remotes
          next : [Addrs -> 0..MaxNonce + 1], \* what pool.pendingNonces.get answers
          reserved : SUBSET Addrs,           \* the reservations of this subpool
          beats : SUBSET Addrs]              \* the accounts with a heartbeat

-----------------------------------------------------------------------------
(* Lists of one account                                                     *)

Nonces(S) == {t.nonce : t \in S}

\* The price a replacement must reach.
Outbids(t, old) ==
    /\ t.price > old.price
    /\ t.price >= (old.price * (100 + PriceBump)) \div 100

\* What list.Add does with each of the transactions S, of distinct nonces:
\* those refused, those replaced, and the list afterwards.
Refused(L, S) == {t \in S : \E old \in L : old.nonce = t.nonce /\ ~Outbids(t, old)}
Replaced(L, S) == {old \in L : \E t \in S : old.nonce = t.nonce /\ Outbids(t, old)}
Merged(L, S) == (L \ Replaced(L, S)) \cup (S \ Refused(L, S))

\* The k transactions of lowest nonce, which list.Cap keeps.
Capped_OneMore(L, k) == {t \in L : Cardinality({u \in L : u.nonce < t.nonce}) <= k}
Capped(L, k) == {t \in L : Cardinality({u \in L : u.nonce < t.nonce}) < k}

\* list.Ready: the run of nonces from the lowest, if that is not above start.
Ready_Anywhere(L, start) ==
    {t \in L : \A u \in L : \A n \in u.nonce..t.nonce : n \in Nonces(L)}
Ready(L, start) ==
    {t \in L : /\ \E u \in L : u.nonce <= start
               /\ \A u \in L : \A n \in u.nonce..t.nonce : n \in Nonces(L)}

\* How many transactions the lists of the accounts A, or of all, have: no two
\* lists have one in common.
TotalOf(list, A) == Cardinality(UNION {list[a] : a \in A})
Total(list) == TotalOf(list, Addrs)

-----------------------------------------------------------------------------
(* Steps on the indexes                                                     *)

Listed(p, a) == p.pending[a] # {} \/ p.queue[a] # {}

Forget_RemoteOnly(p, S) == [p EXCEPT !.remote = @ \ S]
Forget(p, S) == [p EXCEPT !.all = @ \ S, !.remote = @ \ S]

\* pool.reserve(addr, false) for those of the accounts that have nothing left
Release(p, A) == [p EXCEPT !.reserved = @ \ {a \in A : ~Listed(p, a)}]

\* enqueueTx records a heartbeat for an account that has none.
Beat_Forgotten(p, A) == p
Beat(p, A) == [p EXCEPT !.beats = @ \cup A]

\* enqueueTx without addAll, for the transactions back[a] taken off pending
Requeue(p, back) ==
    LET q == Forget(p, UNION {Replaced(p.queue[a], back[a]) : a \in Addrs})
    IN  Beat([q EXCEPT !.queue = [a \in Addrs |-> Merged(p.queue[a], back[a])]],
             {a \in Addrs : back[a] \ Refused(p.queue[a], back[a]) # {}})

\* removeTx for each of the transactions D.  A pending one takes those behind it
\* back to the queue; both lists remove by nonce, pending first.
Cut(p, D, a) == {n \in Nonces(p.pending[a]) : \E t \in D : t.from = a /\ t.nonce = n}
Below(L, C) == {t \in L : \A n \in C : t.nonce < n}
Dequeued(p, D, a) ==
    {q \in p.queue[a] : \E t \in D : t.from = a /\ t.nonce = q.nonce /\ t.nonce \notin Cut(p, D, a)}

Unlist(p, D) ==
    LET cut(a) == Cut(p, D, a)
        stay == [a \in Addrs |-> Below(p.pending[a], cut(a))]
        back == [a \in Addrs |-> {t \in p.pending[a] \ stay[a] : t.nonce \notin cut(a)}]
        left == [Forget(p, D) EXCEPT
                    !.pending = stay,
                    !.queue = [a \in Addrs |-> p.queue[a] \ Dequeued(p, D, a)],
                    !.next = [a \in Addrs |-> Min({p.next[a]} \cup cut(a))]]
        moved == Requeue(left, back)
    IN  [moved EXCEPT !.beats = @ \ {a \in Addrs : Dequeued(p, D, a) # {} /\ moved.queue[a] = {}}]

\* The reservations of the accounts in "keep" are not given back.
RemoveTxs_Always(p, D, keep) == Release(Unlist(p, D), {t.from : t \in D})
RemoveTxs(p, D, keep) == Release(Unlist(p, D), {t.from : t \in D} \ keep)

-----------------------------------------------------------------------------
(* The priced heaps                                                         *)

\* The slots a set of transactions takes: lookup.Slots, a sum of numSlots.
Slots(S) == Cardinality({s \in S \X (1..4) : s[2] <= s[1].slots})

\* The entries of the heaps, those whose transaction is still a remote one of the
\* pool, and what Discard takes the entries E to free, counting each of them.
Entries(h) == UNION {{t} \X (1..h[t]) : t \in Txs}
Live(p, E) == {e \in E : e[1] \in p.remote}
Counted(E) == Cardinality({s \in E \X (1..4) : s[2] <= s[1][1].slots})

Put(h, t) == [h EXCEPT ![t] = @ + 1]
Popped(h, E) == [t \in Txs |-> h[t] - Cardinality({e \in E : e[1] = t})]
Reheap(R) == [t \in Txs |-> IF t \in R THEN 1 ELSE 0]

\* Removed leaves the entries of what is gone, or rebuilds the heaps from the remote
\* transactions, among which are those the call removes only later.  The code rebuilds
\* when a counter passes a quarter of the entries; the counter is not kept, and the
\* entries too many are bounded instead.
Surplus(h, p) == Cardinality(Entries(h)) - Cardinality(p.remote)

Removed(h, p, later) ==
    {g \in {h} \cup {Reheap(p.remote \cup K) : K \in SUBSET later} : Surplus(g, p) <= MaxStale}

-----------------------------------------------------------------------------
(* add                                                                      *)

Spent(p, a) == MapThenSumSet(LAMBDA t : t.price, p.pending[a])

\* validateTx: the nonce is not used, and the balance bears the transaction with
\* those pending, one of which it may replace.
Valid(p, t) ==
    LET a == t.from
        old == {o \in p.pending[a] : o.nonce = t.nonce}
    IN  /\ t \notin p.all
        /\ chain.nonce[a] <= t.nonce
        /\ t.price <= chain.balance[a]
        /\ Spent(p, a) - MapThenSumSet(LAMBDA o : o.price, old) + t.price <= chain.balance[a]

IsGapped(p, t) ==
    \E n \in p.next[t.from]..t.nonce - 1 : n \notin Nonces(p.queue[t.from])

\* The slots missing for t.
Overflow_Forgotten(p, t) == Slots(p.all) - (GlobalSlots + GlobalQueue)
Overflow(p, t) == Slots(p.all) + t.slots - (GlobalSlots + GlobalQueue)

Underpriced(p, t) ==
    LET L == Live(p, Entries(priced)) IN L # {} /\ \A e \in L : e[1].price >= t.price

\* Discard: the entries it pops for n slots, stale ones among them.  It stops once the
\* live ones count for n, however many transactions these are; which ones the heaps
\* give up first is left open.  If forced, it pops all there are when they do not do.
Discard(p, n, force) ==
    {E \in SUBSET Entries(priced) :
        \/ /\ Counted(Live(p, E)) >= n
           /\ \E last \in Live(p, E) : Counted(Live(p, E) \ {last}) < n
        \/ force /\ E = Entries(priced) /\ Counted(Live(p, E)) < n}

Victims(p, E) == {e[1] : e \in Live(p, E)}
HitsPending(p, E) == \E d \in Victims(p, E) : d.nonce \in Nonces(p.pending[d.from])

\* A full pool turns a remote transaction away when it is worth less than all the
\* others, when too much changed since the last run, when no room can be made, or when
\* one that has to wait would cost a pending one its place (the entries popped for it
\* are put back).
TurnsAway(p, t) ==
    \/ Underpriced(p, t)
    \/ changes > GlobalSlots \div 4
    \/ Discard(p, Overflow(p, t), FALSE) = {}
    \/ IsGapped(p, t) /\ \E E \in Discard(p, Overflow(p, t), FALSE) : HitsPending(p, E)

\* The entries that may be popped to let t in; none if t is refused.
RoomFor(p, t, isLocal) ==
    IF Overflow(p, t) <= 0 THEN {{}}
    ELSE {E \in Discard(p, Overflow(p, t), isLocal) :
            /\ isLocal \/ ~Underpriced(p, t)
            /\ changes <= GlobalSlots \div 4
            /\ ~isLocal /\ IsGapped(p, t) => ~HitsPending(p, E)}

\* A nonce that is pending is replaced there, any other goes to the queue.  The lists
\* refuse a transaction that does not outbid the one of its nonce.
InPlace_Never(p, t) == FALSE
InPlace(p, t) == t.nonce \in Nonces(p.pending[t.from])
Rival(p, t) == {o \in IF InPlace(p, t) THEN p.pending[t.from] ELSE p.queue[t.from] :
                    o.nonce = t.nonce}
Accepted(p, t) == \A o \in Rival(p, t) : Outbids(t, o)

Insert(p, t, isLocal) ==
    LET a == t.from
        with(L) == (L \ Rival(p, t)) \cup {t}
        q == Forget(p, Rival(p, t))
    IN  Beat([q EXCEPT
                !.pending[a] = IF InPlace(p, t) THEN with(@) ELSE @,
                !.queue[a] = IF InPlace(p, t) THEN @ ELSE with(@),
                !.all = @ \cup {t},
                !.remote = IF isLocal THEN @ ELSE @ \cup {t}], {a})

\* A local submission makes its account local, unless it replaced a pending
\* transaction, and what the account has in the pool then leaves the remotes.
LocalsWith(p, t, local) ==
    IF local /\ ~InPlace(p, t) THEN locals \cup {t.from} ELSE locals

Migrated_Not(p, marked) == p
Migrated(p, marked) ==
    IF marked = locals THEN p ELSE [p EXCEPT !.remote = {r \in @ : r.from \notin marked}]

\* What removeTx returned for the transactions that made room: those that left pending.
Dropped_Swapped(p, q) == Total(q.pending) - Total(p.pending)
Dropped(p, q) == Total(p.pending) - Total(q.pending)

\* What add(t, local) does once t is valid and the entries E were popped for it: the
\* pool, the heaps, the local accounts and the count of changes it leaves, and whether
\* the account is dirty.
IsLocal(t, local) == local \/ t.from \in locals

Outcome(p, t, local, E) ==
    LET held == [p EXCEPT !.reserved = @ \cup {t.from}]
        q == RemoveTxs(held, Victims(p, E), {t.from})
        marked == LocalsWith(q, t, local)
        entered == Migrated(Insert(q, t, IsLocal(t, local)), marked)
        refused == IF Listed(p, t.from) THEN q ELSE [q EXCEPT !.reserved = @ \ {t.from}]
        left == Popped(priced, E)
        put == IF IsLocal(t, local) THEN left ELSE Put(left, t)
    IN  [pool |-> IF Accepted(q, t) THEN entered ELSE refused,
         heaps |-> IF ~Accepted(q, t) THEN {left}
                   ELSE IF Rival(q, t) # {} \/ marked # locals THEN Removed(put, entered, {})
                   ELSE {put},
         locals |-> IF Accepted(q, t) THEN marked ELSE locals,
         changes |-> changes + Dropped(p, q),
         dirty |-> Accepted(q, t) /\ Rival(q, t) = {}]

Adding(p, t, local) ==
    IF Valid(p, t) THEN {Outcome(p, t, local, E) : E \in RoomFor(p, t, IsLocal(t, local))}
    ELSE {}

\* A full pool that turns t away may have popped entries that were stale.
TurnedAway(t, local) ==
    /\ Valid(pool, t) /\ ~IsLocal(t, local) /\ Overflow(pool, t) > 0
    /\ TurnsAway(pool, t)
    /\ \E E \in SUBSET Entries(priced) : Live(pool, E) = {} /\ priced' = Popped(priced, E)
    /\ UNCHANGED <<pool, locals, changes>>

\* Add, with one transaction of the batch.  The tip is checked before the lock is
\* taken, against any tip the pool has had.
Add(t, local) ==
    /\ ~resetting
    /\ \/ \E r \in Adding(pool, t, local) :
            /\ pool' = r.pool
            /\ priced' \in r.heaps
            /\ locals' = r.locals
            /\ changes' = r.changes
            /\ dirty' = IF r.dirty THEN dirty \cup {t.from} ELSE dirty
       \/ TurnedAway(t, local) /\ UNCHANGED dirty
    /\ UNCHANGED <<chain, lost, resetting, rewound>>

-----------------------------------------------------------------------------
(* The other calls that drop transactions                                   *)

\* Each of them ends in calls of Removed, for what the pool has lost.
CallsRemoved == priced' \in Removed(priced, pool', pool.remote \ pool'.remote)

\* SetGasTip, when it raises the tip.  The tip itself is not kept: it may be
\* lowered, which changes nothing else, and raised again.
SetGasTip(tip) ==
    /\ ~resetting
    /\ pool' = RemoveTxs(pool, {t \in pool.remote : t.price < tip}, {})
    /\ CallsRemoved
    /\ UNCHANGED <<chain, locals, changes, dirty, lost, resetting, rewound>>

\* The eviction tick of loop finds the accounts A idle for longer than Lifetime.
Evict(A) ==
    /\ ~resetting
    /\ A # {} /\ A \subseteq {a \in Addrs \ locals : pool.queue[a] # {}}
    /\ pool' = RemoveTxs(pool, UNION {pool.queue[a] : a \in A}, {})
    /\ CallsRemoved
    /\ UNCHANGED <<chain, locals, changes, dirty, lost, resetting, rewound>>

-----------------------------------------------------------------------------
(* What a run does to the pool                                              *)

\* promoteExecutables(accounts).  From the queue go the used nonces, what the
\* balance does not bear, what is ready, and what is above the cap, in this order.
Promote(p, accounts) ==
    LET Q == {a \in accounts : p.queue[a] # {}}
        kept == [a \in Q |-> {t \in p.queue[a] : /\ t.nonce >= chain.nonce[a]
                                                 /\ t.price <= chain.balance[a]}]
        ready == [a \in Q |-> Ready(kept[a], p.next[a])]
        in == [a \in Q |-> ready[a] \ Refused(p.pending[a], ready[a])]
        rest == [a \in Q |-> IF a \in locals THEN kept[a] \ ready[a]
                             ELSE Capped(kept[a] \ ready[a], AccountQueue)]
        gone == UNION {p.queue[a] \ (in[a] \cup rest[a]) : a \in Q}
                \cup UNION {Replaced(p.pending[a], ready[a]) : a \in Q}
        emptied == {a \in Q : rest[a] = {}}
        q == [Forget(p, gone) EXCEPT
                !.pending = [a \in Addrs |-> IF a \in Q THEN Merged(p.pending[a], ready[a])
                                             ELSE p.pending[a]],
                !.queue = [a \in Addrs |-> IF a \in Q THEN rest[a] ELSE p.queue[a]],
                !.next = [a \in Addrs |-> IF a \in Q /\ in[a] # {}
                                          THEN Max(Nonces(in[a])) + 1 ELSE p.next[a]],
                !.beats = (p.beats \cup {a \in Q : in[a] # {}}) \ emptied]
    IN  Release(q, emptied)

\* demoteUnexecutables.  From pending go the used nonces and what the balance does
\* not bear; what is behind a missing nonce is queued again.
Demote(p) ==
    LET fresh == [a \in Addrs |-> {t \in p.pending[a] : t.nonce >= chain.nonce[a]}]
        costly == [a \in Addrs |-> {t \in fresh[a] : t.price > chain.balance[a]}]
        front == [a \in Addrs |-> Below(fresh[a], Nonces(costly[a]))]
        stay == [a \in Addrs |-> IF chain.nonce[a] \in Nonces(front[a]) THEN front[a] ELSE {}]
        back == [a \in Addrs |-> fresh[a] \ (costly[a] \cup stay[a])]
        gone == UNION {(p.pending[a] \ fresh[a]) \cup costly[a] : a \in Addrs}
    IN  Release(Requeue([Forget(p, gone) EXCEPT !.pending = stay], back),
                {a \in Addrs : p.pending[a] # {} /\ stay[a] = {}})

\* pendingNonces.setAll with the highest nonces pending
SetAll(p) ==
    [p EXCEPT !.next = [a \in Addrs |-> IF p.pending[a] = {} THEN chain.nonce[a]
                                        ELSE Max(Nonces(p.pending[a])) + 1]]

\* truncatePending.  Each round of its loops takes one transaction from those of
\* the large accounts that have the most, until the total fits or none is above
\* AccountSlots: all of them are cut to one level.
TruncatePending(p) ==
    LET spammers == {a \in Addrs \ locals : Cardinality(p.pending[a]) > AccountSlots}
        cutTo(n) == [a \in Addrs |-> IF a \in spammers THEN Capped(p.pending[a], n) ELSE p.pending[a]]
        fits == {n \in AccountSlots..MaxNonce + 1 : Total(cutTo(n)) <= GlobalSlots}
        stay == cutTo(IF fits = {} THEN AccountSlots ELSE Max(fits))
        cut(a) == p.pending[a] \ stay[a]
    IN  IF Total(p.pending) <= GlobalSlots THEN p
        ELSE [Forget(p, UNION {cut(a) : a \in Addrs}) EXCEPT
                !.pending = stay,
                !.next = [a \in Addrs |-> Min({p.next[a]} \cup Nonces(cut(a)))]]

\* truncateQueue, which takes the accounts in the order of their heartbeats: the
\* highest nonces of each, until the total fits.
Orders(p) == LET S == {a \in Addrs \ locals : p.queue[a] # {}}
             IN  {rank \in [S -> 1..Cardinality(S)] : IsInjective(rank)}

TruncateQueue(p, rank) ==
    LET drop == Total(p.queue) - GlobalQueue
        size(a) == Cardinality(p.queue[a])
        before(a) == TotalOf(p.queue, {b \in DOMAIN rank : rank[b] < rank[a]})
        excess(a) == Min({size(a), Max({0, drop - before(a)})})
    IN  IF drop <= 0 THEN p
        ELSE RemoveTxs(p, UNION {p.queue[a] \ Capped(p.queue[a], size(a) - excess(a)) :
                                    a \in DOMAIN rank}, {})

\* The end of runReorg: the limits, and the count of changes.
Trim(p) ==
    LET q == TruncatePending(p)
    IN  /\ \E rank \in Orders(q) : pool' = TruncateQueue(q, rank)
        /\ changes' = 0

-----------------------------------------------------------------------------
(* runReorg                                                                 *)

\* A run for the accounts it was given; some call may not have asked for its run yet.
RunPromotes(A) ==
    /\ ~resetting
    /\ A \subseteq dirty
    /\ Trim(Promote(pool, A))
    /\ CallsRemoved
    /\ dirty' = dirty \ A
    /\ UNCHANGED <<chain, locals, lost, resetting, rewound>>

\* reset to a head whose state is "head".  When the old head is not its parent, the
\* transactions "back" of the old branch that are not in the new one come back, but
\* for those of other types and of blocks too deep.  Of those below the new nonces,
\* which add refuses, nothing is said.  The pool may be behind the old head.
Reset(head, back) ==
    /\ ~resetting
    /\ \A t \in back : /\ t.nonce >= head.nonce[t.from]
                       /\ \A u \in back : u.from = t.from /\ u.nonce = t.nonce => u = t
    /\ chain' = head
    /\ pool' = [pool EXCEPT !.next = head.nonce]
    /\ lost' = back
    /\ resetting' = TRUE
    /\ rewound' = (rewound \/ back # {} \/ \E a \in Addrs : head.nonce[a] < chain.nonce[a])
    /\ UNCHANGED <<priced, locals, changes, dirty>>

\* reset returns early: a block or the new state is missing.
ResetFails ==
    /\ ~resetting
    /\ resetting' = TRUE
    /\ UNCHANGED <<pool, priced, chain, locals, changes, dirty, lost, rewound>>

\* reset gives one of the lost transactions to add, as a remote one.
Reinject(t) ==
    /\ t \in lost
    /\ lost' = lost \ {t}
    /\ \/ \E r \in Adding(pool, t, FALSE) :
            /\ pool' = r.pool /\ priced' \in r.heaps
            /\ locals' = r.locals /\ changes' = r.changes
       \/ TurnedAway(t, FALSE)
       \/ Adding(pool, t, FALSE) = {} /\ UNCHANGED <<pool, priced, locals, changes>>
    /\ UNCHANGED <<chain, dirty, resetting, rewound>>

\* The rest of a run with a reset: all the queued accounts are examined.  SetBaseFee
\* rebuilds the heaps before the limits take more.
RunResets(A) ==
    /\ resetting /\ lost = {}
    /\ A \subseteq dirty
    /\ LET kept == Demote(Promote(pool, Addrs))
       IN  /\ Trim(SetAll(kept))
           /\ priced' \in Removed(Reheap(kept.remote), pool', kept.remote \ pool'.remote)
    /\ resetting' = FALSE
    /\ dirty' = dirty \ A
    /\ UNCHANGED <<chain, locals, lost, rewound>>

-----------------------------------------------------------------------------
Init ==
    /\ chain \in Heads
    /\ pool = [pending |-> [a \in Addrs |-> {}], queue |-> [a \in Addrs |-> {}],
               all |-> {}, remote |-> {}, next |-> chain.nonce,
               reserved |-> {}, beats |-> {}]
    /\ priced = Reheap({})
    /\ locals = {} /\ changes = 0 /\ dirty = {} /\ lost = {}
    /\ resetting = FALSE /\ rewound = FALSE

Next ==
    \/ \E t \in Txs, local \in BOOLEAN : Add(t, local)
    \/ \E t \in Txs : SetGasTip(t.price)
    \/ \E A \in SUBSET Addrs : Evict(A) \/ RunPromotes(A) \/ RunResets(A)
    \/ \E head \in Heads, n \in 0..MaxLost : \E back \in kSubset(n, Txs) : Reset(head, back)
    \/ ResetFails
    \/ \E t \in Txs : Reinject(t)

Spec == Init /\ [][Next]_vars

-----------------------------------------------------------------------------
(* Properties                                                               *)

TypeOK ==
    /\ pool \in Pools
    /\ priced \in [Txs -> Nat]
    /\ chain \in Heads
    /\ locals \subseteq Addrs /\ dirty \subseteq Addrs
    /\ changes \in Nat
    /\ lost \subseteq Txs
    /\ resetting \in BOOLEAN /\ rewound \in BOOLEAN

\* The lookup holds the transactions that are pending or queued, and no others: no
\* path loses one from a list and keeps its hash, which would refuse it for ever.  And
\* the heaps hold every remote one, or a full pool could never make room of it.
LookupAgrees ==
    /\ pool.all = UNION {pool.pending[a] \cup pool.queue[a] : a \in Addrs}
    /\ \A t \in pool.remote : priced[t] > 0

\* An account has one transaction of a nonce, in one of its lists.  Both lists remove
\* by nonce, so removeTx would take another transaction than the one it was given.
NoncesDisjoint ==
    \A a \in Addrs : \A t, u \in pool.pending[a] \cup pool.queue[a] :
        /\ t.from = a
        /\ t.nonce = u.nonce => t = u
        /\ ~(t \in pool.pending[a] /\ t \in pool.queue[a])

\* An account is reserved for this subpool exactly while it has transactions.
ReservedWhileListed == pool.reserved = {a \in Addrs : Listed(pool, a)}

\* A remote transaction never enters above the slots of the pool, nor leaves it above
\* them, unless one in the heaps twice was counted twice to make room for it.
SlotsKept ==
    [][\A t \in pool'.remote \ pool.all :
          \/ Slots(pool'.all) <= GlobalSlots + GlobalQueue
          \/ \E r \in pool.remote \ pool'.remote : priced[r] > 1
      ]_vars

\* As long as the chain never went back, what is pending can be executed as it stands:
\* the nonces from the account's own to the one the pool names as next.
PendingContiguous ==
    ~rewound /\ ~resetting =>
        \A a \in Addrs : Nonces(pool.pending[a]) = chain.nonce[a]..pool.next[a] - 1

\* A queued account has a heartbeat: without one the next tick evicts it.
QueuedHasBeat == {a \in Addrs : pool.queue[a] # {}} \subseteq pool.beats

\* A run leaves both limits kept, but for local accounts and the guaranteed slots, and
\* one without a reset leaves an account the slots it is guaranteed.
RunKeepsLimits ==
    [][/\ \A A \in SUBSET Addrs : RunPromotes(A) \/ RunResets(A) =>
            /\ \/ Total(pool'.pending) <= GlobalSlots
               \/ \A a \in Addrs \ locals : Cardinality(pool'.pending[a]) <= AccountSlots
            /\ \/ Total(pool'.queue) <= GlobalQueue
               \/ \A a \in Addrs \ locals : pool'.queue[a] = {}
       /\ \A A \in SUBSET Addrs : RunPromotes(A) =>
            \A a \in Addrs : Cardinality(pool'.pending[a])
                                >= Min({Cardinality(pool.pending[a]), AccountSlots})
      ]_vars

\* No transaction of a local account leaves the pool for its price or for want of room:
\* it is mined, or unpayable, or its sender outbids it.
LocalsKept ==
    [][\A t \in pool.all \ pool'.all : t.from \in locals =>
          \/ t.nonce < chain'.nonce[t.from]
          \/ t.price > chain'.balance[t.from]
          \/ \E u \in pool'.all : u.from = t.from /\ u.nonce = t.nonce /\ Outbids(u, t)
      ]_vars

\* What promoteExecutables is for: of an account whose new transactions a run has
\* taken, none that follows the pending ones is left in the queue.
NoneLeftExecutable ==
    ~rewound /\ ~resetting => \A a \in Addrs \ dirty : pool.next[a] \notin Nonces(pool.queue[a])

=============================================================================
