-------------------------- MODULE LegacyPoolProofs --------------------------
(***************************************************************************)
(* For any accounts, transactions, heads and limits: the lookup holds what *)
(* the lists hold, no account has two transactions of one nonce, the       *)
(* reservations are those of the listed accounts, every queued account has *)
(* a heartbeat, the heaps have every remote transaction, one enters within *)
(* the slots of the pool unless its room was counted twice, no gap opens   *)
(* among the pending nonces while the chain goes forward, no limit takes a *)
(* transaction of a local account, and a run leaves both limits kept.      *)
(***************************************************************************)
EXTENDS LegacyPool, TLAPS, FiniteSetTheorems, WellFoundedInduction

-----------------------------------------------------------------------------
(* Numbers                                                                  *)

\* A set of naturals that is not empty has a least element.
LEMMA LeastNat ==
    ASSUME NEW T \in SUBSET Nat, T # {}
    PROVE  \E x \in T : \A y \in T : x <= y
<1>1. PICK t \in T : TRUE
  OBVIOUS
<1>. DEFINE S == 0..t
            upTo(x) == T \cap (0..x)
            F == {upTo(x) : x \in upTo(t)}
<1>2. IsFiniteSet(S)
  BY <1>1, FS_Interval
<1>3. IsWellFoundedOn(StrictSubsetOrdering(S), SUBSET S)
  BY <1>2, FS_FiniteSubsetsOfFinite, FS_StrictSubsetOrderingWellFounded
<1>4. F \subseteq SUBSET S /\ F # {}
  <2>1. t \in upTo(t)
    BY <1>1
  <2>2. \A x \in upTo(t) : upTo(x) \subseteq S
    BY <1>1
  <2>. QED
    BY <2>1, <2>2
<1>5. PICK f \in F : \A g \in F : <<g, f>> \notin StrictSubsetOrdering(S)
  BY <1>3, <1>4, WFMin
<1>6. PICK x \in upTo(t) : f = upTo(x)
  OBVIOUS
<1>7. ASSUME NEW y \in T, y < x
      PROVE  FALSE
  <2>1. y \in upTo(t) /\ upTo(y) \in F
    BY <1>1, <1>6, <1>7
  <2>2. upTo(y) \subseteq upTo(x) /\ x \in upTo(x) /\ x \notin upTo(y)
    BY <1>6, <1>7
  <2>3. <<upTo(y), upTo(x)>> \in StrictSubsetOrdering(S)
    BY <2>1, <2>2, <1>4, <1>6 DEF StrictSubsetOrdering
  <2>. QED
    BY <2>1, <2>3, <1>5, <1>6
<1>. QED
  BY <1>6, <1>7

\* A bounded one has a greatest element, which is what Max chooses.
LEMMA MaxBounded ==
    ASSUME NEW T \in SUBSET Nat, T # {}, NEW n \in Nat, \A x \in T : x <= n
    PROVE  Max(T) \in T /\ \A x \in T : x <= Max(T)
<1>. DEFINE U == {u \in 0..n : n - u \in T}
<1>1. U \in SUBSET Nat /\ U # {}
  <2>1. PICK x \in T : TRUE
    OBVIOUS
  <2>2. n - x \in 0..n /\ n - (n - x) = x
    BY <2>1
  <2>. QED
    BY <2>2
<1>2. PICK u \in U : \A y \in U : u <= y
  BY <1>1, LeastNat
<1>3. n - u \in T
  BY <1>2
<1>4. ASSUME NEW y \in T
      PROVE  n - u >= y
  <2>1. n - y \in 0..n /\ n - (n - y) = y
    BY <1>4
  <2>2. u <= n - y
    BY <1>2, <2>1
  <2>. QED
    BY <2>2, <1>1, <1>4
<1>. QED
  BY <1>3, <1>4 DEF Max

-----------------------------------------------------------------------------
(* The invariant, of a pool that may be in the middle of a call             *)

\* A record with the fields of a pool.  What the virtual nonces are does not matter.
Shaped(p) ==
    p \in [pending : [Addrs -> SUBSET Txs], queue : [Addrs -> SUBSET Txs],
           all : SUBSET Txs, remote : SUBSET Txs, next : {p.next},
           reserved : SUBSET Addrs, beats : SUBSET Addrs]

AllOf(P, Q) == UNION {P[a] \cup Q[a] : a \in Addrs}

Distinct(P, Q) ==
    \A a \in Addrs : \A t, u \in P[a] \cup Q[a] :
        /\ t.from = a
        /\ t.nonce = u.nonce => t = u
        /\ ~(t \in P[a] /\ t \in Q[a])

Sound(p) ==
    /\ Shaped(p)
    /\ p.all = AllOf(p.pending, p.queue) /\ p.remote \subseteq p.all
    /\ Distinct(p.pending, p.queue)
    /\ {a \in Addrs : p.queue[a] # {}} \subseteq p.beats

\* Of the reservations, those of the accounts A may stand without a transaction.
Held(p, A) ==
    /\ {a \in Addrs : Listed(p, a)} \subseteq p.reserved
    /\ p.reserved \subseteq {a \in Addrs : Listed(p, a)} \cup A

Good(p) == Sound(p) /\ Held(p, {})

\* Giving back what stands without a transaction.
LEMMA ReleaseHolds ==
    ASSUME NEW p, NEW A, NEW K, Sound(p), Held(p, A \cup K)
    PROVE  Sound(Release(p, A)) /\ Held(Release(p, A), K)
<1>. DEFINE r == Release(p, A)
<1>1. /\ r.pending = p.pending /\ r.queue = p.queue /\ r.all = p.all /\ r.remote = p.remote
      /\ r.beats = p.beats
      /\ r.reserved = p.reserved \ {a \in A : ~Listed(p, a)}
      /\ Shaped(r)
  BY DEF Release, Sound, Shaped
<1>2. \A a : Listed(r, a) <=> Listed(p, a)
  BY <1>1 DEF Listed
<1>. HIDE DEF r
<1>3. Sound(r)
  BY <1>1 DEF Sound
<1>4. {a \in Addrs : Listed(r, a)} = {a \in Addrs : Listed(p, a)}
  BY <1>2
<1>5. Held(r, K)
  BY <1>1, <1>4 DEF Held, Shaped, Sound
<1>. QED
  BY <1>3, <1>5 DEF r

\* Transactions whose nonces are not in the queue go back to it as they are.
LEMMA RequeueIs ==
    ASSUME NEW q, Shaped(q), NEW back \in [Addrs -> SUBSET Txs],
           \A a \in Addrs : \A t \in back[a] : \A u \in q.queue[a] : t.nonce # u.nonce
    PROVE  LET r == Requeue(q, back) IN
           /\ Shaped(r)
           /\ r.pending = q.pending
           /\ r.queue = [a \in Addrs |-> q.queue[a] \cup back[a]]
           /\ r.all = q.all /\ r.remote = q.remote
           /\ r.reserved = q.reserved
           /\ r.beats = q.beats \cup {a \in Addrs : back[a] # {}}
<1>1. ASSUME NEW a \in Addrs
      PROVE  /\ Refused(q.queue[a], back[a]) = {}
             /\ Replaced(q.queue[a], back[a]) = {}
             /\ Merged(q.queue[a], back[a]) = q.queue[a] \cup back[a]
  <2>1. Refused(q.queue[a], back[a]) = {}
    BY DEF Refused
  <2>2. Replaced(q.queue[a], back[a]) = {}
    BY DEF Replaced
  <2>. QED
    BY <2>1, <2>2 DEF Merged
<1>2. UNION {Replaced(q.queue[a], back[a]) : a \in Addrs} = {}
  BY <1>1
<1>3. [a \in Addrs |-> Merged(q.queue[a], back[a])]
         = [a \in Addrs |-> q.queue[a] \cup back[a]]
  BY <1>1
<1>4. {a \in Addrs : back[a] \ Refused(q.queue[a], back[a]) # {}}
         = {a \in Addrs : back[a] # {}}
  BY <1>1
<1>. DEFINE B == {a \in Addrs : back[a] # {}}
            Q == [a \in Addrs |-> q.queue[a] \cup back[a]]
<1>5. Requeue(q, back) = Beat([Forget(q, {}) EXCEPT !.queue = Q], B)
  BY <1>2, <1>3, <1>4, Zenon DEF Requeue
<1>6. Q \in [Addrs -> SUBSET Txs] /\ B \subseteq Addrs
  BY DEF Shaped
<1>. HIDE DEF B, Q
<1>7. LET r == Beat([Forget(q, {}) EXCEPT !.queue = Q], B) IN
      /\ Shaped(r) /\ r.pending = q.pending /\ r.queue = Q /\ r.all = q.all /\ r.remote = q.remote
      /\ r.reserved = q.reserved /\ r.beats = q.beats \cup B
  BY <1>6 DEF Beat, Forget, Shaped
<1>. QED
  BY <1>5, <1>7, Zenon DEF B, Q

-----------------------------------------------------------------------------
(* removeTx                                                                 *)

\* In a sound pool a listed transaction is the one of its sender and nonce.
LEMMA OnePerNonce ==
    ASSUME NEW p, Sound(p), NEW d \in p.all, NEW a \in Addrs, d.from = a
    PROVE  /\ d \in p.pending[a] \cup p.queue[a]
           /\ \A t \in p.pending[a] \cup p.queue[a] : t.nonce = d.nonce => t = d
<1>1. PICK b \in Addrs : d \in p.pending[b] \cup p.queue[b]
  BY DEF Sound, AllOf
<1>2. b = a
  BY <1>1 DEF Sound, Distinct
<1>. QED
  BY <1>1, <1>2 DEF Sound, Distinct

\* Removing by nonce removes the transactions meant.
LEMMA RemovesThose ==
    ASSUME NEW p, Sound(p), NEW D \in SUBSET p.all, NEW a \in Addrs
    PROVE  /\ \A t \in p.pending[a] : t.nonce \in Cut(p, D, a) <=> t \in D
           /\ Dequeued(p, D, a) = p.queue[a] \cap D
<1>0. \A t \in p.pending[a] \cup p.queue[a] : t.from = a
  BY DEF Sound, Distinct
<1>1. ASSUME NEW t \in p.pending[a]
      PROVE  t.nonce \in Cut(p, D, a) <=> t \in D
  <2>1. ASSUME t.nonce \in Cut(p, D, a)
        PROVE  t \in D
    <3>1. PICK d \in D : d.from = a /\ d.nonce = t.nonce
      BY <2>1 DEF Cut
    <3>. QED
      BY <3>1, OnePerNonce
  <2>2. ASSUME t \in D
        PROVE  t.nonce \in Cut(p, D, a)
    BY <2>2, <1>0 DEF Cut, Nonces
  <2>. QED
    BY <2>1, <2>2
<1>2. ASSUME NEW t \in p.queue[a]
      PROVE  t \in Dequeued(p, D, a) <=> t \in D
  <2>1. ASSUME t \in Dequeued(p, D, a)
        PROVE  t \in D
    <3>1. PICK d \in D : d.from = a /\ d.nonce = t.nonce
      BY <2>1 DEF Dequeued
    <3>. QED
      BY <3>1, OnePerNonce
  <2>2. ASSUME t \in D
        PROVE  t \in Dequeued(p, D, a)
    <3>1. t.from = a
      BY <1>0
    <3>2. t.nonce \notin Nonces(p.pending[a])
      <4>1. SUFFICES ASSUME NEW u \in p.pending[a], u.nonce = t.nonce
                     PROVE  FALSE
        BY DEF Nonces
      <4>2. u = t
        BY <4>1, <3>1, <2>2, OnePerNonce
      <4>. QED
        BY <4>2 DEF Sound, Distinct
    <3>. QED
      BY <2>2, <3>1, <3>2 DEF Dequeued, Cut
  <2>. QED
    BY <2>1, <2>2
<1>3. Dequeued(p, D, a) \subseteq p.queue[a]
  BY DEF Dequeued
<1>. QED
  BY <1>1, <1>2, <1>3

LEMMA UnlistHolds ==
    ASSUME NEW p, Sound(p), NEW D \in SUBSET p.all
    PROVE  LET u == Unlist(p, D) IN
           /\ Sound(u)
           /\ u.all = p.all \ D
           /\ u.reserved = p.reserved
           /\ \A a \in Addrs : Listed(u, a) => Listed(p, a)
           /\ \A a \in Addrs \ {t.from : t \in D} : Listed(u, a) <=> Listed(p, a)
<1>. DEFINE cut(a) == Cut(p, D, a)
            stay == [a \in Addrs |-> Below(p.pending[a], cut(a))]
            back == [a \in Addrs |-> {t \in p.pending[a] \ stay[a] : t.nonce \notin cut(a)}]
            keep == [a \in Addrs |-> p.queue[a] \ Dequeued(p, D, a)]
            next == [a \in Addrs |-> Min({p.next[a]} \cup cut(a))]
            left == [Forget(p, D) EXCEPT !.pending = stay, !.queue = keep, !.next = next]
            moved == Requeue(left, back)
            u == Unlist(p, D)
            Q == [a \in Addrs |-> keep[a] \cup back[a]]
<1>1. /\ p.pending \in [Addrs -> SUBSET Txs] /\ p.queue \in [Addrs -> SUBSET Txs]
      /\ \A t \in Txs : t.nonce \in Nat /\ t.from \in Addrs
  BY TxsAssumption DEF Sound, Shaped
<1>2. ASSUME NEW a \in Addrs
      PROVE  /\ stay[a] \cup back[a] = p.pending[a] \ D
             /\ stay[a] \cap back[a] = {}
             /\ keep[a] = p.queue[a] \ D
  <2>1. \A t \in p.pending[a] : t.nonce \in Nat /\ (t.nonce \in cut(a) <=> t \in D)
    BY <1>1, RemovesThose
  <2>2. \A t \in stay[a] : t \in p.pending[a] /\ t.nonce \notin cut(a)
    BY <2>1 DEF Below
  <2>3. \A t \in back[a] : t \in p.pending[a] /\ t.nonce \notin cut(a) /\ t \notin stay[a]
    OBVIOUS
  <2>4. keep[a] = p.queue[a] \ D
    BY RemovesThose
  <2>5. \A t \in p.pending[a] : t \notin D => t \in stay[a] \cup back[a]
    BY <2>1
  <2>. QED
    BY <2>1, <2>2, <2>3, <2>4, <2>5
<1>3. /\ stay \in [Addrs -> SUBSET Txs] /\ back \in [Addrs -> SUBSET Txs]
      /\ keep \in [Addrs -> SUBSET Txs] /\ Q \in [Addrs -> SUBSET Txs]
  BY <1>1 DEF Below
<1>. HIDE DEF stay, back, keep, next
<1>4. /\ Shaped(left) /\ left.pending = stay /\ left.queue = keep
      /\ left.all = p.all \ D /\ left.remote = p.remote \ D /\ left.reserved = p.reserved /\ left.beats = p.beats
  BY <1>3 DEF Sound, Shaped, Forget
<1>5. \A a \in Addrs : \A t \in back[a] : \A q \in left.queue[a] : t.nonce # q.nonce
  BY <1>2, <1>4 DEF Sound, Distinct
<1>. HIDE DEF left
<1>6. /\ Shaped(moved) /\ moved.pending = stay /\ moved.queue = Q
      /\ moved.all = p.all \ D /\ moved.remote = p.remote \ D /\ moved.reserved = p.reserved
      /\ moved.beats = p.beats \cup {a \in Addrs : back[a] # {}}
  <2>1. /\ Shaped(moved) /\ moved.pending = left.pending
        /\ moved.queue = [a \in Addrs |-> left.queue[a] \cup back[a]]
        /\ moved.all = left.all /\ moved.remote = left.remote /\ moved.reserved = left.reserved
        /\ moved.beats = left.beats \cup {a \in Addrs : back[a] # {}}
    <3>. HIDE DEF moved
    <3>1. /\ Shaped(left) /\ back \in [Addrs -> SUBSET Txs]
      BY <1>3, <1>4
    <3>. QED
      BY <3>1, <1>5, RequeueIs DEF moved
  <2>. QED
    BY <2>1, <1>4
<1>7. u = [moved EXCEPT !.beats = @ \ {a \in Addrs : Dequeued(p, D, a) # {} /\ moved.queue[a] = {}}]
  BY Zenon DEF Unlist, left, stay, back, keep, next
<1>. HIDE DEF moved, u
<1>8. /\ Shaped(u) /\ u.pending = stay /\ u.queue = Q
      /\ u.all = p.all \ D /\ u.remote = p.remote \ D /\ u.reserved = p.reserved
      /\ \A a \in Addrs : Q[a] # {} /\ (a \in p.beats \/ back[a] # {}) => a \in u.beats
  BY <1>6, <1>7 DEF Shaped
<1>9. \A a \in Addrs : stay[a] \cup Q[a] = (p.pending[a] \cup p.queue[a]) \ D
  BY <1>2
<1>10. u.all = AllOf(u.pending, u.queue)
  BY <1>8, <1>9 DEF Sound, AllOf
<1>11. Distinct(u.pending, u.queue)
  BY <1>2, <1>8, <1>9 DEF Sound, Distinct
<1>12. {a \in Addrs : u.queue[a] # {}} \subseteq u.beats
  BY <1>2, <1>8 DEF Sound
<1>13. \A a \in Addrs : Listed(u, a) <=> (p.pending[a] \cup p.queue[a]) \ D # {}
  BY <1>8, <1>9 DEF Listed
<1>14. \A a \in Addrs \ {t.from : t \in D} : (p.pending[a] \cup p.queue[a]) \cap D = {}
  BY DEF Sound, Distinct
<1>. QED
  BY <1>8, <1>10, <1>11, <1>12, <1>13, <1>14 DEF Sound, Listed, u

\* removeTx keeps the pool sound, and gives back the reservations of those it leaves
\* without transactions.
LEMMA RemoveHolds ==
    ASSUME NEW p, NEW K, Sound(p), Held(p, K), NEW D \in SUBSET p.all, NEW keep
    PROVE  LET q == RemoveTxs(p, D, keep) IN
           /\ Sound(q) /\ Held(q, K \cup keep)
           /\ q.all = p.all \ D
           /\ p.reserved \cap keep \subseteq q.reserved
           /\ \A a \in Addrs : Listed(q, a) => Listed(p, a)
<1>. DEFINE u == Unlist(p, D)
            S == {t.from : t \in D}
<1>1. Sound(u) /\ u.all = p.all \ D /\ u.reserved = p.reserved
  BY UnlistHolds
<1>2. /\ \A a \in Addrs : Listed(u, a) => Listed(p, a)
      /\ \A a \in Addrs \ S : Listed(u, a) <=> Listed(p, a)
  BY UnlistHolds
<1>3. Held(u, (S \ keep) \cup (K \cup keep))
  BY <1>1, <1>2 DEF Held, Sound, Shaped
<1>4. RemoveTxs(p, D, keep) = Release(u, S \ keep)
  BY DEF RemoveTxs
<1>. HIDE DEF u
<1>. DEFINE q == Release(u, S \ keep)
<1>5. /\ q.all = u.all /\ q.pending = u.pending /\ q.queue = u.queue
      /\ u.reserved \cap keep \subseteq q.reserved
  BY <1>1 DEF Release, Sound, Shaped
<1>6. Sound(q) /\ Held(q, K \cup keep)
  BY <1>1, <1>3, ReleaseHolds
<1>. HIDE DEF q
<1>7. \A a \in Addrs : Listed(q, a) => Listed(p, a)
  BY <1>2, <1>5 DEF Listed
<1>. QED
  BY <1>1, <1>4, <1>5, <1>6, <1>7 DEF q

-----------------------------------------------------------------------------
(* add                                                                      *)

LEMMA InsertHolds ==
    ASSUME NEW q, Sound(q), NEW t \in Txs, t \notin q.all, NEW isLocal \in BOOLEAN,
           Held(q, {t.from}), t.from \in q.reserved
    PROVE  Good(Insert(q, t, isLocal))
<1>. DEFINE a == t.from
            R == Rival(q, t)
            P == IF InPlace(q, t) THEN [q.pending EXCEPT ![a] = (@ \ R) \cup {t}] ELSE q.pending
            Q == IF InPlace(q, t) THEN q.queue ELSE [q.queue EXCEPT ![a] = (@ \ R) \cup {t}]
            r == Insert(q, t, isLocal)
<1>1. a \in Addrs /\ R \subseteq Txs
  BY TxsAssumption DEF Rival, Sound, Shaped
<1>2. /\ Shaped(r) /\ r.pending = P /\ r.queue = Q
      /\ r.all = (q.all \ R) \cup {t} /\ r.remote \subseteq (q.remote \ R) \cup {t}
      /\ r.reserved = q.reserved /\ r.beats = q.beats \cup {a}
  <2>. DEFINE g == Forget(q, R)
              X == IF isLocal THEN g.remote ELSE g.remote \cup {t}
              z == [g EXCEPT !.pending = P, !.queue = Q, !.all = @ \cup {t}, !.remote = X]
  <2>1. /\ Shaped(g) /\ g.pending = q.pending /\ g.queue = q.queue
        /\ g.all = q.all \ R /\ g.remote = q.remote \ R
        /\ g.reserved = q.reserved /\ g.beats = q.beats
    BY DEF Forget, Sound, Shaped
  <2>2. P \in [Addrs -> SUBSET Txs] /\ Q \in [Addrs -> SUBSET Txs]
    BY <1>1 DEF Sound, Shaped
  <2>3. r = Beat(z, {a})
    <3>1. [g.pending EXCEPT ![a] = IF InPlace(q, t) THEN (@ \ R) \cup {t} ELSE @] = P
      BY <2>1, <2>2, <1>1
    <3>2. [g.queue EXCEPT ![a] = IF InPlace(q, t) THEN @ ELSE (@ \ R) \cup {t}] = Q
      BY <2>1, <2>2, <1>1
    <3>3. r = Beat([g EXCEPT
                !.pending = [g.pending EXCEPT ![a] = IF InPlace(q, t) THEN (@ \ R) \cup {t} ELSE @],
                !.queue = [g.queue EXCEPT ![a] = IF InPlace(q, t) THEN @ ELSE (@ \ R) \cup {t}],
                !.all = @ \cup {t}, !.remote = X], {a})
      <4>. HIDE DEF P, Q
      <4>. QED
        BY <2>1 DEF Insert, Shaped
    <3>. HIDE DEF g, P, Q, X
    <3>. QED
      BY <3>1, <3>2, <3>3
  <2>. HIDE DEF g, P, Q
  <2>4. /\ Shaped(z) /\ z.pending = P /\ z.queue = Q
        /\ z.all = g.all \cup {t} /\ z.remote = X /\ z.reserved = g.reserved /\ z.beats = g.beats
    BY <2>1, <2>2 DEF Shaped
  <2>. HIDE DEF z
  <2>5. /\ Shaped(Beat(z, {a})) /\ Beat(z, {a}).pending = P /\ Beat(z, {a}).queue = Q
        /\ Beat(z, {a}).all = z.all /\ Beat(z, {a}).remote = z.remote
        /\ Beat(z, {a}).reserved = z.reserved /\ Beat(z, {a}).beats = z.beats \cup {a}
    BY <1>1, <2>4 DEF Beat, Shaped
  <2>. QED
    BY <2>1, <2>3, <2>4, <2>5
<1>. HIDE DEF r
<1>3. \A b \in Addrs \ {a} : P[b] = q.pending[b] /\ Q[b] = q.queue[b]
  BY <1>1 DEF Sound, Shaped
<1>4. /\ P[a] \cup Q[a] = ((q.pending[a] \cup q.queue[a]) \ R) \cup {t}
      /\ P[a] \cap Q[a] = {}
      /\ R = {o \in q.pending[a] \cup q.queue[a] : o.nonce = t.nonce}
  <2>1. t \notin q.pending[a] /\ t \notin q.queue[a]
    BY <1>1 DEF Sound, AllOf
  <2>2. q.pending[a] \cap q.queue[a] = {}
    BY <1>1 DEF Sound, Distinct
  <2>3. CASE InPlace(q, t)
    <3>1. PICK o \in q.pending[a] : o.nonce = t.nonce
      BY <2>3 DEF InPlace, Nonces
    <3>2. \A u \in q.queue[a] : u.nonce # t.nonce
      BY <1>1, <3>1 DEF Sound, Distinct
    <3>3. R = {u \in q.pending[a] : u.nonce = t.nonce}
      BY <2>3 DEF Rival
    <3>4. P[a] = (q.pending[a] \ R) \cup {t} /\ Q[a] = q.queue[a]
      BY <1>1, <2>3 DEF Sound, Shaped
    <3>. QED
      BY <2>1, <2>2, <3>2, <3>3, <3>4
  <2>4. CASE ~InPlace(q, t)
    <3>1. \A u \in q.pending[a] : u.nonce # t.nonce
      BY <2>4 DEF InPlace, Nonces
    <3>2. R = {u \in q.queue[a] : u.nonce = t.nonce}
      BY <2>4 DEF Rival
    <3>3. P[a] = q.pending[a] /\ Q[a] = (q.queue[a] \ R) \cup {t}
      BY <1>1, <2>4 DEF Sound, Shaped
    <3>. QED
      BY <2>1, <2>2, <3>1, <3>2, <3>3
  <2>. QED
    BY <2>3, <2>4
<1>. HIDE DEF P, Q, R
<1>5. \A b \in Addrs \ {a} : (q.pending[b] \cup q.queue[b]) \cap R = {}
  BY <1>1, <1>4 DEF Sound, Distinct
<1>6. r.all = AllOf(r.pending, r.queue)
  <2>1. \A b \in Addrs : b # a => P[b] \cup Q[b] = (q.pending[b] \cup q.queue[b]) \ R
    BY <1>3, <1>5
  <2>. QED
    BY <1>1, <1>2, <1>4, <2>1 DEF Sound, AllOf
<1>7. Distinct(r.pending, r.queue)
  BY <1>1, <1>2, <1>3, <1>4 DEF Sound, Distinct
<1>8. {b \in Addrs : r.queue[b] # {}} \subseteq r.beats
  BY <1>2, <1>3 DEF Sound
<1>9. \A b \in Addrs : Listed(r, b) <=> b = a \/ Listed(q, b)
  BY <1>1, <1>2, <1>3, <1>4 DEF Listed
<1>10. Held(r, {})
  BY <1>1, <1>2, <1>9 DEF Held
<1>11. r.remote \subseteq r.all
  BY <1>2 DEF Sound
<1>. QED
  BY <1>2, <1>6, <1>7, <1>8, <1>10, <1>11 DEF Sound, Good, r

LEMMA AddingHolds ==
    ASSUME NEW p, Good(p), NEW t \in Txs, NEW local \in BOOLEAN,
           NEW r \in Adding(p, t, local)
    PROVE  Good(r.pool)
<1>. DEFINE a == t.from
            isLocal == IsLocal(t, local)
            held == [p EXCEPT !.reserved = @ \cup {a}]
<1>1. a \in Addrs /\ isLocal \in BOOLEAN
  BY TxsAssumption DEF IsLocal
<1>2. /\ Sound(held) /\ Held(held, {a}) /\ a \in held.reserved
      /\ held.all = p.all /\ held.remote = p.remote
      /\ held.pending = p.pending /\ held.queue = p.queue
      /\ held.reserved = p.reserved \cup {a}
  <2>1. /\ Shaped(held) /\ held.pending = p.pending /\ held.queue = p.queue
        /\ held.all = p.all /\ held.remote = p.remote /\ held.beats = p.beats
        /\ held.reserved = p.reserved \cup {a}
    BY <1>1 DEF Good, Sound, Shaped
  <2>. HIDE DEF held
  <2>2. Sound(held)
    BY <2>1 DEF Good, Sound
  <2>3. \A b : Listed(held, b) <=> Listed(p, b)
    BY <2>1 DEF Listed
  <2>. QED
    BY <2>1, <2>2, <2>3 DEF Good, Held
<1>3. Valid(p, t) /\ \E E \in RoomFor(p, t, isLocal) : r = Outcome(p, t, local, E)
  BY DEF Adding
<1>4. t \notin p.all
  BY <1>3 DEF Valid
<1>5. PICK E \in RoomFor(p, t, isLocal) : r = Outcome(p, t, local, E)
  BY <1>3
<1>. DEFINE D == Victims(p, E)
<1>6. D \subseteq p.all
  BY DEF Victims, Live, Good, Sound
<1>. DEFINE q == RemoveTxs(held, D, {a})
            m == Migrated(Insert(q, t, isLocal), LocalsWith(q, t, local))
<1>. HIDE DEF isLocal
<1>10. r.pool = IF Accepted(q, t) THEN m
                ELSE IF Listed(p, a) THEN q ELSE [q EXCEPT !.reserved = @ \ {a}]
  BY <1>5 DEF Outcome, isLocal
<1>. HIDE DEF held, D
<1>7. /\ Sound(q) /\ Held(q, {a}) /\ q.all = held.all \ D /\ a \in q.reserved
      /\ \A b \in Addrs : Listed(q, b) => Listed(held, b)
  <2>1. Sound(held) /\ Held(held, {a}) /\ D \in SUBSET held.all
    BY <1>2, <1>6
  <2>2. /\ Sound(q) /\ Held(q, {a} \cup {a}) /\ q.all = held.all \ D
        /\ held.reserved \cap {a} \subseteq q.reserved
        /\ \A b \in Addrs : Listed(q, b) => Listed(held, b)
    BY <2>1, RemoveHolds
  <2>. QED
    BY <2>2, <1>2
<1>. HIDE DEF q, m
<1>8. CASE Accepted(q, t)
  <2>. DEFINE n == Insert(q, t, isLocal)
  <2>1. Good(n)
    BY <1>1, <1>2, <1>4, <1>7, InsertHolds
  <2>. HIDE DEF n
  <2>2. /\ Shaped(m) /\ m.pending = n.pending /\ m.queue = n.queue /\ m.all = n.all
        /\ m.remote \subseteq n.remote /\ m.reserved = n.reserved /\ m.beats = n.beats
    BY <2>1 DEF Migrated, Good, Sound, Shaped, m, n
  <2>3. \A b : Listed(m, b) <=> Listed(n, b)
    BY <2>2 DEF Listed
  <2>4. Good(m)
    BY <2>1, <2>2, <2>3 DEF Good, Sound, Held
  <2>. QED
    BY <1>10, <1>8, <2>4
<1>9. CASE ~Accepted(q, t)
  <2>1. Listed(q, a)
    BY <1>9 DEF Accepted, Rival, Listed
  <2>2. Listed(p, a)
    BY <1>1, <1>2, <1>7, <2>1 DEF Listed
  <2>3. Good(q)
    BY <1>7, <2>1 DEF Good, Held, Sound, Shaped
  <2>. QED
    BY <1>10, <1>9, <2>2, <2>3
<1>. QED
  BY <1>8, <1>9

-----------------------------------------------------------------------------
(* The methods that only take transactions out, or move them                *)

\* What each account gives up is its own.
LEMMA OwnGone ==
    ASSUME NEW p, Sound(p), NEW G \in [Addrs -> SUBSET Txs],
           \A b \in Addrs : G[b] \subseteq p.pending[b] \cup p.queue[b],
           NEW a \in Addrs
    PROVE  (p.pending[a] \cup p.queue[a]) \cap UNION {G[b] : b \in Addrs} = G[a]
  BY DEF Sound, Distinct

\* A pool that has lost the same transactions from its lists and its lookup is sound.
LEMMA ShrinkHolds ==
    ASSUME NEW p, Sound(p), NEW q, Shaped(q), NEW G \in [Addrs -> SUBSET Txs],
           q.all = p.all \ UNION {G[b] : b \in Addrs},
           q.remote = p.remote \ UNION {G[b] : b \in Addrs},
           \A b \in Addrs :
               /\ G[b] \subseteq p.pending[b] \cup p.queue[b]
               /\ q.pending[b] \cup q.queue[b] = (p.pending[b] \cup p.queue[b]) \ G[b]
               /\ q.pending[b] \cap q.queue[b] = {}
               /\ q.queue[b] # {} => b \in q.beats
    PROVE  Sound(q)
<1>. DEFINE gone == UNION {G[b] : b \in Addrs}
<1>1. \A b \in Addrs : q.pending[b] \cup q.queue[b] = (p.pending[b] \cup p.queue[b]) \ gone
  BY OwnGone
<1>. HIDE DEF gone
<1>2. q.all = AllOf(q.pending, q.queue)
  <2>1. q.all = p.all \ gone
    BY DEF gone
  <2>. QED
    BY <1>1, <2>1 DEF Sound, AllOf
<1>3. Distinct(q.pending, q.queue)
  BY <1>1 DEF Sound, Distinct
<1>. QED
  BY <1>2, <1>3 DEF Sound

\* Pending and queued transactions of an account differ in their nonces, so that a
\* promotion neither replaces nor is refused.
LEMMA PromotesAll ==
    ASSUME NEW p, Sound(p), NEW a \in Addrs, NEW S \in SUBSET p.queue[a]
    PROVE  /\ Refused(p.pending[a], S) = {} /\ Replaced(p.pending[a], S) = {}
           /\ Merged(p.pending[a], S) = p.pending[a] \cup S
<1>1. \A t \in S, u \in p.pending[a] : t.nonce # u.nonce
  BY DEF Sound, Distinct
<1>2. Refused(p.pending[a], S) = {}
  BY <1>1 DEF Refused
<1>3. Replaced(p.pending[a], S) = {}
  BY <1>1 DEF Replaced
<1>. QED
  BY <1>2, <1>3 DEF Merged

LEMMA PromoteHolds ==
    ASSUME NEW p, Good(p), NEW accounts \in SUBSET Addrs
    PROVE  Good(Promote(p, accounts))
<1>. DEFINE Q == {a \in accounts : p.queue[a] # {}}
            kept == [a \in Q |-> {t \in p.queue[a] : /\ t.nonce >= chain.nonce[a]
                                                     /\ t.price <= chain.balance[a]}]
            ready == [a \in Q |-> Ready(kept[a], p.next[a])]
            in == [a \in Q |-> ready[a] \ Refused(p.pending[a], ready[a])]
            rest == [a \in Q |-> IF a \in locals THEN kept[a] \ ready[a]
                                 ELSE Capped(kept[a] \ ready[a], AccountQueue)]
            gone == UNION {p.queue[a] \ (in[a] \cup rest[a]) : a \in Q}
                    \cup UNION {Replaced(p.pending[a], ready[a]) : a \in Q}
            emptied == {a \in Q : rest[a] = {}}
            P2 == [a \in Addrs |-> IF a \in Q THEN Merged(p.pending[a], ready[a]) ELSE p.pending[a]]
            Q2 == [a \in Addrs |-> IF a \in Q THEN rest[a] ELSE p.queue[a]]
            N2 == [a \in Addrs |-> IF a \in Q /\ in[a] # {}
                                   THEN Max(Nonces(in[a])) + 1 ELSE p.next[a]]
            B2 == (p.beats \cup {a \in Q : in[a] # {}}) \ emptied
            G == [a \in Addrs |-> IF a \in Q THEN p.queue[a] \ (ready[a] \cup rest[a]) ELSE {}]
            q == [Forget(p, gone) EXCEPT !.pending = P2, !.queue = Q2, !.next = N2, !.beats = B2]
<1>1. Sound(p) /\ p.pending \in [Addrs -> SUBSET Txs] /\ p.queue \in [Addrs -> SUBSET Txs]
  BY DEF Good, Sound, Shaped
<1>2. Promote(p, accounts) = Release(q, emptied)
  BY Zenon DEF Promote
<1>3. ASSUME NEW a \in Q
      PROVE  /\ ready[a] \subseteq p.queue[a] /\ rest[a] \subseteq p.queue[a]
             /\ ready[a] \cap rest[a] = {}
  <2>1. kept[a] \subseteq p.queue[a]
    OBVIOUS
  <2>2. ready[a] = Ready(kept[a], p.next[a])
    OBVIOUS
  <2>3. rest[a] = IF a \in locals THEN kept[a] \ ready[a] ELSE Capped(kept[a] \ ready[a], AccountQueue)
    OBVIOUS
  <2>. HIDE DEF kept, ready, rest
  <2>4. ready[a] \subseteq kept[a]
    BY <2>2 DEF Ready
  <2>5. rest[a] \subseteq kept[a] \ ready[a]
    BY <2>3 DEF Capped
  <2>. QED
    BY <2>1, <2>4, <2>5
<1>. HIDE DEF kept, ready, rest
<1>4. ASSUME NEW a \in Q
      PROVE  /\ in[a] = ready[a] /\ Replaced(p.pending[a], ready[a]) = {}
             /\ Merged(p.pending[a], ready[a]) = p.pending[a] \cup ready[a]
  <2>1. in[a] = ready[a] \ Refused(p.pending[a], ready[a])
    OBVIOUS
  <2>2. ready[a] \in SUBSET p.queue[a] /\ a \in Addrs
    BY <1>3
  <2>. HIDE DEF in
  <2>3. /\ Refused(p.pending[a], ready[a]) = {} /\ Replaced(p.pending[a], ready[a]) = {}
        /\ Merged(p.pending[a], ready[a]) = p.pending[a] \cup ready[a]
    BY <1>1, <2>2, PromotesAll
  <2>. QED
    BY <2>1, <2>3
<1>5. gone = UNION {G[a] : a \in Addrs}
  <2>1. \A a \in Q : G[a] = p.queue[a] \ (in[a] \cup rest[a])
    BY <1>4
  <2>2. \A a \in Addrs \ Q : G[a] = {}
    OBVIOUS
  <2>3. \A a \in Q : Replaced(p.pending[a], ready[a]) = {}
    BY <1>4
  <2>4. Q \subseteq Addrs
    OBVIOUS
  <2>. HIDE DEF Q, in, G
  <2>. QED
    BY <2>1, <2>2, <2>3, <2>4
<1>6. /\ P2 \in [Addrs -> SUBSET Txs] /\ Q2 \in [Addrs -> SUBSET Txs]
      /\ G \in [Addrs -> SUBSET Txs] /\ B2 \subseteq Addrs
  BY <1>1, <1>3, <1>4 DEF Sound, Shaped
<1>7. ASSUME NEW a \in Addrs
      PROVE  /\ G[a] \subseteq p.pending[a] \cup p.queue[a]
             /\ P2[a] \cup Q2[a] = (p.pending[a] \cup p.queue[a]) \ G[a]
             /\ P2[a] \cap Q2[a] = {}
             /\ Q2[a] # {} => a \in B2
             /\ a \notin emptied => (Listed(p, a) <=> P2[a] # {} \/ Q2[a] # {})
             /\ P2[a] # {} \/ Q2[a] # {} => Listed(p, a)
  <2>1. p.pending[a] \cap p.queue[a] = {}
    BY <1>1 DEF Sound, Distinct
  <2>2. CASE a \in Q
    <3>1. P2[a] = p.pending[a] \cup ready[a] /\ Q2[a] = rest[a]
          /\ G[a] = p.queue[a] \ (ready[a] \cup rest[a])
      BY <1>4, <2>2
    <3>2. ready[a] \subseteq p.queue[a] /\ rest[a] \subseteq p.queue[a] /\ ready[a] \cap rest[a] = {}
      BY <1>3, <2>2
    <3>3. a \in p.beats
      BY <1>1, <2>2 DEF Sound
    <3>. HIDE DEF in
    <3>. QED
      BY <2>1, <2>2, <3>1, <3>2, <3>3 DEF Listed
  <2>3. CASE a \notin Q
    <3>. HIDE DEF in
    <3>1. P2[a] = p.pending[a] /\ Q2[a] = p.queue[a] /\ G[a] = {} /\ a \notin emptied
      BY <2>3
    <3>2. Q2[a] # {} => a \in B2
      BY <1>1, <3>1 DEF Sound
    <3>. QED
      BY <2>1, <3>1, <3>2 DEF Listed
  <2>. QED
    BY <2>2, <2>3
<1>. HIDE DEF gone, P2, Q2, N2, B2, G, emptied
<1>8. /\ Shaped(q) /\ q.pending = P2 /\ q.queue = Q2 /\ q.all = p.all \ gone
      /\ q.remote = p.remote \ gone /\ q.reserved = p.reserved /\ q.beats = B2
  BY <1>1, <1>6 DEF Forget, Sound, Shaped
<1>. HIDE DEF q
<1>9. Sound(q)
  BY <1>1, <1>5, <1>6, <1>7, <1>8, ShrinkHolds
<1>10. Held(q, emptied)
  BY <1>7, <1>8 DEF Good, Held, Listed, Sound, Shaped
<1>11. Held(q, emptied \cup {})
  BY <1>10
<1>. QED
  BY <1>2, <1>9, <1>11, ReleaseHolds DEF Good

LEMMA DemoteHolds ==
    ASSUME NEW p, Good(p)
    PROVE  Good(Demote(p))
<1>. DEFINE fresh == [a \in Addrs |-> {t \in p.pending[a] : t.nonce >= chain.nonce[a]}]
            costly == [a \in Addrs |-> {t \in fresh[a] : t.price > chain.balance[a]}]
            front == [a \in Addrs |-> Below(fresh[a], Nonces(costly[a]))]
            stay == [a \in Addrs |-> IF chain.nonce[a] \in Nonces(front[a]) THEN front[a] ELSE {}]
            back == [a \in Addrs |-> fresh[a] \ (costly[a] \cup stay[a])]
            gone == UNION {(p.pending[a] \ fresh[a]) \cup costly[a] : a \in Addrs}
            emptied == {a \in Addrs : p.pending[a] # {} /\ stay[a] = {}}
            G == [a \in Addrs |-> (p.pending[a] \ fresh[a]) \cup costly[a]]
            left == [Forget(p, gone) EXCEPT !.pending = stay]
            q == Requeue(left, back)
            Q2 == [a \in Addrs |-> p.queue[a] \cup back[a]]
<1>1. /\ Sound(p) /\ p.pending \in [Addrs -> SUBSET Txs] /\ p.queue \in [Addrs -> SUBSET Txs]
      /\ \A t \in Txs : t.nonce \in Nat
  BY TxsAssumption DEF Good, Sound, Shaped
<1>2. Demote(p) = Release(q, emptied)
  BY Zenon DEF Demote
<1>3. ASSUME NEW a \in Addrs
      PROVE  /\ fresh[a] \subseteq p.pending[a] /\ costly[a] \subseteq fresh[a]
             /\ stay[a] \subseteq fresh[a] \ costly[a]
  <2>1. fresh[a] \subseteq p.pending[a] /\ costly[a] \subseteq fresh[a]
    OBVIOUS
  <2>2. stay[a] \subseteq front[a]
    OBVIOUS
  <2>3. \A t \in fresh[a] : t.nonce \in Nat
    BY <1>1, <2>1
  <2>4. front[a] = Below(fresh[a], Nonces(costly[a]))
    OBVIOUS
  <2>. HIDE DEF fresh, costly, front, stay
  <2>5. front[a] \subseteq fresh[a]
    BY <2>4 DEF Below
  <2>6. \A t \in costly[a] : t \notin front[a]
    BY <2>1, <2>3, <2>4 DEF Below, Nonces
  <2>. QED
    BY <2>1, <2>2, <2>5, <2>6
<1>4. \A a \in Addrs : back[a] = fresh[a] \ (costly[a] \cup stay[a])
  OBVIOUS
<1>5. stay \in [Addrs -> SUBSET Txs] /\ back \in [Addrs -> SUBSET Txs]
      /\ G \in [Addrs -> SUBSET Txs] /\ Q2 \in [Addrs -> SUBSET Txs]
  <2>1. DOMAIN stay = Addrs /\ stay = [a \in Addrs |-> stay[a]]
    OBVIOUS
  <2>. HIDE DEF fresh, costly, stay
  <2>. QED
    BY <1>1, <1>3, <2>1
<1>6. gone = UNION {G[a] : a \in Addrs}
  OBVIOUS
<1>7. ASSUME NEW a \in Addrs
      PROVE  /\ G[a] \subseteq p.pending[a] \cup p.queue[a]
             /\ stay[a] \cup Q2[a] = (p.pending[a] \cup p.queue[a]) \ G[a]
             /\ stay[a] \cap Q2[a] = {}
             /\ Q2[a] # {} => a \in p.beats \/ back[a] # {}
             /\ stay[a] # {} \/ Q2[a] # {} => Listed(p, a)
             /\ Listed(p, a) => a \in emptied \/ stay[a] # {} \/ Q2[a] # {}
  <2>1. p.pending[a] \cap p.queue[a] = {} /\ (p.queue[a] # {} => a \in p.beats)
    BY <1>1 DEF Sound, Distinct
  <2>2. G[a] = (p.pending[a] \ fresh[a]) \cup costly[a] /\ Q2[a] = p.queue[a] \cup back[a]
    OBVIOUS
  <2>3. a \in emptied <=> p.pending[a] # {} /\ stay[a] = {}
    OBVIOUS
  <2>. HIDE DEF fresh, costly, stay, back, G, Q2, emptied
  <2>. QED
    BY <1>3, <1>4, <2>1, <2>2, <2>3 DEF Listed
<1>. HIDE DEF gone, G, fresh, costly, stay, back, emptied
<1>8. /\ Shaped(left) /\ left.pending = stay /\ left.queue = p.queue
      /\ left.all = p.all \ gone /\ left.remote = p.remote \ gone
      /\ left.reserved = p.reserved /\ left.beats = p.beats
  BY <1>1, <1>5 DEF Forget, Sound, Shaped
<1>. HIDE DEF left
<1>9. \A a \in Addrs : \A t \in back[a] : \A u \in left.queue[a] : t.nonce # u.nonce
  BY <1>1, <1>3, <1>4, <1>8 DEF Sound, Distinct
<1>10. /\ Shaped(q) /\ q.pending = left.pending
       /\ q.queue = [a \in Addrs |-> left.queue[a] \cup back[a]]
       /\ q.all = left.all /\ q.remote = left.remote /\ q.reserved = left.reserved
       /\ q.beats = left.beats \cup {a \in Addrs : back[a] # {}}
  <2>1. Shaped(left) /\ back \in [Addrs -> SUBSET Txs]
    BY <1>5, <1>8
  <2>. HIDE DEF q
  <2>. QED
    BY <2>1, <1>9, RequeueIs DEF q
<1>11. q.queue = Q2
  BY <1>8, <1>10
<1>. HIDE DEF q, Q2
<1>12. Sound(q)
  <2>1. \A a \in Addrs : q.queue[a] # {} => a \in q.beats
    BY <1>7, <1>8, <1>10, <1>11
  <2>. QED
    BY <1>1, <1>5, <1>6, <1>7, <1>8, <1>10, <1>11, <2>1, ShrinkHolds
<1>13. Held(q, emptied \cup {})
  BY <1>7, <1>8, <1>10, <1>11 DEF Good, Held, Listed, Sound, Shaped
<1>. QED
  BY <1>2, <1>12, <1>13, ReleaseHolds DEF Good

LEMMA SetAllHolds ==
    ASSUME NEW p, Good(p)
    PROVE  Good(SetAll(p))
<1>. DEFINE q == SetAll(p)
<1>1. /\ Shaped(q) /\ q.pending = p.pending /\ q.queue = p.queue /\ q.all = p.all
      /\ q.remote = p.remote /\ q.reserved = p.reserved /\ q.beats = p.beats
  BY DEF SetAll, Good, Sound, Shaped
<1>. HIDE DEF q
<1>2. \A a : Listed(q, a) <=> Listed(p, a)
  BY <1>1 DEF Listed
<1>3. Good(q)
  BY <1>1, <1>2 DEF Good, Sound, Held
<1>. QED
  BY <1>3 DEF q

-----------------------------------------------------------------------------
(* The limits                                                               *)

\* What is cut to one transaction or more keeps one.
LEMMA CappedKeepsOne ==
    ASSUME NEW L \in SUBSET Txs, L # {}, NEW n \in Nat \ {0}
    PROVE  Capped(L, n) # {}
<1>1. Nonces(L) \in SUBSET Nat /\ Nonces(L) # {}
  BY TxsAssumption DEF Nonces
<1>2. PICK least \in Nonces(L) : \A m \in Nonces(L) : least <= m
  BY <1>1, LeastNat
<1>3. PICK t \in L : t.nonce = least
  BY DEF Nonces
<1>4. \A u \in L : u.nonce \in Nat /\ ~(u.nonce < t.nonce)
  <2>1. \A u \in L : u.nonce \in Nonces(L)
    BY DEF Nonces
  <2>2. \A u \in L : u.nonce \in Nat /\ least <= u.nonce
    BY <1>1, <1>2, <2>1
  <2>3. least \in Nat
    BY <1>1, <1>2
  <2>. QED
    BY <1>3, <2>2, <2>3
<1>5. {u \in L : u.nonce < t.nonce} = {}
  BY <1>4
<1>6. Cardinality({u \in L : u.nonce < t.nonce}) = 0
  BY <1>5, FS_EmptySet
<1>7. t \in Capped(L, n)
  BY <1>6 DEF Capped
<1>. QED
  BY <1>7

\* The level to which truncatePending cuts.
LEMMA LevelIsPositive ==
    ASSUME NEW F \in SUBSET (AccountSlots..MaxNonce + 1)
    PROVE  (IF F = {} THEN AccountSlots ELSE Max(F)) \in Nat \ {0}
<1>1. AccountSlots \in Nat \ {0} /\ MaxNonce \in Nat /\ MaxNonce + 1 \in Nat
  BY ConfigAssumption, TxsAssumption
<1>2. F \in SUBSET Nat /\ \A x \in F : x # 0 /\ x <= MaxNonce + 1
  BY <1>1
<1>3. F # {} => Max(F) \in F
  BY <1>1, <1>2, MaxBounded
<1>. QED
  BY <1>1, <1>2, <1>3

\* truncatePending leaves every account one of its pending transactions, so that it
\* has no reservation to give back.
LEMMA TruncatePendingHolds ==
    ASSUME NEW p, Good(p)
    PROVE  Good(TruncatePending(p))
<1>. DEFINE spammers == {a \in Addrs \ locals : Cardinality(p.pending[a]) > AccountSlots}
            cutTo(n) == [a \in Addrs |-> IF a \in spammers THEN Capped(p.pending[a], n)
                                         ELSE p.pending[a]]
            fits == {n \in AccountSlots..MaxNonce + 1 : Total(cutTo(n)) <= GlobalSlots}
            level == IF fits = {} THEN AccountSlots ELSE Max(fits)
            stay == cutTo(level)
            G == [a \in Addrs |-> p.pending[a] \ stay[a]]
            N2 == [a \in Addrs |-> Min({p.next[a]} \cup Nonces(p.pending[a] \ stay[a]))]
            gone == UNION {p.pending[a] \ stay[a] : a \in Addrs}
            q == [Forget(p, gone) EXCEPT !.pending = stay, !.next = N2]
<1>1. CASE Total(p.pending) <= GlobalSlots
  BY <1>1 DEF TruncatePending
<1>2. CASE ~(Total(p.pending) <= GlobalSlots)
  <2>1. TruncatePending(p) = q
    BY <1>2, Zenon DEF TruncatePending
  <2>2. Sound(p) /\ p.pending \in [Addrs -> SUBSET Txs]
    BY DEF Good, Sound, Shaped
  <2>3. level \in Nat \ {0}
    <3>. HIDE DEF spammers, cutTo
    <3>1. fits \in SUBSET (AccountSlots..MaxNonce + 1)
      OBVIOUS
    <3>. HIDE DEF fits
    <3>. QED
      BY <3>1, LevelIsPositive
  <2>. HIDE DEF level
  <2>4. ASSUME NEW a \in Addrs
        PROVE  /\ stay[a] \subseteq p.pending[a]
               /\ p.pending[a] # {} => stay[a] # {}
               /\ G[a] = p.pending[a] \ stay[a]
    <3>1. CASE a \in spammers
      <4>1. stay[a] = Capped(p.pending[a], level)
        BY <3>1
      <4>2. p.pending[a] \in SUBSET Txs
        BY <2>2
      <4>. HIDE DEF stay
      <4>. QED
        BY <4>1, <4>2, <2>3, CappedKeepsOne DEF Capped
    <3>2. CASE a \notin spammers
      BY <3>2
    <3>. QED
      BY <3>1, <3>2
  <2>5. stay = [a \in Addrs |-> stay[a]]
    OBVIOUS
  <2>. HIDE DEF stay
  <2>6. stay \in [Addrs -> SUBSET Txs] /\ G \in [Addrs -> SUBSET Txs]
    BY <2>2, <2>4, <2>5
  <2>7. gone = UNION {G[a] : a \in Addrs}
    OBVIOUS
  <2>. HIDE DEF G, gone, N2
  <2>8. /\ Shaped(q) /\ q.pending = stay /\ q.queue = p.queue
        /\ q.all = p.all \ gone /\ q.remote = p.remote \ gone
        /\ q.reserved = p.reserved /\ q.beats = p.beats
    BY <2>2, <2>6 DEF Forget, Sound, Shaped
  <2>. HIDE DEF q
  <2>9. ASSUME NEW a \in Addrs
        PROVE  /\ G[a] \subseteq p.pending[a] \cup p.queue[a]
               /\ q.pending[a] \cup q.queue[a] = (p.pending[a] \cup p.queue[a]) \ G[a]
               /\ q.pending[a] \cap q.queue[a] = {}
               /\ q.queue[a] # {} => a \in q.beats
               /\ Listed(q, a) <=> Listed(p, a)
    <3>1. p.pending[a] \cap p.queue[a] = {} /\ (p.queue[a] # {} => a \in p.beats)
      BY <2>2 DEF Sound, Distinct
    <3>. QED
      BY <3>1, <2>4, <2>8 DEF Listed
  <2>10. Sound(q)
    BY <2>2, <2>6, <2>7, <2>8, <2>9, ShrinkHolds
  <2>11. Held(q, {})
    BY <2>8, <2>9 DEF Good, Held
  <2>. QED
    BY <2>1, <2>10, <2>11 DEF Good
<1>. QED
  BY <1>1, <1>2

\* Any removal of listed transactions that gives the reservations back.
LEMMA RemoveGood ==
    ASSUME NEW p, Good(p), NEW D \in SUBSET p.all
    PROVE  Good(RemoveTxs(p, D, {}))
<1>1. Sound(p) /\ Held(p, {})
  BY DEF Good
<1>2. Sound(RemoveTxs(p, D, {})) /\ Held(RemoveTxs(p, D, {}), {} \cup {})
  BY <1>1, RemoveHolds
<1>. QED
  BY <1>2 DEF Good

LEMMA TruncateQueueHolds ==
    ASSUME NEW p, Good(p), NEW rank \in Orders(p)
    PROVE  Good(TruncateQueue(p, rank))
<1>. DEFINE drop == Total(p.queue) - GlobalQueue
            size(a) == Cardinality(p.queue[a])
            before(a) == TotalOf(p.queue, {b \in DOMAIN rank : rank[b] < rank[a]})
            excess(a) == Min({size(a), Max({0, drop - before(a)})})
            D == UNION {p.queue[a] \ Capped(p.queue[a], size(a) - excess(a)) : a \in DOMAIN rank}
<1>1. TruncateQueue(p, rank) = IF drop <= 0 THEN p ELSE RemoveTxs(p, D, {})
  BY Zenon DEF TruncateQueue
<1>2. DOMAIN rank \subseteq Addrs
  BY DEF Orders
<1>3. D \subseteq p.all
  <2>. HIDE DEF excess, size
  <2>. QED
    BY <1>2 DEF Good, Sound, AllOf
<1>. HIDE DEF D, drop
<1>. QED
  BY <1>1, <1>3, RemoveGood

-----------------------------------------------------------------------------
(* The specification                                                        *)

\* What the lost transactions are matters to Reinject alone.
IInv == Good(pool) /\ lost \subseteq Txs

\* A run keeps what its trimming starts from.
LEMMA TrimHolds ==
    ASSUME NEW p, Good(p), Trim(p)
    PROVE  Good(pool')
<1>1. Good(TruncatePending(p))
  BY TruncatePendingHolds
<1>. DEFINE q == TruncatePending(p)
<1>. HIDE DEF q
<1>2. PICK rank \in Orders(q) : pool' = TruncateQueue(q, rank)
  BY Zenon DEF Trim, q
<1>. QED
  BY <1>1, <1>2, TruncateQueueHolds DEF q

LEMMA InitHolds == Init => IInv
<1>. SUFFICES ASSUME Init PROVE IInv
  OBVIOUS
<1>1. /\ pool.pending = [a \in Addrs |-> {}] /\ pool.queue = [a \in Addrs |-> {}]
      /\ pool.all = {} /\ pool.remote = {} /\ pool.reserved = {} /\ pool.beats = {}
      /\ Shaped(pool)
  BY DEF Init, Shaped
<1>2. Sound(pool)
  <2>1. AllOf(pool.pending, pool.queue) = {}
    BY <1>1 DEF AllOf
  <2>2. Distinct(pool.pending, pool.queue)
    BY <1>1 DEF Distinct
  <2>. QED
    BY <1>1, <2>1, <2>2 DEF Sound
<1>3. Held(pool, {})
  BY <1>1 DEF Held, Listed
<1>. QED
  BY <1>2, <1>3 DEF IInv, Good, Init

LEMMA StepHolds == IInv /\ [Next]_vars => IInv'
<1>. SUFFICES ASSUME IInv, [Next]_vars
              PROVE  Good(pool') /\ lost' \subseteq Txs
  BY DEF IInv, Good, Sound, Shaped, Distinct, AllOf, Held, Listed
<1>0. Good(pool) /\ lost \subseteq Txs
  BY DEF IInv
<1>1. ASSUME NEW t \in Txs, NEW local \in BOOLEAN, Add(t, local)
      PROVE  Good(pool') /\ lost' = lost
  BY <1>0, <1>1, AddingHolds DEF Add, TurnedAway
<1>2. ASSUME NEW tip, SetGasTip(tip)
      PROVE  Good(pool') /\ lost' = lost
  <2>1. {t \in pool.remote : t.price < tip} \in SUBSET pool.all
    BY <1>0 DEF Good, Sound
  <2>. QED
    BY <1>0, <1>2, <2>1, RemoveGood DEF SetGasTip
<1>3. ASSUME NEW A \in SUBSET Addrs, Evict(A)
      PROVE  Good(pool') /\ lost' = lost
  <2>1. UNION {pool.queue[a] : a \in A} \in SUBSET pool.all
    BY <1>0 DEF Good, Sound, AllOf
  <2>. QED
    BY <1>0, <1>3, <2>1, RemoveGood DEF Evict
<1>4. ASSUME NEW A \in SUBSET Addrs, RunPromotes(A)
      PROVE  Good(pool') /\ lost' = lost
  BY <1>0, <1>4, PromoteHolds, TrimHolds DEF RunPromotes
<1>5. ASSUME NEW A \in SUBSET Addrs, RunResets(A)
      PROVE  Good(pool') /\ lost' = lost
  <2>1. Good(Promote(pool, Addrs))
    BY <1>0, PromoteHolds
  <2>2. Good(SetAll(Demote(Promote(pool, Addrs))))
    BY <2>1, DemoteHolds, SetAllHolds
  <2>. QED
    BY <1>5, <2>2, TrimHolds DEF RunResets
<1>6. ASSUME NEW head \in Heads, NEW back \in SUBSET Txs, Reset(head, back)
      PROVE  Good(pool') /\ lost' \subseteq Txs
  <2>1. /\ pool'.pending = pool.pending /\ pool'.queue = pool.queue
        /\ pool'.all = pool.all /\ pool'.remote = pool.remote
        /\ pool'.reserved = pool.reserved /\ pool'.beats = pool.beats /\ Shaped(pool')
    BY <1>0, <1>6 DEF Reset, Good, Sound, Shaped
  <2>2. \A a : Listed(pool', a) <=> Listed(pool, a)
    BY <2>1 DEF Listed
  <2>. QED
    BY <1>0, <1>6, <2>1, <2>2 DEF Reset, Good, Sound, Held
<1>7. ASSUME ResetFails
      PROVE  Good(pool') /\ lost' = lost
  BY <1>0, <1>7 DEF ResetFails
<1>8. ASSUME NEW t \in Txs, Reinject(t)
      PROVE  Good(pool') /\ lost' \subseteq Txs
  BY <1>0, <1>8, AddingHolds DEF Reinject, TurnedAway
<1>9. ASSUME UNCHANGED vars
      PROVE  Good(pool') /\ lost' = lost
  BY <1>0, <1>9 DEF vars
<1>10. \A n \in 0..MaxLost : kSubset(n, Txs) \subseteq SUBSET Txs
  BY DEF kSubset
<1>. QED
  BY <1>0, <1>1, <1>2, <1>3, <1>4, <1>5, <1>6, <1>7, <1>8, <1>9, <1>10 DEF Next

\* No account ever has two transactions of one nonce: a replacement goes to the list
\* that has the nonce, and what leaves pending finds its nonce free in the queue.
THEOREM NoncesDisjointAlways == Spec => []NoncesDisjoint
<1>1. IInv => NoncesDisjoint
  BY DEF IInv, Good, Sound, Distinct, NoncesDisjoint
<1>. QED
  BY <1>1, InitHolds, StepHolds, PTL DEF Spec

\* Every reservation is given back when the last transaction of its account leaves, on
\* whatever path, and never before.
THEOREM ReservedWhileListedAlways == Spec => []ReservedWhileListed
<1>1. IInv => ReservedWhileListed
  BY DEF IInv, Good, Held, ReservedWhileListed
<1>. QED
  BY <1>1, InitHolds, StepHolds, PTL DEF Spec

\* No call leaves an account queued without a heartbeat.
THEOREM QueuedHasBeatAlways == Spec => []QueuedHasBeat
<1>1. IInv => QueuedHasBeat
  BY DEF IInv, Good, Sound, QueuedHasBeat
<1>. QED
  BY <1>1, InitHolds, StepHolds, PTL DEF Spec

-----------------------------------------------------------------------------
(* What takes transactions out, and what they free                          *)

\* A record with the fields of a pool, whatever their values.
Fielded(p) ==
    p \in [pending : {p.pending}, queue : {p.queue}, all : {p.all}, remote : {p.remote},
          next : {p.next}, reserved : {p.reserved}, beats : {p.beats}]

\* q has at most the transactions of p, and at most its remote ones.
Shrunk(p, q) == Fielded(q) /\ q.all \subseteq p.all /\ q.remote \subseteq p.remote

\* The steps on the indexes only take transactions out of them.
LEMMA StepsShrink ==
    ASSUME NEW p, Fielded(p), NEW S
    PROVE  /\ Shrunk(p, Forget(p, S)) /\ Forget(p, S).remote = p.remote \ S
           /\ Shrunk(p, Release(p, S)) /\ Shrunk(p, Beat(p, S))
<1>1. Shrunk(p, Forget(p, S)) /\ Forget(p, S).remote = p.remote \ S
  BY DEF Fielded, Shrunk, Forget
<1>2. Shrunk(p, Release(p, S))
  BY DEF Fielded, Shrunk, Release
<1>3. Shrunk(p, Beat(p, S))
  BY DEF Fielded, Shrunk, Beat
<1>. QED
  BY <1>1, <1>2, <1>3

LEMMA ShrinkTwice ==
    ASSUME NEW p, NEW q, NEW r, Shrunk(p, q), Shrunk(q, r)
    PROVE  Shrunk(p, r)
  BY DEF Shrunk

LEMMA RequeueShrinks ==
    ASSUME NEW p, Fielded(p), NEW back
    PROVE  Shrunk(p, Requeue(p, back))
<1>. DEFINE D == UNION {Replaced(p.queue[a], back[a]) : a \in Addrs}
            q == Forget(p, D)
            Q == [a \in Addrs |-> Merged(p.queue[a], back[a])]
            B == {a \in Addrs : back[a] \ Refused(p.queue[a], back[a]) # {}}
            r == [q EXCEPT !.queue = Q]
<1>1. Requeue(p, back) = Beat(r, B)
  BY Zenon DEF Requeue
<1>2. Shrunk(p, q)
  BY StepsShrink
<1>. HIDE DEF q, Q, B
<1>3. Shrunk(q, r)
  BY <1>2 DEF Shrunk, Fielded
<1>. HIDE DEF r
<1>4. Shrunk(r, Beat(r, B))
  BY <1>3, StepsShrink DEF Shrunk
<1>. QED
  BY <1>1, <1>2, <1>3, <1>4, ShrinkTwice

\* removeTx takes out what it is given, from the remote ones too.
LEMMA RemoveShrinks ==
    ASSUME NEW p, Fielded(p), NEW D, NEW keep
    PROVE  Shrunk(p, RemoveTxs(p, D, keep)) /\ RemoveTxs(p, D, keep).remote \subseteq p.remote \ D
<1>. DEFINE cut(a) == Cut(p, D, a)
            stay == [a \in Addrs |-> Below(p.pending[a], cut(a))]
            back == [a \in Addrs |-> {t \in p.pending[a] \ stay[a] : t.nonce \notin cut(a)}]
            keeps == [a \in Addrs |-> p.queue[a] \ Dequeued(p, D, a)]
            next == [a \in Addrs |-> Min({p.next[a]} \cup cut(a))]
            f == Forget(p, D)
            left == [f EXCEPT !.pending = stay, !.queue = keeps, !.next = next]
            moved == Requeue(left, back)
            idle == {a \in Addrs : Dequeued(p, D, a) # {} /\ moved.queue[a] = {}}
            u == [moved EXCEPT !.beats = @ \ idle]
<1>1. Unlist(p, D) = u
  BY Zenon DEF Unlist
<1>2. Shrunk(p, f) /\ f.remote = p.remote \ D
  BY StepsShrink
<1>. HIDE DEF f, stay, back, keeps, next
<1>3. Shrunk(f, left)
  BY <1>2 DEF Shrunk, Fielded
<1>. HIDE DEF left
<1>4. Shrunk(left, moved)
  BY <1>3, RequeueShrinks DEF Shrunk
<1>. HIDE DEF moved, idle
<1>5. Shrunk(moved, u)
  BY <1>4 DEF Shrunk, Fielded
<1>. HIDE DEF u
<1>6. Shrunk(u, Release(u, {t.from : t \in D} \ keep))
  BY <1>5, StepsShrink DEF Shrunk
<1>7. RemoveTxs(p, D, keep) = Release(u, {t.from : t \in D} \ keep)
  BY <1>1 DEF RemoveTxs
<1>. QED
  BY <1>2, <1>3, <1>4, <1>5, <1>6, <1>7 DEF Shrunk

LEMMA PromoteShrinks ==
    ASSUME NEW p, Fielded(p), NEW accounts
    PROVE  Shrunk(p, Promote(p, accounts))
<1>1. PICK gone, P, Q, N, B, E :
        Promote(p, accounts)
          = Release([Forget(p, gone) EXCEPT !.pending = P, !.queue = Q, !.next = N, !.beats = B], E)
  BY Zenon DEF Promote
<1>. DEFINE f == Forget(p, gone)
            q == [f EXCEPT !.pending = P, !.queue = Q, !.next = N, !.beats = B]
<1>2. Shrunk(p, f)
  BY StepsShrink
<1>. HIDE DEF f
<1>3. Shrunk(f, q)
  BY <1>2 DEF Shrunk, Fielded
<1>4. Promote(p, accounts) = Release(q, E)
  BY <1>1 DEF f
<1>. HIDE DEF q
<1>5. Shrunk(q, Release(q, E))
  BY <1>3, StepsShrink DEF Shrunk
<1>. QED
  BY <1>2, <1>3, <1>4, <1>5, ShrinkTwice

LEMMA DemoteShrinks ==
    ASSUME NEW p, Fielded(p)
    PROVE  Shrunk(p, Demote(p))
<1>1. PICK gone, stay, back, E :
        Demote(p) = Release(Requeue([Forget(p, gone) EXCEPT !.pending = stay], back), E)
  BY Zenon DEF Demote
<1>. DEFINE f == Forget(p, gone)
            g == [f EXCEPT !.pending = stay]
            q == Requeue(g, back)
<1>2. Shrunk(p, f)
  BY StepsShrink
<1>. HIDE DEF f
<1>3. Shrunk(f, g)
  BY <1>2 DEF Shrunk, Fielded
<1>4. Demote(p) = Release(q, E)
  BY <1>1 DEF f
<1>. HIDE DEF g
<1>5. Shrunk(g, q)
  BY <1>3, RequeueShrinks DEF Shrunk
<1>. HIDE DEF q
<1>6. Shrunk(q, Release(q, E))
  BY <1>5, StepsShrink DEF Shrunk
<1>. QED
  BY <1>2, <1>3, <1>4, <1>5, <1>6, ShrinkTwice

LEMMA SetAllShrinks ==
    ASSUME NEW p, Fielded(p)
    PROVE  Shrunk(p, SetAll(p))
  BY DEF SetAll, Shrunk, Fielded

\* What ends a run only takes out, too.
LEMMA TrimShrinks ==
    ASSUME NEW p, Fielded(p), Trim(p)
    PROVE  Shrunk(p, pool')
<1>. DEFINE q == TruncatePending(p)
<1>1. Shrunk(p, q)
  <2>1. \/ q = p
        \/ \E gone, stay, N : q = [Forget(p, gone) EXCEPT !.pending = stay, !.next = N]
    BY Zenon DEF TruncatePending
  <2>2. ASSUME NEW gone, NEW stay, NEW N, q = [Forget(p, gone) EXCEPT !.pending = stay, !.next = N]
        PROVE  Shrunk(p, q)
    <3>. DEFINE f == Forget(p, gone)
    <3>1. Shrunk(p, f)
      BY StepsShrink
    <3>2. q = [f EXCEPT !.pending = stay, !.next = N]
      BY <2>2
    <3>. HIDE DEF f, q
    <3>3. Shrunk(f, q)
      BY <3>1, <3>2 DEF Shrunk, Fielded
    <3>. QED
      BY <3>1, <3>3, ShrinkTwice
  <2>3. Shrunk(p, p)
    BY DEF Shrunk
  <2>. QED
    BY <2>1, <2>2, <2>3
<1>2. PICK rank : pool' = TruncateQueue(q, rank)
  BY DEF Trim
<1>3. Fielded(q)
  BY <1>1 DEF Shrunk
<1>. HIDE DEF q
<1>4. pool' = q \/ \E D : pool' = RemoveTxs(q, D, {})
  BY <1>2, Zenon DEF TruncateQueue
<1>5. Shrunk(q, pool')
  BY <1>3, <1>4, RemoveShrinks DEF Shrunk
<1>. QED
  BY <1>1, <1>5, ShrinkTwice

\* An insertion adds one transaction, and a local one adds no remote one.
LEMMA InsertAdds ==
    ASSUME NEW q, Fielded(q), NEW t, NEW isLocal \in BOOLEAN
    PROVE  LET n == Insert(q, t, isLocal) IN
           /\ Fielded(n)
           /\ n.all \subseteq q.all \cup {t}
           /\ n.remote \subseteq IF isLocal THEN q.remote ELSE q.remote \cup {t}
<1>. DEFINE f == Forget(q, Rival(q, t))
            X == IF isLocal THEN f.remote ELSE f.remote \cup {t}
            n == Insert(q, t, isLocal)
<1>1. Shrunk(q, f)
  BY StepsShrink
<1>2. PICK P, Q : n = Beat([f EXCEPT !.pending = P, !.queue = Q, !.all = @ \cup {t}, !.remote = X],
                           {t.from})
  <2>. DEFINE a == t.from
              with(L) == (L \ Rival(q, t)) \cup {t}
              P == [f.pending EXCEPT ![a] = IF InPlace(q, t) THEN with(@) ELSE @]
              Q == [f.queue EXCEPT ![a] = IF InPlace(q, t) THEN @ ELSE with(@)]
  <2>1. n = Beat([f EXCEPT !.pending = P, !.queue = Q, !.all = @ \cup {t}, !.remote = X], {a})
    BY <1>1 DEF Insert, Shrunk, Fielded
  <2>. QED
    BY <2>1
<1>. HIDE DEF f, n
<1>. DEFINE z == [f EXCEPT !.pending = P, !.queue = Q, !.all = @ \cup {t}, !.remote = X]
<1>3. Fielded(z) /\ z.all = f.all \cup {t} /\ z.remote = X
  BY <1>1 DEF Shrunk, Fielded
<1>. HIDE DEF z
<1>4. Shrunk(z, Beat(z, {t.from}))
  BY <1>3, StepsShrink
<1>5. n = Beat(z, {t.from})
  BY <1>2 DEF z
<1>. QED
  BY <1>1, <1>3, <1>4, <1>5 DEF Shrunk, n

LEMMA RunsShrink ==
    ASSUME Fielded(pool), NEW A, RunPromotes(A) \/ RunResets(A)
    PROVE  Shrunk(pool, pool')
<1>1. CASE RunPromotes(A)
  <2>1. Shrunk(pool, Promote(pool, A))
    BY PromoteShrinks
  <2>2. Shrunk(Promote(pool, A), pool')
    BY <1>1, <2>1, TrimShrinks DEF RunPromotes, Shrunk
  <2>. QED
    BY <2>1, <2>2, ShrinkTwice
<1>2. CASE RunResets(A)
  <2>. DEFINE p1 == Promote(pool, Addrs)
              p2 == Demote(p1)
              p3 == SetAll(p2)
  <2>1. Shrunk(pool, p1)
    BY PromoteShrinks
  <2>2. Trim(p3)
    BY <1>2 DEF RunResets
  <2>. HIDE DEF p1
  <2>3. Shrunk(p1, p2)
    BY <2>1, DemoteShrinks DEF Shrunk
  <2>. HIDE DEF p2
  <2>4. Shrunk(p2, p3)
    BY <2>3, SetAllShrinks DEF Shrunk
  <2>. HIDE DEF p3
  <2>5. Shrunk(p3, pool')
    BY <2>2, <2>4, TrimShrinks DEF Shrunk
  <2>. QED
    BY <2>1, <2>3, <2>4, <2>5, ShrinkTwice
<1>. QED
  BY <1>1, <1>2

\* The slots of a set of transactions, one by one.
Slotted(S) == {s \in S \X (1..4) : s[2] <= s[1].slots}

LEMMA SlottedFinite ==
    ASSUME NEW S \in SUBSET Txs
    PROVE  /\ IsFiniteSet(Slotted(S)) /\ Slots(S) = Cardinality(Slotted(S))
           /\ Slots(S) \in Nat
<1>1. IsFiniteSet(S) /\ IsFiniteSet(1..4)
  <2>1. IsFiniteSet(S)
    BY FS_Subset, TxsAssumption
  <2>2. \A n \in Nat : IsFiniteSet(1..n)
    BY FS_Interval
  <2>3. IsFiniteSet(1..4)
    BY <2>2
  <2>. QED
    BY <2>1, <2>3
<1>2. IsFiniteSet(S \X (1..4))
  BY <1>1, FS_Product
<1>3. Slotted(S) \in SUBSET (S \X (1..4))
  BY DEF Slotted
<1>4. IsFiniteSet(Slotted(S))
  BY <1>2, <1>3, FS_Subset
<1>5. Slots(S) = Cardinality(Slotted(S))
  BY DEF Slots, Slotted
<1>. QED
  BY <1>4, <1>5, FS_CardinalityType

\* Taking transactions out frees their slots, and one more takes at most its own.
LEMMA SlotsWithout ==
    ASSUME NEW S \in SUBSET Txs, NEW D \in SUBSET S
    PROVE  Slots(S \ D) = Slots(S) - Slots(D)
<1>1. Slotted(S \ D) = Slotted(S) \ Slotted(D) /\ Slotted(S) \cap Slotted(D) = Slotted(D)
  BY DEF Slotted
<1>2. D \in SUBSET Txs /\ S \ D \in SUBSET Txs
  OBVIOUS
<1>3. Cardinality(Slotted(S) \ Slotted(D)) = Cardinality(Slotted(S)) - Cardinality(Slotted(D))
  <2>. DEFINE A == Slotted(S)
              B == Slotted(D)
  <2>1. IsFiniteSet(A) /\ A \cap B = B
    BY <1>1, SlottedFinite
  <2>. HIDE DEF A, B
  <2>2. Cardinality(A \ B) = Cardinality(A) - Cardinality(A \cap B)
    BY <2>1, FS_Difference
  <2>. QED
    BY <2>1, <2>2 DEF A, B
<1>. QED
  BY <1>1, <1>2, <1>3, SlottedFinite

LEMMA SlotsMonotone ==
    ASSUME NEW S \in SUBSET Txs, NEW T \in SUBSET S
    PROVE  Slots(T) <= Slots(S)
<1>1. Slotted(T) \in SUBSET Slotted(S) /\ T \in SUBSET Txs
  BY DEF Slotted
<1>. QED
  BY <1>1, SlottedFinite, FS_Subset

LEMMA SlotsWith ==
    ASSUME NEW S \in SUBSET Txs, NEW t \in Txs
    PROVE  Slots(S \cup {t}) <= Slots(S) + t.slots
<1>1. t.slots \in 1..4
  BY TxsAssumption
<1>. DEFINE A == Slotted(S)
            B == Slotted({t})
            f == [s \in B |-> s[2]]
<1>2. Slotted(S \cup {t}) = A \cup B
  BY DEF Slotted
<1>3. f \in Injection(B, 1..t.slots)
  <2>1. \A s \in B : s = <<t, s[2]>> /\ s[2] \in 1..t.slots
    BY <1>1 DEF Slotted
  <2>2. f \in [B -> 1..t.slots]
    BY <2>1
  <2>3. \A x, y \in B : f[x] = f[y] => x = y
    BY <2>1
  <2>. HIDE DEF f, B
  <2>. QED
    BY <2>2, <2>3 DEF Injection, IsInjective
<1>. HIDE DEF A, B, f
<1>4. IsFiniteSet(1..t.slots) /\ Cardinality(1..t.slots) = t.slots
  BY <1>1, FS_Interval
<1>5. IsFiniteSet(B) /\ Cardinality(B) <= t.slots
  BY <1>3, <1>4, FS_Injection
<1>6. IsFiniteSet(A) /\ Slots(S) = Cardinality(A)
  BY SlottedFinite DEF A
<1>7. S \cup {t} \in SUBSET Txs
  OBVIOUS
<1>8. Slots(S \cup {t}) = Cardinality(A \cup B)
  BY <1>2, <1>7, SlottedFinite
<1>9. Cardinality(A \cup B) = Cardinality(A) + Cardinality(B) - Cardinality(A \cap B)
  BY <1>5, <1>6, FS_Union
<1>10. A \cap B \in SUBSET A
  OBVIOUS
<1>11. Cardinality(A \cap B) \in Nat /\ Cardinality(A) \in Nat /\ Cardinality(B) \in Nat
  BY <1>5, <1>6, <1>10, FS_CardinalityType, FS_Subset
<1>. QED
  BY <1>1, <1>5, <1>6, <1>8, <1>9, <1>11

\* Entries of different transactions count for no more than these have.
LEMMA CountedOnce ==
    ASSUME NEW p, p.remote \in SUBSET Txs, NEW E,
           \A e \in Live(p, E) : e = <<e[1], 1>>
    PROVE  Counted(Live(p, E)) \in Nat /\ Counted(Live(p, E)) <= Slots(Victims(p, E))
<1>. DEFINE L == Live(p, E)
            D == Victims(p, E)
            C == {s \in L \X (1..4) : s[2] <= s[1][1].slots}
            f == [s \in C |-> <<s[1][1], s[2]>>]
<1>1. D \in SUBSET Txs
  BY DEF Victims, Live
<1>2. f \in Injection(C, Slotted(D))
  <2>1. \A s \in C : s = <<<<s[1][1], 1>>, s[2]>> /\ <<s[1][1], s[2]>> \in Slotted(D)
    BY DEF Slotted, Victims
  <2>2. f \in [C -> Slotted(D)]
    BY <2>1
  <2>3. \A x, y \in C : f[x] = f[y] => x = y
    <3>. SUFFICES ASSUME NEW x \in C, NEW y \in C, f[x] = f[y] PROVE x = y
      OBVIOUS
    <3>1. <<x[1][1], x[2]>> = <<y[1][1], y[2]>>
      OBVIOUS
    <3>2. x[1][1] = y[1][1] /\ x[2] = y[2]
      BY <3>1
    <3>. HIDE DEF C, f
    <3>. QED
      BY <2>1, <3>2
  <2>. HIDE DEF f, C, D
  <2>. QED
    BY <2>2, <2>3 DEF Injection, IsInjective
<1>3. Counted(L) = Cardinality(C)
  BY DEF Counted
<1>. HIDE DEF L, D, C, f
<1>4. IsFiniteSet(Slotted(D)) /\ Slots(D) = Cardinality(Slotted(D))
  BY <1>1, SlottedFinite
<1>5. Cardinality(C) \in Nat /\ Cardinality(C) <= Cardinality(Slotted(D))
  BY <1>2, <1>4, FS_Injection, FS_CardinalityType
<1>. QED
  BY <1>3, <1>4, <1>5 DEF L, D

\* What add leaves: at most the transactions that were not discarded and the new one, and
\* of the heaps what was not popped, with an entry for the new one.
Entered(E, t, isLocal) == IF isLocal THEN Popped(priced, E) ELSE Put(Popped(priced, E), t)

LetIn(p, t, isLocal, E, q, H) ==
    /\ Fielded(q)
    /\ q.all \subseteq (p.all \ Victims(p, E)) \cup {t}
    /\ q.remote \subseteq (p.remote \ Victims(p, E)) \cup (IF isLocal THEN {} ELSE {t})
    /\ \/ q.remote \subseteq p.remote \ Victims(p, E) /\ H = {Popped(priced, E)}
       \/ H \subseteq {Entered(E, t, isLocal)} \cup Removed(Entered(E, t, isLocal), q, {})

LEMMA AddingLetsIn ==
    ASSUME NEW p, Fielded(p), Good(p), NEW t \in Txs, NEW local \in BOOLEAN,
           NEW r \in Adding(p, t, local)
    PROVE  \E E \in RoomFor(p, t, IsLocal(t, local)) :
                LetIn(p, t, IsLocal(t, local), E, r.pool, r.heaps)
<1>. DEFINE a == t.from
            isLocal == IsLocal(t, local)
            held == [p EXCEPT !.reserved = @ \cup {a}]
<1>0. isLocal \in BOOLEAN
  BY DEF IsLocal
<1>1. PICK E \in RoomFor(p, t, isLocal) : r = Outcome(p, t, local, E)
  BY DEF Adding
<1>. DEFINE D == Victims(p, E)
<1>2. /\ Fielded(held) /\ held.all = p.all /\ held.remote = p.remote
      /\ Sound(held) /\ Held(held, {a})
  <2>1. a \in Addrs
    BY TxsAssumption
  <2>2. /\ Shaped(held) /\ Fielded(held) /\ held.pending = p.pending /\ held.queue = p.queue
        /\ held.all = p.all /\ held.remote = p.remote /\ held.beats = p.beats
        /\ held.reserved = p.reserved \cup {a}
    BY <2>1 DEF Good, Sound, Shaped, Fielded
  <2>. HIDE DEF held
  <2>3. Sound(held)
    BY <2>2 DEF Good, Sound
  <2>4. \A b : Listed(held, b) <=> Listed(p, b)
    BY <2>2 DEF Listed
  <2>. QED
    BY <2>2, <2>3, <2>4 DEF Good, Held
<1>3. D \subseteq p.all
  BY DEF Victims, Live, Good, Sound
<1>. DEFINE q == RemoveTxs(held, D, {a})
            n == Insert(q, t, isLocal)
            marked == LocalsWith(q, t, local)
            m == Migrated(n, marked)
            left == Popped(priced, E)
            put == IF isLocal THEN left ELSE Put(left, t)
<1>. HIDE DEF isLocal
<1>4. /\ r.pool = IF Accepted(q, t) THEN m
                  ELSE IF Listed(p, a) THEN q ELSE [q EXCEPT !.reserved = @ \ {a}]
      /\ r.heaps = IF ~Accepted(q, t) THEN {left}
                   ELSE IF Rival(q, t) # {} \/ marked # locals THEN Removed(put, m, {}) ELSE {put}
  BY <1>1 DEF Outcome, isLocal
<1>. HIDE DEF held, D
<1>5. Shrunk(held, q) /\ q.remote \subseteq held.remote \ D
  BY <1>2, RemoveShrinks
<1>6. q.all = p.all \ D
  <2>1. Sound(held) /\ Held(held, {a}) /\ D \in SUBSET held.all
    BY <1>2, <1>3
  <2>2. /\ Sound(q) /\ Held(q, {a} \cup {a}) /\ q.all = held.all \ D
        /\ held.reserved \cap {a} \subseteq q.reserved
        /\ \A b \in Addrs : Listed(q, b) => Listed(held, b)
    BY <2>1, RemoveHolds
  <2>. QED
    BY <1>2, <2>2
<1>. HIDE DEF q, n, m, marked, left, put
<1>7. put = Entered(E, t, isLocal) /\ left = Popped(priced, E)
  BY DEF Entered, put, left
<1>8. CASE ~Accepted(q, t)
  <2>1. /\ Fielded(r.pool) /\ r.pool.all = q.all /\ r.pool.remote = q.remote
        /\ r.heaps = {left}
    BY <1>4, <1>5, <1>8 DEF Shrunk, Fielded
  <2>2. LetIn(p, t, isLocal, E, r.pool, r.heaps)
    BY <1>2, <1>5, <1>6, <1>7, <2>1 DEF LetIn, D
  <2>. QED
    BY <2>2 DEF isLocal
<1>9. CASE Accepted(q, t)
  <2>1. /\ Fielded(n) /\ n.all \subseteq q.all \cup {t}
        /\ n.remote \subseteq IF isLocal THEN q.remote ELSE q.remote \cup {t}
    BY <1>0, <1>5, InsertAdds DEF Shrunk, n
  <2>2. Shrunk(n, r.pool) /\ r.pool = m
    BY <1>4, <1>9, <2>1 DEF Migrated, Shrunk, Fielded, m
  <2>3. r.heaps \subseteq {put} \cup Removed(put, r.pool, {})
    BY <1>4, <1>9, <2>2
  <2>4. LetIn(p, t, isLocal, E, r.pool, r.heaps)
    BY <1>2, <1>5, <1>6, <1>7, <2>1, <2>2, <2>3 DEF LetIn, D, Shrunk
  <2>. QED
    BY <2>4 DEF isLocal
<1>. QED
  BY <1>8, <1>9

-----------------------------------------------------------------------------
(* The heaps                                                                *)

\* The heaps h have every one of the transactions R.
Heaped(h, R) == h \in [Txs -> Nat] /\ \A t \in R : h[t] > 0

HeapInv == Heaped(priced, pool.remote)

LEMMA RemovedHeaped ==
    ASSUME NEW h, NEW p, NEW later \in SUBSET Txs, p.remote \in SUBSET Txs,
           Heaped(h, p.remote), NEW g \in Removed(h, p, later)
    PROVE  Heaped(g, p.remote)
<1>1. CASE g = h
  BY <1>1
<1>2. CASE \E K \in SUBSET later : g = Reheap(p.remote \cup K)
  BY <1>2 DEF Reheap, Heaped
<1>. QED
  BY <1>1, <1>2 DEF Removed

\* What is popped leaves no entry of a transaction more than once.
LEMMA PoppedHeaped ==
    ASSUME NEW h \in [Txs -> Nat], NEW E \in SUBSET Entries(h), NEW R \in SUBSET Txs,
           \A t \in R : h[t] > 0 /\ \A e \in E : e[1] # t
    PROVE  Heaped(Popped(h, E), R)
<1>1. ASSUME NEW t \in Txs
      PROVE  /\ Popped(h, E)[t] \in Nat
             /\ (\A e \in E : e[1] # t) => Popped(h, E)[t] = h[t]
  <2>. DEFINE X == {e \in E : e[1] = t}
              I == 1..h[t]
  <2>1. Popped(h, E)[t] = h[t] - Cardinality(X)
    BY DEF Popped
  <2>2. X \in SUBSET ({t} \X I)
    BY DEF Entries
  <2>3. IsFiniteSet(I) /\ Cardinality(I) = h[t]
    BY FS_Interval
  <2>4. IsFiniteSet({t}) /\ Cardinality({t}) = 1
    BY FS_Singleton
  <2>5. h[t] \in Nat
    OBVIOUS
  <2>6. (\A e \in E : e[1] # t) => X = {}
    OBVIOUS
  <2>. HIDE DEF X, I
  <2>7. IsFiniteSet({t} \X I) /\ Cardinality({t} \X I) = h[t]
    BY <2>3, <2>4, <2>5, FS_Product
  <2>8. IsFiniteSet(X) /\ Cardinality(X) <= h[t]
    BY <2>2, <2>7, FS_Subset
  <2>9. Cardinality(X) \in Nat
    BY <2>8, FS_CardinalityType
  <2>10. X = {} => Cardinality(X) = 0
    BY FS_EmptySet
  <2>. QED
    BY <2>1, <2>5, <2>6, <2>8, <2>9, <2>10
<1>2. Popped(h, E) \in [Txs -> Nat]
  BY <1>1 DEF Popped
<1>. QED
  BY <1>1, <1>2 DEF Heaped

LEMMA AddingHeaped ==
    ASSUME Fielded(pool), Good(pool), HeapInv, NEW t \in Txs, NEW local \in BOOLEAN,
           NEW r \in Adding(pool, t, local), NEW g \in r.heaps
    PROVE  Heaped(g, r.pool.remote)
<1>. DEFINE isLocal == IsLocal(t, local)
<1>1. PICK E \in RoomFor(pool, t, isLocal) : LetIn(pool, t, isLocal, E, r.pool, r.heaps)
  BY AddingLetsIn
<1>. DEFINE D == Victims(pool, E)
            S == pool.remote \ D
<1>2. E \in SUBSET Entries(priced)
  BY DEF RoomFor, Discard
<1>3. pool.remote \in SUBSET Txs /\ S \in SUBSET Txs
  BY DEF Good, Sound, Shaped
<1>4. \A u \in S : priced[u] > 0 /\ \A e \in E : e[1] # u
  BY DEF HeapInv, Heaped, Victims, Live
<1>5. Heaped(Popped(priced, E), S)
  BY <1>2, <1>3, <1>4, PoppedHeaped DEF HeapInv, Heaped
<1>. HIDE DEF isLocal, S
<1>6. /\ r.pool.remote \subseteq S \cup (IF isLocal THEN {} ELSE {t})
      /\ \/ r.pool.remote \subseteq S /\ g = Popped(priced, E)
         \/ g = Entered(E, t, isLocal)
         \/ g \in Removed(Entered(E, t, isLocal), r.pool, {})
  BY <1>1 DEF LetIn, S
<1>. HIDE DEF D
<1>7. CASE r.pool.remote \subseteq S /\ g = Popped(priced, E)
  BY <1>5, <1>7 DEF Heaped
<1>8. CASE g = Entered(E, t, isLocal) \/ g \in Removed(Entered(E, t, isLocal), r.pool, {})
  <2>1. Heaped(Entered(E, t, isLocal), r.pool.remote)
    BY <1>3, <1>5, <1>6 DEF Entered, Put, Heaped
  <2>2. r.pool.remote \in SUBSET Txs
    BY <1>3, <1>6
  <2>. QED
    BY <1>8, <2>1, <2>2, RemovedHeaped
<1>. QED
  BY <1>6, <1>7, <1>8

LEMMA AwayHeaped ==
    ASSUME Good(pool), HeapInv, NEW t, NEW local, TurnedAway(t, local)
    PROVE  HeapInv'
<1>1. PICK E \in SUBSET Entries(priced) : Live(pool, E) = {} /\ priced' = Popped(priced, E)
  BY DEF TurnedAway
<1>2. pool.remote \in SUBSET Txs /\ pool' = pool
  BY DEF TurnedAway, Good, Sound, Shaped
<1>3. \A u \in pool.remote : priced[u] > 0 /\ \A e \in E : e[1] # u
  BY <1>1 DEF HeapInv, Heaped, Live
<1>4. Heaped(Popped(priced, E), pool.remote)
  BY <1>2, <1>3, PoppedHeaped DEF HeapInv, Heaped
<1>. QED
  BY <1>1, <1>2, <1>4 DEF HeapInv

LEMMA CallsHeaped ==
    ASSUME Good(pool), HeapInv, Shrunk(pool, pool'), CallsRemoved
    PROVE  HeapInv'
<1>1. /\ pool'.remote \in SUBSET Txs /\ Heaped(priced, pool'.remote)
      /\ pool.remote \ pool'.remote \in SUBSET Txs
  BY DEF Good, Sound, Shaped, HeapInv, Heaped, Shrunk
<1>2. Heaped(priced', pool'.remote)
  BY <1>1, RemovedHeaped DEF CallsRemoved
<1>. QED
  BY <1>2 DEF HeapInv

LEMMA StepHeaped == IInv /\ HeapInv /\ [Next]_vars => HeapInv'
<1>. SUFFICES ASSUME IInv, HeapInv, [Next]_vars PROVE HeapInv'
  OBVIOUS
<1>0. Good(pool) /\ Fielded(pool)
  BY DEF IInv, Good, Sound, Shaped, Fielded
<1>1. ASSUME NEW t \in Txs, NEW local \in BOOLEAN, NEW r \in Adding(pool, t, local),
             pool' = r.pool, priced' \in r.heaps
      PROVE  HeapInv'
  BY <1>0, <1>1, AddingHeaped DEF HeapInv
<1>2. ASSUME NEW t \in Txs, NEW local \in BOOLEAN, Add(t, local) PROVE HeapInv'
  BY <1>0, <1>1, <1>2, AwayHeaped DEF Add
<1>3. ASSUME NEW tip, SetGasTip(tip) PROVE HeapInv'
  <2>1. Shrunk(pool, pool') /\ CallsRemoved
    BY <1>0, <1>3, RemoveShrinks DEF SetGasTip
  <2>. QED
    BY <1>0, <2>1, CallsHeaped
<1>4. ASSUME NEW A, Evict(A) PROVE HeapInv'
  <2>1. Shrunk(pool, pool') /\ CallsRemoved
    BY <1>0, <1>4, RemoveShrinks DEF Evict
  <2>. QED
    BY <1>0, <2>1, CallsHeaped
<1>5. ASSUME NEW A, RunPromotes(A) PROVE HeapInv'
  <2>1. Shrunk(pool, pool') /\ CallsRemoved
    BY <1>0, <1>5, RunsShrink DEF RunPromotes
  <2>. QED
    BY <1>0, <2>1, CallsHeaped
<1>6. ASSUME NEW A, RunResets(A) PROVE HeapInv'
  <2>. DEFINE kept == Demote(Promote(pool, Addrs))
              q == SetAll(kept)
  <2>1. Trim(q) /\ priced' \in Removed(Reheap(kept.remote), pool', kept.remote \ pool'.remote)
    BY <1>6 DEF RunResets
  <2>2. Shrunk(pool, kept)
    <3>. DEFINE p1 == Promote(pool, Addrs)
    <3>1. Shrunk(pool, p1)
      BY <1>0, PromoteShrinks
    <3>. HIDE DEF p1
    <3>2. Shrunk(p1, Demote(p1))
      BY <3>1, DemoteShrinks DEF Shrunk
    <3>3. Shrunk(pool, Demote(p1))
      BY <3>1, <3>2, ShrinkTwice
    <3>. QED
      BY <3>3 DEF p1
  <2>. HIDE DEF kept
  <2>3. Shrunk(kept, q)
    BY <2>2, SetAllShrinks DEF Shrunk
  <2>. HIDE DEF q
  <2>4. Shrunk(q, pool')
    BY <2>1, <2>3, TrimShrinks DEF Shrunk
  <2>5. /\ pool'.remote \subseteq kept.remote /\ kept.remote \in SUBSET Txs
        /\ pool'.remote \in SUBSET Txs /\ kept.remote \ pool'.remote \in SUBSET Txs
    BY <1>0, <2>2, <2>3, <2>4 DEF Shrunk, Good, Sound, Shaped
  <2>6. Heaped(Reheap(kept.remote), pool'.remote)
    BY <2>5 DEF Heaped, Reheap
  <2>7. Heaped(priced', pool'.remote)
    BY <2>1, <2>5, <2>6, RemovedHeaped
  <2>. QED
    BY <2>7 DEF HeapInv
<1>7. ASSUME NEW head, NEW back, Reset(head, back) PROVE HeapInv'
  BY <1>0, <1>7 DEF Reset, HeapInv, Fielded
<1>8. ASSUME ResetFails \/ UNCHANGED vars PROVE HeapInv'
  BY <1>8 DEF ResetFails, vars, HeapInv
<1>9. ASSUME NEW t \in Txs, Reinject(t) PROVE HeapInv'
  <2>1. CASE \E r \in Adding(pool, t, FALSE) : pool' = r.pool /\ priced' \in r.heaps
    BY <1>1, <2>1
  <2>2. CASE TurnedAway(t, FALSE)
    BY <1>0, <2>2, AwayHeaped
  <2>3. CASE UNCHANGED <<pool, priced>>
    BY <2>3 DEF HeapInv
  <2>. QED
    BY <1>9, <2>1, <2>2, <2>3 DEF Reinject
<1>. QED
  BY <1>2, <1>3, <1>4, <1>5, <1>6, <1>7, <1>8, <1>9 DEF Next

LEMMA InitHeaped == Init => HeapInv
  BY DEF Init, HeapInv, Heaped, Reheap

\* Whatever add, removeTx, promoteExecutables, demoteUnexecutables and the limits do in
\* one call, and in any order of the calls, the lookup is in step with the two lists; and
\* no pop, no rebuilding and no entry left behind costs a remote transaction its place in
\* the heaps.
THEOREM LookupAgreesAlways == Spec => []LookupAgrees
<1>1. IInv /\ HeapInv => LookupAgrees
  BY DEF IInv, Good, Sound, AllOf, HeapInv, Heaped, LookupAgrees
<1>. QED
  BY <1>1, InitHolds, StepHolds, InitHeaped, StepHeaped, PTL DEF Spec

-----------------------------------------------------------------------------
(* Room for one more                                                        *)

\* A remote transaction that enters has had its room made, or counted.
RoomMade(p, q) ==
    \A t \in q.remote \ p.all :
        \/ Slots(q.all) <= GlobalSlots + GlobalQueue
        \/ \E r \in p.remote \ q.remote : priced[r] > 1

LEMMA AddingMakesRoom ==
    ASSUME NEW p, Fielded(p), Good(p), priced \in [Txs -> Nat],
           NEW t \in Txs, NEW local \in BOOLEAN, NEW r \in Adding(p, t, local)
    PROVE  RoomMade(p, r.pool)
<1>. DEFINE isLocal == IsLocal(t, local)
            limit == GlobalSlots + GlobalQueue
<1>1. limit \in Nat
  BY ConfigAssumption
<1>2. PICK E \in RoomFor(p, t, isLocal) : LetIn(p, t, isLocal, E, r.pool, r.heaps)
  BY AddingLetsIn
<1>. DEFINE D == Victims(p, E)
            q == r.pool
<1>3. D \subseteq p.remote /\ p.remote \subseteq p.all /\ p.all \subseteq Txs
  BY DEF Victims, Live, Good, Sound, Shaped
<1>. HIDE DEF isLocal
<1>4. /\ q.all \subseteq (p.all \ D) \cup {t}
      /\ q.remote \subseteq (p.remote \ D) \cup (IF isLocal THEN {} ELSE {t})
  BY <1>2 DEF LetIn
<1>5. Overflow(p, t) = Slots(p.all) + t.slots - limit
  BY DEF Overflow
<1>. HIDE DEF D, q, limit
<1>. SUFFICES ASSUME NEW x \in q.remote \ p.all
              PROVE  \/ Slots(q.all) <= limit
                     \/ \E d \in p.remote \ q.remote : priced[d] > 1
  BY DEF RoomMade, q, limit
<1>6. ~isLocal /\ t \notin p.all
  BY <1>3, <1>4
<1>7. q.remote \cap D = {}
  BY <1>3, <1>4, <1>6
<1>8. /\ p.all \in SUBSET Txs /\ D \in SUBSET p.all /\ D \in SUBSET Txs
      /\ p.all \ D \in SUBSET Txs /\ q.all \in SUBSET Txs
      /\ (p.all \ D) \cup {t} \in SUBSET Txs
  BY <1>3, <1>4
<1>9. /\ Slots(q.all) \in Nat /\ Slots((p.all \ D) \cup {t}) \in Nat
      /\ Slots(p.all) \in Nat /\ Slots(D) \in Nat /\ t.slots \in Nat
  BY <1>8, SlottedFinite, TxsAssumption
<1>10. Slots(q.all) <= Slots(p.all) - Slots(D) + t.slots
  <2>1. Slots(q.all) <= Slots((p.all \ D) \cup {t})
    BY <1>4, <1>8, SlotsMonotone
  <2>2. Slots((p.all \ D) \cup {t}) <= Slots(p.all \ D) + t.slots
    BY <1>8, SlotsWith
  <2>3. Slots(p.all \ D) = Slots(p.all) - Slots(D)
    BY <1>8, SlotsWithout
  <2>. QED
    BY <1>9, <2>1, <2>2, <2>3
<1>11. \/ Overflow(p, t) <= 0
       \/ Counted(Live(p, E)) >= Overflow(p, t) /\ E \in SUBSET Entries(priced)
  BY <1>6 DEF RoomFor, Discard
<1>12. CASE Overflow(p, t) <= 0
  BY <1>1, <1>5, <1>9, <1>10, <1>12
<1>13. CASE Counted(Live(p, E)) >= Overflow(p, t) /\ E \in SUBSET Entries(priced)
  <2>1. CASE \A e \in Live(p, E) : e = <<e[1], 1>>
    <3>1. p.remote \in SUBSET Txs
      BY <1>3
    <3>2. Counted(Live(p, E)) \in Nat /\ Counted(Live(p, E)) <= Slots(D)
      BY <2>1, <3>1, CountedOnce DEF D
    <3>. QED
      BY <1>1, <1>5, <1>9, <1>10, <1>13, <3>2
  <2>2. CASE \E e \in Live(p, E) : e # <<e[1], 1>>
    <3>1. PICK e \in Live(p, E) : e # <<e[1], 1>>
      BY <2>2
    <3>2. PICK d \in Txs : e \in {d} \X (1..priced[d])
      BY <1>13, <3>1 DEF Live, Entries
    <3>3. e[1] = d /\ e[2] \in 1..priced[d] /\ e = <<d, e[2]>> /\ priced[d] \in Nat
      BY <3>2
    <3>4. priced[d] > 1
      BY <3>1, <3>3
    <3>5. d \in D
      BY <3>1, <3>3 DEF D, Victims
    <3>. QED
      BY <1>3, <1>7, <3>4, <3>5
  <2>. QED
    BY <2>1, <2>2
<1>. QED
  BY <1>11, <1>12, <1>13

LEMMA StepMakesRoom == IInv /\ HeapInv /\ [Next]_vars => RoomMade(pool, pool')
<1>. SUFFICES ASSUME IInv, HeapInv, [Next]_vars PROVE RoomMade(pool, pool')
  OBVIOUS
<1>0. /\ Good(pool) /\ Fielded(pool) /\ pool.remote \subseteq pool.all
      /\ priced \in [Txs -> Nat]
  BY DEF IInv, Good, Sound, Shaped, Fielded, HeapInv, Heaped
<1>1. ASSUME pool'.remote \subseteq pool.remote PROVE RoomMade(pool, pool')
  BY <1>0, <1>1 DEF RoomMade
<1>2. ASSUME NEW t \in Txs, NEW local \in BOOLEAN, Add(t, local) PROVE RoomMade(pool, pool')
  BY <1>0, <1>1, <1>2, AddingMakesRoom DEF Add, TurnedAway
<1>3. ASSUME NEW tip, SetGasTip(tip) PROVE RoomMade(pool, pool')
  BY <1>0, <1>1, <1>3, RemoveShrinks DEF SetGasTip, Shrunk
<1>4. ASSUME NEW A, Evict(A) PROVE RoomMade(pool, pool')
  BY <1>0, <1>1, <1>4, RemoveShrinks DEF Evict, Shrunk
<1>5. ASSUME NEW A, RunPromotes(A) \/ RunResets(A) PROVE RoomMade(pool, pool')
  BY <1>0, <1>1, <1>5, RunsShrink DEF Shrunk
<1>6. ASSUME NEW head, NEW back, Reset(head, back) PROVE RoomMade(pool, pool')
  BY <1>0, <1>1, <1>6 DEF Reset, Fielded
<1>7. ASSUME ResetFails \/ UNCHANGED vars PROVE RoomMade(pool, pool')
  BY <1>1, <1>7 DEF ResetFails, vars
<1>8. ASSUME NEW t \in Txs, Reinject(t) PROVE RoomMade(pool, pool')
  BY <1>0, <1>1, <1>8, AddingMakesRoom DEF Reinject, TurnedAway
<1>. QED
  BY <1>2, <1>3, <1>4, <1>5, <1>6, <1>7, <1>8 DEF Next

\* For any slots of the transactions, any choice of the heaps and any entries they keep of
\* what is gone: a remote transaction that enters, by add or by the reinjection of a reset,
\* leaves the pool within its slots, or one that made room for it was in the heaps twice.
THEOREM SlotsKeptAlways == Spec => SlotsKept
<1>1. IInv /\ HeapInv /\ [Next]_vars => [RoomMade(pool, pool')]_vars
  BY StepMakesRoom
<1>. QED
  BY <1>1, InitHolds, StepHolds, InitHeaped, StepHeaped, PTL DEF Spec, SlotsKept, RoomMade

-----------------------------------------------------------------------------
(* The gapless pending nonces                                               *)

\* The nonces pending are those from the account's own to the one that is next.
Exact(p, a) ==
    /\ p.next[a] \in Nat /\ chain.nonce[a] <= p.next[a]
    /\ Nonces(p.pending[a]) = chain.nonce[a]..p.next[a] - 1

\* In the middle of a run that resets there may be used ones, and more of them than next
\* says, but still no gap above the account's nonce.
Reaches(p, a) ==
    /\ p.next[a] \in Nat /\ chain.nonce[a] <= p.next[a]
    /\ chain.nonce[a]..p.next[a] - 1 \subseteq Nonces(p.pending[a])
    /\ \A n \in Nonces(p.pending[a]) : chain.nonce[a]..n \subseteq Nonces(p.pending[a])

LEMMA NoncesAreNat ==
    ASSUME NEW L \in SUBSET Txs
    PROVE  Nonces(L) \in SUBSET Nat /\ \A n \in Nonces(L) : n <= MaxNonce
  BY TxsAssumption DEF Nonces

LEMMA ChainNonce ==
    ASSUME chain \in Heads, NEW a \in Addrs
    PROVE  chain.nonce[a] \in Nat
  BY HeadsAssumption, TxsAssumption

\* What Min chooses of naturals.
LEMMA MinNat ==
    ASSUME NEW T \in SUBSET Nat, T # {}
    PROVE  Min(T) \in T /\ \A y \in T : Min(T) <= y
  BY LeastNat DEF Min

\* The nonces of the list L run from c to what precedes e.
Filled(L, c, e) == e \in Nat /\ c <= e /\ Nonces(L) = c..e - 1

\* A list cut from a nonce on, as removeTx and the truncation do, when that is what
\* becomes next.
LEMMA CutExact ==
    ASSUME NEW L \in SUBSET Txs, NEW c \in Nat, NEW e, Filled(L, c, e),
           NEW C \in SUBSET Nonces(L)
    PROVE  Filled(Below(L, C), c, Min({e} \cup C))
<1>. DEFINE m == Min({e} \cup C)
            K == Below(L, C)
<1>. e \in Nat /\ c <= e /\ Nonces(L) = c..e - 1
  BY DEF Filled
<1>0. K \subseteq L /\ \A t \in L : t \in K <=> \A n \in C : t.nonce < n
  BY DEF Below
<1>. HIDE DEF K
<1>1. {e} \cup C \in SUBSET Nat
  BY NoncesAreNat
<1>2. m \in {e} \cup C /\ \A y \in {e} \cup C : m <= y
  BY <1>1, MinNat
<1>. HIDE DEF m
<1>3. m \in Nat /\ c <= m /\ m <= e
  BY <1>1, <1>2
<1>4. \A t \in L : t.nonce \in c..e - 1
  BY DEF Nonces
<1>5. \A t \in L : t \in K <=> t.nonce < m
  <2>1. ASSUME NEW t \in L, t \in K PROVE t.nonce < m
    BY <1>0, <1>2, <1>4, <2>1
  <2>2. ASSUME NEW t \in L, t.nonce < m PROVE t \in K
    <3>1. \A n \in C : n \in Nat /\ m <= n
      BY <1>1, <1>2
    <3>. QED
      BY <1>0, <1>3, <1>4, <2>2, <3>1
  <2>. QED
    BY <2>1, <2>2
<1>6. Nonces(K) \subseteq c..m - 1
  BY <1>0, <1>3, <1>4, <1>5 DEF Nonces
<1>7. ASSUME NEW n \in c..m - 1 PROVE n \in Nonces(K)
  <2>1. n \in Nonces(L)
    BY <1>3, <1>7
  <2>2. PICK t \in L : t.nonce = n
    BY <2>1 DEF Nonces
  <2>. QED
    BY <1>3, <1>5, <1>7, <2>2 DEF Nonces
<1>8. Nonces(K) = c..m - 1
  BY <1>6, <1>7
<1>. QED
  BY <1>3, <1>8 DEF Filled, m, K

LEMMA RequeueFields ==
    ASSUME NEW p, Fielded(p), NEW back
    PROVE  /\ Fielded(Requeue(p, back))
           /\ Requeue(p, back).pending = p.pending /\ Requeue(p, back).next = p.next
<1>. DEFINE D == UNION {Replaced(p.queue[a], back[a]) : a \in Addrs}
            Q == [a \in Addrs |-> Merged(p.queue[a], back[a])]
            B == {a \in Addrs : back[a] \ Refused(p.queue[a], back[a]) # {}}
<1>1. Requeue(p, back) = Beat([Forget(p, D) EXCEPT !.queue = Q], B)
  BY Zenon DEF Requeue
<1>. HIDE DEF D, Q, B
<1>. QED
  BY <1>1 DEF Beat, Forget, Fielded

\* What a removal leaves pending, and what is next when the lists are cut at the
\* nonces C.
Cuts(p, D) == [b \in Addrs |-> Cut(p, D, b)]
Stays(p, D) == [b \in Addrs |-> Below(p.pending[b], Cut(p, D, b))]
Leasts(p, C) == [b \in Addrs |-> Min({p.next[b]} \cup C[b])]

LEMMA RemoveFields ==
    ASSUME NEW p, Fielded(p), NEW D, NEW keep
    PROVE  /\ RemoveTxs(p, D, keep).pending = Stays(p, D)
           /\ RemoveTxs(p, D, keep).next = Leasts(p, Cuts(p, D))
<1>. DEFINE cut(b) == Cut(p, D, b)
            stay == [b \in Addrs |-> Below(p.pending[b], cut(b))]
            back == [b \in Addrs |-> {t \in p.pending[b] \ stay[b] : t.nonce \notin cut(b)}]
            keeps == [b \in Addrs |-> p.queue[b] \ Dequeued(p, D, b)]
            next == [b \in Addrs |-> Min({p.next[b]} \cup cut(b))]
            left == [Forget(p, D) EXCEPT !.pending = stay, !.queue = keeps, !.next = next]
            moved == Requeue(left, back)
            idle == {b \in Addrs : Dequeued(p, D, b) # {} /\ moved.queue[b] = {}}
            u == [moved EXCEPT !.beats = @ \ idle]
            q == Release(u, {t.from : t \in D} \ keep)
<1>1. RemoveTxs(p, D, keep) = q
  BY Zenon DEF RemoveTxs, Unlist
<1>. HIDE DEF stay, back, keeps, next
<1>3. Fielded(left) /\ left.pending = stay /\ left.next = next
  BY DEF Forget, Fielded
<1>. HIDE DEF left
<1>4. Fielded(moved) /\ moved.pending = stay /\ moved.next = next
  BY <1>3, RequeueFields
<1>. HIDE DEF moved, idle
<1>5. Fielded(u) /\ u.pending = stay /\ u.next = next
  BY <1>4 DEF Fielded
<1>. HIDE DEF u
<1>6. q.pending = stay /\ q.next = next
  BY <1>5 DEF Release, Fielded
<1>. HIDE DEF q
<1>7. stay = Stays(p, D)
  BY Zenon DEF stay, Stays
<1>8. next = Leasts(p, Cuts(p, D))
  <2>1. \A b \in Addrs : Cuts(p, D)[b] = cut(b)
    BY DEF Cuts
  <2>. HIDE DEF cut
  <2>. QED
    BY <2>1 DEF next, Leasts
<1>. QED
  BY <1>1, <1>6, <1>7, <1>8

LEMMA RemoveExact ==
    ASSUME NEW p, Fielded(p), Sound(p), chain \in Heads, NEW D, NEW keep,
           NEW a \in Addrs, Exact(p, a)
    PROVE  Exact(RemoveTxs(p, D, keep), a)
<1>. DEFINE q == RemoveTxs(p, D, keep)
            L == p.pending[a]
            C == Cut(p, D, a)
            c == chain.nonce[a]
            e == p.next[a]
<1>1. q.pending[a] = Below(L, C) /\ q.next[a] = Min({e} \cup C)
  <2>1. q.pending = Stays(p, D) /\ q.next = Leasts(p, Cuts(p, D))
    BY RemoveFields
  <2>. HIDE DEF q
  <2>. QED
    BY <2>1 DEF Stays, Leasts, Cuts
<1>2. L \in SUBSET Txs /\ c \in Nat /\ C \in SUBSET Nonces(L) /\ Filled(L, c, e)
  BY ChainNonce DEF Cut, Sound, Shaped, Exact, Filled
<1>. HIDE DEF L, C, c, e, q
<1>3. Filled(Below(L, C), c, Min({e} \cup C))
  BY <1>2, CutExact
<1>. QED
  BY <1>1, <1>3 DEF Exact, Filled, c, q

\* An addition replaces a pending transaction by one of its nonce, or leaves the pending
\* ones as the discards have.
LEMMA AddingExact ==
    ASSUME NEW p, Fielded(p), Good(p), chain \in Heads, NEW t \in Txs, NEW local,
           NEW r \in Adding(p, t, local), NEW a \in Addrs, Exact(p, a)
    PROVE  Exact(r.pool, a)
<1>. DEFINE b == t.from
            held == [p EXCEPT !.reserved = @ \cup {b}]
<1>0. b \in Addrs
  BY TxsAssumption
<1>1. PICK E : r = Outcome(p, t, local, E)
  BY DEF Adding
<1>. DEFINE D == Victims(p, E)
<1>2. Fielded(held) /\ Sound(held) /\ Exact(held, a)
  <2>1. /\ Shaped(held) /\ Fielded(held) /\ held.pending = p.pending /\ held.queue = p.queue
        /\ held.all = p.all /\ held.remote = p.remote /\ held.beats = p.beats /\ held.next = p.next
    BY <1>0 DEF Good, Sound, Shaped, Fielded
  <2>. HIDE DEF held
  <2>. QED
    BY <2>1 DEF Good, Sound, Exact
<1>. DEFINE q == RemoveTxs(held, D, {b})
            isLocal == IsLocal(t, local)
            n == Insert(q, t, isLocal)
            m == Migrated(n, LocalsWith(q, t, local))
<1>3. r.pool = IF Accepted(q, t) THEN m
               ELSE IF Listed(p, b) THEN q ELSE [q EXCEPT !.reserved = @ \ {b}]
  BY <1>1 DEF Outcome
<1>. HIDE DEF held, D
<1>4. Fielded(q) /\ Exact(q, a)
  BY <1>2, RemoveExact, RemoveShrinks DEF Shrunk
<1>. HIDE DEF q, isLocal
<1>5. CASE ~Accepted(q, t)
  BY <1>3, <1>4, <1>5 DEF Exact, Fielded
<1>6. CASE Accepted(q, t)
  <2>. DEFINE with(L) == (L \ Rival(q, t)) \cup {t}
              P == [q.pending EXCEPT ![b] = IF InPlace(q, t) THEN with(@) ELSE @]
              Q == [q.queue EXCEPT ![b] = IF InPlace(q, t) THEN @ ELSE with(@)]
              f == Forget(q, Rival(q, t))
              X == IF isLocal THEN f.remote ELSE f.remote \cup {t}
              z == [f EXCEPT !.pending = P, !.queue = Q, !.all = @ \cup {t}, !.remote = X]
  <2>1. Fielded(f) /\ f.pending = q.pending /\ f.queue = q.queue /\ f.next = q.next
    BY <1>4 DEF Forget, Fielded
  <2>2. n = Beat(z, {b})
    BY <2>1 DEF Insert, Fielded
  <2>3. Nonces(P[a]) = Nonces(q.pending[a])
    <3>1. CASE ~(InPlace(q, t) /\ a = b)
      <4>1. P[a] = q.pending[a]
        BY <3>1
      <4>. QED
        BY <4>1
    <3>2. CASE InPlace(q, t) /\ a = b /\ b \in DOMAIN q.pending
      <4>1. P[a] = (q.pending[a] \ Rival(q, t)) \cup {t}
        BY <3>2
      <4>2. Rival(q, t) = {o \in q.pending[a] : o.nonce = t.nonce}
        BY <3>2 DEF Rival
      <4>3. t.nonce \in Nonces(q.pending[a])
        BY <3>2 DEF InPlace
      <4>. HIDE DEF P
      <4>. QED
        BY <4>1, <4>2, <4>3 DEF Nonces
    <3>3. CASE b \notin DOMAIN q.pending
      BY <3>3
    <3>. QED
      BY <3>1, <3>2, <3>3
  <2>. HIDE DEF P, Q, f, X
  <2>4. Fielded(z) /\ z.pending = P /\ z.next = q.next
    BY <2>1 DEF Fielded
  <2>. HIDE DEF z
  <2>5. Fielded(n) /\ n.pending = P /\ n.next = q.next
    BY <2>2, <2>4 DEF Beat, Fielded
  <2>. HIDE DEF n
  <2>6. m.pending = P /\ m.next = q.next
    BY <2>5 DEF Migrated, Fielded
  <2>. QED
    BY <1>3, <1>4, <1>6, <2>3, <2>6 DEF Exact
<1>. QED
  BY <1>5, <1>6

\* What is ready goes on from what is next, when nothing below that is missing in pending
\* or in the queue as well.
LEMMA ReadyFollows ==
    ASSUME NEW L \in SUBSET Txs, NEW e \in Nat, \A t \in L : t.nonce >= e,
           NEW t \in Ready(L, e)
    PROVE  e <= t.nonce /\ e..t.nonce \subseteq Nonces(Ready(L, e))
<1>0. \A u \in L : u.nonce \in Nat
  BY TxsAssumption
<1>1. t \in L /\ \A u \in L : \A n \in u.nonce..t.nonce : n \in Nonces(L)
  BY DEF Ready
<1>2. PICK low \in L : low.nonce <= e
  BY DEF Ready
<1>3. low.nonce = e
  BY <1>0, <1>2
<1>4. ASSUME NEW n \in e..t.nonce
      PROVE  n \in Nonces(Ready(L, e))
  <2>1. PICK v \in L : v.nonce = n
    BY <1>1, <1>3 DEF Nonces
  <2>2. ASSUME NEW u \in L, NEW m \in u.nonce..v.nonce
        PROVE  m \in Nonces(L)
    <3>1. m \in u.nonce..t.nonce
      BY <1>0, <1>1, <2>1, <2>2
    <3>. QED
      BY <1>1, <3>1
  <2>3. v \in Ready(L, e)
    BY <1>2, <2>2 DEF Ready
  <2>. QED
    BY <2>1, <2>3 DEF Nonces
<1>. QED
  BY <1>0, <1>1, <1>4

\* A run of nonces appended to those that reach next.
LEMMA AppendedReaches ==
    ASSUME NEW P \in SUBSET Txs, NEW R \in SUBSET Txs, R # {}, NEW c \in Nat, NEW e \in Nat,
           c <= e, c..e - 1 \subseteq Nonces(P),
           \A n \in Nonces(P) : c..n \subseteq Nonces(P),
           \A t \in R : e <= t.nonce /\ e..t.nonce \subseteq Nonces(R)
    PROVE  LET m == Max(Nonces(R)) + 1 IN
           /\ m \in Nat /\ c <= m
           /\ c..m - 1 \subseteq Nonces(P \cup R)
           /\ \A n \in Nonces(P \cup R) : c..n \subseteq Nonces(P \cup R)
           /\ Nonces(P) \subseteq c..e - 1 => Nonces(P \cup R) = c..m - 1
<1>. DEFINE top == Max(Nonces(R))
<1>1. /\ Nonces(P \cup R) = Nonces(P) \cup Nonces(R)
      /\ Nonces(R) # {} /\ Nonces(R) \in SUBSET Nat /\ Nonces(P) \in SUBSET Nat
  BY NoncesAreNat DEF Nonces
<1>2. top \in Nonces(R) /\ \A n \in Nonces(R) : n <= top
  <2>. DEFINE N == Nonces(R)
  <2>1. N \in SUBSET Nat /\ N # {} /\ MaxNonce \in Nat /\ \A n \in N : n <= MaxNonce
    BY <1>1, NoncesAreNat, TxsAssumption
  <2>. HIDE DEF N
  <2>2. Max(N) \in N /\ \A n \in N : n <= Max(N)
    BY <2>1, MaxBounded
  <2>. QED
    BY <2>2 DEF N
<1>. HIDE DEF top
<1>3. \A n \in Nonces(R) : e <= n /\ e..n \subseteq Nonces(R)
  BY DEF Nonces
<1>4. top \in Nat /\ e <= top /\ e..top \subseteq Nonces(R)
  BY <1>1, <1>2, <1>3
<1>5. c..(top + 1) - 1 \subseteq Nonces(P) \cup Nonces(R)
  <2>1. c..(top + 1) - 1 = (c..e - 1) \cup (e..top)
    BY <1>4
  <2>. QED
    BY <1>4, <2>1
<1>6. ASSUME NEW n \in Nonces(R)
      PROVE  c..n \subseteq Nonces(P) \cup Nonces(R)
  <2>1. n \in Nat /\ n <= top
    BY <1>1, <1>2, <1>6
  <2>2. c..n \subseteq c..(top + 1) - 1
    BY <1>4, <2>1
  <2>. QED
    BY <1>5, <2>2
<1>7. ASSUME Nonces(P) \subseteq c..e - 1
      PROVE  Nonces(P) \cup Nonces(R) \subseteq c..(top + 1) - 1
  <2>1. \A n \in Nonces(R) : n \in c..(top + 1) - 1
    BY <1>1, <1>2, <1>3, <1>4
  <2>2. c..e - 1 \subseteq c..(top + 1) - 1
    BY <1>4
  <2>. QED
    BY <1>7, <2>1, <2>2
<1>. DEFINE m == top + 1
            N == Nonces(P \cup R)
<1>8. /\ m \in Nat /\ c <= m
      /\ c..m - 1 \subseteq N
      /\ \A n \in N : c..n \subseteq N
      /\ Nonces(P) \subseteq c..e - 1 => N = c..m - 1
  <2>1. m \in Nat /\ c <= m
    BY <1>4
  <2>2. N = Nonces(P) \cup Nonces(R)
    BY <1>1
  <2>. HIDE DEF N
  <2>3. \A n \in N : c..n \subseteq N
    BY <1>6, <2>2
  <2>. QED
    BY <1>5, <1>7, <2>1, <2>2, <2>3
<1>. QED
  BY <1>8, Zenon DEF top

LEMMA PromoteReaches ==
    ASSUME NEW p, Fielded(p), Sound(p), chain \in Heads, NEW accounts \in SUBSET Addrs,
           NEW a \in Addrs, Reaches(p, a)
    PROVE  /\ Reaches(Promote(p, accounts), a)
           /\ Exact(p, a) => Exact(Promote(p, accounts), a)
<1>. DEFINE Q == {b \in accounts : p.queue[b] # {}}
            kept == [b \in Q |-> {t \in p.queue[b] : /\ t.nonce >= chain.nonce[b]
                                                     /\ t.price <= chain.balance[b]}]
            ready == [b \in Q |-> Ready(kept[b], p.next[b])]
            in == [b \in Q |-> ready[b] \ Refused(p.pending[b], ready[b])]
            rest == [b \in Q |-> IF b \in locals THEN kept[b] \ ready[b]
                                 ELSE Capped(kept[b] \ ready[b], AccountQueue)]
            gone == UNION {p.queue[b] \ (in[b] \cup rest[b]) : b \in Q}
                    \cup UNION {Replaced(p.pending[b], ready[b]) : b \in Q}
            emptied == {b \in Q : rest[b] = {}}
            P2 == [b \in Addrs |-> IF b \in Q THEN Merged(p.pending[b], ready[b]) ELSE p.pending[b]]
            Q2 == [b \in Addrs |-> IF b \in Q THEN rest[b] ELSE p.queue[b]]
            N2 == [b \in Addrs |-> IF b \in Q /\ in[b] # {}
                                   THEN Max(Nonces(in[b])) + 1 ELSE p.next[b]]
            B2 == (p.beats \cup {b \in Q : in[b] # {}}) \ emptied
            r == [Forget(p, gone) EXCEPT !.pending = P2, !.queue = Q2, !.next = N2, !.beats = B2]
            q == Release(r, emptied)
            c == chain.nonce[a]
            e == p.next[a]
            P == p.pending[a]
<1>1. Promote(p, accounts) = q
  BY Zenon DEF Promote
<1>2. /\ P \in SUBSET Txs /\ p.queue[a] \in SUBSET Txs /\ c \in Nat
      /\ e \in Nat /\ c <= e /\ c..e - 1 \subseteq Nonces(P)
      /\ \A n \in Nonces(P) : c..n \subseteq Nonces(P)
      /\ Exact(p, a) => Nonces(P) \subseteq c..e - 1
  BY ChainNonce DEF Sound, Shaped, Reaches, Exact
<1>3. /\ a \in Q => P2[a] = Merged(P, ready[a])
      /\ a \in Q /\ in[a] # {} => N2[a] = Max(Nonces(in[a])) + 1
      /\ a \in Q /\ in[a] = {} => N2[a] = e
      /\ a \notin Q => P2[a] = P /\ N2[a] = e
  BY Zenon
<1>4. ASSUME a \in Q
      PROVE  /\ ready[a] \in SUBSET p.queue[a]
             /\ \A t \in ready[a] : e <= t.nonce /\ e..t.nonce \subseteq Nonces(ready[a])
  <2>. DEFINE L == {t \in p.queue[a] : t.nonce >= c /\ t.price <= chain.balance[a]}
  <2>1. ready[a] = Ready(L, e)
    BY <1>4
  <2>2. L \in SUBSET Txs /\ L \in SUBSET p.queue[a]
    BY <1>2
  <2>3. ASSUME NEW t \in L
        PROVE  t.nonce >= e
    <3>1. t.nonce \in Nat /\ t.nonce >= c
      BY <1>2, TxsAssumption
    <3>2. t.nonce \notin Nonces(P)
      BY DEF Sound, Distinct, Nonces
    <3>3. ~(t.nonce \in c..e - 1)
      BY <1>2, <3>2
    <3>. QED
      BY <1>2, <3>1, <3>3
  <2>. HIDE DEF L
  <2>4. \A t \in Ready(L, e) : e <= t.nonce /\ e..t.nonce \subseteq Nonces(Ready(L, e))
    BY <1>2, <2>2, <2>3, ReadyFollows
  <2>5. Ready(L, e) \subseteq L
    BY DEF Ready
  <2>. HIDE DEF ready, c, e
  <2>. QED
    BY <2>1, <2>2, <2>4, <2>5
<1>5. a \in Q => in[a] = ready[a] \ Refused(P, ready[a])
  OBVIOUS
<1>. HIDE DEF P2, Q2, N2, B2, Q, gone, emptied, ready, in, rest
<1>6. q.pending = P2 /\ q.next = N2
  <2>1. Fielded(r) /\ r.pending = P2 /\ r.next = N2
    BY DEF Forget, Fielded
  <2>. HIDE DEF r
  <2>. QED
    BY <2>1 DEF Release, Fielded
<1>. HIDE DEF q
<1>7. CASE a \notin Q
  BY <1>1, <1>3, <1>6, <1>7 DEF Reaches, Exact
<1>8. CASE a \in Q
  <2>1. Refused(P, ready[a]) = {} /\ Merged(P, ready[a]) = P \cup ready[a]
    BY <1>4, <1>8, PromotesAll
  <2>2. in[a] = ready[a]
    BY <1>5, <1>8, <2>1
  <2>3. CASE ready[a] = {}
    <3>1. P2[a] = P /\ N2[a] = e
      BY <1>3, <1>8, <2>1, <2>2, <2>3
    <3>. QED
      BY <1>1, <1>6, <3>1 DEF Reaches, Exact
  <2>4. CASE ready[a] # {}
    <3>. DEFINE R == ready[a]
                m == Max(Nonces(R)) + 1
    <3>1. q.pending[a] = P \cup R /\ q.next[a] = m
      BY <1>3, <1>6, <1>8, <2>1, <2>2, <2>4
    <3>2. R \in SUBSET Txs /\ R # {} /\ \A t \in R : e <= t.nonce /\ e..t.nonce \subseteq Nonces(R)
      BY <1>2, <1>4, <1>8, <2>4
    <3>. HIDE DEF R, P, c, e
    <3>3. /\ m \in Nat /\ c <= m
          /\ c..m - 1 \subseteq Nonces(P \cup R)
          /\ \A n \in Nonces(P \cup R) : c..n \subseteq Nonces(P \cup R)
          /\ Nonces(P) \subseteq c..e - 1 => Nonces(P \cup R) = c..m - 1
      BY <1>2, <3>2, AppendedReaches
    <3>. HIDE DEF m
    <3>. QED
      BY <1>1, <1>2, <3>1, <3>3 DEF Reaches, Exact, c
  <2>. QED
    BY <2>3, <2>4
<1>. QED
  BY <1>7, <1>8

LEMMA DemoteSetsExact ==
    ASSUME NEW p, Fielded(p), Sound(p), chain \in Heads, NEW a \in Addrs, Reaches(p, a)
    PROVE  Exact(SetAll(Demote(p)), a)
<1>. DEFINE fresh == [b \in Addrs |-> {t \in p.pending[b] : t.nonce >= chain.nonce[b]}]
            costly == [b \in Addrs |-> {t \in fresh[b] : t.price > chain.balance[b]}]
            front == [b \in Addrs |-> Below(fresh[b], Nonces(costly[b]))]
            stay == [b \in Addrs |-> IF chain.nonce[b] \in Nonces(front[b]) THEN front[b] ELSE {}]
            back == [b \in Addrs |-> fresh[b] \ (costly[b] \cup stay[b])]
            gone == UNION {(p.pending[b] \ fresh[b]) \cup costly[b] : b \in Addrs}
            emptied == {b \in Addrs : p.pending[b] # {} /\ stay[b] = {}}
            left == [Forget(p, gone) EXCEPT !.pending = stay]
            moved == Requeue(left, back)
            q == Release(moved, emptied)
            c == chain.nonce[a]
            P == p.pending[a]
<1>1. Demote(p) = q
  BY Zenon DEF Demote
<1>2. P \in SUBSET Txs /\ (\A t \in P : t.nonce \in Nat) /\ c \in Nat
  BY ChainNonce, TxsAssumption DEF Sound, Shaped
<1>3. /\ fresh[a] = {t \in P : t.nonce >= c}
      /\ costly[a] \subseteq fresh[a]
      /\ front[a] = Below(fresh[a], Nonces(costly[a]))
      /\ stay[a] = IF c \in Nonces(front[a]) THEN front[a] ELSE {}
  OBVIOUS
<1>. HIDE DEF fresh, costly, front, stay, back, gone, emptied
<1>4. Fielded(left) /\ left.pending = stay
  BY DEF Forget, Fielded
<1>. HIDE DEF left
<1>5. Fielded(moved) /\ moved.pending = stay
  BY <1>4, RequeueFields
<1>. HIDE DEF moved
<1>6. Fielded(q) /\ q.pending = stay
  BY <1>5 DEF Release, Fielded
<1>. HIDE DEF q
<1>7. /\ stay[a] \subseteq front[a] /\ front[a] \subseteq P
      /\ \A n \in Nonces(front[a]) : n \in Nat /\ c <= n /\ c..n \subseteq Nonces(front[a])
  <2>1. front[a] \subseteq fresh[a] /\ \A t \in front[a] : t \in P /\ t.nonce >= c
    BY <1>3 DEF Below
  <2>2. ASSUME NEW t \in front[a], NEW m \in c..t.nonce
        PROVE  m \in Nonces(front[a])
    <3>1. t.nonce \in Nat /\ t.nonce \in Nonces(P)
      BY <1>2, <2>1 DEF Nonces
    <3>2. PICK v \in P : v.nonce = m
      BY <2>2, <3>1 DEF Reaches, Nonces
    <3>3. v \in fresh[a]
      BY <1>2, <1>3, <2>2, <3>2
    <3>4. ASSUME NEW n \in Nonces(costly[a])
          PROVE  v.nonce < n
      <4>1. t.nonce < n /\ n \in Nat
        BY <1>2, <1>3, <2>2, <3>4 DEF Below, Nonces
      <4>. QED
        BY <1>2, <2>2, <3>1, <3>2, <4>1
    <3>. QED
      BY <1>3, <3>2, <3>3, <3>4 DEF Below, Nonces
  <2>. QED
    BY <1>2, <1>3, <2>1, <2>2 DEF Nonces
<1>. DEFINE z == SetAll(q)
<1>8. z.next[a] = (IF stay[a] = {} THEN c ELSE Max(Nonces(stay[a])) + 1)
      /\ z.pending = stay
  BY <1>6 DEF SetAll, Fielded
<1>. HIDE DEF z
<1>9. CASE stay[a] = {}
  <2>1. z.next[a] = c /\ Nonces(z.pending[a]) = {}
    BY <1>8, <1>9 DEF Nonces
  <2>. HIDE DEF c
  <2>2. c <= c /\ c..c - 1 = {}
    BY <1>2
  <2>3. Exact(z, a)
    BY <1>2, <2>1, <2>2, Zenon DEF Exact, c
  <2>. QED
    BY <1>1, <2>3 DEF z
<1>10. CASE stay[a] # {}
  <2>. DEFINE N == Nonces(stay[a])
              top == Max(N)
  <2>1. stay[a] = front[a] /\ N # {}
    BY <1>3, <1>10 DEF Nonces
  <2>2. \A n \in N : n \in Nat /\ c <= n /\ c..n \subseteq N
    BY <1>7, <2>1
  <2>3. N \in SUBSET Nat /\ MaxNonce \in Nat /\ \A n \in N : n <= MaxNonce
    BY <1>2, <1>7, <2>1, NoncesAreNat, TxsAssumption
  <2>. HIDE DEF N
  <2>4. top \in N /\ \A n \in N : n <= top
    BY <2>1, <2>3, MaxBounded
  <2>. HIDE DEF top
  <2>5. top \in Nat /\ c <= top /\ c..top \subseteq N
    BY <2>2, <2>4
  <2>6. N = c..(top + 1) - 1
    <3>1. \A n \in N : n \in c..top
      BY <1>2, <2>2, <2>4, <2>5
    <3>2. (top + 1) - 1 = top
      BY <2>5
    <3>. QED
      BY <2>5, <3>1, <3>2
  <2>7. z.next[a] = top + 1 /\ Nonces(z.pending[a]) = N
    BY <1>8, <1>10 DEF top, N
  <2>8. Exact(z, a)
    BY <1>2, <2>5, <2>6, <2>7 DEF Exact
  <2>. QED
    BY <1>1, <2>8 DEF z
<1>. QED
  BY <1>9, <1>10

\* What Cap keeps is below what it takes.
LEMMA CappedIsBelow ==
    ASSUME NEW L \in SUBSET Txs, NEW k \in Nat
    PROVE  Capped(L, k) = Below(L, Nonces(L \ Capped(L, k)))
<1>. DEFINE under(t) == {u \in L : u.nonce < t.nonce}
<1>1. \A t \in L : t.nonce \in Nat
  BY TxsAssumption
<1>2. ASSUME NEW t \in L
      PROVE  IsFiniteSet(under(t)) /\ Cardinality(under(t)) \in Nat
  <2>1. under(t) \subseteq Txs
    OBVIOUS
  <2>. QED
    BY <2>1, TxsAssumption, FS_Subset, FS_CardinalityType
<1>3. ASSUME NEW t \in L, NEW v \in L, t \in Capped(L, k), v \notin Capped(L, k)
      PROVE  t.nonce < v.nonce
  <2>1. SUFFICES ASSUME v.nonce <= t.nonce PROVE FALSE
    BY <1>1
  <2>2. under(v) \subseteq under(t)
    BY <1>1, <2>1
  <2>3. Cardinality(under(v)) <= Cardinality(under(t))
    BY <1>2, <2>2, FS_Subset
  <2>4. Cardinality(under(t)) < k /\ ~(Cardinality(under(v)) < k)
    BY <1>3 DEF Capped
  <2>. HIDE DEF under
  <2>. QED
    BY <1>2, <2>3, <2>4
<1>4. Capped(L, k) \subseteq L
  BY DEF Capped
<1>5. ASSUME NEW t \in Capped(L, k)
      PROVE  t \in Below(L, Nonces(L \ Capped(L, k)))
  BY <1>3, <1>4, <1>5 DEF Below, Nonces
<1>6. ASSUME NEW t \in Below(L, Nonces(L \ Capped(L, k)))
      PROVE  t \in Capped(L, k)
  BY <1>1, <1>6 DEF Below, Nonces
<1>. QED
  BY <1>5, <1>6

LEMMA TruncatePendingExact ==
    ASSUME NEW p, Fielded(p), Sound(p), chain \in Heads, NEW a \in Addrs, Exact(p, a)
    PROVE  Exact(TruncatePending(p), a)
<1>. DEFINE spammers == {b \in Addrs \ locals : Cardinality(p.pending[b]) > AccountSlots}
            cutTo(n) == [b \in Addrs |-> IF b \in spammers THEN Capped(p.pending[b], n)
                                         ELSE p.pending[b]]
            fits == {n \in AccountSlots..MaxNonce + 1 : Total(cutTo(n)) <= GlobalSlots}
            level == IF fits = {} THEN AccountSlots ELSE Max(fits)
            stay == cutTo(level)
            N2 == [b \in Addrs |-> Min({p.next[b]} \cup Nonces(p.pending[b] \ stay[b]))]
            gone == UNION {p.pending[b] \ stay[b] : b \in Addrs}
            q == [Forget(p, gone) EXCEPT !.pending = stay, !.next = N2]
<1>1. CASE Total(p.pending) <= GlobalSlots
  BY <1>1 DEF TruncatePending
<1>2. CASE ~(Total(p.pending) <= GlobalSlots)
  <2>1. TruncatePending(p) = q
    BY <1>2, Zenon DEF TruncatePending
  <2>2. level \in Nat \ {0}
    <3>. HIDE DEF spammers, cutTo
    <3>1. fits \in SUBSET (AccountSlots..MaxNonce + 1)
      OBVIOUS
    <3>. HIDE DEF fits
    <3>. QED
      BY <3>1, LevelIsPositive
  <2>. HIDE DEF level
  <2>. DEFINE L == p.pending[a]
              C == Nonces(L \ stay[a])
              c == chain.nonce[a]
              e == p.next[a]
  <2>3. L \in SUBSET Txs /\ c \in Nat /\ Filled(L, c, e)
    BY ChainNonce DEF Sound, Shaped, Exact, Filled
  <2>4. stay[a] = Capped(L, level) \/ stay[a] = L
    OBVIOUS
  <2>5. N2[a] = Min({e} \cup C)
    OBVIOUS
  <2>. HIDE DEF stay, N2, gone
  <2>6. q.pending = stay /\ q.next = N2
    BY DEF Forget, Fielded
  <2>. HIDE DEF q
  <2>7. stay[a] = Below(L, C)
    <3>1. CASE stay[a] = Capped(L, level)
      BY <2>2, <2>3, <3>1, CappedIsBelow
    <3>2. CASE stay[a] = L
      BY <3>2 DEF Below, Nonces
    <3>. QED
      BY <2>4, <3>1, <3>2
  <2>8. C \in SUBSET Nonces(L)
    BY DEF Nonces
  <2>. HIDE DEF L, C, c, e
  <2>9. Filled(Below(L, C), c, Min({e} \cup C))
    BY <2>3, <2>8, CutExact
  <2>. QED
    BY <2>1, <2>5, <2>6, <2>7, <2>9 DEF Exact, Filled, c
<1>. QED
  BY <1>1, <1>2

LEMMA TrimExact ==
    ASSUME NEW p, Fielded(p), Good(p), chain \in Heads, Trim(p), NEW a \in Addrs, Exact(p, a)
    PROVE  Exact(pool', a)
<1>. DEFINE q == TruncatePending(p)
<1>1. Good(q)
  BY TruncatePendingHolds
<1>2. Exact(q, a)
  BY TruncatePendingExact DEF Good
<1>3. Fielded(q)
  BY <1>1 DEF Good, Sound, Shaped, Fielded
<1>4. PICK rank : pool' = TruncateQueue(q, rank)
  BY DEF Trim
<1>. HIDE DEF q
<1>5. pool' = q \/ \E D : pool' = RemoveTxs(q, D, {})
  BY <1>4, Zenon DEF TruncateQueue
<1>6. ASSUME NEW D PROVE Exact(RemoveTxs(q, D, {}), a)
  BY <1>1, <1>2, <1>3, RemoveExact DEF Good
<1>. QED
  BY <1>2, <1>5, <1>6

\* While the chain has not gone back nothing is reinjected, so that a run that resets
\* finds the pool as the run before it left it.
PendingInv ==
    /\ chain \in Heads
    /\ ~rewound =>
        /\ lost = {}
        /\ \A a \in Addrs : IF resetting THEN Reaches(pool, a) ELSE Exact(pool, a)

LEMMA ExactReaches ==
    ASSUME NEW p, NEW a, chain.nonce[a] \in Nat, Exact(p, a)
    PROVE  Reaches(p, a)
<1>. DEFINE c == chain.nonce[a]
            e == p.next[a]
            N == Nonces(p.pending[a])
<1>1. c \in Nat /\ e \in Nat /\ c <= e /\ N = c..e - 1
  BY DEF Exact
<1>. HIDE DEF c, e, N
<1>2. \A n \in N : c..n \subseteq N
  BY <1>1
<1>. QED
  BY <1>1, <1>2 DEF Reaches, c, e, N

\* The run of a reset has no gap left when its virtual nonces are set.
LEMMA ResetsExact ==
    ASSUME Good(pool), chain \in Heads, NEW a \in Addrs, Reaches(pool, a),
           Trim(SetAll(Demote(Promote(pool, Addrs))))
    PROVE  Exact(pool', a)
<1>. DEFINE p1 == Promote(pool, Addrs)
            p3 == SetAll(Demote(p1))
<1>1. Good(p1) /\ Good(p3)
  BY PromoteHolds, DemoteHolds, SetAllHolds
<1>2. Fielded(pool) /\ Sound(pool)
  BY DEF Good, Sound, Shaped, Fielded
<1>3. Reaches(p1, a)
  BY <1>2, PromoteReaches
<1>4. Trim(p3)
  OBVIOUS
<1>. HIDE DEF p1
<1>5. Fielded(p1) /\ Sound(p1)
  BY <1>1 DEF Good, Sound, Shaped, Fielded
<1>6. Exact(p3, a)
  BY <1>3, <1>5, DemoteSetsExact
<1>. HIDE DEF p3
<1>7. Fielded(p3)
  BY <1>1 DEF Good, Sound, Shaped, Fielded
<1>. QED
  BY <1>1, <1>4, <1>6, <1>7, TrimExact

LEMMA InitContiguous == Init => PendingInv
<1>. SUFFICES ASSUME Init, NEW a \in Addrs PROVE Exact(pool, a)
  BY DEF Init, PendingInv
<1>1. chain \in Heads /\ chain.nonce[a] \in Nat
  BY ChainNonce DEF Init
<1>2. pool.next[a] = chain.nonce[a] /\ Nonces(pool.pending[a]) = {}
  BY DEF Init, Nonces
<1>. DEFINE c == chain.nonce[a]
<1>. HIDE DEF c
<1>3. c <= c /\ c..c - 1 = {}
  BY <1>1 DEF c
<1>. QED
  BY <1>1, <1>2, <1>3, Zenon DEF Exact, c

LEMMA StepContiguous == IInv /\ PendingInv /\ [Next]_vars => PendingInv'
<1>. SUFFICES ASSUME IInv, PendingInv, [Next]_vars PROVE PendingInv'
  OBVIOUS
<1>0. /\ Good(pool) /\ Fielded(pool) /\ Sound(pool) /\ chain \in Heads
      /\ \A a \in Addrs : chain.nonce[a] \in Nat
  BY ChainNonce DEF IInv, PendingInv, Good, Sound, Shaped, Fielded
<1>1. ASSUME UNCHANGED <<chain, lost, resetting, rewound>>, ~resetting,
             ~rewound => \A a \in Addrs : Exact(pool, a) => Exact(pool', a)
      PROVE  PendingInv'
  BY <1>1 DEF PendingInv, Exact
<1>2. ASSUME NEW t \in Txs, NEW local \in BOOLEAN, Add(t, local) PROVE PendingInv'
  <2>1. UNCHANGED <<pool, chain>> \/ \E r \in Adding(pool, t, local) : pool' = r.pool
    BY <1>2 DEF Add, TurnedAway
  <2>2. \A a \in Addrs : Exact(pool, a) => Exact(pool', a)
    BY <1>0, <2>1, AddingExact
  <2>. QED
    BY <1>1, <1>2, <2>2 DEF Add
<1>3. ASSUME NEW tip, SetGasTip(tip) PROVE PendingInv'
  <2>1. \A a \in Addrs : Exact(pool, a) => Exact(pool', a)
    BY <1>0, <1>3, RemoveExact DEF SetGasTip
  <2>. QED
    BY <1>1, <1>3, <2>1 DEF SetGasTip
<1>4. ASSUME NEW A, Evict(A) PROVE PendingInv'
  <2>1. \A a \in Addrs : Exact(pool, a) => Exact(pool', a)
    BY <1>0, <1>4, RemoveExact DEF Evict
  <2>. QED
    BY <1>1, <1>4, <2>1 DEF Evict
<1>5. ASSUME NEW A \in SUBSET Addrs, RunPromotes(A) PROVE PendingInv'
  <2>. DEFINE p == Promote(pool, A)
  <2>1. Good(p) /\ Trim(p)
    BY <1>0, <1>5, PromoteHolds DEF RunPromotes
  <2>2. ASSUME NEW a \in Addrs, Exact(pool, a) PROVE Exact(p, a)
    BY <1>0, <2>2, ExactReaches, PromoteReaches
  <2>. HIDE DEF p
  <2>3. Fielded(p)
    BY <2>1 DEF Good, Sound, Shaped, Fielded
  <2>4. \A a \in Addrs : Exact(pool, a) => Exact(pool', a)
    BY <1>0, <2>1, <2>2, <2>3, TrimExact
  <2>. QED
    BY <1>1, <1>5, <2>4 DEF RunPromotes
<1>6. ASSUME NEW A \in SUBSET Addrs, RunResets(A) PROVE PendingInv'
  <2>1. ~rewound => \A a \in Addrs : Exact(pool', a)
    BY <1>0, <1>6, ResetsExact DEF RunResets, PendingInv
  <2>. QED
    BY <1>6, <2>1 DEF RunResets, PendingInv, Exact
<1>7. ASSUME NEW head \in Heads, NEW back, Reset(head, back) PROVE PendingInv'
  <2>1. SUFFICES ASSUME ~rewound', NEW a \in Addrs
                 PROVE  lost' = {} /\ Reaches(pool, a)'
    BY <1>7 DEF PendingInv, Reset
  <2>2. /\ ~rewound /\ back = {} /\ Exact(pool, a)
        /\ ~(head.nonce[a] < chain.nonce[a])
    BY <1>7, <2>1 DEF Reset, PendingInv
  <2>3. head.nonce[a] \in Nat
    BY HeadsAssumption, TxsAssumption
  <2>4. /\ lost' = {} /\ chain'.nonce[a] = head.nonce[a]
        /\ pool'.next[a] = head.nonce[a] /\ pool'.pending[a] = pool.pending[a]
    BY <1>0, <1>7, <2>2 DEF Reset, Fielded
  <2>. DEFINE N == Nonces(pool.pending[a])
              c == chain.nonce[a]
              e == pool.next[a]
              h == head.nonce[a]
  <2>5. c \in Nat /\ e \in Nat /\ h \in Nat /\ c <= h /\ N = c..e - 1
    BY <1>0, <2>2, <2>3 DEF Exact
  <2>. HIDE DEF N, c, e, h
  <2>6. h <= h /\ h..h - 1 \subseteq N /\ \A n \in N : h..n \subseteq N
    BY <2>5
  <2>. QED
    BY <2>3, <2>4, <2>6 DEF Reaches, N, h
<1>8. ASSUME ResetFails PROVE PendingInv'
  BY <1>0, <1>8, ExactReaches DEF ResetFails, PendingInv, Reaches
<1>9. ASSUME NEW t \in Txs, Reinject(t) PROVE PendingInv'
  BY <1>9 DEF Reinject, PendingInv
<1>10. CASE UNCHANGED vars
  BY <1>10 DEF vars, PendingInv, Reaches, Exact
<1>. QED
  BY <1>2, <1>3, <1>4, <1>5, <1>6, <1>7, <1>8, <1>9, <1>10 DEF Next

\* As long as the chain never went back no method leaves a gap among the pending nonces
\* of an account, nor next anywhere but behind them: not the removals, not the
\* truncation, and not a reset, which sets next back and then builds it up again.
THEOREM PendingContiguousAlways == Spec => []PendingContiguous
<1>1. PendingInv => PendingContiguous
  BY DEF PendingInv, Exact, PendingContiguous
<1>. QED
  BY <1>1, InitContiguous, InitHolds, StepHolds, StepContiguous, PTL DEF Spec

-----------------------------------------------------------------------------
(* What promotion and truncation leave                                      *)

\* Each account gets some of its queue, and what is next goes behind it.
Follows(p, R) == [a \in Addrs |-> IF R[a] = {} THEN p.next[a] ELSE Max(Nonces(R[a])) + 1]

LEMMA PromoteFields ==
    ASSUME NEW p, Good(p), NEW accounts \in SUBSET Addrs
    PROVE  \E R \in [Addrs -> SUBSET Txs] :
              /\ \A a \in Addrs : Promote(p, accounts).pending[a] = p.pending[a] \cup R[a]
              /\ Promote(p, accounts).next = Follows(p, R)
<1>. DEFINE Q == {b \in accounts : p.queue[b] # {}}
            kept == [b \in Q |-> {t \in p.queue[b] : /\ t.nonce >= chain.nonce[b]
                                                     /\ t.price <= chain.balance[b]}]
            ready == [b \in Q |-> Ready(kept[b], p.next[b])]
            in == [b \in Q |-> ready[b] \ Refused(p.pending[b], ready[b])]
            rest == [b \in Q |-> IF b \in locals THEN kept[b] \ ready[b]
                                 ELSE Capped(kept[b] \ ready[b], AccountQueue)]
            gone == UNION {p.queue[b] \ (in[b] \cup rest[b]) : b \in Q}
                    \cup UNION {Replaced(p.pending[b], ready[b]) : b \in Q}
            emptied == {b \in Q : rest[b] = {}}
            P2 == [b \in Addrs |-> IF b \in Q THEN Merged(p.pending[b], ready[b]) ELSE p.pending[b]]
            Q2 == [b \in Addrs |-> IF b \in Q THEN rest[b] ELSE p.queue[b]]
            N2 == [b \in Addrs |-> IF b \in Q /\ in[b] # {}
                                   THEN Max(Nonces(in[b])) + 1 ELSE p.next[b]]
            B2 == (p.beats \cup {b \in Q : in[b] # {}}) \ emptied
            r == [Forget(p, gone) EXCEPT !.pending = P2, !.queue = Q2, !.next = N2, !.beats = B2]
            q == Release(r, emptied)
            R == [a \in Addrs |-> IF a \in Q THEN ready[a] ELSE {}]
<1>1. Promote(p, accounts) = q
  BY Zenon DEF Promote
<1>2. Sound(p) /\ Fielded(p)
  BY DEF Good, Sound, Shaped, Fielded
<1>3. ASSUME NEW a \in Q
      PROVE  /\ ready[a] \in SUBSET Txs /\ in[a] = ready[a]
             /\ Merged(p.pending[a], ready[a]) = p.pending[a] \cup ready[a]
  <2>1. ready[a] \in SUBSET p.queue[a] /\ a \in Addrs
    BY DEF Ready
  <2>2. in[a] = ready[a] \ Refused(p.pending[a], ready[a])
    OBVIOUS
  <2>. HIDE DEF kept, ready, in
  <2>3. /\ Refused(p.pending[a], ready[a]) = {}
        /\ Merged(p.pending[a], ready[a]) = p.pending[a] \cup ready[a]
    BY <1>2, <2>1, PromotesAll
  <2>. QED
    BY <1>2, <2>1, <2>2, <2>3 DEF Sound, Shaped
<1>. HIDE DEF ready, in, kept, rest
<1>4. \A a \in Addrs : P2[a] = p.pending[a] \cup R[a]
  BY <1>3
<1>5. N2 = Follows(p, R)
  <2>1. \A a \in Addrs : N2[a] = IF R[a] = {} THEN p.next[a] ELSE Max(Nonces(R[a])) + 1
    BY <1>3
  <2>2. N2 = [a \in Addrs |-> N2[a]]
    OBVIOUS
  <2>. HIDE DEF N2, R
  <2>. QED
    BY <2>1, <2>2 DEF Follows
<1>6. R \in [Addrs -> SUBSET Txs]
  BY <1>3
<1>. HIDE DEF gone, emptied, P2, Q2, N2, B2, R
<1>7. q.pending = P2 /\ q.next = N2
  <2>1. Fielded(r) /\ r.pending = P2 /\ r.next = N2
    BY <1>2 DEF Forget, Fielded
  <2>. HIDE DEF r
  <2>. QED
    BY <2>1 DEF Release, Fielded
<1>. HIDE DEF q
<1>. QED
  BY <1>1, <1>4, <1>5, <1>6, <1>7

\* truncatePending cuts the large accounts to one level and leaves the rest.
LEMMA TruncatePendingFields ==
    ASSUME NEW p, Good(p)
    PROVE  \/ TruncatePending(p) = p
           \/ /\ TruncatePending(p).queue = p.queue
              /\ \E C : /\ \A a \in Addrs : C[a] \subseteq Nonces(p.pending[a])
                        /\ TruncatePending(p).next = Leasts(p, C)
<1>. SUFFICES ASSUME TruncatePending(p) # p
              PROVE  /\ TruncatePending(p).queue = p.queue
                     /\ \E C : /\ \A a \in Addrs : C[a] \subseteq Nonces(p.pending[a])
                               /\ TruncatePending(p).next = Leasts(p, C)
  BY Zenon
<1>. DEFINE spammers == {a \in Addrs \ locals : Cardinality(p.pending[a]) > AccountSlots}
            cutTo(n) == [a \in Addrs |-> IF a \in spammers THEN Capped(p.pending[a], n)
                                         ELSE p.pending[a]]
            fits == {n \in AccountSlots..MaxNonce + 1 : Total(cutTo(n)) <= GlobalSlots}
            stay == cutTo(IF fits = {} THEN AccountSlots ELSE Max(fits))
            N == [a \in Addrs |-> Min({p.next[a]} \cup Nonces(p.pending[a] \ stay[a]))]
            gone == UNION {p.pending[a] \ stay[a] : a \in Addrs}
            q == [Forget(p, gone) EXCEPT !.pending = stay, !.next = N]
            C == [a \in Addrs |-> Nonces(p.pending[a] \ stay[a])]
<1>1. TruncatePending(p) = q
  BY Zenon DEF TruncatePending
<1>. HIDE DEF stay
<1>2. \A a \in Addrs : C[a] \subseteq Nonces(p.pending[a])
  BY DEF Nonces
<1>3. N = Leasts(p, C)
  BY DEF Leasts
<1>. HIDE DEF N, C, gone
<1>4. q.queue = p.queue /\ q.next = N
  BY DEF Forget, Good, Sound, Shaped
<1>. HIDE DEF q
<1>. QED
  BY <1>1, <1>2, <1>3, <1>4

-----------------------------------------------------------------------------
(* The types                                                                *)

\* What the virtual nonces may be, which the lists do not depend on.
Ranged(p) == p.next \in [Addrs -> 0..MaxNonce + 1]

\* Cutting lists at some of their nonces leaves what is next in its range.
LEMMA CutsRanged ==
    ASSUME NEW p, Ranged(p), NEW q, NEW C, \A a \in Addrs : C[a] \in SUBSET (0..MaxNonce),
           q.next = Leasts(p, C)
    PROVE  Ranged(q)
<1>1. ASSUME NEW a \in Addrs
      PROVE  Min({p.next[a]} \cup C[a]) \in 0..MaxNonce + 1
  <2>. DEFINE T == {p.next[a]} \cup C[a]
  <2>1. T \in SUBSET Nat /\ T # {} /\ T \subseteq 0..MaxNonce + 1
    BY TxsAssumption DEF Ranged
  <2>. HIDE DEF T
  <2>2. Min(T) \in T
    BY <2>1, MinNat
  <2>. QED
    BY <2>1, <2>2 DEF T
<1>. QED
  BY <1>1 DEF Ranged, Leasts

\* Behind the highest nonce of a list there is still one in range.
LEMMA MaxRanged ==
    ASSUME NEW R \in SUBSET Txs, R # {}
    PROVE  Max(Nonces(R)) + 1 \in 0..MaxNonce + 1
<1>. DEFINE N == Nonces(R)
            top == Max(N)
<1>1. N \in SUBSET Nat /\ N # {} /\ MaxNonce \in Nat /\ \A n \in N : n <= MaxNonce
  BY NoncesAreNat, TxsAssumption DEF Nonces
<1>. HIDE DEF N
<1>2. top \in N
  BY <1>1, MaxBounded
<1>. HIDE DEF top
<1>3. top \in Nat /\ top <= MaxNonce
  BY <1>1, <1>2
<1>4. top + 1 \in 0..MaxNonce + 1
  BY <1>1, <1>3
<1>. QED
  BY <1>4 DEF top, N

LEMMA RemoveRanged ==
    ASSUME NEW p, Fielded(p), Sound(p), Ranged(p), NEW D, NEW keep
    PROVE  Ranged(RemoveTxs(p, D, keep))
<1>1. \A a \in Addrs : Cuts(p, D)[a] \in SUBSET (0..MaxNonce)
  BY NoncesAreNat DEF Cuts, Cut, Sound, Shaped
<1>. QED
  BY <1>1, RemoveFields, CutsRanged

\* Adding changes what is next by its discards alone, and these only take from pending.
LEMMA AddingTyped ==
    ASSUME NEW p, Fielded(p), Good(p), Ranged(p), NEW t \in Txs, NEW local \in BOOLEAN,
           NEW r \in Adding(p, t, local), changes \in Nat, locals \subseteq Addrs
    PROVE  Ranged(r.pool) /\ r.changes \in Nat /\ r.locals \subseteq Addrs
<1>. DEFINE b == t.from
            held == [p EXCEPT !.reserved = @ \cup {b}]
            isLocal == IsLocal(t, local)
<1>0. b \in Addrs
  BY TxsAssumption
<1>1. PICK E : r = Outcome(p, t, local, E)
  BY DEF Adding
<1>. DEFINE D == Victims(p, E)
<1>2. Fielded(held) /\ Sound(held) /\ Ranged(held) /\ held.pending = p.pending
  <2>1. /\ Shaped(held) /\ Fielded(held) /\ held.pending = p.pending /\ held.queue = p.queue
        /\ held.all = p.all /\ held.remote = p.remote /\ held.beats = p.beats /\ held.next = p.next
    BY <1>0 DEF Good, Sound, Shaped, Fielded
  <2>. HIDE DEF held
  <2>. QED
    BY <2>1 DEF Good, Sound, Ranged
<1>. DEFINE q == RemoveTxs(held, D, {b})
            n == Insert(q, t, isLocal)
            marked == LocalsWith(q, t, local)
            m == Migrated(n, marked)
<1>3. /\ r.pool = IF Accepted(q, t) THEN m
                  ELSE IF Listed(p, b) THEN q ELSE [q EXCEPT !.reserved = @ \ {b}]
      /\ r.locals = IF Accepted(q, t) THEN marked ELSE locals
      /\ r.changes = changes + Dropped(p, q)
  BY <1>1 DEF Outcome
<1>. HIDE DEF held, isLocal, D
<1>4. Fielded(q) /\ Ranged(q)
  BY <1>2, RemoveRanged, RemoveShrinks DEF Shrunk
<1>5. \A a \in Addrs : q.pending[a] \subseteq p.pending[a]
  <2>1. q.pending = Stays(held, D)
    BY <1>2, RemoveFields
  <2>. HIDE DEF q
  <2>. QED
    BY <1>2, <2>1 DEF Stays, Below
<1>. HIDE DEF q
<1>6. Dropped(p, q) \in Nat
  <2>. DEFINE S == UNION {p.pending[a] : a \in Addrs}
              T == UNION {q.pending[a] : a \in Addrs}
  <2>1. T \subseteq S /\ S \subseteq Txs
    BY <1>5 DEF Good, Sound, Shaped
  <2>2. Dropped(p, q) = Cardinality(S) - Cardinality(T)
    BY DEF Dropped, Total, TotalOf
  <2>. HIDE DEF S, T
  <2>3. IsFiniteSet(S)
    BY <2>1, TxsAssumption, FS_Subset
  <2>4. IsFiniteSet(T) /\ Cardinality(T) <= Cardinality(S)
    BY <2>1, <2>3, FS_Subset
  <2>. QED
    BY <2>2, <2>3, <2>4, FS_CardinalityType
<1>7. marked \subseteq Addrs
  BY <1>0 DEF LocalsWith
<1>8. Fielded(n) /\ n.next = q.next
  <2>. DEFINE f == Forget(q, Rival(q, t))
              with(L) == (L \ Rival(q, t)) \cup {t}
              P == [f.pending EXCEPT ![b] = IF InPlace(q, t) THEN with(@) ELSE @]
              Q == [f.queue EXCEPT ![b] = IF InPlace(q, t) THEN @ ELSE with(@)]
              X == IF isLocal THEN f.remote ELSE f.remote \cup {t}
              z == [f EXCEPT !.pending = P, !.queue = Q, !.all = @ \cup {t}, !.remote = X]
  <2>1. Fielded(f) /\ f.next = q.next
    BY <1>4 DEF Forget, Fielded
  <2>2. n = Beat(z, {b})
    BY <2>1 DEF Insert, Fielded
  <2>. HIDE DEF P, Q, f, X
  <2>3. Fielded(z) /\ z.next = q.next
    BY <2>1 DEF Fielded
  <2>. HIDE DEF z
  <2>. QED
    BY <2>2, <2>3 DEF Beat, Fielded
<1>. HIDE DEF n, marked
<1>9. m.next = q.next
  BY <1>8 DEF Migrated, Fielded
<1>10. Ranged(r.pool)
  BY <1>3, <1>4, <1>9 DEF Ranged, Fielded
<1>. QED
  BY <1>3, <1>6, <1>7, <1>10

LEMMA PromoteRanged ==
    ASSUME NEW p, Good(p), Ranged(p), NEW accounts \in SUBSET Addrs
    PROVE  Ranged(Promote(p, accounts))
<1>. DEFINE q == Promote(p, accounts)
<1>1. PICK R \in [Addrs -> SUBSET Txs] :
          q.next = Follows(p, R)
  BY PromoteFields
<1>2. \A a \in Addrs : R[a] # {} => Max(Nonces(R[a])) + 1 \in 0..MaxNonce + 1
  BY MaxRanged
<1>. HIDE DEF q
<1>. QED
  BY <1>1, <1>2 DEF Ranged, Follows, q

LEMMA SetAllRanged ==
    ASSUME NEW p, Good(p), chain \in Heads
    PROVE  Ranged(SetAll(p))
<1>1. \A a \in Addrs : chain.nonce[a] \in 0..MaxNonce + 1
  BY HeadsAssumption
<1>2. \A a \in Addrs : p.pending[a] # {} => Max(Nonces(p.pending[a])) + 1 \in 0..MaxNonce + 1
  BY MaxRanged DEF Good, Sound, Shaped
<1>3. SetAll(p).next = [a \in Addrs |-> IF p.pending[a] = {} THEN chain.nonce[a]
                                        ELSE Max(Nonces(p.pending[a])) + 1]
  BY DEF SetAll, Good, Sound, Shaped
<1>. QED
  BY <1>1, <1>2, <1>3 DEF Ranged

LEMMA TrimRanged ==
    ASSUME NEW p, Good(p), Ranged(p), Trim(p)
    PROVE  Ranged(pool')
<1>. DEFINE q == TruncatePending(p)
<1>1. Good(q)
  BY TruncatePendingHolds
<1>2. Ranged(q)
  <2>1. CASE q = p
    BY <2>1
  <2>2. CASE q # p
    <3>1. PICK C : (\A a \in Addrs : C[a] \subseteq Nonces(p.pending[a])) /\ q.next = Leasts(p, C)
      BY <2>2, TruncatePendingFields
    <3>2. \A a \in Addrs : C[a] \in SUBSET (0..MaxNonce)
      <4>1. \A a \in Addrs : p.pending[a] \in SUBSET Txs
        BY DEF Good, Sound, Shaped
      <4>. QED
        BY <3>1, <4>1, NoncesAreNat
    <3>. HIDE DEF q
    <3>. QED
      BY <3>1, <3>2, CutsRanged
  <2>. QED
    BY <2>1, <2>2
<1>3. Fielded(q)
  BY <1>1 DEF Good, Sound, Shaped, Fielded
<1>4. PICK rank : pool' = TruncateQueue(q, rank)
  BY DEF Trim
<1>. HIDE DEF q
<1>5. pool' = q \/ \E D : pool' = RemoveTxs(q, D, {})
  BY <1>4, Zenon DEF TruncateQueue
<1>6. ASSUME NEW D PROVE Ranged(RemoveTxs(q, D, {}))
  BY <1>1, <1>2, <1>3, RemoveRanged DEF Good
<1>. QED
  BY <1>2, <1>5, <1>6

\* The types that the lists do not need.
Typed ==
    /\ Ranged(pool)
    /\ chain \in Heads
    /\ locals \subseteq Addrs /\ dirty \subseteq Addrs
    /\ changes \in Nat
    /\ resetting \in BOOLEAN /\ rewound \in BOOLEAN

LEMMA InitTyped == Init => Typed
<1>. SUFFICES ASSUME Init PROVE Typed
  OBVIOUS
<1>1. Ranged(pool)
  <2>1. pool.next = chain.nonce /\ chain \in Heads
    BY DEF Init
  <2>. QED
    BY <2>1, HeadsAssumption DEF Ranged
<1>. QED
  BY <1>1 DEF Init, Typed

LEMMA StepTyped == IInv /\ Typed /\ [Next]_vars => Typed'
<1>. SUFFICES ASSUME IInv, Typed, [Next]_vars PROVE Typed'
  OBVIOUS
<1>0. /\ Good(pool) /\ lost \subseteq Txs /\ Fielded(pool) /\ Sound(pool) /\ Ranged(pool)
      /\ chain \in Heads /\ locals \subseteq Addrs /\ dirty \subseteq Addrs /\ changes \in Nat
      /\ resetting \in BOOLEAN /\ rewound \in BOOLEAN
  BY DEF IInv, Typed, Good, Sound, Shaped, Fielded
<1>1. ASSUME NEW t \in Txs, NEW local \in BOOLEAN, Add(t, local) PROVE Typed'
  <2>1. t.from \in Addrs
    BY TxsAssumption
  <2>2. \/ \E r \in Adding(pool, t, local) :
              /\ pool' = r.pool /\ locals' = r.locals /\ changes' = r.changes
              /\ dirty' = IF r.dirty THEN dirty \cup {t.from} ELSE dirty
        \/ UNCHANGED <<pool, locals, changes, dirty>>
    BY <1>1 DEF Add, TurnedAway
  <2>3. Ranged(pool') /\ changes' \in Nat /\ locals' \subseteq Addrs
    BY <1>0, <2>2, AddingTyped
  <2>. QED
    BY <1>0, <1>1, <2>1, <2>2, <2>3 DEF Add, Typed, Ranged
<1>2. ASSUME NEW tip, SetGasTip(tip) PROVE Typed'
  <2>1. Ranged(pool')
    BY <1>0, <1>2, RemoveRanged DEF SetGasTip
  <2>. QED
    BY <1>0, <1>2, <2>1 DEF SetGasTip, Typed, Ranged
<1>3. ASSUME NEW A, Evict(A) PROVE Typed'
  <2>1. Ranged(pool')
    BY <1>0, <1>3, RemoveRanged DEF Evict
  <2>. QED
    BY <1>0, <1>3, <2>1 DEF Evict, Typed, Ranged
<1>4. ASSUME NEW A \in SUBSET Addrs, RunPromotes(A) PROVE Typed'
  <2>. DEFINE p == Promote(pool, A)
  <2>1. Good(p) /\ Ranged(p) /\ Trim(p)
    BY <1>0, <1>4, PromoteHolds, PromoteRanged DEF RunPromotes
  <2>. HIDE DEF p
  <2>2. Ranged(pool') /\ changes' = 0
    BY <2>1, TrimRanged DEF Trim
  <2>. QED
    BY <1>0, <1>4, <2>2 DEF RunPromotes, Typed, Ranged
<1>5. ASSUME NEW A \in SUBSET Addrs, RunResets(A) PROVE Typed'
  <2>. DEFINE p == Demote(Promote(pool, Addrs))
              q == SetAll(p)
  <2>1. Good(p) /\ Trim(q)
    BY <1>0, <1>5, PromoteHolds, DemoteHolds DEF RunResets
  <2>. HIDE DEF p
  <2>2. Good(q) /\ Ranged(q)
    BY <1>0, <2>1, SetAllHolds, SetAllRanged
  <2>. HIDE DEF q
  <2>3. Ranged(pool') /\ changes' = 0
    BY <2>1, <2>2, TrimRanged DEF Trim
  <2>. QED
    BY <1>0, <1>5, <2>3 DEF RunResets, Typed, Ranged
<1>6. ASSUME NEW head \in Heads, NEW back, Reset(head, back) PROVE Typed'
  <2>1. pool'.next = head.nonce
    BY <1>0, <1>6 DEF Reset, Fielded
  <2>2. Ranged(pool')
    BY <2>1, HeadsAssumption DEF Ranged
  <2>. QED
    BY <1>0, <1>6, <2>2 DEF Reset, Typed, Ranged
<1>7. ASSUME ResetFails PROVE Typed'
  BY <1>0, <1>7 DEF ResetFails, Typed, Ranged
<1>8. ASSUME NEW t \in Txs, Reinject(t) PROVE Typed'
  <2>1. Ranged(pool') /\ changes' \in Nat /\ locals' \subseteq Addrs
    BY <1>0, <1>8, AddingTyped DEF Reinject, TurnedAway
  <2>. QED
    BY <1>0, <1>8, <2>1 DEF Reinject, Typed, Ranged
<1>9. CASE UNCHANGED vars
  BY <1>0, <1>9 DEF vars, Typed, Ranged
<1>. QED
  BY <1>1, <1>2, <1>3, <1>4, <1>5, <1>6, <1>7, <1>8, <1>9 DEF Next

\* Through every call the indexes keep their types, and with them the two bounds nobody
\* checks: a virtual nonce never passes the one behind the highest, and the count of
\* changes never falls, since what makes room for a transaction only leaves pending.
THEOREM TypeOKAlways == Spec => []TypeOK
<1>1. IInv /\ HeapInv /\ Typed => TypeOK
  <2>. SUFFICES ASSUME IInv, HeapInv, Typed PROVE TypeOK
    OBVIOUS
  <2>1. pool \in Pools
    BY DEF IInv, Good, Sound, Shaped, Typed, Ranged, Pools
  <2>. QED
    BY <2>1 DEF IInv, HeapInv, Heaped, Typed, TypeOK
<1>. QED
  BY <1>1, InitHolds, StepHolds, InitHeaped, StepHeaped, InitTyped, StepTyped, PTL DEF Spec

-----------------------------------------------------------------------------
(* What a run leaves of the limits                                          *)

\* Sets of transactions are finite, and so have a size to compare.
LEMMA TxsSize ==
    ASSUME NEW S \in SUBSET Txs, NEW T \in SUBSET S
    PROVE  /\ IsFiniteSet(S) /\ IsFiniteSet(T)
           /\ Cardinality(S) \in Nat /\ Cardinality(T) \in Nat
           /\ Cardinality(T) <= Cardinality(S)
           /\ Cardinality(S \ T) \in Nat
           /\ Cardinality(S \ T) = Cardinality(S) - Cardinality(T)
<1>1. IsFiniteSet(S)
  BY TxsAssumption, FS_Subset
<1>2. IsFiniteSet(T) /\ Cardinality(T) <= Cardinality(S)
  BY <1>1, FS_Subset
<1>3. S \cap T = T
  BY Zenon
<1>4. IsFiniteSet(S \ T) /\ Cardinality(S \ T) = Cardinality(S) - Cardinality(T)
  BY <1>1, <1>3, FS_Difference
<1>. QED
  BY <1>1, <1>2, <1>4, FS_CardinalityType

\* Cap leaves no more transactions than it says.
LEMMA CappedAtMost ==
    ASSUME NEW L \in SUBSET Txs, \A t, u \in L : t.nonce = u.nonce => t = u, NEW k \in Nat
    PROVE  Cardinality(Capped(L, k)) <= k
<1>. DEFINE C == Capped(L, k)
            under(t) == {u \in L : u.nonce < t.nonce}
<1>1. C \in SUBSET Txs /\ C \subseteq L
  BY DEF Capped
<1>2. CASE C = {}
  <2>1. Cardinality(C) = 0
    BY <1>2, FS_EmptySet
  <2>. QED
    BY <2>1
<1>3. CASE C # {}
  <2>. DEFINE N == Nonces(C)
              top == Max(N)
  <2>1. N \in SUBSET Nat /\ N # {} /\ MaxNonce \in Nat /\ \A n \in N : n <= MaxNonce
    BY <1>1, <1>3, NoncesAreNat, TxsAssumption DEF Nonces
  <2>. HIDE DEF N
  <2>2. top \in N /\ \A n \in N : n <= top
    BY <2>1, MaxBounded
  <2>. HIDE DEF top
  <2>3. PICK t \in C : t.nonce = top
    BY <2>2 DEF N, Nonces
  <2>4. \A u \in C : u.nonce \in Nat /\ u.nonce <= t.nonce
    <3>1. \A u \in C : u.nonce \in N
      BY DEF N, Nonces
    <3>. QED
      BY <2>1, <2>2, <2>3, <3>1
  <2>5. C \ {t} \subseteq under(t)
    <3>1. ASSUME NEW u \in C, u # t
          PROVE  u \in under(t)
      <4>1. u.nonce # t.nonce
        BY <1>1, <2>3, <3>1
      <4>. QED
        BY <1>1, <2>3, <2>4, <4>1
    <3>. QED
      BY <3>1
  <2>6. under(t) \in SUBSET Txs /\ Cardinality(under(t)) < k
    BY <2>3 DEF Capped
  <2>. HIDE DEF C, under
  <2>7. Cardinality(C \ {t}) <= Cardinality(under(t)) /\ Cardinality(under(t)) \in Nat
    BY <2>5, <2>6, TxsSize
  <2>8. Cardinality(C \ {t}) = Cardinality(C) - 1 /\ Cardinality(C) \in Nat
    <3>1. IsFiniteSet(C) /\ Cardinality(C) \in Nat
      BY <1>1, TxsSize
    <3>. QED
      BY <2>3, <3>1, FS_RemoveElement
  <2>. QED
    BY <2>6, <2>7, <2>8 DEF C
<1>. QED
  BY <1>2, <1>3

\* Nor fewer, if it takes any.
LEMMA CappedAtLeast ==
    ASSUME NEW L \in SUBSET Txs, NEW k \in Nat, Capped(L, k) # L
    PROVE  k <= Cardinality(Capped(L, k))
<1>. DEFINE C == Capped(L, k)
            under(t) == {u \in L : u.nonce < t.nonce}
            N == Nonces(L \ C)
<1>1. C \subseteq L /\ L \ C # {} /\ C \in SUBSET Txs
  BY DEF Capped
<1>2. N \in SUBSET Nat /\ N # {}
  BY <1>1, NoncesAreNat DEF Nonces
<1>3. PICK n \in N : \A m \in N : n <= m
  BY <1>2, LeastNat
<1>4. PICK t \in L \ C : t.nonce = n
  BY <1>3 DEF Nonces
<1>5. under(t) \subseteq C
  <2>1. ASSUME NEW u \in L, u \notin C
        PROVE  ~(u.nonce < t.nonce)
    <3>1. u.nonce \in N
      BY <2>1 DEF Nonces
    <3>. QED
      BY <1>2, <1>3, <1>4, <3>1
  <2>. QED
    BY <2>1
<1>6. ~(Cardinality(under(t)) < k)
  BY <1>4 DEF Capped
<1>. HIDE DEF C, under
<1>7. Cardinality(under(t)) <= Cardinality(C) /\ Cardinality(under(t)) \in Nat /\ Cardinality(C) \in Nat
  BY <1>1, <1>5, TxsSize
<1>. QED
  BY <1>6, <1>7 DEF C

\* What Min and Max choose of two numbers.
LEMMA MinOfTwo ==
    ASSUME NEW x \in Nat, NEW y \in Nat
    PROVE  Min({x, y}) \in {x, y} /\ Min({x, y}) <= x /\ Min({x, y}) <= y
<1>1. {x, y} \in SUBSET Nat /\ {x, y} # {}
  OBVIOUS
<1>. QED
  BY <1>1, MinNat

LEMMA MaxWithZero ==
    ASSUME NEW z \in Int
    PROVE  Max({0, z}) \in Nat /\ z <= Max({0, z})
<1>. DEFINE T == {0, z}
<1>1. \E x \in T : \A y \in T : x >= y
  <2>1. CASE z >= 0
    BY <2>1
  <2>2. CASE ~(z >= 0)
    BY <2>2
  <2>. QED
    BY <2>1, <2>2
<1>2. Max(T) \in T /\ \A y \in T : Max(T) >= y
  <2>. HIDE DEF T
  <2>. QED
    BY <1>1 DEF Max
<1>3. PICK m : m = Max(T)
  OBVIOUS
<1>4. m \in {0, z} /\ m >= 0 /\ m >= z
  BY <1>2, <1>3
<1>. QED
  BY <1>3, <1>4

\* truncatePending keeps its limit, and the guaranteed slots.
LEMMA TruncatePendingLimits ==
    ASSUME NEW p, Good(p), NEW q, q = TruncatePending(p)
    PROVE  /\ \/ Total(q.pending) <= GlobalSlots
              \/ \A a \in Addrs \ locals : Cardinality(q.pending[a]) <= AccountSlots
           /\ \A a \in Addrs : Cardinality(q.pending[a])
                                  >= Min({Cardinality(p.pending[a]), AccountSlots})
<1>. DEFINE spammers == {a \in Addrs \ locals : Cardinality(p.pending[a]) > AccountSlots}
            cutTo(n) == [a \in Addrs |-> IF a \in spammers THEN Capped(p.pending[a], n)
                                         ELSE p.pending[a]]
            fits == {n \in AccountSlots..MaxNonce + 1 : Total(cutTo(n)) <= GlobalSlots}
            level == IF fits = {} THEN AccountSlots ELSE Max(fits)
            stay == cutTo(level)
            N2 == [a \in Addrs |-> Min({p.next[a]} \cup Nonces(p.pending[a] \ stay[a]))]
            gone == UNION {p.pending[a] \ stay[a] : a \in Addrs}
            r == [Forget(p, gone) EXCEPT !.pending = stay, !.next = N2]
<1>1. /\ p.pending \in [Addrs -> SUBSET Txs] /\ AccountSlots \in Nat
      /\ \A a \in Addrs : \A t, u \in p.pending[a] : t.nonce = u.nonce => t = u
      /\ \A a \in Addrs : Cardinality(p.pending[a]) \in Nat
  <2>1. p.pending \in [Addrs -> SUBSET Txs] /\ Sound(p)
    BY DEF Good, Sound, Shaped
  <2>2. \A a \in Addrs : Cardinality(p.pending[a]) \in Nat
    BY <2>1, TxsSize
  <2>. QED
    BY <2>1, <2>2, ConfigAssumption DEF Sound, Distinct
<1>2. \A a \in Addrs : LET m == Min({Cardinality(p.pending[a]), AccountSlots}) IN
          m \in Nat /\ m <= Cardinality(p.pending[a]) /\ m <= AccountSlots
  BY <1>1, MinOfTwo
<1>3. CASE Total(p.pending) <= GlobalSlots
  <2>1. q = p
    BY <1>3 DEF TruncatePending
  <2>. QED
    BY <1>1, <1>2, <1>3, <2>1
<1>4. CASE ~(Total(p.pending) <= GlobalSlots)
  <2>1. q = r
    BY <1>4, Zenon DEF TruncatePending
  <2>2. /\ level \in Nat /\ AccountSlots <= level
        /\ fits = {} => level = AccountSlots
        /\ fits # {} => Total(stay) <= GlobalSlots
    <3>. HIDE DEF spammers, cutTo
    <3>1. /\ fits \in SUBSET Nat /\ MaxNonce + 1 \in Nat /\ \A n \in fits : n <= MaxNonce + 1
          /\ \A n \in fits : AccountSlots <= n /\ Total(cutTo(n)) <= GlobalSlots
      BY <1>1, TxsAssumption
    <3>. HIDE DEF fits
    <3>2. fits # {} => level \in fits
      BY <3>1, MaxBounded
    <3>3. fits = {} => level = AccountSlots
      BY Zenon
    <3>. HIDE DEF level
    <3>4. fits # {} => AccountSlots <= level /\ Total(cutTo(level)) <= GlobalSlots /\ level \in Nat
      BY <3>1, <3>2
    <3>5. AccountSlots <= AccountSlots
      BY <1>1
    <3>. QED
      BY <1>1, <3>3, <3>4, <3>5
  <2>. HIDE DEF level, fits
  <2>3. /\ \A a \in spammers : stay[a] = Capped(p.pending[a], level)
        /\ \A a \in Addrs \ spammers : stay[a] = p.pending[a]
    OBVIOUS
  <2>4. /\ spammers \subseteq Addrs
        /\ \A a \in Addrs \ locals : a \notin spammers => ~(Cardinality(p.pending[a]) > AccountSlots)
    OBVIOUS
  <2>. HIDE DEF stay, gone, N2, spammers
  <2>5. q.pending = stay
    BY <2>1 DEF Forget, Good, Sound, Shaped
  <2>6. ASSUME NEW a \in spammers
        PROVE  /\ Cardinality(stay[a]) \in Nat /\ Cardinality(stay[a]) <= level
               /\ stay[a] = p.pending[a] \/ level <= Cardinality(stay[a])
    <3>1. p.pending[a] \in SUBSET Txs /\ \A t, u \in p.pending[a] : t.nonce = u.nonce => t = u
      BY <1>1, <2>4
    <3>2. Capped(p.pending[a], level) \subseteq p.pending[a]
      BY DEF Capped
    <3>3. Cardinality(Capped(p.pending[a], level)) \in Nat
      BY <3>1, <3>2, TxsSize
    <3>. QED
      BY <2>2, <2>3, <3>1, <3>3, CappedAtMost, CappedAtLeast
  <2>7. ASSUME NEW a \in Addrs
        PROVE  Cardinality(q.pending[a]) >= Min({Cardinality(p.pending[a]), AccountSlots})
    <3>1. CASE stay[a] = p.pending[a]
      BY <1>1, <1>2, <2>5, <3>1
    <3>2. CASE stay[a] # p.pending[a]
      <4>1. a \in spammers
        BY <2>3, <3>2
      <4>2. level <= Cardinality(stay[a]) /\ Cardinality(stay[a]) \in Nat
        BY <2>6, <3>2, <4>1
      <4>. QED
        BY <1>1, <1>2, <2>2, <2>5, <4>2
    <3>. QED
      BY <3>1, <3>2
  <2>8. ASSUME fits = {}, NEW a \in Addrs \ locals
        PROVE  Cardinality(q.pending[a]) <= AccountSlots
    <3>1. CASE a \in spammers
      BY <2>2, <2>5, <2>6, <2>8, <3>1
    <3>2. CASE a \notin spammers
      BY <1>1, <2>3, <2>4, <2>5, <3>2
    <3>. QED
      BY <3>1, <3>2
  <2>. QED
    BY <2>2, <2>5, <2>7, <2>8
<1>. QED
  BY <1>3, <1>4

\* Taking queued transactions out leaves the pending ones, and the rest of the queues.
LEMMA RemoveQueued ==
    ASSUME NEW p, Good(p), NEW D, D \subseteq UNION {p.queue[a] : a \in Addrs},
           NEW q, q = RemoveTxs(p, D, {}), NEW a \in Addrs
    PROVE  q.pending[a] = p.pending[a] /\ q.queue[a] = p.queue[a] \ D
<1>1. Sound(p) /\ Held(p, {}) /\ Fielded(p) /\ D \in SUBSET p.all
  BY DEF Good, Sound, Shaped, Fielded, AllOf
<1>2. \A t \in p.pending[a] : t \notin D
  BY <1>1 DEF Sound, Distinct
<1>3. Cut(p, D, a) = {}
  <2>1. \A t \in p.pending[a] : t.nonce \notin Cut(p, D, a)
    BY <1>1, <1>2, RemovesThose
  <2>2. Cut(p, D, a) \subseteq Nonces(p.pending[a])
    BY DEF Cut
  <2>. QED
    BY <2>1, <2>2 DEF Nonces
<1>4. q.pending[a] = p.pending[a]
  <2>1. q.pending = Stays(p, D)
    BY <1>1, RemoveFields
  <2>. QED
    BY <1>3, <2>1 DEF Stays, Below
<1>5. Sound(q) /\ q.all = p.all \ D
  BY <1>1, RemoveHolds
<1>6. ASSUME NEW s, Sound(s)
      PROVE  s.queue[a] = {t \in s.all : t.from = a /\ t \notin s.pending[a]}
  BY <1>6 DEF Sound, AllOf, Distinct
<1>7. q.queue[a] = {t \in p.all \ D : t.from = a /\ t \notin p.pending[a]}
  BY <1>4, <1>5, <1>6
<1>. QED
  BY <1>1, <1>4, <1>6, <1>7

\* How many transactions truncateQueue takes from the account a.
Before(p, rank, a) == TotalOf(p.queue, {b \in DOMAIN rank : rank[b] < rank[a]})
Excess(p, rank, a) ==
    Min({Cardinality(p.queue[a]), Max({0, Total(p.queue) - GlobalQueue - Before(p, rank, a)})})
Leaves(p, rank, a) == Capped(p.queue[a], Cardinality(p.queue[a]) - Excess(p, rank, a))
Takes(p, rank) == UNION {p.queue[a] \ Leaves(p, rank, a) : a \in DOMAIN rank}

LEMMA TruncateQueueIs ==
    ASSUME NEW p, NEW rank
    PROVE  TruncateQueue(p, rank)
             = IF Total(p.queue) - GlobalQueue <= 0 THEN p ELSE RemoveTxs(p, Takes(p, rank), {})
  BY Zenon DEF TruncateQueue, Takes, Leaves, Excess, Before

LEMMA ExcessSize ==
    ASSUME NEW p, Good(p), NEW rank \in Orders(p), NEW a \in DOMAIN rank
    PROVE  /\ Cardinality(p.queue[a]) \in Nat /\ Before(p, rank, a) \in Nat
           /\ Total(p.queue) \in Nat /\ Excess(p, rank, a) \in Nat
           /\ Excess(p, rank, a) <= Cardinality(p.queue[a])
           /\ Excess(p, rank, a) # Cardinality(p.queue[a])
                => Total(p.queue) - GlobalQueue - Before(p, rank, a) <= Excess(p, rank, a)
<1>1. a \in Addrs /\ DOMAIN rank \subseteq Addrs /\ p.queue \in [Addrs -> SUBSET Txs]
  BY DEF Orders, Good, Sound, Shaped
<1>2. Cardinality(p.queue[a]) \in Nat
  BY <1>1, TxsSize
<1>3. ASSUME NEW A \in SUBSET Addrs PROVE TotalOf(p.queue, A) \in Nat
  <2>1. UNION {p.queue[b] : b \in A} \in SUBSET Txs
    BY <1>1
  <2>. QED
    BY <2>1, TxsSize DEF TotalOf
<1>4. Before(p, rank, a) \in Nat /\ Total(p.queue) \in Nat
  BY <1>1, <1>3 DEF Before, Total
<1>. DEFINE z == Total(p.queue) - GlobalQueue - Before(p, rank, a)
            m == Max({0, z})
<1>5. z \in Int
  BY <1>4, ConfigAssumption
<1>. HIDE DEF z
<1>6. m \in Nat /\ z <= m
  BY <1>5, MaxWithZero
<1>. HIDE DEF m
<1>7. Excess(p, rank, a) = Min({Cardinality(p.queue[a]), m})
  BY DEF Excess, m, z
<1>8. /\ Excess(p, rank, a) \in {Cardinality(p.queue[a]), m}
      /\ Excess(p, rank, a) <= Cardinality(p.queue[a])
  BY <1>2, <1>6, <1>7, MinOfTwo
<1>. QED
  BY <1>2, <1>4, <1>6, <1>8 DEF z

\* truncateQueue keeps its limit: the first account in its order that keeps something
\* has given up what those before it have not.
LEMMA TruncateQueueLimits ==
    ASSUME NEW p, Good(p), NEW rank \in Orders(p), NEW q, q = TruncateQueue(p, rank)
    PROVE  /\ \A a \in Addrs : q.pending[a] = p.pending[a]
           /\ \/ Total(q.queue) <= GlobalQueue
              \/ \A a \in Addrs \ locals : q.queue[a] = {}
<1>. DEFINE drop == Total(p.queue) - GlobalQueue
            S == DOMAIN rank
            D == Takes(p, rank)
            U == UNION {p.queue[a] : a \in Addrs}
            size(a) == Cardinality(p.queue[a])
            keeps(a) == Leaves(p, rank, a)
            excess(a) == Excess(p, rank, a)
<1>1. /\ p.queue \in [Addrs -> SUBSET Txs] /\ Distinct(p.pending, p.queue) /\ Sound(p)
      /\ S \subseteq Addrs /\ S = {a \in Addrs \ locals : p.queue[a] # {}}
      /\ rank \in [S -> 1..Cardinality(S)]
  BY DEF Orders, Good, Sound, Shaped
<1>2. Total(p.queue) = Cardinality(U) /\ U \in SUBSET Txs /\ Cardinality(U) \in Nat /\ GlobalQueue \in Nat
  <2>1. U \in SUBSET Txs
    BY <1>1
  <2>. QED
    BY <2>1, TxsSize, ConfigAssumption DEF Total, TotalOf
<1>3. CASE drop <= 0
  <2>1. q = p
    BY <1>3, TruncateQueueIs
  <2>. QED
    BY <1>2, <1>3, <2>1
<1>4. CASE ~(drop <= 0)
  <2>1. q = RemoveTxs(p, D, {})
    BY <1>4, TruncateQueueIs
  <2>2. D \subseteq U
    BY <1>1 DEF Takes
  <2>3. \A a \in Addrs : q.pending[a] = p.pending[a] /\ q.queue[a] = p.queue[a] \ D
    <3>. HIDE DEF D
    <3>. QED
      BY <2>1, <2>2, RemoveQueued
  <2>4. ASSUME NEW a \in S
        PROVE  p.queue[a] \ keeps(a) \subseteq D /\ keeps(a) \subseteq p.queue[a]
    BY DEF Takes, Leaves, Capped
  <2>5. ASSUME NEW a \in S, excess(a) = size(a)
        PROVE  p.queue[a] \subseteq D
    <3>1. size(a) - excess(a) = 0
      BY <2>5, ExcessSize
    <3>2. keeps(a) = Capped(p.queue[a], 0)
      BY <3>1 DEF Leaves
    <3>3. Capped(p.queue[a], 0) = {}
      <4>1. ASSUME NEW t \in p.queue[a]
            PROVE  ~(Cardinality({u \in p.queue[a] : u.nonce < t.nonce}) < 0)
        <5>1. {u \in p.queue[a] : u.nonce < t.nonce} \in SUBSET Txs
          BY <1>1
        <5>2. Cardinality({u \in p.queue[a] : u.nonce < t.nonce}) \in Nat
          BY <5>1, TxsSize
        <5>. QED
          BY <5>2
      <4>. QED
        BY <4>1 DEF Capped
    <3>. QED
      BY <2>4, <3>2, <3>3
  <2>6. CASE \A a \in S : excess(a) = size(a)
    <3>1. ASSUME NEW a \in Addrs \ locals PROVE q.queue[a] = {}
      BY <1>1, <2>3, <2>5, <2>6
    <3>. QED
      BY <2>3, <3>1
  <2>7. CASE \E a \in S : excess(a) # size(a)
    <3>. DEFINE T == {rank[a] : a \in {b \in S : excess(b) # size(b)}}
    <3>1. T \in SUBSET Nat /\ T # {}
      <4>1. \A a \in S : rank[a] \in 1..Cardinality(S)
        BY <1>1
      <4>2. \A a \in S : rank[a] \in Nat
        BY <4>1
      <4>. QED
        BY <2>7, <4>2
    <3>2. PICK n \in T : \A m \in T : n <= m
      BY <3>1, LeastNat
    <3>3. PICK a \in S : excess(a) # size(a) /\ rank[a] = n
      BY <3>2
    <3>. DEFINE F == {b \in S : rank[b] < rank[a]}
                B == UNION {p.queue[b] : b \in F}
                E == p.queue[a] \ keeps(a)
    <3>4. ASSUME NEW b \in F PROVE excess(b) = size(b)
      <4>1. SUFFICES ASSUME excess(b) # size(b) PROVE FALSE
        OBVIOUS
      <4>2. rank[b] \in T /\ rank[b] < n
        BY <3>3, <4>1
      <4>. HIDE DEF T, F, excess, size
      <4>3. n \in Nat /\ rank[b] \in Nat
        BY <3>1, <4>2
      <4>4. n <= rank[b]
        BY <3>2, <4>2
      <4>. QED
        BY <4>2, <4>3, <4>4
    <3>5. B \subseteq D
      BY <2>5, <3>4
    <3>6. E \subseteq D
      BY <2>4
    <3>7. B \cap E = {}
      <4>1. \A b \in F : b \in Addrs /\ b # a
        <5>1. rank[a] \in Nat
          BY <3>1, <3>2, <3>3
        <5>. QED
          BY <1>1, <5>1
      <4>2. a \in Addrs
        BY <1>1
      <4>. QED
        BY <1>1, <4>1, <4>2 DEF Distinct
    <3>8. Cardinality(E) \in Nat /\ excess(a) <= Cardinality(E)
      <4>1. keeps(a) \in SUBSET p.queue[a] /\ p.queue[a] \in SUBSET Txs
        BY <1>1, <2>4
      <4>2. Cardinality(E) \in Nat /\ Cardinality(E) = size(a) - Cardinality(keeps(a))
            /\ Cardinality(keeps(a)) \in Nat
        <5>. HIDE DEF keeps
        <5>. QED
          BY <4>1, TxsSize
      <4>3. excess(a) \in Nat /\ size(a) \in Nat /\ excess(a) <= size(a)
        BY ExcessSize
      <4>4. Cardinality(keeps(a)) <= size(a) - excess(a)
        <5>. DEFINE L == p.queue[a]
                    k == size(a) - excess(a)
        <5>1. k \in Nat
          BY <4>3
        <5>2. L \in SUBSET Txs /\ \A t, u \in L : t.nonce = u.nonce => t = u
          BY <1>1 DEF Distinct
        <5>3. keeps(a) = Capped(L, k)
          BY DEF Leaves
        <5>. HIDE DEF L, k, keeps
        <5>4. Cardinality(keeps(a)) <= k
          BY <5>1, <5>2, <5>3, CappedAtMost
        <5>. QED
          BY <5>4 DEF k
      <4>. HIDE DEF E, keeps, size, excess
      <4>. QED
        BY <4>2, <4>3, <4>4
    <3>9. /\ Cardinality(B) = Before(p, rank, a) /\ Before(p, rank, a) \in Nat
          /\ drop - Before(p, rank, a) <= excess(a) /\ excess(a) \in Nat
      BY <3>3, ExcessSize DEF Before, TotalOf
    <3>10. Cardinality(B) + Cardinality(E) <= Cardinality(D) /\ Cardinality(D) \in Nat
      <4>1. D \in SUBSET Txs
        BY <1>2, <2>2
      <4>. HIDE DEF B, E, D
      <4>2. Cardinality(B) = Cardinality(D) - Cardinality(D \ B) /\ Cardinality(D) \in Nat
            /\ Cardinality(D \ B) \in Nat
        BY <3>5, <4>1, TxsSize
      <4>3. E \in SUBSET (D \ B) /\ D \ B \in SUBSET Txs
        BY <3>6, <3>7, <4>1
      <4>4. Cardinality(E) <= Cardinality(D \ B)
        BY <4>3, TxsSize
      <4>. QED
        BY <3>8, <4>2, <4>4
    <3>11. Total(q.queue) = Cardinality(U \ D)
      <4>1. UNION {q.queue[b] : b \in Addrs} = U \ D
        BY <2>3
      <4>. QED
        BY <4>1 DEF Total, TotalOf
    <3>12. Cardinality(U \ D) = Cardinality(U) - Cardinality(D)
      <4>. HIDE DEF U, D
      <4>. QED
        BY <1>2, <2>2, TxsSize
    <3>. HIDE DEF U, D, B, E, F, excess
    <3>13. Total(q.queue) <= GlobalQueue
      BY <1>2, <3>8, <3>9, <3>10, <3>11, <3>12
    <3>. QED
      BY <2>3, <3>13
  <2>. QED
    BY <2>6, <2>7
<1>. QED
  BY <1>3, <1>4

\* The limits of both lists after a run, and what the trimming leaves each account.
Limited(q) ==
    /\ \/ Total(q.pending) <= GlobalSlots
       \/ \A a \in Addrs \ locals : Cardinality(q.pending[a]) <= AccountSlots
    /\ \/ Total(q.queue) <= GlobalQueue
       \/ \A a \in Addrs \ locals : q.queue[a] = {}

LEMMA TrimLimits ==
    ASSUME NEW p, Good(p), Trim(p)
    PROVE  /\ Limited(pool')
           /\ \A a \in Addrs : Cardinality(pool'.pending[a])
                                  >= Min({Cardinality(p.pending[a]), AccountSlots})
<1>. DEFINE q == TruncatePending(p)
<1>1. Good(q)
  BY TruncatePendingHolds
<1>2. /\ \/ Total(q.pending) <= GlobalSlots
         \/ \A a \in Addrs \ locals : Cardinality(q.pending[a]) <= AccountSlots
      /\ \A a \in Addrs : Cardinality(q.pending[a])
                             >= Min({Cardinality(p.pending[a]), AccountSlots})
  BY TruncatePendingLimits
<1>3. PICK rank \in Orders(q) : pool' = TruncateQueue(q, rank)
  BY Zenon DEF Trim
<1>. HIDE DEF q
<1>4. /\ \A a \in Addrs : pool'.pending[a] = q.pending[a]
      /\ \/ Total(pool'.queue) <= GlobalQueue
         \/ \A a \in Addrs \ locals : pool'.queue[a] = {}
  BY <1>1, <1>3, TruncateQueueLimits
<1>5. Total(pool'.pending) = Total(q.pending)
  BY <1>4 DEF Total, TotalOf
<1>. QED
  BY <1>2, <1>4, <1>5 DEF Limited

\* What RunKeepsLimits says of a step.
KeepsLimits ==
    /\ \A A \in SUBSET Addrs : RunPromotes(A) \/ RunResets(A) =>
            /\ \/ Total(pool'.pending) <= GlobalSlots
               \/ \A a \in Addrs \ locals : Cardinality(pool'.pending[a]) <= AccountSlots
            /\ \/ Total(pool'.queue) <= GlobalQueue
               \/ \A a \in Addrs \ locals : pool'.queue[a] = {}
    /\ \A A \in SUBSET Addrs : RunPromotes(A) =>
            \A a \in Addrs : Cardinality(pool'.pending[a])
                                >= Min({Cardinality(pool.pending[a]), AccountSlots})

LEMMA StepKeepsLimits == IInv => KeepsLimits
<1>. SUFFICES ASSUME Good(pool) PROVE KeepsLimits
  BY DEF IInv
<1>1. ASSUME NEW A \in SUBSET Addrs, RunPromotes(A)
      PROVE  /\ Limited(pool')
             /\ \A a \in Addrs : Cardinality(pool'.pending[a])
                                    >= Min({Cardinality(pool.pending[a]), AccountSlots})
  <2>. DEFINE p == Promote(pool, A)
  <2>1. Good(p) /\ Trim(p)
    BY <1>1, PromoteHolds DEF RunPromotes
  <2>2. PICK R \in [Addrs -> SUBSET Txs] : \A a \in Addrs : p.pending[a] = pool.pending[a] \cup R[a]
    BY PromoteFields
  <2>. HIDE DEF p
  <2>3. /\ Limited(pool')
        /\ \A a \in Addrs : Cardinality(pool'.pending[a])
                               >= Min({Cardinality(p.pending[a]), AccountSlots})
    BY <2>1, TrimLimits
  <2>4. ASSUME NEW a \in Addrs
        PROVE  Cardinality(pool'.pending[a]) >= Min({Cardinality(pool.pending[a]), AccountSlots})
    <3>. DEFINE x == Cardinality(pool.pending[a])
                y == Cardinality(p.pending[a])
                z == Cardinality(pool'.pending[a])
    <3>1. p.pending[a] \in SUBSET Txs /\ pool.pending[a] \in SUBSET p.pending[a]
      BY <2>1, <2>2 DEF Good, Sound, Shaped
    <3>2. x \in Nat /\ y \in Nat /\ x <= y /\ AccountSlots \in Nat
      BY <3>1, TxsSize, ConfigAssumption
    <3>3. Good(pool')
      BY <2>1, TrimHolds
    <3>4. pool'.pending[a] \in SUBSET Txs
      BY <3>3 DEF Good, Sound, Shaped
    <3>5. z \in Nat
      BY <3>4, TxsSize
    <3>6. z >= Min({y, AccountSlots})
      BY <2>3
    <3>. HIDE DEF x, y, z
    <3>7. /\ Min({y, AccountSlots}) \in {y, AccountSlots}
          /\ Min({x, AccountSlots}) \in {x, AccountSlots}
          /\ Min({x, AccountSlots}) <= x /\ Min({x, AccountSlots}) <= AccountSlots
      BY <3>2, MinOfTwo
    <3>8. z >= Min({x, AccountSlots})
      BY <3>2, <3>5, <3>6, <3>7
    <3>. QED
      BY <3>8 DEF x, z
  <2>. QED
    BY <2>3, <2>4
<1>2. ASSUME NEW A \in SUBSET Addrs, RunResets(A)
      PROVE  Limited(pool')
  <2>1. Good(SetAll(Demote(Promote(pool, Addrs))))
    BY PromoteHolds, DemoteHolds, SetAllHolds
  <2>. QED
    BY <1>2, <2>1, TrimLimits DEF RunResets
<1>. QED
  BY <1>1, <1>2 DEF KeepsLimits, Limited

\* Whatever the order of the heartbeats and the shape of the lists, a run ends with both
\* limits kept, or with nothing left to take from the accounts it may take from: and one
\* without a reset has taken no account below the slots it is guaranteed.
THEOREM RunKeepsLimitsAlways == Spec => RunKeepsLimits
<1>1. IInv => [KeepsLimits]_vars
  BY StepKeepsLimits
<1>. QED
  BY <1>1, InitHolds, StepHolds, PTL DEF Spec, RunKeepsLimits, KeepsLimits

-----------------------------------------------------------------------------
(* The transactions of local accounts                                       *)

\* From p to q a local account loses what is mined or what it cannot pay.
Spares(p, q) ==
    \A t \in p.all \ q.all : t.from \in locals =>
        t.nonce < chain.nonce[t.from] \/ t.price > chain.balance[t.from]

LEMMA SparesTwice ==
    ASSUME NEW p, NEW q, NEW r, Spares(p, q), Spares(q, r)
    PROVE  Spares(p, r)
  BY DEF Spares

LEMMA RemoveSpares ==
    ASSUME NEW p, Good(p), NEW D \in SUBSET p.all, \A t \in D : t.from \notin locals
    PROVE  Spares(p, RemoveTxs(p, D, {}))
<1>1. Sound(p) /\ Held(p, {})
  BY DEF Good
<1>2. RemoveTxs(p, D, {}).all = p.all \ D
  BY <1>1, RemoveHolds
<1>. QED
  BY <1>2 DEF Spares

\* What the state does not let stay is mined or unpayable.
LEMMA Unfit ==
    ASSUME chain \in Heads, NEW t \in Txs, NEW a \in Addrs,
           ~(t.nonce >= chain.nonce[a] /\ t.price <= chain.balance[a])
    PROVE  t.nonce < chain.nonce[a] \/ t.price > chain.balance[a]
<1>1. t.nonce \in Nat /\ t.price \in Nat /\ chain.nonce[a] \in Nat /\ chain.balance[a] \in Nat
  BY HeadsAssumption, TxsAssumption
<1>. QED
  BY <1>1

LEMMA PromoteSpares ==
    ASSUME NEW p, Good(p), chain \in Heads, NEW accounts \in SUBSET Addrs
    PROVE  Spares(p, Promote(p, accounts))
<1>. DEFINE Q == {a \in accounts : p.queue[a] # {}}
            kept == [a \in Q |-> {t \in p.queue[a] : /\ t.nonce >= chain.nonce[a]
                                                     /\ t.price <= chain.balance[a]}]
            ready == [a \in Q |-> Ready(kept[a], p.next[a])]
            in == [a \in Q |-> ready[a] \ Refused(p.pending[a], ready[a])]
            rest == [a \in Q |-> IF a \in locals THEN kept[a] \ ready[a]
                                 ELSE Capped(kept[a] \ ready[a], AccountQueue)]
            gone == UNION {p.queue[a] \ (in[a] \cup rest[a]) : a \in Q}
                    \cup UNION {Replaced(p.pending[a], ready[a]) : a \in Q}
            emptied == {a \in Q : rest[a] = {}}
            P2 == [a \in Addrs |-> IF a \in Q THEN Merged(p.pending[a], ready[a]) ELSE p.pending[a]]
            Q2 == [a \in Addrs |-> IF a \in Q THEN rest[a] ELSE p.queue[a]]
            N2 == [a \in Addrs |-> IF a \in Q /\ in[a] # {}
                                   THEN Max(Nonces(in[a])) + 1 ELSE p.next[a]]
            B2 == (p.beats \cup {a \in Q : in[a] # {}}) \ emptied
            r == [Forget(p, gone) EXCEPT !.pending = P2, !.queue = Q2, !.next = N2, !.beats = B2]
            q == Release(r, emptied)
<1>1. Promote(p, accounts) = q
  BY Zenon DEF Promote
<1>2. Sound(p) /\ Fielded(p)
  BY DEF Good, Sound, Shaped, Fielded
<1>3. ASSUME NEW a \in Q
      PROVE  /\ in[a] = ready[a] /\ Replaced(p.pending[a], ready[a]) = {}
             /\ \A t \in p.queue[a] \ (ready[a] \cup rest[a]) :
                   /\ t.from = a
                   /\ a \in locals => ~(t.nonce >= chain.nonce[a] /\ t.price <= chain.balance[a])
  <2>1. ready[a] \in SUBSET p.queue[a]
    BY DEF Ready
  <2>2. in[a] = ready[a] \ Refused(p.pending[a], ready[a])
    OBVIOUS
  <2>3. a \in locals => kept[a] \subseteq ready[a] \cup rest[a]
    OBVIOUS
  <2>4. \A t \in p.queue[a] : t.nonce >= chain.nonce[a] /\ t.price <= chain.balance[a] => t \in kept[a]
    OBVIOUS
  <2>. HIDE DEF kept, ready, in, rest
  <2>5. Refused(p.pending[a], ready[a]) = {} /\ Replaced(p.pending[a], ready[a]) = {}
    BY <1>2, <2>1, PromotesAll
  <2>. QED
    BY <1>2, <2>2, <2>3, <2>4, <2>5 DEF Sound, Distinct
<1>. HIDE DEF kept, ready, in, rest
<1>4. ASSUME NEW t \in gone, t.from \in locals
      PROVE  t.nonce < chain.nonce[t.from] \/ t.price > chain.balance[t.from]
  <2>1. PICK a \in Q : t \in p.queue[a] \ (ready[a] \cup rest[a])
    BY <1>3
  <2>2. t.from = a /\ t \in Txs /\ a \in Addrs
    BY <1>2, <1>3, <2>1 DEF Sound, Shaped
  <2>3. ~(t.nonce >= chain.nonce[a] /\ t.price <= chain.balance[a])
    BY <1>3, <1>4, <2>1, <2>2
  <2>. QED
    BY <2>2, <2>3, Unfit
<1>. HIDE DEF gone, emptied, P2, Q2, N2, B2
<1>5. q.all = p.all \ gone
  <2>1. Fielded(r) /\ r.all = p.all \ gone
    BY <1>2 DEF Forget, Fielded
  <2>. HIDE DEF r
  <2>. QED
    BY <2>1 DEF Release, Fielded
<1>. QED
  BY <1>1, <1>4, <1>5 DEF Spares

LEMMA DemoteSpares ==
    ASSUME NEW p, Good(p), chain \in Heads
    PROVE  Spares(p, Demote(p))
<1>. DEFINE fresh == [a \in Addrs |-> {t \in p.pending[a] : t.nonce >= chain.nonce[a]}]
            costly == [a \in Addrs |-> {t \in fresh[a] : t.price > chain.balance[a]}]
            front == [a \in Addrs |-> Below(fresh[a], Nonces(costly[a]))]
            stay == [a \in Addrs |-> IF chain.nonce[a] \in Nonces(front[a]) THEN front[a] ELSE {}]
            back == [a \in Addrs |-> fresh[a] \ (costly[a] \cup stay[a])]
            gone == UNION {(p.pending[a] \ fresh[a]) \cup costly[a] : a \in Addrs}
            emptied == {a \in Addrs : p.pending[a] # {} /\ stay[a] = {}}
            left == [Forget(p, gone) EXCEPT !.pending = stay]
            moved == Requeue(left, back)
            q == Release(moved, emptied)
<1>1. Demote(p) = q
  BY Zenon DEF Demote
<1>2. Sound(p) /\ p.pending \in [Addrs -> SUBSET Txs] /\ p.queue \in [Addrs -> SUBSET Txs]
  BY DEF Good, Sound, Shaped
<1>3. ASSUME NEW a \in Addrs
      PROVE  /\ back[a] \subseteq p.pending[a] /\ stay[a] \subseteq p.pending[a]
             /\ \A t \in (p.pending[a] \ fresh[a]) \cup costly[a] :
                   /\ t \in Txs /\ t.from = a
                   /\ ~(t.nonce >= chain.nonce[a] /\ t.price <= chain.balance[a])
  <2>1. /\ back[a] \subseteq fresh[a] /\ stay[a] \subseteq fresh[a] /\ fresh[a] \subseteq p.pending[a]
        /\ costly[a] \subseteq fresh[a]
    BY DEF Below
  <2>2. \A t \in p.pending[a] : t \notin fresh[a] => ~(t.nonce >= chain.nonce[a])
    OBVIOUS
  <2>3. \A t \in costly[a] : t.price > chain.balance[a]
    OBVIOUS
  <2>4. \A t \in p.pending[a] : /\ t \in Txs /\ t.from = a
                                /\ t.price \in Nat /\ chain.balance[a] \in Nat
    BY <1>2, HeadsAssumption, TxsAssumption DEF Sound, Distinct
  <2>. HIDE DEF fresh, costly, front, stay, back
  <2>. QED
    BY <2>1, <2>2, <2>3, <2>4
<1>4. gone = UNION {(p.pending[a] \ fresh[a]) \cup costly[a] : a \in Addrs}
  OBVIOUS
<1>5. stay \in [Addrs -> SUBSET Txs] /\ back \in [Addrs -> SUBSET Txs]
  <2>1. stay = [a \in Addrs |-> stay[a]] /\ back = [a \in Addrs |-> back[a]]
    OBVIOUS
  <2>. HIDE DEF fresh, costly, stay, back, gone
  <2>. QED
    BY <1>2, <1>3, <2>1
<1>. HIDE DEF fresh, costly, front, stay, back, gone, emptied
<1>6. /\ Shaped(left) /\ left.queue = p.queue /\ left.all = p.all \ gone
  BY <1>2, <1>5 DEF Forget, Sound, Shaped
<1>. HIDE DEF left
<1>7. \A a \in Addrs : \A t \in back[a] : \A u \in left.queue[a] : t.nonce # u.nonce
  BY <1>2, <1>3, <1>6 DEF Sound, Distinct
<1>8. Shaped(moved) /\ moved.all = left.all
  <2>. HIDE DEF moved
  <2>. QED
    BY <1>5, <1>6, <1>7, RequeueIs DEF moved
<1>. HIDE DEF moved
<1>9. q.all = p.all \ gone
  BY <1>6, <1>8 DEF Release, Shaped
<1>. HIDE DEF q
<1>10. ASSUME NEW t \in gone
       PROVE  t.nonce < chain.nonce[t.from] \/ t.price > chain.balance[t.from]
  <2>1. PICK a \in Addrs : t \in (p.pending[a] \ fresh[a]) \cup costly[a]
    BY <1>4, <1>10
  <2>. QED
    BY <1>3, <2>1, Unfit
<1>. QED
  BY <1>1, <1>9, <1>10 DEF Spares

LEMMA TruncatePendingSpares ==
    ASSUME NEW p, Good(p)
    PROVE  Spares(p, TruncatePending(p))
<1>. DEFINE spammers == {a \in Addrs \ locals : Cardinality(p.pending[a]) > AccountSlots}
            cutTo(n) == [a \in Addrs |-> IF a \in spammers THEN Capped(p.pending[a], n)
                                         ELSE p.pending[a]]
            fits == {n \in AccountSlots..MaxNonce + 1 : Total(cutTo(n)) <= GlobalSlots}
            level == IF fits = {} THEN AccountSlots ELSE Max(fits)
            stay == cutTo(level)
            N2 == [a \in Addrs |-> Min({p.next[a]} \cup Nonces(p.pending[a] \ stay[a]))]
            gone == UNION {p.pending[a] \ stay[a] : a \in Addrs}
            q == [Forget(p, gone) EXCEPT !.pending = stay, !.next = N2]
<1>1. CASE Total(p.pending) <= GlobalSlots
  BY <1>1 DEF TruncatePending, Spares
<1>2. CASE ~(Total(p.pending) <= GlobalSlots)
  <2>1. TruncatePending(p) = q
    BY <1>2, Zenon DEF TruncatePending
  <2>. HIDE DEF level
  <2>2. \A a \in Addrs : a \in locals => stay[a] = p.pending[a]
    OBVIOUS
  <2>3. gone = UNION {p.pending[a] \ stay[a] : a \in Addrs}
    OBVIOUS
  <2>. HIDE DEF stay, gone, N2
  <2>4. q.all = p.all \ gone
    BY DEF Forget, Good, Sound, Shaped
  <2>. HIDE DEF q
  <2>5. \A t \in gone : t.from \notin locals
    BY <2>2, <2>3 DEF Good, Sound, Distinct
  <2>. QED
    BY <2>1, <2>4, <2>5 DEF Spares
<1>. QED
  BY <1>1, <1>2

LEMMA TrimSpares ==
    ASSUME NEW p, Good(p), Trim(p)
    PROVE  Spares(p, pool')
<1>. DEFINE q == TruncatePending(p)
<1>1. Good(q) /\ Spares(p, q)
  BY TruncatePendingHolds, TruncatePendingSpares
<1>2. PICK rank \in Orders(q) : pool' = TruncateQueue(q, rank)
  BY Zenon DEF Trim
<1>. HIDE DEF q
<1>3. DOMAIN rank \subseteq Addrs \ locals
  BY DEF Orders
<1>. DEFINE taken(K) == UNION {q.queue[a] \ K[a] : a \in DOMAIN rank}
<1>4. pool' = q \/ \E K : pool' = RemoveTxs(q, taken(K), {})
  <2>. DEFINE drop == Total(q.queue) - GlobalQueue
              size(a) == Cardinality(q.queue[a])
              before(a) == TotalOf(q.queue, {b \in DOMAIN rank : rank[b] < rank[a]})
              excess(a) == Min({size(a), Max({0, drop - before(a)})})
              K == [a \in DOMAIN rank |-> Capped(q.queue[a], size(a) - excess(a))]
              D == UNION {q.queue[a] \ Capped(q.queue[a], size(a) - excess(a)) : a \in DOMAIN rank}
  <2>1. pool' = IF drop <= 0 THEN q ELSE RemoveTxs(q, D, {})
    BY <1>2, Zenon DEF TruncateQueue
  <2>. HIDE DEF excess, size, drop
  <2>2. D = taken(K)
    OBVIOUS
  <2>. HIDE DEF D, K, taken
  <2>. QED
    BY <2>1, <2>2
<1>5. ASSUME NEW K
      PROVE  Spares(q, RemoveTxs(q, taken(K), {}))
  <2>. DEFINE D == taken(K)
  <2>1. D \subseteq q.all /\ \A t \in D : t.from \notin locals
    BY <1>1, <1>3 DEF Good, Sound, AllOf, Distinct
  <2>. HIDE DEF D
  <2>2. Spares(q, RemoveTxs(q, D, {}))
    BY <1>1, <2>1, RemoveSpares
  <2>. QED
    BY <2>2 DEF D
<1>6. Spares(q, q)
  BY DEF Spares
<1>. HIDE DEF taken
<1>. QED
  BY <1>1, <1>4, <1>5, <1>6, SparesTwice

\* No remote transaction is of a local account.
Foreign == \A r \in pool.remote : r.from \notin locals

\* What an insertion leaves of the lookup.
LEMMA InsertKeeps ==
    ASSUME NEW q, Fielded(q), NEW t, NEW isLocal
    PROVE  LET n == Insert(q, t, isLocal) IN Fielded(n) /\ n.all = (q.all \ Rival(q, t)) \cup {t}
<1>. DEFINE f == Forget(q, Rival(q, t))
            X == IF isLocal THEN f.remote ELSE f.remote \cup {t}
            n == Insert(q, t, isLocal)
<1>1. Fielded(f) /\ f.all = q.all \ Rival(q, t)
  BY DEF Forget, Fielded
<1>2. PICK P, Q : n = Beat([f EXCEPT !.pending = P, !.queue = Q, !.all = @ \cup {t}, !.remote = X],
                           {t.from})
  <2>. DEFINE a == t.from
              with(L) == (L \ Rival(q, t)) \cup {t}
              P == [f.pending EXCEPT ![a] = IF InPlace(q, t) THEN with(@) ELSE @]
              Q == [f.queue EXCEPT ![a] = IF InPlace(q, t) THEN @ ELSE with(@)]
  <2>1. n = Beat([f EXCEPT !.pending = P, !.queue = Q, !.all = @ \cup {t}, !.remote = X], {a})
    BY <1>1 DEF Insert, Fielded
  <2>. QED
    BY <2>1
<1>. HIDE DEF f, n
<1>. DEFINE z == [f EXCEPT !.pending = P, !.queue = Q, !.all = @ \cup {t}, !.remote = X]
<1>3. Fielded(z) /\ z.all = f.all \cup {t}
  BY <1>1 DEF Fielded
<1>. HIDE DEF z
<1>4. Fielded(Beat(z, {t.from})) /\ Beat(z, {t.from}).all = z.all
  BY <1>3 DEF Beat, Fielded
<1>5. n = Beat(z, {t.from})
  BY <1>2 DEF z
<1>. QED
  BY <1>1, <1>3, <1>4, <1>5 DEF n

\* What is discarded for a new transaction is remote, and what it replaces is outbid;
\* an account that becomes local takes its transactions from the remote ones.
LEMMA AddingSpares ==
    ASSUME Foreign, Good(pool), NEW t \in Txs, NEW local \in BOOLEAN,
           NEW r \in Adding(pool, t, local)
    PROVE  /\ \A u \in pool.all \ r.pool.all : u.from \in locals =>
                 \E v \in r.pool.all : v.from = u.from /\ v.nonce = u.nonce /\ Outbids(v, u)
           /\ \A x \in r.pool.remote : x.from \notin r.locals
<1>. DEFINE b == t.from
            isLocal == IsLocal(t, local)
            held == [pool EXCEPT !.reserved = @ \cup {b}]
<1>0. b \in Addrs /\ isLocal \in BOOLEAN /\ (~isLocal => b \notin locals /\ ~local)
  BY TxsAssumption DEF IsLocal
<1>1. PICK E : r = Outcome(pool, t, local, E)
  BY DEF Adding
<1>. DEFINE D == Victims(pool, E)
<1>2. /\ Fielded(held) /\ held.all = pool.all /\ held.remote = pool.remote
      /\ Sound(held) /\ Held(held, {b})
  <2>1. /\ Shaped(held) /\ Fielded(held) /\ held.pending = pool.pending /\ held.queue = pool.queue
        /\ held.all = pool.all /\ held.remote = pool.remote /\ held.beats = pool.beats
        /\ held.reserved = pool.reserved \cup {b}
    BY <1>0 DEF Good, Sound, Shaped, Fielded
  <2>. HIDE DEF held
  <2>2. Sound(held)
    BY <2>1 DEF Good, Sound
  <2>3. \A a : Listed(held, a) <=> Listed(pool, a)
    BY <2>1 DEF Listed
  <2>. QED
    BY <2>1, <2>2, <2>3 DEF Good, Held
<1>3. D \subseteq pool.remote /\ pool.remote \subseteq pool.all
  BY DEF Victims, Live, Good, Sound
<1>. DEFINE q == RemoveTxs(held, D, {b})
            n == Insert(q, t, isLocal)
            marked == LocalsWith(q, t, local)
            m == Migrated(n, marked)
<1>4. /\ r.pool = IF Accepted(q, t) THEN m
                  ELSE IF Listed(pool, b) THEN q ELSE [q EXCEPT !.reserved = @ \ {b}]
      /\ r.locals = IF Accepted(q, t) THEN marked ELSE locals
  BY <1>1 DEF Outcome
<1>. HIDE DEF held, isLocal, D
<1>5. Fielded(q) /\ q.remote \subseteq pool.remote
  BY <1>2, RemoveShrinks DEF Shrunk
<1>6. Sound(q) /\ q.all = pool.all \ D
  <2>1. D \in SUBSET held.all
    BY <1>2, <1>3
  <2>2. Sound(q) /\ q.all = held.all \ D
    BY <1>2, <2>1, RemoveHolds
  <2>. QED
    BY <1>2, <2>2
<1>7. \A u \in pool.all : u.from \in locals => u \in q.all
  BY <1>3, <1>6 DEF Foreign
<1>. HIDE DEF q
<1>8. CASE ~Accepted(q, t)
  <2>1. r.pool.all = q.all /\ r.pool.remote = q.remote /\ r.locals = locals
    BY <1>4, <1>5, <1>8 DEF Fielded
  <2>. QED
    BY <1>5, <1>7, <2>1 DEF Foreign
<1>9. CASE Accepted(q, t)
  <2>1. /\ Fielded(n) /\ n.all = (q.all \ Rival(q, t)) \cup {t}
        /\ n.remote \subseteq IF isLocal THEN q.remote ELSE q.remote \cup {t}
    BY <1>0, <1>5, InsertKeeps, InsertAdds
  <2>. HIDE DEF n
  <2>2. /\ m.all = n.all
        /\ m.remote = IF marked = locals THEN n.remote ELSE {x \in n.remote : x.from \notin marked}
    BY <2>1 DEF Migrated, Fielded
  <2>. HIDE DEF m, marked
  <2>3. \A u \in Rival(q, t) : u.from = b /\ u.nonce = t.nonce /\ Outbids(t, u)
    BY <1>0, <1>6, <1>9 DEF Accepted, Rival, Sound, Distinct
  <2>4. ASSUME NEW u \in pool.all \ m.all, u.from \in locals
        PROVE  \E v \in m.all : v.from = u.from /\ v.nonce = u.nonce /\ Outbids(v, u)
    <3>1. u \in Rival(q, t) /\ t \in m.all
      BY <1>7, <2>1, <2>2, <2>4
    <3>. QED
      BY <2>3, <3>1
  <2>5. ASSUME NEW x \in m.remote
        PROVE  x.from \notin marked
    BY <1>0, <1>5, <2>1, <2>2, <2>5 DEF Foreign
  <2>. QED
    BY <1>4, <1>9, <2>4, <2>5
<1>. QED
  BY <1>8, <1>9

\* One of them leaves for no other reason than that it is mined, or unpayable, or outbid.
Kept ==
    \A t \in pool.all \ pool'.all : t.from \in locals =>
        \/ t.nonce < chain'.nonce[t.from]
        \/ t.price > chain'.balance[t.from]
        \/ \E u \in pool'.all : u.from = t.from /\ u.nonce = t.nonce /\ Outbids(u, t)

LEMMA RunsSpare ==
    ASSUME Good(pool), chain \in Heads, NEW A \in SUBSET Addrs, RunPromotes(A) \/ RunResets(A)
    PROVE  Spares(pool, pool')
<1>1. CASE RunPromotes(A)
  <2>. DEFINE p1 == Promote(pool, A)
  <2>1. Good(p1) /\ Spares(pool, p1) /\ Trim(p1)
    BY <1>1, PromoteHolds, PromoteSpares DEF RunPromotes
  <2>. HIDE DEF p1
  <2>. QED
    BY <2>1, TrimSpares, SparesTwice
<1>2. CASE RunResets(A)
  <2>. DEFINE p1 == Promote(pool, Addrs)
              p2 == Demote(p1)
              p3 == SetAll(p2)
  <2>1. Good(p1) /\ Spares(pool, p1) /\ Trim(p3)
    BY <1>2, PromoteHolds, PromoteSpares DEF RunResets
  <2>. HIDE DEF p1
  <2>2. Good(p2) /\ Spares(p1, p2)
    BY <2>1, DemoteHolds, DemoteSpares
  <2>. HIDE DEF p2
  <2>3. Good(p3) /\ Spares(p2, p3)
    BY <2>2, SetAllHolds DEF SetAll, Spares, Good, Sound, Shaped
  <2>. HIDE DEF p3
  <2>4. Spares(p3, pool')
    BY <2>1, <2>3, TrimSpares
  <2>. QED
    BY <2>1, <2>2, <2>3, <2>4, SparesTwice
<1>. QED
  BY <1>1, <1>2

LEMMA StepKeeps == IInv /\ PendingInv /\ Foreign /\ [Next]_vars => Foreign' /\ Kept
<1>. SUFFICES ASSUME IInv, PendingInv, Foreign, [Next]_vars PROVE Foreign' /\ Kept
  OBVIOUS
<1>0. Good(pool) /\ Fielded(pool) /\ chain \in Heads /\ pool.remote \subseteq pool.all
  BY DEF IInv, PendingInv, Good, Sound, Shaped, Fielded
<1>1. ASSUME Spares(pool, pool'), Shrunk(pool, pool'), UNCHANGED <<chain, locals>>
      PROVE  Foreign' /\ Kept
  BY <1>1 DEF Spares, Shrunk, Foreign, Kept
<1>2. ASSUME NEW t \in Txs, NEW local \in BOOLEAN, NEW r \in Adding(pool, t, local),
             pool' = r.pool, locals' = r.locals
      PROVE  Foreign' /\ Kept
  BY <1>0, <1>2, AddingSpares DEF Foreign, Kept
<1>7. ASSUME pool'.all = pool.all, pool'.remote = pool.remote, locals' = locals
      PROVE  Foreign' /\ Kept
  BY <1>7 DEF Foreign, Kept
<1>3. ASSUME NEW t \in Txs, NEW local \in BOOLEAN, Add(t, local) PROVE Foreign' /\ Kept
  BY <1>2, <1>3, <1>7 DEF Add, TurnedAway
<1>4. ASSUME NEW tip, SetGasTip(tip) PROVE Foreign' /\ Kept
  <2>. DEFINE D == {t \in pool.remote : t.price < tip}
  <2>1. D \in SUBSET pool.all /\ \A t \in D : t.from \notin locals
    BY <1>0 DEF Foreign
  <2>2. pool' = RemoveTxs(pool, D, {}) /\ UNCHANGED <<chain, locals>>
    BY <1>4 DEF SetGasTip
  <2>. HIDE DEF D
  <2>. QED
    BY <1>0, <1>1, <2>1, <2>2, RemoveSpares, RemoveShrinks
<1>5. ASSUME NEW A \in SUBSET Addrs, Evict(A) PROVE Foreign' /\ Kept
  <2>. DEFINE D == UNION {pool.queue[a] : a \in A}
  <2>1. D \in SUBSET pool.all /\ \A t \in D : t.from \notin locals
    BY <1>0, <1>5 DEF Evict, Good, Sound, AllOf, Distinct
  <2>2. pool' = RemoveTxs(pool, D, {}) /\ UNCHANGED <<chain, locals>>
    BY <1>5 DEF Evict
  <2>. HIDE DEF D
  <2>. QED
    BY <1>0, <1>1, <2>1, <2>2, RemoveSpares, RemoveShrinks
<1>6. ASSUME NEW A \in SUBSET Addrs, RunPromotes(A) \/ RunResets(A) PROVE Foreign' /\ Kept
  <2>1. UNCHANGED <<chain, locals>>
    BY <1>6 DEF RunPromotes, RunResets
  <2>. QED
    BY <1>0, <1>1, <1>6, <2>1, RunsSpare, RunsShrink
<1>8. ASSUME NEW head, NEW back, Reset(head, back) PROVE Foreign' /\ Kept
  BY <1>0, <1>7, <1>8 DEF Reset, Fielded
<1>9. ASSUME ResetFails \/ UNCHANGED vars PROVE Foreign' /\ Kept
  BY <1>7, <1>9 DEF ResetFails, vars
<1>10. ASSUME NEW t \in Txs, Reinject(t) PROVE Foreign' /\ Kept
  BY <1>2, <1>7, <1>10 DEF Reinject, TurnedAway
<1>. QED
  BY <1>3, <1>4, <1>5, <1>6, <1>8, <1>9, <1>10 DEF Next

\* Neither a raised tip, nor the eviction, nor the limits, nor the room made for another
\* takes a transaction of a local account: all of them choose among the remote ones or
\* among other accounts, and no remote one is of a local account, as add sees to.
THEOREM LocalsKeptAlways == Spec => LocalsKept
<1>1. Init => Foreign
  BY DEF Init, Foreign
<1>2. IInv /\ PendingInv /\ Foreign /\ [Next]_vars => [Kept]_vars
  BY StepKeeps
<1>. QED
  BY <1>1, <1>2, InitContiguous, InitHolds, StepHolds, StepContiguous, StepKeeps, PTL
     DEF Spec, LocalsKept, Kept
=============================================================================
