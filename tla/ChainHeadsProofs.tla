-------------------------- MODULE ChainHeadsProofs --------------------------
(***************************************************************************)
(* Proofs about ChainHeads: one reset at a time follows the subpool, and   *)
(* no received head is left waiting, for a stream of any length.           *)
(*                                                                         *)
(* The busy token says whether a reset goroutine exists, the goroutine     *)
(* carries the head the loop recorded, and as long as none has failed the  *)
(* subpool is at one of the two heads of the goroutine, by its progress.   *)
(***************************************************************************)
EXTENDS ChainHeads, FiniteSetTheorems, TLAPS

\* The inductive invariant.
OneReset ==
    \/ resets = {} /\ ~busy /\ newHead = oldHead /\ (~strayed => poolHead = oldHead)
    \/ \E r \in Resetting :
        /\ resets = {r} /\ busy /\ r.old = oldHead
        /\ ~strayed => poolHead = (IF r.at = "reset" THEN r.old ELSE r.new)

IInv == TypeOK /\ OneReset

\* Init establishes the invariant.
LEMMA InitInv == Init => IInv
<1>1. 0 \in Heads
  BY HeadsAssumption DEF Heads
<1> QED BY <1>1 DEF Init, IInv, TypeOK, OneReset

\* The end of a loop iteration that leaves no reset running keeps the invariant,
\* whether or not it starts one.
LEMMA LaunchKeeps ==
    ASSUME TypeOK, NEW old \in Heads, NEW new \in Heads,
           Launch(old, new, FALSE, {}), ~strayed => poolHead = old,
           UNCHANGED <<poolHead, strayed>>
    PROVE  OneReset' /\ resets' \subseteq Resetting /\ busy' \in BOOLEAN
<1>1. CASE new = old
  BY <1>1 DEF Launch, OneReset
<1>2. CASE new # old
  <2> DEFINE r == [old |-> old, new |-> new, at |-> "reset"]
  <2>1. r \in Resetting /\ r.old = old /\ r.at = "reset"
    BY DEF Resetting
  <2>2. resets' = {r} /\ busy' = TRUE /\ oldHead' = old
    BY <1>2 DEF Launch
  <2> HIDE DEF r
  <2> QED BY <2>1, <2>2 DEF OneReset
<1> QED BY <1>1, <1>2

\* Every step keeps the invariant.
LEMMA NextInv == IInv /\ [Next]_vars => IInv'
<1> SUFFICES ASSUME IInv, [Next]_vars PROVE IInv'
  OBVIOUS
<1> USE DEF IInv
<1>1. CASE Backend \/ Close \/ LoopStarts \/ Quit
  <2>1. UNCHANGED <<oldHead, newHead, busy, resets, poolHead, strayed>>
    BY <1>1 DEF Backend, HeadArrives, StreamFails, BlockRead, BlockMissing, SendUnheard,
       Close, LoopStarts, Quit, txpool
  <2>2. OneReset'
    BY <2>1 DEF OneReset
  <2>3. lastHead' \in Heads /\ loading' \subseteq Heads /\ sending' \subseteq Heads
    <3>1. CASE HeadArrives
      <4>1. lastHead + 1 \in Heads
        BY <3>1, HeadsAssumption DEF HeadArrives, TypeOK, Heads
      <4> QED BY <3>1, <4>1 DEF HeadArrives, TypeOK
    <3> QED BY <1>1, <3>1 DEF Backend, StreamFails, BlockRead, BlockMissing, SendUnheard,
              Close, LoopStarts, Quit, TypeOK, backend
  <2>4. /\ stream' \in {"open", "failed"} /\ loop' \in {"starting", "running", "stopped"}
        /\ closer' \in {"none", "asking", "answered"}
    BY <1>1 DEF Backend, HeadArrives, StreamFails, BlockRead, BlockMissing, SendUnheard,
       Close, LoopStarts, Quit, TypeOK, backend, txpool
  <2> QED BY <2>1, <2>2, <2>3, <2>4 DEF TypeOK
<1>2. ASSUME NEW h \in Heads, HeadReceived(h) PROVE IInv'
  <2>1. /\ Launch(oldHead, h, busy, resets) /\ sending' = sending \ {h}
        /\ UNCHANGED <<lastHead, stream, loading, loop, poolHead, strayed, closer>>
        /\ oldHead' = oldHead /\ newHead' = h
    BY <1>2 DEF HeadReceived, Launch, backend
  <2>2. CASE resets = {} /\ busy = FALSE
    <3>1. OneReset' /\ resets' \subseteq Resetting /\ busy' \in BOOLEAN
      BY <2>1, <2>2, LaunchKeeps DEF TypeOK, OneReset
    <3> QED BY <2>1, <3>1 DEF TypeOK
  <2>3. CASE resets # {}
    <3>1. busy /\ resets' = resets /\ busy' = TRUE
      BY <2>1, <2>3 DEF OneReset, Launch
    <3> QED BY <2>1, <2>3, <3>1 DEF TypeOK, OneReset
  <2> QED BY <2>2, <2>3 DEF OneReset, TypeOK
<1>3. ASSUME NEW r \in resets, ResetNoticed(r) PROVE IInv'
  <2>1. resets = {r} /\ r \in Resetting /\ r.at = "done" /\ (~strayed => poolHead = r.new)
    BY <1>3 DEF OneReset, ResetNoticed
  <2>2. /\ Launch(r.new, newHead, FALSE, {})
        /\ UNCHANGED <<lastHead, stream, loading, sending, loop, poolHead, strayed, closer>>
    BY <1>3, <2>1 DEF ResetNoticed, backend
  <2>3. r.new \in Heads /\ newHead \in Heads
    BY <2>1 DEF Resetting, TypeOK
  <2>4. OneReset' /\ resets' \subseteq Resetting /\ busy' \in BOOLEAN
    BY <2>1, <2>2, <2>3, LaunchKeeps
  <2>5. oldHead' = r.new /\ newHead' = newHead
    BY <2>2 DEF Launch
  <2> QED BY <2>2, <2>3, <2>4, <2>5 DEF TypeOK
<1>4. ASSUME NEW r \in resets, ResetEnds(r) PROVE IInv'
  <2> DEFINE s == [r EXCEPT !.at = "done"]
  <2>1. resets = {r} /\ r \in Resetting /\ r.at = "reset" /\ busy /\ r.old = oldHead
    BY <1>4 DEF OneReset, ResetEnds
  <2>2. s \in Resetting /\ s.at = "done" /\ s.old = r.old /\ s.new = r.new /\ r.new \in Heads
    BY <2>1 DEF Resetting
  <2>3. /\ resets' = {s}
        /\ strayed' \in BOOLEAN /\ poolHead' \in Heads
        /\ ~strayed' => poolHead' = s.new
        /\ UNCHANGED <<lastHead, stream, loading, sending, loop, oldHead, newHead, busy, closer>>
    BY <1>4, <2>1, <2>2 DEF ResetEnds, TypeOK, backend
  <2> HIDE DEF s
  <2> QED BY <2>1, <2>2, <2>3 DEF TypeOK, OneReset
<1>5. CASE UNCHANGED vars
  BY <1>5 DEF vars, backend, txpool, TypeOK, OneReset
<1> QED BY <1>1, <1>2, <1>3, <1>4, <1>5 DEF Next, Loop

\* The invariant holds in every behaviour.
THEOREM Invariant == Spec => []IInv
BY InitInv, NextInv, PTL DEF Spec

\* The variables keep their types, however long the stream of heads.
THEOREM TypeCorrect == Spec => []TypeOK
<1>1. IInv => TypeOK
  BY DEF IInv
<1> QED BY <1>1, Invariant, PTL

\* The subpool is reset by one goroutine at a time, from the head it is at.
THEOREM ResetsFollow == Spec => []ResetsFollowThePool
<1>1. IInv => ResetsFollowThePool
  <2> SUFFICES ASSUME IInv PROVE ResetsFollowThePool
    OBVIOUS
  <2>1. CASE resets = {}
    <3>1. Cardinality(resets) = 0
      BY <2>1, FS_EmptySet
    <3> QED BY <2>1, <3>1 DEF ResetsFollowThePool
  <2>2. CASE resets # {}
    <3>1. PICK r \in Resetting :
            /\ resets = {r} /\ r.old = oldHead
            /\ ~strayed => poolHead = (IF r.at = "reset" THEN r.old ELSE r.new)
      BY <2>2 DEF IInv, OneReset
    <3>2. Cardinality(resets) = 1
      BY <3>1, FS_Singleton
    <3> QED BY <3>1, <3>2 DEF ResetsFollowThePool
  <2> QED BY <2>1, <2>2
<1> QED BY <1>1, Invariant, PTL

\* A head received while a reset ran is reset to when the reset is over.
THEOREM NothingWaits == Spec => []NothingLeftWaiting
<1>1. IInv => NothingLeftWaiting
  BY DEF IInv, OneReset, NothingLeftWaiting
<1> QED BY <1>1, Invariant, PTL
=============================================================================
