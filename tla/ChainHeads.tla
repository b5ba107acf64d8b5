----------------------------- MODULE ChainHeads -----------------------------
(***************************************************************************)
(* How the head of the chain reaches the transaction pool: the backend     *)
(* follows the heads of a Geth node (updateLatestHeader, backend.go), a    *)
(* goroutine per head reads its block and sends it on chainHeadFeed, and   *)
(* the loop of the pool (txpool.go) starts a reset of the subpool for it.  *)
(*                                                                         *)
(* A head is its position in the stream of the node, 0 the head the        *)
(* program started from.  Bound: the stream has MaxHeads heads.            *)
(***************************************************************************)
EXTENDS Naturals, FiniteSets

CONSTANT MaxHeads

ASSUME HeadsAssumption == MaxHeads \in Nat

VARIABLES
    lastHead,   \* backend: the head it has seen last
    stream,     \* backend: whether its subscription lives
    loading,    \* heads whose goroutine reads the block
    sending,    \* heads whose goroutine is in chainHeadFeed.Send
    loop,       \* where TxPool.loop is
    oldHead,    \* loop: head of the last reset that ended
    newHead,    \* loop: head received last
    busy,       \* loop: the token in resetBusy
    resets,     \* the goroutines that reset the subpool
    poolHead,   \* subpool: its currentHead
    strayed,    \* history: the last reset failed, and left poolHead behind
    closer      \* the goroutine in Close

backend == <<lastHead, stream, loading>>
txpool  == <<loop, oldHead, newHead, busy, resets>>
vars    == <<backend, sending, txpool, poolHead, strayed, closer>>

Heads == 0..MaxHeads

\* A reset goroutine is in subpool.Reset, and then at resetDone.
Resetting == [old : Heads, new : Heads, at : {"reset", "done"}]

\* Slips a change to the code could make, each in the place of the definition it
\* is named after, to see that the properties notice.
SendUnheard_NoUnsubscribe(h) ==
    /\ h \in sending /\ loop = "starting"
    /\ sending' = sending \ {h}
    /\ UNCHANGED <<backend, txpool, poolHead, strayed, closer>>
Launch_Unguarded(old, new, token, running) ==
    /\ oldHead' = old /\ newHead' = new
    /\ busy' = (token \/ new # old)
    /\ resets' = IF new # old THEN running \cup {[old |-> old, new |-> new, at |-> "reset"]}
                              ELSE running
ResetNoticed_Stays(r) ==
    /\ loop = "running" /\ r \in resets /\ r.at = "done"
    /\ oldHead' = r.new
    /\ busy' = FALSE
    /\ resets' = resets \ {r}
    /\ UNCHANGED <<backend, sending, loop, newHead, poolHead, strayed, closer>>
Quit_Returns ==
    /\ loop = "running" /\ closer = "asking"
    /\ loop' = "stopped"
    /\ UNCHANGED <<backend, sending, oldHead, newHead, busy, resets, poolHead, strayed, closer>>

Init ==
    /\ lastHead = 0 /\ stream = "open" /\ loading = {} /\ sending = {}
    /\ loop = "starting" /\ oldHead = 0 /\ newHead = 0 /\ busy = FALSE /\ resets = {}
    /\ poolHead = 0 /\ strayed = FALSE
    /\ closer = "none"

-----------------------------------------------------------------------------
(* updateLatestHeader and its goroutines. *)
HeadArrives ==
    /\ stream = "open" /\ lastHead < MaxHeads
    /\ lastHead' = lastHead + 1
    /\ loading' = loading \cup {lastHead + 1}
    /\ UNCHANGED <<stream, sending, txpool, poolHead, strayed, closer>>

\* sub.Err: the backend stops following, and nothing subscribes again.
StreamFails ==
    /\ stream = "open"
    /\ stream' = "failed"
    /\ UNCHANGED <<lastHead, loading, sending, txpool, poolHead, strayed, closer>>

\* GetBlock answers, or logs its error and returns nil.
BlockRead(h) ==
    /\ h \in loading
    /\ loading' = loading \ {h}
    /\ sending' = sending \cup {h}
    /\ UNCHANGED <<lastHead, stream, txpool, poolHead, strayed, closer>>

BlockMissing(h) ==
    /\ h \in loading
    /\ loading' = loading \ {h}
    /\ UNCHANGED <<lastHead, stream, sending, txpool, poolHead, strayed, closer>>

\* Send reaches nobody before the loop subscribes and after it unsubscribes.
SendUnheard(h) ==
    /\ h \in sending /\ loop # "running"
    /\ sending' = sending \ {h}
    /\ UNCHANGED <<backend, txpool, poolHead, strayed, closer>>

-----------------------------------------------------------------------------
(* TxPool.loop. *)

\* The head of the loop, reached after every case: a reset is started when the
\* heads differ and the busy token can be put in its channel.
Launch(old, new, token, running) ==
    /\ oldHead' = old /\ newHead' = new
    /\ busy' = (token \/ new # old)
    /\ resets' = IF new # old /\ ~token
                 THEN running \cup {[old |-> old, new |-> new, at |-> "reset"]}
                 ELSE running

LoopStarts ==
    /\ loop = "starting"
    /\ loop' = "running"
    /\ UNCHANGED <<backend, sending, oldHead, newHead, busy, resets, poolHead, strayed, closer>>

\* case event := <-newHeadCh
HeadReceived(h) ==
    /\ loop = "running" /\ h \in sending
    /\ sending' = sending \ {h}
    /\ Launch(oldHead, h, busy, resets)
    /\ UNCHANGED <<backend, loop, poolHead, strayed, closer>>

\* case head := <-resetDone
ResetNoticed(r) ==
    /\ loop = "running" /\ r \in resets /\ r.at = "done"
    /\ Launch(r.new, newHead, FALSE, resets \ {r})
    /\ UNCHANGED <<backend, sending, loop, poolHead, strayed, closer>>

\* subpool.Reset returns, having moved the subpool to the new head, or not: when
\* a block or the state of the head cannot be had (legacypool.go, reset), or the
\* subpool was closed.
ResetEnds(r) ==
    /\ r \in resets /\ r.at = "reset"
    /\ resets' = (resets \ {r}) \cup {[r EXCEPT !.at = "done"]}
    /\ \/ poolHead' = r.new /\ strayed' = FALSE
       \/ poolHead' = poolHead /\ strayed' = TRUE
    /\ UNCHANGED <<backend, sending, loop, oldHead, newHead, busy, closer>>

\* Close, and the case errc = <-p.quit with the answer on errc and the deferred
\* unsubscription.  A reset that is going on is left to itself.
Close ==
    /\ closer = "none"
    /\ closer' = "asking"
    /\ UNCHANGED <<backend, sending, txpool, poolHead, strayed>>

Quit ==
    /\ loop = "running" /\ closer = "asking"
    /\ loop' = "stopped"
    /\ closer' = "answered"
    /\ UNCHANGED <<backend, sending, oldHead, newHead, busy, resets, poolHead, strayed>>

-----------------------------------------------------------------------------
Backend == HeadArrives \/ StreamFails \/ \E h \in Heads : BlockRead(h) \/ BlockMissing(h) \/ SendUnheard(h)

Loop == LoopStarts \/ Quit \/ (\E h \in Heads : HeadReceived(h)) \/ (\E r \in resets : ResetNoticed(r))

Next == Backend \/ Loop \/ Close \/ \E r \in resets : ResetEnds(r)

Spec == Init /\ [][Next]_vars

\* The goroutines run, a block request ends, a reset returns, and the loop's
\* select picks among its ready cases at random.
Fairness ==
    /\ WF_vars(LoopStarts) /\ WF_vars(Quit)
    /\ WF_vars(\E r \in resets : ResetNoticed(r)) /\ WF_vars(\E r \in resets : ResetEnds(r))
    /\ \A h \in 0..MaxHeads :
        WF_vars(BlockRead(h) \/ BlockMissing(h)) /\ WF_vars(HeadReceived(h) \/ SendUnheard(h))

FairSpec == Spec /\ Fairness

-----------------------------------------------------------------------------
\* Every variable has its type.
TypeOK ==
    /\ lastHead \in Heads /\ stream \in {"open", "failed"}
    /\ loading \subseteq Heads /\ sending \subseteq Heads
    /\ loop \in {"starting", "running", "stopped"}
    /\ oldHead \in Heads /\ newHead \in Heads
    /\ busy \in BOOLEAN /\ strayed \in BOOLEAN
    /\ resets \subseteq Resetting
    /\ poolHead \in Heads
    /\ closer \in {"none", "asking", "answered"}

\* The subpool is reset by one goroutine at a time, from the head it is at: the
\* transactions to put back are those between the two heads the loop gives, and
\* the loop never looks at the subpool.  A reset that failed breaks this until the next
\* one that succeeds.
ResetsFollowThePool ==
    /\ Cardinality(resets) <= 1
    /\ ~strayed => \A r \in resets : r.at = "reset" => r.old = poolHead

\* A head that was received while a reset ran is not forgotten: unless a reset
\* is under way, the loop has nothing to reset to.
NothingLeftWaiting == loop = "running" /\ resets = {} => newHead = oldHead

\* The pool settles on the head its loop received last, whatever resets failed before,
\* unless the reset to that one does.
PoolCatchesUp == <>[](loop = "stopped" \/ (resets = {} /\ (strayed \/ poolHead = newHead)))

\* No goroutine stays in Send for ever, and Close is answered.
SendsEnd == \A h \in 0..MaxHeads : h \in sending ~> h \notin sending
CloseAnswered == closer = "asking" ~> closer = "answered"

\* "Chain moved forward, store the head for later consumption": the loop never
\* goes back to a head older than one it has received.
HeadsMoveForward == [][newHead' >= newHead]_vars
=============================================================================
