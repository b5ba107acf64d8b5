------------------------------ MODULE TxFetcher ------------------------------
(***************************************************************************)
(* The announcement based transaction fetcher of                           *)
(* pkg/precog/core/network/fetcher/tx_fetcher.go.                          *)
(*                                                                         *)
(* One goroutine (loop) owns all the maps and handles, one at a time, an   *)
(* announcement, a delivery, a dropped peer, or one of two timers.  Each   *)
(* handler is one action.  Around it run one goroutine per request, which  *)
(* sends the request and reports a failure as a drop.                      *)
(*                                                                         *)
(* A Go map from hashes to sets of peers is a total function whose value   *)
(* {} stands for an absent key; the code deletes a key with its last       *)
(* element.  Hash payloads, sizes and kinds are abstracted: a size limit   *)
(* may end a batch after any hash, and Go's map order makes the order of   *)
(* the hashes of a batch arbitrary.                                        *)
(***************************************************************************)
EXTENDS Naturals, FiniteSets

CONSTANTS
    Peers,            \* identifiers of the remote peers
    Hashes,           \* transaction hashes
    NoPeer,           \* the absent peer
    MaxTxAnnounces,   \* announcements tracked for one peer
    MaxTxRetrievals   \* hashes asked for in one request

ASSUME FetcherAssumption ==
    /\ NoPeer \notin Peers
    /\ IsFiniteSet(Peers) /\ IsFiniteSet(Hashes)
    /\ MaxTxAnnounces \in Nat \ {0}
    /\ MaxTxRetrievals \in Nat \ {0}

VARIABLES
    waitlist,      \* stage 1: hash -> peers that announced it
    waittime,      \* stage 1: hash -> age of its entry
    waitslots,     \* stage 1: peer -> hashes it announced
    announces,     \* stages 2 and 3: peer -> hashes it announced
    announced,     \* stage 2: hash -> peers it can be fetched from
    fetching,      \* stage 3: hash -> peer it is being fetched from
    requests,      \* stage 3: peer -> its request in flight
    alternates,    \* stage 3: hash -> peers to fall back to
    waitTimer,     \* its timer is armed, or its token is in waitTrigger
    timeoutTimer,  \* its timer is armed, or its token is in timeoutTrigger
    sends,         \* peer -> request goroutines that have not called fetchTxs
    drops,         \* peers for which a goroutine is blocked in Drop
    panicked       \* the loop hit one of its panics

stage1 == <<waitlist, waittime, waitslots>>
timers == <<waitTimer, timeoutTimer>>
maps   == <<announces, announced, fetching, requests, alternates>>
vars   == <<stage1, maps, timers, sends, drops, panicked>>

\* waittime keeps a timestamp: an entry is young until it is older than
\* txArriveTimeout less the slack.
Ages == {"none", "young", "ripe"}

\* A request is live until txFetchTimeout less the slack has passed, then late;
\* the timeout handler leaves it dangling (hashes = nil), its slot still taken.
Request  == [hashes : SUBSET Hashes, stolen : SUBSET Hashes,
             status : {"none", "live", "late", "dangling"}]
NoRequest == [hashes |-> {}, stolen |-> {}, status |-> "none"]

\* The hashes of p's request that nobody else has delivered.
Pending(p) == requests[p].hashes \ requests[p].stolen

\* Slips a change to the code could make, each in the place of the definition it
\* is named after, to see that the properties notice.
With_Overwrites(map, S, ps)    == [h \in Hashes |-> IF h \in S THEN ps ELSE map[h]]
Without_Forgotten(map, S, ps)  == map
Release_Forgotten(fet, S)      == fet
RescheduleWait_Forgotten(armed, left) == armed
Queued_Unchecked(hs)           == {}
Expired_Inverted               == {p \in Peers : requests[p].status = "live"}
Stolen_OnlyFromOthers(p, hs, direct, q) ==
    {h \in hs : waitlist[h] = {} /\ fetching[h] = q /\ q # p}
Stolen_FromAny(p, hs, direct, q) ==
    {h \in hs : /\ waitlist[h] = {} /\ fetching[h] # NoPeer /\ (fetching[h] # p \/ ~direct)
               /\ requests[q].status # "none"}

\* The peers a map entry gains or loses, for every hash of a set.
With(map, S, ps)    == [h \in Hashes |-> IF h \in S THEN map[h] \cup ps ELSE map[h]]
Without(map, S, ps) == [h \in Hashes |-> IF h \in S THEN map[h] \ ps ELSE map[h]]
Clear(map, S)       == [h \in Hashes |-> IF h \in S THEN {} ELSE map[h]]
Release(fet, S)     == [h \in Hashes |-> IF h \in S THEN NoPeer ELSE fet[h]]

\* rescheduleWait, called when the hashes left still have to wait.
RescheduleWait(armed, left) == armed \/ left # {}

\* How the announcement of a hash is filed: with a fetch in flight, or with the
\* queue.  Whatever else is announced goes to the wait list.
InFlight(hs) == {h \in hs : alternates[h] # {}}
Queued(hs)   == {h \in hs : alternates[h] = {} /\ announced[h] # {}}

Init ==
    /\ waitlist = [h \in Hashes |-> {}]
    /\ waittime = [h \in Hashes |-> "none"]
    /\ waitslots = [p \in Peers |-> {}]
    /\ announces = [p \in Peers |-> {}]
    /\ announced = [h \in Hashes |-> {}]
    /\ fetching = [h \in Hashes |-> NoPeer]
    /\ requests = [p \in Peers |-> NoRequest]
    /\ alternates = [h \in Hashes |-> {}]
    /\ waitTimer = FALSE
    /\ timeoutTimer = FALSE
    /\ sends = [p \in Peers |-> 0]
    /\ drops = {}
    /\ panicked = FALSE

-----------------------------------------------------------------------------
(* scheduleFetches: every active peer without a request is given a batch of
   the hashes it announced that nobody is fetching.  give is the outcome of the
   two map iterations; a peer is left empty handed only when others took all it
   could serve.  The arguments are the maps the handler has left, whether it
   armed the timeout timer, and whether it has already panicked. *)
ScheduleFetches(actives, ann, annd, alt, fet, req, armed, bad) ==
    LET Idle(p)      == p \in actives /\ req[p].status = "none"
        Fetchable(p) == {h \in ann[p] : fet[h] = NoPeer}
    IN \E give \in [Hashes -> Peers \cup {NoPeer}] :
        LET Batch(p) == {h \in Hashes : give[h] = p}
            taken    == {h \in Hashes : give[h] # NoPeer}
        IN  /\ \A h \in taken : Idle(give[h]) /\ h \in Fetchable(give[h])
            /\ \A p \in Peers : Cardinality(Batch(p)) <= MaxTxRetrievals
            /\ \A p \in Peers : Idle(p) /\ Batch(p) = {} => Fetchable(p) \subseteq taken
            /\ announces' = ann
            /\ announced' = Clear(annd, taken)
            /\ alternates' = [h \in Hashes |-> IF h \in taken THEN annd[h] ELSE alt[h]]
            /\ fetching' = [h \in Hashes |-> IF h \in taken THEN give[h] ELSE fet[h]]
            /\ requests' = [p \in Peers |->
                    IF Batch(p) # {}
                    THEN [hashes |-> Batch(p), stolen |-> {}, status |-> "live"]
                    ELSE req[p]]
            /\ sends' = [p \in Peers |-> IF Batch(p) # {} THEN sends[p] + 1 ELSE sends[p]]
            /\ timeoutTimer' = (armed \/ (taken # {} /\ \A p \in Peers : req[p].status = "none"))
            /\ panicked' = (bad \/ \E h \in taken : alt[h] # {})

\* All peers with announcements, the default whitelist of scheduleFetches.
Announcers(ann) == {p \in Peers : ann[p] # {}}

(* case ann := <-f.notify: peer p announces hs, what the racy pre-filter of
   Notify let through.  Over the cap the code keeps the first want - max of
   the batch. *)
HandleNotify(p, hs) ==
    LET used == Cardinality(waitslots[p]) + Cardinality(announces[p])
        want == used + Cardinality(hs)
    IN /\ used < MaxTxAnnounces
       /\ \E kept \in SUBSET hs :
          LET waiting == kept \ (InFlight(kept) \cup Queued(kept))
              fresh   == {h \in waiting : waitlist[h] = {}}
              idle    == \A h \in Hashes : waittime[h] = "none"
              ann     == [announces EXCEPT ![p] = @ \cup InFlight(kept) \cup Queued(kept)]
          IN /\ Cardinality(kept) = IF want > MaxTxAnnounces THEN want - MaxTxAnnounces
                                                             ELSE Cardinality(hs)
             /\ waitlist' = With(waitlist, waiting, {p})
             /\ waittime' = [h \in Hashes |-> IF h \in fresh THEN "young" ELSE waittime[h]]
             /\ waitslots' = [waitslots EXCEPT ![p] = @ \cup waiting]
             /\ waitTimer' = RescheduleWait(waitTimer, IF idle THEN fresh ELSE {})
             /\ ScheduleFetches(IF announces[p] = {} /\ ann[p] # {} THEN {p} ELSE {},
                                ann, With(announced, Queued(kept), {p}),
                                With(alternates, InFlight(kept), {p}),
                                fetching, requests, timeoutTimer, FALSE)
    /\ UNCHANGED drops

(* case <-waitTrigger: every entry that has waited long enough moves to the
   queue, and the peers that announced it are asked if idle. *)
HandleWaitTrigger ==
    LET expired == {h \in Hashes : waittime[h] = "ripe"}
        Moved(p) == {h \in expired : p \in waitlist[h]}
    IN /\ waitTimer
       /\ waitlist' = Clear(waitlist, expired)
       /\ waittime' = [h \in Hashes |-> IF h \in expired THEN "none" ELSE waittime[h]]
       /\ waitslots' = [p \in Peers |-> waitslots[p] \ Moved(p)]
       /\ waitTimer' = RescheduleWait(FALSE, {h \in Hashes \ expired : waittime[h] # "none"})
       /\ ScheduleFetches({p \in Peers : Moved(p) # {}},
                          [p \in Peers |-> announces[p] \cup Moved(p)],
                          [h \in Hashes |-> IF h \in expired THEN waitlist[h] ELSE announced[h]],
                          alternates, fetching, requests, timeoutTimer,
                          \E h \in expired : announced[h] # {})
    /\ UNCHANGED drops

\* The requests the timeout case gives up: those left dangling are old too.
Expired == {p \in Peers : requests[p].status \in {"late", "dangling"}}

(* case <-timeoutTrigger: what an overdue request still misses goes back to
   the queue without its peer, and the request is left dangling. *)
HandleTimeoutTrigger ==
    LET missing == UNION {Pending(p) : p \in Expired}
        Failed(h) == {p \in Expired : h \in Pending(p)}
        ann == [p \in Peers |-> IF p \in Expired THEN announces[p] \ Pending(p) ELSE announces[p]]
    IN /\ timeoutTimer
       /\ ScheduleFetches(Announcers(ann), ann,
                          [h \in Hashes |-> IF h \in missing THEN alternates[h] \ Failed(h)
                                                             ELSE announced[h]],
                          Clear(alternates, missing), Release(fetching, missing),
                          [p \in Peers |-> IF p \in Expired
                                           THEN [requests[p] EXCEPT !.hashes = {}, !.status = "dangling"]
                                           ELSE requests[p]],
                          TRUE, \E h \in missing : announced[h] # {})
    /\ UNCHANGED <<stage1, waitTimer, drops>>

(* The part of case delivery := <-f.cleanup that every delivery takes: the
   delivered hashes leave every stage, and a hash that another request was
   fetching is marked stolen in it. *)
Cleaned(hs) == {h \in hs : waitlist[h] = {}}
Stolen(p, hs, direct, q) ==
    {h \in Cleaned(hs) : fetching[h] = q /\ (q # p \/ ~direct)}
Marked(p, hs, direct) ==
    [q \in Peers |-> [requests[q] EXCEPT !.stolen = @ \cup Stolen(p, hs, direct, q)]]

LeaveWaiting(hs) ==
    LET gone == {h \in hs : waitlist[h] # {}}
    IN /\ waitlist' = Clear(waitlist, gone)
       /\ waittime' = [h \in Hashes |-> IF h \in gone THEN "none" ELSE waittime[h]]
       /\ waitslots' = [q \in Peers |-> waitslots[q] \ gone]

(* A broadcast, or a direct reply that answers no request: nothing is
   rescheduled. *)
HandleBroadcast(p, hs, direct) ==
    /\ direct => requests[p].status = "none"
    /\ LeaveWaiting(hs)
    /\ announces' = [q \in Peers |-> announces[q] \ Cleaned(hs)]
    /\ announced' = Clear(announced, Cleaned(hs))
    /\ alternates' = Clear(alternates, Cleaned(hs))
    /\ fetching' = Release(fetching, Cleaned(hs))
    /\ requests' = Marked(p, hs, direct)
    /\ UNCHANGED <<timers, sends, drops, panicked>>

(* A direct reply to p's request.  The hashes it misses are queued again for
   the alternates; those before the last delivered hash also lose p.  The order
   of the request is arbitrary, so any of the missing ones may come before,
   and all of them do when nothing asked for was delivered.
   Bound: a reply is handled only when p's request goroutines have run. *)
HandleReply(p, hs) ==
    LET req     == Marked(p, hs, TRUE)[p]
        missing == (req.hashes \ req.stolen) \ hs
        alt     == Clear(alternates, Cleaned(hs))
        annd    == Clear(announced, Cleaned(hs))
    IN /\ requests[p].status # "none" /\ sends[p] = 0
       /\ LeaveWaiting(hs)
       /\ \E before \in SUBSET missing :
          LET rest == Without(alt, before, {p})
              ann  == [q \in Peers |-> (announces[q] \ Cleaned(hs))
                                        \ (IF q = p THEN before ELSE {})]
          IN /\ hs \cap req.hashes = {} => before = missing
             /\ ScheduleFetches(Announcers(ann), ann,
                    [h \in Hashes |-> IF h \in missing /\ rest[h] # {} THEN rest[h] ELSE annd[h]],
                    Clear(rest, req.hashes \ req.stolen),
                    Release(fetching, Cleaned(hs) \cup (req.hashes \ req.stolen)),
                    [Marked(p, hs, TRUE) EXCEPT ![p] = NoRequest],
                    timeoutTimer,
                    \E h \in missing : rest[h] # {} /\ annd[h] # {})
    /\ UNCHANGED <<waitTimer, drops>>

(* case drop := <-f.drop. *)
HandleDrop(p) ==
    LET active == requests[p].status # "none"
        rest   == Without(alternates, Pending(p), {p})
        ann    == [announces EXCEPT ![p] = {}]
        requeued == [h \in Hashes |-> IF h \in Pending(p) /\ rest[h] # {} THEN rest[h]
                                                                         ELSE announced[h]]
        lost   == {h \in waitslots[p] : waitlist[h] \subseteq {p}}
    IN /\ p \in drops
       /\ drops' = drops \ {p}
       /\ waitlist' = Without(waitlist, waitslots[p], {p})
       /\ waittime' = [h \in Hashes |-> IF h \in lost THEN "none" ELSE waittime[h]]
       /\ waitslots' = [waitslots EXCEPT ![p] = {}]
       /\ waitTimer' = IF waitslots[p] = {} THEN waitTimer
                       ELSE RescheduleWait(waitTimer, {h \in Hashes \ lost : waitlist[h] # {}})
       /\ ScheduleFetches(IF active THEN Announcers(ann) ELSE {}, ann,
                          Without(requeued, announces[p], {p}),
                          Clear(rest, Pending(p)), Release(fetching, Pending(p)),
                          [requests EXCEPT ![p] = NoRequest],
                          timeoutTimer \/ active, FALSE)

-----------------------------------------------------------------------------
(* The goroutine of a request calls fetchTxs; when that fails it calls Drop.
   Bound: one goroutine per peer waits in Drop at a time. *)
FetchSent(p) ==
    /\ sends[p] > 0
    /\ sends' = [sends EXCEPT ![p] = @ - 1]
    /\ UNCHANGED <<stage1, maps, timers, drops, panicked>>

FetchFails(p) ==
    /\ sends[p] > 0 /\ p \notin drops
    /\ sends' = [sends EXCEPT ![p] = @ - 1]
    /\ drops' = drops \cup {p}
    /\ UNCHANGED <<stage1, maps, timers, panicked>>

(* The passing of time.  A trigger may be handled before anything is due, as in
   the code when the entry its timer was armed for has left since. *)
Ripen(h) ==
    /\ waittime[h] = "young"
    /\ waittime' = [waittime EXCEPT ![h] = "ripe"]
    /\ UNCHANGED <<waitlist, waitslots, maps, timers, sends, drops, panicked>>

Overdue(p) ==
    /\ requests[p].status = "live"
    /\ requests' = [requests EXCEPT ![p].status = "late"]
    /\ UNCHANGED <<stage1, announces, announced, fetching, alternates, timers,
                   sends, drops, panicked>>

-----------------------------------------------------------------------------
Handler ==
    \/ \E p \in Peers, hs \in (SUBSET Hashes) \ {{}} : HandleNotify(p, hs)
    \/ \E p \in Peers, hs \in SUBSET Hashes, direct \in BOOLEAN : HandleBroadcast(p, hs, direct)
    \/ \E p \in Peers, hs \in SUBSET Hashes : HandleReply(p, hs)
    \/ \E p \in Peers : HandleDrop(p)
    \/ HandleWaitTrigger
    \/ HandleTimeoutTrigger

Goroutine == \E p \in Peers : FetchSent(p) \/ FetchFails(p)

Clock ==
    \/ \E h \in Hashes : Ripen(h)
    \/ \E p \in Peers : Overdue(p)

Next == ~panicked /\ (Handler \/ Goroutine \/ Clock)

Spec == Init /\ [][Next]_vars

\* The runtime fires a timer that is due, and the loop's select picks among its
\* ready cases at random: neither trigger is passed over for ever.
Fairness ==
    /\ WF_vars(HandleWaitTrigger) /\ WF_vars(HandleTimeoutTrigger)
    /\ \A h \in Hashes : WF_vars(Ripen(h))

FairSpec == Spec /\ Fairness

-----------------------------------------------------------------------------
Typed ==
    /\ waitlist \in [Hashes -> SUBSET Peers]
    /\ waittime \in [Hashes -> Ages]
    /\ waitslots \in [Peers -> SUBSET Hashes]
    /\ announces \in [Peers -> SUBSET Hashes]
    /\ announced \in [Hashes -> SUBSET Peers]
    /\ fetching \in [Hashes -> Peers \cup {NoPeer}]
    /\ requests \in [Peers -> Request]
    /\ alternates \in [Hashes -> SUBSET Peers]
    /\ waitTimer \in BOOLEAN /\ timeoutTimer \in BOOLEAN
    /\ sends \in [Peers -> Nat]
    /\ drops \subseteq Peers
    /\ panicked \in BOOLEAN

StolenAsked ==
    \A p \in Peers : requests[p].status # "dangling" => requests[p].stolen \subseteq requests[p].hashes

\* Every variable has its type, and what a request was robbed of is what it asked for:
\* a mark left in the request of another peer would cost it a hash it never delivered,
\* and outlive the hash's next fetch.  Only a request given up has its hashes cleared.
TypeOK == Typed /\ StolenAsked

\* A tracked hash is in one of the three stages only: the documented invariant
\* of TxFetcher, on which the "already contains" panics rest.
OneStage ==
    \A h \in Hashes :
        /\ waitlist[h] = {} \/ announced[h] = {}
        /\ waitlist[h] = {} \/ alternates[h] = {}
        /\ announced[h] = {} \/ alternates[h] = {}

\* The indexes by peer agree with the indexes by hash: a hash waits for the
\* peers whose slots hold it, and a peer's announcement is of a hash that can be
\* had from it.  (The converse fails: see NoOrphanSource.)
IndexesAgree ==
    \A h \in Hashes :
        /\ (waittime[h] = "none") = (waitlist[h] = {})
        /\ \A p \in Peers :
            /\ (h \in waitslots[p]) = (p \in waitlist[h])
            /\ h \in announces[p] => p \in announced[h] \cup alternates[h]

\* A hash is being fetched from p exactly while p's request asks for it and
\* nobody else delivered it, and p is then among its alternates.
FetchMatchesRequest ==
    \A h \in Hashes :
        /\ (fetching[h] # NoPeer) = (alternates[h] # {})
        /\ \A p \in Peers :
            /\ (fetching[h] = p) = (h \in Pending(p))
            /\ fetching[h] = p => h \in announces[p] /\ p \in alternates[h]

\* None of the loop's four panics is reachable.
NoPanic == ~panicked

\* Work that only a trigger can move on has its timer armed, or the token in the
\* channel: an entry of the wait list, and a request that is not answered.
NoLostTimer ==
    /\ (\E h \in Hashes : waittime[h] # "none") => waitTimer
    /\ (\E p \in Peers : requests[p].status # "none") => timeoutTimer

\* The handlers implement the documented automaton: no step forgets a source of
\* a hash that is still tracked, but those of a peer that left or of a fetch
\* that failed, and none gives a peer a second fetch.
Automaton == INSTANCE FetchAutomaton WITH
    sources <- [h \in Hashes |-> waitlist[h] \cup announced[h] \cup alternates[h]],
    owner <- fetching,
    stage <- [h \in Hashes |->
        CASE waitlist[h] # {} -> "waiting"
          [] announced[h] # {} -> "queued"
          [] alternates[h] # {} -> "fetching"
          [] OTHER -> "unknown"]
ImplementsAutomaton == Automaton!Spec

\* "A peer was dropped, remove all traces of it", and "there's do data leak": a
\* peer that is a source of a hash has it among its announcements, so that
\* dropping it, or fetching the hash from it, can find the one from the other.
NoOrphanSource ==
    \A h \in Hashes, p \in Peers : p \in announced[h] \cup alternates[h] => h \in announces[p]

\* "maxTxAnnounces is the maximum number of unique transaction a peer can
\* announce": what is tracked for a peer stays within it.
AnnouncesCapped ==
    \A p \in Peers : Cardinality(waitslots[p]) + Cardinality(announces[p]) <= MaxTxAnnounces

\* A hash does not wait for a broadcast for ever.
WaitEnds == \A h \in Hashes : waitlist[h] # {} ~> waitlist[h] = {}

\* A request that is overdue is given up, so that its hashes go to others.
TimeoutHandled ==
    \A p \in Peers : requests[p].status = "late" ~> requests[p].status # "late"
=============================================================================
