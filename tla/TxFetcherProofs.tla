-------------------------- MODULE TxFetcherProofs --------------------------
(***************************************************************************)
(* The loop of the transaction fetcher keeps its maps consistent, never    *)
(* panics, loses no timer and implements the documented automaton, for any *)
(* number of peers and hashes and any limits.                              *)
(***************************************************************************)
EXTENDS TxFetcher, TLAPS

\* The consistency of the maps of stages 2 and 3, and of the wait list wl with
\* them, as a predicate of the maps: it holds again before scheduleFetches runs.
MapsTyped(ann, annd, alt, fet, req) ==
    /\ ann \in [Peers -> SUBSET Hashes]
    /\ annd \in [Hashes -> SUBSET Peers]
    /\ alt \in [Hashes -> SUBSET Peers]
    /\ fet \in [Hashes -> Peers \cup {NoPeer}]
    /\ req \in [Peers -> Request]

MapsAgree(wl, ann, annd, alt, fet, req) ==
    /\ \A h \in Hashes : /\ wl[h] = {} \/ annd[h] = {}
                         /\ wl[h] = {} \/ alt[h] = {}
                         /\ annd[h] = {} \/ alt[h] = {}
                         /\ fet[h] # NoPeer <=> alt[h] # {}
    /\ \A p \in Peers, h \in Hashes :
          /\ h \in ann[p] => p \in annd[h] \cup alt[h]
          /\ fet[h] = p <=> h \in req[p].hashes \ req[p].stolen
          /\ fet[h] = p => h \in ann[p] /\ p \in alt[h]
    /\ \A p \in Peers : req[p].status = "none" => req[p].hashes = {}

WaitAgrees ==
    \A h \in Hashes :
        /\ waittime[h] = "none" <=> waitlist[h] = {}
        /\ \A p \in Peers : h \in waitslots[p] <=> p \in waitlist[h]

\* The inductive invariant.
IInv ==
    /\ Typed
    /\ WaitAgrees
    /\ MapsAgree(waitlist, announces, announced, alternates, fetching, requests)
    /\ NoPanic

\* A request record of the given fields is a request.
LEMMA RequestFields ==
    ASSUME NEW r \in Request
    PROVE  /\ r.hashes \in SUBSET Hashes /\ r.stolen \in SUBSET Hashes
           /\ r.status \in {"none", "live", "late", "dangling"}
BY DEF Request

\* scheduleFetches keeps the maps consistent and does not panic.
LEMMA ScheduleKeeps ==
    ASSUME NEW wl, NEW actives, NEW ann, NEW annd, NEW alt, NEW fet, NEW req,
           NEW armed \in BOOLEAN, NEW bad,
           sends \in [Peers -> Nat],
           bad = FALSE,
           MapsTyped(ann, annd, alt, fet, req),
           MapsAgree(wl, ann, annd, alt, fet, req),
           ScheduleFetches(actives, ann, annd, alt, fet, req, armed, bad)
    PROVE  /\ MapsTyped(announces', announced', alternates', fetching', requests')
           /\ MapsAgree(wl, announces', announced', alternates', fetching', requests')
           /\ sends' \in [Peers -> Nat]
           /\ timeoutTimer' \in BOOLEAN
           /\ panicked' = FALSE
<1> DEFINE Idle(p)      == p \in actives /\ req[p].status = "none"
           Fetchable(p) == {h \in ann[p] : fet[h] = NoPeer}
<1>1. PICK give \in [Hashes -> Peers \cup {NoPeer}] :
        LET Batch(p) == {h \in Hashes : give[h] = p}
            taken    == {h \in Hashes : give[h] # NoPeer}
        IN  /\ \A h \in taken : Idle(give[h]) /\ h \in Fetchable(give[h])
            /\ announces' = ann
            /\ announced' = Clear(annd, taken)
            /\ alternates' = [h \in Hashes |-> IF h \in taken THEN annd[h] ELSE alt[h]]
            /\ fetching' = [h \in Hashes |-> IF h \in taken THEN give[h] ELSE fet[h]]
            /\ requests' = [p \in Peers |->
                    IF Batch(p) # {}
                    THEN [hashes |-> Batch(p), stolen |-> {}, status |-> "live"]
                    ELSE req[p]]
            /\ sends' = [p \in Peers |-> IF Batch(p) # {} THEN sends[p] + 1 ELSE sends[p]]
            /\ timeoutTimer' = (armed \/ (taken # {} /\ \A p \in Peers : req[p].status = "none"))
            /\ panicked' = (bad \/ \E h \in taken : alt[h] # {})
  BY DEF ScheduleFetches
<1> DEFINE Batch(p) == {h \in Hashes : give[h] = p}
           taken    == {h \in Hashes : give[h] # NoPeer}
<1>2. \A h \in taken : /\ give[h] \in Peers /\ req[give[h]].status = "none"
                       /\ h \in ann[give[h]] /\ fet[h] = NoPeer
                       /\ alt[h] = {} /\ give[h] \in annd[h] /\ wl[h] = {}
  BY <1>1 DEF MapsAgree, MapsTyped
<1>3. panicked' = FALSE
  BY <1>1, <1>2
<1>4. /\ sends' \in [Peers -> Nat]
      /\ timeoutTimer' \in BOOLEAN
  BY <1>1
<1>5. MapsTyped(announces', announced', alternates', fetching', requests')
  <2>1. requests' \in [Peers -> Request]
    BY <1>1 DEF MapsTyped, Request
  <2>2. alternates' \in [Hashes -> SUBSET Peers] /\ announced' \in [Hashes -> SUBSET Peers]
    BY <1>1 DEF MapsTyped, Clear
  <2> QED BY <1>1, <2>1, <2>2 DEF MapsTyped
<1>6. ASSUME NEW h \in Hashes
      PROVE  /\ wl[h] = {} \/ announced'[h] = {}
             /\ wl[h] = {} \/ alternates'[h] = {}
             /\ announced'[h] = {} \/ alternates'[h] = {}
             /\ fetching'[h] # NoPeer <=> alternates'[h] # {}
  <2>1. CASE h \in taken
    BY <1>1, <1>2, <2>1, FetcherAssumption DEF Clear
  <2>2. CASE h \notin taken
    BY <1>1, <2>2 DEF Clear, MapsAgree
  <2> QED BY <2>1, <2>2
<1>7. ASSUME NEW p \in Peers, NEW h \in Hashes
      PROVE  /\ h \in announces'[p] => p \in announced'[h] \cup alternates'[h]
             /\ fetching'[h] = p => h \in announces'[p] /\ p \in alternates'[h]
  <2>1. CASE h \in taken
    BY <1>1, <1>2, <2>1 DEF Clear, MapsAgree
  <2>2. CASE h \notin taken
    BY <1>1, <2>2 DEF Clear, MapsAgree
  <2> QED BY <2>1, <2>2
<1>8. ASSUME NEW p \in Peers, NEW h \in Hashes
      PROVE  fetching'[h] = p <=> h \in requests'[p].hashes \ requests'[p].stolen
  <2>1. CASE Batch(p) # {}
    <3>1. requests'[p].hashes = Batch(p) /\ requests'[p].stolen = {}
      BY <1>1, <2>1
    <3>2. fet[h] # p
      <4>1. req[p].status = "none"
        BY <1>2, <2>1, FetcherAssumption
      <4> QED BY <4>1 DEF MapsAgree
    <3> QED BY <1>1, <3>1, <3>2, FetcherAssumption
  <2>2. CASE Batch(p) = {}
    <3>1. requests'[p] = req[p]
      BY <1>1, <2>2
    <3>2. fet[h] = p <=> h \in req[p].hashes \ req[p].stolen
      BY DEF MapsAgree
    <3>3. give[h] # p
      BY <2>2
    <3>4. h \in taken => fet[h] = NoPeer
      BY <1>2
    <3> QED BY <1>1, <3>1, <3>2, <3>3, <3>4, FetcherAssumption
  <2> QED BY <2>1, <2>2
<1>9. ASSUME NEW p \in Peers, requests'[p].status = "none"
      PROVE  requests'[p].hashes = {}
  BY <1>1, <1>9 DEF MapsAgree
<1> QED BY <1>3, <1>4, <1>5, <1>6, <1>7, <1>8, <1>9 DEF MapsAgree

\* What IInv says once the maps are taken apart.
LEMMA InvTyped ==
    ASSUME IInv
    PROVE  /\ MapsTyped(announces, announced, alternates, fetching, requests)
           /\ sends \in [Peers -> Nat] /\ timeoutTimer \in BOOLEAN
BY DEF IInv, Typed, MapsTyped

\* The invariant after a handler that schedules fetches: what is left to show is
\* about the variables ScheduleFetches does not set.
LEMMA Reassemble ==
    ASSUME MapsTyped(announces', announced', alternates', fetching', requests'),
           MapsAgree(waitlist', announces', announced', alternates', fetching', requests'),
           sends' \in [Peers -> Nat], timeoutTimer' \in BOOLEAN, panicked' = FALSE,
           waitlist' \in [Hashes -> SUBSET Peers],
           waittime' \in [Hashes -> Ages],
           waitslots' \in [Peers -> SUBSET Hashes],
           waitTimer' \in BOOLEAN, drops' \subseteq Peers,
           WaitAgrees'
    PROVE  IInv'
BY DEF IInv, Typed, MapsTyped, NoPanic

\* An announcement keeps the invariant: it goes to one stage only, and both indexes.
LEMMA NotifyKeeps ==
    ASSUME IInv, NEW p \in Peers, NEW hs \in SUBSET Hashes, HandleNotify(p, hs)
    PROVE  IInv'
<1>1. PICK kept \in SUBSET hs :
        LET waiting == kept \ (InFlight(kept) \cup Queued(kept))
            fresh   == {h \in waiting : waitlist[h] = {}}
            idle    == \A h \in Hashes : waittime[h] = "none"
            ann     == [announces EXCEPT ![p] = @ \cup InFlight(kept) \cup Queued(kept)]
        IN /\ waitlist' = With(waitlist, waiting, {p})
           /\ waittime' = [h \in Hashes |-> IF h \in fresh THEN "young" ELSE waittime[h]]
           /\ waitslots' = [waitslots EXCEPT ![p] = @ \cup waiting]
           /\ waitTimer' = RescheduleWait(waitTimer, IF idle THEN fresh ELSE {})
           /\ ScheduleFetches(IF announces[p] = {} /\ ann[p] # {} THEN {p} ELSE {},
                              ann, With(announced, Queued(kept), {p}),
                              With(alternates, InFlight(kept), {p}),
                              fetching, requests, timeoutTimer, FALSE)
           /\ drops' = drops
  BY DEF HandleNotify
<1> DEFINE waiting == kept \ (InFlight(kept) \cup Queued(kept))
           ann  == [announces EXCEPT ![p] = @ \cup InFlight(kept) \cup Queued(kept)]
           annd == With(announced, Queued(kept), {p})
           alt  == With(alternates, InFlight(kept), {p})
           acts == IF announces[p] = {} /\ ann[p] # {} THEN {p} ELSE {}
<1>2. MapsTyped(ann, annd, alt, fetching, requests)
  BY InvTyped DEF MapsTyped, With, InFlight, Queued
<1>3. /\ waitlist \in [Hashes -> SUBSET Peers] /\ waittime \in [Hashes -> Ages]
      /\ waitslots \in [Peers -> SUBSET Hashes]
      /\ waitTimer \in BOOLEAN /\ drops \subseteq Peers
  BY DEF IInv, Typed
<1>4. MapsAgree(waitlist', ann, annd, alt, fetching, requests)
  <2> USE InvTyped DEF IInv, MapsTyped
  <2>1. ASSUME NEW h \in Hashes
        PROVE  /\ waitlist'[h] = {} \/ annd[h] = {}
               /\ waitlist'[h] = {} \/ alt[h] = {}
               /\ annd[h] = {} \/ alt[h] = {}
               /\ fetching[h] # NoPeer <=> alt[h] # {}
    BY <1>1, <1>3 DEF MapsAgree, With, InFlight, Queued
  <2>2. ASSUME NEW q \in Peers, NEW h \in Hashes
        PROVE  /\ h \in ann[q] => q \in annd[h] \cup alt[h]
               /\ fetching[h] = q <=> h \in requests[q].hashes \ requests[q].stolen
               /\ fetching[h] = q => h \in ann[q] /\ q \in alt[h]
    BY DEF MapsAgree, With, InFlight, Queued
  <2> HIDE DEF ann, annd, alt
  <2> QED BY <2>1, <2>2 DEF MapsAgree
<1>5. /\ waitlist' \in [Hashes -> SUBSET Peers]
      /\ waittime' \in [Hashes -> Ages]
      /\ waitslots' \in [Peers -> SUBSET Hashes]
      /\ waitTimer' \in BOOLEAN /\ drops' \subseteq Peers
  BY <1>1, <1>3 DEF With, Ages, RescheduleWait
<1>6. WaitAgrees'
  BY <1>1, <1>3 DEF IInv, WaitAgrees, With, Ages
<1>7. ScheduleFetches(acts, ann, annd, alt, fetching, requests, timeoutTimer, FALSE)
  BY <1>1
<1> HIDE DEF ann, annd, alt, acts
<1>8. /\ MapsTyped(announces', announced', alternates', fetching', requests')
      /\ MapsAgree(waitlist', announces', announced', alternates', fetching', requests')
      /\ sends' \in [Peers -> Nat] /\ timeoutTimer' \in BOOLEAN /\ panicked' = FALSE
  BY <1>2, <1>4, <1>7, ScheduleKeeps, InvTyped
<1> QED BY <1>5, <1>6, <1>8, Reassemble

\* The end of the wait keeps the invariant: the ripe hashes move to the queue with
\* all who announced them.
LEMMA WaitTriggerKeeps ==
    ASSUME IInv, HandleWaitTrigger
    PROVE  IInv'
<1> DEFINE expired  == {h \in Hashes : waittime[h] = "ripe"}
           Moved(p) == {h \in expired : p \in waitlist[h]}
           ann  == [p \in Peers |-> announces[p] \cup Moved(p)]
           annd == [h \in Hashes |-> IF h \in expired THEN waitlist[h] ELSE announced[h]]
           acts == {p \in Peers : Moved(p) # {}}
           bad  == \E h \in expired : announced[h] # {}
<1>1. /\ waitlist' = Clear(waitlist, expired)
      /\ waittime' = [h \in Hashes |-> IF h \in expired THEN "none" ELSE waittime[h]]
      /\ waitslots' = [p \in Peers |-> waitslots[p] \ Moved(p)]
      /\ waitTimer' = RescheduleWait(FALSE, {h \in Hashes \ expired : waittime[h] # "none"})
      /\ ScheduleFetches(acts, ann, annd, alternates, fetching, requests, timeoutTimer, bad)
      /\ drops' = drops
  BY DEF HandleWaitTrigger
<1>2. /\ waitlist \in [Hashes -> SUBSET Peers] /\ waittime \in [Hashes -> Ages]
      /\ waitslots \in [Peers -> SUBSET Hashes]
      /\ waitTimer \in BOOLEAN /\ drops \subseteq Peers
  BY DEF IInv, Typed
<1>3. MapsTyped(ann, annd, alternates, fetching, requests)
  BY <1>2, InvTyped DEF MapsTyped
<1>4. bad = FALSE
  BY DEF IInv, WaitAgrees, MapsAgree
<1>5. MapsAgree(waitlist', ann, annd, alternates, fetching, requests)
  <2> USE InvTyped DEF IInv, MapsTyped
  <2>1. ASSUME NEW h \in Hashes
        PROVE  /\ waitlist'[h] = {} \/ annd[h] = {}
               /\ waitlist'[h] = {} \/ alternates[h] = {}
               /\ annd[h] = {} \/ alternates[h] = {}
               /\ fetching[h] # NoPeer <=> alternates[h] # {}
    BY <1>1, <1>2 DEF MapsAgree, WaitAgrees, Clear
  <2>2. ASSUME NEW q \in Peers, NEW h \in Hashes
        PROVE  /\ h \in ann[q] => q \in annd[h] \cup alternates[h]
               /\ fetching[h] = q <=> h \in requests[q].hashes \ requests[q].stolen
               /\ fetching[h] = q => h \in ann[q] /\ q \in alternates[h]
    BY <1>4 DEF MapsAgree, WaitAgrees
  <2> HIDE DEF ann, annd
  <2> QED BY <2>1, <2>2 DEF MapsAgree
<1>6. /\ waitlist' \in [Hashes -> SUBSET Peers]
      /\ waittime' \in [Hashes -> Ages]
      /\ waitslots' \in [Peers -> SUBSET Hashes]
      /\ waitTimer' \in BOOLEAN /\ drops' \subseteq Peers
  BY <1>1, <1>2 DEF Clear, Ages, RescheduleWait
<1>7. WaitAgrees'
  BY <1>1, <1>2 DEF IInv, WaitAgrees, Clear, Ages
<1> HIDE DEF ann, annd, acts, bad
<1>8. /\ MapsTyped(announces', announced', alternates', fetching', requests')
      /\ MapsAgree(waitlist', announces', announced', alternates', fetching', requests')
      /\ sends' \in [Peers -> Nat] /\ timeoutTimer' \in BOOLEAN /\ panicked' = FALSE
  BY <1>1, <1>3, <1>4, <1>5, ScheduleKeeps, InvTyped
<1> QED BY <1>6, <1>7, <1>8, Reassemble

\* The timeout keeps the invariant: what an overdue request misses goes back to
\* the queue, without its peer.
LEMMA TimeoutTriggerKeeps ==
    ASSUME IInv, HandleTimeoutTrigger
    PROVE  IInv'
<1> DEFINE missing   == UNION {Pending(p) : p \in Expired}
           Failed(h) == {p \in Expired : h \in Pending(p)}
           ann  == [p \in Peers |-> IF p \in Expired THEN announces[p] \ Pending(p) ELSE announces[p]]
           annd == [h \in Hashes |-> IF h \in missing THEN alternates[h] \ Failed(h) ELSE announced[h]]
           alt  == Clear(alternates, missing)
           fet  == Release(fetching, missing)
           req  == [p \in Peers |-> IF p \in Expired
                                    THEN [requests[p] EXCEPT !.hashes = {}, !.status = "dangling"]
                                    ELSE requests[p]]
           bad  == \E h \in missing : announced[h] # {}
<1>1. /\ ScheduleFetches(Announcers(ann), ann, annd, alt, fet, req, TRUE, bad)
      /\ UNCHANGED <<waitlist, waittime, waitslots, waitTimer, drops>>
  BY DEF HandleTimeoutTrigger, stage1
<1>2. \A p \in Peers : requests[p] \in Request
  BY InvTyped DEF MapsTyped
<1>3. \A h \in Hashes, p \in Peers : h \in Pending(p) <=> fetching[h] = p
  BY DEF IInv, MapsAgree, Pending
<1>4. \A h \in missing : /\ h \in Hashes /\ fetching[h] \in Expired
                         /\ Failed(h) = {fetching[h]}
                         /\ announced[h] = {} /\ waitlist[h] = {}
  <2> SUFFICES ASSUME NEW h \in missing
               PROVE  /\ h \in Hashes /\ fetching[h] \in Expired
                      /\ Failed(h) = {fetching[h]}
                      /\ announced[h] = {} /\ waitlist[h] = {}
    OBVIOUS
  <2>1. PICK p \in Expired : h \in Pending(p)
    OBVIOUS
  <2>2. p \in Peers /\ h \in Hashes
    BY <2>1, <1>2, RequestFields DEF Expired, Pending
  <2>3. fetching[h] = p
    BY <1>3, <2>1, <2>2
  <2>4. announced[h] = {} /\ waitlist[h] = {}
    BY <2>2, <2>3, FetcherAssumption DEF IInv, MapsAgree
  <2>5. Failed(h) = {p}
    BY <1>3, <2>1, <2>2, <2>3 DEF Expired
  <2> QED BY <2>1, <2>2, <2>3, <2>4, <2>5
<1>5. bad = FALSE
  BY <1>4
<1>6. \A h \in Hashes : h \in missing <=> fetching[h] \in Expired
  BY <1>3, <1>4 DEF Expired
<1>7. MapsTyped(ann, annd, alt, fet, req)
  <2>1. req \in [Peers -> Request]
    BY <1>2 DEF Request
  <2> HIDE DEF missing, Failed, req
  <2> QED BY <2>1, InvTyped DEF MapsTyped, Clear, Release
<1>8. MapsAgree(waitlist', ann, annd, alt, fet, req)
  <2> USE InvTyped DEF IInv, MapsTyped
  <2>1. ASSUME NEW h \in Hashes
        PROVE  /\ waitlist'[h] = {} \/ annd[h] = {}
               /\ waitlist'[h] = {} \/ alt[h] = {}
               /\ annd[h] = {} \/ alt[h] = {}
               /\ fet[h] # NoPeer <=> alt[h] # {}
    <3> HIDE DEF missing, Failed
    <3> QED BY <1>1, <1>4 DEF MapsAgree, Clear, Release
  <2>2. ASSUME NEW q \in Peers, NEW h \in Hashes
        PROVE  /\ h \in ann[q] => q \in annd[h] \cup alt[h]
               /\ fet[h] = q => h \in ann[q] /\ q \in alt[h]
    <3> HIDE DEF missing, Failed
    <3> QED BY <1>3, <1>4, <1>6, FetcherAssumption DEF MapsAgree, Clear, Release
  <2>3. ASSUME NEW q \in Peers, NEW h \in Hashes
        PROVE  fet[h] = q <=> h \in req[q].hashes \ req[q].stolen
    <3>1. CASE q \in Expired
      <4>1. req[q].hashes = {}
        BY <1>2, <3>1 DEF Request
      <4> HIDE DEF missing
      <4> QED BY <1>6, <3>1, <4>1, FetcherAssumption DEF Release
    <3>2. CASE q \notin Expired
      <4> HIDE DEF missing
      <4> QED BY <1>3, <1>6, <3>2, FetcherAssumption DEF Release, Pending
    <3> QED BY <3>1, <3>2
  <2>4. ASSUME NEW q \in Peers, req[q].status = "none"
        PROVE  req[q].hashes = {}
    BY <1>2, <2>4 DEF MapsAgree, Request
  <2> HIDE DEF ann, annd, alt, fet, req
  <2> QED BY <2>1, <2>2, <2>3, <2>4 DEF MapsAgree
<1>9. /\ waitlist' \in [Hashes -> SUBSET Peers]
      /\ waittime' \in [Hashes -> Ages]
      /\ waitslots' \in [Peers -> SUBSET Hashes]
      /\ waitTimer' \in BOOLEAN /\ drops' \subseteq Peers
      /\ WaitAgrees'
  BY <1>1 DEF IInv, Typed, WaitAgrees
<1> HIDE DEF ann, annd, alt, fet, req, bad
<1>10. /\ MapsTyped(announces', announced', alternates', fetching', requests')
       /\ MapsAgree(waitlist', announces', announced', alternates', fetching', requests')
       /\ sends' \in [Peers -> Nat] /\ timeoutTimer' \in BOOLEAN /\ panicked' = FALSE
  BY <1>1, <1>5, <1>7, <1>8, ScheduleKeeps, InvTyped
<1> QED BY <1>9, <1>10, Reassemble

\* Delivered hashes leave the wait list, and only it.
LEMMA LeaveWaitingKeeps ==
    ASSUME IInv, NEW hs \in SUBSET Hashes, LeaveWaiting(hs)
    PROVE  /\ waitlist' \in [Hashes -> SUBSET Peers]
           /\ waittime' \in [Hashes -> Ages]
           /\ waitslots' \in [Peers -> SUBSET Hashes]
           /\ WaitAgrees'
           /\ \A h \in Hashes : waitlist[h] = {} => waitlist'[h] = {}
BY DEF IInv, Typed, WaitAgrees, LeaveWaiting, Clear, Ages

\* What a delivery leaves in the maps before it looks at p's own request: all
\* agree, but for the delivered hashes of that request.
CleanedMaps(p, hs, direct, ann, annd, alt, fet, req) ==
    /\ MapsTyped(ann, annd, alt, fet, req)
    /\ \A q \in Peers : /\ req[q].hashes = requests[q].hashes
                        /\ req[q].status = requests[q].status
    /\ \A h \in Hashes : /\ waitlist'[h] = {} \/ annd[h] = {}
                         /\ waitlist'[h] = {} \/ alt[h] = {}
                         /\ annd[h] = {} \/ alt[h] = {}
                         /\ fet[h] # NoPeer <=> alt[h] # {}
    /\ \A q \in Peers, h \in Hashes :
          /\ h \in ann[q] => q \in annd[h] \cup alt[h]
          /\ fet[h] = q => h \in ann[q] /\ q \in alt[h]
          /\ ~(direct /\ q = p /\ h \in hs)
                => (fet[h] = q <=> h \in req[q].hashes \ req[q].stolen)
          /\ fet[h] = q => h \notin hs
          /\ h \in req[q].hashes \ req[q].stolen
                => waitlist'[h] = {} /\ (h \notin hs => fet[h] = q)

\* A delivery that cleans all maps of its hashes, but for the requests, leaves them
\* consistent once each request counts what was taken from it as stolen.
LEMMA CleanedAgrees ==
    ASSUME IInv, NEW p \in Peers, NEW hs \in SUBSET Hashes, NEW direct \in BOOLEAN,
           LeaveWaiting(hs)
    PROVE  CleanedMaps(p, hs, direct, [q \in Peers |-> announces[q] \ Cleaned(hs)],
                       Clear(announced, Cleaned(hs)), Clear(alternates, Cleaned(hs)),
                       Release(fetching, Cleaned(hs)), Marked(p, hs, direct))
<1> DEFINE ann  == [q \in Peers |-> announces[q] \ Cleaned(hs)]
           annd == Clear(announced, Cleaned(hs))
           alt  == Clear(alternates, Cleaned(hs))
           fet  == Release(fetching, Cleaned(hs))
           req  == Marked(p, hs, direct)
<1> USE InvTyped DEF IInv, MapsTyped
<1>1. \A q \in Peers : requests[q] \in Request
  OBVIOUS
<1>2. \A q \in Peers : Stolen(p, hs, direct, q) \subseteq Hashes
  BY DEF Stolen, Cleaned
<1>3. \A q \in Peers : /\ req[q] \in Request
                       /\ req[q].hashes = requests[q].hashes
                       /\ req[q].status = requests[q].status
                       /\ req[q].stolen = requests[q].stolen \cup Stolen(p, hs, direct, q)
  BY <1>1, <1>2 DEF Marked, Request
<1>4. req \in [Peers -> Request]
  BY <1>3 DEF Marked
<1>5. MapsTyped(ann, annd, alt, fet, req)
  BY <1>4 DEF MapsTyped, Clear, Release
<1>6. ASSUME NEW h \in Hashes
      PROVE  /\ waitlist'[h] = {} \/ annd[h] = {}
             /\ waitlist'[h] = {} \/ alt[h] = {}
             /\ annd[h] = {} \/ alt[h] = {}
             /\ fet[h] # NoPeer <=> alt[h] # {}
  BY LeaveWaitingKeeps DEF MapsAgree, Clear, Release
<1>7. ASSUME NEW q \in Peers, NEW h \in Hashes
      PROVE  /\ h \in ann[q] => q \in annd[h] \cup alt[h]
             /\ fet[h] = q => h \in ann[q] /\ q \in alt[h]
  BY FetcherAssumption DEF MapsAgree, Clear, Release
<1>8. ASSUME NEW q \in Peers, NEW h \in Hashes
      PROVE  /\ ~(direct /\ q = p /\ h \in hs)
                       => (fet[h] = q <=> h \in req[q].hashes \ req[q].stolen)
             /\ fet[h] = q => h \notin hs
             /\ h \in req[q].hashes \ req[q].stolen
                       => waitlist'[h] = {} /\ (h \notin hs => fet[h] = q)
  <2>1. fetching[h] = q <=> h \in requests[q].hashes \ requests[q].stolen
    BY DEF MapsAgree
  <2>2. fetching[h] = q => waitlist[h] = {} /\ waitlist'[h] = {}
    BY LeaveWaitingKeeps, FetcherAssumption DEF MapsAgree
  <2>3. fet[h] = q <=> fetching[h] = q /\ h \notin hs
    BY <2>2, FetcherAssumption DEF Release, Cleaned
  <2>4. h \in Stolen(p, hs, direct, q) <=> h \in hs /\ fetching[h] = q /\ (q # p \/ ~direct)
    BY <2>2 DEF Stolen, Cleaned
  <2> QED BY <1>3, <2>1, <2>2, <2>3, <2>4
<1> HIDE DEF ann, annd, alt, fet, req
<1>9. CleanedMaps(p, hs, direct, ann, annd, alt, fet, req)
  BY <1>3, <1>5, <1>6, <1>7, <1>8 DEF CleanedMaps
<1> QED BY <1>9 DEF ann, annd, alt, fet, req

\* Transactions that come unasked keep the invariant.
LEMMA BroadcastKeeps ==
    ASSUME IInv, NEW p \in Peers, NEW hs \in SUBSET Hashes, NEW direct \in BOOLEAN,
           HandleBroadcast(p, hs, direct)
    PROVE  IInv'
<1>1. /\ direct => requests[p].status = "none"
      /\ LeaveWaiting(hs)
      /\ announces' = [q \in Peers |-> announces[q] \ Cleaned(hs)]
      /\ announced' = Clear(announced, Cleaned(hs))
      /\ alternates' = Clear(alternates, Cleaned(hs))
      /\ fetching' = Release(fetching, Cleaned(hs))
      /\ requests' = Marked(p, hs, direct)
      /\ UNCHANGED <<waitTimer, timeoutTimer, sends, drops, panicked>>
  BY DEF HandleBroadcast, timers
<1>2. CleanedMaps(p, hs, direct, announces', announced', alternates', fetching', requests')
  BY <1>1, CleanedAgrees
<1>3. \A q \in Peers : /\ requests'[q].hashes = requests[q].hashes
                       /\ requests'[q].status = requests[q].status
  BY <1>2 DEF CleanedMaps
<1>4. direct => requests[p].hashes = {}
  BY <1>1 DEF IInv, MapsAgree
<1>5. ASSUME NEW q \in Peers, NEW h \in Hashes
      PROVE  fetching'[h] = q <=> h \in requests'[q].hashes \ requests'[q].stolen
  BY <1>2, <1>3, <1>4 DEF CleanedMaps
<1>6. MapsAgree(waitlist', announces', announced', alternates', fetching', requests')
  <2>1. \A q \in Peers : requests'[q].status = "none" => requests'[q].hashes = {}
    BY <1>3 DEF IInv, MapsAgree
  <2> QED BY <1>2, <1>5, <2>1 DEF MapsAgree, CleanedMaps
<1>7. /\ sends' \in [Peers -> Nat] /\ timeoutTimer' \in BOOLEAN /\ panicked' = FALSE
      /\ waitTimer' \in BOOLEAN /\ drops' \subseteq Peers
  BY <1>1 DEF IInv, Typed, NoPanic
<1> QED BY <1>1, <1>2, <1>6, <1>7, LeaveWaitingKeeps, Reassemble DEF CleanedMaps

\* The answer to a request keeps the invariant: what it misses is queued again, or
\* forgotten when nobody else has it.
LEMMA ReplyKeeps ==
    ASSUME IInv, NEW p \in Peers, NEW hs \in SUBSET Hashes, HandleReply(p, hs)
    PROVE  IInv'
<1> DEFINE req0    == Marked(p, hs, TRUE)
           owed    == req0[p].hashes \ req0[p].stolen
           missing == owed \ hs
           ann0    == [q \in Peers |-> announces[q] \ Cleaned(hs)]
           annd0   == Clear(announced, Cleaned(hs))
           alt0    == Clear(alternates, Cleaned(hs))
           fet0    == Release(fetching, Cleaned(hs))
<1>1. PICK before \in SUBSET missing :
        LET rest == Without(alt0, before, {p})
            ann  == [q \in Peers |-> (announces[q] \ Cleaned(hs))
                                      \ (IF q = p THEN before ELSE {})]
        IN ScheduleFetches(Announcers(ann), ann,
              [h \in Hashes |-> IF h \in missing /\ rest[h] # {} THEN rest[h] ELSE annd0[h]],
              Clear(rest, owed), Release(fetching, Cleaned(hs) \cup owed),
              [req0 EXCEPT ![p] = NoRequest], timeoutTimer,
              \E h \in missing : rest[h] # {} /\ annd0[h] # {})
  BY DEF HandleReply
<1> DEFINE rest == Without(alt0, before, {p})
           ann  == [q \in Peers |-> ann0[q] \ (IF q = p THEN before ELSE {})]
           annd == [h \in Hashes |-> IF h \in missing /\ rest[h] # {} THEN rest[h] ELSE annd0[h]]
           alt  == Clear(rest, owed)
           fet  == Release(fetching, Cleaned(hs) \cup owed)
           req  == [req0 EXCEPT ![p] = NoRequest]
           bad  == \E h \in missing : rest[h] # {} /\ annd0[h] # {}
<1>2. LeaveWaiting(hs) /\ UNCHANGED <<waitTimer, drops>>
  BY DEF HandleReply
<1>cleaned. CleanedMaps(p, hs, TRUE, ann0, annd0, alt0, fet0, req0)
  BY <1>2, CleanedAgrees
<1> HIDE DEF req0, ann0, annd0, alt0, fet0
<1>3. MapsTyped(ann0, annd0, alt0, fet0, req0)
  BY <1>cleaned DEF CleanedMaps
<1>4. ASSUME NEW h \in Hashes
      PROVE  /\ waitlist'[h] = {} \/ annd0[h] = {}
             /\ waitlist'[h] = {} \/ alt0[h] = {}
             /\ annd0[h] = {} \/ alt0[h] = {}
             /\ fet0[h] # NoPeer <=> alt0[h] # {}
  BY <1>cleaned DEF CleanedMaps
<1>5. ASSUME NEW q \in Peers, NEW h \in Hashes
      PROVE  /\ h \in ann0[q] => q \in annd0[h] \cup alt0[h]
             /\ fet0[h] = q => h \in ann0[q] /\ q \in alt0[h] /\ h \notin hs
             /\ q # p \/ h \notin hs
                   => (fet0[h] = q <=> h \in req0[q].hashes \ req0[q].stolen)
             /\ h \in req0[q].hashes \ req0[q].stolen
                   => waitlist'[h] = {} /\ (h \notin hs => fet0[h] = q)
  BY <1>cleaned DEF CleanedMaps
<1>6. owed \subseteq Hashes
  BY <1>3, RequestFields DEF MapsTyped
<1>7. \A h \in Hashes : h \in missing <=> fet0[h] = p
  BY <1>5
<1>8. \A h \in missing : h \in Hashes /\ fet0[h] = p /\ annd0[h] = {} /\ waitlist'[h] = {}
  BY <1>4, <1>5, <1>6, FetcherAssumption
<1>9. bad = FALSE
  BY <1>8
<1>10. fet = Release(fet0, owed)
  BY DEF Release, fet0
<1>11. \A h \in owed \ missing : fet0[h] # p /\ (\A q \in Peers : fet0[h] # q)
  BY <1>5, <1>6
<1>12. \A h \in owed \ missing : fet0[h] = NoPeer /\ alt0[h] = {}
  BY <1>3, <1>4, <1>6, <1>11 DEF MapsTyped
<1>13. MapsTyped(ann, annd, alt, fet, req)
  <2>1. NoRequest \in Request
    BY DEF NoRequest, Request
  <2> HIDE DEF owed, missing
  <2> QED BY <1>3, <1>10, <2>1 DEF MapsTyped, Clear, Release, Without
<1>14. MapsAgree(waitlist', ann, annd, alt, fet, req)
  <2>1. ASSUME NEW h \in Hashes
        PROVE  /\ waitlist'[h] = {} \/ annd[h] = {}
               /\ waitlist'[h] = {} \/ alt[h] = {}
               /\ annd[h] = {} \/ alt[h] = {}
               /\ fet[h] # NoPeer <=> alt[h] # {}
    <3>1. CASE h \in owed
      <4> HIDE DEF owed, missing
      <4> QED BY <1>3, <1>4, <1>8, <1>10, <1>12, <3>1 DEF Clear, Release, Without
    <3>2. CASE h \notin owed
      <4>1. annd[h] = annd0[h] /\ alt[h] = alt0[h] /\ fet[h] = fet0[h]
        BY <1>3, <1>10, <3>2 DEF Clear, Release, Without, MapsTyped
      <4> QED BY <1>4, <4>1
    <3> QED BY <3>1, <3>2
  <2>2. ASSUME NEW q \in Peers, NEW h \in Hashes
        PROVE  /\ h \in ann[q] => q \in annd[h] \cup alt[h]
               /\ fet[h] = q => h \in ann[q] /\ q \in alt[h]
    <3>1. CASE h \in missing
      <4>1. fet[h] = NoPeer /\ annd0[h] = {}
        BY <1>8, <1>10, <3>1 DEF Release
      <4>0. rest[h] = IF h \in before THEN alt0[h] \ {p} ELSE alt0[h]
        BY DEF Without
      <4>2. annd[h] = rest[h]
        BY <3>1, <4>1
      <4>3. ann[q] = ann0[q] \ (IF q = p THEN before ELSE {})
        OBVIOUS
      <4> HIDE DEF owed, missing, rest, ann, annd, alt, fet
      <4>4. h \in ann0[q] => q \in alt0[h]
        BY <1>5, <4>1
      <4> QED BY <4>1, <4>2, <4>3, <4>4, <4>0, FetcherAssumption
    <3>2. CASE h \in owed \ missing
      <4>1. annd[h] = annd0[h] /\ fet[h] = NoPeer /\ alt0[h] = {} /\ h \notin before
        BY <1>3, <1>10, <1>12, <3>2 DEF Clear, Release, Without, MapsTyped
      <4> QED BY <1>5, <4>1, FetcherAssumption
    <3>3. CASE h \notin owed
      <4>1. /\ annd[h] = annd0[h] /\ alt[h] = alt0[h] /\ fet[h] = fet0[h] /\ h \notin before
        BY <1>3, <1>10, <3>3 DEF Clear, Release, Without, MapsTyped
      <4>2. h \in ann[q] <=> h \in ann0[q]
        BY <4>1
      <4> HIDE DEF owed, missing, rest, ann, annd, alt, fet
      <4> QED BY <1>5, <4>1, <4>2
    <3> QED BY <3>1, <3>2, <3>3
  <2>3. ASSUME NEW q \in Peers, NEW h \in Hashes
        PROVE  fet[h] = q <=> h \in req[q].hashes \ req[q].stolen
    <3>1. CASE q = p
      <4>1. req[q].hashes = {}
        BY <1>3, <3>1 DEF MapsTyped, NoRequest
      <4>2. fet[h] # p
        <5> HIDE DEF owed
        <5>1. h \in owed => fet[h] = NoPeer
          BY <1>10 DEF Release
        <5>2. h \notin owed => fet[h] = fet0[h] /\ h \notin missing
          BY <1>10 DEF Release
        <5> QED BY <1>7, <5>1, <5>2, FetcherAssumption
      <4> QED BY <3>1, <4>1, <4>2
    <3>2. CASE q # p
      <4>1. req[q] = req0[q]
        BY <1>3, <3>2 DEF MapsTyped
      <4>2. fet[h] = q <=> fet0[h] = q
        <5> HIDE DEF owed
        <5>1. h \in owed => fet[h] = NoPeer
          BY <1>10 DEF Release
        <5>2. h \notin owed => fet[h] = fet0[h]
          BY <1>10 DEF Release
        <5> QED BY <1>8, <1>12, <3>2, <5>1, <5>2, FetcherAssumption
      <4> QED BY <1>5, <3>2, <4>1, <4>2
    <3> QED BY <3>1, <3>2
  <2>4. ASSUME NEW q \in Peers, req[q].status = "none"
        PROVE  req[q].hashes = {}
    <3>1. CASE q = p
      BY <1>3, <3>1 DEF MapsTyped, NoRequest
    <3>2. CASE q # p
      <4>1. req[q] = req0[q]
        BY <1>3, <3>2 DEF MapsTyped
      <4>2. requests[q].status = "none" => requests[q].hashes = {}
        BY DEF IInv, MapsAgree
      <4>3. \A r \in Peers : /\ req0[r].hashes = requests[r].hashes
                             /\ req0[r].status = requests[r].status
        BY <1>cleaned DEF CleanedMaps
      <4> QED BY <2>4, <4>1, <4>2, <4>3
    <3> QED BY <3>1, <3>2
  <2> HIDE DEF ann, annd, alt, fet, req
  <2> QED BY <2>1, <2>2, <2>3, <2>4 DEF MapsAgree
<1>15. ScheduleFetches(Announcers(ann), ann, annd, alt, fet, req, timeoutTimer, bad)
  BY <1>1 DEF ann0
<1> HIDE DEF ann, annd, alt, fet, req, bad
<1>16. /\ MapsTyped(announces', announced', alternates', fetching', requests')
       /\ MapsAgree(waitlist', announces', announced', alternates', fetching', requests')
       /\ sends' \in [Peers -> Nat] /\ timeoutTimer' \in BOOLEAN /\ panicked' = FALSE
  BY <1>9, <1>13, <1>14, <1>15, ScheduleKeeps, InvTyped
<1>17. waitTimer' \in BOOLEAN /\ drops' \subseteq Peers
  BY <1>2 DEF IInv, Typed
<1> QED BY <1>2, <1>16, <1>17, LeaveWaitingKeeps, Reassemble

\* The loss of a peer keeps the invariant.
LEMMA DropKeeps ==
    ASSUME IInv, NEW p \in Peers, HandleDrop(p)
    PROVE  IInv'
<1> DEFINE active == requests[p].status # "none"
           rest == Without(alternates, Pending(p), {p})
           ann  == [announces EXCEPT ![p] = {}]
           requeued == [h \in Hashes |-> IF h \in Pending(p) /\ rest[h] # {} THEN rest[h]
                                                                            ELSE announced[h]]
           annd == Without(requeued, announces[p], {p})
           alt  == Clear(rest, Pending(p))
           fet  == Release(fetching, Pending(p))
           req  == [requests EXCEPT ![p] = NoRequest]
           lost == {h \in waitslots[p] : waitlist[h] \subseteq {p}}
<1>1. /\ drops' = drops \ {p}
      /\ waitlist' = Without(waitlist, waitslots[p], {p})
      /\ waittime' = [h \in Hashes |-> IF h \in lost THEN "none" ELSE waittime[h]]
      /\ waitslots' = [waitslots EXCEPT ![p] = {}]
      /\ waitTimer' = IF waitslots[p] = {} THEN waitTimer
                      ELSE RescheduleWait(waitTimer, {h \in Hashes \ lost : waitlist[h] # {}})
      /\ ScheduleFetches(IF active THEN Announcers(ann) ELSE {}, ann, annd, alt, fet, req,
                         timeoutTimer \/ active, FALSE)
  BY DEF HandleDrop
<1>2. /\ waitlist \in [Hashes -> SUBSET Peers] /\ waittime \in [Hashes -> Ages]
      /\ waitslots \in [Peers -> SUBSET Hashes]
      /\ waitTimer \in BOOLEAN /\ drops \subseteq Peers
  BY DEF IInv, Typed
<1>3. /\ waitlist' \in [Hashes -> SUBSET Peers]
      /\ waittime' \in [Hashes -> Ages]
      /\ waitslots' \in [Peers -> SUBSET Hashes]
      /\ waitTimer' \in BOOLEAN /\ drops' \subseteq Peers
  BY <1>1, <1>2 DEF Without, Ages, RescheduleWait
<1>4. WaitAgrees'
  BY <1>1, <1>2 DEF IInv, WaitAgrees, Without, Ages
<1>5. \A h \in Hashes : h \in Pending(p) <=> fetching[h] = p
  BY DEF IInv, MapsAgree, Pending
<1>6. Pending(p) \subseteq Hashes
  BY InvTyped, RequestFields DEF MapsTyped, Pending
<1>7. MapsTyped(ann, annd, alt, fet, req)
  <2>1. NoRequest \in Request
    BY DEF NoRequest, Request
  <2> QED BY <2>1, InvTyped DEF MapsTyped, Clear, Release, Without
<1>8. MapsAgree(waitlist', ann, annd, alt, fet, req)
  <2> USE InvTyped DEF IInv, MapsTyped
  <2>1. ASSUME NEW h \in Hashes
        PROVE  /\ waitlist'[h] = {} \/ annd[h] = {}
               /\ waitlist'[h] = {} \/ alt[h] = {}
               /\ annd[h] = {} \/ alt[h] = {}
               /\ fet[h] # NoPeer <=> alt[h] # {}
    <3>1. waitlist[h] = {} => waitlist'[h] = {}
      BY <1>1 DEF Without
    <3>2. CASE h \in Pending(p)
      <4>1. waitlist'[h] = {}
        BY <1>5, <3>1, <3>2, FetcherAssumption DEF MapsAgree
      <4> QED BY <3>2, <4>1 DEF Clear, Release
    <3>3. CASE h \notin Pending(p)
      <4>1. alt[h] = alternates[h] /\ fet[h] = fetching[h] /\ annd[h] \subseteq announced[h]
        BY <3>3 DEF Clear, Release, Without
      <4> HIDE DEF ann, annd, alt, fet, rest
      <4> QED BY <3>1, <4>1 DEF MapsAgree
    <3> QED BY <3>2, <3>3
  <2>2. ASSUME NEW q \in Peers, NEW h \in Hashes
        PROVE  /\ h \in ann[q] => q \in annd[h] \cup alt[h]
               /\ fet[h] = q => h \in ann[q] /\ q \in alt[h]
    <3>1. CASE q = p
      <4>1. ann[q] = {}
        BY <3>1
      <4>2. fet[h] # p
        BY <1>5, FetcherAssumption DEF Release
      <4> QED BY <3>1, <4>1, <4>2
    <3>2. CASE q # p /\ h \in Pending(p)
      <4>1. announced[h] = {} /\ fet[h] = NoPeer /\ ann[q] = announces[q]
        BY <1>5, <3>2, FetcherAssumption DEF MapsAgree, Release
      <4>2. q \in rest[h] <=> q \in alternates[h]
        BY <3>2 DEF Without
      <4>3. q \in rest[h] => q \in annd[h]
        BY <3>2 DEF Without
      <4>4. h \in announces[q] => q \in alternates[h]
        BY <4>1 DEF MapsAgree
      <4> HIDE DEF ann, annd, alt, fet, rest
      <4> QED BY <4>1, <4>2, <4>3, <4>4, FetcherAssumption
    <3>3. CASE q # p /\ h \notin Pending(p)
      <4>1. /\ ann[q] = announces[q] /\ fet[h] = fetching[h] /\ alt[h] = alternates[h]
            /\ q \in annd[h] <=> q \in announced[h]
        BY <3>3 DEF Clear, Release, Without
      <4> QED BY <4>1 DEF MapsAgree
    <3> QED BY <3>1, <3>2, <3>3
  <2>3. ASSUME NEW q \in Peers, NEW h \in Hashes
        PROVE  fet[h] = q <=> h \in req[q].hashes \ req[q].stolen
    <3>1. CASE q = p
      BY <1>5, <3>1, FetcherAssumption DEF Release, NoRequest
    <3>2. CASE q # p
      <4>1. req[q] = requests[q] /\ (fet[h] = q <=> fetching[h] = q)
        BY <1>5, <3>2, FetcherAssumption DEF Release
      <4> QED BY <4>1 DEF MapsAgree
    <3> QED BY <3>1, <3>2
  <2>4. ASSUME NEW q \in Peers, req[q].status = "none"
        PROVE  req[q].hashes = {}
    BY <2>4 DEF MapsAgree, NoRequest
  <2> HIDE DEF ann, annd, alt, fet, req
  <2> QED BY <2>1, <2>2, <2>3, <2>4 DEF MapsAgree
<1> HIDE DEF ann, annd, alt, fet, req
<1>9. (timeoutTimer \/ active) \in BOOLEAN
  OBVIOUS
<1>10. /\ MapsTyped(announces', announced', alternates', fetching', requests')
       /\ MapsAgree(waitlist', announces', announced', alternates', fetching', requests')
       /\ sends' \in [Peers -> Nat] /\ timeoutTimer' \in BOOLEAN /\ panicked' = FALSE
  BY <1>1, <1>7, <1>8, <1>9, ScheduleKeeps, InvTyped
<1> QED BY <1>3, <1>4, <1>10, Reassemble

\* The goroutines of the requests, and the clock, touch no map but the ages.
LEMMA OthersKeep ==
    ASSUME IInv,
           \/ \E p \in Peers : FetchSent(p) \/ FetchFails(p) \/ Overdue(p)
           \/ \E h \in Hashes : Ripen(h)
    PROVE  IInv'
<1> USE DEF stage1, maps, timers
<1>1. ASSUME NEW p \in Peers, FetchSent(p) \/ FetchFails(p)
      PROVE  IInv'
  <2>1. sends' \in [Peers -> Nat] /\ drops' \subseteq Peers
    BY <1>1 DEF IInv, Typed, FetchSent, FetchFails
  <2> QED BY <1>1, <2>1 DEF IInv, Typed, WaitAgrees, MapsAgree, NoPanic, FetchSent, FetchFails
<1>2. ASSUME NEW p \in Peers, Overdue(p)
      PROVE  IInv'
  <2>1. /\ UNCHANGED <<waitlist, waittime, waitslots, announces, announced, fetching,
                       alternates, waitTimer, timeoutTimer, sends, drops, panicked>>
        /\ requests' = [requests EXCEPT ![p].status = "late"]
    BY <1>2 DEF Overdue
  <2>2. requests \in [Peers -> Request]
    BY DEF IInv, Typed
  <2>3. requests' \in [Peers -> Request]
    BY <2>1, <2>2 DEF Request
  <2>4. \A q \in Peers : /\ requests'[q].hashes = requests[q].hashes
                         /\ requests'[q].stolen = requests[q].stolen
                         /\ requests'[q].status = "none" => requests[q].status = "none"
    BY <2>1, <2>2 DEF Request
  <2>5. Typed'
    BY <2>1, <2>3 DEF IInv, Typed
  <2> QED BY <2>1, <2>4, <2>5 DEF IInv, WaitAgrees, MapsAgree, NoPanic
<1>3. ASSUME NEW h \in Hashes, Ripen(h)
      PROVE  IInv'
  <2>1. Typed' /\ WaitAgrees'
    BY <1>3 DEF IInv, Typed, WaitAgrees, Ripen, Ages
  <2> QED BY <1>3, <2>1 DEF IInv, MapsAgree, NoPanic, Ripen
<1> QED BY <1>1, <1>2, <1>3

\* Init establishes the invariant.
LEMMA InitInv == Init => IInv
<1> SUFFICES ASSUME Init PROVE IInv
  OBVIOUS
<1>1. NoRequest \in Request
  BY DEF NoRequest, Request
<1>2. Typed
  BY <1>1 DEF Init, Typed, Ages
<1>3. WaitAgrees /\ MapsAgree(waitlist, announces, announced, alternates, fetching, requests)
  BY FetcherAssumption DEF Init, WaitAgrees, MapsAgree, NoRequest
<1> QED BY <1>2, <1>3 DEF IInv, Init, NoPanic

\* Every step keeps the invariant.
LEMMA NextInv == IInv /\ [Next]_vars => IInv'
<1> SUFFICES ASSUME IInv, [Next]_vars PROVE IInv'
  OBVIOUS
<1>1. CASE UNCHANGED vars
  BY <1>1 DEF vars, stage1, maps, timers, IInv, Typed, WaitAgrees, MapsAgree, NoPanic
<1>2. CASE Handler
  BY <1>2, NotifyKeeps, BroadcastKeeps, ReplyKeeps, DropKeeps, WaitTriggerKeeps,
     TimeoutTriggerKeeps DEF Handler
<1>3. CASE Goroutine \/ Clock
  BY <1>3, OthersKeep DEF Goroutine, Clock
<1> QED BY <1>1, <1>2, <1>3 DEF Next

\* The fetcher's maps stay consistent.
THEOREM Consistent == Spec => []IInv
BY InitInv, NextInv, PTL DEF Spec

\* scheduleFetches makes requests that nothing was taken from yet.
LEMMA ScheduleAsks ==
    ASSUME NEW actives, NEW ann, NEW annd, NEW alt, NEW fet, NEW req, NEW armed, NEW bad,
           \A p \in Peers : req[p].status # "dangling" => req[p].stolen \subseteq req[p].hashes,
           ScheduleFetches(actives, ann, annd, alt, fet, req, armed, bad)
    PROVE  StolenAsked'
<1>1. PICK give \in [Hashes -> Peers \cup {NoPeer}] :
        requests' = [p \in Peers |->
                        IF {h \in Hashes : give[h] = p} # {}
                        THEN [hashes |-> {h \in Hashes : give[h] = p}, stolen |-> {}, status |-> "live"]
                        ELSE req[p]]
  BY DEF ScheduleFetches
<1> QED BY <1>1 DEF StolenAsked

\* A delivery marks the hash in the request that asked for it.
LEMMA MarkedAsked ==
    ASSUME IInv, StolenAsked, NEW p, NEW hs \in SUBSET Hashes, NEW direct
    PROVE  \A q \in Peers : Marked(p, hs, direct)[q].status # "dangling" =>
              Marked(p, hs, direct)[q].stolen \subseteq Marked(p, hs, direct)[q].hashes
<1> SUFFICES ASSUME NEW q \in Peers, Marked(p, hs, direct)[q].status # "dangling"
             PROVE  Marked(p, hs, direct)[q].stolen \subseteq Marked(p, hs, direct)[q].hashes
  OBVIOUS
<1>1. requests[q] \in Request /\ \A h \in Hashes : fetching[h] = q => h \in requests[q].hashes
  BY DEF IInv, Typed, MapsAgree
<1>2. fetching \in [Hashes -> Peers \cup {NoPeer}]
  BY DEF IInv, Typed
<1>3. ASSUME NEW h \in Stolen(p, hs, direct, q) PROVE h \in requests[q].hashes
  BY <1>1, <1>3 DEF Stolen, Cleaned
<1>4. /\ Marked(p, hs, direct)[q].status = requests[q].status
      /\ Marked(p, hs, direct)[q].hashes = requests[q].hashes
      /\ Marked(p, hs, direct)[q].stolen = requests[q].stolen \cup Stolen(p, hs, direct, q)
  BY <1>1 DEF Marked, Request
<1> QED BY <1>1, <1>3, <1>4 DEF StolenAsked

\* Every step keeps the marks where they belong.
LEMMA NextAsks == IInv /\ StolenAsked /\ [Next]_vars => StolenAsked'
<1> SUFFICES ASSUME IInv, StolenAsked, [Next]_vars PROVE StolenAsked'
  OBVIOUS
<1>0. /\ requests \in [Peers -> Request]
      /\ \A p \in Peers : requests[p].status # "dangling" => requests[p].stolen \subseteq requests[p].hashes
  BY DEF IInv, Typed, StolenAsked
<1>1. ASSUME requests' = requests PROVE StolenAsked'
  BY <1>1 DEF StolenAsked
<1>2. ASSUME NEW p \in Peers, NEW hs, HandleNotify(p, hs) PROVE StolenAsked'
  BY <1>0, <1>2, ScheduleAsks DEF HandleNotify
<1>3. CASE HandleWaitTrigger
  BY <1>0, <1>3, ScheduleAsks DEF HandleWaitTrigger
<1>4. CASE HandleTimeoutTrigger
  <2> DEFINE R == [p \in Peers |-> IF p \in Expired
                                   THEN [requests[p] EXCEPT !.hashes = {}, !.status = "dangling"]
                                   ELSE requests[p]]
  <2>1. \A p \in Peers : R[p].status # "dangling" => R[p].stolen \subseteq R[p].hashes
    BY <1>0 DEF Request
  <2> HIDE DEF R
  <2>2. \E actives, ann, annd, alt, fet, armed, bad :
            ScheduleFetches(actives, ann, annd, alt, fet, R, armed, bad)
    BY <1>4, Zenon DEF HandleTimeoutTrigger, R
  <2> QED BY <2>1, <2>2, ScheduleAsks
<1>5. ASSUME NEW p \in Peers, NEW hs \in SUBSET Hashes, NEW direct, HandleBroadcast(p, hs, direct)
      PROVE  StolenAsked'
  BY <1>5, MarkedAsked DEF HandleBroadcast, StolenAsked
<1>6. ASSUME NEW p \in Peers, NEW hs \in SUBSET Hashes, HandleReply(p, hs) PROVE StolenAsked'
  <2> DEFINE R == [Marked(p, hs, TRUE) EXCEPT ![p] = NoRequest]
  <2>1. \A q \in Peers : R[q].status # "dangling" => R[q].stolen \subseteq R[q].hashes
    <3>1. R = [q \in Peers |-> IF q = p THEN NoRequest ELSE Marked(p, hs, TRUE)[q]]
      BY DEF Marked
    <3> HIDE DEF R
    <3> QED BY <3>1, MarkedAsked DEF NoRequest
  <2> HIDE DEF R
  <2>2. \E actives, ann, annd, alt, fet, armed, bad :
            ScheduleFetches(actives, ann, annd, alt, fet, R, armed, bad)
    BY <1>6, Zenon DEF HandleReply, R
  <2> QED BY <2>1, <2>2, ScheduleAsks
<1>7. ASSUME NEW p \in Peers, HandleDrop(p) PROVE StolenAsked'
  <2> DEFINE R == [requests EXCEPT ![p] = NoRequest]
  <2>1. \A q \in Peers : R[q].status # "dangling" => R[q].stolen \subseteq R[q].hashes
    BY <1>0 DEF NoRequest
  <2> HIDE DEF R
  <2>2. \E actives, ann, annd, alt, fet, armed, bad :
            ScheduleFetches(actives, ann, annd, alt, fet, R, armed, bad)
    BY <1>7, Zenon DEF HandleDrop, R
  <2> QED BY <2>1, <2>2, ScheduleAsks
<1>8. ASSUME NEW p \in Peers, Overdue(p) PROVE StolenAsked'
  <2>1. \A q \in Peers : /\ requests'[q].hashes = requests[q].hashes
                         /\ requests'[q].stolen = requests[q].stolen
                         /\ requests'[q].status = "dangling" <=> requests[q].status = "dangling"
    BY <1>0, <1>8 DEF Overdue, Request
  <2> QED BY <1>0, <2>1 DEF StolenAsked
<1>9. CASE UNCHANGED vars \/ Goroutine \/ \E h \in Hashes : Ripen(h)
  BY <1>1, <1>9 DEF vars, maps, Goroutine, FetchSent, FetchFails, Ripen
<1> QED BY <1>2, <1>3, <1>4, <1>5, <1>6, <1>7, <1>8, <1>9 DEF Next, Handler, Clock

\* Every variable of the fetcher keeps its type, and the marks of stolen hashes stay in
\* the requests that asked for them, whatever is delivered, dropped or given up when.
THEOREM TypeCorrect == Spec => []TypeOK
<1>1. Init => StolenAsked
  BY DEF Init, StolenAsked, NoRequest
<1>2. IInv /\ StolenAsked => TypeOK
  BY DEF IInv, TypeOK
<1> QED BY <1>1, <1>2, InitInv, NextInv, NextAsks, PTL DEF Spec

\* The documented invariant of TxFetcher: a tracked hash is only present in one
\* of the three stages.
THEOREM StagesDisjoint == Spec => []OneStage
<1>1. IInv => OneStage
  BY DEF IInv, OneStage, MapsAgree
<1> QED BY <1>1, Consistent, PTL

\* The maps by peer and the maps by hash never disagree on what a peer announced.
THEOREM IndexesConsistent == Spec => []IndexesAgree
<1>1. IInv => IndexesAgree
  BY DEF IInv, IndexesAgree, WaitAgrees, MapsAgree
<1> QED BY <1>1, Consistent, PTL

\* A hash is being fetched from a peer exactly while that peer's request misses it.
THEOREM FetchesConsistent == Spec => []FetchMatchesRequest
<1>1. IInv => FetchMatchesRequest
  BY DEF IInv, FetchMatchesRequest, MapsAgree, Pending
<1> QED BY <1>1, Consistent, PTL

\* No panic of the loop is reachable.
THEOREM NeverPanics == Spec => []NoPanic
<1>1. IInv => NoPanic
  BY DEF IInv
<1> QED BY <1>1, Consistent, PTL

-----------------------------------------------------------------------------
(* The timers: whatever only a trigger can move on keeps its timer armed.  An
   entry of the wait list has an age exactly while peers wait. *)

\* The two halves of NoLostTimer: the wait list's timer and the requests'.
WaitArmed    == (\E h \in Hashes : waittime[h] # "none") => waitTimer
TimeoutArmed == (\E p \in Peers : requests[p].status # "none") => timeoutTimer

\* A handler that schedules fetches arms the timeout for the first request, and
\* leaves it armed for those that were there.
LEMMA ScheduleArms ==
    ASSUME NEW actives, NEW ann, NEW annd, NEW alt, NEW fet, NEW req,
           NEW armed \in BOOLEAN, NEW bad,
           ScheduleFetches(actives, ann, annd, alt, fet, req, armed, bad),
           (\E p \in Peers : req[p].status # "none") => armed
    PROVE  TimeoutArmed'
<1> DEFINE Idle(p)      == p \in actives /\ req[p].status = "none"
           Fetchable(p) == {h \in ann[p] : fet[h] = NoPeer}
<1>1. PICK give \in [Hashes -> Peers \cup {NoPeer}] :
        /\ \A h \in {g \in Hashes : give[g] # NoPeer} : Idle(give[h])
        /\ requests' = [p \in Peers |->
                IF {h \in Hashes : give[h] = p} # {}
                THEN [hashes |-> {h \in Hashes : give[h] = p}, stolen |-> {}, status |-> "live"]
                ELSE req[p]]
        /\ timeoutTimer' = (armed \/ ({g \in Hashes : give[g] # NoPeer} # {}
                                      /\ \A p \in Peers : req[p].status = "none"))
  BY DEF ScheduleFetches
<1>2. SUFFICES ASSUME NEW p \in Peers, requests'[p].status # "none", ~armed
               PROVE  timeoutTimer'
  BY <1>1 DEF TimeoutArmed
<1>3. \A q \in Peers : req[q].status = "none"
  BY <1>2
<1>4. {h \in Hashes : give[h] = p} # {}
  BY <1>1, <1>2, <1>3
<1>5. {g \in Hashes : give[g] # NoPeer} # {}
  BY <1>4, FetcherAssumption
<1> QED BY <1>1, <1>3, <1>5

\* An announcement arms the wait timer when the wait list was empty.
LEMMA NotifyArms ==
    ASSUME IInv, NoLostTimer, NEW p \in Peers, NEW hs \in SUBSET Hashes, HandleNotify(p, hs)
    PROVE  NoLostTimer'
<1>1. PICK kept \in SUBSET hs :
        LET waiting == kept \ (InFlight(kept) \cup Queued(kept))
            fresh   == {h \in waiting : waitlist[h] = {}}
            idle    == \A h \in Hashes : waittime[h] = "none"
        IN /\ waittime' = [h \in Hashes |-> IF h \in fresh THEN "young" ELSE waittime[h]]
           /\ waitTimer' = RescheduleWait(waitTimer, IF idle THEN fresh ELSE {})
           /\ \E actives, ann, annd, alt :
                ScheduleFetches(actives, ann, annd, alt, fetching, requests, timeoutTimer, FALSE)
  BY DEF HandleNotify
<1>2. WaitArmed'
  BY <1>1 DEF WaitArmed, NoLostTimer, RescheduleWait
<1>3. TimeoutArmed'
  BY <1>1, ScheduleArms DEF NoLostTimer, IInv, Typed
<1> QED BY <1>2, <1>3 DEF NoLostTimer, WaitArmed, TimeoutArmed

\* The end of the wait arms the timer again for the entries that stay.
LEMMA WaitTriggerArms ==
    ASSUME IInv, NoLostTimer, HandleWaitTrigger
    PROVE  NoLostTimer'
<1> DEFINE expired == {h \in Hashes : waittime[h] = "ripe"}
<1>1. /\ waittime' = [h \in Hashes |-> IF h \in expired THEN "none" ELSE waittime[h]]
      /\ waitTimer' = RescheduleWait(FALSE, {h \in Hashes \ expired : waittime[h] # "none"})
      /\ \E actives, ann, annd, bad :
            ScheduleFetches(actives, ann, annd, alternates, fetching, requests, timeoutTimer, bad)
  BY DEF HandleWaitTrigger
<1>2. WaitArmed'
  BY <1>1 DEF WaitArmed, RescheduleWait
<1>3. TimeoutArmed'
  BY <1>1, ScheduleArms DEF NoLostTimer, IInv, Typed
<1> QED BY <1>2, <1>3 DEF NoLostTimer, WaitArmed, TimeoutArmed

\* The timeout arms its timer again as long as a request is there.
LEMMA TimeoutTriggerArms ==
    ASSUME IInv, NoLostTimer, HandleTimeoutTrigger
    PROVE  NoLostTimer'
<1>1. /\ UNCHANGED <<stage1, waitTimer>>
      /\ \E actives, ann, annd, alt, fet, req, bad :
            ScheduleFetches(actives, ann, annd, alt, fet, req, TRUE, bad)
  BY DEF HandleTimeoutTrigger
<1>2. WaitArmed'
  BY <1>1 DEF WaitArmed, NoLostTimer, stage1
<1>3. TimeoutArmed'
  BY <1>1, ScheduleArms
<1> QED BY <1>2, <1>3 DEF NoLostTimer, WaitArmed, TimeoutArmed

\* A delivery adds no entry to the wait list, and no request.
LEMMA DeliveryArms ==
    ASSUME IInv, NoLostTimer, NEW p \in Peers, NEW hs \in SUBSET Hashes, NEW direct \in BOOLEAN,
           HandleBroadcast(p, hs, direct) \/ HandleReply(p, hs)
    PROVE  NoLostTimer'
<1>1. LeaveWaiting(hs) /\ UNCHANGED waitTimer
  BY DEF HandleBroadcast, HandleReply, timers
<1>2. WaitArmed'
  BY <1>1 DEF WaitArmed, NoLostTimer, LeaveWaiting
<1>3. \A s, q \in Peers : \A d \in BOOLEAN : Marked(s, hs, d)[q].status = requests[q].status
  BY DEF Marked, IInv, Typed, Request
<1>4. CASE HandleBroadcast(p, hs, direct)
  <2>1. requests' = Marked(p, hs, direct) /\ UNCHANGED timeoutTimer
    BY <1>4 DEF HandleBroadcast, timers
  <2>2. TimeoutArmed'
    BY <1>3, <2>1 DEF TimeoutArmed, NoLostTimer
  <2> QED BY <1>2, <2>2 DEF NoLostTimer, WaitArmed, TimeoutArmed
<1>5. CASE HandleReply(p, hs)
  <2> DEFINE req == [Marked(p, hs, TRUE) EXCEPT ![p] = NoRequest]
  <2>1. \E actives, ann, annd, alt, fet, bad :
            ScheduleFetches(actives, ann, annd, alt, fet, req, timeoutTimer, bad)
    BY <1>5 DEF HandleReply
  <2>2. \A q \in Peers : req[q].status \in {"none", requests[q].status}
    BY <1>3 DEF NoRequest, Marked
  <2>3. (\E q \in Peers : req[q].status # "none") => timeoutTimer
    BY <2>2 DEF NoLostTimer
  <2>4. TimeoutArmed'
    <3> HIDE DEF req
    <3> QED BY <2>1, <2>3, ScheduleArms DEF IInv, Typed
  <2> QED BY <1>2, <2>4 DEF NoLostTimer, WaitArmed, TimeoutArmed
<1> QED BY <1>4, <1>5

\* A dropped peer takes its entries with it; the timer is armed for the others.
LEMMA DropArms ==
    ASSUME IInv, NoLostTimer, NEW p \in Peers, HandleDrop(p)
    PROVE  NoLostTimer'
<1> DEFINE lost == {h \in waitslots[p] : waitlist[h] \subseteq {p}}
           req  == [requests EXCEPT ![p] = NoRequest]
           active == requests[p].status # "none"
<1>1. /\ waittime' = [h \in Hashes |-> IF h \in lost THEN "none" ELSE waittime[h]]
      /\ waitTimer' = IF waitslots[p] = {} THEN waitTimer
                      ELSE RescheduleWait(waitTimer, {h \in Hashes \ lost : waitlist[h] # {}})
      /\ \E actives, ann, annd, alt, fet :
            ScheduleFetches(actives, ann, annd, alt, fet, req, timeoutTimer \/ active, FALSE)
  BY DEF HandleDrop
<1>2. \A h \in Hashes : (waittime[h] = "none") = (waitlist[h] = {})
  BY DEF IInv, WaitAgrees
<1>3. WaitArmed'
  BY <1>1, <1>2 DEF WaitArmed, NoLostTimer, RescheduleWait
<1>4. (\E q \in Peers : req[q].status # "none") => timeoutTimer \/ active
  BY DEF NoLostTimer, NoRequest, IInv, Typed
<1>5. TimeoutArmed'
  <2> HIDE DEF req, active
  <2>1. (timeoutTimer \/ active) \in BOOLEAN
    BY DEF IInv, Typed
  <2> QED BY <1>1, <1>4, <2>1, ScheduleArms
<1> QED BY <1>3, <1>5 DEF NoLostTimer, WaitArmed, TimeoutArmed

\* The request goroutines and the clock start no work.
LEMMA OthersArm ==
    ASSUME IInv, NoLostTimer, Goroutine \/ Clock \/ UNCHANGED vars
    PROVE  NoLostTimer'
<1>1. CASE Goroutine \/ UNCHANGED vars
  BY <1>1 DEF Goroutine, FetchSent, FetchFails, NoLostTimer, vars, stage1, maps, timers
<1>2. CASE Clock
  <2>1. ASSUME NEW h \in Hashes, Ripen(h) PROVE NoLostTimer'
    BY <2>1 DEF Ripen, NoLostTimer, maps, timers, IInv, Typed
  <2>2. ASSUME NEW p \in Peers, Overdue(p) PROVE NoLostTimer'
    BY <2>2 DEF Overdue, NoLostTimer, stage1, timers, IInv, Typed, Request
  <2> QED BY <1>2, <2>1, <2>2 DEF Clock
<1> QED BY <1>1, <1>2

\* Whatever only a trigger can move on has its timer armed, for any peers,
\* hashes and limits.
THEOREM TimersKept == Spec => []NoLostTimer
<1>1. Init => NoLostTimer
  BY DEF Init, NoLostTimer, NoRequest
<1>2. IInv /\ NoLostTimer /\ [Next]_vars => NoLostTimer'
  <2> SUFFICES ASSUME IInv, NoLostTimer, [Next]_vars PROVE NoLostTimer'
    OBVIOUS
  <2>1. CASE Handler
    BY <2>1, NotifyArms, WaitTriggerArms, TimeoutTriggerArms, DeliveryArms, DropArms DEF Handler
  <2> QED BY <2>1, OthersArm DEF Next
<1> QED BY <1>1, <1>2, Consistent, PTL DEF Spec

-----------------------------------------------------------------------------
(* The loop implements the documented automaton (FetchAutomaton): each case *)
(* of its select is one event of the automaton, with the batches that       *)
(* scheduleFetches hands out at its end.                                    *)

\* The automaton's sources and stages, of the maps a handler has left.
Sources(wl, annd, alt) == [h \in Hashes |-> wl[h] \cup annd[h] \cup alt[h]]
StagesOf(wl, annd, alt) ==
    [h \in Hashes |-> CASE wl[h] # {} -> "waiting"
                        [] annd[h] # {} -> "queued"
                        [] alt[h] # {} -> "fetching"
                        [] OTHER -> "unknown"]

\* The automaton's AfterEvent, of the state it is mapped to.
AfterEvent(src, st, own) ==
    LET given == {h \in Hashes : fetching'[h] # own[h]}
    IN  /\ src = Sources(waitlist', announced', alternates')
        /\ fetching' \in [Hashes -> Peers \cup {NoPeer}]
        /\ \A h \in given : st[h] = "queued" /\ fetching'[h] \in src[h]
        /\ \A h \in given, g \in Hashes : own[g] # fetching'[h]
        /\ StagesOf(waitlist', announced', alternates')
              = [h \in Hashes |-> IF h \in given THEN "fetching" ELSE st[h]]

\* The stage of one hash, for as long as it is in one only.
LEMMA StageIs ==
    ASSUME NEW wl, NEW annd, NEW alt, NEW h \in Hashes,
           wl[h] = {} \/ annd[h] = {}, wl[h] = {} \/ alt[h] = {}, annd[h] = {} \/ alt[h] = {}
    PROVE  /\ wl[h] # {} => StagesOf(wl, annd, alt)[h] = "waiting"
           /\ annd[h] # {} => StagesOf(wl, annd, alt)[h] = "queued"
           /\ alt[h] # {} => StagesOf(wl, annd, alt)[h] = "fetching"
           /\ wl[h] = {} /\ annd[h] = {} /\ alt[h] = {} => StagesOf(wl, annd, alt)[h] = "unknown"
  BY DEF StagesOf

\* The state of the automaton, and what the invariant says of a hash.
LEMMA Mapped ==
    ASSUME IInv
    PROVE  /\ waitlist \in [Hashes -> SUBSET Peers] /\ announced \in [Hashes -> SUBSET Peers]
           /\ alternates \in [Hashes -> SUBSET Peers] /\ fetching \in [Hashes -> Peers \cup {NoPeer}]
           /\ \A h \in Hashes :
                 /\ waitlist[h] = {} \/ announced[h] = {}
                 /\ waitlist[h] = {} \/ alternates[h] = {}
                 /\ announced[h] = {} \/ alternates[h] = {}
                 /\ fetching[h] # NoPeer <=> alternates[h] # {}
                 /\ waittime[h] = "none" <=> waitlist[h] = {}
                 /\ \A p \in Peers : /\ h \in waitslots[p] <=> p \in waitlist[h]
                                     /\ h \in announces[p] => p \in announced[h] \cup alternates[h]
                                     /\ h \in Pending(p) <=> fetching[h] = p
                                     /\ fetching[h] = p => h \in announces[p] /\ p \in alternates[h]
           /\ \A p \in Peers : Pending(p) \subseteq Hashes
<1>1. \A p \in Peers : Pending(p) \subseteq Hashes
  BY RequestFields DEF IInv, Typed, Pending
<1> QED BY <1>1 DEF IInv, Typed, MapsAgree, WaitAgrees, Pending

\* What scheduleFetches hands out is what the automaton may after an event.
LEMMA HandsOut ==
    ASSUME IInv', NEW actives, NEW ann, NEW annd, NEW alt, NEW fet, NEW req, NEW armed, NEW bad,
           ScheduleFetches(actives, ann, annd, alt, fet, req, armed, bad)
    PROVE  AfterEvent(Sources(waitlist', annd, alt), StagesOf(waitlist', annd, alt), fet)
<1> DEFINE Idle(p)      == p \in actives /\ req[p].status = "none"
           Fetchable(p) == {h \in ann[p] : fet[h] = NoPeer}
<1>1. PICK give \in [Hashes -> Peers \cup {NoPeer}] :
        LET Batch(p) == {h \in Hashes : give[h] = p}
            taken    == {h \in Hashes : give[h] # NoPeer}
        IN  /\ \A h \in taken : Idle(give[h]) /\ h \in Fetchable(give[h])
            /\ announced' = Clear(annd, taken)
            /\ alternates' = [h \in Hashes |-> IF h \in taken THEN annd[h] ELSE alt[h]]
            /\ fetching' = [h \in Hashes |-> IF h \in taken THEN give[h] ELSE fet[h]]
            /\ requests' = [p \in Peers |->
                    IF Batch(p) # {}
                    THEN [hashes |-> Batch(p), stolen |-> {}, status |-> "live"]
                    ELSE req[p]]
            /\ panicked' = (bad \/ \E h \in taken : alt[h] # {})
  BY DEF ScheduleFetches
<1> DEFINE Batch(p) == {h \in Hashes : give[h] = p}
           taken    == {h \in Hashes : give[h] # NoPeer}
           src == Sources(waitlist', annd, alt)
           st  == StagesOf(waitlist', annd, alt)
<1>2. /\ panicked' = FALSE /\ fetching' \in [Hashes -> Peers \cup {NoPeer}]
      /\ \A h \in Hashes : /\ waitlist'[h] = {} \/ announced'[h] = {}
                           /\ waitlist'[h] = {} \/ alternates'[h] = {}
                           /\ announced'[h] = {} \/ alternates'[h] = {}
                           /\ \A p \in Peers : fetching'[h] = p => p \in alternates'[h]
      /\ \A p \in Peers, h \in Hashes :
            fetching'[h] = p => h \in requests'[p].hashes
  BY DEF IInv, Typed, NoPanic, MapsAgree
<1>3. ASSUME NEW h \in taken
      PROVE  /\ h \in Hashes /\ give[h] \in Peers /\ fet[h] = NoPeer /\ alt[h] = {}
             /\ fetching'[h] = give[h] /\ alternates'[h] = annd[h] /\ announced'[h] = {}
             /\ give[h] \in annd[h] /\ waitlist'[h] = {}
  <2>1. /\ h \in Hashes /\ give[h] \in Peers /\ fet[h] = NoPeer /\ alt[h] = {}
        /\ fetching'[h] = give[h] /\ alternates'[h] = annd[h] /\ announced'[h] = {}
    BY <1>1, <1>2 DEF Clear
  <2>2. give[h] \in annd[h]
    BY <1>2, <2>1
  <2> QED BY <1>2, <2>1, <2>2
<1>4. ASSUME NEW h \in Hashes, h \notin taken
      PROVE  fetching'[h] = fet[h] /\ alternates'[h] = alt[h] /\ announced'[h] = annd[h]
  BY <1>1, <1>4 DEF Clear
<1>5. \A h \in Hashes : h \in taken <=> fetching'[h] # fet[h]
  BY <1>3, <1>4, FetcherAssumption
<1>6. ASSUME NEW h \in taken, NEW g \in Hashes
      PROVE  fet[g] # fetching'[h]
  <2>1. CASE g \in taken
    BY <1>3, <2>1, FetcherAssumption
  <2>2. CASE g \notin taken
    <3>1. SUFFICES ASSUME fet[g] = fetching'[h] PROVE FALSE
      OBVIOUS
    <3>2. fetching'[g] = give[h] /\ give[h] \in Peers
      BY <1>3, <1>4, <2>2, <3>1
    <3>3. requests'[give[h]].hashes = Batch(give[h])
      BY <1>1, <1>3, <3>2
    <3>4. g \in Batch(give[h])
      BY <1>2, <3>2, <3>3
    <3> QED BY <2>2, <3>2, <3>4, FetcherAssumption
  <2> QED BY <2>1, <2>2
<1>7. Sources(waitlist', announced', alternates') = src
  <2>1. \A h \in Hashes : waitlist'[h] \cup announced'[h] \cup alternates'[h]
                            = waitlist'[h] \cup annd[h] \cup alt[h]
    BY <1>3, <1>4
  <2> QED BY <2>1 DEF Sources
<1>8. \A h \in taken : st[h] = "queued" /\ fetching'[h] \in src[h]
  BY <1>3 DEF Sources, StagesOf
<1>9. StagesOf(waitlist', announced', alternates')
        = [h \in Hashes |-> IF h \in taken THEN "fetching" ELSE st[h]]
  <2> DEFINE old == StagesOf(waitlist', annd, alt)
             new == StagesOf(waitlist', announced', alternates')
  <2>1. \A h \in taken : new[h] = "fetching"
    <3> SUFFICES ASSUME NEW h \in taken PROVE new[h] = "fetching"
      OBVIOUS
    <3>1. h \in Hashes /\ waitlist'[h] = {} /\ announced'[h] = {} /\ alternates'[h] # {}
      BY <1>3
    <3> QED BY <3>1 DEF StagesOf
  <2>2. \A h \in Hashes \ taken : new[h] = old[h]
    BY <1>4 DEF StagesOf
  <2>3. new = [h \in Hashes |-> new[h]]
    BY DEF StagesOf
  <2> HIDE DEF new, old
  <2> QED BY <2>1, <2>2, <2>3 DEF new, old
<1> DEFINE given == {h \in Hashes : fetching'[h] # fet[h]}
<1>10. given = taken
  BY <1>5
<1> HIDE DEF taken, src, st
<1>11. /\ \A h \in given : st[h] = "queued" /\ fetching'[h] \in src[h]
       /\ \A h \in given, g \in Hashes : fet[g] # fetching'[h]
       /\ StagesOf(waitlist', announced', alternates')
            = [h \in Hashes |-> IF h \in given THEN "fetching" ELSE st[h]]
  BY <1>6, <1>8, <1>9, <1>10
<1> HIDE DEF given
<1> QED BY <1>2, <1>7, <1>11 DEF AfterEvent, given, src, st

\* An event of the automaton, from what it leaves of each hash.
LEMMA EventOf ==
    ASSUME NEW wl, NEW annd, NEW alt, NEW fet, NEW src, NEW st, NEW own,
           AfterEvent(Sources(wl, annd, alt), StagesOf(wl, annd, alt), fet),
           src = [h \in Hashes |-> src[h]], st = [h \in Hashes |-> st[h]],
           fet = own,
           \A h \in Hashes : /\ wl[h] \cup annd[h] \cup alt[h] = src[h]
                             /\ StagesOf(wl, annd, alt)[h] = st[h]
    PROVE  AfterEvent(src, st, own)
<1>1. Sources(wl, annd, alt) = src
  BY DEF Sources
<1>2. StagesOf(wl, annd, alt) = [h \in Hashes |-> StagesOf(wl, annd, alt)[h]]
  BY DEF StagesOf
<1>3. StagesOf(wl, annd, alt) = st
  BY <1>2
<1> QED BY <1>1, <1>3

\* An announcement that is let through announces the hashes kept.
LEMMA NotifyAnnounces ==
    ASSUME IInv, IInv', NEW p \in Peers, NEW hs \in SUBSET Hashes, HandleNotify(p, hs)
    PROVE  \E kept \in SUBSET Hashes : Automaton!Announce(p, kept)
<1>1. PICK kept \in SUBSET hs :
        LET waiting == kept \ (InFlight(kept) \cup Queued(kept))
        IN  /\ waitlist' = With(waitlist, waiting, {p})
            /\ \E actives, ann :
                  ScheduleFetches(actives, ann, With(announced, Queued(kept), {p}),
                                  With(alternates, InFlight(kept), {p}),
                                  fetching, requests, timeoutTimer, FALSE)
  BY DEF HandleNotify
<1> DEFINE annd == With(announced, Queued(kept), {p})
           alt  == With(alternates, InFlight(kept), {p})
           src  == Sources(waitlist, announced, alternates)
           st   == StagesOf(waitlist, announced, alternates)
           src1 == [h \in Hashes |-> IF h \in kept THEN src[h] \cup {p} ELSE src[h]]
           st1  == [h \in Hashes |-> IF h \in kept /\ st[h] = "unknown" THEN "waiting" ELSE st[h]]
<1>2. AfterEvent(Sources(waitlist', annd, alt), StagesOf(waitlist', annd, alt), fetching)
  <2>1. PICK actives, ann :
          ScheduleFetches(actives, ann, annd, alt, fetching, requests, timeoutTimer, FALSE)
    BY <1>1
  <2> HIDE DEF annd, alt
  <2> QED BY <2>1, HandsOut
<1>3. ASSUME NEW h \in Hashes
      PROVE  /\ waitlist'[h] \cup annd[h] \cup alt[h] = src1[h]
             /\ StagesOf(waitlist', annd, alt)[h] = st1[h]
  <2>1. /\ waitlist[h] = {} \/ announced[h] = {}
        /\ waitlist[h] = {} \/ alternates[h] = {}
        /\ announced[h] = {} \/ alternates[h] = {}
    BY Mapped
  <2>2. src[h] = waitlist[h] \cup announced[h] \cup alternates[h]
    BY DEF Sources
  <2>3. CASE h \notin kept
    <3>1. waitlist'[h] = waitlist[h] /\ annd[h] = announced[h] /\ alt[h] = alternates[h]
      BY <1>1, <2>3 DEF With, InFlight, Queued
    <3> QED BY <2>1, <2>2, <2>3, <3>1, StageIs
  <2>4. CASE h \in kept /\ alternates[h] # {}
    <3>1. waitlist'[h] = {} /\ annd[h] = {} /\ alt[h] = alternates[h] \cup {p}
      BY <1>1, <2>1, <2>4 DEF With, InFlight, Queued
    <3>2. st[h] = "fetching" /\ waitlist[h] = {} /\ announced[h] = {}
      BY <2>1, <2>4, StageIs
    <3>3. StagesOf(waitlist', annd, alt)[h] = "fetching"
      BY <3>1 DEF StagesOf
    <3> QED BY <2>2, <2>4, <3>1, <3>2, <3>3
  <2>5. CASE h \in kept /\ announced[h] # {}
    <3>1. waitlist'[h] = {} /\ annd[h] = announced[h] \cup {p} /\ annd[h] # {} /\ alt[h] = {}
      BY <1>1, <2>1, <2>5 DEF With, InFlight, Queued
    <3>2. st[h] = "queued" /\ waitlist[h] = {} /\ alternates[h] = {}
      BY <2>1, <2>5, StageIs
    <3>3. StagesOf(waitlist', annd, alt)[h] = "queued"
      BY <3>1 DEF StagesOf
    <3> QED BY <2>2, <2>5, <3>1, <3>2, <3>3
  <2>6. CASE h \in kept /\ alternates[h] = {} /\ announced[h] = {}
    <3>1. waitlist'[h] = waitlist[h] \cup {p} /\ waitlist'[h] # {} /\ annd[h] = {} /\ alt[h] = {}
      BY <1>1, <2>1, <2>6 DEF With, InFlight, Queued
    <3>2. st[h] \in {"waiting", "unknown"}
      BY <2>1, <2>6, StageIs
    <3>3. StagesOf(waitlist', annd, alt)[h] = "waiting"
      BY <3>1 DEF StagesOf
    <3> QED BY <2>2, <2>6, <3>1, <3>2, <3>3
  <2> QED BY <2>3, <2>4, <2>5, <2>6
<1>4. AfterEvent(src1, st1, fetching)
  <2>1. src1 = [h \in Hashes |-> src1[h]] /\ st1 = [h \in Hashes |-> st1[h]]
    OBVIOUS
  <2> HIDE DEF src1, st1, annd, alt
  <2> QED BY <1>2, <1>3, <2>1, EventOf
<1> QED BY <1>4 DEF AfterEvent, Automaton!Announce, Automaton!AfterEvent, Sources, StagesOf

\* The end of the wait expires the hashes whose time is up.
LEMMA WaitTriggerExpires ==
    ASSUME IInv, IInv', HandleWaitTrigger
    PROVE  \E hs \in SUBSET Hashes : Automaton!Expire(hs)
<1> DEFINE expired == {h \in Hashes : waittime[h] = "ripe"}
           annd == [h \in Hashes |-> IF h \in expired THEN waitlist[h] ELSE announced[h]]
           src  == Sources(waitlist, announced, alternates)
           st   == StagesOf(waitlist, announced, alternates)
           st1  == [h \in Hashes |-> IF h \in expired THEN "queued" ELSE st[h]]
<1>1. /\ waitlist' = Clear(waitlist, expired)
      /\ \E actives, ann, bad :
            ScheduleFetches(actives, ann, annd, alternates, fetching, requests, timeoutTimer, bad)
  BY DEF HandleWaitTrigger
<1>2. AfterEvent(Sources(waitlist', annd, alternates),
                 StagesOf(waitlist', annd, alternates), fetching)
  <2>1. PICK actives, ann, bad :
          ScheduleFetches(actives, ann, annd, alternates, fetching, requests, timeoutTimer, bad)
    BY <1>1
  <2> HIDE DEF annd
  <2> QED BY <2>1, HandsOut
<1>3. ASSUME NEW h \in expired
      PROVE  waitlist[h] # {} /\ announced[h] = {} /\ alternates[h] = {}
  BY Mapped
<1>4. ASSUME NEW h \in Hashes
      PROVE  /\ waitlist'[h] \cup annd[h] \cup alternates[h] = src[h]
             /\ StagesOf(waitlist', annd, alternates)[h] = st1[h]
  <2>1. CASE h \in expired
    <3>1. waitlist'[h] = {} /\ annd[h] = waitlist[h]
      BY <1>1, <2>1 DEF Clear
    <3> QED BY <1>3, <2>1, <3>1 DEF Sources, StagesOf
  <2>2. CASE h \notin expired
    <3>1. waitlist'[h] = waitlist[h] /\ annd[h] = announced[h]
      BY <1>1, <2>2 DEF Clear
    <3> QED BY <2>2, <3>1 DEF Sources, StagesOf
  <2> QED BY <2>1, <2>2
<1>5. AfterEvent(src, st1, fetching)
  <2>1. src = [h \in Hashes |-> src[h]] /\ st1 = [h \in Hashes |-> st1[h]]
    BY DEF Sources
  <2> HIDE DEF src, st1, annd
  <2> QED BY <1>2, <1>4, <2>1, EventOf
<1>6. \A h \in expired : st[h] = "waiting"
  BY <1>3 DEF StagesOf
<1>7. expired \in SUBSET Hashes
  OBVIOUS
<1> HIDE DEF expired
<1> QED BY <1>5, <1>6, <1>7 DEF AfterEvent, Automaton!Expire, Automaton!AfterEvent, Sources, StagesOf

\* The hashes gone have left every stage; what the peers done still owed is with
\* its other sources; nothing else has changed.
FinishLeaves(gone, done, keep, wl, annd, alt, fet) ==
    \A h \in Hashes :
        /\ h \in gone => wl[h] = {} /\ annd[h] = {} /\ alt[h] = {} /\ fet[h] = NoPeer
        /\ h \notin gone /\ fetching[h] \in done =>
              /\ wl[h] = {} /\ alt[h] = {} /\ fet[h] = NoPeer
              /\ annd[h] = IF h \in keep THEN alternates[h] ELSE alternates[h] \ {fetching[h]}
        /\ h \notin gone /\ fetching[h] \notin done =>
              /\ wl[h] = waitlist[h] /\ annd[h] = announced[h] /\ alt[h] = alternates[h]
              /\ fet[h] = fetching[h]

LEMMA FinishOf ==
    ASSUME IInv, NEW gone \in SUBSET Hashes, NEW done \in SUBSET Peers, NEW keep,
           NEW wl, NEW annd, NEW alt, NEW fet,
           AfterEvent(Sources(wl, annd, alt), StagesOf(wl, annd, alt), fet),
           fet = [h \in Hashes |-> fet[h]],
           FinishLeaves(gone, done, keep, wl, annd, alt, fet)
    PROVE  Automaton!Finish(gone, done, keep)
<1> DEFINE Owned(p) == {h \in Hashes : fetching[h] = p}
           owed == (UNION {Owned(p) : p \in done}) \ gone
           src  == Sources(waitlist, announced, alternates)
           st   == StagesOf(waitlist, announced, alternates)
           src1 == [h \in Hashes |->
                      CASE h \in gone -> {}
                        [] h \in owed \ keep -> src[h] \ {fetching[h]}
                        [] OTHER -> src[h]]
           Ended(h) == h \in gone \/ (h \in owed /\ src1[h] = {})
           st1 == [h \in Hashes |-> IF Ended(h) THEN "unknown"
                                    ELSE IF h \in owed THEN "queued" ELSE st[h]]
           own1 == [h \in Hashes |-> IF h \in gone \cup owed THEN NoPeer ELSE fetching[h]]
<1>1. ASSUME NEW h \in Hashes
      PROVE  h \in owed <=> h \notin gone /\ fetching[h] \in done
  <2> DEFINE sets == {Owned(p) : p \in done}
  <2>1. h \in UNION sets <=> \E S \in sets : h \in S
    <3> HIDE DEF sets
    <3> QED OBVIOUS
  <2>2. ASSUME fetching[h] \in done PROVE \E S \in sets : h \in S
    <3>1. h \in Owned(fetching[h])
      OBVIOUS
    <3>2. Owned(fetching[h]) \in sets
      BY <2>2
    <3> HIDE DEF sets, Owned
    <3> QED BY <3>1, <3>2
  <2>3. ASSUME NEW S \in sets, h \in S PROVE fetching[h] \in done
    <3>1. PICK p \in done : S = Owned(p)
      BY <2>3
    <3>2. fetching[h] = p
      BY <2>3, <3>1
    <3> QED BY <3>2
  <2>4. owed = (UNION sets) \ gone
    OBVIOUS
  <2> HIDE DEF owed, sets
  <2>5. h \in owed <=> h \in UNION sets /\ h \notin gone
    BY <2>4
  <2>6. h \in UNION sets <=> fetching[h] \in done
    BY <2>1, <2>2, <2>3
  <2> QED BY <2>5, <2>6
<1> HIDE DEF owed
<1>2. ASSUME NEW h \in Hashes
      PROVE  /\ wl[h] \cup annd[h] \cup alt[h] = src1[h]
             /\ StagesOf(wl, annd, alt)[h] = st1[h]
             /\ fet[h] = own1[h]
  <2>1. CASE h \in gone
    <3>1. wl[h] = {} /\ annd[h] = {} /\ alt[h] = {} /\ fet[h] = NoPeer
      BY <2>1 DEF FinishLeaves
    <3>2. StagesOf(wl, annd, alt)[h] = "unknown"
      BY <3>1 DEF StagesOf
    <3>3. src1[h] = {} /\ own1[h] = NoPeer
      BY <1>1, <2>1
    <3>4. Ended(h) => st1[h] = "unknown"
      OBVIOUS
    <3>5. Ended(h)
      BY <2>1
    <3> QED BY <3>1, <3>2, <3>3, <3>4, <3>5
  <2>2. CASE h \in owed
    <3>1. h \notin gone /\ fetching[h] \in done
      BY <1>1, <2>2
    <3>2. waitlist[h] = {} /\ announced[h] = {}
      BY <3>1, Mapped, FetcherAssumption
    <3>3. src[h] = alternates[h]
      BY <3>2 DEF Sources
    <3>4. /\ wl[h] = {} /\ alt[h] = {} /\ fet[h] = NoPeer
          /\ annd[h] = IF h \in keep THEN alternates[h] ELSE alternates[h] \ {fetching[h]}
      BY <3>1 DEF FinishLeaves
    <3>5. src1[h] = annd[h] /\ own1[h] = NoPeer
      BY <2>2, <3>1, <3>3, <3>4
    <3>6. st1[h] = IF annd[h] = {} THEN "unknown" ELSE "queued"
      BY <2>2, <3>1, <3>5
    <3>7. StagesOf(wl, annd, alt)[h] = IF annd[h] = {} THEN "unknown" ELSE "queued"
      BY <3>4 DEF StagesOf
    <3> HIDE DEF src1, st1, own1
    <3> QED BY <3>4, <3>5, <3>6, <3>7
  <2>3. CASE h \notin gone /\ h \notin owed
    <3>1. /\ wl[h] = waitlist[h] /\ annd[h] = announced[h] /\ alt[h] = alternates[h]
          /\ fet[h] = fetching[h]
      BY <1>1, <2>3 DEF FinishLeaves
    <3>2. src1[h] = src[h] /\ st1[h] = st[h] /\ own1[h] = fetching[h]
      BY <2>3
    <3>3. StagesOf(wl, annd, alt)[h] = st[h] /\ src[h] = waitlist[h] \cup announced[h] \cup alternates[h]
      BY <3>1 DEF StagesOf, Sources
    <3> HIDE DEF src1, st1, own1
    <3> QED BY <3>1, <3>2, <3>3
  <2> QED BY <2>1, <2>2, <2>3
<1>3. AfterEvent(src1, st1, own1)
  <2>1. /\ src1 = [h \in Hashes |-> src1[h]] /\ st1 = [h \in Hashes |-> st1[h]]
        /\ own1 = [h \in Hashes |-> own1[h]]
    OBVIOUS
  <2> HIDE DEF src1, st1, own1
  <2>2. fet = own1
    BY <1>2, <2>1
  <2> QED BY <1>2, <2>1, <2>2, EventOf
<1> QED BY <1>3 DEF AfterEvent, Automaton!Finish, Automaton!Owned, Automaton!AfterEvent,
                    Sources, StagesOf, owed

\* The requests given up are fetches that have not ended with an answer.
LEMMA TimeoutTriggerFinishes ==
    ASSUME IInv, IInv', HandleTimeoutTrigger
    PROVE  Automaton!Timeout
<1> DEFINE missing == UNION {Pending(p) : p \in Expired}
           Failed(h) == {p \in Expired : h \in Pending(p)}
           annd == [h \in Hashes |-> IF h \in missing THEN alternates[h] \ Failed(h)
                                                      ELSE announced[h]]
           alt  == Clear(alternates, missing)
           fet  == Release(fetching, missing)
<1>1. /\ UNCHANGED waitlist
      /\ \E actives, ann, req, bad :
            ScheduleFetches(actives, ann, annd, alt, fet, req, TRUE, bad)
  BY DEF HandleTimeoutTrigger, stage1
<1>2. AfterEvent(Sources(waitlist', annd, alt), StagesOf(waitlist', annd, alt), fet)
  <2>1. PICK actives, ann, req, bad :
          ScheduleFetches(actives, ann, annd, alt, fet, req, TRUE, bad)
    BY <1>1
  <2> HIDE DEF annd, alt, fet
  <2> QED BY <2>1, HandsOut
<1>3. Expired \in SUBSET Peers
  BY DEF Expired
<1>4. ASSUME NEW h \in Hashes
      PROVE  /\ h \in missing <=> fetching[h] \in Expired
             /\ h \in missing => Failed(h) = {fetching[h]}
  <2>1. \A p \in Expired : h \in Pending(p) <=> fetching[h] = p
    BY <1>3, Mapped
  <2> HIDE DEF Pending, Expired
  <2>2. h \in missing <=> \E p \in Expired : h \in Pending(p)
    OBVIOUS
  <2>3. h \in missing <=> fetching[h] \in Expired
    <3> HIDE DEF missing
    <3> QED BY <2>1, <2>2
  <2>4. fetching[h] \in Expired => Failed(h) = {fetching[h]}
    BY <2>1
  <2> QED BY <2>3, <2>4
<1>5. FinishLeaves({}, Expired, {}, waitlist', annd, alt, fet)
  <2> SUFFICES ASSUME NEW h \in Hashes
               PROVE  /\ fetching[h] \in Expired =>
                            /\ waitlist'[h] = {} /\ alt[h] = {} /\ fet[h] = NoPeer
                            /\ annd[h] = alternates[h] \ {fetching[h]}
                      /\ fetching[h] \notin Expired =>
                            /\ waitlist'[h] = waitlist[h] /\ annd[h] = announced[h]
                            /\ alt[h] = alternates[h] /\ fet[h] = fetching[h]
    BY DEF FinishLeaves
  <2>1. fetching[h] \in Expired => waitlist'[h] = {}
    BY <1>1, <1>3, Mapped, FetcherAssumption
  <2>2. fetching[h] \in Expired => annd[h] = alternates[h] \ {fetching[h]}
    <3> HIDE DEF missing, Failed
    <3> QED BY <1>4
  <2>3. fetching[h] \in Expired => alt[h] = {} /\ fet[h] = NoPeer
    <3> HIDE DEF missing
    <3> QED BY <1>4 DEF Clear, Release
  <2>4. fetching[h] \notin Expired => /\ waitlist'[h] = waitlist[h] /\ annd[h] = announced[h]
                                     /\ alt[h] = alternates[h] /\ fet[h] = fetching[h]
    <3> HIDE DEF missing
    <3> QED BY <1>1, <1>4 DEF Clear, Release
  <2> QED BY <2>1, <2>2, <2>3, <2>4
<1>6. PICK done \in SUBSET Peers : done = Expired
  BY <1>3
<1>7. Automaton!Finish({}, done, {})
  <2>1. fet = [h \in Hashes |-> fet[h]] /\ {} \in SUBSET Hashes
    BY DEF Release
  <2> HIDE DEF annd, alt, fet
  <2> QED BY <1>2, <1>5, <1>6, <2>1, FinishOf
<1> QED BY <1>7 DEF Automaton!Timeout

\* A delivered hash leaves its stage, whichever it is.
LEMMA LeavesAll ==
    ASSUME IInv, NEW hs \in SUBSET Hashes, NEW h \in Hashes, LeaveWaiting(hs)
    PROVE  /\ h \in hs => /\ waitlist'[h] = {} /\ Clear(announced, Cleaned(hs))[h] = {}
                         /\ Clear(alternates, Cleaned(hs))[h] = {}
                         /\ Release(fetching, Cleaned(hs))[h] = NoPeer
           /\ h \notin hs => /\ waitlist'[h] = waitlist[h]
                            /\ Clear(announced, Cleaned(hs))[h] = announced[h]
                            /\ Clear(alternates, Cleaned(hs))[h] = alternates[h]
                            /\ Release(fetching, Cleaned(hs))[h] = fetching[h]
<1>1. /\ waitlist[h] = {} \/ announced[h] = {}
      /\ waitlist[h] = {} \/ alternates[h] = {}
      /\ fetching[h] # NoPeer <=> alternates[h] # {}
  BY Mapped
<1> QED BY <1>1 DEF LeaveWaiting, Cleaned, Clear, Release

\* A broadcast delivers its hashes.
LEMMA BroadcastDelivers ==
    ASSUME IInv, IInv', NEW p \in Peers, NEW hs \in SUBSET Hashes, NEW direct \in BOOLEAN,
           HandleBroadcast(p, hs, direct)
    PROVE  Automaton!Deliver(hs)
<1>1. /\ LeaveWaiting(hs)
      /\ announced' = Clear(announced, Cleaned(hs)) /\ alternates' = Clear(alternates, Cleaned(hs))
      /\ fetching' = Release(fetching, Cleaned(hs))
  BY DEF HandleBroadcast
<1>2. AfterEvent(Sources(waitlist', announced', alternates'),
                 StagesOf(waitlist', announced', alternates'), fetching')
  <2>1. fetching' \in [Hashes -> Peers \cup {NoPeer}]
    BY DEF IInv, Typed
  <2>2. StagesOf(waitlist', announced', alternates')
          = [h \in Hashes |-> StagesOf(waitlist', announced', alternates')[h]]
    BY DEF StagesOf
  <2> QED BY <2>1, <2>2 DEF AfterEvent
<1>3. FinishLeaves(hs, {}, {}, waitlist', announced', alternates', fetching')
  BY <1>1, LeavesAll DEF FinishLeaves
<1>4. fetching' = [h \in Hashes |-> fetching'[h]] /\ {} \in SUBSET Peers
  BY <1>1 DEF Release
<1>5. Automaton!Finish(hs, {}, {})
  BY <1>2, <1>3, <1>4, FinishOf
<1> QED BY <1>5 DEF Automaton!Deliver

\* A reply finishes the fetch from its peer.
LEMMA ReplyFinishes ==
    ASSUME IInv, IInv', NEW p \in Peers, NEW hs \in SUBSET Hashes, HandleReply(p, hs)
    PROVE  Automaton!Reply(p, hs)
<1> DEFINE req     == Marked(p, hs, TRUE)[p]
           asked   == req.hashes \ req.stolen
           missing == asked \ hs
           alt0    == Clear(alternates, Cleaned(hs))
           annd0   == Clear(announced, Cleaned(hs))
<1>1. PICK before \in SUBSET missing :
        LET rest == Without(alt0, before, {p})
        IN  \E actives, ann, reqs, bad :
              ScheduleFetches(actives, ann,
                  [h \in Hashes |-> IF h \in missing /\ rest[h] # {} THEN rest[h] ELSE annd0[h]],
                  Clear(rest, asked), Release(fetching, Cleaned(hs) \cup asked),
                  reqs, timeoutTimer, bad)
  BY DEF HandleReply
<1> DEFINE rest == Without(alt0, before, {p})
           annd == [h \in Hashes |-> IF h \in missing /\ rest[h] # {} THEN rest[h] ELSE annd0[h]]
           alt  == Clear(rest, asked)
           fet  == Release(fetching, Cleaned(hs) \cup asked)
           keep == missing \ before
<1>2. AfterEvent(Sources(waitlist', annd, alt), StagesOf(waitlist', annd, alt), fet)
  <2>1. PICK actives, ann, reqs, bad :
          ScheduleFetches(actives, ann, annd, alt, fet, reqs, timeoutTimer, bad)
    BY <1>1
  <2> HIDE DEF annd, alt, fet
  <2> QED BY <2>1, HandsOut
<1>3. asked = Pending(p)
  <2>1. req.hashes = requests[p].hashes /\ req.stolen = requests[p].stolen \cup Stolen(p, hs, TRUE, p)
    <3>1. requests[p] \in Request
      BY DEF IInv, Typed
    <3>2. req = [requests[p] EXCEPT !.stolen = @ \cup Stolen(p, hs, TRUE, p)]
      BY DEF Marked
    <3> HIDE DEF req
    <3> QED BY <3>1, <3>2 DEF Request
  <2>2. Stolen(p, hs, TRUE, p) = {}
    BY DEF Stolen
  <2> HIDE DEF req
  <2> QED BY <2>1, <2>2 DEF Pending
<1>4. \A h \in Hashes : h \in asked <=> fetching[h] = p
  <2> HIDE DEF asked
  <2> QED BY <1>3, Mapped
<1> HIDE DEF asked
<1>5. LeaveWaiting(hs)
  BY DEF HandleReply
<1>6. ASSUME NEW h \in Hashes
      PROVE  /\ h \in hs => waitlist'[h] = {} /\ annd[h] = {} /\ alt[h] = {} /\ fet[h] = NoPeer
             /\ h \notin hs /\ fetching[h] = p =>
                   /\ waitlist'[h] = {} /\ alt[h] = {} /\ fet[h] = NoPeer
                   /\ annd[h] = IF h \in keep THEN alternates[h] ELSE alternates[h] \ {p}
             /\ h \notin hs /\ fetching[h] # p =>
                   /\ waitlist'[h] = waitlist[h] /\ annd[h] = announced[h]
                   /\ alt[h] = alternates[h] /\ fet[h] = fetching[h]
  <2>1. CASE h \in hs
    <3>1. waitlist'[h] = {} /\ annd0[h] = {} /\ alt0[h] = {}
          /\ Release(fetching, Cleaned(hs))[h] = NoPeer
      BY <1>5, <2>1, LeavesAll
    <3>2. h \notin before /\ h \notin missing
      BY <2>1
    <3>3. rest[h] = {}
      BY <3>1, <3>2 DEF Without
    <3>4. annd[h] = {}
      BY <3>1, <3>2
    <3>5. alt[h] = {}
      BY <3>3 DEF Clear
    <3>6. fet[h] = NoPeer
      BY <3>1 DEF Release
    <3> QED BY <2>1, <3>1, <3>4, <3>5, <3>6
  <2>2. CASE h \notin hs /\ fetching[h] = p
    <3>1. waitlist'[h] = waitlist[h] /\ annd0[h] = announced[h] /\ alt0[h] = alternates[h]
      BY <1>5, <2>2, LeavesAll
    <3>2. waitlist[h] = {} /\ announced[h] = {}
      BY <2>2, Mapped, FetcherAssumption
    <3>3. h \in asked /\ h \in missing /\ (h \in keep <=> h \notin before)
      BY <1>4, <2>2
    <3>4. rest[h] = IF h \in before THEN alternates[h] \ {p} ELSE alternates[h]
      BY <3>1 DEF Without
    <3>5. annd[h] = rest[h]
      <4> HIDE DEF rest, annd0, missing
      <4>1. annd[h] = IF rest[h] # {} THEN rest[h] ELSE annd0[h]
        BY <3>3
      <4> QED BY <3>1, <3>2, <4>1
    <3>6. alt[h] = {} /\ fet[h] = NoPeer
      BY <3>3 DEF Clear, Release
    <3> QED BY <2>2, <3>1, <3>2, <3>3, <3>4, <3>5, <3>6
  <2>3. CASE h \notin hs /\ fetching[h] # p
    <3>1. /\ waitlist'[h] = waitlist[h] /\ annd0[h] = announced[h] /\ alt0[h] = alternates[h]
          /\ Release(fetching, Cleaned(hs))[h] = fetching[h]
      BY <1>5, <2>3, LeavesAll
    <3>2. h \notin asked /\ h \notin missing /\ h \notin before
      BY <1>4, <2>3
    <3>3. rest[h] = alternates[h] /\ annd[h] = announced[h]
      BY <3>1, <3>2 DEF Without
    <3>4. alt[h] = alternates[h]
      BY <3>2, <3>3 DEF Clear
    <3>5. fet[h] = fetching[h]
      BY <3>1, <3>2 DEF Release
    <3> QED BY <2>3, <3>1, <3>3, <3>4, <3>5
  <2> QED BY <2>1, <2>2, <2>3
<1>7. FinishLeaves(hs, {p}, keep, waitlist', annd, alt, fet)
  <2> HIDE DEF annd, alt, fet, keep
  <2> QED BY <1>6 DEF FinishLeaves
<1>8. PICK kept \in SUBSET Automaton!Owned(p) : kept = keep
  BY <1>3, <1>4, Mapped DEF Automaton!Owned
<1>9. Automaton!Finish(hs, {p}, kept)
  <2>1. fet = [h \in Hashes |-> fet[h]] /\ {p} \in SUBSET Peers
    BY DEF Release
  <2> HIDE DEF annd, alt, fet, keep
  <2> QED BY <1>2, <1>7, <1>8, <2>1, FinishOf
<1> QED BY <1>9 DEF Automaton!Reply

\* A dropped peer leaves: it is a source no more of what waits for it, of what
\* it was asked for, and of what it announced that is queued.
LEMMA DropLeaves ==
    ASSUME IInv, IInv', NEW p \in Peers, HandleDrop(p)
    PROVE  \E hs \in SUBSET Hashes : Automaton!Leave(p, hs)
<1> DEFINE rest == Without(alternates, Pending(p), {p})
           requeued == [h \in Hashes |-> IF h \in Pending(p) /\ rest[h] # {} THEN rest[h]
                                                                            ELSE announced[h]]
           annd == Without(requeued, announces[p], {p})
           alt  == Clear(rest, Pending(p))
           fet  == Release(fetching, Pending(p))
           hs   == {h \in Hashes : \/ h \in waitslots[p] \/ fetching[h] = p
                                   \/ h \in announces[p] /\ fetching[h] = NoPeer}
           src  == Sources(waitlist, announced, alternates)
           st   == StagesOf(waitlist, announced, alternates)
           src1 == [h \in Hashes |-> IF h \in hs THEN src[h] \ {p} ELSE src[h]]
           st1  == [h \in Hashes |-> IF src1[h] = {} THEN "unknown"
                                     ELSE IF fetching[h] = p THEN "queued" ELSE st[h]]
           own1 == [h \in Hashes |-> IF fetching[h] = p THEN NoPeer ELSE fetching[h]]
<1>1. /\ waitlist' = Without(waitlist, waitslots[p], {p})
      /\ \E actives, ann, req, armed, bad :
            ScheduleFetches(actives, ann, annd, alt, fet, req, armed, bad)
  BY DEF HandleDrop
<1>2. AfterEvent(Sources(waitlist', annd, alt), StagesOf(waitlist', annd, alt), fet)
  <2>1. PICK actives, ann, req, armed, bad :
          ScheduleFetches(actives, ann, annd, alt, fet, req, armed, bad)
    BY <1>1
  <2> HIDE DEF annd, alt, fet
  <2> QED BY <2>1, HandsOut
<1>3. \A h \in Hashes : h \in Pending(p) <=> fetching[h] = p
  BY Mapped
<1>4. ASSUME NEW h \in Hashes
      PROVE  /\ waitlist'[h] \cup annd[h] \cup alt[h] = src1[h]
             /\ StagesOf(waitlist', annd, alt)[h] = st1[h]
             /\ fet[h] = own1[h]
  <2>1. /\ waitlist[h] = {} \/ announced[h] = {}
        /\ waitlist[h] = {} \/ alternates[h] = {}
        /\ announced[h] = {} \/ alternates[h] = {}
        /\ fetching[h] # NoPeer <=> alternates[h] # {}
        /\ h \in waitslots[p] <=> p \in waitlist[h]
        /\ h \in announces[p] => p \in announced[h] \cup alternates[h]
        /\ fetching[h] = p => h \in announces[p] /\ p \in alternates[h]
    BY Mapped
  <2>2. src[h] = waitlist[h] \cup announced[h] \cup alternates[h]
    BY DEF Sources
  <2>3. waitlist'[h] = IF h \in waitslots[p] THEN waitlist[h] \ {p} ELSE waitlist[h]
    BY <1>1 DEF Without
  <2>4. fet[h] = own1[h]
    BY <1>3 DEF Release
  <2>5. CASE fetching[h] = p
    <3>1. waitlist[h] = {} /\ announced[h] = {} /\ h \in hs
      BY <2>1, <2>5, FetcherAssumption
    <3>2. rest[h] = alternates[h] \ {p} /\ alt[h] = {}
      BY <1>3, <2>5 DEF Without, Clear
    <3>3. requeued[h] = rest[h]
      BY <1>3, <2>5, <3>1
    <3>4. annd[h] = alternates[h] \ {p}
      <4> HIDE DEF requeued
      <4> QED BY <3>2, <3>3 DEF Without
    <3>5. waitlist'[h] = {} /\ src1[h] = annd[h]
      BY <2>2, <2>3, <3>1, <3>4
    <3>6. st1[h] = IF annd[h] = {} THEN "unknown" ELSE "queued"
      BY <2>5, <3>5
    <3>7. StagesOf(waitlist', annd, alt)[h] = IF annd[h] = {} THEN "unknown" ELSE "queued"
      BY <3>2, <3>5 DEF StagesOf
    <3> QED BY <2>4, <3>2, <3>5, <3>6, <3>7
  <2>6. CASE fetching[h] # p
    <3>1. rest[h] = alternates[h] /\ alt[h] = alternates[h] /\ requeued[h] = announced[h]
      BY <1>3, <2>6 DEF Without, Clear
    <3>2. annd[h] = IF h \in announces[p] THEN announced[h] \ {p} ELSE announced[h]
      <4> HIDE DEF requeued
      <4> QED BY <3>1 DEF Without
    <3>3. h \in hs <=> h \in waitslots[p] \/ (h \in announces[p] /\ fetching[h] = NoPeer)
      BY <2>6
    <3>4. waitlist'[h] \cup annd[h] \cup alt[h] = src1[h]
      <4>1. src1[h] = IF h \in hs THEN src[h] \ {p} ELSE src[h]
        OBVIOUS
      <4>2. CASE h \in waitslots[p]
        BY <2>1, <2>2, <2>3, <3>1, <3>2, <3>3, <4>1, <4>2
      <4>3. CASE h \notin waitslots[p] /\ fetching[h] = NoPeer
        BY <2>1, <2>2, <2>3, <3>1, <3>2, <3>3, <4>1, <4>3
      <4>4. CASE h \notin waitslots[p] /\ fetching[h] # NoPeer
        BY <2>1, <2>2, <2>3, <3>1, <3>2, <3>3, <4>1, <4>4
      <4> QED BY <4>2, <4>3, <4>4
    <3>5. st1[h] = IF src1[h] = {} THEN "unknown" ELSE st[h]
      BY <2>6
    <3>6. /\ waitlist'[h] # {} => waitlist[h] # {}
          /\ annd[h] # {} => announced[h] # {}
      BY <2>3, <3>2
    <3>7. StagesOf(waitlist', annd, alt)[h] = IF src1[h] = {} THEN "unknown" ELSE st[h]
      <4>1. CASE src1[h] = {}
        BY <3>4, <4>1 DEF StagesOf
      <4>2. CASE src1[h] # {}
        BY <2>1, <3>1, <3>4, <3>6, <4>2 DEF StagesOf
      <4> QED BY <4>1, <4>2
    <3> QED BY <2>4, <3>4, <3>5, <3>7
  <2> QED BY <2>5, <2>6
<1>5. AfterEvent(src1, st1, own1)
  <2>1. /\ src1 = [h \in Hashes |-> src1[h]] /\ st1 = [h \in Hashes |-> st1[h]]
        /\ own1 = [h \in Hashes |-> own1[h]]
    OBVIOUS
  <2>2. fet = [h \in Hashes |-> fet[h]]
    BY DEF Release
  <2> HIDE DEF src1, st1, own1, annd, alt, fet
  <2>3. fet = own1
    BY <1>4, <2>1, <2>2
  <2> QED BY <1>2, <1>4, <2>1, <2>3, EventOf
<1>6. /\ hs \in SUBSET Hashes /\ Automaton!Owned(p) \subseteq hs
      /\ \A h \in hs : fetching[h] \in {p, NoPeer}
  BY Mapped DEF Automaton!Owned
<1> HIDE DEF hs
<1> QED BY <1>5, <1>6 DEF AfterEvent, Automaton!Leave, Automaton!AfterEvent, Sources, StagesOf

\* The goroutines of the requests and the clock do nothing the automaton sees.
LEMMA OthersStutter ==
    ASSUME Goroutine \/ Clock
    PROVE  UNCHANGED <<waitlist, announced, alternates, fetching>>
<1>1. CASE Goroutine
  BY <1>1 DEF Goroutine, FetchSent, FetchFails, stage1, maps
<1>2. CASE Clock
  BY <1>2 DEF Clock, Ripen, Overdue, stage1, maps
<1> QED BY <1>1, <1>2

\* Initially no hash is known.
LEMMA InitMaps == Init => Automaton!Init
  BY DEF Init, Automaton!Init

\* A step of the fetcher is an event of the automaton, or one it does not see.
LEMMA NextMaps == IInv /\ [Next]_vars => [Automaton!Next]_(Automaton!vars)
<1> SUFFICES ASSUME IInv, [Next]_vars PROVE [Automaton!Next]_(Automaton!vars)
  OBVIOUS
<1>1. IInv'
  BY NextInv
<1>2. CASE Handler
  <2>1. ASSUME NEW p \in Peers, NEW hs \in SUBSET Hashes, HandleNotify(p, hs) PROVE Automaton!Next
    BY <1>1, <2>1, NotifyAnnounces DEF Automaton!Next
  <2>2. ASSUME NEW p \in Peers, NEW hs \in SUBSET Hashes, NEW direct \in BOOLEAN,
               HandleBroadcast(p, hs, direct)
        PROVE  Automaton!Next
    BY <1>1, <2>2, BroadcastDelivers DEF Automaton!Next
  <2>3. ASSUME NEW p \in Peers, NEW hs \in SUBSET Hashes, HandleReply(p, hs) PROVE Automaton!Next
    BY <1>1, <2>3, ReplyFinishes DEF Automaton!Next
  <2>4. ASSUME NEW p \in Peers, HandleDrop(p) PROVE Automaton!Next
    BY <1>1, <2>4, DropLeaves DEF Automaton!Next
  <2>5. HandleWaitTrigger => Automaton!Next
    BY <1>1, WaitTriggerExpires DEF Automaton!Next
  <2>6. HandleTimeoutTrigger => Automaton!Next
    BY <1>1, TimeoutTriggerFinishes DEF Automaton!Next
  <2> QED BY <1>2, <2>1, <2>2, <2>3, <2>4, <2>5, <2>6 DEF Handler
<1>3. CASE Goroutine \/ Clock
  BY <1>3, OthersStutter DEF Automaton!vars
<1>4. CASE UNCHANGED vars
  BY <1>4 DEF vars, stage1, maps, Automaton!vars
<1> QED BY <1>2, <1>3, <1>4 DEF Next

\* The fetcher implements the documented automaton: no step forgets a source of
\* a hash that is still tracked, but those of a peer that left or of a fetch
\* that failed, and none asks a peer for a second batch.
THEOREM FetcherImplementsAutomaton == Spec => ImplementsAutomaton
BY InitMaps, NextMaps, Consistent, PTL DEF Spec, ImplementsAutomaton, Automaton!Spec
==============================================================================
