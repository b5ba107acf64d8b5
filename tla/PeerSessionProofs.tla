------------------------- MODULE PeerSessionProofs -------------------------
(***************************************************************************)
(* With sessions that come and go the fetcher still takes its own steps    *)
(* only, so that all that is proved of it holds of the two together, and   *)
(* it tracks nothing for a peer that was never in the peer set.            *)
(***************************************************************************)
EXTENDS PeerSession, TxFetcherProofs

\* A step of the sessions is one of the fetcher, or leaves the fetcher alone.
LEMMA SessionSteps == [SessionNext]_allVars => [Next]_vars
<1> SUFFICES ASSUME SessionNext PROVE Next \/ UNCHANGED vars
  BY DEF allVars
<1>1. ASSUME NEW p \in Peers, Message(p) PROVE Handler
  <2>1. PICK hs \in SUBSET Hashes : \/ hs # {} /\ HandleNotify(p, hs)
                                    \/ \E direct \in BOOLEAN : HandleBroadcast(p, hs, direct)
                                    \/ HandleReply(p, hs)
    BY <1>1 DEF Message
  <2> QED BY <2>1 DEF Handler
<1>2. ASSUME NEW p \in Peers, RequestSent(p) \/ RequestFails(p) PROVE Goroutine
  BY <1>2 DEF RequestSent, RequestFails, Goroutine
<1>3. ASSUME NEW p \in Peers, DropServed(p) PROVE Handler
  BY <1>3 DEF DropServed, Handler
<1>4. ASSUME Triggers PROVE Handler
  BY <1>4 DEF Triggers, Handler
<1>5. ASSUME Passing PROVE Clock
  BY <1>5 DEF Passing
<1>6. ASSUME NEW p \in Peers, Connect(p) \/ Disconnect(p) PROVE UNCHANGED vars
  BY <1>6 DEF Connect, Disconnect
<1> QED BY <1>1, <1>2, <1>3, <1>4, <1>5, <1>6 DEF SessionNext, Next

\* The fetcher among its peers behaves as the fetcher on its own: what the p2p server
\* and the peer set do never touches its maps.
THEOREM SessionsRunTheFetcher == SessionSpec => Spec
<1>1. SessionInit => Init
  BY DEF SessionInit
<1> QED BY <1>1, SessionSteps, PTL DEF SessionSpec, Spec

\* Nothing is tracked for p.
Untracked(p) == announces[p] = {} /\ waitslots[p] = {}

\* scheduleFetches leaves the announcements it is given.
LEMMA SchedulesThose ==
    ASSUME NEW actives, NEW ann, NEW annd, NEW alt, NEW fet, NEW req, NEW armed, NEW bad,
           ScheduleFetches(actives, ann, annd, alt, fet, req, armed, bad)
    PROVE  announces' = ann
BY DEF ScheduleFetches

\* What a message of one peer brings is tracked for that peer only.
LEMMA MessageTracks ==
    ASSUME IInv, NEW p \in Peers, Message(p), NEW q \in Peers, q # p, Untracked(q)
    PROVE  Untracked(q)'
<1>1. /\ announces \in [Peers -> SUBSET Hashes] /\ waitslots \in [Peers -> SUBSET Hashes]
  BY DEF IInv, Typed
<1>2. ASSUME NEW hs \in SUBSET Hashes, HandleNotify(p, hs) PROVE Untracked(q)'
  <2>1. PICK S, T : /\ waitslots' = [waitslots EXCEPT ![p] = @ \cup S]
                    /\ announces' = [announces EXCEPT ![p] = @ \cup T]
    <3>1. PICK kept \in SUBSET hs :
            LET waiting == kept \ (InFlight(kept) \cup Queued(kept))
                ann == [announces EXCEPT ![p] = @ \cup InFlight(kept) \cup Queued(kept)]
            IN  /\ waitslots' = [waitslots EXCEPT ![p] = @ \cup waiting]
                /\ ScheduleFetches(IF announces[p] = {} /\ ann[p] # {} THEN {p} ELSE {},
                                   ann, With(announced, Queued(kept), {p}),
                                   With(alternates, InFlight(kept), {p}),
                                   fetching, requests, timeoutTimer, FALSE)
      BY <1>2 DEF HandleNotify
    <3>2. announces' = [announces EXCEPT ![p] = @ \cup InFlight(kept) \cup Queued(kept)]
      BY <3>1, SchedulesThose
    <3>3. announces' = [announces EXCEPT ![p] = @ \cup (InFlight(kept) \cup Queued(kept))]
      BY <3>2
    <3> QED BY <3>1, <3>3
  <2> QED BY <1>1, <2>1 DEF Untracked
<1>3. ASSUME NEW hs \in SUBSET Hashes, NEW direct, HandleBroadcast(p, hs, direct)
      PROVE  Untracked(q)'
  BY <1>3 DEF HandleBroadcast, LeaveWaiting, Untracked
<1>4. ASSUME NEW hs \in SUBSET Hashes, HandleReply(p, hs) PROVE Untracked(q)'
  <2>1. PICK before :
          announces' = [r \in Peers |-> (announces[r] \ Cleaned(hs))
                                          \ (IF r = p THEN before ELSE {})]
    BY <1>4, SchedulesThose DEF HandleReply
  <2>2. \E gone : waitslots' = [r \in Peers |-> waitslots[r] \ gone]
    BY <1>4 DEF HandleReply, LeaveWaiting
  <2> QED BY <2>1, <2>2 DEF Untracked
<1> QED BY <1>2, <1>3, <1>4 DEF Message

\* The triggers move what a peer announced, or take from it.
LEMMA TriggersTrack ==
    ASSUME IInv, Triggers, NEW q \in Peers, Untracked(q)
    PROVE  Untracked(q)'
<1>1. ASSUME HandleWaitTrigger PROVE Untracked(q)'
  <2> DEFINE expired == {h \in Hashes : waittime[h] = "ripe"}
             Moved(r) == {h \in expired : r \in waitlist[h]}
  <2>1. announces' = [r \in Peers |-> announces[r] \cup Moved(r)]
    BY <1>1, SchedulesThose DEF HandleWaitTrigger
  <2>2. waitslots' = [r \in Peers |-> waitslots[r] \ Moved(r)]
    BY <1>1 DEF HandleWaitTrigger
  <2>3. Moved(q) \subseteq waitslots[q]
    BY DEF IInv, WaitAgrees
  <2> HIDE DEF Moved
  <2> QED BY <2>1, <2>2, <2>3 DEF Untracked
<1>2. ASSUME HandleTimeoutTrigger PROVE Untracked(q)'
  <2>1. announces' = [r \in Peers |-> IF r \in Expired THEN announces[r] \ Pending(r)
                                                       ELSE announces[r]]
    BY <1>2, SchedulesThose DEF HandleTimeoutTrigger
  <2>2. waitslots' = waitslots
    BY <1>2 DEF HandleTimeoutTrigger, stage1
  <2> QED BY <2>1, <2>2 DEF Untracked
<1> QED BY <1>1, <1>2 DEF Triggers

\* Dropping a peer takes what is tracked for it, and nobody else gets any.
LEMMA DropTracks ==
    ASSUME IInv, NEW p \in Peers, DropServed(p), NEW q \in Peers, Untracked(q)
    PROVE  Untracked(q)'
<1>1. announces \in [Peers -> SUBSET Hashes] /\ waitslots \in [Peers -> SUBSET Hashes]
  BY DEF IInv, Typed
<1>2. announces' = [announces EXCEPT ![p] = {}]
  BY SchedulesThose DEF DropServed, HandleDrop
<1>3. waitslots' = [waitslots EXCEPT ![p] = {}]
  BY DEF DropServed, HandleDrop
<1> QED BY <1>1, <1>2, <1>3 DEF Untracked

\* The peer set has seen every peer the fetcher tracks, and the object it holds is
\* that of a session only while the session lasts.
LEMMA SessionKeeps == IInv /\ SessionTypeOK /\ [SessionNext]_allVars => SessionTypeOK'
<1> SUFFICES ASSUME IInv, SessionTypeOK, [SessionNext]_allVars PROVE SessionTypeOK'
  OBVIOUS
<1>0. /\ session \subseteq Peers /\ registered \in [Peers -> Objects]
      /\ \A q \in Peers : registered[q] = "absent" => q \notin session /\ Untracked(q)
      /\ \A q \in Peers : registered[q] = "current" => q \in session
  BY DEF SessionTypeOK, Untracked
<1>1. ASSUME UNCHANGED sessionVars,
             \A q \in Peers : q \notin session /\ Untracked(q) => Untracked(q)'
      PROVE  SessionTypeOK'
  BY <1>0, <1>1 DEF sessionVars, SessionTypeOK, Untracked
<1>2. ASSUME NEW p \in Peers, Connect(p) PROVE SessionTypeOK'
  <2>1. UNCHANGED <<announces, waitslots>> /\ session' = session \cup {p}
        /\ registered' = [registered EXCEPT ![p] = IF @ = "absent" THEN "current" ELSE @]
    BY <1>2 DEF Connect, Register, vars, maps, stage1
  <2> QED BY <1>0, <2>1 DEF SessionTypeOK, Untracked, Objects
<1>3. ASSUME NEW p \in Peers, Disconnect(p) PROVE SessionTypeOK'
  <2>1. UNCHANGED <<announces, waitslots>> /\ session' = session \ {p}
        /\ registered' = [registered EXCEPT ![p] = "stale"]
    BY <1>3 DEF Disconnect, vars, maps, stage1
  <2> QED BY <1>0, <2>1 DEF SessionTypeOK, Untracked, Objects
<1>4. ASSUME NEW p \in Peers, Message(p) PROVE SessionTypeOK'
  <2>1. p \in session /\ UNCHANGED sessionVars
    BY <1>4 DEF Message
  <2> QED BY <1>1, <1>4, <2>1, MessageTracks
<1>5. ASSUME NEW p \in Peers, RequestSent(p) \/ RequestFails(p) PROVE SessionTypeOK'
  <2>1. UNCHANGED <<announces, waitslots, sessionVars>>
    BY <1>5 DEF RequestSent, RequestFails, FetchSent, FetchFails, maps, stage1
  <2> QED BY <1>1, <2>1 DEF Untracked
<1>6. ASSUME NEW p \in Peers, DropServed(p) PROVE SessionTypeOK'
  <2>1. UNCHANGED sessionVars
    BY <1>6 DEF DropServed
  <2> QED BY <1>1, <1>6, <2>1, DropTracks
<1>7. ASSUME Triggers PROVE SessionTypeOK'
  <2>1. UNCHANGED sessionVars
    BY <1>7 DEF Triggers
  <2> QED BY <1>1, <1>7, <2>1, TriggersTrack
<1>8. ASSUME Passing PROVE SessionTypeOK'
  <2>1. UNCHANGED <<announces, waitslots, sessionVars>>
    BY <1>8 DEF Passing, Clock, Ripen, Overdue, maps, stage1
  <2> QED BY <1>1, <2>1 DEF Untracked
<1>9. CASE UNCHANGED allVars
  <2>1. UNCHANGED <<announces, waitslots, sessionVars>>
    BY <1>9 DEF allVars, vars, maps, stage1
  <2> QED BY <1>1, <2>1 DEF Untracked
<1> QED BY <1>2, <1>3, <1>4, <1>5, <1>6, <1>7, <1>8, <1>9 DEF SessionNext

\* In whatever order peers connect, leave and come back, and whatever the fetcher has
\* kept of them: a message finds its peer in the peer set, and no request goes out
\* through the object of a session that is over.
THEOREM SessionsTyped == SessionSpec => []SessionTypeOK
<1>1. SessionInit => IInv /\ SessionTypeOK
  <2>1. SessionInit => SessionTypeOK
    BY DEF SessionInit, Init, SessionTypeOK, Objects
  <2> QED BY <2>1, InitInv DEF SessionInit
<1> QED BY <1>1, NextInv, SessionSteps, SessionKeeps, PTL DEF SessionSpec
=============================================================================
