---------------------------- MODULE PeerSession ----------------------------
(***************************************************************************)
(* The transaction fetcher with the peers it serves: the sessions of the   *)
(* p2p server, runPeer, the peer set, and the two callbacks the backend    *)
(* gives the fetcher (backend.go, network.go and peerset.go under          *)
(* pkg/precog).                                                            *)
(*                                                                         *)
(* A session that ends leaves its eth.Peer in the peer set, since nothing  *)
(* calls unregisterPeer, and tells the fetcher nothing.  When the peer     *)
(* comes back registerPeer fails, runPeer goes on, and the peer set still  *)
(* holds the object of the first session.                                  *)
(***************************************************************************)
EXTENDS TxFetcher

VARIABLES
    session,     \* peers with a session: runPeer is in its handler
    registered   \* peer -> the eth.Peer the peer set holds for it

sessionVars == <<session, registered>>
allVars     == <<vars, sessionVars>>

\* The registered object can be absent, that of the session, or of an earlier one.
Objects == {"absent", "current", "stale"}

SessionInit ==
    /\ Init
    /\ session = {}
    /\ registered = [p \in Peers |-> "absent"]

\* Slips a change to the code could make, each in the place of the definition it
\* is named after, to see that the properties notice.
Register_Late(p)     == registered' = registered
RequestFails_Silent(p) ==
    /\ FetchSent(p)
    /\ UNCHANGED sessionVars

\* registerPeer, whose error runPeer ignores.
Register(p) ==
    registered' = [registered EXCEPT ![p] = IF @ = "absent" THEN "current" ELSE @]

\* A handshake succeeds.  The p2p server keeps one session for a peer.
Connect(p) ==
    /\ p \notin session
    /\ session' = session \cup {p}
    /\ Register(p)
    /\ UNCHANGED vars

\* handler(peer) returns: the remote hung up, sent nonsense, or was disconnected.
Disconnect(p) ==
    /\ p \in session
    /\ session' = session \ {p}
    /\ registered' = [registered EXCEPT ![p] = "stale"]
    /\ UNCHANGED vars

\* Messages reach the fetcher while the handler of a session runs (Handle).
Message(p) ==
    /\ p \in session
    /\ \E hs \in SUBSET Hashes :
        \/ hs # {} /\ HandleNotify(p, hs)
        \/ \E direct \in BOOLEAN : HandleBroadcast(p, hs, direct)
        \/ HandleReply(p, hs)
    /\ UNCHANGED sessionVars

\* fetchTx: the request goes through the registered object, and only the one of
\* a session that is still there can send it; even that may fail.
RequestSent(p) ==
    /\ registered[p] = "current"
    /\ FetchSent(p)
    /\ UNCHANGED sessionVars

RequestFails(p) ==
    /\ FetchFails(p)
    /\ UNCHANGED sessionVars

DropServed(p) == HandleDrop(p) /\ UNCHANGED sessionVars

Triggers == (HandleWaitTrigger \/ HandleTimeoutTrigger) /\ UNCHANGED sessionVars

Passing == Clock /\ UNCHANGED sessionVars

SessionNext ==
    ~panicked /\
    \/ \E p \in Peers : \/ Connect(p) \/ Disconnect(p) \/ Message(p)
                        \/ RequestSent(p) \/ RequestFails(p) \/ DropServed(p)
    \/ Triggers \/ Passing

SessionSpec == SessionInit /\ [][SessionNext]_allVars

\* Timers that are due fire, the loop's select picks among its ready cases at
\* random, and the goroutine of a request runs.  Peers owe nothing: they may be
\* silent, and need neither stay nor leave.
SessionFairness ==
    /\ WF_allVars(HandleWaitTrigger /\ UNCHANGED sessionVars)
    /\ WF_allVars(HandleTimeoutTrigger /\ UNCHANGED sessionVars)
    /\ \A h \in Hashes : WF_allVars(Ripen(h) /\ UNCHANGED sessionVars)
    /\ \A p \in Peers :
        /\ WF_allVars(Overdue(p) /\ UNCHANGED sessionVars)
        /\ WF_allVars(RequestSent(p) \/ RequestFails(p))
        /\ WF_allVars(DropServed(p))

SessionFairSpec == SessionSpec /\ SessionFairness

-----------------------------------------------------------------------------
\* A message of a peer finds the peer in the peer set, so that the fetcher can
\* ask it and disconnect it; but only a first session finds its own object.
SessionTypeOK ==
    /\ session \subseteq Peers
    /\ registered \in [Peers -> Objects]
    /\ \A p \in Peers :
        /\ registered[p] = "absent" => p \notin session /\ announces[p] = {} /\ waitslots[p] = {}
        /\ registered[p] = "current" => p \in session

\* A request to a peer that left before it was sent does not hold the peer's
\* slot, or the hashes, for ever: its failure drops the peer.
UnsentIsWithdrawn ==
    \A p \in Peers :
        p \notin session /\ sends[p] > 0 ~> requests[p].status = "none" \/ p \in session

\* "Drop should be called when a peer disconnects. It cleans up all the internal
\* data structures of the given node": what is kept of a peer that left goes.
LeaversForgotten ==
    \A p \in Peers :
        p \notin session ~> \/ p \in session
                            \/ /\ waitslots[p] = {} /\ announces[p] = {}
                               /\ requests[p].status = "none"
=============================================================================
