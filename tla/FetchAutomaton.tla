--------------------------- MODULE FetchAutomaton ---------------------------
(***************************************************************************)
(* What the transaction fetcher promises: the "finite state automata" of   *)
(* the invariants documented on TxFetcher in tx_fetcher.go.                *)
(*                                                                         *)
(* A tracked hash is in one stage, with the peers it can be had from.  One *)
(* event, possibly about many hashes, may be followed by handing queued    *)
(* hashes to idle peers that announced them.                               *)
(***************************************************************************)
EXTENDS Naturals, FiniteSets

CONSTANTS Peers, Hashes, NoPeer

VARIABLES
    stage,    \* hash -> unknown, waiting, queued or fetching
    sources,  \* hash -> peers that announced it
    owner     \* hash -> the peer it is being fetched from

vars == <<stage, sources, owner>>

Stages == {"unknown", "waiting", "queued", "fetching"}

Init ==
    /\ stage = [h \in Hashes |-> "unknown"]
    /\ sources = [h \in Hashes |-> {}]
    /\ owner = [h \in Hashes |-> NoPeer]

Owned(p) == {h \in Hashes : owner[h] = p}

\* An event left the hashes with sources src, stages st and owners own; some of
\* the queued ones are handed out at once, to peers that are not asked for any.
AfterEvent(src, st, own) ==
    /\ sources' = src
    /\ owner' \in [Hashes -> Peers \cup {NoPeer}]
    /\ LET given == {h \in Hashes : owner'[h] # own[h]}
       IN /\ \A h \in given : st[h] = "queued" /\ owner'[h] \in src[h]
          /\ \A h \in given, g \in Hashes : own[g] # owner'[h]
          /\ stage' = [h \in Hashes |-> IF h \in given THEN "fetching" ELSE st[h]]

\* Peer p announces hs.
Announce(p, hs) ==
    AfterEvent([h \in Hashes |-> IF h \in hs THEN sources[h] \cup {p} ELSE sources[h]],
               [h \in Hashes |-> IF h \in hs /\ stage[h] = "unknown" THEN "waiting" ELSE stage[h]],
               owner)

\* The hashes hs have waited long enough for a broadcast.
Expire(hs) ==
    /\ \A h \in hs : stage[h] = "waiting"
    /\ AfterEvent(sources, [h \in Hashes |-> IF h \in hs THEN "queued" ELSE stage[h]], owner)

\* The hashes gone were delivered; the peers done answered, or failed to, so
\* what they still owe is queued again for its other sources.  A peer may
\* remain a source of what it owed only if it answered (keep).
Finish(gone, done, keep) ==
    LET owed   == (UNION {Owned(p) : p \in done}) \ gone
        src    == [h \in Hashes |->
                    CASE h \in gone -> {}
                      [] h \in owed \ keep -> sources[h] \ {owner[h]}
                      [] OTHER -> sources[h]]
        Ended(h) == h \in gone \/ (h \in owed /\ src[h] = {})
    IN AfterEvent(src,
                  [h \in Hashes |-> IF Ended(h) THEN "unknown"
                                    ELSE IF h \in owed THEN "queued" ELSE stage[h]],
                  [h \in Hashes |-> IF h \in gone \cup owed THEN NoPeer ELSE owner[h]])

Deliver(hs)  == Finish(hs, {}, {})
Reply(p, hs) == \E keep \in SUBSET Owned(p) : Finish(hs, {p}, keep)
Timeout      == \E done \in SUBSET Peers : Finish({}, done, {})

\* Peer p is gone, and a source no more: not of what it was asked for, but it
\* may stay one of what was fetched from another peer when it left.
Leave(p, hs) ==
    LET src == [h \in Hashes |-> IF h \in hs THEN sources[h] \ {p} ELSE sources[h]]
    IN /\ Owned(p) \subseteq hs
       /\ \A h \in hs : owner[h] \in {p, NoPeer}
       /\ AfterEvent(src,
                     [h \in Hashes |-> IF src[h] = {} THEN "unknown"
                                       ELSE IF owner[h] = p THEN "queued" ELSE stage[h]],
                     [h \in Hashes |-> IF owner[h] = p THEN NoPeer ELSE owner[h]])

Next ==
    \/ \E p \in Peers, hs \in SUBSET Hashes : Announce(p, hs) \/ Reply(p, hs) \/ Leave(p, hs)
    \/ \E hs \in SUBSET Hashes : Expire(hs) \/ Deliver(hs)
    \/ Timeout

Spec == Init /\ [][Next]_vars

\* The documented invariant: a hash is in exactly the stage its sources and its
\* owner say.
OneStage ==
    \A h \in Hashes :
        /\ stage[h] \in Stages
        /\ (stage[h] = "unknown") = (sources[h] = {})
        /\ (stage[h] = "fetching") = (owner[h] # NoPeer)
        /\ owner[h] # NoPeer => owner[h] \in sources[h]
=============================================================================
